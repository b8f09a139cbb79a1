---------------------------- MODULE GatedRecords ----------------------------
(***************************************************************************)
(* Change requests and audits: app/api/routes/changes.py and audits.py,    *)
(* the JSON interface, with change_pages.py and audit_pages.py, the        *)
(* browser's.  The two components have one shape: a record of either kind  *)
(* has lines (the impacts of a change, the checklist of an audit) and      *)
(* tasks (its actions, its findings) and closes when every task is closed. *)
(* One table of records of two kinds stands for both; every handler is     *)
(* written down separately, for the four files repeat each other's rules   *)
(* and could disagree.                                                     *)
(*                                                                         *)
(* No handler awaits anything, so in one process each is one step.  With   *)
(* several processes what a handler has read may be out of date when it    *)
(* commits; that matters where a handler checks or computes something      *)
(* first, which are the changes of status and the order of a new line.     *)
(* The status column is in the audit trail (app/core/audit.py): a history  *)
(* row is written with every change of it, in the same transaction.        *)
(*                                                                         *)
(* Left out, because no rule reads them: texts, dates, owners, the CAPA a  *)
(* task is linked with and the checklist item a finding refers to, and so  *)
(* the edits of a record that change nothing else.                         *)
(***************************************************************************)
EXTENDS Naturals, FiniteSets, FiniteSetsExt

CONSTANTS
    ChangeStatus,       \* statuses of a change request
    AuditStatus,        \* statuses of an audit
    Records,            \* ids of change requests and audits
    Lines,              \* ids of impacts and checklist items
    Tasks,              \* ids of actions and findings
    Assessments,        \* impact levels and checklist results
    Pending,            \* the result of a checklist item nobody has assessed
    Users, Grants,      \* users and the permissions their roles grant
    Requests,           \* requests that other processes may be working on
    MaxOrder            \* bound on the display order of a line

ASSUME StatusAssumption ==
    {"Draft", "Closed"} \subseteq ChangeStatus /\ {"Planned", "Closed"} \subseteq AuditStatus
ASSUME PendingAssumption == Pending \in Assessments
ASSUME MaxOrderAssumption == MaxOrder \in Nat

VARIABLES
    records,        \* the change_requests and audits tables
    lines,          \* change_impacts and audit_checklist_items
    tasks,          \* change_actions and audit_findings
    trail,          \* of each record, the end of its history of the status
    deciding,       \* changes of status that are decided and not committed
    adding,         \* new lines that have their order and are not committed
    late,           \* history: records given an open task after their closure was decided
    raced,          \* history: records changed between another's decision and commit
    overtaken       \* history: records deleted between another's decision and commit

tables == <<records, lines, tasks, trail>>

history == <<late, raced, overtaken>>

vars == <<tables, deciding, adding, history>>

Status == ChangeStatus \cup AuditStatus

TaskStatus == {"Open", "In_Progress", "Closed"}

Record == [kind : {"change", "audit"}, status : Status, is_active : BOOLEAN]

Line == [record : Records, assessment : Assessments, display_order : 0 .. MaxOrder]

Task == [record : Records, status : TaskStatus]

\* The new value of the last history row, and whether the old value of some
\* row is not the new value of the one before.
Trail == [last : Status, gap : BOOLEAN]

Decision == [request : Requests, record : Records, loaded : Status, status : Status]

Addition == [request : Requests, record : Records, assessment : Assessments,
             display_order : 0 .. MaxOrder]

TypeOK ==
    /\ DOMAIN records \subseteq Records /\ records \in [DOMAIN records -> Record]
    /\ DOMAIN lines \subseteq Lines /\ lines \in [DOMAIN lines -> Line]
    /\ DOMAIN tasks \subseteq Tasks /\ tasks \in [DOMAIN tasks -> Task]
    /\ trail \in [DOMAIN records -> Trail]
    /\ deciding \subseteq Decision
    /\ adding \subseteq Addition
    /\ late \subseteq Records
    /\ raced \subseteq {"status", "line"} \X Records
    /\ overtaken \subseteq Records

Init ==
    /\ records = [r \in {} |-> Pending]
    /\ lines = [l \in {} |-> Pending]
    /\ tasks = [t \in {} |-> Pending]
    /\ trail = [r \in {} |-> Pending]
    /\ deciding = {}
    /\ adding = {}
    /\ late = {}
    /\ raced = {}
    /\ overtaken = {}

----------------------------------------------------------------------------
(* Tables *)

Insert(table, id, row) ==
    [x \in DOMAIN table \cup {id} |-> IF x = id THEN row ELSE table[x]]

Remove(table, id) == [x \in DOMAIN table \ {id} |-> table[x]]

LinesOf(r) == {l \in DOMAIN lines : lines[l].record = r}

\* open_actions_count and open_findings_count: the tasks not yet closed.
\* Mutant: a task somebody works on does not count.
OpenTasks_Mutant(r) ==
    {t \in DOMAIN tasks : tasks[t].record = r /\ tasks[t].status = "Open"}

OpenTasks(r) ==
    {t \in DOMAIN tasks : tasks[t].record = r /\ tasks[t].status # "Closed"}

\* Mutant: a new line is given the number of lines.
NextOrder_Mutant(r) == Cardinality(LinesOf(r))

NextOrder(r) == Max({lines[l].display_order : l \in LinesOf(r)} \cup {0 - 1}) + 1

\* A history row is written when the value differs from the one loaded.
\* Mutant: the row gets the value loaded as its new value.
AfterUpdate_Mutant(entry, old, new) ==
    IF old = new THEN entry
                 ELSE [last |-> old, gap |-> entry.gap \/ entry.last # old]

AfterUpdate(entry, old, new) ==
    IF old = new THEN entry
                 ELSE [last |-> new, gap |-> entry.gap \/ entry.last # old]

AfterInsert(status) == [last |-> status, gap |-> FALSE]

\* A record whose closure is on its way or done.
Closing(r) ==
    \/ records[r].status = "Closed"
    \/ \E d \in deciding : d.record = r /\ d.status = "Closed"

----------------------------------------------------------------------------
(* What the handlers do to the tables *)

CreateRecord(r, kind, status) ==
    /\ r \notin DOMAIN records
    /\ records' = Insert(records, r, [kind |-> kind, status |-> status, is_active |-> TRUE])
    /\ trail' = Insert(trail, r, AfterInsert(status))
    /\ UNCHANGED <<lines, tasks, deciding, adding, history>>

SetStatus(r, status) ==
    /\ records' = [records EXCEPT ![r].status = status]
    /\ trail' = [trail EXCEPT ![r] = AfterUpdate(@, records[r].status, status)]
    /\ late' = IF status = "Closed" THEN late \ {r} ELSE late
    /\ raced' = IF \E d \in deciding : d.record = r THEN raced \cup {<<"status", r>>}
                                                     ELSE raced
    /\ UNCHANGED <<lines, tasks, deciding, adding, overtaken>>

SoftDelete(r) ==
    /\ records' = [records EXCEPT ![r].is_active = FALSE]
    /\ overtaken' = IF \E h \in deciding \cup adding : h.record = r
                    THEN overtaken \cup {r} ELSE overtaken
    /\ UNCHANGED <<lines, tasks, trail, deciding, adding, late, raced>>

InsertLine(r, l, assessment, order, remaining) ==
    /\ l \notin DOMAIN lines
    /\ lines' = Insert(lines, l, [record |-> r, assessment |-> assessment,
                                  display_order |-> order])
    /\ adding' = remaining
    /\ raced' = IF \E a \in remaining : a.record = r THEN raced \cup {<<"line", r>>}
                                                     ELSE raced
    /\ UNCHANGED <<records, tasks, trail, deciding, late, overtaken>>

AppendLine(r, l, assessment) ==
    /\ NextOrder(r) <= MaxOrder
    /\ InsertLine(r, l, assessment, NextOrder(r), adding)

AssessLine(l, assessment) ==
    /\ lines' = [lines EXCEPT ![l].assessment = assessment]
    /\ UNCHANGED <<records, tasks, trail, deciding, adding, history>>

DeleteLine(l) ==
    /\ lines' = Remove(lines, l)
    /\ UNCHANGED <<records, tasks, trail, deciding, adding, history>>

\* Mutant: a new task has no status until it is edited.
InsertTask_Mutant(r, t) ==
    /\ t \notin DOMAIN tasks
    /\ tasks' = Insert(tasks, t, [record |-> r, status |-> ""])
    /\ late' = IF Closing(r) THEN late \cup {r} ELSE late
    /\ UNCHANGED <<records, lines, trail, deciding, adding, raced, overtaken>>

InsertTask(r, t) ==
    /\ t \notin DOMAIN tasks
    /\ tasks' = Insert(tasks, t, [record |-> r, status |-> "Open"])
    /\ late' = IF Closing(r) THEN late \cup {r} ELSE late
    /\ UNCHANGED <<records, lines, trail, deciding, adding, raced, overtaken>>

SetTaskStatus(r, t, status) ==
    /\ tasks' = [tasks EXCEPT ![t].status = status]
    /\ late' = IF status # "Closed" /\ Closing(r) THEN late \cup {r} ELSE late
    /\ UNCHANGED <<records, lines, trail, deciding, adding, raced, overtaken>>

DeleteTask(t) ==
    /\ tasks' = Remove(tasks, t)
    /\ UNCHANGED <<records, lines, trail, deciding, adding, history>>

----------------------------------------------------------------------------
(* Looking up: a record of the kind that is not deleted, and its children *)

ChangeInOrg(r) ==
    r \in DOMAIN records /\ records[r].kind = "change" /\ records[r].is_active

ImpactInChange(r, l) == l \in LinesOf(r)

ActionInChange(r, t) == t \in DOMAIN tasks /\ tasks[t].record = r

AuditInOrg(r) ==
    r \in DOMAIN records /\ records[r].kind = "audit" /\ records[r].is_active

ItemInAudit(r, l) == l \in LinesOf(r)

FindingInAudit(r, t) == t \in DOMAIN tasks /\ tasks[t].record = r

\* The same lookups of the pages.
\* Mutant: a deleted change can still be opened by its number.
ChangeOr404_Mutant(r) == r \in DOMAIN records /\ records[r].kind = "change"

ChangeOr404(r) ==
    r \in DOMAIN records /\ records[r].kind = "change" /\ records[r].is_active

ImpactOr404(r, l) == l \in LinesOf(r)

ActionOr404(r, t) == t \in DOMAIN tasks /\ tasks[t].record = r

AuditOr404(r) ==
    r \in DOMAIN records /\ records[r].kind = "audit" /\ records[r].is_active

ItemOr404(r, l) == l \in LinesOf(r)

FindingOr404(r, t) == t \in DOMAIN tasks /\ tasks[t].record = r

----------------------------------------------------------------------------
(* Change requests: the handlers of changes.py *)

Granted(u, permission) == permission \in Grants[u]

ApplyChangeStatus(u, r, status) ==
    /\ status \in {"Approved", "Rejected"} => Granted(u, "change:approve")
    /\ status = "Closed" => OpenTasks(r) = {}

CreateChange(u, r) ==
    Granted(u, "change:create") /\ CreateRecord(r, "change", "Draft")

UpdateChange(u, r, status) ==
    /\ Granted(u, "change:update")
    /\ ChangeInOrg(r)
    /\ ApplyChangeStatus(u, r, status)
    /\ SetStatus(r, status)

DeleteChange(u, r) ==
    Granted(u, "change:delete") /\ ChangeInOrg(r) /\ SoftDelete(r)

AddImpact(u, r, l, level) ==
    Granted(u, "change:assess") /\ ChangeInOrg(r) /\ AppendLine(r, l, level)

UpdateImpact(u, r, l, level) ==
    Granted(u, "change:assess") /\ ChangeInOrg(r) /\ ImpactInChange(r, l) /\ AssessLine(l, level)

DeleteImpact(u, r, l) ==
    Granted(u, "change:assess") /\ ChangeInOrg(r) /\ ImpactInChange(r, l) /\ DeleteLine(l)

AddAction(u, r, t) ==
    Granted(u, "change:assess") /\ ChangeInOrg(r) /\ InsertTask(r, t)

UpdateAction(u, r, t, status) ==
    /\ Granted(u, "change:assess")
    /\ ChangeInOrg(r) /\ ActionInChange(r, t)
    /\ SetTaskStatus(r, t, status)

DeleteAction(u, r, t) ==
    Granted(u, "change:assess") /\ ChangeInOrg(r) /\ ActionInChange(r, t) /\ DeleteTask(t)

(* Change requests: the handlers of change_pages.py *)

ChangeCreateSubmit(u, r) ==
    Granted(u, "change:create") /\ CreateRecord(r, "change", "Draft")

ChangeStatusAction(u, r, status) ==
    /\ Granted(u, "change:update")
    /\ ChangeOr404(r)
    /\ status \in {"Approved", "Rejected"} => Granted(u, "change:approve")
    /\ status = "Closed" => OpenTasks(r) = {}
    /\ SetStatus(r, status)

ChangeDelete(u, r) ==
    Granted(u, "change:delete") /\ ChangeOr404(r) /\ SoftDelete(r)

ImpactAdd(u, r, l, level) ==
    Granted(u, "change:assess") /\ ChangeOr404(r) /\ AppendLine(r, l, level)

ImpactUpdate(u, r, l, level) ==
    Granted(u, "change:assess") /\ ChangeOr404(r) /\ ImpactOr404(r, l) /\ AssessLine(l, level)

ImpactDelete(u, r, l) ==
    Granted(u, "change:assess") /\ ChangeOr404(r) /\ ImpactOr404(r, l) /\ DeleteLine(l)

ActionAdd(u, r, t) ==
    Granted(u, "change:assess") /\ ChangeOr404(r) /\ InsertTask(r, t)

ActionUpdate(u, r, t, status) ==
    /\ Granted(u, "change:assess")
    /\ ChangeOr404(r) /\ ActionOr404(r, t)
    /\ SetTaskStatus(r, t, status)

ActionDelete(u, r, t) ==
    Granted(u, "change:assess") /\ ChangeOr404(r) /\ ActionOr404(r, t) /\ DeleteTask(t)

----------------------------------------------------------------------------
(* Audits: the handlers of audits.py *)

ApplyAuditStatus(r, status) == status = "Closed" => OpenTasks(r) = {}

CreateAudit(u, r) ==
    Granted(u, "audit:create") /\ CreateRecord(r, "audit", "Planned")

UpdateAudit(u, r, status) ==
    /\ Granted(u, "audit:update")
    /\ AuditInOrg(r)
    /\ ApplyAuditStatus(r, status)
    /\ SetStatus(r, status)

DeleteAudit(u, r) ==
    Granted(u, "audit:delete") /\ AuditInOrg(r) /\ SoftDelete(r)

AddChecklistItem(u, r, l, result) ==
    Granted(u, "audit:conduct") /\ AuditInOrg(r) /\ AppendLine(r, l, result)

UpdateChecklistItem(u, r, l, result) ==
    Granted(u, "audit:conduct") /\ AuditInOrg(r) /\ ItemInAudit(r, l) /\ AssessLine(l, result)

DeleteChecklistItem(u, r, l) ==
    Granted(u, "audit:conduct") /\ AuditInOrg(r) /\ ItemInAudit(r, l) /\ DeleteLine(l)

AddFinding(u, r, t) ==
    Granted(u, "audit:conduct") /\ AuditInOrg(r) /\ InsertTask(r, t)

UpdateFinding(u, r, t, status) ==
    /\ Granted(u, "audit:conduct")
    /\ AuditInOrg(r) /\ FindingInAudit(r, t)
    /\ SetTaskStatus(r, t, status)

DeleteFinding(u, r, t) ==
    Granted(u, "audit:conduct") /\ AuditInOrg(r) /\ FindingInAudit(r, t) /\ DeleteTask(t)

(* Audits: the handlers of audit_pages.py *)

AuditCreateSubmit(u, r) ==
    Granted(u, "audit:create") /\ CreateRecord(r, "audit", "Planned")

\* Mutant: the findings are not asked for.
AuditStatusAction_Mutant(u, r, status) ==
    /\ Granted(u, "audit:update")
    /\ AuditOr404(r)
    /\ status = "Closed" => Granted(u, "audit:close")
    /\ SetStatus(r, status)

AuditStatusAction(u, r, status) ==
    /\ Granted(u, "audit:update")
    /\ AuditOr404(r)
    /\ status = "Closed" => Granted(u, "audit:close") /\ OpenTasks(r) = {}
    /\ SetStatus(r, status)

AuditDelete(u, r) ==
    Granted(u, "audit:delete") /\ AuditOr404(r) /\ SoftDelete(r)

ChecklistAdd(u, r, l) ==
    Granted(u, "audit:conduct") /\ AuditOr404(r) /\ AppendLine(r, l, Pending)

ChecklistUpdate(u, r, l, result) ==
    Granted(u, "audit:conduct") /\ AuditOr404(r) /\ ItemOr404(r, l) /\ AssessLine(l, result)

ChecklistDelete(u, r, l) ==
    Granted(u, "audit:conduct") /\ AuditOr404(r) /\ ItemOr404(r, l) /\ DeleteLine(l)

FindingAdd(u, r, t) ==
    Granted(u, "audit:conduct") /\ AuditOr404(r) /\ InsertTask(r, t)

FindingUpdate(u, r, t, status) ==
    /\ Granted(u, "audit:conduct")
    /\ AuditOr404(r) /\ FindingOr404(r, t)
    /\ SetTaskStatus(r, t, status)

FindingDelete(u, r, t) ==
    Granted(u, "audit:conduct") /\ AuditOr404(r) /\ FindingOr404(r, t) /\ DeleteTask(t)

----------------------------------------------------------------------------
(* The handlers of other processes, from what they read to their commit *)

Free(request) == \A h \in deciding \cup adding : h.request # request

\* A PUT or a form that changes the status; without a change nothing is written.
DecideStatus(request, u, r, status) ==
    /\ Free(request)
    /\ \/ /\ ChangeInOrg(r) /\ status \in ChangeStatus
          /\ Granted(u, "change:update") /\ ApplyChangeStatus(u, r, status)
       \/ /\ AuditInOrg(r) /\ status \in AuditStatus
          /\ Granted(u, "audit:update") /\ ApplyAuditStatus(r, status)
    /\ status # records[r].status
    /\ deciding' = deciding \cup {[request |-> request, record |-> r,
                                   loaded |-> records[r].status, status |-> status]}
    /\ late' = IF status = "Closed" THEN late \ {r} ELSE late
    /\ UNCHANGED <<tables, adding, raced, overtaken>>

CommitStatus(d) ==
    LET r == d.record
        others == deciding \ {d}
    IN  /\ records' = [records EXCEPT ![r].status = d.status]
        /\ trail' = [trail EXCEPT ![r] = AfterUpdate(@, d.loaded, d.status)]
        /\ deciding' = others
        /\ raced' = IF \E o \in others : o.record = r THEN raced \cup {<<"status", r>>}
                                                      ELSE raced
        /\ UNCHANGED <<lines, tasks, adding, late, overtaken>>

NumberLine(request, u, r, assessment) ==
    /\ Free(request)
    /\ \/ ChangeInOrg(r) /\ Granted(u, "change:assess")
       \/ AuditInOrg(r) /\ Granted(u, "audit:conduct")
    /\ NextOrder(r) <= MaxOrder
    /\ adding' = adding \cup {[request |-> request, record |-> r, assessment |-> assessment,
                               display_order |-> NextOrder(r)]}
    /\ UNCHANGED <<tables, deciding, history>>

CommitLine(a, l) ==
    InsertLine(a.record, l, a.assessment, a.display_order, adding \ {a})

\* The client is gone, the commit fails or the process stops.
Abandon(h) ==
    /\ deciding' = deciding \ {h}
    /\ adding' = adding \ {h}
    /\ UNCHANGED <<tables, history>>

----------------------------------------------------------------------------

ApiStatus(u) ==
    \E r \in Records :
        \/ \E status \in ChangeStatus : UpdateChange(u, r, status)
        \/ \E status \in AuditStatus : UpdateAudit(u, r, status)

PageStatus(u) ==
    \E r \in Records :
        \/ \E status \in ChangeStatus : ChangeStatusAction(u, r, status)
        \/ \E status \in AuditStatus : AuditStatusAction(u, r, status)

ApiStep(u) ==
    \/ ApiStatus(u)
    \/ \E r \in Records :
          \/ CreateChange(u, r) \/ DeleteChange(u, r)
          \/ CreateAudit(u, r) \/ DeleteAudit(u, r)
          \/ \E l \in Lines :
                \/ DeleteImpact(u, r, l) \/ DeleteChecklistItem(u, r, l)
                \/ \E assessment \in Assessments :
                      \/ AddImpact(u, r, l, assessment)
                      \/ UpdateImpact(u, r, l, assessment)
                      \/ AddChecklistItem(u, r, l, assessment)
                      \/ UpdateChecklistItem(u, r, l, assessment)
          \/ \E t \in Tasks :
                \/ AddAction(u, r, t) \/ DeleteAction(u, r, t)
                \/ AddFinding(u, r, t) \/ DeleteFinding(u, r, t)
                \/ \E status \in TaskStatus :
                      UpdateAction(u, r, t, status) \/ UpdateFinding(u, r, t, status)

PageStep(u) ==
    \/ PageStatus(u)
    \/ \E r \in Records :
          \/ ChangeCreateSubmit(u, r) \/ ChangeDelete(u, r)
          \/ AuditCreateSubmit(u, r) \/ AuditDelete(u, r)
          \/ \E l \in Lines :
                \/ ImpactDelete(u, r, l) \/ ChecklistDelete(u, r, l) \/ ChecklistAdd(u, r, l)
                \/ \E assessment \in Assessments :
                      \/ ImpactAdd(u, r, l, assessment)
                      \/ ImpactUpdate(u, r, l, assessment)
                      \/ ChecklistUpdate(u, r, l, assessment)
          \/ \E t \in Tasks :
                \/ ActionAdd(u, r, t) \/ ActionDelete(u, r, t)
                \/ FindingAdd(u, r, t) \/ FindingDelete(u, r, t)
                \/ \E status \in TaskStatus :
                      ActionUpdate(u, r, t, status) \/ FindingUpdate(u, r, t, status)

OtherProcess ==
    \/ \E request \in Requests, u \in Users, r \in Records :
          \/ \E status \in Status : DecideStatus(request, u, r, status)
          \/ \E assessment \in Assessments : NumberLine(request, u, r, assessment)
    \/ \E d \in deciding : CommitStatus(d)
    \/ \E a \in adding, l \in Lines : CommitLine(a, l)
    \/ \E h \in deciding \cup adding : Abandon(h)

Next == (\E u \in Users : ApiStep(u) \/ PageStep(u)) \/ OtherProcess

Spec == Init /\ [][Next]_vars

----------------------------------------------------------------------------
(* Properties *)

\* A closed change has no open action and a closed audit no open finding,
\* unless one was added or reopened after the closure was decided: the gate
\* stands on every way to Closed, for both kinds and both interfaces.
ClosedWithoutOpenTasks ==
    \A t \in DOMAIN tasks :
        LET r == tasks[t].record
        IN  r \notin late /\ records[r].status = "Closed" => tasks[t].status = "Closed"

\* The lines of a record are listed in the order in which they were added,
\* whatever is deleted in between: a new line goes behind all that there are,
\* unless another was added after its order was computed in another process,
\* and no line moves.
LinesInOrder ==
    [][\A l \in DOMAIN lines' :
          LET line == lines'[l]
          IN  IF l \in DOMAIN lines
              THEN <<line.record, line.display_order>>
                      = <<lines[l].record, lines[l].display_order>>
              ELSE <<"line", line.record>> \notin raced =>
                      \A k \in LinesOf(line.record) :
                          lines[k].display_order < line.display_order]_vars

\* The history of a record's status ends at its status, whatever processes
\* overlap, and has no gap unless two of them have changed it at a time.
TrailTellsStatus ==
    \A r \in DOMAIN records :
        /\ trail[r].last = records[r].status
        /\ trail[r].gap => <<"status", r>> \in raced

\* What is deleted stays as it was, with its lines and tasks, unless a request
\* of another process was under way.
DeletedStaysAsItWas ==
    [][\A r \in DOMAIN records \ overtaken :
          LET rows(table) == {[id |-> x, row |-> table[x]] :
                                  x \in {y \in DOMAIN table : table[y].record = r}}
          IN  ~records[r].is_active =>
                 /\ records'[r] = records[r]
                 /\ rows(lines)' = rows(lines)
                 /\ rows(tasks)' = rows(tasks)]_vars

\* "Mutations reuse the same permission dependencies and status rules as the
\* API": whatever a user can do in the browser the API allows the same user;
\* and the status a user may set through the API he may set in the browser,
\* but for closing an audit, for which only the browser asks "audit:close".
SurfacesAgree ==
    [][UNCHANGED <<deciding, adding>> => \A u \in Users :
          /\ PageStep(u) => ApiStep(u)
          /\ ApiStatus(u) =>
                \/ PageStatus(u)
                \/ /\ ~Granted(u, "audit:close")
                   /\ \E r \in DOMAIN records :
                         AuditInOrg(r) /\ records'[r].status = "Closed"]_vars

=============================================================================
