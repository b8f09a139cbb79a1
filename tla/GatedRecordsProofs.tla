------------------------- MODULE GatedRecordsProofs -------------------------
(***************************************************************************)
(* Proofs about GatedRecords, for any sets of records, lines, tasks, users *)
(* and statuses, any grants and any requests of other processes: what is   *)
(* closed has no open task, lines keep their order, the history of the     *)
(* status ends at the status, what is deleted stays as it was, each unless *)
(* requests have overlapped; and the two interfaces agree.                 *)
(* A decision that still stands is as good as a change at once.            *)
(***************************************************************************)
EXTENDS GatedRecords, WellFoundedInduction, TLAPS

Live == {r \in DOMAIN records : records[r].is_active}

\* Lines, tasks and the requests of other processes belong to records.
ChildrenOfRecords ==
    /\ \A l \in DOMAIN lines : lines[l].record \in DOMAIN records
    /\ \A t \in DOMAIN tasks : tasks[t].record \in DOMAIN records
    /\ \A h \in deciding \cup adding : h.record \in DOMAIN records

AllClosed(r) == \A t \in DOMAIN tasks : tasks[t].record = r => tasks[t].status = "Closed"

\* The tasks of a record whose closure is decided are closed until one is
\* added or reopened.
DecidedWithoutOpenTasks ==
    \A d \in deciding : d.status = "Closed" /\ d.record \notin late => AllClosed(d.record)

\* A status that another process has loaded is the record's until it changes.
LoadedIsCurrent ==
    \A d \in deciding :
        /\ d.loaded # d.status
        /\ <<"status", d.record>> \notin raced => d.loaded = records[d.record].status

\* The order given to a line that is not committed is behind those of all lines
\* of its record until one is added.
OrderIsLast ==
    \A a \in adding : <<"line", a.record>> \notin raced =>
        \A l \in DOMAIN lines : lines[l].record = a.record =>
            lines[l].display_order < a.display_order

\* A request of another process works on a record that is not deleted, unless
\* it was deleted since.
WorksOnLive == \A h \in deciding \cup adding : h.record \in Live \cup overtaken

Inv == TypeOK /\ ChildrenOfRecords

----------------------------------------------------------------------------

\* A non-empty set of naturals with an upper bound has a greatest element.
LEMMA GreatestOrder ==
    ASSUME NEW S \in SUBSET Nat, S # {}, NEW b \in Nat, \A x \in S : x <= b
    PROVE  \E m \in S : \A x \in S : m >= x
  <1>. DEFINE below == {b - x : x \in S}
  <1>0. \A x \in S : b - x \in Nat
    OBVIOUS
  <1>1. below \subseteq Nat /\ below # {}
    BY <1>0
  <1>2. PICK least \in below : \A n \in below : ~(<<n, least>> \in OpToRel(<, Nat))
    <2>. HIDE DEF below
    <2>. QED  BY <1>1, NatLessThanWellFounded, WFMin
  <1>3. \A n \in below : ~(n < least)
    BY <1>1, <1>2 DEF OpToRel
  <1>4. PICK m \in S : least = b - m
    OBVIOUS
  <1>. QED  BY <1>3, <1>4

\* The order of a new line is above that of every other line of its record.
LEMMA NextOrderIsLast ==
    ASSUME TypeOK, NEW r, NextOrder(r) <= MaxOrder
    PROVE  /\ NextOrder(r) \in 0 .. MaxOrder
           /\ \A l \in LinesOf(r) : lines[l].display_order < NextOrder(r)
  <1>. DEFINE orders == {lines[l].display_order : l \in LinesOf(r)}
              S == orders \cup {0 - 1}
  <1>1. orders \subseteq 0 .. MaxOrder
    BY DEF TypeOK, Line, LinesOf
  <1>2. orders \in SUBSET Nat /\ \A x \in orders : x <= MaxOrder
    BY <1>1, MaxOrderAssumption
  <1>3. \A l \in LinesOf(r) : lines[l].display_order \in orders
    OBVIOUS
  <1>4. NextOrder(r) = Max(S) + 1
    BY DEF NextOrder
  <1>. HIDE DEF orders
  <1>5. \E m \in S : \A x \in S : m >= x
    <2>1. CASE orders = {}
      BY <2>1
    <2>2. CASE orders # {}
      <3>1. PICK m \in orders : \A x \in orders : m >= x
        BY <1>2, <2>2, MaxOrderAssumption, GreatestOrder
      <3>. QED  BY <1>2, <3>1
    <2>. QED  BY <2>1, <2>2
  <1>6. Max(S) \in S /\ \A x \in S : Max(S) >= x
    <2>. HIDE DEF S
    <2>. QED  BY <1>5 DEF Max
  <1>7. Max(S) \in Int /\ Max(S) >= 0 - 1
    <2>1. S \subseteq Int /\ 0 - 1 \in S
      BY <1>2
    <2>. HIDE DEF S
    <2>. QED  BY <1>6, <2>1
  <1>. HIDE DEF S
  <1>8. \A x \in orders : x \in Int /\ x < Max(S) + 1
    <2>1. \A x \in orders : x \in Int /\ x \in S
      BY <1>2 DEF S
    <2>2. \A m, n \in Int : m >= n => n < m + 1
      OBVIOUS
    <2>. QED  BY <1>6, <1>7, <2>1, <2>2
  <1>9. Max(S) + 1 \in 0 .. MaxOrder
    BY <1>4, <1>7, MaxOrderAssumption
  <1>. QED  BY <1>3, <1>4, <1>8, <1>9

\* What is below a number is not that number.
LEMMA NoLessThanItself == \A m, n \in Nat : m < n => m # n
  OBVIOUS

----------------------------------------------------------------------------
(* Steps *)

\* What the handlers of one process do to the tables: they work on a record
\* that is not deleted and close it only when its tasks are closed.
LocalStep ==
    \/ \E r \in Records, kind \in {"change", "audit"}, status \in Status \ {"Closed"} :
          CreateRecord(r, kind, status)
    \/ \E r \in Live, status \in Status :
          (status = "Closed" => OpenTasks(r) = {}) /\ SetStatus(r, status)
    \/ \E r \in Live : SoftDelete(r)
    \/ \E r \in Live, l \in Lines, assessment \in Assessments : AppendLine(r, l, assessment)
    \/ \E r \in Live : \E l \in LinesOf(r), assessment \in Assessments :
          AssessLine(l, assessment)
    \/ \E r \in Live : \E l \in LinesOf(r) : DeleteLine(l)
    \/ \E r \in Live, t \in Tasks : InsertTask(r, t)
    \/ \E r \in Live, t \in DOMAIN tasks, status \in TaskStatus :
          tasks[t].record = r /\ SetTaskStatus(r, t, status)
    \/ \E r \in Live, t \in DOMAIN tasks : tasks[t].record = r /\ DeleteTask(t)

LEMMA LocalSteps ==
    ASSUME NEW u \in Users, ApiStep(u) \/ PageStep(u)
    PROVE  LocalStep
  <1>1. /\ {"Draft", "Planned"} \subseteq Status \ {"Closed"}
        /\ ChangeStatus \subseteq Status /\ AuditStatus \subseteq Status
        /\ Pending \in Assessments
    BY StatusAssumption, PendingAssumption DEF Status
  <1>2. \A r \in Records : ChangeInOrg(r) \/ AuditInOrg(r) \/ ChangeOr404(r) \/ AuditOr404(r)
                              => r \in Live
    BY DEF ChangeInOrg, AuditInOrg, ChangeOr404, AuditOr404, Live
  <1>3. ASSUME NEW r \in Records,
               CreateChange(u, r) \/ CreateAudit(u, r)
                  \/ ChangeCreateSubmit(u, r) \/ AuditCreateSubmit(u, r)
        PROVE  LocalStep
    <2>1. CreateRecord(r, "change", "Draft") \/ CreateRecord(r, "audit", "Planned")
      BY <1>3 DEF CreateChange, CreateAudit, ChangeCreateSubmit, AuditCreateSubmit
    <2>. QED  BY <1>1, <2>1 DEF LocalStep
  <1>4. ASSUME ApiStatus(u) \/ PageStatus(u)
        PROVE  LocalStep
    <2>1. \E r \in Live, status \in Status :
             (status = "Closed" => OpenTasks(r) = {}) /\ SetStatus(r, status)
      BY <1>1, <1>2, <1>4 DEF ApiStatus, PageStatus, UpdateChange, UpdateAudit,
         ApplyChangeStatus, ApplyAuditStatus, ChangeStatusAction, AuditStatusAction
    <2>. QED  BY <2>1 DEF LocalStep
  <1>5. ASSUME NEW r \in Records,
               DeleteChange(u, r) \/ DeleteAudit(u, r) \/ ChangeDelete(u, r) \/ AuditDelete(u, r)
        PROVE  LocalStep
    <2>1. r \in Live /\ SoftDelete(r)
      BY <1>2, <1>5 DEF DeleteChange, DeleteAudit, ChangeDelete, AuditDelete
    <2>. QED  BY <2>1 DEF LocalStep
  <1>6. ASSUME NEW r \in Records, NEW l \in Lines, NEW assessment \in Assessments,
               \/ AddImpact(u, r, l, assessment) \/ AddChecklistItem(u, r, l, assessment)
               \/ ImpactAdd(u, r, l, assessment) \/ ChecklistAdd(u, r, l)
        PROVE  LocalStep
    <2>1. r \in Live /\ (AppendLine(r, l, assessment) \/ AppendLine(r, l, Pending))
      BY <1>2, <1>6 DEF AddImpact, AddChecklistItem, ImpactAdd, ChecklistAdd
    <2>. QED  BY <1>1, <2>1 DEF LocalStep
  <1>7. ASSUME NEW r \in Records, NEW l \in Lines, NEW assessment \in Assessments,
               \/ UpdateImpact(u, r, l, assessment) \/ UpdateChecklistItem(u, r, l, assessment)
               \/ ImpactUpdate(u, r, l, assessment) \/ ChecklistUpdate(u, r, l, assessment)
        PROVE  LocalStep
    <2>1. r \in Live /\ l \in LinesOf(r) /\ AssessLine(l, assessment)
      BY <1>2, <1>7 DEF UpdateImpact, UpdateChecklistItem, ImpactUpdate, ChecklistUpdate,
                        ImpactInChange, ItemInAudit, ImpactOr404, ItemOr404
    <2>. QED  BY <2>1 DEF LocalStep
  <1>8. ASSUME NEW r \in Records, NEW l \in Lines,
               \/ DeleteImpact(u, r, l) \/ DeleteChecklistItem(u, r, l)
               \/ ImpactDelete(u, r, l) \/ ChecklistDelete(u, r, l)
        PROVE  LocalStep
    <2>1. r \in Live /\ l \in LinesOf(r) /\ DeleteLine(l)
      BY <1>2, <1>8 DEF DeleteImpact, DeleteChecklistItem, ImpactDelete, ChecklistDelete,
                        ImpactInChange, ItemInAudit, ImpactOr404, ItemOr404
    <2>. QED  BY <2>1 DEF LocalStep
  <1>9. ASSUME NEW r \in Records, NEW t \in Tasks,
               \/ AddAction(u, r, t) \/ AddFinding(u, r, t)
               \/ ActionAdd(u, r, t) \/ FindingAdd(u, r, t)
        PROVE  LocalStep
    <2>1. r \in Live /\ InsertTask(r, t)
      BY <1>2, <1>9 DEF AddAction, AddFinding, ActionAdd, FindingAdd
    <2>. QED  BY <2>1 DEF LocalStep
  <1>10. ASSUME NEW r \in Records, NEW t \in Tasks, NEW status \in TaskStatus,
                \/ UpdateAction(u, r, t, status) \/ UpdateFinding(u, r, t, status)
                \/ ActionUpdate(u, r, t, status) \/ FindingUpdate(u, r, t, status)
         PROVE  LocalStep
    <2>1. r \in Live /\ t \in DOMAIN tasks /\ tasks[t].record = r /\ SetTaskStatus(r, t, status)
      BY <1>2, <1>10 DEF UpdateAction, UpdateFinding, ActionUpdate, FindingUpdate,
                         ActionInChange, FindingInAudit, ActionOr404, FindingOr404
    <2>. QED  BY <2>1 DEF LocalStep
  <1>11. ASSUME NEW r \in Records, NEW t \in Tasks,
                \/ DeleteAction(u, r, t) \/ DeleteFinding(u, r, t)
                \/ ActionDelete(u, r, t) \/ FindingDelete(u, r, t)
         PROVE  LocalStep
    <2>1. r \in Live /\ t \in DOMAIN tasks /\ tasks[t].record = r /\ DeleteTask(t)
      BY <1>2, <1>11 DEF DeleteAction, DeleteFinding, ActionDelete, FindingDelete,
                         ActionInChange, FindingInAudit, ActionOr404, FindingOr404
    <2>. QED  BY <2>1 DEF LocalStep
  <1>12. CASE ApiStep(u)
    BY <1>3, <1>4, <1>5, <1>6, <1>7, <1>8, <1>9, <1>10, <1>11, <1>12 DEF ApiStep
  <1>13. CASE PageStep(u)
    BY <1>1, <1>3, <1>4, <1>5, <1>6, <1>7, <1>8, <1>9, <1>10, <1>11, <1>13 DEF PageStep
  <1>. QED  BY <1>12, <1>13

LEMMA Steps == Next => LocalStep \/ OtherProcess
  BY LocalSteps DEF Next

----------------------------------------------------------------------------
(* Types *)

LEMMA InitInv == Init => Inv
  BY DEF Init, Inv, TypeOK, ChildrenOfRecords

\* A line that is inserted, by a handler of this process or by a commit of
\* another's.
LEMMA InsertLineInv ==
    ASSUME Inv, NEW r \in DOMAIN records, NEW l \in Lines, NEW assessment \in Assessments,
           NEW order \in 0 .. MaxOrder, NEW remaining, remaining \subseteq adding,
           InsertLine(r, l, assessment, order, remaining)
    PROVE  Inv'
  <1>. DEFINE row == [record |-> r, assessment |-> assessment, display_order |-> order]
  <1>1. r \in Records
    BY DEF Inv, TypeOK
  <1>2. row \in Line /\ row.record = r
    BY <1>1 DEF Line
  <1>3. /\ lines' = Insert(lines, l, row)
        /\ adding' = remaining
        /\ raced' \subseteq raced \cup {<<"line", r>>}
        /\ UNCHANGED <<records, tasks, trail, deciding, late, overtaken>>
    BY DEF InsertLine
  <1>. HIDE DEF row
  <1>4. /\ lines' \in [DOMAIN lines' -> Line]
        /\ DOMAIN lines' = DOMAIN lines \cup {l}
        /\ lines'[l] = row
        /\ \A x \in DOMAIN lines : x # l => lines'[x] = lines[x]
    <2>1. lines \in [DOMAIN lines -> Line]
      BY DEF Inv, TypeOK
    <2>. QED  BY <1>2, <1>3, <2>1 DEF Insert
  <1>5. raced' \subseteq {"status", "line"} \X Records
    BY <1>1, <1>3 DEF Inv, TypeOK
  <1>6. TypeOK'
    BY <1>3, <1>4, <1>5 DEF Inv, TypeOK
  <1>7. ChildrenOfRecords'
    BY <1>2, <1>3, <1>4 DEF Inv, ChildrenOfRecords
  <1>. QED  BY <1>6, <1>7 DEF Inv

\* Rows keep their types, and no record is ever removed.
LEMMA StepInv == Inv /\ [Next]_vars => Inv'
  <1>. SUFFICES ASSUME Inv, [Next]_vars PROVE Inv'
    OBVIOUS
  <1>. USE DEF history
  <1>1. TypeOK /\ ChildrenOfRecords
    BY DEF Inv
  <1>2. /\ Live \subseteq DOMAIN records /\ DOMAIN records \subseteq Records
        /\ records \in [DOMAIN records -> Record]
        /\ lines \in [DOMAIN lines -> Line]
        /\ tasks \in [DOMAIN tasks -> Task]
        /\ trail \in [DOMAIN records -> Trail] /\ DOMAIN trail = DOMAIN records
    BY <1>1 DEF TypeOK, Live
  <1>3. ASSUME NEW r \in Records, NEW kind \in {"change", "audit"}, NEW status \in Status,
               CreateRecord(r, kind, status)
        PROVE  Inv'
    <2>. DEFINE row == [kind |-> kind, status |-> status, is_active |-> TRUE]
    <2>1. /\ records' = Insert(records, r, row)
          /\ trail' = Insert(trail, r, AfterInsert(status))
          /\ UNCHANGED <<lines, tasks, deciding, adding, history>>
      BY <1>3 DEF CreateRecord
    <2>2. row \in Record /\ AfterInsert(status) \in Trail
      BY DEF Record, Trail, AfterInsert
    <2>. HIDE DEF row
    <2>3. /\ records' \in [DOMAIN records' -> Record]
          /\ DOMAIN records' = DOMAIN records \cup {r}
      BY <1>2, <2>1, <2>2 DEF Insert
    <2>4. /\ trail' \in [DOMAIN trail' -> Trail]
          /\ DOMAIN trail' = DOMAIN records \cup {r}
      BY <1>2, <2>1, <2>2 DEF Insert
    <2>. QED  BY <1>1, <1>2, <2>1, <2>3, <2>4 DEF Inv, TypeOK, ChildrenOfRecords
  <1>4. ASSUME NEW r \in Live, NEW status \in Status, SetStatus(r, status)
        PROVE  Inv'
    <2>1. /\ records' = [records EXCEPT ![r].status = status]
          /\ trail' = [trail EXCEPT ![r] = AfterUpdate(@, records[r].status, status)]
          /\ late' \subseteq late
          /\ raced' \subseteq raced \cup {<<"status", r>>}
          /\ UNCHANGED <<lines, tasks, deciding, adding, overtaken>>
      BY <1>4 DEF SetStatus
    <2>2. records' \in [DOMAIN records -> Record]
      BY <1>2, <2>1 DEF Record
    <2>3. AfterUpdate(trail[r], records[r].status, status) \in Trail
      BY <1>2 DEF AfterUpdate, Trail
    <2>4. trail' \in [DOMAIN records -> Trail]
      BY <1>2, <2>1, <2>3
    <2>. QED  BY <1>1, <1>2, <2>1, <2>2, <2>4 DEF Inv, TypeOK, ChildrenOfRecords
  <1>5. ASSUME NEW r \in Live, SoftDelete(r)
        PROVE  Inv'
    <2>1. /\ records' = [records EXCEPT ![r].is_active = FALSE]
          /\ overtaken' \subseteq overtaken \cup {r}
          /\ UNCHANGED <<lines, tasks, trail, deciding, adding, late, raced>>
      BY <1>5 DEF SoftDelete
    <2>2. records' \in [DOMAIN records -> Record]
      BY <1>2, <2>1 DEF Record
    <2>. QED  BY <1>1, <1>2, <2>1, <2>2 DEF Inv, TypeOK, ChildrenOfRecords
  <1>6. ASSUME NEW r \in Live, NEW l \in Lines, NEW assessment \in Assessments,
               AppendLine(r, l, assessment)
        PROVE  Inv'
    <2>1. NextOrder(r) \in 0 .. MaxOrder /\ InsertLine(r, l, assessment, NextOrder(r), adding)
      BY <1>1, <1>6, NextOrderIsLast DEF AppendLine
    <2>. QED  BY <1>2, <2>1, InsertLineInv
  <1>7. ASSUME NEW r \in Live, NEW l \in LinesOf(r), NEW assessment \in Assessments,
               AssessLine(l, assessment)
        PROVE  Inv'
    <2>1. /\ lines' = [lines EXCEPT ![l].assessment = assessment]
          /\ UNCHANGED <<records, tasks, trail, deciding, adding, history>>
      BY <1>7 DEF AssessLine
    <2>2. /\ lines' \in [DOMAIN lines -> Line]
          /\ \A x \in DOMAIN lines : lines'[x].record = lines[x].record
      BY <1>2, <2>1 DEF Line, LinesOf
    <2>. QED  BY <1>1, <2>1, <2>2 DEF Inv, TypeOK, ChildrenOfRecords
  <1>8. ASSUME NEW r \in Live, NEW l \in LinesOf(r), DeleteLine(l)
        PROVE  Inv'
    <2>1. /\ lines' = [x \in DOMAIN lines \ {l} |-> lines[x]]
          /\ UNCHANGED <<records, tasks, trail, deciding, adding, history>>
      BY <1>8 DEF DeleteLine, Remove
    <2>2. lines' \in [DOMAIN lines' -> Line]
      BY <1>2, <2>1
    <2>. QED  BY <1>1, <2>1, <2>2 DEF Inv, TypeOK, ChildrenOfRecords
  <1>9. ASSUME NEW r \in Live, NEW t \in Tasks, InsertTask(r, t)
        PROVE  Inv'
    <2>. DEFINE row == [record |-> r, status |-> "Open"]
    <2>1. /\ tasks' = Insert(tasks, t, row)
          /\ late' \subseteq late \cup {r}
          /\ UNCHANGED <<records, lines, trail, deciding, adding, raced, overtaken>>
      BY <1>9 DEF InsertTask
    <2>2. row \in Task /\ row.record = r
      BY <1>2 DEF Task, TaskStatus
    <2>. HIDE DEF row
    <2>3. /\ tasks' \in [DOMAIN tasks' -> Task]
          /\ DOMAIN tasks' = DOMAIN tasks \cup {t}
          /\ tasks'[t] = row
          /\ \A x \in DOMAIN tasks : x # t => tasks'[x] = tasks[x]
      BY <1>2, <2>1, <2>2 DEF Insert
    <2>. QED  BY <1>1, <1>2, <2>1, <2>2, <2>3 DEF Inv, TypeOK, ChildrenOfRecords
  <1>10. ASSUME NEW r \in Live, NEW t \in DOMAIN tasks, NEW status \in TaskStatus,
                SetTaskStatus(r, t, status)
         PROVE  Inv'
    <2>1. /\ tasks' = [tasks EXCEPT ![t].status = status]
          /\ late' \subseteq late \cup {r}
          /\ UNCHANGED <<records, lines, trail, deciding, adding, raced, overtaken>>
      BY <1>10 DEF SetTaskStatus
    <2>2. /\ tasks' \in [DOMAIN tasks -> Task]
          /\ \A x \in DOMAIN tasks : tasks'[x].record = tasks[x].record
      BY <1>2, <2>1 DEF Task
    <2>. QED  BY <1>1, <1>2, <2>1, <2>2 DEF Inv, TypeOK, ChildrenOfRecords
  <1>11. ASSUME NEW t \in DOMAIN tasks, DeleteTask(t)
         PROVE  Inv'
    <2>1. /\ tasks' = [x \in DOMAIN tasks \ {t} |-> tasks[x]]
          /\ UNCHANGED <<records, lines, trail, deciding, adding, history>>
      BY <1>11 DEF DeleteTask, Remove
    <2>2. tasks' \in [DOMAIN tasks' -> Task]
      BY <1>2, <2>1
    <2>. QED  BY <1>1, <2>1, <2>2 DEF Inv, TypeOK, ChildrenOfRecords
  <1>12. ASSUME NEW request \in Requests, NEW u \in Users, NEW r \in Records,
                NEW status \in Status, DecideStatus(request, u, r, status)
         PROVE  Inv'
    <2>. DEFINE d == [request |-> request, record |-> r,
                      loaded |-> records[r].status, status |-> status]
    <2>1. /\ r \in DOMAIN records
          /\ deciding' = deciding \cup {d}
          /\ late' \subseteq late
          /\ UNCHANGED <<tables, adding, raced, overtaken>>
      BY <1>12 DEF DecideStatus, ChangeInOrg, AuditInOrg
    <2>2. d \in Decision /\ d.record = r
      BY <1>2, <2>1 DEF Decision, Record
    <2>. HIDE DEF d
    <2>. QED  BY <1>1, <2>1, <2>2 DEF Inv, TypeOK, ChildrenOfRecords, tables
  <1>13. ASSUME NEW d \in deciding, CommitStatus(d)
         PROVE  Inv'
    <2>1. /\ d \in Decision /\ d.record \in DOMAIN records
          /\ d.loaded \in Status /\ d.status \in Status
      BY <1>1 DEF TypeOK, ChildrenOfRecords, Decision
    <2>2. /\ records' = [records EXCEPT ![d.record].status = d.status]
          /\ trail' = [trail EXCEPT ![d.record] = AfterUpdate(@, d.loaded, d.status)]
          /\ deciding' \subseteq deciding
          /\ raced' \subseteq raced \cup {<<"status", d.record>>}
          /\ UNCHANGED <<lines, tasks, adding, late, overtaken>>
      BY <1>13 DEF CommitStatus
    <2>3. records' \in [DOMAIN records -> Record]
      BY <1>2, <2>1, <2>2 DEF Record
    <2>4. AfterUpdate(trail[d.record], d.loaded, d.status) \in Trail
      BY <1>2, <2>1 DEF AfterUpdate, Trail
    <2>5. trail' \in [DOMAIN records -> Trail]
      BY <1>2, <2>1, <2>2, <2>4
    <2>. QED  BY <1>1, <1>2, <2>1, <2>2, <2>3, <2>5 DEF Inv, TypeOK, ChildrenOfRecords
  <1>14. ASSUME NEW request \in Requests, NEW u \in Users, NEW r \in Records,
                NEW assessment \in Assessments, NumberLine(request, u, r, assessment)
         PROVE  Inv'
    <2>. DEFINE a == [request |-> request, record |-> r, assessment |-> assessment,
                      display_order |-> NextOrder(r)]
    <2>1. /\ r \in DOMAIN records
          /\ NextOrder(r) <= MaxOrder
          /\ adding' = adding \cup {a}
          /\ UNCHANGED <<tables, deciding, history>>
      BY <1>14 DEF NumberLine, ChangeInOrg, AuditInOrg
    <2>2. NextOrder(r) \in 0 .. MaxOrder
      BY <1>1, <2>1, NextOrderIsLast
    <2>3. a \in Addition /\ a.record = r
      BY <2>2 DEF Addition
    <2>. HIDE DEF a
    <2>. QED  BY <1>1, <2>1, <2>3 DEF Inv, TypeOK, ChildrenOfRecords, tables
  <1>15. ASSUME NEW a \in adding, NEW l \in Lines, CommitLine(a, l)
         PROVE  Inv'
    <2>1. /\ a.record \in DOMAIN records /\ a.assessment \in Assessments
          /\ a.display_order \in 0 .. MaxOrder
      BY <1>1 DEF TypeOK, ChildrenOfRecords, Addition
    <2>2. InsertLine(a.record, l, a.assessment, a.display_order, adding \ {a})
      BY <1>15 DEF CommitLine
    <2>. QED  BY <2>1, <2>2, InsertLineInv
  <1>16. ASSUME NEW h, Abandon(h)
         PROVE  Inv'
    BY <1>1, <1>16 DEF Abandon, Inv, TypeOK, ChildrenOfRecords, tables
  <1>17. CASE UNCHANGED vars
    BY <1>1, <1>17 DEF Inv, TypeOK, ChildrenOfRecords, vars, tables
  <1>18. CASE LocalStep
    BY <1>2, <1>3, <1>4, <1>5, <1>6, <1>7, <1>8, <1>9, <1>10, <1>11, <1>18 DEF LocalStep
  <1>19. CASE OtherProcess
    BY <1>12, <1>13, <1>14, <1>15, <1>16, <1>19 DEF OtherProcess
  <1>. QED  BY <1>17, <1>18, <1>19, Steps

LEMMA Invariance == Spec => []Inv
  BY InitInv, StepInv, PTL DEF Spec

\* Rows have their types and trails belong to records, whatever overlaps.
THEOREM TypeCorrect == Spec => []TypeOK
  <1>1. Inv => TypeOK
    BY DEF Inv
  <1>. QED  BY <1>1, Invariance, PTL

----------------------------------------------------------------------------
(* Closing *)

ClosureInv == ClosedWithoutOpenTasks /\ DecidedWithoutOpenTasks

LEMMA InitClosure == Init => ClosureInv
  BY DEF Init, ClosureInv, ClosedWithoutOpenTasks, DecidedWithoutOpenTasks

\* A closure is decided when every task is closed; a task that is added or
\* reopened afterwards is recorded as late.
LEMMA StepClosure == Inv /\ ClosureInv /\ [Next]_vars => ClosureInv'
  <1>. SUFFICES ASSUME Inv, ClosureInv, [Next]_vars PROVE ClosureInv'
    OBVIOUS
  <1>. USE DEF history
  <1>1. /\ records \in [DOMAIN records -> Record]
        /\ Live \subseteq DOMAIN records
        /\ \A t \in DOMAIN tasks : tasks[t].record \in DOMAIN records
        /\ \A d \in deciding : d.record \in DOMAIN records
        /\ tasks \in [DOMAIN tasks -> Task]
    BY DEF Inv, TypeOK, ChildrenOfRecords, Live
  <1>2. /\ \A t \in DOMAIN tasks :
              tasks[t].record \notin late /\ records[tasks[t].record].status = "Closed" =>
                 tasks[t].status = "Closed"
        /\ \A d \in deciding, t \in DOMAIN tasks :
              d.status = "Closed" /\ d.record \notin late /\ tasks[t].record = d.record =>
                 tasks[t].status = "Closed"
    BY DEF ClosureInv, ClosedWithoutOpenTasks, DecidedWithoutOpenTasks, AllClosed
  <1>. DEFINE Goal == /\ \A t \in DOMAIN tasks' :
                            /\ tasks'[t].record \notin late'
                            /\ records'[tasks'[t].record].status = "Closed"
                            => tasks'[t].status = "Closed"
                      /\ \A d \in deciding', t \in DOMAIN tasks' :
                            /\ d.status = "Closed" /\ d.record \notin late'
                            /\ tasks'[t].record = d.record
                            => tasks'[t].status = "Closed"
  <1>3. SUFFICES Goal
    BY DEF ClosureInv, ClosedWithoutOpenTasks, DecidedWithoutOpenTasks, AllClosed
  <1>4. \A r : OpenTasks(r) = {} =>
           \A t \in DOMAIN tasks : tasks[t].record = r => tasks[t].status = "Closed"
    BY DEF OpenTasks
  \* A step that changes neither tasks nor, of a record that exists, the status.
  <1>5. ASSUME tasks' = tasks, late' = late, deciding' \subseteq deciding,
               \A r \in DOMAIN records : records'[r].status = records[r].status
        PROVE  Goal
    BY <1>1, <1>2, <1>5
  <1>6. ASSUME NEW r \in Records, NEW kind \in {"change", "audit"},
               NEW status \in Status \ {"Closed"}, CreateRecord(r, kind, status)
        PROVE  Goal
    <2>1. /\ r \notin DOMAIN records
          /\ \A x \in DOMAIN records : records'[x] = records[x]
          /\ UNCHANGED <<tasks, deciding, late>>
      BY <1>6 DEF CreateRecord, Insert
    <2>. QED  BY <1>5, <2>1
  <1>7. ASSUME NEW r \in Live, NEW status \in Status, status = "Closed" => OpenTasks(r) = {},
               SetStatus(r, status)
        PROVE  Goal
    <2>1. /\ records' = [records EXCEPT ![r].status = status]
          /\ late' = IF status = "Closed" THEN late \ {r} ELSE late
          /\ UNCHANGED <<tasks, deciding>>
      BY <1>7 DEF SetStatus
    <2>2. /\ records'[r].status = status
          /\ \A x \in DOMAIN records : x # r => records'[x] = records[x]
      BY <1>1, <2>1 DEF Record
    <2>3. status = "Closed" =>
             \A t \in DOMAIN tasks : tasks[t].record = r => tasks[t].status = "Closed"
      BY <1>4, <1>7
    <2>. QED  BY <1>1, <1>2, <2>1, <2>2, <2>3
  <1>8. ASSUME NEW r \in Live, SoftDelete(r)
        PROVE  Goal
    <2>1. /\ records' = [records EXCEPT ![r].is_active = FALSE]
          /\ UNCHANGED <<tasks, deciding, late>>
      BY <1>8 DEF SoftDelete
    <2>2. \A x \in DOMAIN records : records'[x].status = records[x].status
      BY <1>1, <2>1 DEF Record
    <2>. QED  BY <1>5, <2>1, <2>2
  <1>9. ASSUME NEW r \in Live, NEW t \in Tasks, InsertTask(r, t)
        PROVE  Goal
    <2>. DEFINE row == [record |-> r, status |-> "Open"]
    <2>1. /\ t \notin DOMAIN tasks
          /\ tasks' = Insert(tasks, t, row)
          /\ late' = IF Closing(r) THEN late \cup {r} ELSE late
          /\ UNCHANGED <<records, deciding>>
      BY <1>9 DEF InsertTask
    <2>2. row.record = r
      OBVIOUS
    <2>. HIDE DEF row
    <2>3. /\ DOMAIN tasks' = DOMAIN tasks \cup {t}
          /\ tasks'[t].record = r
          /\ \A x \in DOMAIN tasks : tasks'[x] = tasks[x]
      BY <2>1, <2>2 DEF Insert
    <2>4. r \notin late' => /\ records[r].status # "Closed"
                            /\ \A d \in deciding : d.record = r => d.status # "Closed"
      BY <2>1 DEF Closing
    <2>. QED  BY <1>1, <1>2, <2>1, <2>3, <2>4
  <1>10. ASSUME NEW r \in Live, NEW t \in DOMAIN tasks, NEW status \in TaskStatus,
                tasks[t].record = r, SetTaskStatus(r, t, status)
         PROVE  Goal
    <2>1. /\ tasks' = [tasks EXCEPT ![t].status = status]
          /\ late' = IF status # "Closed" /\ Closing(r) THEN late \cup {r} ELSE late
          /\ UNCHANGED <<records, deciding>>
      BY <1>10 DEF SetTaskStatus
    <2>2. /\ DOMAIN tasks' = DOMAIN tasks
          /\ tasks'[t].record = r /\ tasks'[t].status = status
          /\ \A x \in DOMAIN tasks : x # t => tasks'[x] = tasks[x]
      BY <1>1, <1>10, <2>1 DEF Task
    <2>3. r \notin late' /\ status # "Closed" =>
             /\ records[r].status # "Closed"
             /\ \A d \in deciding : d.record = r => d.status # "Closed"
      BY <2>1 DEF Closing
    <2>. QED  BY <1>1, <1>2, <2>1, <2>2, <2>3
  <1>11. ASSUME NEW t \in DOMAIN tasks, DeleteTask(t)
         PROVE  Goal
    <2>1. /\ tasks' = [x \in DOMAIN tasks \ {t} |-> tasks[x]]
          /\ UNCHANGED <<records, deciding, late>>
      BY <1>11 DEF DeleteTask, Remove
    <2>. QED  BY <1>2, <2>1
  <1>12. ASSUME NEW request \in Requests, NEW u \in Users, NEW r \in Records,
                NEW status \in Status, DecideStatus(request, u, r, status)
         PROVE  Goal
    <2>. DEFINE d == [request |-> request, record |-> r,
                      loaded |-> records[r].status, status |-> status]
    <2>1. /\ deciding' = deciding \cup {d}
          /\ late' = IF status = "Closed" THEN late \ {r} ELSE late
          /\ UNCHANGED <<records, tasks>>
          /\ status = "Closed" => OpenTasks(r) = {}
      BY <1>12 DEF DecideStatus, ApplyChangeStatus, ApplyAuditStatus, tables
    <2>2. d.record = r /\ d.status = status
      OBVIOUS
    <2>. HIDE DEF d
    <2>3. status = "Closed" =>
             \A t \in DOMAIN tasks : tasks[t].record = r => tasks[t].status = "Closed"
      BY <1>4, <2>1
    <2>. QED  BY <1>2, <2>1, <2>2, <2>3
  <1>13. ASSUME NEW d \in deciding, CommitStatus(d)
         PROVE  Goal
    <2>1. /\ records' = [records EXCEPT ![d.record].status = d.status]
          /\ deciding' \subseteq deciding
          /\ UNCHANGED <<tasks, late>>
      BY <1>13 DEF CommitStatus
    <2>2. /\ records'[d.record].status = d.status
          /\ \A x \in DOMAIN records : x # d.record => records'[x] = records[x]
      BY <1>1, <2>1 DEF Record
    <2>. QED  BY <1>1, <1>2, <2>1, <2>2
  <1>14. ASSUME NEW r, NEW l, NEW assessment, NEW order, NEW remaining,
                InsertLine(r, l, assessment, order, remaining)
         PROVE  Goal
    BY <1>5, <1>14 DEF InsertLine
  <1>15. ASSUME NEW l, NEW assessment, AssessLine(l, assessment) \/ DeleteLine(l)
         PROVE  Goal
    BY <1>5, <1>15 DEF AssessLine, DeleteLine
  <1>16. ASSUME NEW request, NEW u, NEW r, NEW assessment, NumberLine(request, u, r, assessment)
         PROVE  Goal
    BY <1>5, <1>16 DEF NumberLine, tables
  <1>17. ASSUME NEW h, Abandon(h)
         PROVE  Goal
    BY <1>5, <1>17 DEF Abandon, tables
  <1>18. CASE UNCHANGED vars
    BY <1>5, <1>18 DEF vars, tables
  <1>. HIDE DEF Goal
  <1>19. CASE LocalStep
    BY <1>6, <1>7, <1>8, <1>9, <1>10, <1>11, <1>14, <1>15, <1>19 DEF LocalStep, AppendLine
  <1>20. CASE OtherProcess
    BY <1>12, <1>13, <1>14, <1>16, <1>17, <1>20 DEF OtherProcess, CommitLine
  <1>. QED  BY <1>18, <1>19, <1>20, Steps

\* A closed change has no open action and a closed audit no open finding, on
\* whatever way it was closed, unless one came after the closure was decided.
THEOREM ClosureGate == Spec => []ClosedWithoutOpenTasks
  <1>1. ClosureInv => ClosedWithoutOpenTasks
    BY DEF ClosureInv
  <1>. QED  BY <1>1, InitClosure, StepClosure, Invariance, PTL DEF Spec

----------------------------------------------------------------------------
(* The trail *)

TrailInv == TrailTellsStatus /\ LoadedIsCurrent

LEMMA InitTrail == Init => TrailInv
  BY DEF Init, TrailInv, TrailTellsStatus, LoadedIsCurrent

\* A history row starts from the value that was loaded, which is the current
\* one unless another process has committed a change since.
LEMMA StepTrail == Inv /\ TrailInv /\ [Next]_vars => TrailInv'
  <1>. SUFFICES ASSUME Inv, TrailInv, [Next]_vars PROVE TrailInv'
    OBVIOUS
  <1>. USE DEF history
  <1>. DEFINE Told(r, record, entry, exempt) ==
                 /\ entry.last = record.status
                 /\ entry.gap => <<"status", r>> \in exempt
              Current(d, exempt) ==
                 /\ d.loaded # d.status
                 /\ <<"status", d.record>> \notin exempt => d.loaded = records[d.record].status
              Goal == /\ \A r \in DOMAIN records' : Told(r, records'[r], trail'[r], raced')
                      /\ \A d \in deciding' :
                            /\ d.loaded # d.status
                            /\ <<"status", d.record>> \notin raced' =>
                                  d.loaded = records'[d.record].status
  <1>1. /\ records \in [DOMAIN records -> Record]
        /\ trail \in [DOMAIN records -> Trail] /\ DOMAIN trail = DOMAIN records
        /\ Live \subseteq DOMAIN records
        /\ \A d \in deciding : d.record \in DOMAIN records
    BY DEF Inv, TypeOK, ChildrenOfRecords, Live
  <1>2. /\ \A r \in DOMAIN records : Told(r, records[r], trail[r], raced)
        /\ \A d \in deciding : Current(d, raced)
    BY DEF TrailInv, TrailTellsStatus, LoadedIsCurrent
  <1>3. SUFFICES Goal
    BY DEF TrailInv, TrailTellsStatus, LoadedIsCurrent
  \* A step that changes no status.
  <1>4. ASSUME trail' = trail, raced \subseteq raced', deciding' \subseteq deciding,
               DOMAIN records' = DOMAIN records,
               \A r \in DOMAIN records : records'[r].status = records[r].status
        PROVE  Goal
    BY <1>1, <1>2, <1>4
  <1>5. ASSUME NEW r \in Records, NEW kind \in {"change", "audit"}, NEW status \in Status,
               CreateRecord(r, kind, status)
        PROVE  Goal
    <2>. DEFINE row == [kind |-> kind, status |-> status, is_active |-> TRUE]
    <2>1. /\ r \notin DOMAIN records
          /\ records' = Insert(records, r, row)
          /\ trail' = Insert(trail, r, AfterInsert(status))
          /\ UNCHANGED <<deciding, raced>>
      BY <1>5 DEF CreateRecord
    <2>2. Told(r, row, AfterInsert(status), raced)
      BY DEF AfterInsert
    <2>. HIDE DEF row, Told
    <2>3. /\ DOMAIN records' = DOMAIN records \cup {r}
          /\ records'[r] = row /\ trail'[r] = AfterInsert(status)
          /\ \A x \in DOMAIN records : records'[x] = records[x] /\ trail'[x] = trail[x]
      BY <1>1, <2>1 DEF Insert
    <2>. QED  BY <1>1, <1>2, <2>1, <2>2, <2>3
  \* A step that sets the status of a record, from a value that is the current
  \* one or that a raced process has loaded.
  <1>6. ASSUME NEW r \in DOMAIN records, NEW loaded, NEW status,
               <<"status", r>> \notin raced => loaded = records[r].status,
               status = loaded => status = records[r].status,
               records' = [records EXCEPT ![r].status = status],
               trail' = [trail EXCEPT ![r] = AfterUpdate(@, loaded, status)],
               deciding' \subseteq deciding,
               raced' = IF \E d \in deciding' : d.record = r THEN raced \cup {<<"status", r>>}
                                                             ELSE raced
        PROVE  Goal
    <2>1. /\ DOMAIN records' = DOMAIN records
          /\ records'[r].status = status
          /\ trail'[r] = AfterUpdate(trail[r], loaded, status)
          /\ \A x \in DOMAIN records : x # r => records'[x] = records[x] /\ trail'[x] = trail[x]
      BY <1>1, <1>6 DEF Record
    <2>2. Told(r, records'[r], trail'[r], raced)
      <3>1. trail[r].last = records[r].status /\ (trail[r].gap => <<"status", r>> \in raced)
        BY <1>2
      <3>2. CASE loaded = status
        BY <1>6, <2>1, <3>1, <3>2 DEF AfterUpdate
      <3>3. CASE loaded # status
        <4>1. trail'[r].last = status
          BY <2>1, <3>3 DEF AfterUpdate
        <4>2. trail'[r].gap = (trail[r].gap \/ trail[r].last # loaded)
          BY <2>1, <3>3 DEF AfterUpdate
        <4>. QED  BY <1>6, <2>1, <3>1, <4>1, <4>2
      <3>. QED  BY <3>2, <3>3
    <2>3. raced \subseteq raced'
      BY <1>6
    <2>4. \A d \in deciding' :
             /\ d.loaded # d.status
             /\ <<"status", d.record>> \notin raced' => d.loaded = records'[d.record].status
      BY <1>1, <1>2, <1>6, <2>1, <2>3
    <2>. QED  BY <1>2, <2>1, <2>2, <2>3, <2>4
  <1>7. ASSUME NEW r \in Live, NEW status \in Status, SetStatus(r, status)
        PROVE  Goal
    <2>1. /\ records' = [records EXCEPT ![r].status = status]
          /\ trail' = [trail EXCEPT ![r] = AfterUpdate(@, records[r].status, status)]
          /\ deciding' = deciding
          /\ raced' = IF \E d \in deciding : d.record = r THEN raced \cup {<<"status", r>>}
                                                          ELSE raced
      BY <1>7 DEF SetStatus
    <2>2. r \in DOMAIN records
      BY <1>1
    <2>. HIDE DEF Goal
    <2>. QED  BY <1>6, <2>1, <2>2
  <1>8. ASSUME NEW d \in deciding, CommitStatus(d)
        PROVE  Goal
    <2>1. /\ records' = [records EXCEPT ![d.record].status = d.status]
          /\ trail' = [trail EXCEPT ![d.record] = AfterUpdate(@, d.loaded, d.status)]
          /\ deciding' = deciding \ {d}
          /\ raced' = IF \E o \in deciding \ {d} : o.record = d.record
                      THEN raced \cup {<<"status", d.record>>} ELSE raced
      BY <1>8 DEF CommitStatus
    <2>2. /\ d.record \in DOMAIN records
          /\ d.loaded # d.status
          /\ <<"status", d.record>> \notin raced => d.loaded = records[d.record].status
      BY <1>1, <1>2
    <2>. HIDE DEF Goal
    <2>. QED  BY <1>6, <2>1, <2>2
  <1>9. ASSUME NEW request \in Requests, NEW u \in Users, NEW r \in Records,
               NEW status \in Status, DecideStatus(request, u, r, status)
        PROVE  Goal
    <2>. DEFINE d == [request |-> request, record |-> r,
                      loaded |-> records[r].status, status |-> status]
    <2>1. /\ deciding' = deciding \cup {d}
          /\ status # records[r].status
          /\ UNCHANGED <<records, trail, raced>>
      BY <1>9 DEF DecideStatus, tables
    <2>2. d.record = r /\ d.loaded = records[r].status /\ d.status = status
      OBVIOUS
    <2>. HIDE DEF d
    <2>. QED  BY <1>2, <2>1, <2>2
  <1>10. ASSUME NEW r \in Live, SoftDelete(r)
         PROVE  Goal
    <2>1. /\ records' = [records EXCEPT ![r].is_active = FALSE]
          /\ UNCHANGED <<trail, deciding, raced>>
      BY <1>10 DEF SoftDelete
    <2>2. \A x \in DOMAIN records : records'[x].status = records[x].status
      BY <1>1, <2>1 DEF Record
    <2>. HIDE DEF Goal
    <2>. QED  BY <1>4, <2>1, <2>2
  <1>. HIDE DEF Goal
  <1>11. ASSUME NEW r, NEW l, NEW assessment, NEW order, NEW remaining,
                InsertLine(r, l, assessment, order, remaining)
         PROVE  Goal
    BY <1>4, <1>11 DEF InsertLine
  <1>12. ASSUME NEW l, NEW assessment, AssessLine(l, assessment) \/ DeleteLine(l)
         PROVE  Goal
    BY <1>4, <1>12 DEF AssessLine, DeleteLine
  <1>13. ASSUME NEW r, NEW t, NEW status,
                InsertTask(r, t) \/ SetTaskStatus(r, t, status) \/ DeleteTask(t)
         PROVE  Goal
    BY <1>4, <1>13 DEF InsertTask, SetTaskStatus, DeleteTask
  <1>14. ASSUME NEW request, NEW u, NEW r, NEW assessment, NumberLine(request, u, r, assessment)
         PROVE  Goal
    BY <1>4, <1>14 DEF NumberLine, tables
  <1>15. ASSUME NEW h, Abandon(h)
         PROVE  Goal
    BY <1>4, <1>15 DEF Abandon, tables
  <1>16. CASE UNCHANGED vars
    BY <1>4, <1>16 DEF vars, tables
  <1>17. CASE LocalStep
    BY <1>5, <1>7, <1>10, <1>11, <1>12, <1>13, <1>17 DEF LocalStep, AppendLine
  <1>18. CASE OtherProcess
    BY <1>8, <1>9, <1>11, <1>14, <1>15, <1>18 DEF OtherProcess, CommitLine
  <1>. QED  BY <1>16, <1>17, <1>18, Steps

\* The history of the status ends at the status and has no gap, however
\* processes overlap, unless two of them have changed it at a time.
THEOREM TrailEndsAtStatus == Spec => []TrailTellsStatus
  <1>1. TrailInv => TrailTellsStatus
    BY DEF TrailInv
  <1>. QED  BY <1>1, InitTrail, StepTrail, Invariance, PTL DEF Spec

----------------------------------------------------------------------------
(* The order of lines *)

\* No two lines of a record have the same place.
LinesApart ==
    \A k, l \in DOMAIN lines :
        /\ k # l
        /\ lines[k].record = lines[l].record
        /\ <<"line", lines[k].record>> \notin raced
        => lines[k].display_order # lines[l].display_order

OrderInv == LinesApart /\ OrderIsLast

LEMMA InitOrder == Init => OrderInv
  BY DEF Init, OrderInv, LinesApart, OrderIsLast

\* A line goes after all lines of its record that there are when its order is
\* computed; if others are added before it is committed, the record is raced.
LEMMA StepOrder == Inv /\ OrderInv /\ [Next]_vars => OrderInv'
  <1>. SUFFICES ASSUME Inv, OrderInv, [Next]_vars PROVE OrderInv'
    OBVIOUS
  <1>. USE DEF history
  <1>. DEFINE Goal == /\ \A k, l \in DOMAIN lines' :
                            /\ k # l /\ lines'[k].record = lines'[l].record
                            /\ <<"line", lines'[k].record>> \notin raced'
                            => lines'[k].display_order # lines'[l].display_order
                      /\ \A a \in adding', l \in DOMAIN lines' :
                            /\ <<"line", a.record>> \notin raced'
                            /\ lines'[l].record = a.record
                            => lines'[l].display_order < a.display_order
  <1>1. /\ lines \in [DOMAIN lines -> Line]
        /\ TypeOK
    BY DEF Inv, TypeOK
  <1>2. /\ \A k, l \in DOMAIN lines :
              /\ k # l /\ lines[k].record = lines[l].record
              /\ <<"line", lines[k].record>> \notin raced
              => lines[k].display_order # lines[l].display_order
        /\ \A a \in adding, l \in DOMAIN lines :
              <<"line", a.record>> \notin raced /\ lines[l].record = a.record =>
                 lines[l].display_order < a.display_order
    BY DEF OrderInv, LinesApart, OrderIsLast
  <1>3. SUFFICES Goal
    BY DEF OrderInv, LinesApart, OrderIsLast
  <1>4. ASSUME lines' = lines, adding' \subseteq adding, raced \subseteq raced'
        PROVE  Goal
    BY <1>2, <1>4
  \* A line that is inserted behind all others, unless it is raced.
  <1>5. ASSUME NEW r, NEW l, NEW assessment, NEW order \in Nat, NEW remaining \in SUBSET adding,
               InsertLine(r, l, assessment, order, remaining),
               <<"line", r>> \notin raced =>
                  \A x \in DOMAIN lines : lines[x].record = r => lines[x].display_order < order
        PROVE  Goal
    <2>. DEFINE row == [record |-> r, assessment |-> assessment, display_order |-> order]
    <2>1. /\ l \notin DOMAIN lines
          /\ lines' = Insert(lines, l, row)
          /\ adding' = remaining
          /\ raced' = IF \E a \in remaining : a.record = r THEN raced \cup {<<"line", r>>}
                                                           ELSE raced
      BY <1>5 DEF InsertLine
    <2>2. row.record = r /\ row.display_order = order
      OBVIOUS
    <2>. HIDE DEF row
    <2>3. /\ DOMAIN lines' = DOMAIN lines \cup {l}
          /\ lines'[l].record = r /\ lines'[l].display_order = order
          /\ \A x \in DOMAIN lines : lines'[x] = lines[x]
      BY <2>1, <2>2 DEF Insert
    <2>4. raced \subseteq raced'
      BY <2>1
    <2>5. ASSUME NEW k \in DOMAIN lines', NEW x \in DOMAIN lines',
                 k # x, lines'[k].record = lines'[x].record,
                 <<"line", lines'[k].record>> \notin raced'
          PROVE  lines'[k].display_order # lines'[x].display_order
      <3>1. \A y \in DOMAIN lines :
               lines[y].record = r /\ <<"line", r>> \notin raced => lines[y].display_order # order
        BY <1>1, <1>5, NoLessThanItself
      <3>. QED  BY <1>2, <2>3, <2>4, <2>5, <3>1
    <2>6. ASSUME NEW a \in adding', NEW x \in DOMAIN lines',
                 <<"line", a.record>> \notin raced', lines'[x].record = a.record
          PROVE  lines'[x].display_order < a.display_order
      <3>1. a \in adding /\ a.record # r
        BY <2>1, <2>6
      <3>. QED  BY <1>2, <2>3, <2>4, <2>6, <3>1
    <2>. QED  BY <2>5, <2>6
  <1>6. ASSUME NEW r \in Live, NEW l \in Lines, NEW assessment \in Assessments,
               AppendLine(r, l, assessment)
        PROVE  Goal
    <2>1. InsertLine(r, l, assessment, NextOrder(r), adding)
      BY <1>6 DEF AppendLine
    <2>2. \A x \in DOMAIN lines : lines[x].record = r => lines[x].display_order < NextOrder(r)
      BY <1>1, <1>6, NextOrderIsLast DEF AppendLine, LinesOf
    <2>3. NextOrder(r) \in Nat
      BY <1>1, <1>6, NextOrderIsLast, MaxOrderAssumption DEF AppendLine
    <2>. HIDE DEF Goal
    <2>. QED  BY <1>5, <2>1, <2>2, <2>3
  <1>7. ASSUME NEW a \in adding, NEW l \in Lines, CommitLine(a, l)
        PROVE  Goal
    <2>1. InsertLine(a.record, l, a.assessment, a.display_order, adding \ {a})
      BY <1>7 DEF CommitLine
    <2>2. <<"line", a.record>> \notin raced =>
             \A x \in DOMAIN lines : lines[x].record = a.record =>
                lines[x].display_order < a.display_order
      BY <1>2
    <2>3. adding \ {a} \in SUBSET adding /\ a.display_order \in Nat
      BY <1>1, MaxOrderAssumption DEF TypeOK, Addition
    <2>. HIDE DEF Goal
    <2>. QED  BY <1>5, <2>1, <2>2, <2>3
  <1>8. ASSUME NEW l \in DOMAIN lines, NEW assessment \in Assessments, AssessLine(l, assessment)
        PROVE  Goal
    <2>1. /\ lines' = [lines EXCEPT ![l].assessment = assessment]
          /\ UNCHANGED <<adding, raced>>
      BY <1>8 DEF AssessLine
    <2>2. /\ DOMAIN lines' = DOMAIN lines
          /\ \A x \in DOMAIN lines : /\ lines'[x].record = lines[x].record
                                     /\ lines'[x].display_order = lines[x].display_order
      BY <1>1, <2>1 DEF Line
    <2>. QED  BY <1>2, <2>1, <2>2
  <1>9. ASSUME NEW l \in DOMAIN lines, DeleteLine(l)
        PROVE  Goal
    <2>1. /\ lines' = [x \in DOMAIN lines \ {l} |-> lines[x]]
          /\ UNCHANGED <<adding, raced>>
      BY <1>9 DEF DeleteLine, Remove
    <2>. QED  BY <1>2, <2>1
  <1>10. ASSUME NEW request \in Requests, NEW u \in Users, NEW r \in Records,
                NEW assessment \in Assessments, NumberLine(request, u, r, assessment)
         PROVE  Goal
    <2>. DEFINE a == [request |-> request, record |-> r, assessment |-> assessment,
                      display_order |-> NextOrder(r)]
    <2>1. /\ NextOrder(r) <= MaxOrder
          /\ adding' = adding \cup {a}
          /\ UNCHANGED <<lines, raced>>
      BY <1>10 DEF NumberLine, tables
    <2>2. \A x \in DOMAIN lines : lines[x].record = r => lines[x].display_order < NextOrder(r)
      BY <1>1, <2>1, NextOrderIsLast DEF LinesOf
    <2>3. a.record = r /\ a.display_order = NextOrder(r)
      OBVIOUS
    <2>. HIDE DEF a
    <2>. QED  BY <1>2, <2>1, <2>2, <2>3
  <1>. HIDE DEF Goal
  <1>11. ASSUME NEW r, NEW kind, NEW status,
                CreateRecord(r, kind, status) \/ SetStatus(r, status) \/ SoftDelete(r)
         PROVE  Goal
    BY <1>4, <1>11 DEF CreateRecord, SetStatus, SoftDelete
  <1>12. ASSUME NEW r, NEW t, NEW status,
                InsertTask(r, t) \/ SetTaskStatus(r, t, status) \/ DeleteTask(t)
         PROVE  Goal
    BY <1>4, <1>12 DEF InsertTask, SetTaskStatus, DeleteTask
  <1>13. ASSUME NEW request, NEW u, NEW r, NEW status, DecideStatus(request, u, r, status)
         PROVE  Goal
    BY <1>4, <1>13 DEF DecideStatus, tables
  <1>14. ASSUME NEW h, CommitStatus(h) \/ Abandon(h)
         PROVE  Goal
    BY <1>4, <1>14 DEF CommitStatus, Abandon, tables
  <1>15. CASE UNCHANGED vars
    BY <1>4, <1>15 DEF vars, tables
  <1>16. CASE LocalStep
    <2>1. \A r : LinesOf(r) \subseteq DOMAIN lines
      BY DEF LinesOf
    <2>. QED  BY <1>6, <1>8, <1>9, <1>11, <1>12, <1>16, <2>1 DEF LocalStep
  <1>17. CASE OtherProcess
    BY <1>7, <1>10, <1>13, <1>14, <1>17 DEF OtherProcess
  <1>. QED  BY <1>15, <1>16, <1>17, Steps

\* Two lines of a record never have the same place, whatever was deleted in
\* between, unless they were added by two processes at a time.
THEOREM LinesHavePlaces == Spec => []LinesApart
  <1>1. OrderInv => LinesApart
    BY DEF OrderInv
  <1>. QED  BY <1>1, InitOrder, StepOrder, Invariance, PTL DEF Spec

\* What a step may do to the lines of all records.
LinesListed ==
    \A l \in DOMAIN lines' :
        IF l \in DOMAIN lines
        THEN <<lines'[l].record, lines'[l].display_order>>
                = <<lines[l].record, lines[l].display_order>>
        ELSE <<"line", lines'[l].record>> \notin raced =>
                \A k \in LinesOf(lines'[l].record) :
                    lines[k].display_order < lines'[l].display_order

LEMMA StepListed == Inv /\ OrderInv /\ [Next]_vars => LinesListed
  <1>. SUFFICES ASSUME Inv, OrderInv, [Next]_vars PROVE LinesListed
    OBVIOUS
  <1>. USE DEF history
  <1>1. lines \in [DOMAIN lines -> Line] /\ TypeOK
    BY DEF Inv, TypeOK
  <1>2. CASE lines' = lines
    BY <1>2 DEF LinesListed
  <1>3. ASSUME NEW r, NEW l, NEW assessment, NEW order, NEW remaining,
               InsertLine(r, l, assessment, order, remaining),
               <<"line", r>> \notin raced =>
                  \A k \in LinesOf(r) : lines[k].display_order < order
        PROVE  LinesListed
    <2>. DEFINE row == [record |-> r, assessment |-> assessment, display_order |-> order]
    <2>1. /\ l \notin DOMAIN lines
          /\ lines' = Insert(lines, l, row)
      BY <1>3 DEF InsertLine
    <2>2. row.record = r /\ row.display_order = order
      OBVIOUS
    <2>. HIDE DEF row
    <2>3. /\ DOMAIN lines' = DOMAIN lines \cup {l}
          /\ lines'[l].record = r /\ lines'[l].display_order = order
          /\ \A x \in DOMAIN lines : lines'[x] = lines[x]
      BY <2>1, <2>2 DEF Insert
    <2>. QED  BY <1>3, <2>1, <2>3 DEF LinesListed
  <1>4. ASSUME NEW r \in Live, NEW l \in Lines, NEW assessment \in Assessments,
               AppendLine(r, l, assessment)
        PROVE  LinesListed
    BY <1>1, <1>3, <1>4, NextOrderIsLast DEF AppendLine
  <1>5. ASSUME NEW a \in adding, NEW l \in Lines, CommitLine(a, l)
        PROVE  LinesListed
    <2>1. InsertLine(a.record, l, a.assessment, a.display_order, adding \ {a})
      BY <1>5 DEF CommitLine
    <2>2. <<"line", a.record>> \notin raced =>
             \A k \in LinesOf(a.record) : lines[k].display_order < a.display_order
      BY DEF OrderInv, OrderIsLast, LinesOf
    <2>. QED  BY <1>3, <2>1, <2>2
  <1>6. ASSUME NEW l \in DOMAIN lines, NEW assessment \in Assessments, AssessLine(l, assessment)
        PROVE  LinesListed
    <2>1. lines' = [lines EXCEPT ![l].assessment = assessment]
      BY <1>6 DEF AssessLine
    <2>2. /\ DOMAIN lines' = DOMAIN lines
          /\ \A x \in DOMAIN lines : /\ lines'[x].record = lines[x].record
                                     /\ lines'[x].display_order = lines[x].display_order
      BY <1>1, <2>1 DEF Line
    <2>. QED  BY <2>2 DEF LinesListed
  <1>7. ASSUME NEW l \in DOMAIN lines, DeleteLine(l)
        PROVE  LinesListed
    <2>1. lines' = [x \in DOMAIN lines \ {l} |-> lines[x]]
      BY <1>7 DEF DeleteLine, Remove
    <2>. QED  BY <2>1 DEF LinesListed
  <1>8. ASSUME NEW r, NEW kind, NEW status, NEW t,
               \/ CreateRecord(r, kind, status) \/ SetStatus(r, status) \/ SoftDelete(r)
               \/ InsertTask(r, t) \/ SetTaskStatus(r, t, status) \/ DeleteTask(t)
        PROVE  LinesListed
    BY <1>2, <1>8 DEF CreateRecord, SetStatus, SoftDelete, InsertTask, SetTaskStatus, DeleteTask
  <1>9. ASSUME NEW request, NEW u, NEW r, NEW x,
               DecideStatus(request, u, r, x) \/ NumberLine(request, u, r, x)
        PROVE  LinesListed
    BY <1>2, <1>9 DEF DecideStatus, NumberLine, tables
  <1>10. ASSUME NEW h, CommitStatus(h) \/ Abandon(h)
         PROVE  LinesListed
    BY <1>2, <1>10 DEF CommitStatus, Abandon, tables
  <1>11. CASE UNCHANGED vars
    BY <1>2, <1>11 DEF vars, tables
  <1>12. CASE LocalStep
    <2>1. \A r : LinesOf(r) \subseteq DOMAIN lines
      BY DEF LinesOf
    <2>. QED  BY <1>4, <1>6, <1>7, <1>8, <1>12, <2>1 DEF LocalStep
  <1>13. CASE OtherProcess
    BY <1>5, <1>9, <1>10, <1>13 DEF OtherProcess
  <1>. QED  BY <1>11, <1>12, <1>13, Steps

\* The lines of a record stay in the order in which they were added: a new line
\* goes behind all that there are when it is committed, whatever was deleted
\* since its order was computed, unless another one was added since; and no step
\* moves a line.
THEOREM LinesKeepOrder == Spec => LinesInOrder
  <1>1. Inv /\ OrderInv /\ [Next]_vars
           => [\A l \in DOMAIN lines' :
                  LET line == lines'[l]
                  IN  IF l \in DOMAIN lines
                      THEN <<line.record, line.display_order>>
                              = <<lines[l].record, lines[l].display_order>>
                      ELSE <<"line", line.record>> \notin raced =>
                              \A k \in LinesOf(line.record) :
                                  lines[k].display_order < line.display_order]_vars
    BY StepListed DEF LinesListed
  <1>. QED  BY <1>1, InitOrder, StepOrder, Invariance, PTL DEF Spec, LinesInOrder

----------------------------------------------------------------------------
(* Deletion *)

LEMMA InitLive == Init => WorksOnLive
  BY DEF Init, WorksOnLive

\* A request is only begun on a record that is not deleted.
LEMMA StepLive == Inv /\ WorksOnLive /\ [Next]_vars => WorksOnLive'
  <1>. SUFFICES ASSUME Inv, WorksOnLive, [Next]_vars PROVE WorksOnLive'
    OBVIOUS
  <1>. USE DEF history
  <1>1. /\ records \in [DOMAIN records -> Record]
        /\ \A h \in deciding \cup adding : h.record \in DOMAIN records
        /\ \A h \in deciding \cup adding : h.record \in Live \cup overtaken
        /\ Live \subseteq DOMAIN records
    BY DEF Inv, TypeOK, ChildrenOfRecords, WorksOnLive, Live
  \* A step that begins no request and deletes no record.
  <1>2. ASSUME deciding' \cup adding' \subseteq deciding \cup adding,
               overtaken' = overtaken, Live \subseteq Live'
        PROVE  WorksOnLive'
    BY <1>1, <1>2 DEF WorksOnLive
  <1>3. ASSUME records' = records
        PROVE  Live' = Live
    BY <1>3 DEF Live
  <1>4. ASSUME NEW r \in Records, NEW kind, NEW status, CreateRecord(r, kind, status)
        PROVE  WorksOnLive'
    <2>1. /\ r \notin DOMAIN records
          /\ DOMAIN records' = DOMAIN records \cup {r}
          /\ \A x \in DOMAIN records : records'[x] = records[x]
          /\ UNCHANGED <<deciding, adding, overtaken>>
      BY <1>4 DEF CreateRecord, Insert
    <2>2. Live \subseteq Live'
      BY <2>1 DEF Live
    <2>. QED  BY <1>2, <2>1, <2>2
  <1>5. ASSUME NEW r \in DOMAIN records, NEW status,
               records' = [records EXCEPT ![r].status = status],
               deciding' \cup adding' \subseteq deciding \cup adding, overtaken' = overtaken
        PROVE  WorksOnLive'
    <2>1. /\ DOMAIN records' = DOMAIN records
          /\ \A x \in DOMAIN records : records'[x].is_active = records[x].is_active
      BY <1>1, <1>5 DEF Record
    <2>2. Live \subseteq Live'
      BY <2>1 DEF Live
    <2>. QED  BY <1>2, <1>5, <2>2
  <1>6. ASSUME NEW r \in Live, SoftDelete(r)
        PROVE  WorksOnLive'
    <2>1. /\ records' = [records EXCEPT ![r].is_active = FALSE]
          /\ overtaken' = IF \E h \in deciding \cup adding : h.record = r
                          THEN overtaken \cup {r} ELSE overtaken
          /\ UNCHANGED <<deciding, adding>>
      BY <1>6 DEF SoftDelete
    <2>2. /\ DOMAIN records' = DOMAIN records
          /\ \A x \in DOMAIN records : x # r => records'[x] = records[x]
      BY <2>1
    <2>3. Live \ {r} \subseteq Live'
      BY <2>2 DEF Live
    <2>4. ASSUME NEW h \in deciding \cup adding
          PROVE  h.record \in Live' \cup overtaken'
      BY <1>1, <2>1, <2>3
    <2>. QED  BY <2>1, <2>4 DEF WorksOnLive
  <1>7. ASSUME NEW request \in Requests, NEW u \in Users, NEW r \in Records,
               NEW status \in Status, DecideStatus(request, u, r, status)
        PROVE  WorksOnLive'
    <2>. DEFINE d == [request |-> request, record |-> r,
                      loaded |-> records[r].status, status |-> status]
    <2>1. /\ deciding' = deciding \cup {d}
          /\ r \in Live
          /\ UNCHANGED <<records, adding, overtaken>>
      BY <1>7 DEF DecideStatus, ChangeInOrg, AuditInOrg, Live, tables
    <2>2. d.record = r
      OBVIOUS
    <2>. HIDE DEF d
    <2>. QED  BY <1>1, <1>3, <2>1, <2>2 DEF WorksOnLive
  <1>8. ASSUME NEW request \in Requests, NEW u \in Users, NEW r \in Records,
               NEW assessment \in Assessments, NumberLine(request, u, r, assessment)
        PROVE  WorksOnLive'
    <2>. DEFINE a == [request |-> request, record |-> r, assessment |-> assessment,
                      display_order |-> NextOrder(r)]
    <2>1. /\ adding' = adding \cup {a}
          /\ r \in Live
          /\ UNCHANGED <<records, deciding, overtaken>>
      BY <1>8 DEF NumberLine, ChangeInOrg, AuditInOrg, Live, tables
    <2>2. a.record = r
      OBVIOUS
    <2>. HIDE DEF a
    <2>. QED  BY <1>1, <1>3, <2>1, <2>2 DEF WorksOnLive
  <1>9. ASSUME NEW r \in Live, NEW status, SetStatus(r, status)
        PROVE  WorksOnLive'
    BY <1>1, <1>5, <1>9 DEF SetStatus
  <1>10. ASSUME NEW d \in deciding, CommitStatus(d)
         PROVE  WorksOnLive'
    BY <1>1, <1>5, <1>10 DEF CommitStatus
  <1>11. ASSUME NEW r, NEW l, NEW assessment, NEW order, NEW remaining \in SUBSET adding,
                InsertLine(r, l, assessment, order, remaining)
         PROVE  WorksOnLive'
    BY <1>2, <1>3, <1>11 DEF InsertLine
  <1>12. ASSUME NEW l, NEW assessment, AssessLine(l, assessment) \/ DeleteLine(l)
         PROVE  WorksOnLive'
    BY <1>2, <1>3, <1>12 DEF AssessLine, DeleteLine
  <1>13. ASSUME NEW r, NEW t, NEW status,
                InsertTask(r, t) \/ SetTaskStatus(r, t, status) \/ DeleteTask(t)
         PROVE  WorksOnLive'
    BY <1>2, <1>3, <1>13 DEF InsertTask, SetTaskStatus, DeleteTask
  <1>14. ASSUME NEW h, Abandon(h)
         PROVE  WorksOnLive'
    BY <1>2, <1>3, <1>14 DEF Abandon, tables
  <1>15. CASE UNCHANGED vars
    BY <1>2, <1>3, <1>15 DEF vars, tables
  <1>16. CASE LocalStep
    BY <1>4, <1>6, <1>9, <1>11, <1>12, <1>13, <1>16 DEF LocalStep, AppendLine
  <1>17. CASE OtherProcess
    BY <1>7, <1>8, <1>10, <1>11, <1>14, <1>17 DEF OtherProcess, CommitLine
  <1>. QED  BY <1>15, <1>16, <1>17, Steps

\* A step leaves the rows of a table that belong to a record.
RowsStay(table, after, r) ==
    \A x : /\ (x \in DOMAIN table /\ table[x].record = r)
                 <=> (x \in DOMAIN after /\ after[x].record = r)
           /\ x \in DOMAIN table /\ table[x].record = r => after[x] = table[x]

LEMMA RowsStayed ==
    ASSUME NEW table, NEW after, NEW r, RowsStay(table, after, r)
    PROVE  {[id |-> x, row |-> after[x]] : x \in {y \in DOMAIN after : after[y].record = r}}
         = {[id |-> x, row |-> table[x]] : x \in {y \in DOMAIN table : table[y].record = r}}
  <1>1. {y \in DOMAIN after : after[y].record = r} = {y \in DOMAIN table : table[y].record = r}
    BY DEF RowsStay
  <1>2. \A x \in {y \in DOMAIN table : table[y].record = r} : after[x] = table[x]
    BY DEF RowsStay
  <1>. QED  BY <1>1, <1>2

\* Every handler looks its record up among those that are not deleted, and the
\* requests of other processes have done so.
LEMMA DeletedUntouched ==
    ASSUME Inv, WorksOnLive, Next,
           NEW r \in DOMAIN records \ overtaken, ~records[r].is_active
    PROVE  /\ records'[r] = records[r]
           /\ RowsStay(lines, lines', r)
           /\ RowsStay(tasks, tasks', r)
  <1>. USE DEF history
  <1>. DEFINE Goal == /\ records'[r] = records[r]
                      /\ RowsStay(lines, lines', r)
                      /\ RowsStay(tasks, tasks', r)
  <1>. SUFFICES Goal
    OBVIOUS
  <1>1. /\ r \in DOMAIN records /\ r \notin Live
        /\ \A h \in deciding \cup adding : h.record # r /\ h.record \in DOMAIN records
        /\ lines \in [DOMAIN lines -> Line]
        /\ tasks \in [DOMAIN tasks -> Task]
    BY DEF Inv, TypeOK, ChildrenOfRecords, WorksOnLive, Live
  <1>2. \A table : RowsStay(table, table, r)
    BY DEF RowsStay
  <1>3. ASSUME records'[r] = records[r], lines' = lines, tasks' = tasks
        PROVE  Goal
    BY <1>2, <1>3
  <1>4. ASSUME NEW x \in Records, NEW kind, NEW status, CreateRecord(x, kind, status)
        PROVE  Goal
    <2>1. records'[r] = records[r] /\ UNCHANGED <<lines, tasks>>
      BY <1>1, <1>4 DEF CreateRecord, Insert
    <2>. QED  BY <1>3, <2>1
  <1>5. ASSUME NEW x \in Live, NEW status, SetStatus(x, status) \/ SoftDelete(x)
        PROVE  Goal
    <2>1. records'[r] = records[r] /\ UNCHANGED <<lines, tasks>>
      BY <1>1, <1>5 DEF SetStatus, SoftDelete
    <2>. QED  BY <1>3, <2>1
  <1>6. ASSUME NEW d \in deciding, CommitStatus(d)
        PROVE  Goal
    <2>1. records'[r] = records[r] /\ UNCHANGED <<lines, tasks>>
      BY <1>1, <1>6 DEF CommitStatus
    <2>. QED  BY <1>3, <2>1
  <1>7. ASSUME NEW x, x # r, NEW l, NEW assessment, NEW order, NEW remaining,
               InsertLine(x, l, assessment, order, remaining)
        PROVE  Goal
    <2>. DEFINE row == [record |-> x, assessment |-> assessment, display_order |-> order]
    <2>1. /\ l \notin DOMAIN lines
          /\ lines' = Insert(lines, l, row)
          /\ UNCHANGED <<records, tasks>>
      BY <1>7 DEF InsertLine
    <2>2. row.record = x
      OBVIOUS
    <2>. HIDE DEF row
    <2>3. RowsStay(lines, lines', r)
      BY <1>7, <2>1, <2>2 DEF RowsStay, Insert
    <2>. QED  BY <1>2, <2>1, <2>3
  <1>8. ASSUME NEW x \in Live, NEW l \in LinesOf(x), NEW assessment, AssessLine(l, assessment)
        PROVE  Goal
    <2>1. /\ lines' = [lines EXCEPT ![l].assessment = assessment]
          /\ l \in DOMAIN lines /\ lines[l].record # r
          /\ UNCHANGED <<records, tasks>>
      BY <1>1, <1>8 DEF AssessLine, LinesOf
    <2>2. lines'[l].record = lines[l].record
      BY <1>1, <2>1 DEF Line
    <2>3. RowsStay(lines, lines', r)
      BY <2>1, <2>2 DEF RowsStay
    <2>. QED  BY <1>2, <2>1, <2>3
  <1>9. ASSUME NEW x \in Live, NEW l \in LinesOf(x), DeleteLine(l)
        PROVE  Goal
    <2>1. /\ lines' = [y \in DOMAIN lines \ {l} |-> lines[y]]
          /\ l \in DOMAIN lines /\ lines[l].record # r
          /\ UNCHANGED <<records, tasks>>
      BY <1>1, <1>9 DEF DeleteLine, Remove, LinesOf
    <2>2. RowsStay(lines, lines', r)
      BY <2>1 DEF RowsStay
    <2>. QED  BY <1>2, <2>1, <2>2
  <1>10. ASSUME NEW x \in Live, NEW t \in Tasks, InsertTask(x, t)
         PROVE  Goal
    <2>. DEFINE row == [record |-> x, status |-> "Open"]
    <2>1. /\ t \notin DOMAIN tasks
          /\ tasks' = Insert(tasks, t, row)
          /\ UNCHANGED <<records, lines>>
      BY <1>10 DEF InsertTask
    <2>2. row.record = x /\ x # r
      BY <1>1
    <2>. HIDE DEF row
    <2>3. RowsStay(tasks, tasks', r)
      BY <2>1, <2>2 DEF RowsStay, Insert
    <2>. QED  BY <1>2, <2>1, <2>3
  <1>11. ASSUME NEW x \in Live, NEW t \in DOMAIN tasks, NEW status, tasks[t].record = x,
                SetTaskStatus(x, t, status)
         PROVE  Goal
    <2>1. /\ tasks' = [tasks EXCEPT ![t].status = status]
          /\ tasks[t].record # r
          /\ UNCHANGED <<records, lines>>
      BY <1>1, <1>11 DEF SetTaskStatus
    <2>2. tasks'[t].record = tasks[t].record
      BY <1>1, <2>1 DEF Task
    <2>3. RowsStay(tasks, tasks', r)
      BY <2>1, <2>2 DEF RowsStay
    <2>. QED  BY <1>2, <2>1, <2>3
  <1>12. ASSUME NEW x \in Live, NEW t \in DOMAIN tasks, tasks[t].record = x, DeleteTask(t)
         PROVE  Goal
    <2>1. /\ tasks' = [y \in DOMAIN tasks \ {t} |-> tasks[y]]
          /\ tasks[t].record # r
          /\ UNCHANGED <<records, lines>>
      BY <1>1, <1>12 DEF DeleteTask, Remove
    <2>2. RowsStay(tasks, tasks', r)
      BY <2>1 DEF RowsStay
    <2>. QED  BY <1>2, <2>1, <2>2
  <1>. HIDE DEF Goal
  <1>13. ASSUME NEW request, NEW u, NEW x, NEW status, NEW assessment,
                DecideStatus(request, u, x, status) \/ NumberLine(request, u, x, assessment)
         PROVE  Goal
    BY <1>3, <1>13 DEF DecideStatus, NumberLine, tables
  <1>14. ASSUME NEW h, Abandon(h)
         PROVE  Goal
    BY <1>3, <1>14 DEF Abandon, tables
  <1>15. CASE LocalStep
    BY <1>1, <1>4, <1>5, <1>7, <1>8, <1>9, <1>10, <1>11, <1>12, <1>15 DEF LocalStep, AppendLine
  <1>16. CASE OtherProcess
    BY <1>1, <1>6, <1>7, <1>13, <1>14, <1>16 DEF OtherProcess, CommitLine
  <1>. QED  BY <1>15, <1>16, Steps

\* What is deleted stays as it was, with its lines and tasks, unless a request
\* of another process had found it before it was deleted.
THEOREM DeletedStays == Spec => DeletedStaysAsItWas
  <1>. DEFINE Kept == \A r \in DOMAIN records \ overtaken :
                 LET rows(table) == {[id |-> x, row |-> table[x]] :
                                         x \in {y \in DOMAIN table : table[y].record = r}}
                 IN  ~records[r].is_active =>
                        /\ records'[r] = records[r]
                        /\ rows(lines)' = rows(lines)
                        /\ rows(tasks)' = rows(tasks)
  <1>1. Inv /\ WorksOnLive /\ Next => Kept
    BY DeletedUntouched, RowsStayed
  <1>2. Inv /\ WorksOnLive /\ [Next]_vars => [Kept]_vars
    BY <1>1
  <1>. QED  BY <1>2, InitLive, StepLive, Invariance, PTL DEF Spec, DeletedStaysAsItWas

----------------------------------------------------------------------------
(* The two interfaces *)

\* What a user does in the browser the API lets him do.
LEMMA PageStepIsApiStep ==
    ASSUME NEW u \in Users, PageStep(u)
    PROVE  ApiStep(u)
  <1>1. ASSUME NEW r \in Records, NEW status \in ChangeStatus, ChangeStatusAction(u, r, status)
        PROVE  ApiStep(u)
    <2>1. UpdateChange(u, r, status)
      BY <1>1 DEF ChangeStatusAction, UpdateChange, ApplyChangeStatus, ChangeOr404, ChangeInOrg
    <2>. QED  BY <2>1 DEF ApiStep, ApiStatus
  <1>2. ASSUME NEW r \in Records, NEW status \in AuditStatus, AuditStatusAction(u, r, status)
        PROVE  ApiStep(u)
    <2>1. UpdateAudit(u, r, status)
      BY <1>2 DEF AuditStatusAction, UpdateAudit, ApplyAuditStatus, AuditOr404, AuditInOrg
    <2>. QED  BY <2>1 DEF ApiStep, ApiStatus
  <1>3. ASSUME NEW r \in Records,
               \/ ChangeCreateSubmit(u, r) \/ ChangeDelete(u, r)
               \/ AuditCreateSubmit(u, r) \/ AuditDelete(u, r)
        PROVE  ApiStep(u)
    <2>1. CreateChange(u, r) \/ DeleteChange(u, r) \/ CreateAudit(u, r) \/ DeleteAudit(u, r)
      BY <1>3 DEF ChangeCreateSubmit, ChangeDelete, AuditCreateSubmit, AuditDelete,
                  CreateChange, DeleteChange, CreateAudit, DeleteAudit,
                  ChangeOr404, ChangeInOrg, AuditOr404, AuditInOrg
    <2>. QED  BY <2>1 DEF ApiStep
  <1>4. ASSUME NEW r \in Records, NEW l \in Lines,
               \/ ImpactDelete(u, r, l) \/ ChecklistDelete(u, r, l) \/ ChecklistAdd(u, r, l)
        PROVE  ApiStep(u)
    <2>1. \/ DeleteImpact(u, r, l) \/ DeleteChecklistItem(u, r, l)
          \/ AddChecklistItem(u, r, l, Pending)
      BY <1>4 DEF ImpactDelete, ChecklistDelete, ChecklistAdd,
                  DeleteImpact, DeleteChecklistItem, AddChecklistItem,
                  ChangeOr404, ChangeInOrg, AuditOr404, AuditInOrg,
                  ImpactOr404, ImpactInChange, ItemOr404, ItemInAudit
    <2>. QED  BY <2>1, PendingAssumption DEF ApiStep
  <1>5. ASSUME NEW r \in Records, NEW l \in Lines, NEW assessment \in Assessments,
               \/ ImpactAdd(u, r, l, assessment) \/ ImpactUpdate(u, r, l, assessment)
               \/ ChecklistUpdate(u, r, l, assessment)
        PROVE  ApiStep(u)
    <2>1. \/ AddImpact(u, r, l, assessment) \/ UpdateImpact(u, r, l, assessment)
          \/ UpdateChecklistItem(u, r, l, assessment)
      BY <1>5 DEF ImpactAdd, ImpactUpdate, ChecklistUpdate,
                  AddImpact, UpdateImpact, UpdateChecklistItem,
                  ChangeOr404, ChangeInOrg, AuditOr404, AuditInOrg,
                  ImpactOr404, ImpactInChange, ItemOr404, ItemInAudit
    <2>. QED  BY <2>1 DEF ApiStep
  <1>6. ASSUME NEW r \in Records, NEW t \in Tasks,
               \/ ActionAdd(u, r, t) \/ ActionDelete(u, r, t)
               \/ FindingAdd(u, r, t) \/ FindingDelete(u, r, t)
               \/ \E status \in TaskStatus :
                     ActionUpdate(u, r, t, status) \/ FindingUpdate(u, r, t, status)
        PROVE  ApiStep(u)
    <2>1. \/ AddAction(u, r, t) \/ DeleteAction(u, r, t)
          \/ AddFinding(u, r, t) \/ DeleteFinding(u, r, t)
          \/ \E status \in TaskStatus :
                UpdateAction(u, r, t, status) \/ UpdateFinding(u, r, t, status)
      BY <1>6 DEF ActionAdd, ActionDelete, FindingAdd, FindingDelete, ActionUpdate,
                  FindingUpdate, AddAction, DeleteAction, AddFinding, DeleteFinding,
                  UpdateAction, UpdateFinding, ChangeOr404, ChangeInOrg, AuditOr404,
                  AuditInOrg, ActionOr404, ActionInChange, FindingOr404, FindingInAudit
    <2>. QED  BY <2>1 DEF ApiStep
  <1>. QED  BY <1>1, <1>2, <1>3, <1>4, <1>5, <1>6 DEF PageStep, PageStatus

\* A status that the API lets a user set the browser lets him set, but for
\* closing an audit without the permission to close audits.
LEMMA ApiStatusIsPageStatus ==
    ASSUME TypeOK, NEW u \in Users, ApiStatus(u)
    PROVE  \/ PageStatus(u)
           \/ /\ ~Granted(u, "audit:close")
              /\ \E r \in DOMAIN records : AuditInOrg(r) /\ records'[r].status = "Closed"
  <1>1. ASSUME NEW r \in Records, NEW status \in ChangeStatus, UpdateChange(u, r, status)
        PROVE  PageStatus(u)
    <2>1. ChangeStatusAction(u, r, status)
      BY <1>1 DEF ChangeStatusAction, UpdateChange, ApplyChangeStatus, ChangeOr404, ChangeInOrg
    <2>. QED  BY <2>1 DEF PageStatus
  <1>2. ASSUME NEW r \in Records, NEW status \in AuditStatus, UpdateAudit(u, r, status)
        PROVE  \/ PageStatus(u)
               \/ ~Granted(u, "audit:close") /\ AuditInOrg(r) /\ records'[r].status = "Closed"
    <2>1. CASE status # "Closed" \/ Granted(u, "audit:close")
      <3>1. AuditStatusAction(u, r, status)
        BY <1>2, <2>1 DEF AuditStatusAction, UpdateAudit, ApplyAuditStatus, AuditOr404, AuditInOrg
      <3>. QED  BY <3>1 DEF PageStatus
    <2>2. CASE status = "Closed" /\ ~Granted(u, "audit:close")
      <3>1. /\ AuditInOrg(r) /\ r \in DOMAIN records
            /\ records' = [records EXCEPT ![r].status = "Closed"]
        BY <1>2, <2>2 DEF UpdateAudit, AuditInOrg, SetStatus
      <3>2. records[r] \in Record
        BY <3>1 DEF TypeOK
      <3>. QED  BY <2>2, <3>1, <3>2 DEF Record
    <2>. QED  BY <2>1, <2>2
  <1>3. \A r : AuditInOrg(r) => r \in DOMAIN records
    BY DEF AuditInOrg
  <1>. QED  BY <1>1, <1>2, <1>3 DEF ApiStatus

\* Both interfaces let a user do the same to a status, but for closing an audit.
THEOREM SurfacesAgreeAlways == Spec => SurfacesAgree
  <1>1. TypeOK /\ [Next]_vars =>
           [UNCHANGED <<deciding, adding>> => \A u \in Users :
              /\ PageStep(u) => ApiStep(u)
              /\ ApiStatus(u) =>
                    \/ PageStatus(u)
                    \/ /\ ~Granted(u, "audit:close")
                       /\ \E r \in DOMAIN records :
                             AuditInOrg(r) /\ records'[r].status = "Closed"]_vars
    BY PageStepIsApiStep, ApiStatusIsPageStatus
  <1>. QED  BY <1>1, TypeCorrect, PTL DEF Spec, SurfacesAgree

----------------------------------------------------------------------------
(* Decisions are as good as changes at once *)

\* The handlers as they would be if none was ever between decision and commit.
One == INSTANCE GatedRecords WITH
           deciding <- {}, adding <- {}, late <- {}, raced <- {}, overtaken <- {}

\* The user may give the record this status, as far as rights tell.
Entitles(u, r, status) ==
    \/ /\ records[r].kind = "change" /\ status \in ChangeStatus
       /\ Granted(u, "change:update")
       /\ status \in {"Approved", "Rejected"} => Granted(u, "change:approve")
    \/ /\ records[r].kind = "audit" /\ status \in AuditStatus
       /\ Granted(u, "audit:update")

\* Whoever has decided on a status had the rights to it: grants do not change.
Rightful == \A d \in deciding : \E u \in Users : Entitles(u, d.record, d.status)

LEMMA StepRightful == Inv /\ Rightful /\ [Next]_vars => Rightful'
  <1>. SUFFICES ASSUME Inv, Rightful, [Next]_vars PROVE Rightful'
    OBVIOUS
  <1>. USE DEF history
  <1>1. /\ records \in [DOMAIN records -> Record]
        /\ \A d \in deciding : d.record \in DOMAIN records
        /\ Live \subseteq DOMAIN records
    BY DEF Inv, TypeOK, ChildrenOfRecords, Live
  \* A step that leaves the kinds of the records.
  <1>2. ASSUME deciding' \subseteq deciding,
               \A x \in DOMAIN records : records'[x].kind = records[x].kind
        PROVE  Rightful'
    BY <1>1, <1>2 DEF Rightful, Entitles
  <1>3. ASSUME NEW r \in Records, NEW kind, NEW status, CreateRecord(r, kind, status)
        PROVE  Rightful'
    <2>1. /\ \A x \in DOMAIN records : records'[x] = records[x]
          /\ deciding' = deciding
      BY <1>3 DEF CreateRecord, Insert
    <2>. QED  BY <1>2, <2>1
  <1>4. ASSUME NEW r \in DOMAIN records, NEW status,
               records' = [records EXCEPT ![r].status = status], deciding' \subseteq deciding
        PROVE  Rightful'
    <2>1. \A x \in DOMAIN records : records'[x].kind = records[x].kind
      BY <1>1, <1>4 DEF Record
    <2>. QED  BY <1>2, <1>4, <2>1
  <1>5. ASSUME NEW r \in Live, SoftDelete(r)
        PROVE  Rightful'
    <2>1. \A x \in DOMAIN records : records'[x].kind = records[x].kind
      BY <1>1, <1>5 DEF SoftDelete, Record
    <2>2. deciding' = deciding
      BY <1>5 DEF SoftDelete
    <2>. QED  BY <1>2, <2>1, <2>2
  <1>6. ASSUME NEW request \in Requests, NEW u \in Users, NEW r \in Records,
               NEW status \in Status, DecideStatus(request, u, r, status)
        PROVE  Rightful'
    <2>. DEFINE d == [request |-> request, record |-> r,
                      loaded |-> records[r].status, status |-> status]
    <2>1. /\ deciding' = deciding \cup {d}
          /\ Entitles(u, r, status)
          /\ records' = records
      BY <1>6 DEF DecideStatus, ChangeInOrg, AuditInOrg, ApplyChangeStatus, Entitles, tables
    <2>2. d.record = r /\ d.status = status
      OBVIOUS
    <2>. HIDE DEF d
    <2>. QED  BY <2>1, <2>2 DEF Rightful, Entitles
  <1>7. ASSUME records' = records, deciding' \subseteq deciding
        PROVE  Rightful'
    BY <1>2, <1>7
  <1>8. ASSUME NEW r \in Live, NEW status, SetStatus(r, status)
        PROVE  Rightful'
    BY <1>1, <1>4, <1>8 DEF SetStatus
  <1>9. ASSUME NEW d \in deciding, CommitStatus(d)
        PROVE  Rightful'
    BY <1>1, <1>4, <1>9 DEF CommitStatus
  <1>10. ASSUME NEW r, NEW l, NEW assessment, NEW order, NEW remaining,
                InsertLine(r, l, assessment, order, remaining)
         PROVE  Rightful'
    BY <1>7, <1>10 DEF InsertLine
  <1>11. ASSUME NEW l, NEW assessment, AssessLine(l, assessment) \/ DeleteLine(l)
         PROVE  Rightful'
    BY <1>7, <1>11 DEF AssessLine, DeleteLine
  <1>12. ASSUME NEW r, NEW t, NEW status,
                InsertTask(r, t) \/ SetTaskStatus(r, t, status) \/ DeleteTask(t)
         PROVE  Rightful'
    BY <1>7, <1>12 DEF InsertTask, SetTaskStatus, DeleteTask
  <1>13. ASSUME NEW request, NEW u, NEW r, NEW assessment, NumberLine(request, u, r, assessment)
         PROVE  Rightful'
    BY <1>7, <1>13 DEF NumberLine, tables
  <1>14. ASSUME NEW h, Abandon(h)
         PROVE  Rightful'
    BY <1>7, <1>14 DEF Abandon, tables
  <1>15. CASE UNCHANGED vars
    BY <1>7, <1>15 DEF vars, tables
  <1>16. CASE LocalStep
    BY <1>3, <1>5, <1>8, <1>10, <1>11, <1>12, <1>16 DEF LocalStep, AppendLine
  <1>17. CASE OtherProcess
    BY <1>6, <1>9, <1>10, <1>13, <1>14, <1>17 DEF OtherProcess, CommitLine
  <1>. QED  BY <1>15, <1>16, <1>17, Steps

DecisionInv == Inv /\ ClosureInv /\ TrailInv /\ WorksOnLive /\ Rightful

LEMMA DecisionInvariant == Spec => []DecisionInv
  <1>1. Init => DecisionInv
    BY InitInv, InitClosure, InitTrail, InitLive DEF DecisionInv, Init, Rightful
  <1>2. DecisionInv /\ [Next]_vars => DecisionInv'
    BY StepInv, StepClosure, StepTrail, StepLive, StepRightful DEF DecisionInv
  <1>. QED  BY <1>1, <1>2, PTL DEF Spec

\* Nothing that the decision has asked for has changed: not the status of the
\* record, nor is it deleted or, if it is to be closed, has an open task.
Stands(d) ==
    /\ <<"status", d.record>> \notin raced
    /\ d.record \notin overtaken
    /\ d.status = "Closed" => d.record \notin late

LEMMA CommitAsOne ==
    ASSUME DecisionInv, NEW d \in deciding, CommitStatus(d), Stands(d)
    PROVE  \E u \in Users : One!ApiStatus(u)
  <1>. DEFINE r == d.record
              status == d.status
  <1>1. PICK u \in Users : Entitles(u, r, status)
    BY DEF DecisionInv, Rightful
  <1>2. r \in Records /\ r \in DOMAIN records /\ records[r].is_active
    BY DEF DecisionInv, Inv, TypeOK, ChildrenOfRecords, WorksOnLive, Live, Stands
  <1>3. d.loaded = records[r].status
    BY DEF DecisionInv, TrailInv, LoadedIsCurrent, Stands
  <1>4. status = "Closed" => One!OpenTasks(r) = {}
    BY DEF DecisionInv, ClosureInv, DecidedWithoutOpenTasks, AllClosed, Stands, One!OpenTasks
  <1>5. One!SetStatus(r, status)
    <2>1. /\ records' = [records EXCEPT ![r].status = status]
          /\ trail' = [trail EXCEPT ![r] = AfterUpdate(@, records[r].status, status)]
          /\ UNCHANGED <<lines, tasks>>
      BY <1>3 DEF CommitStatus
    <2>. QED  BY <2>1 DEF One!SetStatus, One!AfterUpdate, AfterUpdate
  <1>6. CASE records[r].kind = "change" /\ status \in ChangeStatus
    <2>1. CASE /\ Granted(u, "change:update")
               /\ status \in {"Approved", "Rejected"} => Granted(u, "change:approve")
      <3>1. One!UpdateChange(u, r, status)
        BY <1>2, <1>4, <1>5, <1>6, <2>1
        DEF One!UpdateChange, One!Granted, Granted, One!ChangeInOrg, One!ApplyChangeStatus
      <3>. QED  BY <1>2, <1>6, <3>1 DEF One!ApiStatus
    <2>. QED  BY <1>1, <1>6, <2>1 DEF Entitles
  <1>7. CASE records[r].kind = "audit" /\ status \in AuditStatus
    <2>1. CASE Granted(u, "audit:update")
      <3>1. One!UpdateAudit(u, r, status)
        BY <1>2, <1>4, <1>5, <1>7, <2>1
        DEF One!UpdateAudit, One!Granted, Granted, One!AuditInOrg, One!ApplyAuditStatus
      <3>. QED  BY <1>2, <1>7, <3>1 DEF One!ApiStatus
    <2>. QED  BY <1>1, <1>7, <2>1 DEF Entitles
  <1>. QED  BY <1>1, <1>6, <1>7 DEF Entitles

\* The commit of a decision that still stands does what a change of the status
\* in a single step would do now, by somebody with the rights to it, and writes
\* the same history: a decision is overtaken only by another change of that
\* record's status, by its deletion, or by an open task when it is to be closed.
THEOREM StandingDecisions ==
    Spec => [][\A d \in deciding :
                  CommitStatus(d) /\ Stands(d) => \E u \in Users : One!ApiStatus(u)]_vars
  <1>1. DecisionInv /\ [Next]_vars
           => [\A d \in deciding :
                  CommitStatus(d) /\ Stands(d) => \E u \in Users : One!ApiStatus(u)]_vars
    BY CommitAsOne
  <1>. QED  BY <1>1, DecisionInvariant, PTL DEF Spec

=============================================================================
