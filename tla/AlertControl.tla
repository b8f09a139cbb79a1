---------------------------- MODULE AlertControl ----------------------------
(***************************************************************************)
(* Quality and safety alerts (app/api/routes/alerts.py).  An alert is sent *)
(* to groups; each of them answers by uploading a signed document, and the *)
(* answer that completes the set marks an open alert as acknowledged.      *)
(*                                                                         *)
(* The handler of an answer loads the alert, awaits file.read(), which     *)
(* leaves the event loop when the file has been spooled to disk, inserts   *)
(* the answer, counts the answers in the table and sets the status of the  *)
(* alert object it loaded before the await.  What follows the await is one *)
(* step for the other requests of the process; with several processes the  *)
(* count does not see the answers that others have inserted and not yet    *)
(* committed, so that count and commit can be two steps.                   *)
(*                                                                         *)
(* An alert is never deleted and its recipient groups never change; the    *)
(* groups themselves may be deleted (app/api/routes/admin_pages.py), which *)
(* only keeps them out of the alerts issued afterwards.                    *)
(* Expiry is derived from the date when a page is shown and changes no     *)
(* state; notifications are rows of their own that nothing here reads.     *)
(***************************************************************************)
EXTENDS Naturals, FiniteSets

CONSTANTS
    Alerts,         \* ids of the alerts of one organization
    Groups,         \* ids of its assignee groups
    NoGroup,        \* a NULL group column: an answer for no group
    Requests,       \* answers that may be in progress at the same time
    StandaloneEnabled   \* the setting that allows alerts about no event

ASSUME NoGroupAssumption == NoGroup \notin Groups
ASSUME StandaloneAssumption == StandaloneEnabled \in BOOLEAN

VARIABLES
    assignee_groups,    \* the groups that have been created, with is_active
    issued,         \* alerts that have been issued
    alerts,         \* the alerts table
    answers,        \* the alert_acknowledgements table, as alert and group
    handlers,       \* answers that have begun and not committed
    closed,         \* history: alerts that somebody has closed
    overtaken,      \* history: those closed while an answer had loaded them as open
    raced           \* history: alerts answered between another's count and commit

history == <<closed, overtaken, raced>>

vars == <<assignee_groups, issued, alerts, answers, handlers, history>>

AlertStatus == {"Open", "Acknowledged", "Closed"}

Alert == [status : AlertStatus, recipients : (SUBSET Groups) \ {{}}]

Handler == [request : Requests,
            alert   : Alerts,
            group   : Groups \cup {NoGroup},
            loaded  : AlertStatus,      \* the status of the alert as loaded
            counted : BOOLEAN,          \* whether the answers have been counted
            seen    : SUBSET Groups]    \* the groups the count has seen

TypeOK ==
    /\ assignee_groups \in [DOMAIN assignee_groups -> BOOLEAN]
    /\ DOMAIN assignee_groups \subseteq Groups
    /\ issued \subseteq Alerts
    /\ alerts \in [issued -> Alert]
    /\ answers \subseteq Alerts \X (Groups \cup {NoGroup})
    /\ handlers \subseteq Handler
    /\ closed \subseteq issued
    /\ overtaken \subseteq closed
    /\ raced \subseteq issued

Init ==
    /\ assignee_groups = [g \in {} |-> TRUE]
    /\ issued = {}
    /\ alerts = [a \in {} |-> NoGroup]
    /\ answers = {}
    /\ handlers = {}
    /\ closed = {}
    /\ overtaken = {}
    /\ raced = {}

\* The groups that have answered alert a, given the rows of the table.
Responded(a, rows) == {g \in Groups : <<a, g>> \in rows}

\* The groups whose answers an alert waits for.
\* Mutant: those that have been deleted since are not waited for.
Required_Mutant(a) == {g \in alerts[a].recipients : assignee_groups[g]}

Required(a) == alerts[a].recipients

\* Mutant: an answer of a group that was not asked counts against the alert.
Completes_Exact(recipients, responded) == recipients = responded

Completes(recipients, responded) == recipients \subseteq responded

\* The groups that an alert is sent to, of those that are asked for.
Recipients(groups) == {g \in groups \cap DOMAIN assignee_groups : assignee_groups[g]}

\* Mutant: an alert may be sent to nobody.
CanIssue_Mutant(groups) == TRUE

CanIssue(groups) == Recipients(groups) # {}

\* The status after an answer, given the status that the handler has loaded:
\* nothing is written unless the alert was open.
\* Mutant: the handler sets the status of whatever alert it finds.
StatusAfter_Mutant(current, loaded, recipients, responded) ==
    IF Completes(recipients, responded) THEN "Acknowledged" ELSE current

StatusAfter(current, loaded, recipients, responded) ==
    IF loaded = "Open" /\ Completes(recipients, responded) THEN "Acknowledged" ELSE current

----------------------------------------------------------------------------

IssueAlert(a, groups) ==
    /\ a \notin issued
    /\ CanIssue(groups)
    /\ issued' = issued \cup {a}
    /\ alerts' = [x \in issued \cup {a} |->
           IF x = a THEN [status |-> "Open", recipients |-> Recipients(groups)]
                       ELSE alerts[x]]
    /\ UNCHANGED <<assignee_groups, answers, handlers, history>>

\* The event the alert is about is looked up first; no state here says whether
\* it is still there.  A form without a group is answered before the commit.
AlertCreateSubmit(a, groups) == IssueAlert(a, groups)

RequireStandaloneEnabled == StandaloneEnabled

StandaloneAlertCreateSubmit(a, groups) ==
    /\ RequireStandaloneEnabled
    /\ IssueAlert(a, groups)

\* _alert_or_404: no alert is ever deactivated.
AlertOr404(a) == a \in issued

\* Anybody answers for any group, deleted or not, or for none; the foreign key
\* refuses a group that was never created.
AnswersFor == DOMAIN assignee_groups \cup {NoGroup}

\* The answer is inserted and the alert updated, in one transaction; remaining
\* are the answers that are in progress then.
Answer(a, group, loaded, responded, remaining) ==
    /\ answers' = answers \cup {<<a, group>>}
    /\ alerts' = [alerts EXCEPT ![a].status =
           StatusAfter(@, loaded, Required(a), responded)]
    /\ raced' = IF \E h \in remaining : h.alert = a /\ h.counted
                THEN raced \cup {a} ELSE raced
    /\ handlers' = remaining
    /\ UNCHANGED <<assignee_groups, issued, closed, overtaken>>

\* An answer whose file is in memory, from beginning to end.
AcknowledgeAlert(a, group) ==
    /\ AlertOr404(a) /\ group \in AnswersFor
    /\ Answer(a, group, alerts[a].status, Responded(a, answers \cup {<<a, group>>}),
              handlers)

\* The alert is loaded and the handler waits for its file.
BeginAnswer(r, a, group) ==
    /\ AlertOr404(a) /\ group \in AnswersFor
    /\ \A h \in handlers : h.request # r
    /\ handlers' = handlers \cup
           {[request |-> r, alert |-> a, group |-> group,
             loaded |-> alerts[a].status, counted |-> FALSE, seen |-> {}]}
    /\ UNCHANGED <<assignee_groups, issued, alerts, answers, history>>

FinishAnswer(h) ==
    /\ ~h.counted
    /\ Answer(h.alert, h.group, h.loaded,
              Responded(h.alert, answers \cup {<<h.alert, h.group>>}), handlers \ {h})

\* With several processes the count and the commit are two steps.
CountAnswers(h) ==
    /\ ~h.counted
    /\ handlers' = (handlers \ {h}) \cup
           {[h EXCEPT !.counted = TRUE,
                      !.seen = Responded(h.alert, answers \cup {<<h.alert, h.group>>})]}
    /\ UNCHANGED <<assignee_groups, issued, alerts, answers, history>>

CommitAnswer(h) ==
    /\ h.counted
    /\ Answer(h.alert, h.group, h.loaded, h.seen, handlers \ {h})

\* The file is empty or too large, the client is gone, or the process stops.
AbandonAnswer(h) ==
    /\ handlers' = handlers \ {h}
    /\ UNCHANGED <<assignee_groups, issued, alerts, answers, history>>

\* Whatever the status is.
CloseAlert(a) ==
    /\ AlertOr404(a)
    /\ alerts' = [alerts EXCEPT ![a].status = "Closed"]
    /\ closed' = closed \cup {a}
    /\ overtaken' = IF \E h \in handlers : h.alert = a /\ h.loaded = "Open"
                    THEN overtaken \cup {a} ELSE overtaken
    /\ UNCHANGED <<assignee_groups, issued, answers, handlers, raced>>

----------------------------------------------------------------------------
(* The groups *)

GroupCreate(g) ==
    /\ g \notin DOMAIN assignee_groups
    /\ assignee_groups' = [x \in DOMAIN assignee_groups \cup {g} |->
           x = g \/ assignee_groups[x]]
    /\ UNCHANGED <<issued, alerts, answers, handlers, history>>

\* _group_in_org finds deleted groups as well.
GroupInOrg(g) == g \in DOMAIN assignee_groups

\* Nothing asks for the alerts that wait for an answer of the group.
GroupDelete(g) ==
    /\ GroupInOrg(g)
    /\ assignee_groups' = [assignee_groups EXCEPT ![g] = FALSE]
    /\ UNCHANGED <<issued, alerts, answers, handlers, history>>

----------------------------------------------------------------------------

Next ==
    \/ \E g \in Groups : GroupCreate(g) \/ GroupDelete(g)
    \/ \E a \in Alerts, groups \in SUBSET Groups :
          AlertCreateSubmit(a, groups) \/ StandaloneAlertCreateSubmit(a, groups)
    \/ \E a \in Alerts, group \in Groups \cup {NoGroup} :
          \/ AcknowledgeAlert(a, group)
          \/ \E r \in Requests : BeginAnswer(r, a, group)
    \/ \E h \in handlers :
          FinishAnswer(h) \/ CountAnswers(h) \/ CommitAnswer(h) \/ AbandonAnswer(h)
    \/ \E a \in Alerts : CloseAlert(a)

Spec == Init /\ [][Next]_vars

----------------------------------------------------------------------------
(* Properties *)

\* An acknowledged alert has an answer of every recipient group, whatever
\* answers overlap, however stale the objects of their handlers are, and even
\* if a group has been deleted while the alert waited for it.
AcknowledgedByAll ==
    \A a \in issued :
        alerts[a].status = "Acknowledged" => alerts[a].recipients \subseteq Responded(a, answers)

\* "When every recipient group has returned at least one signed document, the
\* open alert is considered acknowledged": no answer is overlooked, unless it
\* was committed between the count and the commit of another.
NoAnswerOverlooked ==
    \A a \in issued \ raced :
        alerts[a].recipients \subseteq Responded(a, answers) => alerts[a].status # "Open"

\* Only an open alert is acknowledged by an answer: a closed alert, which no
\* handler opens again, stays closed, unless an answer that had loaded it
\* before was still in progress.
ClosedStaysClosed == \A a \in closed \ overtaken : alerts[a].status = "Closed"

============================================================================
