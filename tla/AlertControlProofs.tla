------------------------- MODULE AlertControlProofs -------------------------
(***************************************************************************)
(* Proofs about AlertControl, for any sets of alerts, groups and answers   *)
(* in progress: an acknowledged alert has been answered by all of its      *)
(* groups; no answer is overlooked unless one was committed between the    *)
(* count and the commit of another; and a closed alert stays closed unless *)
(* it was closed while an answer was in progress.                          *)
(* Without such interference several processes answer as one does that     *)
(* handles each answer in a single step.                                   *)
(***************************************************************************)
EXTENDS AlertControl, TLAPS

\* A handler has found its alert, and what it has counted is in the table or
\* is the answer that it will commit itself.
HandlersSound ==
    \A h \in handlers :
        /\ h.alert \in issued
        /\ h.counted => h.seen \subseteq Responded(h.alert, answers \cup {<<h.alert, h.group>>})

\* What a handler has counted is all there is, unless another answer to its
\* alert has been committed since; an alert that a handler has found answered
\* or closed has not become open since.
HandlersUpToDate ==
    \A h \in handlers :
        /\ h.counted /\ h.alert \notin raced =>
              h.seen = Responded(h.alert, answers \cup {<<h.alert, h.group>>})
        /\ h.loaded # "Open" => alerts[h.alert].status # "Open"

\* A handler that has found a closed alert open was in progress at its closure.
OvertakenByClosure ==
    \A h \in handlers : h.alert \in closed \ overtaken => h.loaded # "Open"

\* Nobody has answered an alert before it was issued.
AnswersFollowIssue == answers \subseteq issued \X (Groups \cup {NoGroup})

Inv == TypeOK /\ HandlersSound /\ AnswersFollowIssue

\* An answer is committed, its handler having counted the groups in responded:
\* all of them, when it has not been raced by another.
Answering(a, group, loaded, responded, remaining) ==
    /\ Answer(a, group, loaded, responded, remaining)
    /\ responded \subseteq Responded(a, answers \cup {<<a, group>>})
    /\ HandlersUpToDate =>
          /\ a \notin raced => responded = Responded(a, answers \cup {<<a, group>>})
          /\ loaded # "Open" => alerts[a].status # "Open"
    /\ OvertakenByClosure /\ ClosedStaysClosed =>
          (a \in closed \ overtaken => loaded # "Open")
    /\ remaining \subseteq handlers

\* A group is created or deleted.
GroupStep(g) == GroupCreate(g) \/ GroupDelete(g)

\* The groups keep their types, and nothing else changes.
LEMMA GroupSteps ==
    ASSUME TypeOK, NEW g \in Groups, GroupStep(g)
    PROVE  /\ assignee_groups' \in [DOMAIN assignee_groups' -> BOOLEAN]
           /\ DOMAIN assignee_groups' \subseteq Groups
           /\ UNCHANGED <<issued, alerts, answers, handlers, closed, overtaken, raced>>
  <1>1. CASE GroupCreate(g)
    <2>. DEFINE new == [x \in DOMAIN assignee_groups \cup {g} |->
                           x = g \/ assignee_groups[x]]
    <2>1. \A x \in DOMAIN assignee_groups : assignee_groups[x] \in BOOLEAN
      BY DEF TypeOK
    <2>2. \A x \in DOMAIN assignee_groups \cup {g} : (x = g \/ assignee_groups[x]) \in BOOLEAN
      OBVIOUS
    <2>3. new \in [DOMAIN assignee_groups \cup {g} -> BOOLEAN]
      BY <2>2, Zenon
    <2>4. DOMAIN new = DOMAIN assignee_groups \cup {g}
      OBVIOUS
    <2>5. assignee_groups' = new
      BY <1>1 DEF GroupCreate
    <2>6. UNCHANGED <<issued, alerts, answers, handlers, closed, overtaken, raced>>
      BY <1>1 DEF GroupCreate, history
    <2>. HIDE DEF new
    <2>. QED  BY <2>3, <2>4, <2>5, <2>6 DEF TypeOK
  <1>2. CASE GroupDelete(g)
    BY <1>2 DEF GroupDelete, GroupInOrg, TypeOK, history
  <1>. QED  BY <1>1, <1>2 DEF GroupStep

\* What an answer does to the two tables, whatever its handler has loaded.
LEMMA AnswerRow ==
    ASSUME TypeOK, NEW a \in issued, NEW group \in Groups \cup {NoGroup},
           NEW loaded \in AlertStatus, NEW responded, NEW remaining,
           Answer(a, group, loaded, responded, remaining)
    PROVE  /\ answers' = answers \cup {<<a, group>>}
           /\ alerts' \in [issued -> Alert]
           /\ \A x \in issued :
                 /\ alerts'[x].recipients = alerts[x].recipients
                 /\ x # a => alerts'[x].status = alerts[x].status
           /\ alerts'[a].status =
                 StatusAfter(alerts[a].status, loaded, alerts[a].recipients, responded)
  <1>. DEFINE new == StatusAfter(alerts[a].status, loaded, alerts[a].recipients, responded)
  <1>1. alerts \in [issued -> Alert]
    BY DEF TypeOK
  <1>2. new \in AlertStatus
    BY <1>1 DEF StatusAfter, AlertStatus, Alert
  <1>3. /\ answers' = answers \cup {<<a, group>>}
        /\ alerts' = [alerts EXCEPT ![a].status = new]
    BY DEF Answer, Required
  <1>4. new = StatusAfter(alerts[a].status, loaded, alerts[a].recipients, responded)
    OBVIOUS
  <1>. HIDE DEF new
  <1>5. /\ alerts' \in [issued -> Alert]
        /\ alerts'[a].status = new
        /\ \A x \in issued :
              /\ alerts'[x].recipients = alerts[x].recipients
              /\ x # a => alerts'[x].status = alerts[x].status
    BY <1>1, <1>2, <1>3 DEF Alert
  <1>. QED  BY <1>3, <1>4, <1>5

\* Whether an answer is one step or two or three, it is committed in the end.
LEMMA Steps ==
    ASSUME Inv, Next
    PROVE  \/ \E a \in Alerts, groups \in SUBSET Groups : IssueAlert(a, groups)
           \/ \E a \in Alerts, group \in Groups \cup {NoGroup}, r \in Requests :
                 BeginAnswer(r, a, group)
           \/ \E a \in issued, group \in Groups \cup {NoGroup}, loaded \in AlertStatus,
                 responded \in SUBSET Groups, remaining \in SUBSET handlers :
                 Answering(a, group, loaded, responded, remaining)
           \/ \E h \in handlers : CountAnswers(h) \/ AbandonAnswer(h)
           \/ \E a \in Alerts : CloseAlert(a)
           \/ \E g \in Groups : GroupStep(g)
  <1>. USE DEF Inv, TypeOK
  <1>. DEFINE Committed ==
              \E a \in issued, group \in Groups \cup {NoGroup}, loaded \in AlertStatus,
                 responded \in SUBSET Groups, remaining \in SUBSET handlers :
                 Answering(a, group, loaded, responded, remaining)
  <1>1. \A a, rows : Responded(a, rows) \in SUBSET Groups
    BY DEF Responded
  <1>2. ASSUME NEW a \in Alerts, NEW group \in Groups \cup {NoGroup}, AcknowledgeAlert(a, group)
        PROVE  Committed
    <2>1. /\ a \in issued
          /\ alerts[a].status \in AlertStatus
          /\ Answering(a, group, alerts[a].status,
                       Responded(a, answers \cup {<<a, group>>}), handlers)
      BY <1>2 DEF AlertOr404, AcknowledgeAlert, Answering, Alert, ClosedStaysClosed
    <2>. QED  BY <1>1, <2>1
  <1>3. ASSUME NEW h \in handlers
        PROVE  /\ h.alert \in issued
               /\ h.group \in Groups \cup {NoGroup}
               /\ h.loaded \in AlertStatus
               /\ h.seen \in SUBSET Groups
               /\ handlers \ {h} \in SUBSET handlers
    BY DEF HandlersSound, Handler
  <1>4. ASSUME NEW h \in handlers, FinishAnswer(h)
        PROVE  Committed
    <2>1. Answering(h.alert, h.group, h.loaded,
                    Responded(h.alert, answers \cup {<<h.alert, h.group>>}), handlers \ {h})
      BY <1>4 DEF FinishAnswer, Answering, HandlersUpToDate, OvertakenByClosure
    <2>. QED  BY <1>1, <1>3, <2>1
  <1>5. ASSUME NEW h \in handlers, CommitAnswer(h)
        PROVE  Committed
    <2>1. Answering(h.alert, h.group, h.loaded, h.seen, handlers \ {h})
      BY <1>5 DEF CommitAnswer, Answering, HandlersSound, HandlersUpToDate, OvertakenByClosure
    <2>. QED  BY <1>3, <2>1
  <1>. HIDE DEF Committed
  <1>6. \/ \E a \in Alerts, groups \in SUBSET Groups : IssueAlert(a, groups)
        \/ \E a \in Alerts, group \in Groups \cup {NoGroup}, r \in Requests :
              BeginAnswer(r, a, group)
        \/ Committed
        \/ \E h \in handlers : CountAnswers(h) \/ AbandonAnswer(h)
        \/ \E a \in Alerts : CloseAlert(a)
        \/ \E g \in Groups : GroupStep(g)
    BY <1>2, <1>4, <1>5 DEF Next, GroupStep, AlertCreateSubmit, StandaloneAlertCreateSubmit
  <1>. QED  BY <1>6 DEF Committed

----------------------------------------------------------------------------

LEMMA InitInv == Init => Inv
  BY DEF Init, Inv, TypeOK, HandlersSound, AnswersFollowIssue

\* The tables keep their types and the handlers stay sound: answers are never
\* deleted, so what a handler has counted remains true until it commits.
LEMMA StepInv == Inv /\ [Next]_vars => Inv'
  <1>. SUFFICES ASSUME Inv, [Next]_vars  PROVE Inv'
    OBVIOUS
  <1>. USE DEF Inv
  <1>1. CASE UNCHANGED vars
    BY <1>1 DEF TypeOK, HandlersSound, AnswersFollowIssue, vars, history
  <1>2. ASSUME NEW a \in Alerts, NEW groups \in SUBSET Groups, IssueAlert(a, groups)
        PROVE Inv'
    BY <1>2 DEF IssueAlert, CanIssue, Recipients, TypeOK, Alert, AlertStatus, HandlersSound,
                AnswersFollowIssue, history
  <1>3. ASSUME NEW a \in Alerts, NEW group \in Groups \cup {NoGroup}, NEW r \in Requests,
               BeginAnswer(r, a, group)
        PROVE Inv'
    <2>. DEFINE h == [request |-> r, alert |-> a, group |-> group,
                      loaded |-> alerts[a].status, counted |-> FALSE, seen |-> {}]
    <2>1. /\ a \in issued
          /\ handlers' = handlers \cup {h}
          /\ UNCHANGED <<assignee_groups, issued, alerts, answers, history>>
      BY <1>3 DEF AlertOr404, BeginAnswer
    <2>2. h \in Handler /\ h.alert = a /\ ~h.counted
      BY <2>1 DEF Handler, TypeOK, Alert
    <2>. HIDE DEF h
    <2>3. TypeOK'
      BY <2>1, <2>2 DEF TypeOK, history
    <2>4. HandlersSound' /\ AnswersFollowIssue'
      BY <2>1, <2>2 DEF HandlersSound, AnswersFollowIssue
    <2>. QED  BY <2>3, <2>4
  <1>4. ASSUME NEW a \in issued, NEW group \in Groups \cup {NoGroup}, NEW loaded \in AlertStatus,
               NEW responded \in SUBSET Groups, NEW remaining \in SUBSET handlers,
               Answering(a, group, loaded, responded, remaining)
        PROVE Inv'
    <2>1. /\ answers' = answers \cup {<<a, group>>}
          /\ alerts' \in [issued -> Alert]
          /\ handlers' \subseteq handlers
          /\ raced' \in {raced, raced \cup {a}}
          /\ UNCHANGED <<assignee_groups, issued, closed, overtaken>>
      BY <1>4, AnswerRow DEF Answering, Answer
    <2>2. TypeOK'
      BY <2>1 DEF TypeOK
    <2>3. HandlersSound'
      BY <2>1 DEF HandlersSound, Responded
    <2>4. AnswersFollowIssue'
      BY <2>1 DEF AnswersFollowIssue
    <2>. QED  BY <2>2, <2>3, <2>4
  <1>5. ASSUME NEW h \in handlers, CountAnswers(h) \/ AbandonAnswer(h)
        PROVE Inv'
    <2>1. CASE CountAnswers(h)
      <3>. DEFINE counted == [h EXCEPT !.counted = TRUE,
                       !.seen = Responded(h.alert, answers \cup {<<h.alert, h.group>>})]
      <3>1. /\ h \in Handler /\ h.alert \in issued
            /\ handlers' = (handlers \ {h}) \cup {counted}
            /\ UNCHANGED <<assignee_groups, issued, alerts, answers, history>>
        BY <2>1 DEF CountAnswers, TypeOK, HandlersSound
      <3>2. /\ counted \in Handler
            /\ counted.alert = h.alert /\ counted.group = h.group
            /\ counted.seen = Responded(h.alert, answers \cup {<<h.alert, h.group>>})
        BY <3>1 DEF Handler, Responded
      <3>. HIDE DEF counted
      <3>3. TypeOK'
        BY <3>1, <3>2 DEF TypeOK, history
      <3>4. HandlersSound' /\ AnswersFollowIssue'
        BY <3>1, <3>2 DEF HandlersSound, Responded, AnswersFollowIssue
      <3>. QED  BY <3>3, <3>4
    <2>2. CASE AbandonAnswer(h)
      BY <2>2 DEF AbandonAnswer, TypeOK, HandlersSound, AnswersFollowIssue, history
    <2>. QED  BY <1>5, <2>1, <2>2
  <1>6. ASSUME NEW a \in Alerts, CloseAlert(a)
        PROVE Inv'
    <2>1. /\ a \in issued
          /\ alerts' \in [issued -> Alert]
          /\ closed' = closed \cup {a}
          /\ overtaken' \in {overtaken, overtaken \cup {a}}
          /\ UNCHANGED <<assignee_groups, issued, answers, handlers, raced>>
      BY <1>6 DEF AlertOr404, CloseAlert, TypeOK, Alert, AlertStatus
    <2>. QED  BY <2>1 DEF TypeOK, HandlersSound, AnswersFollowIssue
  <1>7. ASSUME NEW g \in Groups, GroupStep(g)
        PROVE Inv'
    BY <1>7, GroupSteps DEF TypeOK, HandlersSound, AnswersFollowIssue
  <1>8. CASE Next
    BY <1>2, <1>3, <1>4, <1>5, <1>6, <1>7, <1>8, Steps
  <1>. QED  BY <1>1, <1>8

\* The tables and the handlers in progress keep their types.
THEOREM TypeCorrect == Spec => []TypeOK
  <1>1. Inv => TypeOK
    BY DEF Inv
  <1>. QED  BY <1>1, InitInv, StepInv, PTL DEF Spec

----------------------------------------------------------------------------

LEMMA StepAcknowledged == Inv /\ AcknowledgedByAll /\ [Next]_vars => AcknowledgedByAll'
  <1>. SUFFICES ASSUME Inv, AcknowledgedByAll, [Next]_vars  PROVE AcknowledgedByAll'
    OBVIOUS
  <1>. USE DEF AcknowledgedByAll
  <1>1. CASE UNCHANGED vars
    BY <1>1 DEF vars
  <1>2. ASSUME NEW a \in Alerts, NEW groups \in SUBSET Groups, IssueAlert(a, groups)
        PROVE AcknowledgedByAll'
    BY <1>2 DEF IssueAlert
  <1>3. ASSUME UNCHANGED <<issued, alerts, answers>>
        PROVE AcknowledgedByAll'
    BY <1>3
  <1>4. ASSUME NEW a \in issued, NEW group \in Groups \cup {NoGroup}, NEW loaded \in AlertStatus,
               NEW responded \in SUBSET Groups, NEW remaining \in SUBSET handlers,
               Answering(a, group, loaded, responded, remaining)
        PROVE AcknowledgedByAll'
    <2>1. /\ answers' = answers \cup {<<a, group>>}
          /\ \A x \in issued :
                /\ alerts'[x].recipients = alerts[x].recipients
                /\ x # a => alerts'[x].status = alerts[x].status
          /\ alerts'[a].status =
                StatusAfter(alerts[a].status, loaded, alerts[a].recipients, responded)
      BY <1>4, AnswerRow DEF Inv, Answering
    <2>2. \A x : Responded(x, answers) \subseteq Responded(x, answers')
      BY <2>1 DEF Responded
    <2>3. alerts'[a].status = "Acknowledged" =>
             \/ alerts[a].status = "Acknowledged"
             \/ alerts[a].recipients \subseteq responded
      BY <2>1 DEF StatusAfter, Completes
    <2>4. /\ responded \subseteq Responded(a, answers')
          /\ issued' = issued
      BY <1>4, <2>1 DEF Answering, Answer
    <2>. QED  BY <2>1, <2>2, <2>3, <2>4
  <1>5. ASSUME NEW a \in Alerts, CloseAlert(a)
        PROVE AcknowledgedByAll'
    BY <1>5 DEF AlertOr404, CloseAlert, Inv, TypeOK, Alert
  <1>6. ASSUME NEW g \in Groups, GroupStep(g)
        PROVE AcknowledgedByAll'
    BY <1>6, GroupSteps DEF Inv
  <1>7. CASE Next
    <2>1. \A a \in Alerts, group \in Groups \cup {NoGroup}, r \in Requests :
             BeginAnswer(r, a, group) => UNCHANGED <<issued, alerts, answers>>
      BY DEF AlertOr404, BeginAnswer
    <2>2. \A h \in handlers :
             CountAnswers(h) \/ AbandonAnswer(h) => UNCHANGED <<issued, alerts, answers>>
      BY DEF CountAnswers, AbandonAnswer
    <2>. QED  BY <1>2, <1>3, <1>4, <1>5, <1>6, <1>7, <2>1, <2>2, Steps
  <1>. QED  BY <1>1, <1>7

\* An acknowledged alert has an answer of each of its groups, in one process
\* and in several: a handler may count too few answers and never too many.
THEOREM AcknowledgedMeansAnswered == Spec => []AcknowledgedByAll
  <1>1. Init => AcknowledgedByAll
    BY DEF Init, AcknowledgedByAll
  <1>. QED  BY <1>1, InitInv, StepInv, StepAcknowledged, PTL DEF Spec

----------------------------------------------------------------------------

CountInv == NoAnswerOverlooked /\ HandlersUpToDate

LEMMA StepCount == Inv /\ CountInv /\ [Next]_vars => CountInv'
  <1>. SUFFICES ASSUME Inv, CountInv, [Next]_vars  PROVE CountInv'
    OBVIOUS
  <1>. USE DEF CountInv, NoAnswerOverlooked, HandlersUpToDate
  <1>1. CASE UNCHANGED vars
    BY <1>1 DEF vars, history
  <1>2. ASSUME NEW a \in Alerts, NEW groups \in SUBSET Groups, IssueAlert(a, groups)
        PROVE CountInv'
    <2>1. /\ a \notin issued
          /\ Recipients(groups) # {} /\ Recipients(groups) \subseteq Groups
          /\ issued' = issued \cup {a}
          /\ alerts'[a].recipients = Recipients(groups)
          /\ \A x \in issued : alerts'[x] = alerts[x]
          /\ UNCHANGED <<answers, handlers, raced>>
      BY <1>2 DEF IssueAlert, CanIssue, Recipients, history
    <2>2. Responded(a, answers) = {}
      BY <2>1 DEF Responded, Inv, AnswersFollowIssue
    <2>3. HandlersUpToDate'
      BY <2>1 DEF Inv, HandlersSound
    <2>. QED  BY <2>1, <2>2, <2>3
  <1>3. ASSUME NEW a \in Alerts, NEW group \in Groups \cup {NoGroup}, NEW r \in Requests,
               BeginAnswer(r, a, group)
        PROVE CountInv'
    BY <1>3 DEF AlertOr404, BeginAnswer, history
  <1>4. ASSUME NEW a \in issued, NEW group \in Groups \cup {NoGroup}, NEW loaded \in AlertStatus,
               NEW responded \in SUBSET Groups, NEW remaining \in SUBSET handlers,
               Answering(a, group, loaded, responded, remaining)
        PROVE CountInv'
    <2>1. /\ answers' = answers \cup {<<a, group>>}
          /\ \A x \in issued :
                /\ alerts'[x].recipients = alerts[x].recipients
                /\ x # a => alerts'[x].status = alerts[x].status
          /\ alerts'[a].status =
                StatusAfter(alerts[a].status, loaded, alerts[a].recipients, responded)
      BY <1>4, AnswerRow DEF Inv, Answering
    <2>2. /\ a \notin raced => responded = Responded(a, answers')
          /\ loaded # "Open" => alerts[a].status # "Open"
          /\ issued' = issued
          /\ handlers' \subseteq handlers
          /\ raced \subseteq raced'
          /\ \A h \in handlers' : h.alert = a /\ h.counted => a \in raced'
      BY <1>4, <2>1 DEF Answering, Answer
    <2>3. \A x \in issued \ {a} : Responded(x, answers') = Responded(x, answers)
      BY <2>1 DEF Responded
    <2>4. alerts'[a].status = "Open" => ~(alerts[a].recipients \subseteq responded)
      BY <2>1, <2>2 DEF StatusAfter, Completes
    <2>5. alerts[a].status # "Open" => alerts'[a].status # "Open"
      BY <2>1 DEF StatusAfter
    <2>6. NoAnswerOverlooked'
      BY <2>1, <2>2, <2>3, <2>4
    <2>7. HandlersUpToDate'
      <3>. SUFFICES ASSUME NEW h \in handlers'
                    PROVE  /\ h.counted /\ h.alert \notin raced' =>
                                 h.seen = Responded(h.alert, answers' \cup {<<h.alert, h.group>>})
                           /\ h.loaded # "Open" => alerts'[h.alert].status # "Open"
        OBVIOUS
      <3>1. h \in handlers /\ h.alert \in issued
        BY <2>2 DEF Inv, HandlersSound
      <3>2. h.alert # a =>
               Responded(h.alert, answers' \cup {<<h.alert, h.group>>})
                 = Responded(h.alert, answers \cup {<<h.alert, h.group>>})
        BY <2>1 DEF Responded
      <3>. QED  BY <2>1, <2>2, <2>5, <3>1, <3>2
    <2>. QED  BY <2>6, <2>7
  <1>5. ASSUME NEW h \in handlers, CountAnswers(h) \/ AbandonAnswer(h)
        PROVE CountInv'
    <2>1. CASE CountAnswers(h)
      <3>. DEFINE counted == [h EXCEPT !.counted = TRUE,
                       !.seen = Responded(h.alert, answers \cup {<<h.alert, h.group>>})]
      <3>1. /\ h \in Handler
            /\ handlers' = (handlers \ {h}) \cup {counted}
            /\ UNCHANGED <<issued, alerts, answers, raced>>
        BY <2>1 DEF CountAnswers, Inv, TypeOK, history
      <3>2. /\ counted.alert = h.alert /\ counted.group = h.group
            /\ counted.loaded = h.loaded
            /\ counted.seen = Responded(h.alert, answers \cup {<<h.alert, h.group>>})
        BY <3>1 DEF Handler
      <3>. HIDE DEF counted
      <3>. QED  BY <3>1, <3>2
    <2>2. CASE AbandonAnswer(h)
      BY <2>2 DEF AbandonAnswer, history
    <2>. QED  BY <1>5, <2>1, <2>2
  <1>6. ASSUME NEW a \in Alerts, CloseAlert(a)
        PROVE CountInv'
    <2>1. /\ a \in issued
          /\ alerts'[a].status = "Closed"
          /\ \A x \in issued : /\ alerts'[x].recipients = alerts[x].recipients
                               /\ x # a => alerts'[x].status = alerts[x].status
          /\ UNCHANGED <<issued, answers, handlers, raced>>
      BY <1>6 DEF AlertOr404, CloseAlert, Inv, TypeOK, Alert
    <2>. QED  BY <2>1 DEF Inv, HandlersSound
  <1>7. ASSUME NEW g \in Groups, GroupStep(g)
        PROVE CountInv'
    BY <1>7, GroupSteps DEF Inv
  <1>8. CASE Next
    BY <1>2, <1>3, <1>4, <1>5, <1>6, <1>7, <1>8, Steps
  <1>. QED  BY <1>1, <1>8

\* No answer is overlooked: an alert that all its groups have answered is
\* acknowledged or closed, however the uploads overlap, unless an answer was
\* committed between the count and the commit of another.
THEOREM EveryAnswerCounts == Spec => []NoAnswerOverlooked
  <1>1. Init => CountInv
    BY DEF Init, CountInv, NoAnswerOverlooked, HandlersUpToDate
  <1>2. CountInv => NoAnswerOverlooked
    BY DEF CountInv
  <1>. QED  BY <1>1, <1>2, InitInv, StepInv, StepCount, PTL DEF Spec

----------------------------------------------------------------------------

ClosureInv == ClosedStaysClosed /\ OvertakenByClosure

LEMMA StepClosure == Inv /\ ClosureInv /\ [Next]_vars => ClosureInv'
  <1>. SUFFICES ASSUME Inv, ClosureInv, [Next]_vars  PROVE ClosureInv'
    OBVIOUS
  <1>. USE DEF ClosureInv, ClosedStaysClosed, OvertakenByClosure
  <1>0. closed \subseteq issued
    BY DEF Inv, TypeOK
  <1>1. CASE UNCHANGED vars
    BY <1>1 DEF vars, history
  <1>2. ASSUME NEW a \in Alerts, NEW groups \in SUBSET Groups, IssueAlert(a, groups)
        PROVE ClosureInv'
    BY <1>0, <1>2 DEF IssueAlert, history
  <1>3. ASSUME NEW a \in Alerts, NEW group \in Groups \cup {NoGroup}, NEW r \in Requests,
               BeginAnswer(r, a, group)
        PROVE ClosureInv'
    BY <1>3 DEF AlertOr404, BeginAnswer, history
  <1>4. ASSUME NEW a \in issued, NEW group \in Groups \cup {NoGroup}, NEW loaded \in AlertStatus,
               NEW responded \in SUBSET Groups, NEW remaining \in SUBSET handlers,
               Answering(a, group, loaded, responded, remaining)
        PROVE ClosureInv'
    <2>1. /\ \A x \in issued : x # a => alerts'[x].status = alerts[x].status
          /\ alerts'[a].status =
                StatusAfter(alerts[a].status, loaded, alerts[a].recipients, responded)
      BY <1>4, AnswerRow DEF Inv, Answering
    <2>2. /\ a \in closed \ overtaken => loaded # "Open"
          /\ handlers' \subseteq handlers
          /\ UNCHANGED <<closed, overtaken>>
      BY <1>4 DEF Answering, Answer
    <2>3. a \in closed \ overtaken => alerts'[a].status = "Closed"
      BY <2>1, <2>2 DEF StatusAfter
    <2>. QED  BY <1>0, <2>1, <2>2, <2>3
  <1>5. ASSUME NEW h \in handlers, CountAnswers(h) \/ AbandonAnswer(h)
        PROVE ClosureInv'
    <2>1. CASE CountAnswers(h)
      <3>. DEFINE counted == [h EXCEPT !.counted = TRUE,
                       !.seen = Responded(h.alert, answers \cup {<<h.alert, h.group>>})]
      <3>1. /\ h \in Handler
            /\ handlers' = (handlers \ {h}) \cup {counted}
            /\ UNCHANGED <<alerts, closed, overtaken>>
        BY <2>1 DEF CountAnswers, Inv, TypeOK, history
      <3>2. counted.alert = h.alert /\ counted.loaded = h.loaded
        BY <3>1 DEF Handler
      <3>. HIDE DEF counted
      <3>. QED  BY <3>1, <3>2
    <2>2. CASE AbandonAnswer(h)
      BY <2>2 DEF AbandonAnswer, history
    <2>. QED  BY <1>5, <2>1, <2>2
  <1>6. ASSUME NEW a \in Alerts, CloseAlert(a)
        PROVE ClosureInv'
    <2>1. /\ a \in issued
          /\ alerts'[a].status = "Closed"
          /\ \A x \in issued : x # a => alerts'[x].status = alerts[x].status
          /\ closed' = closed \cup {a}
          /\ overtaken \subseteq overtaken'
          /\ (\E h \in handlers : h.alert = a /\ h.loaded = "Open") => a \in overtaken'
          /\ UNCHANGED <<issued, handlers>>
      BY <1>6 DEF AlertOr404, CloseAlert, Inv, TypeOK, Alert
    <2>. QED  BY <1>0, <2>1
  <1>7. ASSUME NEW g \in Groups, GroupStep(g)
        PROVE ClosureInv'
    BY <1>7, GroupSteps DEF Inv
  <1>8. CASE Next
    BY <1>2, <1>3, <1>4, <1>5, <1>6, <1>7, <1>8, Steps
  <1>. QED  BY <1>1, <1>8

\* A closed alert stays closed unless it was closed while an answer that had
\* loaded it as open was in progress.
THEOREM ClosureLasts == Spec => []ClosedStaysClosed
  <1>1. Init => ClosureInv
    BY DEF Init, ClosureInv, ClosedStaysClosed, OvertakenByClosure
  <1>2. ClosureInv => ClosedStaysClosed
    BY DEF ClosureInv
  <1>. QED  BY <1>1, <1>2, InitInv, StepInv, StepClosure, PTL DEF Spec

----------------------------------------------------------------------------
(* Answers in progress are as good as answers at once *)

\* The handlers as they would be if the file of an answer were always in memory
\* and its count and its commit were one step: none is ever in progress.
One == INSTANCE AlertControl WITH handlers <- {}, overtaken <- {}, raced <- {}

\* The group that a handler answers for was created and is still in the table,
\* and what is closed was closed by somebody.
Known ==
    /\ \A h \in handlers : h.group \in AnswersFor
    /\ \A a \in issued : alerts[a].status = "Closed" => a \in closed

AnswerInv == Inv /\ CountInv /\ ClosureInv /\ Known

LEMMA StepKnown == Inv /\ Known /\ [Next]_vars => Known'
  <1>. SUFFICES ASSUME Inv, Known, [Next]_vars  PROVE Known'
    OBVIOUS
  <1>. USE DEF Known, AnswersFor
  <1>1. CASE UNCHANGED vars
    BY <1>1 DEF vars, history
  <1>2. ASSUME NEW a \in Alerts, NEW groups \in SUBSET Groups, IssueAlert(a, groups)
        PROVE Known'
    BY <1>2 DEF IssueAlert, history
  <1>3. ASSUME NEW a \in Alerts, NEW group \in Groups \cup {NoGroup}, NEW r \in Requests,
               BeginAnswer(r, a, group)
        PROVE Known'
    BY <1>3 DEF BeginAnswer, history
  <1>4. ASSUME NEW a \in issued, NEW group \in Groups \cup {NoGroup}, NEW loaded \in AlertStatus,
               NEW responded \in SUBSET Groups, NEW remaining \in SUBSET handlers,
               Answering(a, group, loaded, responded, remaining)
        PROVE Known'
    <2>1. /\ \A x \in issued : x # a => alerts'[x].status = alerts[x].status
          /\ alerts'[a].status =
                StatusAfter(alerts[a].status, loaded, alerts[a].recipients, responded)
      BY <1>4, AnswerRow DEF Inv, Answering
    <2>2. handlers' \subseteq handlers /\ UNCHANGED <<assignee_groups, issued, closed>>
      BY <1>4 DEF Answering, Answer
    <2>3. alerts'[a].status = "Closed" => alerts[a].status = "Closed"
      BY <2>1 DEF StatusAfter
    <2>. QED  BY <2>1, <2>2, <2>3
  <1>5. ASSUME NEW h \in handlers, CountAnswers(h) \/ AbandonAnswer(h)
        PROVE Known'
    <2>1. CASE CountAnswers(h)
      <3>. DEFINE counted == [h EXCEPT !.counted = TRUE,
                       !.seen = Responded(h.alert, answers \cup {<<h.alert, h.group>>})]
      <3>1. /\ h \in Handler
            /\ handlers' = (handlers \ {h}) \cup {counted}
            /\ UNCHANGED <<assignee_groups, issued, alerts, closed>>
        BY <2>1 DEF CountAnswers, Inv, TypeOK, history
      <3>2. counted.group = h.group
        BY <3>1 DEF Handler
      <3>. HIDE DEF counted
      <3>. QED  BY <3>1, <3>2
    <2>2. CASE AbandonAnswer(h)
      BY <2>2 DEF AbandonAnswer, history
    <2>. QED  BY <1>5, <2>1, <2>2
  <1>6. ASSUME NEW a \in Alerts, CloseAlert(a)
        PROVE Known'
    <2>1. /\ \A x \in issued : x # a => alerts'[x].status = alerts[x].status
          /\ closed' = closed \cup {a}
          /\ UNCHANGED <<assignee_groups, issued, handlers>>
      BY <1>6 DEF AlertOr404, CloseAlert, Inv, TypeOK, Alert
    <2>. QED  BY <2>1
  <1>7. ASSUME NEW g \in Groups, GroupStep(g)
        PROVE Known'
    <2>1. DOMAIN assignee_groups \subseteq DOMAIN assignee_groups'
      BY <1>7 DEF GroupStep, GroupCreate, GroupDelete
    <2>2. UNCHANGED <<issued, alerts, handlers, closed>>
      BY <1>7, GroupSteps DEF Inv
    <2>. QED  BY <2>1, <2>2
  <1>8. CASE Next
    BY <1>2, <1>3, <1>4, <1>5, <1>6, <1>7, <1>8, Steps
  <1>. QED  BY <1>1, <1>8

LEMMA AnswerInvariant == Spec => []AnswerInv
  <1>1. Init => AnswerInv
    BY InitInv DEF Init, AnswerInv, CountInv, ClosureInv, Known, NoAnswerOverlooked,
                   HandlersUpToDate, ClosedStaysClosed, OvertakenByClosure
  <1>2. AnswerInv /\ [Next]_vars => AnswerInv'
    BY StepInv, StepCount, StepClosure, StepKnown DEF AnswerInv
  <1>. QED  BY <1>1, <1>2, PTL DEF Spec

\* The status that a handler writes is the one an answer at once would write.
LEMMA AnswerAsOne ==
    ASSUME AnswerInv, NEW h \in handlers, FinishAnswer(h) \/ CommitAnswer(h),
           h.alert \notin raced, h.alert \notin overtaken
    PROVE  One!AcknowledgeAlert(h.alert, h.group)
  <1>. DEFINE a         == h.alert
              status    == alerts[a].status
              responded == Responded(a, answers \cup {<<a, h.group>>})
  <1>1. h.alert \in issued /\ h.group \in AnswersFor /\ status \in AlertStatus
    BY DEF AnswerInv, Inv, TypeOK, Alert, HandlersSound, Known
  <1>2. /\ answers' = answers \cup {<<a, h.group>>}
        /\ alerts' = [alerts EXCEPT ![a].status =
               StatusAfter(@, h.loaded, Required(a), responded)]
        /\ UNCHANGED <<assignee_groups, issued, closed>>
    BY DEF FinishAnswer, CommitAnswer, Answer, AnswerInv, CountInv, HandlersUpToDate
  <1>3. h.loaded # "Open" => status # "Open"
    BY DEF AnswerInv, CountInv, HandlersUpToDate
  <1>4. h.loaded = "Open" => status # "Closed"
    BY <1>1 DEF AnswerInv, ClosureInv, OvertakenByClosure, Known
  <1>5. StatusAfter(status, h.loaded, Required(a), responded)
          = StatusAfter(status, status, Required(a), responded)
    BY <1>1, <1>3, <1>4 DEF StatusAfter, AlertStatus
  <1>6. alerts' = [alerts EXCEPT ![a].status = StatusAfter(status, status, Required(a), responded)]
    BY <1>2, <1>5
  <1>. QED  BY <1>1, <1>2, <1>6 DEF One!AcknowledgeAlert, One!AlertOr404, One!AnswersFor, AnswersFor,
                 One!Answer, One!StatusAfter, One!Completes, One!Required, One!Responded,
                 StatusAfter, Completes, Required, Responded

\* No answer has been committed between the count and the commit of another, and
\* no alert closed while an answer was in progress.
NoInterference == raced = {} /\ overtaken = {}

LEMMA StepAsOne ==
    ASSUME AnswerInv, NoInterference, [Next]_vars
    PROVE  [One!Next]_One!vars
  <1>. USE DEF One!vars, One!history
  <1>1. CASE UNCHANGED vars
    BY <1>1 DEF vars, history
  <1>2. ASSUME NEW g \in Groups, GroupCreate(g) \/ GroupDelete(g)
        PROVE  One!Next
    <2>1. One!GroupCreate(g) \/ One!GroupDelete(g)
      BY <1>2 DEF GroupCreate, GroupDelete, GroupInOrg, history,
                  One!GroupCreate, One!GroupDelete, One!GroupInOrg
    <2>. QED  BY <2>1 DEF One!Next
  <1>3. ASSUME NEW a \in Alerts, NEW groups \in SUBSET Groups, IssueAlert(a, groups)
        PROVE  One!Next
    <2>1. One!AlertCreateSubmit(a, groups)
      BY <1>3 DEF IssueAlert, CanIssue, Recipients, history,
                  One!AlertCreateSubmit, One!IssueAlert, One!CanIssue, One!Recipients
    <2>. QED  BY <2>1 DEF One!Next
  <1>4. ASSUME NEW a \in Alerts, NEW group \in Groups \cup {NoGroup}, AcknowledgeAlert(a, group)
        PROVE  One!Next
    <2>1. One!AcknowledgeAlert(a, group)
      BY <1>4 DEF AcknowledgeAlert, AlertOr404, AnswersFor, Answer, StatusAfter, Completes,
                  Required, Responded, One!AcknowledgeAlert, One!AlertOr404, One!AnswersFor,
                  One!Answer, One!StatusAfter, One!Completes, One!Required, One!Responded
    <2>. QED  BY <2>1 DEF One!Next
  <1>5. ASSUME NEW h \in handlers, FinishAnswer(h) \/ CommitAnswer(h)
        PROVE  One!Next
    <2>1. One!AcknowledgeAlert(h.alert, h.group)
      BY <1>5, AnswerAsOne DEF NoInterference
    <2>2. h.alert \in Alerts /\ h.group \in Groups \cup {NoGroup}
      BY DEF AnswerInv, Inv, TypeOK, Handler
    <2>. QED  BY <2>1, <2>2 DEF One!Next
  <1>6. ASSUME NEW a \in Alerts, CloseAlert(a)
        PROVE  One!Next
    <2>1. One!CloseAlert(a)
      BY <1>6 DEF CloseAlert, AlertOr404, One!CloseAlert, One!AlertOr404
    <2>. QED  BY <2>1 DEF One!Next
  <1>7. ASSUME \/ \E a \in Alerts, group \in Groups \cup {NoGroup}, r \in Requests :
                     BeginAnswer(r, a, group)
               \/ \E h \in handlers : CountAnswers(h) \/ AbandonAnswer(h)
        PROVE  UNCHANGED One!vars
    BY <1>7 DEF BeginAnswer, CountAnswers, AbandonAnswer, history
  <1>8. CASE Next
    BY <1>2, <1>3, <1>4, <1>5, <1>6, <1>7, <1>8
    DEF Next, AlertCreateSubmit, StandaloneAlertCreateSubmit
  <1>. QED  BY <1>1, <1>8

\* An answer that was in progress for any time does, when it is committed, what
\* an answer at once would do then: although its alert was loaded and its
\* answers perhaps counted long before, it decides on nothing that is out of
\* date, unless another answer was committed between its count and its commit or
\* the alert was closed meanwhile.
THEOREM AnswersActAtOnce ==
    Spec => [][\A h \in handlers :
                  /\ FinishAnswer(h) \/ CommitAnswer(h)
                  /\ h.alert \notin raced \cup overtaken
                  => One!AcknowledgeAlert(h.alert, h.group)]_vars
  <1>1. AnswerInv /\ [Next]_vars
           => [\A h \in handlers :
                  /\ FinishAnswer(h) \/ CommitAnswer(h)
                  /\ h.alert \notin raced \cup overtaken
                  => One!AcknowledgeAlert(h.alert, h.group)]_vars
    BY AnswerAsOne
  <1>. QED  BY <1>1, AnswerInvariant, PTL DEF Spec

\* As long as neither happens, any number of uploads in any number of processes
\* behave as one process does that handles each answer in a single step.
THEOREM AnswersAsOne == Spec /\ []NoInterference => One!Spec
  <1>1. Init => One!Init
    BY DEF Init, One!Init
  <1>2. AnswerInv /\ NoInterference /\ [Next]_vars => [One!Next]_One!vars
    BY StepAsOne
  <1>. QED  BY <1>1, <1>2, AnswerInvariant, PTL DEF Spec, One!Spec

=============================================================================
