------------------------- MODULE EventControlProofs -------------------------
(***************************************************************************)
(* Proofs about EventControl, for any sets of users, groups and events.    *)
(* The type invariant and the independence from the reporter hold for      *)
(* every event; that an event is investigated and approved before it is    *)
(* closed holds for those whose status no client of the API has put.       *)
(***************************************************************************)
EXTENDS EventControl, TLAPS

\* Every action but CreateEvent and DeleteEvent replaces one row.
LEMMA SaveType ==
    ASSUME TypeOK, NEW e \in reported, NEW row \in Event, Save(e, row),
           bypassed' \in {bypassed, bypassed \cup {e}}
    PROVE  /\ TypeOK'
           /\ reported' = reported
           /\ events'[e] = row
           /\ course'[e] = IF row.status = "Open" THEN {"Open"}
                           ELSE course[e] \cup {row.status}
           /\ \A x \in reported \ {e} :
                 events'[x] = events[x] /\ course'[x] = course[x]
  <1>1. row.status \in EventStatus /\ row.assigned_to \in Users \cup {NoUser}
    BY DEF Event
  <1>2. events' \in [reported -> Event]
    BY DEF TypeOK, Save
  <1>3. course' \in [reported -> SUBSET EventStatus]
    BY <1>1 DEF TypeOK, Save, EventStatus
  <1>4. bypassed' \subseteq reported
    BY DEF TypeOK
  <1>. QED  BY <1>2, <1>3, <1>4 DEF TypeOK, Save

LEMMA CreateType ==
    ASSUME TypeOK, NEW e \in Events, NEW user \in Users,
           NEW assigned_to \in Users \cup {NoUser}, NEW group \in Groups \cup {NoGroup},
           CreateEvent(e, user, assigned_to, group)
    PROVE  /\ TypeOK'
           /\ reported' = reported \cup {e}
           /\ events'[e].status = "Open"
           /\ events'[e].closed_by = NoUser
           /\ events'[e].reported_by = user
           /\ course'[e] = {"Open"}
           /\ bypassed' = bypassed
           /\ \A x \in reported : events'[x] = events[x] /\ course'[x] = course[x]
  <1>. DEFINE row == [status |-> "Open", reported_by |-> user,
                      assigned_to |-> assigned_to, assigned_group |-> group,
                      closed_by |-> NoUser, is_active |-> TRUE]
  <1>1. row \in Event /\ {"Open"} \in SUBSET EventStatus
    BY DEF Event, EventStatus
  <1>2. /\ e \notin reported
        /\ reported' = reported \cup {e}
        /\ events' = [x \in reported \cup {e} |-> IF x = e THEN row ELSE events[x]]
        /\ course' = [x \in reported \cup {e} |-> IF x = e THEN {"Open"} ELSE course[x]]
        /\ bypassed' = bypassed
    BY DEF CreateEvent
  <1>. HIDE DEF row
  <1>3. events' \in [reported' -> Event]
    BY <1>1, <1>2 DEF TypeOK
  <1>4. course' \in [reported' -> SUBSET EventStatus]
    BY <1>1, <1>2 DEF TypeOK
  <1>5. bypassed' \subseteq reported'
    BY <1>2 DEF TypeOK
  <1>6. TypeOK'
    BY <1>2, <1>3, <1>4, <1>5 DEF TypeOK
  <1>7. /\ events'[e] = row
        /\ course'[e] = {"Open"}
        /\ \A x \in reported : events'[x] = events[x] /\ course'[x] = course[x]
    BY <1>2
  <1>8. row.status = "Open" /\ row.closed_by = NoUser /\ row.reported_by = user
    BY DEF row
  <1>. QED  BY <1>2, <1>6, <1>7, <1>8

\* The form of a step that is not a creation or a deletion: one row of an
\* available event is replaced, in one of five ways.
LEMMA RowWritten ==
    ASSUME TypeOK, NEW e \in Events,
           \/ UpdateEvent(e) \/ EditInBrowser(e) \/ ReopenEvent(e)
           \/ \E status \in EventStatus : PatchStatus(e, status)
           \/ \E user \in Users : CloseEvent(e, user)
    PROVE  /\ e \in reported
           /\ bypassed' \in {bypassed, bypassed \cup {e}}
           /\ \E row \in Event :
                 /\ Save(e, row)
                 /\ row.reported_by = events[e].reported_by
                 /\ \/ row.status = events[e].status /\ row.closed_by = events[e].closed_by
                    \/ e \in bypassed' /\ row.closed_by = events[e].closed_by
                    \/ /\ events[e].status = "Closed"
                       /\ row.status = "Open" /\ row.closed_by = NoUser
                    \/ /\ row.status \in ALLOWED_TRANSITIONS[events[e].status]
                       /\ row.closed_by = events[e].closed_by
                    \/ /\ events[e].status = "Resolved" /\ row.status = "Closed"
                       /\ row.closed_by \in Users \ {events[e].reported_by}
  <1>1. CASE UpdateEvent(e)
    <2>1. e \in reported /\ events[e] \in Event
      BY <1>1 DEF UpdateEvent, Available, TypeOK
    <2>2. PICK status \in EventStatus, user \in Users \cup {NoUser} :
             /\ Save(e, [events[e] EXCEPT !.status = status, !.assigned_to = user])
             /\ bypassed' = IF status = events[e].status THEN bypassed
                                                        ELSE bypassed \cup {e}
      BY <1>1 DEF UpdateEvent
    <2>. DEFINE row == [events[e] EXCEPT !.status = status, !.assigned_to = user]
    <2>3. /\ row \in Event
          /\ row.reported_by = events[e].reported_by
          /\ row.status = status
          /\ row.closed_by = events[e].closed_by
      BY <2>1 DEF Event
    <2>4. Save(e, row)
      BY <2>2
    <2>. HIDE DEF row
    <2>. QED  BY <2>1, <2>2, <2>3, <2>4
  <1>2. CASE EditInBrowser(e)
    <2>1. e \in reported /\ events[e] \in Event
      BY <1>2 DEF EditInBrowser, EventOr404, TypeOK
    <2>2. PICK assignee \in Assignees :
             Save(e, [events[e] EXCEPT !.assigned_to = assignee[1],
                                       !.assigned_group = assignee[2]])
      BY <1>2 DEF EditInBrowser
    <2>3. assignee[1] \in Users \cup {NoUser} /\ assignee[2] \in Groups \cup {NoGroup}
      BY <2>2 DEF Assignees
    <2>. DEFINE row == [events[e] EXCEPT !.assigned_to = assignee[1],
                                         !.assigned_group = assignee[2]]
    <2>4. /\ row \in Event
          /\ row.reported_by = events[e].reported_by
          /\ row.status = events[e].status
          /\ row.closed_by = events[e].closed_by
      BY <2>1, <2>3 DEF Event
    <2>5. Save(e, row)
      BY <2>2
    <2>. HIDE DEF row
    <2>6. bypassed' = bypassed
      BY <1>2 DEF EditInBrowser
    <2>. QED  BY <2>1, <2>4, <2>5, <2>6
  <1>3. CASE ReopenEvent(e)
    <2>1. /\ e \in reported /\ events[e] \in Event
          /\ events[e].status = "Closed"
          /\ Save(e, Reopened(events[e])) /\ bypassed' = bypassed
      BY <1>3 DEF ReopenEvent, Reopening, Available, TypeOK
    <2>2. /\ Reopened(events[e]) \in Event
          /\ Reopened(events[e]).reported_by = events[e].reported_by
          /\ Reopened(events[e]).status = "Open"
          /\ Reopened(events[e]).closed_by = NoUser
      BY <2>1 DEF Reopened, Event, EventStatus
    <2>. QED  BY <2>1, <2>2
  <1>4. ASSUME NEW status \in EventStatus, PatchStatus(e, status)
        PROVE  /\ e \in reported /\ bypassed' = bypassed
               /\ \E row \in Event :
                     /\ Save(e, row)
                     /\ row.reported_by = events[e].reported_by
                     /\ row.status \in ALLOWED_TRANSITIONS[events[e].status]
                     /\ row.closed_by = events[e].closed_by
    <2>1. e \in reported /\ events[e] \in Event
      BY <1>4 DEF PatchStatus, Available, TypeOK
    <2>2. /\ Save(e, [events[e] EXCEPT !.status = status])
          /\ status \in ALLOWED_TRANSITIONS[events[e].status]
          /\ bypassed' = bypassed
      BY <1>4 DEF PatchStatus, StatusTransition
    <2>. DEFINE row == [events[e] EXCEPT !.status = status]
    <2>3. /\ row \in Event
          /\ row.reported_by = events[e].reported_by
          /\ row.status = status
          /\ row.closed_by = events[e].closed_by
      BY <2>1 DEF Event
    <2>4. Save(e, row)
      BY <2>2
    <2>. HIDE DEF row
    <2>. QED  BY <2>1, <2>2, <2>3, <2>4
  <1>5. ASSUME NEW user \in Users, CloseEvent(e, user)
        PROVE  /\ e \in reported /\ bypassed' = bypassed
               /\ \E row \in Event :
                     /\ Save(e, row)
                     /\ row.reported_by = events[e].reported_by
                     /\ events[e].status = "Resolved" /\ row.status = "Closed"
                     /\ row.closed_by \in Users \ {events[e].reported_by}
    <2>1. /\ e \in reported /\ events[e] \in Event
          /\ events[e].status = "Resolved"
          /\ user # events[e].reported_by
          /\ Save(e, Closed(events[e], user)) /\ bypassed' = bypassed
      BY <1>5 DEF CloseEvent, ApproveClosure, CanClose, Available, TypeOK
    <2>2. /\ Closed(events[e], user) \in Event
          /\ Closed(events[e], user).reported_by = events[e].reported_by
          /\ Closed(events[e], user).status = "Closed"
          /\ Closed(events[e], user).closed_by = user
      BY <2>1 DEF Closed, Event, EventStatus
    <2>. QED  BY <2>1, <2>2
  <1>. QED  BY <1>1, <1>2, <1>3, <1>4, <1>5

\* The browser's workflow actions have the effect of the API's.
LEMMA BrowserSteps ==
    ASSUME NEW e
    PROVE  /\ EventReopenAction(e) => ReopenEvent(e)
           /\ \A status : EventStatusAction(e, status) => PatchStatus(e, status)
           /\ \A user : EventCloseAction(e, user) => CloseEvent(e, user)
  BY DEF EventReopenAction, EventStatusAction, EventCloseAction, EventOr404,
         ReopenEvent, PatchStatus, CloseEvent, Available

\* Everything an event goes through, in one fact.
LEMMA Steps ==
    ASSUME Next
    PROVE  \E e \in Events :
              \/ DeleteEvent(e)
              \/ \E user \in Users, assigned_to \in Users \cup {NoUser},
                    group \in Groups \cup {NoGroup} :
                    CreateEvent(e, user, assigned_to, group)
              \/ UpdateEvent(e) \/ EditInBrowser(e) \/ ReopenEvent(e)
              \/ \E status \in EventStatus : PatchStatus(e, status)
              \/ \E user \in Users : CloseEvent(e, user)
  <1>1. \A assignee \in Assignees :
           assignee[1] \in Users \cup {NoUser} /\ assignee[2] \in Groups \cup {NoGroup}
    BY DEF Assignees
  <1>. QED  BY <1>1, BrowserSteps DEF Next, CreateByApi, CreateInBrowser

LEMMA DeleteType ==
    ASSUME TypeOK, NEW e \in Events, DeleteEvent(e)
    PROVE  /\ TypeOK'
           /\ reported' = reported
           /\ course' = course
           /\ bypassed' = bypassed
           /\ \A x \in reported :
                 /\ events'[x].status = events[x].status
                 /\ events'[x].reported_by = events[x].reported_by
                 /\ events'[x].closed_by = events[x].closed_by
  <1>1. /\ events' = [events EXCEPT ![e].is_active = FALSE]
        /\ reported' = reported /\ course' = course /\ bypassed' = bypassed
    BY DEF DeleteEvent
  <1>2. events \in [reported -> Event]
    BY DEF TypeOK
  <1>3. \A x \in reported :
           /\ events'[x] \in Event
           /\ events'[x].status = events[x].status
           /\ events'[x].reported_by = events[x].reported_by
           /\ events'[x].closed_by = events[x].closed_by
    BY <1>1, <1>2 DEF Event
  <1>4. events' \in [reported -> Event]
    BY <1>1, <1>2, <1>3
  <1>. QED  BY <1>1, <1>3, <1>4 DEF TypeOK

----------------------------------------------------------------------------

LEMMA InitType == Init => TypeOK
  BY DEF Init, TypeOK

\* The tables keep their types.
LEMMA StepType == TypeOK /\ [Next]_vars => TypeOK'
  <1>. SUFFICES ASSUME TypeOK, [Next]_vars  PROVE TypeOK'
    OBVIOUS
  <1>1. CASE UNCHANGED vars
    BY <1>1 DEF TypeOK, vars
  <1>2. CASE Next
    BY <1>2, Steps, DeleteType, CreateType, RowWritten, SaveType
  <1>. QED  BY <1>1, <1>2

\* The events table keeps its type, whatever API clients put.
THEOREM TypeCorrect == Spec => []TypeOK
  BY InitType, StepType, PTL DEF Spec

----------------------------------------------------------------------------

LEMMA StepReporter ==
    TypeOK /\ ReporterNeverCloses /\ [Next]_vars => ReporterNeverCloses'
  <1>. SUFFICES ASSUME TypeOK, ReporterNeverCloses, [Next]_vars
                PROVE  ReporterNeverCloses'
    OBVIOUS
  <1>1. CASE UNCHANGED vars
    BY <1>1 DEF ReporterNeverCloses, vars
  <1>2. CASE Next
    <2>1. PICK e \in Events :
              \/ DeleteEvent(e)
              \/ \E user \in Users, assigned_to \in Users \cup {NoUser},
                    group \in Groups \cup {NoGroup} :
                    CreateEvent(e, user, assigned_to, group)
              \/ UpdateEvent(e) \/ EditInBrowser(e) \/ ReopenEvent(e)
              \/ \E status \in EventStatus : PatchStatus(e, status)
              \/ \E user \in Users : CloseEvent(e, user)
      BY <1>2, Steps
    <2>2. CASE DeleteEvent(e)
      BY <2>2, DeleteType DEF ReporterNeverCloses
    <2>3. ASSUME NEW user \in Users, NEW assigned_to \in Users \cup {NoUser},
                 NEW group \in Groups \cup {NoGroup},
                 CreateEvent(e, user, assigned_to, group)
          PROVE  ReporterNeverCloses'
      BY <2>3, CreateType, NoUserAssumption DEF ReporterNeverCloses
    <2>4. CASE \/ UpdateEvent(e) \/ EditInBrowser(e) \/ ReopenEvent(e)
               \/ \E status \in EventStatus : PatchStatus(e, status)
               \/ \E user \in Users : CloseEvent(e, user)
      <3>1. /\ e \in reported /\ events[e] \in Event /\ events[e].reported_by \in Users
            /\ bypassed' \in {bypassed, bypassed \cup {e}}
        BY <2>4, RowWritten DEF TypeOK, Event
      <3>2. PICK row \in Event :
               /\ Save(e, row)
               /\ row.reported_by = events[e].reported_by
               /\ \/ row.closed_by \in {events[e].closed_by, NoUser}
                  \/ row.closed_by \in Users \ {events[e].reported_by}
        BY <2>4, RowWritten
      <3>3. row.closed_by # row.reported_by
        BY <3>1, <3>2, NoUserAssumption DEF ReporterNeverCloses
      <3>4. /\ reported' = reported
            /\ events'[e] = row
            /\ \A x \in reported \ {e} : events'[x] = events[x]
        BY <3>1, <3>2, SaveType
      <3>. QED  BY <3>3, <3>4 DEF ReporterNeverCloses
    <2>. QED  BY <2>1, <2>2, <2>3, <2>4
  <1>. QED  BY <1>1, <1>2

\* Nobody is on record as the approver of the closure of an event he
\* reported: the reporter is never rewritten and approve_closure is the only
\* writer of closed_by.
THEOREM ReporterIndependence == Spec => []ReporterNeverCloses
  <1>1. Init => ReporterNeverCloses
    BY DEF Init, ReporterNeverCloses
  <1>. QED  BY <1>1, TypeCorrect, StepReporter, PTL DEF Spec

----------------------------------------------------------------------------
(* Closure *)

\* What the status of an event says about its course and its approval.
Consistent(e) ==
    /\ events[e].status \in course[e]
    /\ events[e].status \in {"Resolved", "Closed"} => "In_Progress" \in course[e]
    /\ events[e].status = "Closed" => "Resolved" \in course[e]
    /\ events[e].status = "Closed" <=> events[e].closed_by # NoUser

ClosureInv == \A e \in reported \ bypassed : Consistent(e)

LEMMA StepClosure ==
    TypeOK /\ ClosureInv /\ [Next]_vars => ClosureInv'
  <1>. SUFFICES ASSUME TypeOK, ClosureInv, [Next]_vars  PROVE ClosureInv'
    OBVIOUS
  <1>1. CASE UNCHANGED vars
    BY <1>1 DEF ClosureInv, Consistent, vars
  <1>2. CASE Next
    <2>1. PICK e \in Events :
              \/ DeleteEvent(e)
              \/ \E user \in Users, assigned_to \in Users \cup {NoUser},
                    group \in Groups \cup {NoGroup} :
                    CreateEvent(e, user, assigned_to, group)
              \/ UpdateEvent(e) \/ EditInBrowser(e) \/ ReopenEvent(e)
              \/ \E status \in EventStatus : PatchStatus(e, status)
              \/ \E user \in Users : CloseEvent(e, user)
      BY <1>2, Steps
    <2>2. CASE DeleteEvent(e)
      BY <2>2, DeleteType DEF ClosureInv, Consistent
    <2>3. ASSUME NEW user \in Users, NEW assigned_to \in Users \cup {NoUser},
                 NEW group \in Groups \cup {NoGroup},
                 CreateEvent(e, user, assigned_to, group)
          PROVE  ClosureInv'
      BY <2>3, CreateType DEF ClosureInv, Consistent
    <2>4. CASE \/ UpdateEvent(e) \/ EditInBrowser(e) \/ ReopenEvent(e)
               \/ \E status \in EventStatus : PatchStatus(e, status)
               \/ \E user \in Users : CloseEvent(e, user)
      <3>1. /\ e \in reported /\ events[e].status \in EventStatus
            /\ bypassed' \in {bypassed, bypassed \cup {e}}
        BY <2>4, RowWritten DEF TypeOK, Event
      <3>2. PICK row \in Event :
               /\ Save(e, row)
               /\ \/ e \in bypassed'
                  \/ row.status = events[e].status /\ row.closed_by = events[e].closed_by
                  \/ row.status = "Open" /\ row.closed_by = NoUser
                  \/ /\ row.status \in ALLOWED_TRANSITIONS[events[e].status]
                     /\ row.closed_by = events[e].closed_by
                  \/ /\ events[e].status = "Resolved" /\ row.status = "Closed"
                     /\ row.closed_by # NoUser
        BY <2>4, RowWritten, NoUserAssumption
      <3>3. /\ reported' = reported
            /\ events'[e] = row
            /\ course'[e] = IF row.status = "Open" THEN {"Open"}
                            ELSE course[e] \cup {row.status}
            /\ \A x \in reported \ {e} :
                  events'[x] = events[x] /\ course'[x] = course[x]
        BY <3>1, <3>2, SaveType
      <3>4. CASE e \in bypassed'
        BY <3>1, <3>3, <3>4 DEF ClosureInv, Consistent
      <3>5. CASE e \notin bypassed'
        <4>. DEFINE old == events[e]
                    passed == course[e]
        <4>1. /\ old.status \in passed
              /\ old.status \in {"Resolved", "Closed"} => "In_Progress" \in passed
              /\ old.status = "Closed" => "Resolved" \in passed
              /\ old.status = "Closed" <=> old.closed_by # NoUser
          BY <3>1, <3>5 DEF ClosureInv, Consistent
        <4>2. /\ row.status \in {"Resolved", "Closed"} => "In_Progress" \in passed
              /\ row.status = "Closed" => "Resolved" \in passed
              /\ row.status = "Closed" <=> row.closed_by # NoUser
          <5>1. CASE row.status = old.status /\ row.closed_by = old.closed_by
            BY <4>1, <5>1
          <5>2. CASE row.status = "Open" /\ row.closed_by = NoUser
            BY <5>2
          <5>3. CASE /\ row.status \in ALLOWED_TRANSITIONS[old.status]
                     /\ row.closed_by = old.closed_by
            <6>1. \/ old.status = "Open" /\ row.status = "In_Progress"
                  \/ old.status = "In_Progress" /\ row.status \in {"Resolved", "Open"}
                  \/ old.status = "Resolved" /\ row.status = "In_Progress"
              BY <3>1, <5>3 DEF ALLOWED_TRANSITIONS, EventStatus
            <6>. QED  BY <4>1, <5>3, <6>1
          <5>4. CASE old.status = "Resolved" /\ row.status = "Closed" /\ row.closed_by # NoUser
            BY <4>1, <5>4
          <5>. QED  BY <3>2, <3>5, <5>1, <5>2, <5>3, <5>4
        <4>3. row.status \in course'[e]
          BY <3>3
        <4>4. row.status \in {"Resolved", "Closed"} => passed \subseteq course'[e]
          BY <3>3
        <4>5. Consistent(e)'
          BY <3>3, <4>2, <4>3, <4>4 DEF Consistent
        <4>. QED  BY <3>1, <3>3, <4>5 DEF ClosureInv, Consistent
      <3>. QED  BY <3>4, <3>5
    <2>. QED  BY <2>1, <2>2, <2>3, <2>4
  <1>. QED  BY <1>1, <1>2

LEMMA Closure == Spec => []ClosureInv
  <1>1. Init => ClosureInv
    BY DEF Init, ClosureInv
  <1>. QED  BY <1>1, StepClosure, TypeCorrect, PTL DEF Spec

\* An event whose status no client of the API has put has been investigated
\* and resolved before it is closed.
THEOREM InvestigationFirst == Spec => []InvestigatedBeforeClosed
  <1>1. ClosureInv => InvestigatedBeforeClosed
    BY DEF ClosureInv, Consistent, InvestigatedBeforeClosed
  <1>. QED  BY <1>1, Closure, PTL

\* Of the events whose status no client of the API has put, the closed ones
\* are those with an approver on record.
THEOREM ClosedMeansApproved == Spec => []ClosedIffApproved
  <1>1. ClosureInv => ClosedIffApproved
    BY DEF ClosureInv, Consistent, ClosedIffApproved
  <1>. QED  BY <1>1, Closure, PTL

============================================================================
