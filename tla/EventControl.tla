---------------------------- MODULE EventControl ----------------------------
(***************************************************************************)
(* Quality events: app/services/event_workflow.py and the handlers of      *)
(* app/api/routes/events.py (API) and app/api/routes/pages.py (browser).   *)
(* None of them awaits anything, so each is one step.  Both entry points   *)
(* call the same workflow functions for status changes, closing and        *)
(* reopening; they differ in how an event is edited.                       *)
(*                                                                         *)
(* The texts, traceability fields and dates of an event decide nothing     *)
(* here and are left out; an edit that changes only them is a stutter.     *)
(***************************************************************************)
EXTENDS Naturals, FiniteSets

CONSTANTS
    Users, NoUser,      \* ids of the users of one organization, and NULL
    Groups, NoGroup,    \* ids of its assignee groups, and NULL
    Events              \* ids of its events

ASSUME NoUserAssumption == NoUser \notin Users
ASSUME NoGroupAssumption == NoGroup \notin Groups

VARIABLES
    reported,       \* events that have been created
    events,         \* the events table
    course,         \* history: statuses an event has had since it was last opened
    bypassed        \* history: events whose status a client of the API has put

vars == <<reported, events, course, bypassed>>

EventStatus == {"Open", "In_Progress", "Resolved", "Closed"}

Event == [status         : EventStatus,
          reported_by    : Users,
          assigned_to    : Users \cup {NoUser},
          assigned_group : Groups \cup {NoGroup},
          closed_by      : Users \cup {NoUser},
          is_active      : BOOLEAN]

TypeOK ==
    /\ reported \subseteq Events
    /\ events \in [reported -> Event]
    /\ course \in [reported -> SUBSET EventStatus]
    /\ bypassed \subseteq reported

Init ==
    /\ reported = {}
    /\ events = [e \in {} |-> NoUser]
    /\ course = [e \in {} |-> {}]
    /\ bypassed = {}

----------------------------------------------------------------------------
(* The rules of event_workflow.py *)

\* Mutant: an open event can be resolved.
ALLOWED_TRANSITIONS_Skip ==
    [s \in EventStatus |->
        CASE s = "Open"        -> {"In_Progress", "Resolved"}
          [] s = "In_Progress" -> {"Resolved", "Open"}
          [] s = "Resolved"    -> {"In_Progress"}
          [] s = "Closed"      -> {}]

ALLOWED_TRANSITIONS ==
    [s \in EventStatus |->
        CASE s = "Open"        -> {"In_Progress"}
          [] s = "In_Progress" -> {"Resolved", "Open"}
          [] s = "Resolved"    -> {"In_Progress"}
          [] s = "Closed"      -> {}]

\* Mutant: the reporter may approve.
CanClose_Reporter(event, actor) ==
    event.status = "Resolved" /\ actor # event.assigned_to

CanClose(event, actor) ==
    event.status = "Resolved" /\ actor \notin {event.reported_by, event.assigned_to}

Closed(event, actor) == [event EXCEPT !.status = "Closed", !.closed_by = actor]

\* Mutant: the approver of the closure that is undone stays on record.
Reopened_Mutant(event) == [event EXCEPT !.status = "Open"]

Reopened(event) == [event EXCEPT !.status = "Open", !.closed_by = NoUser]

\* Mutant: the two columns are swapped.
Assignees_Mutant ==
    {<<NoGroup, user>> : user \in Users} \cup
    {<<group, NoUser>> : group \in Groups \cup {NoGroup}}

\* The single choice of the browser's assignee field: a user, a group, nobody.
Assignees ==
    {<<user, NoGroup>> : user \in Users} \cup
    {<<NoUser, group>> : group \in Groups \cup {NoGroup}}

----------------------------------------------------------------------------
(* The handlers *)

\* _get_event_in_org, and the browser's lookup: both skip a deleted event.
Available(e) == e \in reported /\ events[e].is_active

EventOr404(e) == e \in {x \in reported : events[x].is_active}

\* The row of event e is replaced, and its history kept up to date.
Save(e, row) ==
    /\ events' = [events EXCEPT ![e] = row]
    /\ course' = [course EXCEPT ![e] =
           IF row.status = "Open" THEN {"Open"} ELSE @ \cup {row.status}]
    /\ UNCHANGED reported

CreateEvent(e, user, assigned_to, assigned_group) ==
    LET row == [status |-> "Open", reported_by |-> user,
                assigned_to |-> assigned_to, assigned_group |-> assigned_group,
                closed_by |-> NoUser, is_active |-> TRUE]
        With(f, value) == [x \in reported \cup {e} |-> IF x = e THEN value ELSE f[x]]
    IN  /\ e \notin reported
        /\ reported' = reported \cup {e}
        /\ events' = With(events, row)
        /\ course' = With(course, {"Open"})
        /\ UNCHANGED bypassed

\* The API creates events without a group.
CreateByApi(e, user) ==
    \E assigned_to \in Users \cup {NoUser} : CreateEvent(e, user, assigned_to, NoGroup)

CreateInBrowser(e, user) ==
    \E assignee \in Assignees : CreateEvent(e, user, assignee[1], assignee[2])

\* The PUT writes what the client sends, the status included.
UpdateEvent(e) ==
    /\ Available(e)
    /\ \E status \in EventStatus, user \in Users \cup {NoUser} :
          /\ Save(e, [events[e] EXCEPT !.status = status, !.assigned_to = user])
          /\ bypassed' = IF status = events[e].status THEN bypassed
                                                     ELSE bypassed \cup {e}

EditInBrowser(e) ==
    /\ EventOr404(e)
    /\ \E assignee \in Assignees :
          Save(e, [events[e] EXCEPT !.assigned_to = assignee[1],
                                    !.assigned_group = assignee[2]])
    /\ UNCHANGED bypassed

\* The workflow's three steps, which both entry points call.
StatusTransition(e, status) ==
    /\ status \in ALLOWED_TRANSITIONS[events[e].status]
    /\ Save(e, [events[e] EXCEPT !.status = status])
    /\ UNCHANGED bypassed

ApproveClosure(e, actor) ==
    /\ CanClose(events[e], actor)
    /\ Save(e, Closed(events[e], actor))
    /\ UNCHANGED bypassed

Reopening(e) ==
    /\ events[e].status = "Closed"
    /\ Save(e, Reopened(events[e]))
    /\ UNCHANGED bypassed

PatchStatus(e, status) == Available(e) /\ StatusTransition(e, status)

EventStatusAction(e, status) == EventOr404(e) /\ StatusTransition(e, status)

CloseEvent(e, actor) == Available(e) /\ ApproveClosure(e, actor)

EventCloseAction(e, actor) == EventOr404(e) /\ ApproveClosure(e, actor)

ReopenEvent(e) == Available(e) /\ Reopening(e)

EventReopenAction(e) == EventOr404(e) /\ Reopening(e)

DeleteEvent(e) ==
    /\ Available(e)
    /\ events' = [events EXCEPT ![e].is_active = FALSE]
    /\ UNCHANGED <<reported, course, bypassed>>

Next ==
    \E e \in Events :
        \/ UpdateEvent(e)
        \/ EditInBrowser(e)
        \/ ReopenEvent(e) \/ EventReopenAction(e)
        \/ DeleteEvent(e)
        \/ \E status \in EventStatus :
              PatchStatus(e, status) \/ EventStatusAction(e, status)
        \/ \E user \in Users :
              \/ CreateByApi(e, user) \/ CreateInBrowser(e, user)
              \/ CloseEvent(e, user) \/ EventCloseAction(e, user)

Spec == Init /\ [][Next]_vars

----------------------------------------------------------------------------
(* Properties *)

\* event_workflow.py: "investigation-first flow".  However an event went to
\* and fro since it was last opened, it has been under investigation and has
\* been resolved before it is closed, unless a client of the API put its status.
InvestigatedBeforeClosed ==
    \A e \in reported \ bypassed :
        events[e].status = "Closed" => {"In_Progress", "Resolved"} \subseteq course[e]

\* A closed event has an approver on record and an event that is not closed
\* has none: a reopening leaves no approval of the earlier closure behind.
\* Again, a client of the API that puts a status is outside of this.
ClosedIffApproved ==
    \A e \in reported \ bypassed :
        events[e].status = "Closed" <=> events[e].closed_by # NoUser

\* The reporter of an event is never on record as the one who approved its
\* closure, not even when API clients put statuses and assignees at will.
ReporterNeverCloses ==
    \A e \in reported : events[e].closed_by # events[e].reported_by

\* The flow as event_workflow.py states it, for every event.
InvestigationFirstFlow ==
    \A e \in reported :
        events[e].status = "Closed" => {"In_Progress", "Resolved"} \subseteq course[e]

============================================================================
