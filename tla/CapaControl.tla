---------------------------- MODULE CapaControl ----------------------------
(***************************************************************************)
(* Corrective and preventive actions: app/services/capa_workflow.py and    *)
(* the handlers of app/api/routes/capas.py; the browser can create a CAPA  *)
(* (admin_pages.py) and nothing else.  None of the handlers awaits         *)
(* anything, so each is one step.                                          *)
(*                                                                         *)
(* Abstractions: a text or a date that a gate asks for is recorded or it   *)
(* is not; a corrective and a preventive action are one, for the gates     *)
(* accept either; the other texts decide nothing and are left out.  Of the *)
(* events a CAPA is linked with the model knows which are not deleted.     *)
(***************************************************************************)
EXTENDS Naturals, FiniteSets

CONSTANTS
    Users, NoUser,      \* ids of the users of one organization, and NULL
    Capas,              \* ids of its CAPAs
    Events              \* ids of its quality events

ASSUME NoUserAssumption == NoUser \notin Users

VARIABLES
    live_events,    \* events that are not deleted
    opened,         \* CAPAs that have been created
    capas,          \* the capas table, with the linked events
    blanked         \* history: CAPAs of which an edit has blanked a record

vars == <<live_events, opened, capas, blanked>>

CapaStatus == {"Draft", "Investigation", "Action_Plan", "Implementation",
               "Effectiveness_Check", "Closed", "Failed_Effectiveness", "Cancelled"}

VerificationOutcome == {"Pending", "Effective", "Ineffective"}

\* What a handler of the CAPA's form may write.
Form == [initiating_cause : BOOLEAN,
         root_cause       : BOOLEAN,
         action           : BOOLEAN,
         due_date         : BOOLEAN,
         owner_id         : Users \cup {NoUser},
         events           : SUBSET Events]

Capa == [status               : CapaStatus,
         form                 : Form,
         verification_outcome : VerificationOutcome,
         verification_date    : BOOLEAN,
         verified_by          : Users \cup {NoUser}]

TypeOK ==
    /\ live_events \subseteq Events
    /\ opened \subseteq Capas
    /\ capas \in [opened -> Capa]
    /\ blanked \subseteq opened

Init ==
    /\ live_events = Events
    /\ opened = {}
    /\ capas = [c \in {} |-> NoUser]
    /\ blanked = {}

----------------------------------------------------------------------------
(* The rules of capa_workflow.py *)

TERMINAL_STATUSES == {"Closed", "Failed_Effectiveness", "Cancelled"}

\* Mutant: whatever is terminal can be reopened.
REOPENABLE_STATUSES_Mutant == TERMINAL_STATUSES

REOPENABLE_STATUSES == {"Closed", "Failed_Effectiveness"}

\* Mutant: a CAPA under investigation goes straight to its implementation.
ALLOWED_TRANSITIONS_Mutant ==
    [s \in CapaStatus |->
        CASE s = "Draft"               -> {"Investigation"}
          [] s = "Investigation"       -> {"Action_Plan", "Implementation"}
          [] s = "Action_Plan"         -> {"Implementation", "Investigation"}
          [] s = "Implementation"      -> {"Effectiveness_Check", "Action_Plan"}
          [] s = "Effectiveness_Check" -> {"Implementation"}
          [] OTHER                     -> {}]

ALLOWED_TRANSITIONS ==
    [s \in CapaStatus |->
        CASE s = "Draft"               -> {"Investigation"}
          [] s = "Investigation"       -> {"Action_Plan"}
          [] s = "Action_Plan"         -> {"Implementation", "Investigation"}
          [] s = "Implementation"      -> {"Effectiveness_Check", "Action_Plan"}
          [] s = "Effectiveness_Check" -> {"Implementation"}
          [] OTHER                     -> {}]

\* _GATES: what must be recorded before the step from one stage to another.
Gate(from, to, form) ==
    CASE <<from, to>> = <<"Draft", "Investigation">> ->
            form.initiating_cause \/ form.events # {}
      [] <<from, to>> = <<"Investigation", "Action_Plan">> -> form.root_cause
      [] <<from, to>> = <<"Action_Plan", "Implementation">> ->
            form.action /\ form.owner_id # NoUser /\ form.due_date
      [] <<from, to>> = <<"Implementation", "Effectiveness_Check">> -> form.action
      [] OTHER -> TRUE

NewCapa(form) ==
    [status               |-> "Draft",
     form                 |-> form,
     verification_outcome |-> "Pending",
     verification_date    |-> FALSE,
     verified_by          |-> NoUser]

CanVerify(capa, actor) ==
    capa.status = "Effectiveness_Check" /\ capa.form.owner_id # actor

\* Mutant: the outcome is written to the status.
Verified_Mutant(capa, actor, outcome) ==
    [capa EXCEPT !.verification_outcome = outcome,
                 !.verification_date    = TRUE,
                 !.verified_by          = actor,
                 !.status               = outcome]

Verified(capa, actor, outcome) ==
    [capa EXCEPT !.verification_outcome = outcome,
                 !.verification_date    = TRUE,
                 !.verified_by          = actor,
                 !.status = IF outcome = "Effective" THEN "Closed"
                                                     ELSE "Failed_Effectiveness"]

\* Mutant: the date of the verification that is undone stays.
Reopened_Mutant(capa) ==
    [capa EXCEPT !.status               = "Investigation",
                 !.verification_outcome = "Pending",
                 !.verified_by          = NoUser]

Reopened(capa) ==
    [capa EXCEPT !.status               = "Investigation",
                 !.verification_outcome = "Pending",
                 !.verification_date    = FALSE,
                 !.verified_by          = NoUser]

----------------------------------------------------------------------------
(* The handlers *)

\* An edit that blanks nothing: what was recorded is replaced, at most.
Extends(new, old) ==
    /\ \A field \in {"initiating_cause", "root_cause", "action", "due_date"} :
          old[field] => new[field]
    /\ old.owner_id # NoUser => new.owner_id # NoUser
    /\ old.events # {} => new.events # {}

\* The row of CAPA c is replaced.
Save(c, row) ==
    /\ capas' = [capas EXCEPT ![c] = row]
    /\ blanked' = IF Extends(row.form, capas[c].form) THEN blanked ELSE blanked \cup {c}
    /\ UNCHANGED <<live_events, opened>>

CreateCapa(c, form) ==
    /\ c \notin opened
    /\ form.events \subseteq live_events
    /\ opened' = opened \cup {c}
    /\ capas' = [x \in opened \cup {c} |-> IF x = c THEN NewCapa(form) ELSE capas[x]]
    /\ UNCHANGED <<live_events, blanked>>

\* The browser's form names no events.
CapaCreateSubmit(c, form) == form.events = {} /\ CreateCapa(c, form)

\* _get_capa_in_org: no CAPA is ever deactivated.
CapaInOrg(c) == c \in opened

\* The PUT of the API: whatever the status is.  Only event ids that are put
\* are looked up, so links to deleted events survive an edit of the rest.
UpdateCapa(c, form) ==
    /\ CapaInOrg(c)
    /\ form.events = capas[c].form.events \/ form.events \subseteq live_events
    /\ Save(c, [capas[c] EXCEPT !.form = form])

StatusTransition(c, status) ==
    /\ status \in ALLOWED_TRANSITIONS[capas[c].status]
    /\ Gate(capas[c].status, status, capas[c].form)
    /\ Save(c, [capas[c] EXCEPT !.status = status])

PatchStatus(c, status) == CapaInOrg(c) /\ StatusTransition(c, status)

VerifyCapa(c, actor, outcome) ==
    /\ CapaInOrg(c)
    /\ CanVerify(capas[c], actor)
    /\ outcome # "Pending"
    /\ Save(c, Verified(capas[c], actor, outcome))

ReopenCapa(c) ==
    /\ CapaInOrg(c)
    /\ capas[c].status \in REOPENABLE_STATUSES
    /\ Save(c, Reopened(capas[c]))

Cancel(c) ==
    /\ capas[c].status \notin TERMINAL_STATUSES
    /\ Save(c, [capas[c] EXCEPT !.status = "Cancelled"])

CancelCapa(c) == CapaInOrg(c) /\ Cancel(c)

\* delete_event of events.py: the links to the event stay.
DeleteEvent(e) ==
    /\ e \in live_events
    /\ live_events' = live_events \ {e}
    /\ UNCHANGED <<opened, capas, blanked>>

Next ==
    \/ \E c \in Capas, form \in Form : CreateCapa(c, form) \/ CapaCreateSubmit(c, form)
    \/ \E c \in Capas :
          \/ \E form \in Form : UpdateCapa(c, form)
          \/ \E status \in CapaStatus : PatchStatus(c, status)
          \/ \E actor \in Users, outcome \in VerificationOutcome : VerifyCapa(c, actor, outcome)
          \/ ReopenCapa(c)
          \/ CancelCapa(c)
    \/ \E e \in Events : DeleteEvent(e)

Spec == Init /\ [][Next]_vars

----------------------------------------------------------------------------
(* Properties *)

\* The verification on record belongs to the status: closed means verified as
\* effective, failed as ineffective, and at any other status nothing is left
\* of an earlier verification.  The report on cycle times takes a CAPA for
\* measurable when it is closed and dated, so a lost date would drop it.
OutcomeMatchesStatus ==
    \A c \in opened :
        LET capa == capas[c]
            verdict == <<capa.verification_outcome, capa.verification_date,
                         capa.verified_by # NoUser>>
        IN  CASE capa.status = "Closed" -> verdict = <<"Effective", TRUE, TRUE>>
              [] capa.status = "Failed_Effectiveness" -> verdict = <<"Ineffective", TRUE, TRUE>>
              [] OTHER -> verdict = <<"Pending", FALSE, FALSE>>

\* A CAPA has on record what the gates on the way to its stage ask for, unless
\* an edit has blanked a part of its record: no way round the gates, by going back, by
\* reopening or by verification, reaches a stage without its record.
StagesHaveTheirRecord ==
    \A c \in opened \ blanked :
        LET form == capas[c].form
            past(stages) == capas[c].status \notin stages \cup {"Cancelled"}
        IN  /\ past({"Draft"}) => form.initiating_cause \/ form.events # {}
            /\ past({"Draft", "Investigation"}) => form.root_cause
            /\ past({"Draft", "Investigation", "Action_Plan"}) =>
                  form.action /\ form.due_date /\ form.owner_id # NoUser

\* A verdict stands: only a reopening takes it away, and then all of it; a
\* cancelled CAPA stays cancelled.
VerdictStands ==
    [][\A c \in opened :
          LET Verdict(capa) == <<capa.status, capa.verification_outcome,
                                 capa.verification_date, capa.verified_by>>
          IN  capas[c].status \in TERMINAL_STATUSES =>
                 \/ Verdict(capas'[c]) = Verdict(capas[c])
                 \/ /\ capas[c].status # "Cancelled"
                    /\ Verdict(capas'[c]) = <<"Investigation", "Pending", FALSE, NoUser>>]_vars

============================================================================
