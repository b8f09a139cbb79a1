-------------------------- MODULE CapaControlProofs --------------------------
(***************************************************************************)
(* Proofs about CapaControl, for any sets of users, CAPAs and events: the  *)
(* verification on record always belongs to the status, a verdict stands   *)
(* until a reopening wipes it, and a CAPA that no edit has blanked has the  *)
(* record that the gates on the way to its stage ask for.                  *)
(***************************************************************************)
EXTENDS CapaControl, TLAPS

\* Every handler of a CAPA replaces its row.
LEMMA SaveRow ==
    ASSUME TypeOK, NEW c \in opened, NEW row \in Capa, Save(c, row)
    PROVE  /\ TypeOK'
           /\ opened' = opened
           /\ blanked \subseteq blanked'
           /\ Extends(row.form, capas[c].form) \/ c \in blanked'
           /\ capas'[c] = row
           /\ \A x \in opened \ {c} : capas'[x] = capas[x]
  BY DEF TypeOK, Save

LEMMA CreateRow ==
    ASSUME TypeOK, NEW c \in Capas, NEW form \in Form, CreateCapa(c, form)
    PROVE  /\ TypeOK'
           /\ c \notin opened
           /\ opened' = opened \cup {c}
           /\ blanked' = blanked
           /\ capas'[c] = NewCapa(form)
           /\ \A x \in opened : capas'[x] = capas[x]
  <1>1. NewCapa(form) \in Capa
    BY DEF NewCapa, Capa, CapaStatus, VerificationOutcome
  <1>2. /\ c \notin opened
        /\ opened' = opened \cup {c}
        /\ capas' = [x \in opened \cup {c} |-> IF x = c THEN NewCapa(form) ELSE capas[x]]
        /\ live_events' = live_events /\ blanked' = blanked
    BY DEF CreateCapa
  <1>3. capas' \in [opened' -> Capa]
    BY <1>1, <1>2 DEF TypeOK
  <1>4. TypeOK'
    BY <1>2, <1>3 DEF TypeOK
  <1>. QED  BY <1>2, <1>4

\* What a handler writes to a row: the form, the next stage, a verification,
\* a reopening or a cancellation.
Edit(old, row) == \E form \in Form : row = [old EXCEPT !.form = form]

Advance(old, row) ==
    \E status \in ALLOWED_TRANSITIONS[old.status] :
        /\ Gate(old.status, status, old.form)
        /\ row = [old EXCEPT !.status = status]

Verification(old, row) ==
    \E actor \in Users, outcome \in {"Effective", "Ineffective"} :
        /\ old.status = "Effectiveness_Check"
        /\ row = Verified(old, actor, outcome)

Reopening(old, row) ==
    old.status \in REOPENABLE_STATUSES /\ row = Reopened(old)

Cancellation(old, row) ==
    old.status \notin TERMINAL_STATUSES /\ row = [old EXCEPT !.status = "Cancelled"]

RowStep(old, row) ==
    \/ Edit(old, row)
    \/ Advance(old, row)
    \/ Verification(old, row)
    \/ Reopening(old, row)
    \/ Cancellation(old, row)

\* Every possible step: nothing happens to the CAPAs, one is opened, or one
\* row is replaced in one of those ways.
LEMMA Steps ==
    ASSUME TypeOK, [Next]_vars
    PROVE  \/ UNCHANGED <<opened, capas, blanked>> /\ TypeOK'
           \/ \E c \in Capas, form \in Form : CreateCapa(c, form)
           \/ \E c \in opened : \E row \in Capa : Save(c, row) /\ RowStep(capas[c], row)
  <1>. DEFINE Replaced == \E c \in opened :
                  \E row \in Capa : Save(c, row) /\ RowStep(capas[c], row)
  <1>1. CASE UNCHANGED vars
    BY <1>1 DEF vars, TypeOK
  <1>2. CASE \E e \in Events : DeleteEvent(e)
    BY <1>2 DEF DeleteEvent, TypeOK
  <1>3. ASSUME NEW c \in opened, NEW form \in Form, UpdateCapa(c, form)
        PROVE  Replaced
    <2>. DEFINE row == [capas[c] EXCEPT !.form = form]
    <2>1. row \in Capa
      BY DEF TypeOK, Capa
    <2>2. Edit(capas[c], row)
      BY <1>3 DEF UpdateCapa, Edit
    <2>3. Save(c, row)
      BY <1>3 DEF UpdateCapa
    <2>. HIDE DEF row
    <2>. QED  BY <2>1, <2>2, <2>3 DEF RowStep
  <1>4. ASSUME NEW c \in opened, NEW status \in CapaStatus, PatchStatus(c, status)
        PROVE  Replaced
    <2>. DEFINE row == [capas[c] EXCEPT !.status = status]
    <2>1. row \in Capa
      BY DEF TypeOK, Capa
    <2>2. Advance(capas[c], row)
      BY <1>4 DEF PatchStatus, StatusTransition, Advance
    <2>3. Save(c, row)
      BY <1>4 DEF PatchStatus, StatusTransition
    <2>. HIDE DEF row
    <2>. QED  BY <2>1, <2>2, <2>3 DEF RowStep
  <1>5. ASSUME NEW c \in opened, NEW actor \in Users, NEW outcome \in VerificationOutcome,
               VerifyCapa(c, actor, outcome)
        PROVE  Replaced
    <2>. DEFINE row == Verified(capas[c], actor, outcome)
    <2>0. outcome \in {"Effective", "Ineffective"}
      BY <1>5 DEF VerifyCapa, VerificationOutcome
    <2>1. row \in Capa
      BY DEF TypeOK, Capa, Verified, CapaStatus
    <2>2. Verification(capas[c], row)
      BY <1>5, <2>0 DEF VerifyCapa, CanVerify, Verification
    <2>3. Save(c, row)
      BY <1>5 DEF VerifyCapa
    <2>. HIDE DEF row
    <2>. QED  BY <2>1, <2>2, <2>3 DEF RowStep
  <1>6. ASSUME NEW c \in opened, ReopenCapa(c)
        PROVE  Replaced
    <2>1. Reopened(capas[c]) \in Capa
      BY DEF TypeOK, Capa, Reopened, CapaStatus, VerificationOutcome
    <2>2. Reopening(capas[c], Reopened(capas[c])) /\ Save(c, Reopened(capas[c]))
      BY <1>6 DEF ReopenCapa, Reopening
    <2>. QED  BY <2>1, <2>2 DEF RowStep
  <1>7. ASSUME NEW c \in opened, CancelCapa(c)
        PROVE  Replaced
    <2>. DEFINE row == [capas[c] EXCEPT !.status = "Cancelled"]
    <2>1. row \in Capa
      BY DEF TypeOK, Capa, CapaStatus
    <2>2. Cancellation(capas[c], row)
      BY <1>7 DEF CancelCapa, Cancel, Cancellation
    <2>3. Save(c, row)
      BY <1>7 DEF CancelCapa, Cancel
    <2>. HIDE DEF row
    <2>. QED  BY <2>1, <2>2, <2>3 DEF RowStep
  <1>8. ASSUME NEW c
        PROVE  /\ \A form : UpdateCapa(c, form) => c \in opened
               /\ \A status : PatchStatus(c, status) => c \in opened
               /\ \A actor, outcome : VerifyCapa(c, actor, outcome) => c \in opened
               /\ ReopenCapa(c) \/ CancelCapa(c) => c \in opened
    BY DEF CapaInOrg, UpdateCapa, PatchStatus, VerifyCapa, ReopenCapa, CancelCapa
  <1>. HIDE DEF Replaced
  <1>9. \/ \E e \in Events : DeleteEvent(e)
        \/ \E c \in Capas, form \in Form : CreateCapa(c, form)
        \/ Replaced
        \/ UNCHANGED vars
    BY <1>3, <1>4, <1>5, <1>6, <1>7, <1>8 DEF Next, CapaCreateSubmit
  <1>. QED  BY <1>1, <1>2, <1>9 DEF Replaced

----------------------------------------------------------------------------

LEMMA InitType == Init => TypeOK
  BY DEF Init, TypeOK

LEMMA StepType == TypeOK /\ [Next]_vars => TypeOK'
  BY Steps, CreateRow, SaveRow

\* The tables keep their types.
THEOREM TypeCorrect == Spec => []TypeOK
  BY InitType, StepType, PTL DEF Spec

----------------------------------------------------------------------------
(* The verification on record *)

\* The verification on record belongs to the status of the row.
Belongs(capa) ==
    /\ capa.status = "Closed" =>
          /\ capa.verification_outcome = "Effective"
          /\ capa.verification_date = TRUE /\ capa.verified_by # NoUser
    /\ capa.status = "Failed_Effectiveness" =>
          /\ capa.verification_outcome = "Ineffective"
          /\ capa.verification_date = TRUE /\ capa.verified_by # NoUser
    /\ capa.status \notin {"Closed", "Failed_Effectiveness"} =>
          /\ capa.verification_outcome = "Pending"
          /\ capa.verification_date = FALSE /\ capa.verified_by = NoUser

LEMMA BelongsEverywhere ==
    ASSUME TypeOK
    PROVE  OutcomeMatchesStatus <=> \A c \in opened : Belongs(capas[c])
  <1>1. \A c \in opened : capas[c] \in Capa
    BY DEF TypeOK
  <1>. QED  BY <1>1 DEF OutcomeMatchesStatus, Belongs, Capa

\* The transitions reach and leave no terminal status.
LEMMA Transitions ==
    ASSUME NEW from \in CapaStatus, NEW to \in ALLOWED_TRANSITIONS[from]
    PROVE  /\ to \in {"Investigation", "Action_Plan", "Implementation",
                      "Effectiveness_Check"}
           /\ from \notin TERMINAL_STATUSES
  BY DEF ALLOWED_TRANSITIONS, CapaStatus, TERMINAL_STATUSES

LEMMA RowStepBelongs ==
    ASSUME NEW old \in Capa, NEW row \in Capa, Belongs(old), RowStep(old, row)
    PROVE  Belongs(row)
  <1>1. CASE Edit(old, row)
    <2>1. /\ row.status = old.status
          /\ row.verification_outcome = old.verification_outcome
          /\ row.verification_date = old.verification_date
          /\ row.verified_by = old.verified_by
      BY <1>1 DEF Edit, Capa
    <2>. QED  BY <2>1 DEF Belongs
  <1>2. CASE Advance(old, row)
    <2>1. /\ row.status \in ALLOWED_TRANSITIONS[old.status]
          /\ old.status \in CapaStatus
          /\ row.verification_outcome = old.verification_outcome
          /\ row.verification_date = old.verification_date
          /\ row.verified_by = old.verified_by
      BY <1>2 DEF Advance, Capa
    <2>2. /\ row.status \notin {"Closed", "Failed_Effectiveness"}
          /\ old.status \notin {"Closed", "Failed_Effectiveness"}
      BY <2>1, Transitions DEF TERMINAL_STATUSES
    <2>. QED  BY <2>1, <2>2 DEF Belongs
  <1>3. CASE Verification(old, row)
    <2>1. PICK actor \in Users, outcome \in {"Effective", "Ineffective"} :
             row = Verified(old, actor, outcome)
      BY <1>3 DEF Verification
    <2>2. /\ row.verification_outcome = outcome
          /\ row.verification_date = TRUE
          /\ row.verified_by = actor
          /\ row.status = IF outcome = "Effective" THEN "Closed" ELSE "Failed_Effectiveness"
      BY <2>1 DEF Verified, Capa
    <2>. QED  BY <2>2, NoUserAssumption DEF Belongs
  <1>4. CASE Reopening(old, row)
    <2>1. /\ row.status = "Investigation"
          /\ row.verification_outcome = "Pending"
          /\ row.verification_date = FALSE
          /\ row.verified_by = NoUser
      BY <1>4 DEF Reopening, Reopened, Capa
    <2>. QED  BY <2>1 DEF Belongs
  <1>5. CASE Cancellation(old, row)
    <2>1. /\ row.status = "Cancelled"
          /\ row.verification_outcome = old.verification_outcome
          /\ row.verification_date = old.verification_date
          /\ row.verified_by = old.verified_by
          /\ old.status \notin {"Closed", "Failed_Effectiveness"}
      BY <1>5 DEF Cancellation, Capa, TERMINAL_STATUSES
    <2>. QED  BY <2>1 DEF Belongs
  <1>. QED  BY <1>1, <1>2, <1>3, <1>4, <1>5 DEF RowStep

LEMMA StepOutcome ==
    TypeOK /\ OutcomeMatchesStatus /\ [Next]_vars => OutcomeMatchesStatus'
  <1>. SUFFICES ASSUME TypeOK, OutcomeMatchesStatus, [Next]_vars
                PROVE  OutcomeMatchesStatus'
    OBVIOUS
  <1>1. TypeOK'
    BY StepType
  <1>2. \A c \in opened : Belongs(capas[c])
    BY BelongsEverywhere
  <1>3. \A c \in opened' : Belongs(capas'[c])
    <2>1. CASE opened' = opened /\ capas' = capas
      BY <1>2, <2>1
    <2>2. ASSUME NEW c \in Capas, NEW form \in Form, CreateCapa(c, form)
          PROVE  \A x \in opened' : Belongs(capas'[x])
      <3>1. Belongs(NewCapa(form))
        BY DEF Belongs, NewCapa
      <3>. QED  BY <1>2, <2>2, <3>1, CreateRow
    <2>3. ASSUME NEW c \in opened, NEW row \in Capa, Save(c, row), RowStep(capas[c], row)
          PROVE  \A x \in opened' : Belongs(capas'[x])
      <3>1. capas[c] \in Capa
        BY DEF TypeOK
      <3>2. Belongs(row)
        BY <1>2, <2>3, <3>1, RowStepBelongs
      <3>. QED  BY <1>2, <2>3, <3>2, SaveRow
    <2>. QED  BY <2>1, <2>2, <2>3, Steps
  <1>4. (TypeOK => (OutcomeMatchesStatus <=> \A c \in opened : Belongs(capas[c])))'
    BY BelongsEverywhere, PTL
  <1>. QED  BY <1>1, <1>3, <1>4

\* Closed means verified as effective, failed means verified as ineffective,
\* and at every other status no verification is on record.
THEOREM OutcomeOnRecord == Spec => []OutcomeMatchesStatus
  <1>1. Init => OutcomeMatchesStatus
    BY DEF Init, OutcomeMatchesStatus
  <1>. QED  BY <1>1, TypeCorrect, StepOutcome, PTL DEF Spec

----------------------------------------------------------------------------
(* Verdicts *)

LEMMA RowStepVerdict ==
    ASSUME NEW old \in Capa, NEW row \in Capa, RowStep(old, row),
           old.status \in TERMINAL_STATUSES
    PROVE  \/ /\ row.status = old.status
              /\ row.verification_outcome = old.verification_outcome
              /\ row.verification_date = old.verification_date
              /\ row.verified_by = old.verified_by
           \/ /\ old.status # "Cancelled"
              /\ row.status = "Investigation"
              /\ row.verification_outcome = "Pending"
              /\ row.verification_date = FALSE
              /\ row.verified_by = NoUser
  <1>1. CASE Edit(old, row)
    BY <1>1 DEF Edit, Capa
  <1>2. CASE Advance(old, row)
    <2>1. old.status \in CapaStatus /\ \E to \in ALLOWED_TRANSITIONS[old.status] : TRUE
      BY <1>2 DEF Advance, Capa
    <2>. QED  BY <2>1, Transitions
  <1>3. CASE Verification(old, row)
    BY <1>3 DEF Verification, TERMINAL_STATUSES
  <1>4. CASE Reopening(old, row)
    BY <1>4 DEF Reopening, Reopened, REOPENABLE_STATUSES, Capa
  <1>5. CASE Cancellation(old, row)
    BY <1>5 DEF Cancellation
  <1>. QED  BY <1>1, <1>2, <1>3, <1>4, <1>5 DEF RowStep

\* The step that VerdictStands allows a CAPA.
Stands(c) ==
    capas[c].status \in TERMINAL_STATUSES =>
        \/ <<capas'[c].status, capas'[c].verification_outcome,
             capas'[c].verification_date, capas'[c].verified_by>>
             = <<capas[c].status, capas[c].verification_outcome,
                 capas[c].verification_date, capas[c].verified_by>>
        \/ /\ capas[c].status # "Cancelled"
           /\ <<capas'[c].status, capas'[c].verification_outcome,
                capas'[c].verification_date, capas'[c].verified_by>>
                = <<"Investigation", "Pending", FALSE, NoUser>>

LEMMA StepVerdict ==
    ASSUME TypeOK, [Next]_vars
    PROVE  \A c \in opened : Stands(c)
  <1>1. CASE opened' = opened /\ capas' = capas
    BY <1>1 DEF Stands
  <1>2. ASSUME NEW c \in Capas, NEW form \in Form, CreateCapa(c, form)
        PROVE  \A x \in opened : Stands(x)
    BY <1>2, CreateRow DEF Stands
  <1>3. ASSUME NEW c \in opened, NEW row \in Capa, Save(c, row), RowStep(capas[c], row)
        PROVE  \A x \in opened : Stands(x)
    <2>1. capas[c] \in Capa
      BY DEF TypeOK
    <2>2. capas'[c] = row /\ \A x \in opened \ {c} : capas'[x] = capas[x]
      BY <1>3, SaveRow
    <2>3. Stands(c)
      BY <1>3, <2>1, <2>2, RowStepVerdict DEF Stands
    <2>. QED  BY <2>2, <2>3 DEF Stands
  <1>. QED  BY <1>1, <1>2, <1>3, Steps

\* A verdict stands until a reopening wipes all of it; a cancellation is final.
THEOREM VerdictsStand == Spec => VerdictStands
  <1>1. TypeOK /\ [Next]_vars =>
           [\A c \in opened :
              LET Verdict(capa) == <<capa.status, capa.verification_outcome,
                                     capa.verification_date, capa.verified_by>>
              IN  capas[c].status \in TERMINAL_STATUSES =>
                     \/ Verdict(capas'[c]) = Verdict(capas[c])
                     \/ /\ capas[c].status # "Cancelled"
                        /\ Verdict(capas'[c])
                             = <<"Investigation", "Pending", FALSE, NoUser>>]_vars
    BY StepVerdict DEF Stands
  <1>. QED  BY <1>1, TypeCorrect, PTL DEF Spec, VerdictStands

----------------------------------------------------------------------------
(* The record of a stage *)

Past(capa, stages) == capa.status \notin stages \cup {"Cancelled"}

\* The record that the gates on the way to the stage of the row ask for.
Recorded(capa) ==
    /\ Past(capa, {"Draft"}) => capa.form.initiating_cause \/ capa.form.events # {}
    /\ Past(capa, {"Draft", "Investigation"}) => capa.form.root_cause
    /\ Past(capa, {"Draft", "Investigation", "Action_Plan"}) =>
          capa.form.action /\ capa.form.due_date /\ capa.form.owner_id # NoUser

LEMMA RecordedEverywhere ==
    StagesHaveTheirRecord <=> \A c \in opened \ blanked : Recorded(capas[c])
  BY DEF StagesHaveTheirRecord, Recorded, Past

LEMMA RowStepRecorded ==
    ASSUME NEW old \in Capa, NEW row \in Capa, Recorded(old), RowStep(old, row),
           Extends(row.form, old.form)
    PROVE  Recorded(row)
  <1>1. CASE Edit(old, row)
    <2>1. PICK form \in Form : row = [old EXCEPT !.form = form]
      BY <1>1 DEF Edit
    <2>2. row.status = old.status /\ row.form = form
      BY <2>1 DEF Capa
    <2>3. /\ old.form.initiating_cause => form.initiating_cause
          /\ old.form.root_cause => form.root_cause
          /\ old.form.action => form.action
          /\ old.form.due_date => form.due_date
          /\ old.form.owner_id # NoUser => form.owner_id # NoUser
          /\ old.form.events # {} => form.events # {}
      BY <2>2 DEF Extends
    <2>. QED  BY <2>2, <2>3 DEF Recorded, Past
  <1>2. CASE Advance(old, row)
    <2>1. PICK status \in ALLOWED_TRANSITIONS[old.status] :
             Gate(old.status, status, old.form) /\ row = [old EXCEPT !.status = status]
      BY <1>2 DEF Advance
    <2>2. row.status = status /\ row.form = old.form /\ old.status \in CapaStatus
      BY <2>1, Transitions DEF Capa
    <2>3. \/ old.status = "Draft" /\ status = "Investigation"
          \/ old.status = "Investigation" /\ status = "Action_Plan"
          \/ old.status = "Action_Plan" /\ status \in {"Implementation", "Investigation"}
          \/ old.status = "Implementation" /\ status \in {"Effectiveness_Check", "Action_Plan"}
          \/ old.status = "Effectiveness_Check" /\ status = "Implementation"
      BY <2>2 DEF ALLOWED_TRANSITIONS, CapaStatus
    <2>. QED  BY <2>1, <2>2, <2>3 DEF Gate, Recorded, Past
  <1>3. CASE Verification(old, row)
    <2>1. old.status = "Effectiveness_Check" /\ row.form = old.form
      BY <1>3 DEF Verification, Verified, Capa
    <2>. QED  BY <2>1 DEF Recorded, Past
  <1>4. CASE Reopening(old, row)
    <2>1. /\ old.status \in {"Closed", "Failed_Effectiveness"}
          /\ row.status = "Investigation" /\ row.form = old.form
      BY <1>4 DEF Reopening, Reopened, REOPENABLE_STATUSES, Capa
    <2>. QED  BY <2>1 DEF Recorded, Past
  <1>5. CASE Cancellation(old, row)
    <2>1. row.status = "Cancelled"
      BY <1>5 DEF Cancellation, Capa
    <2>. QED  BY <2>1 DEF Recorded, Past
  <1>. QED  BY <1>1, <1>2, <1>3, <1>4, <1>5 DEF RowStep

LEMMA StepRecord ==
    TypeOK /\ StagesHaveTheirRecord /\ [Next]_vars => StagesHaveTheirRecord'
  <1>. SUFFICES ASSUME TypeOK, StagesHaveTheirRecord, [Next]_vars
                PROVE  StagesHaveTheirRecord'
    OBVIOUS
  <1>1. \A c \in opened \ blanked : Recorded(capas[c])
    BY RecordedEverywhere
  <1>2. \A c \in opened' \ blanked' : Recorded(capas'[c])
    <2>1. CASE UNCHANGED <<opened, capas, blanked>>
      BY <1>1, <2>1
    <2>2. ASSUME NEW c \in Capas, NEW form \in Form, CreateCapa(c, form)
          PROVE  \A x \in opened' \ blanked' : Recorded(capas'[x])
      <3>1. Recorded(NewCapa(form))
        BY DEF Recorded, Past, NewCapa
      <3>. QED  BY <1>1, <2>2, <3>1, CreateRow
    <2>3. ASSUME NEW c \in opened, NEW row \in Capa, Save(c, row), RowStep(capas[c], row)
          PROVE  \A x \in opened' \ blanked' : Recorded(capas'[x])
      <3>1. capas[c] \in Capa
        BY DEF TypeOK
      <3>2. /\ opened' = opened
            /\ blanked \subseteq blanked'
            /\ Extends(row.form, capas[c].form) \/ c \in blanked'
            /\ capas'[c] = row
            /\ \A x \in opened \ {c} : capas'[x] = capas[x]
        BY <2>3, SaveRow
      <3>3. c \notin blanked' => Recorded(row)
        BY <1>1, <2>3, <3>1, <3>2, RowStepRecorded
      <3>. QED  BY <1>1, <3>2, <3>3
    <2>. QED  BY <2>1, <2>2, <2>3, Steps
  <1>3. (StagesHaveTheirRecord <=> \A c \in opened \ blanked : Recorded(capas[c]))'
    BY RecordedEverywhere, PTL
  <1>. QED  BY <1>2, <1>3

\* A CAPA of which no edit has blanked a record has the record its stage
\* requires.
THEOREM RecordOfStages == Spec => []StagesHaveTheirRecord
  <1>1. Init => StagesHaveTheirRecord
    BY DEF Init, StagesHaveTheirRecord
  <1>. QED  BY <1>1, TypeCorrect, StepRecord, PTL DEF Spec

============================================================================
