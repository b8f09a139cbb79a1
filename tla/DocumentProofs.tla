--------------------------- MODULE DocumentProofs ---------------------------
(***************************************************************************)
(* What holds of documents for any users, documents, overlapping requests  *)
(* and number of versions: in one process (DocumentControl), in several    *)
(* (DocumentReplicas), and how the two are related.                        *)
(***************************************************************************)
EXTENDS DocumentControl, DocumentReplicas, SequenceTheorems, WellFoundedInduction, TLAPS

(***************************************************************************)
(* A non-empty set of naturals with an upper bound has a maximum.  The     *)
(* smallest of its upper bounds exists because < is well founded on Nat    *)
(* and is a member of the set.                                             *)
(***************************************************************************)
LEMMA MaxOfBounded ==
    ASSUME NEW S \in SUBSET Nat, S # {},
           NEW b \in Nat, \A x \in S : x <= b
    PROVE  Max(S) \in S /\ \A x \in S : x <= Max(S)
<1> DEFINE T == {n \in Nat : \A x \in S : x <= n}
           R == OpToRel(<, Nat)
<1>1. IsWellFoundedOn(R, Nat)
  BY NatLessThanWellFounded
<1>2. T # {} /\ T \subseteq Nat
  OBVIOUS
<1>3. PICK m \in T : \A n \in T : ~(<<n, m>> \in R)
  <2> HIDE DEF R, T
  <2> QED BY <1>1, <1>2, WFMin
<1>4. \A n \in T : ~(n < m)
  BY <1>2, <1>3 DEF OpToRel
<1>5. m \in S
  <2>1. SUFFICES ASSUME m \notin S PROVE FALSE
    OBVIOUS
  <2>2. \A x \in S : x < m
    BY <2>1
  <2>3. m \in Nat /\ m # 0
    <3>1. PICK x \in S : TRUE
      OBVIOUS
    <3>2. x \in Nat /\ x < m
      BY <2>2
    <3> QED BY <3>2
  <2>4. m - 1 \in Nat /\ \A x \in S : x <= m - 1
    BY <2>2, <2>3
  <2>5. m - 1 \in T
    BY <2>4
  <2> QED BY <2>3, <2>5, <1>4
<1>6. \A y \in S : m >= y
  OBVIOUS
<1> QED BY <1>5, <1>6 DEF Max

(***************************************************************************)
(* The elements of a sequence, indexed through its domain.                 *)
(***************************************************************************)
LEMMA ElementOf ==
    ASSUME NEW S, NEW s \in Seq(S), NEW i \in DOMAIN s
    PROVE  s[i] \in S /\ i \in Nat \ {0} /\ i <= Len(s)
<1>1. Len(s) \in Nat /\ DOMAIN s = 1..Len(s)
  OBVIOUS
<1> QED BY <1>1, ElementOfSeq

(***************************************************************************)
(* A sequence whose elements are rewritten in place, each within the same  *)
(* set, stays a sequence of the same length.                               *)
(***************************************************************************)
LEMMA RewriteSeq ==
    ASSUME NEW S, NEW s \in Seq(S), NEW t,
           t = [i \in DOMAIN s |-> t[i]], \A i \in DOMAIN s : t[i] \in S
    PROVE  t \in Seq(S) /\ Len(t) = Len(s) /\ DOMAIN t = DOMAIN s
<1>1. Len(s) \in Nat /\ DOMAIN s = 1..Len(s)
  OBVIOUS
<1>2. t \in [1..Len(s) -> S]
  BY <1>1
<1> QED BY <1>1, <1>2

(***************************************************************************)
(* Row operations keep rows well typed.                                    *)
(***************************************************************************)
LEMMA RowTypes ==
    ASSUME NEW v \in Version, NEW actor \in Users
    PROVE  /\ Submitted(v) \in Version
           /\ SignedOff(v, actor) \in Version
           /\ SentBack(v) \in Version
           /\ Retired(v) \in Version
           /\ [v EXCEPT !.status = "Effective", !.approved_by = actor] \in Version
           /\ [v EXCEPT !.status = "Obsolete"] \in Version
BY DEF Version, Submitted, SignedOff, SentBack, Retired, Statuses

LEMMA ApprovedType ==
    ASSUME NEW vs \in Seq(Version), NEW i \in DOMAIN vs, NEW actor \in Users
    PROVE  /\ Approved(vs, i, actor) \in Seq(Version)
           /\ Len(Approved(vs, i, actor)) = Len(vs)
           /\ DOMAIN Approved(vs, i, actor) = DOMAIN vs
<1> DEFINE t == Approved(vs, i, actor)
<1>1. t = [j \in DOMAIN vs |-> t[j]]
  BY DEF Approved
<1>2. ASSUME NEW j \in DOMAIN vs PROVE t[j] \in Version
  <2>1. vs[j] \in Version
    BY ElementOfSeq
  <2> QED BY <2>1, RowTypes DEF Approved
<1> HIDE DEF t
<1> QED BY <1>1, <1>2, RewriteSeq DEF t

(***************************************************************************)
(* The number of the next version is above those of all versions of the    *)
(* document, and small enough to bound the numbers by the number of rows.  *)
(***************************************************************************)
LEMMA NextNumber ==
    ASSUME NEW vs \in Seq(Version), NEW d \in Docs,
           \A i \in DOMAIN vs : vs[i].version_number <= Len(vs)
    PROVE  /\ NextVersionNumber(vs, d) \in Nat \ {0}
           /\ NextVersionNumber(vs, d) <= Len(vs) + 1
           /\ \A i \in VersionsOf(vs, d) : vs[i].version_number < NextVersionNumber(vs, d)
<1> DEFINE S == {0} \cup {vs[i].version_number : i \in VersionsOf(vs, d)}
<1>1. \A i \in DOMAIN vs : vs[i].version_number \in Nat
  <2>1. \A i \in DOMAIN vs : vs[i] \in Version
    BY ElementOf
  <2> QED BY <2>1 DEF Version
<1>2. S \subseteq Nat /\ S # {} /\ \A x \in S : x <= Len(vs)
  BY <1>1 DEF VersionsOf
<1>3. Max(S) \in S /\ \A x \in S : x <= Max(S)
  <2> DEFINE b == Len(vs)
  <2>1. b \in Nat /\ S \in SUBSET Nat /\ S # {} /\ \A x \in S : x <= b
    BY <1>2
  <2> HIDE DEF S, b
  <2> QED BY <2>1, MaxOfBounded
<1>4. \A i \in VersionsOf(vs, d) : vs[i].version_number \in S
  OBVIOUS
<1>5. NextVersionNumber(vs, d) = 1 + Max(S)
  BY DEF NextVersionNumber
<1>6. Max(S) \in Nat /\ Max(S) <= Len(vs) /\ Len(vs) \in Nat
  BY <1>2, <1>3
<1>7. \A i \in VersionsOf(vs, d) : vs[i].version_number \in Nat /\ vs[i].version_number <= Max(S)
  BY <1>1, <1>3, <1>4 DEF VersionsOf
<1> HIDE DEF S
<1> QED BY <1>5, <1>6, <1>7

----------------------------------------------------------------------------
(***************************************************************************)
(* Type correctness.  The number an upload computes is a natural because   *)
(* the numbers in the table are bounded, which is therefore part of the    *)
(* invariant.                                                              *)
(***************************************************************************)
NumbersBounded ==
    /\ \A i \in DOMAIN versions : versions[i].version_number <= Len(versions)
    /\ \A u \in uploads : u.version_number <= Len(versions) + 1

TypeInv == TypeOK /\ NumbersBounded

LEMMA AppendKeepsType ==
    ASSUME TypeInv, NEW d \in Docs, NEW user \in Users, NEW n \in Nat \ {0},
           n <= Len(versions) + 1, UNCHANGED <<registered, documents, spooled>>,
           uploads' \subseteq uploads,
           versions' = Append(versions, NewVersion(d, n, user))
    PROVE  TypeInv'
<1> DEFINE row == NewVersion(d, n, user)
<1>1. row \in Version /\ row.version_number = n
  BY DEF NewVersion, Version, Statuses
<1>2. versions \in Seq(Version)
  BY DEF TypeInv, TypeOK, TablesOK
<1> HIDE DEF row
<1>3. /\ versions' \in Seq(Version)
      /\ Len(versions') = Len(versions) + 1
      /\ \A i \in 1..Len(versions) : versions'[i] = versions[i]
      /\ versions'[Len(versions) + 1] = row
  BY <1>1, <1>2, AppendProperties DEF row
<1>4. TypeOK'
  BY <1>3 DEF TypeInv, TypeOK, TablesOK
<1>5. ASSUME NEW i \in DOMAIN versions'
      PROVE  versions'[i].version_number <= Len(versions')
  <2>1. i \in 1..Len(versions) \/ i = Len(versions) + 1
    BY <1>2, <1>3
  <2>2. CASE i \in 1..Len(versions)
    <3>1. i \in DOMAIN versions /\ versions[i] \in Version
      BY <1>2, <2>2, ElementOfSeq
    <3>2. versions[i].version_number \in Nat /\ versions[i].version_number <= Len(versions)
      BY <3>1 DEF TypeInv, NumbersBounded, Version
    <3> QED BY <1>2, <1>3, <2>2, <3>2
  <2>3. CASE i = Len(versions) + 1
    BY <1>1, <1>2, <1>3, <2>3
  <2> QED BY <2>1, <2>2, <2>3
<1>6. ASSUME NEW u \in uploads' PROVE u.version_number <= Len(versions') + 1
  <2>1. u.version_number \in Nat /\ u.version_number <= Len(versions) + 1
    BY DEF TypeInv, TypeOK, TablesOK, NumbersBounded, Upload
  <2> QED BY <1>2, <1>3, <2>1
<1> QED BY <1>4, <1>5, <1>6 DEF TypeInv, NumbersBounded

LEMMA RowUpdateKeepsType ==
    ASSUME TypeInv, NEW i \in DOMAIN versions, NEW row \in Version,
           row.version_number = versions[i].version_number,
           versions' = [versions EXCEPT ![i] = row],
           documents' \in [Docs -> Document], UNCHANGED <<registered, uploads, spooled>>
    PROVE  TypeInv'
<1>1. versions \in Seq(Version) /\ i \in 1..Len(versions)
  BY DEF TypeInv, TypeOK, TablesOK
<1>2. versions' \in Seq(Version) /\ Len(versions') = Len(versions)
  BY <1>1, ExceptSeq
<1>3. \A j \in 1..Len(versions) : versions'[j].version_number = versions[j].version_number
  BY <1>1
<1> QED BY <1>1, <1>2, <1>3 DEF TypeInv, TypeOK, TablesOK, NumbersBounded

\* What an approval or a retirement makes of the row of its document.
LEMMA DocumentChanges ==
    ASSUME NEW doc \in Document, NEW i \in Nat
    PROVE  DocumentApproved(doc, i) \in Document /\ DocumentRetired(doc, i) \in Document
  BY DEF Document, DocumentApproved, DocumentRetired

LEMMA TypeInit == Init => TypeInv
<1> SUFFICES ASSUME Init PROVE TypeInv
  OBVIOUS
<1>1. versions \in Seq(Version) /\ DOMAIN versions = {}
  BY EmptySeq DEF Init, EmptyTables
<1>2. documents \in [Docs -> Document]
  BY DEF Init, EmptyTables, NewDocument, Document
<1> QED BY <1>1, <1>2 DEF Init, EmptyTables, TypeInv, TypeOK, TablesOK, NumbersBounded

LEMMA TypeStep == TypeInv /\ [Next]_vars => TypeInv'
<1> SUFFICES ASSUME TypeInv, [Next]_vars PROVE TypeInv'
  OBVIOUS
<1> USE DEF TypeInv, TypeOK, TablesOK, NumbersBounded
<1>0. ASSUME NEW i \in DOMAIN versions
      PROVE  versions[i] \in Version /\ versions[i].document \in Docs
  <2>1. versions[i] \in Version
    BY ElementOf
  <2> QED BY <2>1 DEF Version
<1>1. ASSUME NEW d \in Docs, NEW review \in BOOLEAN, NEW retention \in BOOLEAN,
             CreateDocument(d, review, retention) \/ UpdateDocument(d, review, retention)
      PROVE  TypeInv'
  <2>1. documents' \in [Docs -> Document]
    <3>1. CASE CreateDocument(d, review, retention)
      BY <3>1 DEF CreateDocument, Insert, NewDocument, Document
    <3>2. CASE UpdateDocument(d, review, retention)
      BY <3>2 DEF UpdateDocument, Document
    <3> QED BY <1>1, <3>1, <3>2
  <2> QED BY <1>1, <2>1 DEF CreateDocument, Insert, UpdateDocument
<1>2. ASSUME NEW d \in Docs, DeleteDocument(d) PROVE TypeInv'
  BY <1>2 DEF DeleteDocument, Document
<1>3. ASSUME NEW d \in Docs, NEW user \in Users, CreateVersion(d, user)
      PROVE  TypeInv'
  <2>1. NextVersionNumber(versions, d) \in Nat \ {0}
        /\ NextVersionNumber(versions, d) <= Len(versions) + 1
    BY NextNumber
  <2> QED BY <1>3, <2>1, AppendKeepsType DEF CreateVersion
<1>4. ASSUME NEW r \in Requests, NEW d \in Docs, NEW user \in Users,
             BeginUpload(r, d, user)
      PROVE  TypeInv'
  <2>1. NextVersionNumber(versions, d) \in Nat \ {0}
        /\ NextVersionNumber(versions, d) <= Len(versions) + 1
    BY NextNumber
  <2> QED BY <1>4, <2>1 DEF BeginUpload, Upload
<1>5. ASSUME NEW u \in uploads, FinishUpload(u) PROVE TypeInv'
  <2>1. u.document \in Docs /\ u.author \in Users /\ u.version_number \in Nat \ {0}
        /\ u.version_number <= Len(versions) + 1
    BY DEF Upload
  <2> QED BY <1>5, <2>1, AppendKeepsType DEF FinishUpload
<1>6. ASSUME NEW u \in uploads, FailUpload(u) PROVE TypeInv'
  BY <1>6 DEF FailUpload
<1>7. ASSUME NEW i \in DOMAIN versions, SubmitVersion(i) PROVE TypeInv'
  <2>1. Submitted(versions[i]) \in Version
        /\ Submitted(versions[i]).version_number = versions[i].version_number
    BY <1>0 DEF Submitted, Version, Statuses
  <2> QED BY <1>7, <2>1, RowUpdateKeepsType DEF SubmitVersion
<1>8. ASSUME NEW i \in DOMAIN versions, NEW actor \in Users, ReviewVersion(i, actor)
      PROVE  TypeInv'
  <2>1. SignedOff(versions[i], actor) \in Version
        /\ SignedOff(versions[i], actor).version_number = versions[i].version_number
    BY <1>0 DEF SignedOff, Version, Statuses
  <2> QED BY <1>8, <2>1, RowUpdateKeepsType DEF ReviewVersion
<1>9. ASSUME NEW i \in DOMAIN versions, NEW actor \in Users, RejectVersion(i, actor)
      PROVE  TypeInv'
  <2>1. SentBack(versions[i]) \in Version
        /\ SentBack(versions[i]).version_number = versions[i].version_number
    BY <1>0 DEF SentBack, Version, Statuses
  <2> QED BY <1>9, <2>1, RowUpdateKeepsType DEF RejectVersion
<1>10. ASSUME NEW i \in DOMAIN versions, ObsoleteVersion(i) PROVE TypeInv'
  <2>1. Retired(versions[i]) \in Version
        /\ Retired(versions[i]).version_number = versions[i].version_number
    BY <1>0 DEF Retired, Version, Statuses
  <2>2. i \in Nat
    OBVIOUS
  <2>3. documents' \in [Docs -> Document]
    <3>1. DocumentRetired(documents[versions[i].document], i) \in Document
      BY <1>0, <2>2, DocumentChanges
    <3> QED BY <1>0, <1>10, <3>1 DEF ObsoleteVersion
  <2> QED BY <1>10, <2>1, <2>3, RowUpdateKeepsType DEF ObsoleteVersion
<1>11. ASSUME NEW i \in DOMAIN versions, NEW actor \in Users, ApproveVersion(i, actor)
       PROVE  TypeInv'
  <2>1. versions' \in Seq(Version) /\ Len(versions') = Len(versions)
        /\ DOMAIN versions' = DOMAIN versions
    BY <1>11, ApprovedType DEF ApproveVersion
  <2>2. \A j \in DOMAIN versions : versions'[j].version_number = versions[j].version_number
    BY <1>0, <1>11 DEF ApproveVersion, Approved, Version
  <2>3. i \in Nat
    OBVIOUS
  <2>4. documents' \in [Docs -> Document]
    <3>1. DocumentApproved(documents[versions[i].document], i) \in Document
      BY <1>0, <2>3, DocumentChanges
    <3> QED BY <1>0, <1>11, <3>1 DEF ApproveVersion
  <2> QED BY <1>11, <2>1, <2>2, <2>4 DEF ApproveVersion
<1>12. CASE UNCHANGED vars
  BY <1>12 DEF vars
<1> QED
  BY <1>1, <1>2, <1>3, <1>4, <1>5, <1>6, <1>7, <1>8, <1>9, <1>10, <1>11, <1>12
     DEF Next, DocumentCreateSubmit, DocumentEditSubmit

(***************************************************************************)
(* The tables keep their types whatever handlers overlap (TypeOK).         *)
(***************************************************************************)
THEOREM TypeCorrect == Spec => []TypeOK
<1>1. TypeInv => TypeOK
  BY DEF TypeInv
<1> QED BY <1>1, TypeInit, TypeStep, PTL DEF Spec

----------------------------------------------------------------------------
(***************************************************************************)
(* Every step treats every row on its own: a row in the table stays as it  *)
(* is or undergoes one workflow operation whose guard it satisfies, and a  *)
(* row that was not in the table is a fresh draft.                         *)
(***************************************************************************)
RowStep(v, w) ==
    \/ w = v
    \/ CanSubmit(v) /\ w = Submitted(v)
    \/ \E actor \in Users : CanSignOff(v, actor) /\ w = SignedOff(v, actor)
    \/ \E actor \in Users :
          CanApprove(v, actor) /\ w = [v EXCEPT !.status = "Effective", !.approved_by = actor]
    \/ \E actor \in Users : CanReject(v, actor) /\ w = SentBack(v)
    \/ v.status = "Effective" /\ w = [v EXCEPT !.status = "Obsolete"]

RowsStep ==
    /\ DOMAIN versions \subseteq DOMAIN versions'
    /\ \A i \in DOMAIN versions : RowStep(versions[i], versions'[i])
    /\ \A i \in DOMAIN versions' \ DOMAIN versions :
          \E d \in Docs, n \in Nat \ {0}, user \in Users :
              versions'[i] = NewVersion(d, n, user)

LEMMA AppendIsRowsStep ==
    ASSUME TypeInv, NEW d \in Docs, NEW user \in Users, NEW n \in Nat \ {0},
           versions' = Append(versions, NewVersion(d, n, user))
    PROVE  /\ RowsStep
           /\ \A i \in DOMAIN versions : versions'[i] = versions[i]
           /\ \A i \in DOMAIN versions' \ DOMAIN versions :
                 versions'[i] = NewVersion(d, n, user)
<1> DEFINE row == NewVersion(d, n, user)
<1>1. versions \in Seq(Version) /\ row \in Version
  BY DEF TypeInv, TypeOK, TablesOK, NewVersion, Version, Statuses
<1> HIDE DEF row
<1>2. /\ versions' \in Seq(Version)
      /\ Len(versions') = Len(versions) + 1
      /\ \A i \in 1..Len(versions) : versions'[i] = versions[i]
      /\ versions'[Len(versions) + 1] = row
  BY <1>1, AppendProperties DEF row
<1>3. DOMAIN versions = 1..Len(versions) /\ DOMAIN versions' = 1..Len(versions')
      /\ Len(versions) \in Nat
  BY <1>1, <1>2
<1>4. DOMAIN versions \subseteq DOMAIN versions'
  BY <1>2, <1>3
<1>5. \A i \in DOMAIN versions : versions'[i] = versions[i]
  BY <1>2, <1>3
<1>6. \A i \in DOMAIN versions' \ DOMAIN versions : versions'[i] = row
  BY <1>2, <1>3
<1> QED BY <1>4, <1>5, <1>6 DEF RowsStep, RowStep, row

LEMMA UpdateIsRowsStep ==
    ASSUME NEW i \in DOMAIN versions, NEW row,
           versions' = [versions EXCEPT ![i] = row], RowStep(versions[i], row)
    PROVE  RowsStep
BY DEF RowsStep, RowStep

LEMMA EveryRowsStep == TypeInv /\ [Next]_vars => RowsStep
<1> SUFFICES ASSUME TypeInv, [Next]_vars PROVE RowsStep
  OBVIOUS
<1>1. ASSUME UNCHANGED versions PROVE RowsStep
  BY <1>1 DEF RowsStep, RowStep
<1>2. ASSUME NEW d \in Docs, NEW review \in BOOLEAN, NEW retention \in BOOLEAN,
             CreateDocument(d, review, retention) \/ UpdateDocument(d, review, retention)
      PROVE  RowsStep
  BY <1>1, <1>2 DEF CreateDocument, Insert, UpdateDocument
<1>3. ASSUME NEW d \in Docs, DeleteDocument(d) PROVE RowsStep
  BY <1>1, <1>3 DEF DeleteDocument
<1>4. ASSUME NEW d \in Docs, NEW user \in Users, CreateVersion(d, user) PROVE RowsStep
  <2>1. NextVersionNumber(versions, d) \in Nat \ {0}
    BY NextNumber DEF TypeInv, TypeOK, TablesOK, NumbersBounded
  <2> QED BY <1>4, <2>1, AppendIsRowsStep DEF CreateVersion
<1>5. ASSUME NEW r \in Requests, NEW d \in Docs, NEW user \in Users, BeginUpload(r, d, user)
      PROVE  RowsStep
  BY <1>1, <1>5 DEF BeginUpload
<1>6. ASSUME NEW u \in uploads, FinishUpload(u) PROVE RowsStep
  <2>1. u.document \in Docs /\ u.author \in Users /\ u.version_number \in Nat \ {0}
    BY DEF Upload, TypeInv, TypeOK, TablesOK
  <2> QED BY <1>6, <2>1, AppendIsRowsStep DEF FinishUpload
<1>7. ASSUME NEW u \in uploads, FailUpload(u) PROVE RowsStep
  BY <1>1, <1>7 DEF FailUpload
<1>8. ASSUME NEW i \in DOMAIN versions, SubmitVersion(i) PROVE RowsStep
  BY <1>8, UpdateIsRowsStep DEF SubmitVersion, RowStep
<1>9. ASSUME NEW i \in DOMAIN versions, NEW actor \in Users, ReviewVersion(i, actor)
      PROVE  RowsStep
  BY <1>9, UpdateIsRowsStep DEF ReviewVersion, RowStep
<1>10. ASSUME NEW i \in DOMAIN versions, NEW actor \in Users, RejectVersion(i, actor)
       PROVE  RowsStep
  BY <1>10, UpdateIsRowsStep DEF RejectVersion, RowStep
<1>11. ASSUME NEW i \in DOMAIN versions, ObsoleteVersion(i) PROVE RowsStep
  BY <1>11, UpdateIsRowsStep DEF ObsoleteVersion, CanObsolete, Retired, RowStep
<1>12. ASSUME NEW i \in DOMAIN versions, NEW actor \in Users, ApproveVersion(i, actor)
       PROVE  RowsStep
  <2>1. DOMAIN versions' = DOMAIN versions
    BY <1>12 DEF ApproveVersion, Approved
  <2>2. ASSUME NEW j \in DOMAIN versions PROVE RowStep(versions[j], versions'[j])
    BY <1>12 DEF ApproveVersion, Approved, RowStep, EffectiveOf
  <2> QED BY <2>1, <2>2 DEF RowsStep
<1>13. CASE UNCHANGED vars
  BY <1>1, <1>13 DEF vars
<1> QED
  BY <1>2, <1>3, <1>4, <1>5, <1>6, <1>7, <1>8, <1>9, <1>10, <1>11, <1>12, <1>13
     DEF Next, DocumentCreateSubmit, DocumentEditSubmit

----------------------------------------------------------------------------
(***************************************************************************)
(* Segregation of duties.                                                  *)
(***************************************************************************)
LEMMA DutiesStep ==
    TypeInv /\ TypeInv' /\ SegregationOfDuties /\ [Next]_vars => SegregationOfDuties'
<1> DEFINE Signed(v) ==
        /\ v.status \in {"Pending_Approval", "Effective", "Obsolete"} =>
              v.reviewed_by \in Users \ {v.author}
        /\ v.status \in {"Effective", "Obsolete"} =>
              v.approved_by \in Users \ {v.author, v.reviewed_by}
        /\ v.status \in InFlight => v.approved_by = NoUser
        /\ v.status \in {"Draft", "In_Review"} => v.reviewed_by = NoUser
<1>1. ASSUME NEW v \in Version, NEW w, RowStep(v, w), Signed(v)
      PROVE  Signed(w)
  <2>1. CASE w = v
    BY <1>1, <2>1
  <2>2. CASE CanSubmit(v) /\ w = Submitted(v)
    <3>1. v.status = "Draft"
      BY <2>2 DEF CanSubmit, ALLOWED_TRANSITIONS, Version
    <3> QED BY <1>1, <2>2, <3>1 DEF Submitted, Version, InFlight
  <2>3. ASSUME NEW actor \in Users, CanSignOff(v, actor), w = SignedOff(v, actor)
        PROVE  Signed(w)
    BY <1>1, <2>3 DEF CanSignOff, SignedOff, Version, InFlight
  <2>4. ASSUME NEW actor \in Users, CanApprove(v, actor),
               w = [v EXCEPT !.status = "Effective", !.approved_by = actor]
        PROVE  Signed(w)
    BY <1>1, <2>4 DEF CanApprove, Version, InFlight
  <2>5. ASSUME NEW actor \in Users, CanReject(v, actor), w = SentBack(v)
        PROVE  Signed(w)
    BY <1>1, <2>5 DEF CanReject, SentBack, Version, InFlight
  <2>6. CASE v.status = "Effective" /\ w = [v EXCEPT !.status = "Obsolete"]
    BY <1>1, <2>6 DEF Version, InFlight
  <2> QED BY <1>1, <2>1, <2>2, <2>3, <2>4, <2>5, <2>6 DEF RowStep
<1>2. \A d, n, user : Signed(NewVersion(d, n, user))
  BY DEF NewVersion, InFlight
<1>3. SegregationOfDuties <=> \A i \in DOMAIN versions : Signed(versions[i])
  BY DEF SegregationOfDuties
<1>4. SegregationOfDuties' <=> \A i \in DOMAIN versions' : Signed(versions'[i])
  BY DEF SegregationOfDuties
<1> HIDE DEF Signed
<1> SUFFICES ASSUME TypeInv, RowsStep, SegregationOfDuties, NEW i \in DOMAIN versions'
             PROVE  Signed(versions'[i])
  BY <1>4, EveryRowsStep
<1>5. CASE i \in DOMAIN versions
  <2>1. versions[i] \in Version
    BY <1>5, ElementOf DEF TypeInv, TypeOK, TablesOK
  <2> QED BY <1>1, <1>3, <1>5, <2>1 DEF RowsStep
<1>6. CASE i \notin DOMAIN versions
  BY <1>2, <1>6 DEF RowsStep
<1> QED BY <1>5, <1>6

(***************************************************************************)
(* Author, reviewer and approver of a version that came into force are     *)
(* three people, and a version sent back carries no earlier sign-off.      *)
(***************************************************************************)
THEOREM DutiesSegregated == Spec => []SegregationOfDuties
<1>1. Init => SegregationOfDuties
  BY DEF Init, EmptyTables, SegregationOfDuties
<1> QED BY <1>1, TypeInit, TypeStep, DutiesStep, PTL DEF Spec

----------------------------------------------------------------------------
(***************************************************************************)
(* One version in force.  Only an approval makes a version effective, and  *)
(* it leaves no other version of the document effective.                   *)
(***************************************************************************)
NoNewEffective ==
    \A i \in DOMAIN versions' :
        versions'[i].status = "Effective" =>
            /\ i \in DOMAIN versions
            /\ versions[i].status = "Effective"
            /\ versions'[i].document = versions[i].document

LEMMA OnlyApprovalIssues ==
    ASSUME TypeInv, [Next]_vars,
           \A i \in DOMAIN versions, actor \in Users : ~ApproveVersion(i, actor)
    PROVE  NoNewEffective
<1>0. ASSUME NEW i \in DOMAIN versions PROVE versions[i] \in Version
  BY ElementOf DEF TypeInv, TypeOK, TablesOK
<1>1. ASSUME UNCHANGED versions PROVE NoNewEffective
  BY <1>1 DEF NoNewEffective
<1>2. ASSUME NEW d \in Docs, NEW review \in BOOLEAN, NEW retention \in BOOLEAN,
             CreateDocument(d, review, retention) \/ UpdateDocument(d, review, retention)
      PROVE  NoNewEffective
  BY <1>1, <1>2 DEF CreateDocument, Insert, UpdateDocument
<1>3. ASSUME NEW d \in Docs, DeleteDocument(d) PROVE NoNewEffective
  BY <1>1, <1>3 DEF DeleteDocument
<1>4. ASSUME NEW d \in Docs, NEW user \in Users, CreateVersion(d, user)
      PROVE  NoNewEffective
  <2>1. NextVersionNumber(versions, d) \in Nat \ {0}
    BY NextNumber DEF TypeInv, TypeOK, TablesOK, NumbersBounded
  <2> QED BY <1>4, <2>1, AppendIsRowsStep DEF CreateVersion, NoNewEffective, NewVersion
<1>5. ASSUME NEW r \in Requests, NEW d \in Docs, NEW user \in Users, BeginUpload(r, d, user)
      PROVE  NoNewEffective
  BY <1>1, <1>5 DEF BeginUpload
<1>6. ASSUME NEW u \in uploads, FinishUpload(u) PROVE NoNewEffective
  <2>1. u.document \in Docs /\ u.author \in Users /\ u.version_number \in Nat \ {0}
    BY DEF Upload, TypeInv, TypeOK, TablesOK
  <2> QED BY <1>6, <2>1, AppendIsRowsStep DEF FinishUpload, NoNewEffective, NewVersion
<1>7. ASSUME NEW u \in uploads, FailUpload(u) PROVE NoNewEffective
  BY <1>1, <1>7 DEF FailUpload
<1>8. ASSUME NEW i \in DOMAIN versions, SubmitVersion(i) PROVE NoNewEffective
  BY <1>0, <1>8 DEF SubmitVersion, Submitted, Version, NoNewEffective
<1>9. ASSUME NEW i \in DOMAIN versions, NEW actor \in Users, ReviewVersion(i, actor)
      PROVE  NoNewEffective
  BY <1>0, <1>9 DEF ReviewVersion, SignedOff, Version, NoNewEffective
<1>10. ASSUME NEW i \in DOMAIN versions, NEW actor \in Users, RejectVersion(i, actor)
       PROVE  NoNewEffective
  BY <1>0, <1>10 DEF RejectVersion, SentBack, Version, NoNewEffective
<1>11. ASSUME NEW i \in DOMAIN versions, ObsoleteVersion(i) PROVE NoNewEffective
  BY <1>0, <1>11 DEF ObsoleteVersion, Retired, Version, NoNewEffective
<1>12. CASE UNCHANGED vars
  BY <1>1, <1>12 DEF vars
<1> QED
  BY <1>2, <1>3, <1>4, <1>5, <1>6, <1>7, <1>8, <1>9, <1>10, <1>11, <1>12
     DEF Next, DocumentCreateSubmit, DocumentEditSubmit

\* After an approval the version approved is the only one in force of its
\* document, and what is in force of other documents is what was.
LEMMA ApprovalSupersedes ==
    ASSUME TypeInv, NEW i \in DOMAIN versions, NEW actor \in Users, ApproveVersion(i, actor)
    PROVE  /\ DOMAIN versions' = DOMAIN versions
           /\ versions'[i].status = "Effective"
           /\ \A j \in DOMAIN versions :
                 /\ versions'[j].document = versions[j].document
                 /\ versions'[j].status = "Effective" =>
                       \/ j = i
                       \/ versions[j].document # versions[i].document
                          /\ versions[j].status = "Effective"
<1>1. DOMAIN versions' = DOMAIN versions
  BY DEF ApproveVersion, Approved
<1>2. \A j \in DOMAIN versions : versions[j] \in Version
  BY ElementOf DEF TypeInv, TypeOK, TablesOK
<1>3. versions'[i].status = "Effective"
  BY <1>2 DEF ApproveVersion, Approved, Version
<1>4. ASSUME NEW j \in DOMAIN versions
      PROVE  /\ versions'[j].document = versions[j].document
             /\ versions'[j].status = "Effective" =>
                   \/ j = i
                   \/ versions[j].document # versions[i].document
                      /\ versions[j].status = "Effective"
  BY <1>2 DEF ApproveVersion, Approved, Version, EffectiveOf, VersionsOf
<1> QED BY <1>1, <1>3, <1>4

LEMMA OneEffectiveStep ==
    TypeInv /\ AtMostOneEffective /\ [Next]_vars => AtMostOneEffective'
<1> SUFFICES ASSUME TypeInv, AtMostOneEffective, [Next]_vars PROVE AtMostOneEffective'
  OBVIOUS
<1>1. CASE \E i \in DOMAIN versions, actor \in Users : ApproveVersion(i, actor)
  BY <1>1, ApprovalSupersedes DEF AtMostOneEffective
<1>2. CASE \A i \in DOMAIN versions, actor \in Users : ~ApproveVersion(i, actor)
  BY <1>2, OnlyApprovalIssues DEF AtMostOneEffective, NoNewEffective
<1> QED BY <1>1, <1>2

(***************************************************************************)
(* At most one version of a document is in force, however many uploads of  *)
(* it overlap.                                                             *)
(***************************************************************************)
THEOREM OneEffective == Spec => []AtMostOneEffective
<1>1. Init => AtMostOneEffective
  BY DEF Init, EmptyTables, AtMostOneEffective
<1> QED BY <1>1, TypeInit, TypeStep, OneEffectiveStep, PTL DEF Spec

----------------------------------------------------------------------------
(***************************************************************************)
(* The clocks of a document.  An obsolescence stops the review and starts  *)
(* the retention of a document with nothing else in force, which is why    *)
(* AtMostOneEffective is part of the invariant.                            *)
(***************************************************************************)
Clocks == ReviewClockFollowsForce /\ RetentionClockRunsOnlyOutOfForce

LEMMA ClocksStep ==
    TypeInv /\ TypeInv' /\ AtMostOneEffective /\ Clocks /\ [Next]_vars => Clocks'
<1> SUFFICES ASSUME TypeInv, TypeInv', AtMostOneEffective, Clocks, [Next]_vars PROVE Clocks'
  OBVIOUS
<1> USE DEF Clocks, ReviewClockFollowsForce, RetentionClockRunsOnlyOutOfForce
<1>t. documents \in [Docs -> Document] /\ \A i \in DOMAIN versions : versions[i] \in Version
  BY ElementOf DEF TypeInv, TypeOK, TablesOK
<1>0. ASSUME \A d \in Docs : EffectiveOf(versions', d) = EffectiveOf(versions, d),
             \A d \in Docs :
                 /\ documents'[d].next_review \in {0, documents[d].next_review}
                 /\ documents'[d].retention_until \in {0, documents[d].retention_until}
      PROVE  Clocks'
  BY <1>0
<1>1. ASSUME NEW d \in Docs, NEW review \in BOOLEAN, NEW retention \in BOOLEAN,
             CreateDocument(d, review, retention) \/ UpdateDocument(d, review, retention)
      PROVE  Clocks'
  <2>1. \A e \in Docs :
          /\ documents'[e].next_review \in {0, documents[e].next_review}
          /\ documents'[e].retention_until \in {0, documents[e].retention_until}
    BY <1>t, <1>1 DEF CreateDocument, Insert, UpdateDocument, NewDocument, Document
  <2>2. versions' = versions
    BY <1>1 DEF CreateDocument, Insert, UpdateDocument
  <2> QED BY <1>0, <2>1, <2>2
<1>2. ASSUME NEW d \in Docs, DeleteDocument(d) PROVE Clocks'
  <2>1. \A e \in Docs :
          /\ documents'[e].next_review = documents[e].next_review
          /\ documents'[e].retention_until = documents[e].retention_until
    BY <1>t, <1>2 DEF DeleteDocument, Document
  <2>2. versions' = versions
    BY <1>2 DEF DeleteDocument
  <2> QED BY <1>0, <2>1, <2>2
<1>3. ASSUME UNCHANGED documents,
             \A d \in Docs : EffectiveOf(versions', d) = EffectiveOf(versions, d)
      PROVE  Clocks'
  BY <1>3
<1>4. ASSUME NEW d \in Docs, NEW user \in Users, NEW n \in Nat \ {0},
             versions' = Append(versions, NewVersion(d, n, user))
      PROVE  \A e \in Docs : EffectiveOf(versions', e) = EffectiveOf(versions, e)
  <2>1. /\ DOMAIN versions \subseteq DOMAIN versions'
        /\ \A i \in DOMAIN versions : versions'[i] = versions[i]
        /\ \A i \in DOMAIN versions' \ DOMAIN versions : versions'[i].status = "Draft"
    BY <1>4, AppendIsRowsStep DEF RowsStep, NewVersion
  <2> QED BY <2>1 DEF EffectiveOf, VersionsOf
<1>5. ASSUME NEW d \in Docs, NEW user \in Users, CreateVersion(d, user) PROVE Clocks'
  <2>1. NextVersionNumber(versions, d) \in Nat \ {0}
    BY NextNumber DEF TypeInv, TypeOK, TablesOK, NumbersBounded
  <2> QED BY <1>3, <1>4, <1>5, <2>1 DEF CreateVersion
<1>6. ASSUME NEW r \in Requests, NEW d \in Docs, NEW user \in Users, BeginUpload(r, d, user)
      PROVE  Clocks'
  BY <1>3, <1>6 DEF BeginUpload
<1>7. ASSUME NEW u \in uploads, FinishUpload(u) PROVE Clocks'
  <2>1. u.document \in Docs /\ u.author \in Users /\ u.version_number \in Nat \ {0}
    BY DEF Upload, TypeInv, TypeOK, TablesOK
  <2> QED BY <1>3, <1>4, <1>7, <2>1 DEF FinishUpload
<1>8. ASSUME NEW u \in uploads, FailUpload(u) PROVE Clocks'
  BY <1>3, <1>8 DEF FailUpload
<1>9. ASSUME NEW i \in DOMAIN versions, NEW row \in Version,
             versions' = [versions EXCEPT ![i] = row], row.document = versions[i].document,
             row.status # "Effective", versions[i].status # "Effective"
      PROVE  \A e \in Docs : EffectiveOf(versions', e) = EffectiveOf(versions, e)
  BY <1>9 DEF EffectiveOf, VersionsOf
<1>10. ASSUME NEW i \in DOMAIN versions, SubmitVersion(i) PROVE Clocks'
  <2>1. Submitted(versions[i]) \in Version /\ versions[i].status # "Effective"
        /\ Submitted(versions[i]).document = versions[i].document
        /\ Submitted(versions[i]).status # "Effective"
    BY <1>t, <1>10 DEF SubmitVersion, CanSubmit, ALLOWED_TRANSITIONS, Submitted, Version, Statuses
  <2> QED BY <1>3, <1>9, <1>10, <2>1 DEF SubmitVersion
<1>11. ASSUME NEW i \in DOMAIN versions, NEW actor \in Users, ReviewVersion(i, actor)
       PROVE  Clocks'
  <2>1. SignedOff(versions[i], actor) \in Version /\ versions[i].status # "Effective"
        /\ SignedOff(versions[i], actor).document = versions[i].document
        /\ SignedOff(versions[i], actor).status # "Effective"
    BY <1>t, <1>11 DEF ReviewVersion, CanSignOff, SignedOff, Version, Statuses
  <2> QED BY <1>3, <1>9, <1>11, <2>1 DEF ReviewVersion
<1>12. ASSUME NEW i \in DOMAIN versions, NEW actor \in Users, RejectVersion(i, actor)
       PROVE  Clocks'
  <2>1. SentBack(versions[i]) \in Version /\ versions[i].status # "Effective"
        /\ SentBack(versions[i]).document = versions[i].document
        /\ SentBack(versions[i]).status # "Effective"
    BY <1>t, <1>12 DEF RejectVersion, CanReject, SentBack, Version, Statuses
  <2> QED BY <1>3, <1>9, <1>12, <2>1 DEF RejectVersion
<1>13. ASSUME NEW i \in DOMAIN versions, ObsoleteVersion(i) PROVE Clocks'
  <2> DEFINE d == versions[i].document
  <2>1. /\ DOMAIN versions' = DOMAIN versions
        /\ \A j \in DOMAIN versions : versions'[j].document = versions[j].document
        /\ versions'[i].status = "Obsolete"
        /\ \A j \in DOMAIN versions \ {i} : versions'[j] = versions[j]
    BY <1>t, <1>13 DEF ObsoleteVersion, Retired, Version
  <2>2. versions[i].status = "Effective" /\ d \in Docs
    BY <1>t, <1>13 DEF ObsoleteVersion, CanObsolete, Version
  <2>3. EffectiveOf(versions', d) = {}
    BY <2>1, <2>2 DEF EffectiveOf, VersionsOf, AtMostOneEffective
  <2>4. documents'[d].next_review = 0
    BY <1>t, <1>13, <2>2 DEF ObsoleteVersion, DocumentRetired, Document
  <2>5. ASSUME NEW e \in Docs, e # d
        PROVE  documents'[e] = documents[e] /\ EffectiveOf(versions', e) = EffectiveOf(versions, e)
    BY <1>t, <1>13, <2>1, <2>5 DEF ObsoleteVersion, EffectiveOf, VersionsOf
  <2> QED BY <2>3, <2>4, <2>5
<1>14. ASSUME NEW i \in DOMAIN versions, NEW actor \in Users, ApproveVersion(i, actor)
       PROVE  Clocks'
  <2> DEFINE d == versions[i].document
  <2>1. d \in Docs /\ i \in VersionsOf(versions, d)
    BY <1>t DEF Version, VersionsOf
  <2>2. documents'[d].retention_until = 0 /\ documents'[d].next_review \in {0, i}
    BY <1>t, <1>14, <2>1 DEF ApproveVersion, DocumentApproved, Document
  <2>3. i \in EffectiveOf(versions', d)
    BY <1>14, <2>1, ApprovalSupersedes DEF EffectiveOf, VersionsOf
  <2>4. ASSUME NEW e \in Docs, e # d
        PROVE  documents'[e] = documents[e] /\ EffectiveOf(versions', e) = EffectiveOf(versions, e)
    <3>0. documents' = [documents EXCEPT ![d] = DocumentApproved(documents[d], i)]
      BY <1>14 DEF ApproveVersion
    <3>1. documents'[e] = documents[e]
      BY <1>t, <2>4, <3>0
    <3>2. /\ DOMAIN versions' = DOMAIN versions
          /\ \A j \in DOMAIN versions :
                /\ versions'[j].document = versions[j].document
                /\ versions[j].document = e => versions'[j] = versions[j]
      BY <1>t, <1>14, <2>4, ApprovalSupersedes
         DEF ApproveVersion, Approved, EffectiveOf, VersionsOf
    <3> QED BY <3>1, <3>2 DEF EffectiveOf, VersionsOf
  <2> QED BY <2>2, <2>3, <2>4
<1>15. CASE UNCHANGED vars
  BY <1>3, <1>15 DEF vars
<1> QED
  BY <1>1, <1>2, <1>5, <1>6, <1>7, <1>8, <1>10, <1>11, <1>12, <1>13, <1>14, <1>15
     DEF Next, DocumentCreateSubmit, DocumentEditSubmit

LEMMA ClocksInvariant == Spec => []Clocks
<1>1. Init => AtMostOneEffective /\ Clocks
  BY DEF Init, EmptyTables, AtMostOneEffective, Clocks, ReviewClockFollowsForce,
         RetentionClockRunsOnlyOutOfForce, NewDocument
<1> QED BY <1>1, TypeInit, TypeStep, OneEffectiveStep, ClocksStep, PTL DEF Spec

(***************************************************************************)
(* A scheduled review is that of the version in force.                     *)
(***************************************************************************)
THEOREM ReviewFollowsForce == Spec => []ReviewClockFollowsForce
BY ClocksInvariant, PTL DEF Clocks

(***************************************************************************)
(* No document has its retention period running while a version of it is   *)
(* in force.                                                               *)
(***************************************************************************)
THEOREM RetentionOnlyOutOfForce == Spec => []RetentionClockRunsOnlyOutOfForce
BY ClocksInvariant, PTL DEF Clocks

----------------------------------------------------------------------------
(***************************************************************************)
(* Refinement of the register.  A step that neither approves nor obsoletes *)
(* a version leaves the rows that are or were effective alone.             *)
(***************************************************************************)
Issued == {EntryOf(i) : i \in WithStatus({"Effective", "Obsolete"})}

Withdrawn == WithStatus({"Obsolete"})

Quiet ==
    /\ DOMAIN versions \subseteq DOMAIN versions'
    /\ \A i \in DOMAIN versions :
          versions[i].status \in {"Effective", "Obsolete"} => versions'[i] = versions[i]
    /\ \A i \in DOMAIN versions' :
          versions'[i].status \in {"Effective", "Obsolete"} =>
              i \in DOMAIN versions /\ versions'[i] = versions[i]

LEMMA OtherStepsQuiet ==
    ASSUME TypeInv, [Next]_vars,
           \A i \in DOMAIN versions, actor \in Users : ~ApproveVersion(i, actor),
           \A i \in DOMAIN versions : ~ObsoleteVersion(i)
    PROVE  Quiet
<1>0. ASSUME NEW i \in DOMAIN versions PROVE versions[i] \in Version
  BY ElementOf DEF TypeInv, TypeOK, TablesOK
<1>1. ASSUME UNCHANGED versions PROVE Quiet
  BY <1>1 DEF Quiet
<1>2. ASSUME NEW d \in Docs, NEW user \in Users, NEW n \in Nat \ {0},
             versions' = Append(versions, NewVersion(d, n, user))
      PROVE  Quiet
  BY <1>2, AppendIsRowsStep DEF RowsStep, NewVersion, Quiet
<1>3. ASSUME NEW i \in DOMAIN versions, NEW row, versions' = [versions EXCEPT ![i] = row],
             versions[i].status \in InFlight, row.status \in InFlight
      PROVE  Quiet
  BY <1>3 DEF Quiet, InFlight
<1>4. ASSUME NEW d \in Docs, NEW user \in Users, CreateVersion(d, user) PROVE Quiet
  <2>1. NextVersionNumber(versions, d) \in Nat \ {0}
    BY NextNumber DEF TypeInv, TypeOK, TablesOK, NumbersBounded
  <2> QED BY <1>2, <1>4, <2>1 DEF CreateVersion
<1>5. ASSUME NEW u \in uploads, FinishUpload(u) PROVE Quiet
  <2>1. u.document \in Docs /\ u.author \in Users /\ u.version_number \in Nat \ {0}
    BY DEF Upload, TypeInv, TypeOK, TablesOK
  <2> QED BY <1>2, <1>5, <2>1 DEF FinishUpload
<1>6. ASSUME NEW i \in DOMAIN versions, SubmitVersion(i) PROVE Quiet
  BY <1>0, <1>3, <1>6
     DEF SubmitVersion, CanSubmit, ALLOWED_TRANSITIONS, Submitted, Version, Statuses, InFlight
<1>7. ASSUME NEW i \in DOMAIN versions, NEW actor \in Users, ReviewVersion(i, actor)
      PROVE  Quiet
  BY <1>0, <1>3, <1>7 DEF ReviewVersion, CanSignOff, SignedOff, Version, InFlight
<1>8. ASSUME NEW i \in DOMAIN versions, NEW actor \in Users, RejectVersion(i, actor)
      PROVE  Quiet
  BY <1>0, <1>3, <1>8 DEF RejectVersion, CanReject, SentBack, Version, InFlight
<1>9. ASSUME \/ \E d \in Docs, review, retention \in BOOLEAN :
                   \/ CreateDocument(d, review, retention)
                   \/ UpdateDocument(d, review, retention)
             \/ \E d \in Docs : DeleteDocument(d)
             \/ \E r \in Requests, d \in Docs, user \in Users : BeginUpload(r, d, user)
             \/ \E u \in uploads : FailUpload(u)
             \/ UNCHANGED vars
      PROVE  Quiet
  BY <1>1, <1>9
     DEF CreateDocument, Insert, UpdateDocument, DeleteDocument, BeginUpload, FailUpload, vars
<1> QED BY <1>4, <1>5, <1>6, <1>7, <1>8, <1>9 DEF Next, DocumentCreateSubmit, DocumentEditSubmit

LEMMA QuietStutters == ASSUME Quiet PROVE Issued' = Issued /\ Withdrawn' = Withdrawn
<1>1. WithStatus({"Effective", "Obsolete"})' = WithStatus({"Effective", "Obsolete"})
  BY DEF Quiet, WithStatus
<1>2. \A i \in WithStatus({"Effective", "Obsolete"}) : EntryOf(i)' = EntryOf(i)
  BY DEF Quiet, WithStatus, EntryOf
<1>3. Withdrawn' = Withdrawn
  BY DEF Quiet, WithStatus, Withdrawn
<1> QED BY <1>1, <1>2, <1>3 DEF Issued

LEMMA ObsoleteWithdraws ==
    ASSUME TypeInv, NEW i \in DOMAIN versions, ObsoleteVersion(i)
    PROVE  Register!Next
<1>1. /\ DOMAIN versions' = DOMAIN versions
      /\ \A j \in DOMAIN versions : j # i => versions'[j] = versions[j]
      /\ versions[i].status = "Effective"
      /\ versions'[i] = [versions[i] EXCEPT !.status = "Obsolete"]
  BY DEF ObsoleteVersion, CanObsolete, Retired
<1>2. versions[i] \in Version
  BY ElementOf DEF TypeInv, TypeOK, TablesOK
<1>3. /\ versions'[i].status = "Obsolete"
      /\ versions'[i].document = versions[i].document
      /\ versions'[i].author = versions[i].author
      /\ versions'[i].reviewed_by = versions[i].reviewed_by
      /\ versions'[i].approved_by = versions[i].approved_by
  BY <1>1, <1>2 DEF Version
<1>4. WithStatus({"Effective", "Obsolete"})' = WithStatus({"Effective", "Obsolete"})
  BY <1>1, <1>3 DEF WithStatus
<1>5. \A j \in DOMAIN versions : EntryOf(j)' = EntryOf(j)
  BY <1>1, <1>3 DEF EntryOf
<1>6. Issued' = Issued
  BY <1>4, <1>5 DEF Issued, WithStatus
<1>7. Withdrawn' = Withdrawn \cup {i} /\ i \notin Withdrawn
  BY <1>1, <1>3 DEF Withdrawn, WithStatus
<1>8. EntryOf(i) \in Issued /\ EntryOf(i).version = i
  BY <1>1 DEF Issued, EntryOf, WithStatus
<1>9. Register!Withdraw(EntryOf(i))
  BY <1>6, <1>7, <1>8 DEF Register!Withdraw, Register!InForce, Issued, Withdrawn
<1> QED BY <1>8, <1>9 DEF Register!Next, Issued

LEMMA ApprovalIssues ==
    ASSUME TypeInv, SegregationOfDuties, NEW i \in DOMAIN versions, NEW actor \in Users,
           ApproveVersion(i, actor)
    PROVE  Register!Next
<1> DEFINE v == versions[i]
           d == versions[i].document
           e == EntryOf(i)'
<1>0. ASSUME NEW j \in DOMAIN versions PROVE versions[j] \in Version /\ j \in Nat
  BY ElementOf DEF TypeInv, TypeOK, TablesOK
<1>1. DOMAIN versions' = DOMAIN versions
  BY DEF ApproveVersion, Approved
<1>2. v.status = "Pending_Approval" /\ actor \notin {v.author, v.reviewed_by}
      /\ v.reviewed_by \in Users \ {v.author}
  BY DEF ApproveVersion, CanApprove, SegregationOfDuties
<1>3. /\ versions'[i].status = "Effective"
      /\ versions'[i].document = d
      /\ versions'[i].author = v.author
      /\ versions'[i].reviewed_by = v.reviewed_by
      /\ versions'[i].approved_by = actor
  BY <1>0 DEF ApproveVersion, Approved, Version
<1>4. ASSUME NEW j \in DOMAIN versions, j # i
      PROVE  /\ versions'[j].status =
                   IF versions[j].document = d /\ versions[j].status = "Effective"
                   THEN "Obsolete" ELSE versions[j].status
             /\ EntryOf(j)' = EntryOf(j)
  BY <1>0, <1>4 DEF ApproveVersion, Approved, EffectiveOf, VersionsOf, Version, EntryOf
<1>5. WithStatus({"Effective", "Obsolete"})' = WithStatus({"Effective", "Obsolete"}) \cup {i}
      /\ i \notin WithStatus({"Effective", "Obsolete"})
  BY <1>1, <1>2, <1>3, <1>4 DEF WithStatus
<1>6. Issued' = Issued \cup {e}
  <2>1. \A j \in WithStatus({"Effective", "Obsolete"}) : j # i /\ j \in DOMAIN versions
    BY <1>5 DEF WithStatus
  <2>2. \A j \in WithStatus({"Effective", "Obsolete"}) : EntryOf(j)' = EntryOf(j)
    BY <2>1, <1>4
  <2>3. Issued' = {EntryOf(j)' : j \in WithStatus({"Effective", "Obsolete"})'}
    BY DEF Issued
  <2> QED BY <1>5, <2>2, <2>3 DEF Issued
<1>7. \A f \in Issued : f.version # i
  BY <1>5 DEF Issued, EntryOf
<1>8. /\ e = [version |-> i, document |-> d, author |-> v.author,
               reviewer |-> v.reviewed_by, approver |-> actor]
      /\ e \in Register!Entry
  BY <1>0, <1>2, <1>3 DEF EntryOf, Register!Entry, Version
<1>9. Withdrawn' = Withdrawn \cup
          {f.version : f \in {f \in Issued : f.document = d /\ f.version \notin Withdrawn}}
  <2> DEFINE F == {f \in Issued : f.document = d /\ f.version \notin Withdrawn}
  <2>1. \A j \in DOMAIN versions :
          j \in {f.version : f \in F} <=>
              versions[j].document = d /\ versions[j].status = "Effective"
    <3> SUFFICES ASSUME NEW j \in DOMAIN versions
                 PROVE  j \in {f.version : f \in F} <=>
                            versions[j].document = d /\ versions[j].status = "Effective"
      OBVIOUS
    <3>1. ASSUME versions[j].document = d, versions[j].status = "Effective"
          PROVE  j \in {f.version : f \in F}
      <4>1. EntryOf(j) \in F /\ EntryOf(j).version = j
        BY <3>1 DEF Issued, Withdrawn, WithStatus, EntryOf
      <4> QED BY <4>1
    <3>2. ASSUME j \in {f.version : f \in F}
          PROVE  versions[j].document = d /\ versions[j].status = "Effective"
      <4>1. PICK f \in F : f.version = j
        BY <3>2
      <4>2. PICK k \in WithStatus({"Effective", "Obsolete"}) : f = EntryOf(k)
        BY DEF Issued
      <4>3. k = j /\ f.document = versions[j].document
        BY <4>1, <4>2 DEF EntryOf
      <4> QED BY <4>1, <4>2, <4>3 DEF Withdrawn, WithStatus
    <3> QED BY <3>1, <3>2
  <2>2. {f.version : f \in F} \subseteq DOMAIN versions
    BY DEF Issued, WithStatus, EntryOf
  <2>3. \A j \in DOMAIN versions :
          j \in Withdrawn' <=> j \in Withdrawn \/ j \in {f.version : f \in F}
    <3> HIDE DEF F
    <3> SUFFICES ASSUME NEW j \in DOMAIN versions
                 PROVE  j \in Withdrawn' <=> j \in Withdrawn \/ j \in {f.version : f \in F}
      OBVIOUS
    <3>1. CASE j = i
      BY <1>1, <1>2, <1>3, <2>1, <3>1 DEF Withdrawn, WithStatus
    <3>2. CASE j # i
      BY <1>1, <1>4, <2>1, <3>2 DEF Withdrawn, WithStatus
    <3> QED BY <3>1, <3>2
  <2>4. Withdrawn \subseteq DOMAIN versions /\ Withdrawn' \subseteq DOMAIN versions
    BY <1>1 DEF Withdrawn, WithStatus
  <2> HIDE DEF F
  <2> QED BY <2>2, <2>3, <2>4 DEF F
<1>10. Register!Issue(e)
  BY <1>2, <1>6, <1>7, <1>8, <1>9
     DEF Register!Issue, Register!InForce, Issued, Withdrawn
<1>11. e \in Issued' \ Issued
  BY <1>6, <1>7, <1>8
<1> QED BY <1>8, <1>10, <1>11 DEF Register!Next, Issued

LEMMA RegisterStep ==
    TypeInv /\ SegregationOfDuties /\ [Next]_vars =>
        [Register!Next]_<<Issued, Withdrawn>>
<1> SUFFICES ASSUME TypeInv, SegregationOfDuties, [Next]_vars
             PROVE  [Register!Next]_<<Issued, Withdrawn>>
  OBVIOUS
<1>1. CASE \E i \in DOMAIN versions, actor \in Users : ApproveVersion(i, actor)
  BY <1>1, ApprovalIssues
<1>2. CASE \E i \in DOMAIN versions : ObsoleteVersion(i)
  BY <1>2, ObsoleteWithdraws
<1>3. CASE /\ \A i \in DOMAIN versions, actor \in Users : ~ApproveVersion(i, actor)
           /\ \A i \in DOMAIN versions : ~ObsoleteVersion(i)
  BY <1>3, OtherStepsQuiet, QuietStutters
<1> QED BY <1>1, <1>2, <1>3

(***************************************************************************)
(* Document control implements the register of issues: a version that came *)
(* into force keeps its three signatories for good and is withdrawn when   *)
(* the next one is issued or by an obsolescence, never otherwise.          *)
(***************************************************************************)
THEOREM ImplementsRegister == Spec => IsRegister
<1>1. Init => Register!Init
  BY DEF Init, EmptyTables, Register!Init, WithStatus, EntryOf
<1>2. Init => SegregationOfDuties
  BY DEF Init, EmptyTables, SegregationOfDuties
<1>3. TypeInv /\ SegregationOfDuties /\ [Next]_vars =>
        [Register!Next]_<<{EntryOf(i) : i \in WithStatus({"Effective", "Obsolete"})},
                          WithStatus({"Obsolete"})>>
  BY RegisterStep DEF Issued, Withdrawn
<1> QED
  BY <1>1, <1>2, <1>3, TypeInit, TypeStep, DutiesStep, PTL
     DEF Spec, IsRegister, Register!Spec

----------------------------------------------------------------------------
(***************************************************************************)
(* The order of revisions of a document of which no upload was suspended.  *)
(* A suspended upload carries a number that was computed before others     *)
(* were inserted, so that all of them have to be of spooled documents.     *)
(***************************************************************************)
OrderInv ==
    /\ RevisionsInOrder
    /\ \A u \in uploads : u.document \in spooled

\* A row keeps its document and its number; once out of the workflow it never
\* comes back into it, and only what waits for approval comes into force.
LEMMA RowKeepsOrder ==
    ASSUME NEW v \in Version, NEW w, RowStep(v, w)
    PROVE  /\ w.document = v.document /\ w.version_number = v.version_number
           /\ v.status \notin InFlight => w.status \notin InFlight
           /\ w.status = "Effective" /\ v.status # "Effective" => v.status \in InFlight
<1>1. CASE w = v
  BY <1>1
<1>2. CASE CanSubmit(v) /\ w = Submitted(v)
  BY <1>2 DEF CanSubmit, ALLOWED_TRANSITIONS, Submitted, Version, InFlight
<1>3. ASSUME NEW actor \in Users, CanSignOff(v, actor), w = SignedOff(v, actor)
      PROVE  /\ w.document = v.document /\ w.version_number = v.version_number
             /\ v.status \in InFlight /\ w.status # "Effective"
  BY <1>3 DEF CanSignOff, SignedOff, Version, InFlight
<1>4. ASSUME NEW actor \in Users, CanApprove(v, actor),
             w = [v EXCEPT !.status = "Effective", !.approved_by = actor]
      PROVE  /\ w.document = v.document /\ w.version_number = v.version_number
             /\ v.status \in InFlight
  BY <1>4 DEF CanApprove, Version, InFlight
<1>5. ASSUME NEW actor \in Users, CanReject(v, actor), w = SentBack(v)
      PROVE  /\ w.document = v.document /\ w.version_number = v.version_number
             /\ v.status \in InFlight /\ w.status # "Effective"
  BY <1>5 DEF CanReject, SentBack, Version, InFlight
<1>6. CASE v.status = "Effective" /\ w = [v EXCEPT !.status = "Obsolete"]
  BY <1>6 DEF Version, InFlight
<1> QED BY <1>1, <1>2, <1>3, <1>4, <1>5, <1>6 DEF RowStep

\* A row that is appended comes after the others of its document, if none of
\* them is in the workflow and its number is above theirs, or else the document
\* is on record as spooled.
LEMMA AppendKeepsOrder ==
    ASSUME TypeInv, RevisionsInOrder, NEW d \in Docs, NEW user \in Users, NEW n \in Nat \ {0},
           versions' = Append(versions, NewVersion(d, n, user)), spooled' = spooled,
           \/ d \in spooled
           \/ \A i \in VersionsOf(versions, d) : /\ versions[i].status \notin InFlight
                                                 /\ versions[i].version_number < n
    PROVE  RevisionsInOrder'
<1>1. /\ versions \in Seq(Version) /\ Len(versions) \in Nat
      /\ DOMAIN versions = 1 .. Len(versions)
  BY DEF TypeInv, TypeOK, TablesOK
<1>2. NewVersion(d, n, user) \in Version
  BY DEF NewVersion, Version, Statuses
<1>3. /\ DOMAIN versions' = 1 .. Len(versions) + 1
      /\ \A i \in DOMAIN versions : versions'[i] = versions[i]
      /\ versions'[Len(versions) + 1] = NewVersion(d, n, user)
  BY <1>1, <1>2, AppendProperties
<1>4. /\ NewVersion(d, n, user).document = d
      /\ NewVersion(d, n, user).version_number = n
  BY DEF NewVersion
<1> SUFFICES ASSUME NEW i \in DOMAIN versions', NEW j \in DOMAIN versions',
                    versions'[i].document = versions'[j].document,
                    versions'[i].document \notin spooled, i < j
             PROVE  /\ versions'[i].status \notin InFlight
                    /\ versions'[i].version_number < versions'[j].version_number
  BY DEF RevisionsInOrder
<1>5. i \in DOMAIN versions
  BY <1>1, <1>3
<1>6. CASE j \in DOMAIN versions
  BY <1>3, <1>5, <1>6 DEF RevisionsInOrder
<1>7. CASE j = Len(versions) + 1
  BY <1>3, <1>4, <1>5, <1>7 DEF VersionsOf
<1> QED BY <1>1, <1>3, <1>6, <1>7

\* Every step keeps the order.
LEMMA OrderStep == TypeInv /\ OrderInv /\ [Next]_vars => OrderInv'
<1> SUFFICES ASSUME TypeInv, OrderInv, [Next]_vars PROVE OrderInv'
  OBVIOUS
<1>0. \A i \in DOMAIN versions : versions[i] \in Version
  BY ElementOf DEF TypeInv, TypeOK, TablesOK
<1>1. ASSUME DOMAIN versions' = DOMAIN versions, uploads' \subseteq uploads,
             UNCHANGED spooled
      PROVE  OrderInv'
  <2>1. ASSUME NEW i \in DOMAIN versions
        PROVE  /\ versions'[i].document = versions[i].document
               /\ versions'[i].version_number = versions[i].version_number
               /\ versions[i].status \notin InFlight => versions'[i].status \notin InFlight
    BY <1>0, EveryRowsStep, RowKeepsOrder DEF RowsStep
  <2> QED BY <1>1, <2>1 DEF OrderInv, RevisionsInOrder
<1>2. ASSUME NEW d \in Docs, NEW user \in Users, CreateVersion(d, user) PROVE OrderInv'
  <2>1. /\ NextVersionNumber(versions, d) \in Nat \ {0}
        /\ \A i \in VersionsOf(versions, d) :
              versions[i].version_number < NextVersionNumber(versions, d)
    BY NextNumber DEF TypeInv, TypeOK, TablesOK, NumbersBounded
  <2>2. \A i \in VersionsOf(versions, d) : versions[i].status \notin InFlight
    BY <1>2 DEF CreateVersion, CanUpload, RevisionInProgress
  <2>3. UNCHANGED <<uploads, spooled>>
    BY <1>2 DEF CreateVersion
  <2>4. RevisionsInOrder'
    BY <1>2, <2>1, <2>2, <2>3, AppendKeepsOrder DEF CreateVersion, OrderInv
  <2> QED BY <2>3, <2>4 DEF OrderInv
<1>3. ASSUME NEW r \in Requests, NEW d \in Docs, NEW user \in Users, BeginUpload(r, d, user)
      PROVE  OrderInv'
  <2>1. versions' = versions /\ spooled' = spooled \cup {d}
    BY <1>3 DEF BeginUpload
  <2>2. \A u \in uploads' : u \in uploads \/ u.document = d
    BY <1>3 DEF BeginUpload
  <2> QED BY <2>1, <2>2 DEF OrderInv, RevisionsInOrder
<1>4. ASSUME NEW u \in uploads, FinishUpload(u) PROVE OrderInv'
  <2>1. /\ u.document \in Docs /\ u.author \in Users /\ u.version_number \in Nat \ {0}
        /\ u.document \in spooled
    BY DEF Upload, TypeInv, TypeOK, TablesOK, OrderInv
  <2>2. uploads' \subseteq uploads /\ UNCHANGED spooled
    BY <1>4 DEF FinishUpload
  <2>3. RevisionsInOrder'
    BY <1>4, <2>1, <2>2, AppendKeepsOrder DEF FinishUpload, OrderInv
  <2> QED BY <2>2, <2>3 DEF OrderInv
<1>5. ASSUME NEW i \in DOMAIN versions,
             \/ SubmitVersion(i) \/ ObsoleteVersion(i)
             \/ \E actor \in Users :
                   ReviewVersion(i, actor) \/ ApproveVersion(i, actor) \/ RejectVersion(i, actor)
      PROVE  OrderInv'
  <2>1. DOMAIN versions' = DOMAIN versions /\ UNCHANGED <<uploads, spooled>>
    BY <1>5 DEF SubmitVersion, ObsoleteVersion, ReviewVersion, ApproveVersion, RejectVersion,
                Approved
  <2> QED BY <1>1, <2>1
<1>6. ASSUME \/ UNCHANGED vars
             \/ \E u \in uploads : FailUpload(u)
             \/ \E d \in Docs :
                   \/ DeleteDocument(d)
                   \/ \E review, retention \in BOOLEAN :
                         CreateDocument(d, review, retention) \/ UpdateDocument(d, review, retention)
      PROVE  OrderInv'
  <2>1. UNCHANGED <<versions, spooled>> /\ uploads' \subseteq uploads
    BY <1>6 DEF vars, FailUpload, DeleteDocument, CreateDocument, Insert, UpdateDocument
  <2> QED BY <1>1, <2>1
<1> QED
  BY <1>2, <1>3, <1>4, <1>5, <1>6 DEF Next, DocumentCreateSubmit, DocumentEditSubmit

LEMMA OrderInvariant == Spec => []OrderInv
<1>1. Init => OrderInv
  BY DEF Init, EmptyTables, OrderInv, RevisionsInOrder
<1> QED BY <1>1, TypeInit, TypeStep, OrderStep, PTL DEF Spec

(***************************************************************************)
(* A document of which no upload was suspended has one revision in flight, *)
(* the last, and versions numbered in the order they were uploaded.        *)
(***************************************************************************)
THEOREM RevisionsStayInOrder == Spec => []RevisionsInOrder
BY OrderInvariant, PTL DEF OrderInv

(***************************************************************************)
(* Such a document never goes back to an older revision.                   *)
(***************************************************************************)
THEOREM NeverBackToOlder == Spec => NoReturnToOlderRevision
<1> DEFINE Forward ==
      \A i \in DOMAIN versions, j \in DOMAIN versions :
          /\ versions[i].status # "Effective" /\ versions'[i].status = "Effective"
          /\ versions[i].document = versions[j].document
          /\ versions[i].document \notin spooled
          /\ versions[j].status \in {"Effective", "Obsolete"}
          => versions[j].version_number < versions[i].version_number
<1>1. TypeInv /\ OrderInv /\ [Next]_vars => Forward
  <2> SUFFICES ASSUME TypeInv, OrderInv, [Next]_vars,
                      NEW i \in DOMAIN versions, NEW j \in DOMAIN versions,
                      versions[i].status # "Effective", versions'[i].status = "Effective",
                      versions[i].document = versions[j].document,
                      versions[i].document \notin spooled,
                      versions[j].status \in {"Effective", "Obsolete"}
               PROVE  versions[j].version_number < versions[i].version_number
    OBVIOUS
  <2>1. versions[i] \in Version /\ i \in Nat /\ j \in Nat
    BY ElementOf DEF TypeInv, TypeOK, TablesOK
  <2>2. versions[i].status \in InFlight
    BY <2>1, EveryRowsStep, RowKeepsOrder DEF RowsStep
  <2>3. i # j
    BY <2>2 DEF InFlight
  <2>4. ~(i < j)
    BY <2>2 DEF OrderInv, RevisionsInOrder
  <2>5. j < i
    BY <2>1, <2>3, <2>4
  <2> QED BY <2>5 DEF OrderInv, RevisionsInOrder
<1>2. TypeInv /\ OrderInv /\ [Next]_vars => [Forward]_vars
  BY <1>1
<1> QED BY <1>2, TypeInit, TypeStep, OrderInvariant, PTL DEF Spec, NoReturnToOlderRevision

----------------------------------------------------------------------------
(***************************************************************************)
(* Retirement.  A document goes out of force by an obsolescence only: an   *)
(* approval puts another version in force and nothing else disturbs what   *)
(* is effective.                                                           *)
(***************************************************************************)
Retirement ==
    \A d \in Docs :
        EffectiveOf(versions, d) # {} /\ EffectiveOf(versions', d) = {} =>
            /\ documents'[d].next_review = 0
            /\ documents'[d].retention_until \in
                  IF documents[d].retention_period THEN EffectiveOf(versions, d) ELSE {0}

\* What an obsolescence does to its own document and to the others.
LEMMA ObsoleteRetires ==
    ASSUME TypeInv, AtMostOneEffective, NEW i \in DOMAIN versions, ObsoleteVersion(i)
    PROVE  Retirement
<1> DEFINE d == versions[i].document
<1>1. documents \in [Docs -> Document] /\ \A j \in DOMAIN versions : versions[j] \in Version
  BY ElementOf DEF TypeInv, TypeOK, TablesOK
<1>2. d \in Docs /\ versions[i].status = "Effective"
  BY <1>1 DEF ObsoleteVersion, CanObsolete, Version
<1>3. /\ documents' = [documents EXCEPT ![d] = DocumentRetired(documents[d], i)]
      /\ versions' = [versions EXCEPT ![i] = Retired(versions[i])]
  BY DEF ObsoleteVersion
<1>4. EffectiveOf(versions, d) = {i}
  BY <1>2 DEF EffectiveOf, VersionsOf, AtMostOneEffective
<1>5. /\ documents'[d].next_review = 0
      /\ documents'[d].retention_until = IF documents[d].retention_period THEN i ELSE 0
  BY <1>1, <1>2, <1>3 DEF DocumentRetired, Document
<1>6. ASSUME NEW e \in Docs, e # d
      PROVE  EffectiveOf(versions, e) \subseteq EffectiveOf(versions', e)
  BY <1>1, <1>3, <1>6 DEF EffectiveOf, VersionsOf
<1> HIDE DEF d
<1> QED BY <1>4, <1>5, <1>6 DEF Retirement

\* Every step that leaves a document without a version in force starts the
\* retention that its policy asks for.
LEMMA RetirementStep == TypeInv /\ AtMostOneEffective /\ [Next]_vars => Retirement
<1> SUFFICES ASSUME TypeInv, AtMostOneEffective, [Next]_vars PROVE Retirement
  OBVIOUS
<1>1. CASE \E i \in DOMAIN versions : ObsoleteVersion(i)
  BY <1>1, ObsoleteRetires
<1>2. ASSUME NEW i \in DOMAIN versions, NEW actor \in Users, ApproveVersion(i, actor)
      PROVE  Retirement
  <2>1. ASSUME NEW d \in Docs, EffectiveOf(versions, d) # {}
        PROVE  EffectiveOf(versions', d) # {}
    <3>1. CASE d = versions[i].document
      <4>1. i \in EffectiveOf(versions', d)
        BY <1>2, <3>1, ApprovalSupersedes DEF EffectiveOf, VersionsOf
      <4> QED BY <4>1
    <3>2. CASE d # versions[i].document
      <4>1. PICK j \in EffectiveOf(versions, d) : TRUE
        BY <2>1
      <4>2. versions'[j] = versions[j] /\ DOMAIN versions' = DOMAIN versions
        BY <1>2, <3>2 DEF ApproveVersion, Approved, EffectiveOf, VersionsOf
      <4>3. j \in EffectiveOf(versions', d)
        BY <4>2 DEF EffectiveOf, VersionsOf
      <4> QED BY <4>3
    <3> QED BY <3>1, <3>2
  <2> QED BY <2>1 DEF Retirement
<1>3. CASE /\ \A i \in DOMAIN versions, actor \in Users : ~ApproveVersion(i, actor)
           /\ \A i \in DOMAIN versions : ~ObsoleteVersion(i)
  <2>1. Quiet
    BY <1>3, OtherStepsQuiet
  <2>2. \A d \in Docs : EffectiveOf(versions, d) \subseteq EffectiveOf(versions', d)
    BY <2>1 DEF Quiet, EffectiveOf, VersionsOf
  <2> QED BY <2>2 DEF Retirement
<1> QED BY <1>1, <1>2, <1>3

(***************************************************************************)
(* A document that goes out of force loses its date of review, and its     *)
(* retention period starts when its policy has one.                        *)
(***************************************************************************)
THEOREM RetirementRetains == Spec => RetirementStartsRetention
<1>1. Init => AtMostOneEffective
  BY DEF Init, EmptyTables, AtMostOneEffective
<1>2. TypeInv /\ AtMostOneEffective /\ [Next]_vars => [Retirement]_vars
  BY RetirementStep
<1> QED
  BY <1>1, <1>2, TypeInit, TypeStep, OneEffectiveStep, PTL
     DEF Spec, RetirementStartsRetention, Retirement

----------------------------------------------------------------------------
(***************************************************************************)
(* Several processes.  Everything a handler knows may be out of date by    *)
(* the time it commits, but for the authors: nobody ever writes that       *)
(* column, so a row as loaded, as written and as stored agree about it.    *)
(***************************************************************************)

\* Nobody signs for a version of his own.
OthersSign(v) == v.author \notin {v.reviewed_by, v.approved_by}

\* A table is a later state of another: it has its rows, by the same authors.
Later(new, old) ==
    /\ DOMAIN old \subseteq DOMAIN new
    /\ \A i \in DOMAIN old : new[i].author = old[i].author

\* What the next version number is computed from has a greatest element.
Bounded(vs) == \E b \in Nat : \A i \in DOMAIN vs : vs[i].version_number <= b

Sound(vs) ==
    /\ vs \in Seq(Version)
    /\ Bounded(vs)
    /\ \A i \in DOMAIN vs : OthersSign(vs[i])

\* What a handler has loaded is the table as it was, and what it will write is
\* a later state of that.
HandlersSound ==
    \A h \in handlers :
        /\ Sound(h.loaded.versions) /\ Sound(h.written.versions)
        /\ Later(versions, h.loaded.versions)
        /\ Later(h.written.versions, h.loaded.versions)

ReplicasInv == ReplicasTypeOK /\ Sound(versions) /\ HandlersSound

----------------------------------------------------------------------------
(* Tables *)

\* The rows of a table.
LEMMA Rows ==
    ASSUME NEW vs \in Seq(Version)
    PROVE  /\ Len(vs) \in Nat /\ DOMAIN vs = 1 .. Len(vs)
           /\ \A i \in DOMAIN vs :
                 /\ vs[i] \in Version
                 /\ vs[i].version_number \in Nat \ {0}
                 /\ vs[i].author \in Users /\ vs[i].document \in Docs
  <1>1. \A i \in DOMAIN vs : vs[i] \in Version
    BY ElementOfSeq
  <1>. QED  BY <1>1 DEF Version

\* Rows that are rewritten in place.
LEMMA RewriteRows ==
    ASSUME NEW vs \in Seq(Version), NEW new,
           new = [i \in DOMAIN vs |-> new[i]], \A i \in DOMAIN vs : new[i] \in Version
    PROVE  new \in Seq(Version) /\ DOMAIN new = DOMAIN vs
  <1>1. Len(vs) \in Nat /\ DOMAIN vs = 1 .. Len(vs)
    BY Rows
  <1>2. new \in [1 .. Len(vs) -> Version]
    BY <1>1
  <1>. QED  BY <1>1, <1>2

\* Version numbers are positive.
LEMMA NextNumberPositive ==
    ASSUME NEW vs \in Seq(Version), Bounded(vs), NEW d
    PROVE  NextVersionNumber(vs, d) \in Nat \ {0}
  <1>. DEFINE S == {0} \cup {vs[i].version_number : i \in VersionsOf(vs, d)}
  <1>1. S \in SUBSET Nat /\ S # {}
    BY Rows DEF VersionsOf
  <1>2. PICK b \in Nat : \A i \in DOMAIN vs : vs[i].version_number <= b
    BY DEF Bounded
  <1>3. NextVersionNumber(vs, d) = 1 + Max(S)
    BY DEF NextVersionNumber
  <1>4. \A x \in S : x <= b
    BY <1>2 DEF VersionsOf
  <1>. HIDE DEF S
  <1>5. Max(S) \in Nat
    BY <1>1, <1>2, <1>4, MaxOfBounded
  <1>. QED  BY <1>3, <1>5

\* The UPDATE of a version writes some of its columns.
LEMMA UpdatedVersion ==
    ASSUME NEW row \in Version, NEW loaded \in Version, NEW written \in Version,
           row.author = loaded.author, written.author = loaded.author,
           OthersSign(row), OthersSign(written)
    PROVE  /\ Updated(row, loaded, written) \in Version
           /\ Updated(row, loaded, written).author = row.author
           /\ Updated(row, loaded, written).version_number \in
                 {row.version_number, written.version_number}
           /\ OthersSign(Updated(row, loaded, written))
  <1>. DEFINE columns == {"document", "version_number", "status", "author",
                          "reviewed_by", "approved_by"}
              new == Updated(row, loaded, written)
  <1>1. new = [column \in columns |->
                  IF written[column] # loaded[column] THEN written[column] ELSE row[column]]
    BY DEF Updated, Version
  <1>2. new = [document |-> new.document, version_number |-> new.version_number,
               status |-> new.status, author |-> new.author,
               reviewed_by |-> new.reviewed_by, approved_by |-> new.approved_by]
    BY <1>1
  <1>3. /\ new.document \in {row.document, written.document}
        /\ new.version_number \in {row.version_number, written.version_number}
        /\ new.status \in {row.status, written.status}
        /\ new.author = row.author
        /\ new.reviewed_by \in {row.reviewed_by, written.reviewed_by}
        /\ new.approved_by \in {row.approved_by, written.approved_by}
    BY <1>1
  <1>4. /\ new.document \in Docs /\ new.version_number \in Nat \ {0}
        /\ new.status \in Statuses /\ new.author \in Users
        /\ new.reviewed_by \in Users \cup {NoUser}
        /\ new.approved_by \in Users \cup {NoUser}
    BY <1>3 DEF Version
  <1>. HIDE DEF new
  <1>5. new \in Version
    BY <1>2, <1>4 DEF Version
  <1>6. OthersSign(new)
    BY <1>3 DEF OthersSign
  <1>. QED  BY <1>3, <1>5, <1>6 DEF new

\* The UPDATE of a document writes some of its columns.
LEMMA UpdatedDocument ==
    ASSUME NEW row \in Document, NEW loaded \in Document, NEW written \in Document
    PROVE  Updated(row, loaded, written) \in Document
  <1>. DEFINE columns == {"is_active", "review_period", "retention_period",
                          "next_review", "retention_until"}
              new == Updated(row, loaded, written)
  <1>1. new = [column \in columns |->
                  IF written[column] # loaded[column] THEN written[column] ELSE row[column]]
    BY DEF Updated, Document
  <1>2. new = [is_active |-> new.is_active, review_period |-> new.review_period,
               retention_period |-> new.retention_period,
               next_review |-> new.next_review, retention_until |-> new.retention_until]
    BY <1>1
  <1>3. /\ new.is_active \in {row.is_active, written.is_active}
        /\ new.review_period \in {row.review_period, written.review_period}
        /\ new.retention_period \in {row.retention_period, written.retention_period}
        /\ new.next_review \in {row.next_review, written.next_review}
        /\ new.retention_until \in {row.retention_until, written.retention_until}
    BY <1>1
  <1>4. /\ new.is_active \in BOOLEAN /\ new.review_period \in BOOLEAN
        /\ new.retention_period \in BOOLEAN
        /\ new.next_review \in Nat /\ new.retention_until \in Nat
    BY <1>3 DEF Document
  <1>. HIDE DEF new
  <1>5. new \in Document
    BY <1>2, <1>4 DEF Document
  <1>. QED  BY <1>5 DEF new

----------------------------------------------------------------------------
(* What the handlers write *)

\* A handler that rewrites rows, without touching authors or numbers.
LEMMA RewriteSound ==
    ASSUME NEW vs, Sound(vs), NEW new,
           new = [i \in DOMAIN vs |-> new[i]],
           \A i \in DOMAIN vs :
              /\ new[i] \in Version /\ OthersSign(new[i])
              /\ new[i].author = vs[i].author
              /\ new[i].version_number = vs[i].version_number
    PROVE  Sound(new) /\ Later(new, vs)
  <1>1. new \in Seq(Version) /\ DOMAIN new = DOMAIN vs
    BY RewriteRows DEF Sound
  <1>. QED  BY <1>1 DEF Sound, Bounded, Later

\* A handler that rewrites one row.
LEMMA RewriteOne ==
    ASSUME NEW vs, Sound(vs), NEW i \in DOMAIN vs, NEW row \in Version, OthersSign(row),
           row.author = vs[i].author, row.version_number = vs[i].version_number
    PROVE  Sound([vs EXCEPT ![i] = row]) /\ Later([vs EXCEPT ![i] = row], vs)
  <1>. DEFINE new == [vs EXCEPT ![i] = row]
  <1>1. \A j \in DOMAIN vs : vs[j] \in Version /\ OthersSign(vs[j])
    BY Rows DEF Sound
  <1>2. /\ new = [j \in DOMAIN vs |-> new[j]]
        /\ \A j \in DOMAIN vs : new[j] = IF j = i THEN row ELSE vs[j]
    OBVIOUS
  <1>. HIDE DEF new
  <1>3. Sound(new) /\ Later(new, vs)
    BY <1>1, <1>2, RewriteSound
  <1>. QED  BY <1>3 DEF new

\* The rows that the functions of the workflow leave behind.
LEMMA RowsWritten ==
    ASSUME NEW v \in Version, OthersSign(v)
    PROVE  /\ \A row \in {Submitted(v), SentBack(v), Retired(v)} :
                 /\ row \in Version /\ OthersSign(row)
                 /\ row.author = v.author /\ row.version_number = v.version_number
           /\ \A actor \in Users \ {v.author} :
                 /\ SignedOff(v, actor) \in Version /\ OthersSign(SignedOff(v, actor))
                 /\ SignedOff(v, actor).author = v.author
                 /\ SignedOff(v, actor).version_number = v.version_number
  <1>1. /\ Submitted(v) \in Version /\ OthersSign(Submitted(v))
        /\ Submitted(v).author = v.author /\ Submitted(v).version_number = v.version_number
    BY DEF Version, Statuses, OthersSign, Submitted
  <1>2. /\ SentBack(v) \in Version /\ OthersSign(SentBack(v))
        /\ SentBack(v).author = v.author /\ SentBack(v).version_number = v.version_number
    BY NoUserAssumption DEF Version, Statuses, OthersSign, SentBack
  <1>3. /\ Retired(v) \in Version /\ OthersSign(Retired(v))
        /\ Retired(v).author = v.author /\ Retired(v).version_number = v.version_number
    BY DEF Version, Statuses, OthersSign, Retired
  <1>4. ASSUME NEW actor \in Users \ {v.author}
        PROVE  /\ SignedOff(v, actor) \in Version /\ OthersSign(SignedOff(v, actor))
               /\ SignedOff(v, actor).author = v.author
               /\ SignedOff(v, actor).version_number = v.version_number
    BY NoUserAssumption DEF Version, Statuses, OthersSign, SignedOff
  <1>. QED  BY <1>1, <1>2, <1>3, <1>4

\* An approval signs one row, for somebody other than its author, and retires
\* others.
LEMMA ApprovalSound ==
    ASSUME NEW vs, Sound(vs), NEW i \in DOMAIN vs, NEW actor \in Users,
           actor # vs[i].author
    PROVE  Sound(Approved(vs, i, actor)) /\ Later(Approved(vs, i, actor), vs)
  <1>. DEFINE new == Approved(vs, i, actor)
  <1>1. \A j \in DOMAIN vs : vs[j] \in Version /\ OthersSign(vs[j])
    BY Rows DEF Sound
  <1>2. /\ new = [j \in DOMAIN vs |-> new[j]]
        /\ \A j \in DOMAIN vs :
              new[j] = IF j = i
                       THEN [vs[j] EXCEPT !.status = "Effective", !.approved_by = actor]
                       ELSE IF j \in EffectiveOf(vs, vs[i].document)
                       THEN Retired(vs[j]) ELSE vs[j]
    BY DEF Approved, Retired
  <1>. HIDE DEF new
  <1>3. ASSUME NEW j \in DOMAIN vs
        PROVE  /\ new[j] \in Version /\ OthersSign(new[j])
               /\ new[j].author = vs[j].author
               /\ new[j].version_number = vs[j].version_number
    <2>1. CASE j = i
      <3>1. new[j] = [vs[j] EXCEPT !.status = "Effective", !.approved_by = actor]
        BY <1>2, <2>1
      <3>2. vs[j] \in Version /\ OthersSign(vs[j]) /\ actor # vs[j].author
        BY <1>1, <2>1
      <3>. QED  BY <3>1, <3>2, NoUserAssumption DEF Version, Statuses, OthersSign
    <2>2. CASE j # i
      <3>1. new[j] \in {Retired(vs[j]), vs[j]}
        BY <1>2, <2>2
      <3>. QED  BY <1>1, <3>1, RowsWritten
    <2>. QED  BY <2>1, <2>2
  <1>4. Sound(new) /\ Later(new, vs)
    BY <1>2, <1>3, RewriteSound
  <1>. QED  BY <1>4 DEF new

\* An upload adds a row that nobody has signed.
LEMMA UploadSound ==
    ASSUME NEW vs, Sound(vs), NEW d \in Docs, NEW user \in Users
    PROVE  LET new == Append(vs, NewVersion(d, NextVersionNumber(vs, d), user))
           IN  Sound(new) /\ Later(new, vs)
  <1>. DEFINE row == NewVersion(d, NextVersionNumber(vs, d), user)
              new == Append(vs, row)
  <1>1. row \in Version /\ OthersSign(row)
    BY NextNumberPositive, NoUserAssumption DEF Sound, NewVersion, Version, Statuses, OthersSign
  <1>2. /\ vs \in Seq(Version) /\ Len(vs) \in Nat /\ DOMAIN vs = 1 .. Len(vs)
        /\ \A i \in DOMAIN vs : vs[i].version_number \in Nat
    BY Rows DEF Sound
  <1>. HIDE DEF row
  <1>3. /\ new \in Seq(Version) /\ DOMAIN new = 1 .. Len(vs) + 1
        /\ \A i \in DOMAIN vs : new[i] = vs[i]
        /\ new[Len(vs) + 1] = row
    BY <1>1, <1>2, AppendProperties
  <1>. HIDE DEF new
  <1>4. \A i \in DOMAIN new : i \in DOMAIN vs \/ i = Len(vs) + 1
    BY <1>2, <1>3
  <1>5. Bounded(new)
    <2>1. PICK b \in Nat : \A i \in DOMAIN vs : vs[i].version_number <= b
      BY DEF Sound, Bounded
    <2>2. row.version_number \in Nat
      BY <1>1 DEF Version
    <2>3. \A i \in DOMAIN new : new[i].version_number <= b + row.version_number
      BY <1>2, <1>3, <1>4, <2>1, <2>2
    <2>4. b + row.version_number \in Nat
      BY <2>2
    <2>. QED  BY <2>3, <2>4 DEF Bounded
  <1>6. \A i \in DOMAIN new : OthersSign(new[i])
    BY <1>1, <1>3, <1>4 DEF Sound
  <1>7. Later(new, vs)
    BY <1>2, <1>3 DEF Later
  <1>. QED  BY <1>3, <1>5, <1>6, <1>7 DEF Sound, new, row

----------------------------------------------------------------------------
(* A handler begins *)

\* A handler that writes sound tables which are a later state of what it has
\* loaded keeps the invariant.
LEMMA Begins ==
    ASSUME ReplicasInv, NEW r \in Requests,
           NEW newDocuments \in [Docs -> Document], NEW newVersions,
           Sound(newVersions), Later(newVersions, versions),
           Handle(r, newDocuments, newVersions)
    PROVE  ReplicasInv'
  <1>. DEFINE h == [request |-> r,
                    loaded  |-> [documents |-> documents, versions |-> versions],
                    written |-> [documents |-> newDocuments, versions |-> newVersions]]
  <1>1. /\ handlers' = handlers \cup {h}
        /\ registered' = registered /\ documents' = documents /\ versions' = versions
    BY DEF Handle
  <1>2. /\ h \in [request : Requests, loaded : Tables, written : Tables]
        /\ h.loaded.versions = versions /\ h.written.versions = newVersions
    BY DEF ReplicasInv, ReplicasTypeOK, TablesOK, Tables, Sound
  <1>. HIDE DEF h
  <1>3. ReplicasTypeOK'
    BY <1>1, <1>2 DEF ReplicasInv, ReplicasTypeOK, TablesOK
  <1>4. Later(versions, versions)
    BY DEF Later
  <1>5. HandlersSound'
    BY <1>1, <1>2, <1>4 DEF ReplicasInv, HandlersSound
  <1>. QED  BY <1>1, <1>3, <1>5 DEF ReplicasInv

\* Every handler is one that writes sound tables.
LEMMA HandlersBegin ==
    ASSUME ReplicasInv, NEW r \in Requests,
           \/ \E d \in Docs :
                 \/ DeleteHandler(r, d)
                 \/ \E user \in Users : UploadHandler(r, d, user)
                 \/ \E review, retention \in BOOLEAN : EditHandler(r, d, review, retention)
           \/ \E i \in 1 .. MaxVersions :
                 \/ SubmitHandler(r, i)
                 \/ ObsoleteHandler(r, i)
                 \/ \E actor \in Users :
                       \/ ReviewHandler(r, i, actor)
                       \/ ApproveHandler(r, i, actor)
                       \/ RejectHandler(r, i, actor)
    PROVE  ReplicasInv'
  <1>0. /\ documents \in [Docs -> Document] /\ Sound(versions) /\ versions \in Seq(Version)
        /\ Later(versions, versions)
        /\ \A i \in DOMAIN versions : i \in Nat /\ versions[i] \in Version
                                       /\ OthersSign(versions[i]) /\ versions[i].document \in Docs
    <2>1. documents \in [Docs -> Document] /\ Sound(versions) /\ versions \in Seq(Version)
      BY DEF ReplicasInv, ReplicasTypeOK, TablesOK, Tables, Sound
    <2>2. \A i \in DOMAIN versions : i \in Nat /\ versions[i] \in Version
                                     /\ versions[i].document \in Docs
      BY <2>1, Rows
    <2>. QED  BY <2>1, <2>2 DEF Sound, Later
  <1>1. ASSUME NEW d \in Docs, DeleteHandler(r, d)  PROVE ReplicasInv'
    <2>1. [documents EXCEPT ![d].is_active = FALSE] \in [Docs -> Document]
      BY <1>0 DEF Document
    <2>. QED  BY <1>0, <1>1, <2>1, Begins DEF DeleteHandler
  <1>2. ASSUME NEW d \in Docs, NEW user \in Users, UploadHandler(r, d, user)  PROVE ReplicasInv'
    BY <1>0, <1>2, UploadSound, Begins DEF UploadHandler
  <1>3. ASSUME NEW d \in Docs, NEW review \in BOOLEAN, NEW retention \in BOOLEAN,
               EditHandler(r, d, review, retention)
        PROVE  ReplicasInv'
    <2>1. [documents EXCEPT ![d].review_period = review, ![d].retention_period = retention]
             \in [Docs -> Document]
      BY <1>0 DEF Document
    <2>. QED  BY <1>0, <1>3, <2>1, Begins DEF EditHandler
  <1>4. ASSUME NEW i, SubmitHandler(r, i)  PROVE ReplicasInv'
    <2>1. i \in DOMAIN versions /\ Handle(r, documents, [versions EXCEPT ![i] = Submitted(@)])
      BY <1>4 DEF SubmitHandler, VersionOr404
    <2>2. /\ Sound([versions EXCEPT ![i] = Submitted(versions[i])])
          /\ Later([versions EXCEPT ![i] = Submitted(versions[i])], versions)
      BY <1>0, <2>1, RowsWritten, RewriteOne
    <2>. QED  BY <1>0, <2>1, <2>2, Begins
  <1>5. ASSUME NEW i, ObsoleteHandler(r, i)  PROVE ReplicasInv'
    <2>. DEFINE d == versions[i].document
                newDocuments == [documents EXCEPT ![d] = DocumentRetired(documents[d], i)]
    <2>1. i \in DOMAIN versions /\ Handle(r, newDocuments, [versions EXCEPT ![i] = Retired(@)])
      BY <1>5 DEF ObsoleteHandler, VersionOr404
    <2>2. /\ Sound([versions EXCEPT ![i] = Retired(versions[i])])
          /\ Later([versions EXCEPT ![i] = Retired(versions[i])], versions)
      BY <1>0, <2>1, RowsWritten, RewriteOne
    <2>3. newDocuments \in [Docs -> Document]
      <3>1. d \in Docs => DocumentRetired(documents[d], i) \in Document
        BY <1>0, <2>1, DocumentChanges
      <3>. QED  BY <1>0, <3>1
    <2>. QED  BY <1>0, <2>1, <2>2, <2>3, Begins
  <1>6. ASSUME NEW i, NEW actor \in Users, ReviewHandler(r, i, actor)  PROVE ReplicasInv'
    <2>1. /\ i \in DOMAIN versions /\ actor # versions[i].author
          /\ Handle(r, documents, [versions EXCEPT ![i] = SignedOff(@, actor)])
      BY <1>6 DEF ReviewHandler, VersionOr404, CanSignOff
    <2>2. /\ Sound([versions EXCEPT ![i] = SignedOff(versions[i], actor)])
          /\ Later([versions EXCEPT ![i] = SignedOff(versions[i], actor)], versions)
      BY <1>0, <2>1, RowsWritten, RewriteOne
    <2>. QED  BY <1>0, <2>1, <2>2, Begins
  <1>7. ASSUME NEW i, NEW actor \in Users, ApproveHandler(r, i, actor)  PROVE ReplicasInv'
    <2>. DEFINE d == versions[i].document
                newDocuments == [documents EXCEPT ![d] = DocumentApproved(documents[d], i)]
    <2>1. /\ i \in DOMAIN versions /\ actor # versions[i].author
          /\ Handle(r, newDocuments, Approved(versions, i, actor))
      BY <1>7 DEF ApproveHandler, VersionOr404, CanApprove
    <2>2. Sound(Approved(versions, i, actor)) /\ Later(Approved(versions, i, actor), versions)
      BY <1>0, <2>1, ApprovalSound
    <2>3. newDocuments \in [Docs -> Document]
      <3>1. d \in Docs => DocumentApproved(documents[d], i) \in Document
        BY <1>0, <2>1, DocumentChanges
      <3>. QED  BY <1>0, <3>1
    <2>. QED  BY <1>0, <2>1, <2>2, <2>3, Begins
  <1>8. ASSUME NEW i, NEW actor \in Users, RejectHandler(r, i, actor)  PROVE ReplicasInv'
    <2>1. i \in DOMAIN versions /\ Handle(r, documents, [versions EXCEPT ![i] = SentBack(@)])
      BY <1>8 DEF RejectHandler, VersionOr404
    <2>2. /\ Sound([versions EXCEPT ![i] = SentBack(versions[i])])
          /\ Later([versions EXCEPT ![i] = SentBack(versions[i])], versions)
      BY <1>0, <2>1, RowsWritten, RewriteOne
    <2>. QED  BY <1>0, <2>1, <2>2, Begins
  <1>. QED  BY <1>1, <1>2, <1>3, <1>4, <1>5, <1>6, <1>7, <1>8

----------------------------------------------------------------------------
(* A handler commits *)

\* The rows that an INSERT adds to the table.
LEMMA Inserts ==
    ASSUME NEW old \in Seq(Version), NEW new \in Seq(Version), DOMAIN old \subseteq DOMAIN new
    PROVE  LET inserted == SubSeq(new, Len(old) + 1, Len(new))
           IN  /\ inserted \in Seq(Version)
               /\ \A j \in DOMAIN inserted : \E i \in DOMAIN new : inserted[j] = new[i]
  <1>. DEFINE inserted == SubSeq(new, Len(old) + 1, Len(new))
  <1>1. /\ Len(old) \in Nat /\ DOMAIN old = 1 .. Len(old)
        /\ Len(new) \in Nat /\ DOMAIN new = 1 .. Len(new)
        /\ \A i \in DOMAIN new : new[i] \in Version
    BY Rows
  <1>2. \A i \in (Len(old) + 1) .. Len(new) : new[i] \in Version
    BY <1>1
  <1>3. /\ inserted \in Seq(Version)
        /\ Len(inserted) = IF Len(old) + 1 <= Len(new) THEN Len(new) - (Len(old) + 1) + 1 ELSE 0
        /\ \A j \in 1 .. Len(new) - (Len(old) + 1) + 1 :
              inserted[j] = new[Len(old) + 1 + j - 1]
    <2>1. Len(old) + 1 \in Int /\ Len(new) \in Int
      BY <1>1
    <2>. QED  BY <1>2, <2>1, SubSeqProperties
  <1>4. DOMAIN inserted = 1 .. Len(inserted) /\ Len(inserted) \in Nat
    BY <1>3, Rows
  <1>. HIDE DEF inserted
  <1>5. ASSUME NEW j \in DOMAIN inserted  PROVE \E i \in DOMAIN new : inserted[j] = new[i]
    <2>. DEFINE o == Len(old)
                n == Len(new)
                k == Len(inserted)
    <2>1. /\ o \in Nat /\ n \in Nat /\ j \in 1 .. k
          /\ k = IF o + 1 <= n THEN n - (o + 1) + 1 ELSE 0
      BY <1>1, <1>3, <1>4
    <2>. HIDE DEF o, n, k
    <2>2. /\ j \in 1 .. n - (o + 1) + 1 /\ o + 1 + j - 1 \in 1 .. n
      BY <2>1
    <2>3. /\ inserted[j] = new[o + 1 + j - 1]
          /\ o + 1 + j - 1 \in DOMAIN new
      BY <1>1, <1>3, <2>2 DEF o, n
    <2>. QED  BY <2>3
  <1>. QED  BY <1>3, <1>5 DEF inserted

\* Sound tables, one after the other.
LEMMA ConcatSound ==
    ASSUME NEW vs, Sound(vs), NEW ws, Sound(ws)
    PROVE  Sound(vs \o ws) /\ Later(vs \o ws, vs)
  <1>. DEFINE new == vs \o ws
  <1>1. /\ vs \in Seq(Version) /\ Len(vs) \in Nat /\ DOMAIN vs = 1 .. Len(vs)
        /\ ws \in Seq(Version) /\ Len(ws) \in Nat /\ DOMAIN ws = 1 .. Len(ws)
        /\ \A i \in DOMAIN vs : vs[i].version_number \in Nat /\ OthersSign(vs[i])
        /\ \A i \in DOMAIN ws : ws[i].version_number \in Nat /\ OthersSign(ws[i])
    BY Rows DEF Sound
  <1>2. /\ new \in Seq(Version) /\ Len(new) = Len(vs) + Len(ws)
        /\ \A i \in 1 .. Len(vs) + Len(ws) :
              new[i] = IF i <= Len(vs) THEN vs[i] ELSE ws[i - Len(vs)]
    BY <1>1, ConcatProperties
  <1>3. DOMAIN new = 1 .. Len(vs) + Len(ws)
    BY <1>2, Rows
  <1>. HIDE DEF new
  <1>4. ASSUME NEW i \in DOMAIN new
        PROVE  \/ i \in DOMAIN vs /\ new[i] = vs[i]
               \/ \E j \in DOMAIN ws : new[i] = ws[j]
    <2>1. i \in Nat /\ 1 <= i /\ i <= Len(vs) + Len(ws)
      BY <1>1, <1>3
    <2>2. CASE i <= Len(vs)
      BY <1>1, <1>2, <1>3, <2>1, <2>2
    <2>3. CASE i > Len(vs)
      <3>1. i - Len(vs) \in DOMAIN ws
        BY <1>1, <2>1, <2>3
      <3>. QED  BY <1>1, <1>2, <1>3, <2>1, <2>3, <3>1
    <2>. QED  BY <1>1, <2>1, <2>2, <2>3
  <1>5. \A i \in DOMAIN new : OthersSign(new[i])
    BY <1>1, <1>4
  <1>6. Bounded(new)
    <2>1. PICK b \in Nat : \A i \in DOMAIN vs : vs[i].version_number <= b
      BY DEF Sound, Bounded
    <2>2. PICK c \in Nat : \A i \in DOMAIN ws : ws[i].version_number <= c
      BY DEF Sound, Bounded
    <2>3. b + c \in Nat
      OBVIOUS
    <2>4. \A i \in DOMAIN new : new[i].version_number <= b + c
      BY <1>1, <1>4, <2>1, <2>2
    <2>. QED  BY <2>3, <2>4 DEF Bounded
  <1>7. Later(new, vs)
    BY <1>1, <1>2, <1>3 DEF Later
  <1>. QED  BY <1>2, <1>5, <1>6, <1>7 DEF Sound, new

\* A later state of a later state is one.
LEMMA LaterTransitive ==
    ASSUME NEW vs, NEW ws, NEW xs, Later(xs, ws), Later(ws, vs)
    PROVE  Later(xs, vs)
  BY DEF Later

\* The UPDATEs of a commit.
LEMMA UpdatesSound ==
    ASSUME NEW vs, Sound(vs), NEW old, Sound(old), NEW new, Sound(new),
           Later(vs, old), Later(new, old), NEW rows,
           rows = [i \in DOMAIN vs |-> IF i \in DOMAIN old THEN Updated(vs[i], old[i], new[i])
                                                          ELSE vs[i]]
    PROVE  Sound(rows) /\ Later(rows, vs)
  <1>1. /\ \A i \in DOMAIN vs : vs[i] \in Version /\ OthersSign(vs[i])
        /\ \A i \in DOMAIN old : old[i] \in Version
        /\ \A i \in DOMAIN new : new[i] \in Version /\ OthersSign(new[i])
    BY Rows DEF Sound
  <1>2. ASSUME NEW i \in DOMAIN vs
        PROVE  /\ rows[i] \in Version /\ OthersSign(rows[i])
               /\ rows[i].author = vs[i].author
               /\ i \in DOMAIN old =>
                     rows[i].version_number \in {vs[i].version_number, new[i].version_number}
               /\ i \notin DOMAIN old => rows[i] = vs[i]
    <2>1. CASE i \in DOMAIN old
      <3>1. /\ i \in DOMAIN new /\ rows[i] = Updated(vs[i], old[i], new[i])
            /\ vs[i].author = old[i].author /\ new[i].author = old[i].author
        BY <2>1 DEF Later
      <3>. QED  BY <1>1, <2>1, <3>1, UpdatedVersion
    <2>2. CASE i \notin DOMAIN old
      BY <1>1, <2>2
    <2>. QED  BY <2>1, <2>2
  <1>3. rows = [i \in DOMAIN vs |-> rows[i]] /\ vs \in Seq(Version)
    BY DEF Sound
  <1>4. rows \in Seq(Version) /\ DOMAIN rows = DOMAIN vs
    BY <1>2, <1>3, RewriteRows
  <1>5. Bounded(rows)
    <2>1. PICK b \in Nat : \A i \in DOMAIN vs : vs[i].version_number <= b
      BY DEF Sound, Bounded
    <2>2. PICK c \in Nat : \A i \in DOMAIN new : new[i].version_number <= c
      BY DEF Sound, Bounded
    <2>3. b + c \in Nat
      OBVIOUS
    <2>4. /\ \A i \in DOMAIN vs : vs[i].version_number \in Nat
          /\ \A i \in DOMAIN new : new[i].version_number \in Nat
          /\ DOMAIN old \subseteq DOMAIN new
      BY Rows DEF Sound, Later
    <2>5. \A i \in DOMAIN rows : rows[i].version_number <= b + c
      BY <1>2, <1>4, <2>1, <2>2, <2>4
    <2>. QED  BY <2>3, <2>5 DEF Bounded
  <1>. QED  BY <1>2, <1>4, <1>5 DEF Sound, Later

\* A commit adds the rows that the handler inserted and updates the others, and
\* leaves the table a later state for every handler that still runs.
LEMMA Commits ==
    ASSUME ReplicasInv, NEW h \in handlers, Commit(h)
    PROVE  ReplicasInv'
  <1>. DEFINE old == h.loaded.versions
              new == h.written.versions
              inserted == SubSeq(new, Len(old) + 1, Len(new))
              rows == [i \in DOMAIN versions |->
                          IF i \in DOMAIN old THEN Updated(versions[i], old[i], new[i])
                                              ELSE versions[i]]
  <1>1. /\ Sound(versions) /\ Sound(old) /\ Sound(new)
        /\ Later(versions, old) /\ Later(new, old)
        /\ documents \in [Docs -> Document]
        /\ h.loaded.documents \in [Docs -> Document]
        /\ h.written.documents \in [Docs -> Document]
    BY DEF ReplicasInv, HandlersSound, ReplicasTypeOK, TablesOK, Tables
  <1>2. /\ versions' = rows \o inserted
        /\ documents' = [d \in Docs |->
               Updated(documents[d], h.loaded.documents[d], h.written.documents[d])]
        /\ handlers' = handlers \ {h} /\ registered' = registered
    BY DEF Commit
  <1>3. Sound(rows) /\ Later(rows, versions)
    BY <1>1, UpdatesSound
  <1>4. Sound(inserted)
    <2>1. old \in Seq(Version) /\ new \in Seq(Version) /\ DOMAIN old \subseteq DOMAIN new
      BY <1>1 DEF Sound, Later
    <2>. HIDE DEF old, new
    <2>2. /\ inserted \in Seq(Version)
          /\ \A j \in DOMAIN inserted : \E i \in DOMAIN new : inserted[j] = new[i]
      BY <2>1, Inserts
    <2>. HIDE DEF inserted
    <2>. QED  BY <1>1, <2>2 DEF Sound, Bounded
  <1>. HIDE DEF rows, inserted
  <1>5. Sound(versions') /\ Later(versions', versions)
    BY <1>2, <1>3, <1>4, ConcatSound, LaterTransitive
  <1>6. documents' \in [Docs -> Document]
    BY <1>1, <1>2, UpdatedDocument
  <1>. HIDE DEF old, new
  <1>7. ReplicasTypeOK'
    BY <1>2, <1>5, <1>6 DEF ReplicasInv, ReplicasTypeOK, TablesOK, Tables, Sound
  <1>8. HandlersSound'
    <2>1. ASSUME NEW g \in handlers'
          PROVE  /\ Sound(g.loaded.versions) /\ Sound(g.written.versions)
                 /\ Later(versions', g.loaded.versions)
                 /\ Later(g.written.versions, g.loaded.versions)
      <3>1. /\ Sound(g.loaded.versions) /\ Sound(g.written.versions)
            /\ Later(versions, g.loaded.versions)
            /\ Later(g.written.versions, g.loaded.versions)
        BY <1>2 DEF ReplicasInv, HandlersSound
      <3>. QED  BY <1>5, <3>1, LaterTransitive
    <2>. QED  BY <2>1 DEF HandlersSound
  <1>. QED  BY <1>5, <1>7, <1>8 DEF ReplicasInv

----------------------------------------------------------------------------

\* The invariant holds at the start.
LEMMA ReplicasInitInv == ReplicasInit => ReplicasInv
  <1>. SUFFICES ASSUME ReplicasInit  PROVE ReplicasInv
    OBVIOUS
  <1>1. versions \in Seq(Version) /\ DOMAIN versions = {}
    BY EmptySeq DEF ReplicasInit, EmptyTables
  <1>2. documents \in [Docs -> Document]
    BY DEF ReplicasInit, EmptyTables, NewDocument, Document
  <1>3. Bounded(versions)
    <2>1. \A i \in DOMAIN versions : versions[i].version_number <= 0
      BY <1>1
    <2>. QED  BY <2>1 DEF Bounded
  <1>4. ReplicasTypeOK
    BY <1>1, <1>2 DEF ReplicasInit, EmptyTables, ReplicasTypeOK, TablesOK, Tables
  <1>. QED  BY <1>1, <1>3, <1>4 DEF ReplicasInit, EmptyTables, ReplicasInv, Sound, HandlersSound

\* Every step keeps the invariant: a handler begins, commits or rolls back.
LEMMA ReplicasStepInv == ReplicasInv /\ [ReplicasNext]_replicas_vars => ReplicasInv'
  <1>. SUFFICES ASSUME ReplicasInv, [ReplicasNext]_replicas_vars  PROVE ReplicasInv'
    OBVIOUS
  <1>1. CASE UNCHANGED replicas_vars
    BY <1>1 DEF replicas_vars, ReplicasInv, ReplicasTypeOK, TablesOK, HandlersSound
  <1>2. ASSUME NEW h \in handlers, RollBack(h)  PROVE ReplicasInv'
    BY <1>2 DEF RollBack, ReplicasInv, ReplicasTypeOK, TablesOK, HandlersSound
  <1>3. ASSUME NEW d \in Docs, NEW review \in BOOLEAN, NEW retention \in BOOLEAN,
               CreateHandler(d, review, retention)
        PROVE  ReplicasInv'
    <2>1. /\ registered' = registered \cup {d} /\ UNCHANGED <<versions, handlers>>
          /\ documents' = [documents EXCEPT ![d] = NewDocument(review, retention)]
      BY <1>3 DEF CreateHandler, Insert
    <2>2. NewDocument(review, retention) \in Document
      BY DEF NewDocument, Document
    <2>. QED  BY <2>1, <2>2 DEF ReplicasInv, ReplicasTypeOK, TablesOK, HandlersSound
  <1>4. CASE ReplicasNext
    BY <1>2, <1>3, <1>4, HandlersBegin, Commits DEF ReplicasNext
  <1>. QED  BY <1>1, <1>4

\* The tables keep their types, and so do those that handlers have loaded and
\* will write, however commits interleave.
THEOREM ReplicasTypeCorrect == ReplicasSpec => []ReplicasTypeOK
  <1>1. ReplicasInv => ReplicasTypeOK
    BY DEF ReplicasInv
  <1>. QED  BY <1>1, ReplicasInitInv, ReplicasStepInv, PTL DEF ReplicasSpec

\* With any number of processes and of overlapping requests nobody is on
\* record as the reviewer or the approver of a version of his own.
THEOREM AuthorNeverSignsAnywhere == ReplicasSpec => []AuthorNeverSigns
  <1>1. ReplicasInv => AuthorNeverSigns
    BY DEF ReplicasInv, Sound, OthersSign, AuthorNeverSigns
  <1>. QED  BY <1>1, ReplicasInitInv, ReplicasStepInv, PTL DEF ReplicasSpec

----------------------------------------------------------------------------
(***************************************************************************)
(* Several processes and one.  A handler that commits on other rows than   *)
(* it has loaded may do what no single process does; but what another      *)
(* process does to other documents is of no consequence.                   *)
(***************************************************************************)

\* One process none of whose uploads is suspended.
Control == INSTANCE DocumentControl WITH uploads <- {}, spooled <- {}

\* What a handler decides on document d from the tables it has loaded.
DecidesDocument(old, new, d) ==
    \E row \in Document :
        /\ old.documents[d].is_active
        /\ \/ row = [old.documents[d] EXCEPT !.is_active = FALSE]
           \/ \E review, retention \in BOOLEAN :
                 row = [old.documents[d] EXCEPT !.review_period = review,
                                                !.retention_period = retention]
        /\ new.documents = [old.documents EXCEPT ![d] = row]
        /\ new.versions = old.versions

DecidesUpload(old, new, d) ==
    \E user \in Users :
        /\ old.documents[d].is_active
        /\ ~RevisionInProgress(old.versions, d)
        /\ new.documents = old.documents
        /\ new.versions =
              Append(old.versions, NewVersion(d, NextVersionNumber(old.versions, d), user))

MovesTo(v, w) ==
    \/ CanSubmit(v) /\ w = Submitted(v)
    \/ \E actor \in Users :
          \/ CanSignOff(v, actor) /\ w = SignedOff(v, actor)
          \/ CanReject(v, actor) /\ w = SentBack(v)

DecidesVersion(old, new, d) ==
    \E i \in VersionsOf(old.versions, d), w \in Version :
        /\ MovesTo(old.versions[i], w)
        /\ new.documents = old.documents
        /\ new.versions = [old.versions EXCEPT ![i] = w]

DecidesApproval(old, new, d) ==
    \E i \in VersionsOf(old.versions, d), actor \in Users :
        /\ old.documents[d].is_active
        /\ CanApprove(old.versions[i], actor)
        /\ new.documents = [old.documents EXCEPT ![d] = DocumentApproved(old.documents[d], i)]
        /\ new.versions = Approved(old.versions, i, actor)

DecidesRetirement(old, new, d) ==
    \E i \in VersionsOf(old.versions, d) :
        /\ old.documents[d].is_active
        /\ CanObsolete(old.versions[i])
        /\ new.documents = [old.documents EXCEPT ![d] = DocumentRetired(old.documents[d], i)]
        /\ new.versions = [old.versions EXCEPT ![i] = Retired(old.versions[i])]

Decides(old, new, d) ==
    \/ DecidesDocument(old, new, d)
    \/ DecidesUpload(old, new, d)
    \/ DecidesVersion(old, new, d)
    \/ DecidesApproval(old, new, d)
    \/ DecidesRetirement(old, new, d)

\* Two states of the tables have the same rows of document d.
Agree(now, old, d) ==
    /\ VersionsOf(now.versions, d) = VersionsOf(old.versions, d)
    /\ \A i \in VersionsOf(old.versions, d) : now.versions[i] = old.versions[i]
    /\ old.documents[d].is_active => now.documents[d] = old.documents[d]

Stored == [documents |-> documents, versions |-> versions]

\* Since the handler has loaded them, nobody has changed the rows of d.
Undisturbed(h, d) == Agree(Stored, h.loaded, d)

\* Every handler has decided something on a document.
EveryHandlerDecides == \A h \in handlers : \E d \in Docs : Decides(h.loaded, h.written, d)

\* The requests in progress are about different documents.  (An edit that
\* changes nothing is about any document that is not deleted.)
DocumentsApart ==
    \A h, k \in handlers, d \in Docs :
        Decides(h.loaded, h.written, d) /\ Decides(k.loaded, k.written, d) => h = k

ActiveRegistered == \A d \in Docs : documents[d].is_active => d \in registered

DecisionsInv == ReplicasInv /\ EveryHandlerDecides /\ ActiveRegistered

----------------------------------------------------------------------------
(* The merge of a handler's tables into the stored ones *)

\* The UPDATE of a row as it was loaded writes what the handler has decided;
\* that of a row which the handler has left alone changes nothing.
LEMMA UpdatedRow ==
    ASSUME NEW row, NEW loaded, NEW written,
           \/ row \in Version /\ loaded \in Version /\ written \in Version
           \/ row \in Document /\ loaded \in Document /\ written \in Document
    PROVE  /\ row = loaded => Updated(row, loaded, written) = written
           /\ written = loaded => Updated(row, loaded, written) = row
  BY DEF Updated, Version, Document

\* A merge of tables without an insertion.
LEMMA MergeVersions ==
    ASSUME NEW cur \in Seq(Version), NEW old \in Seq(Version), NEW new \in Seq(Version),
           NEW d \in Docs,
           DOMAIN old \subseteq DOMAIN cur, DOMAIN new = DOMAIN old,
           VersionsOf(cur, d) = VersionsOf(old, d),
           \A i \in VersionsOf(old, d) : cur[i] = old[i],
           \A i \in DOMAIN old \ VersionsOf(old, d) : new[i] = old[i]
    PROVE  /\ SubSeq(new, Len(old) + 1, Len(new)) = <<>>
           /\ \A i \in DOMAIN cur \ DOMAIN old : i \notin VersionsOf(cur, d)
           /\ \A i \in DOMAIN old : Updated(cur[i], old[i], new[i]) =
                                       IF i \in VersionsOf(cur, d) THEN new[i] ELSE cur[i]
  <1>1. /\ Len(old) \in Nat /\ DOMAIN old = 1 .. Len(old)
        /\ Len(new) \in Nat /\ DOMAIN new = 1 .. Len(new)
        /\ Len(cur) \in Nat /\ DOMAIN cur = 1 .. Len(cur)
    BY Rows
  <1>2. Len(new) = Len(old)
    BY <1>1
  <1>3. SubSeq(new, Len(old) + 1, Len(new)) = <<>>
    BY <1>1, <1>2
  <1>4. ASSUME NEW i \in DOMAIN old
        PROVE  Updated(cur[i], old[i], new[i]) =
                  IF i \in VersionsOf(cur, d) THEN new[i] ELSE cur[i]
    <2>1. cur[i] \in Version /\ old[i] \in Version /\ new[i] \in Version
      BY Rows
    <2>2. CASE i \in VersionsOf(old, d)
      BY <2>1, <2>2, UpdatedRow
    <2>3. CASE i \notin VersionsOf(old, d)
      BY <2>1, <2>3, UpdatedRow
    <2>. QED  BY <2>2, <2>3
  <1>. QED  BY <1>3, <1>4 DEF VersionsOf

\* The documents of a merge.
LEMMA MergeDocuments ==
    ASSUME NEW cur \in [Docs -> Document], NEW old \in [Docs -> Document],
           NEW new \in [Docs -> Document], NEW d \in Docs,
           \A e \in Docs \ {d} : new[e] = old[e],
           cur[d] = old[d] \/ new[d] = old[d]
    PROVE  \A e \in Docs : Updated(cur[e], old[e], new[e]) =
                              IF cur[d] = old[d] /\ e = d THEN new[d] ELSE cur[e]
  <1>1. ASSUME NEW e \in Docs
        PROVE  Updated(cur[e], old[e], new[e]) =
                  IF cur[d] = old[d] /\ e = d THEN new[d] ELSE cur[e]
    <2>1. cur[e] \in Document /\ old[e] \in Document /\ new[e] \in Document
      OBVIOUS
    <2>2. /\ cur[e] = old[e] => Updated(cur[e], old[e], new[e]) = new[e]
          /\ new[e] = old[e] => Updated(cur[e], old[e], new[e]) = cur[e]
      BY <2>1, UpdatedRow
    <2>. QED  BY <2>2
  <1>. QED  BY <1>1

\* A handler that nobody has disturbed changes the stored tables as it has
\* decided to change the ones it has loaded.
LEMMA CommitMerges ==
    ASSUME ReplicasInv, NEW h \in handlers, NEW d \in Docs,
           Decides(h.loaded, h.written, d), Undisturbed(h, d), Commit(h)
    PROVE  /\ Decides(Stored, [documents |-> documents', versions |-> versions'], d)
           /\ Len(versions') <= MaxVersions
           /\ registered' = registered
  <1>. DEFINE old == h.loaded
              new == h.written
              next == [documents |-> documents', versions |-> versions']
              inserted == SubSeq(new.versions, Len(old.versions) + 1, Len(new.versions))
              rows == [i \in DOMAIN versions |->
                          IF i \in DOMAIN old.versions
                          THEN Updated(versions[i], old.versions[i], new.versions[i])
                          ELSE versions[i]]
              merged == [i \in DOMAIN versions |->
                            IF i \in VersionsOf(versions, d) THEN new.versions[i]
                                                             ELSE versions[i]]
  <1>0. /\ versions \in Seq(Version) /\ old.versions \in Seq(Version)
        /\ new.versions \in Seq(Version)
        /\ DOMAIN old.versions \subseteq DOMAIN versions
    BY DEF ReplicasInv, HandlersSound, Sound, Later
  <1>1. /\ documents \in [Docs -> Document] /\ old.documents \in [Docs -> Document]
        /\ new.documents \in [Docs -> Document]
    BY DEF ReplicasInv, ReplicasTypeOK, TablesOK, Tables
  <1>2. /\ Len(versions \o inserted) <= MaxVersions
        /\ documents' = [e \in Docs |->
               Updated(documents[e], old.documents[e], new.documents[e])]
        /\ versions' = rows \o inserted
        /\ registered' = registered
    BY DEF Commit
  <1>3. /\ VersionsOf(versions, d) = VersionsOf(old.versions, d)
        /\ \A i \in VersionsOf(old.versions, d) : versions[i] = old.versions[i]
    BY DEF Undisturbed, Agree, Stored
  <1>a. old.documents[d].is_active => documents[d] = old.documents[d]
    BY DEF Undisturbed, Agree, Stored
  <1>4. Stored.documents = documents /\ Stored.versions = versions
        /\ next.documents = documents' /\ next.versions = versions'
    BY DEF Stored
  <1>5. /\ Len(versions) \in Nat /\ DOMAIN versions = 1 .. Len(versions)
        /\ Len(old.versions) \in Nat /\ DOMAIN old.versions = 1 .. Len(old.versions)
        /\ \A i \in DOMAIN versions : versions[i] \in Version
        /\ \A i \in DOMAIN old.versions : old.versions[i] \in Version
    BY <1>0, Rows
  <1>6. VersionsOf(versions, d) \subseteq DOMAIN versions
    BY DEF VersionsOf
  <1>. HIDE DEF old, new, inserted, rows, merged, next
  \* The tables after the commit, when no row is inserted.
  <1>7. ASSUME DOMAIN new.versions = DOMAIN old.versions,
               \A i \in DOMAIN old.versions \ VersionsOf(old.versions, d) :
                   new.versions[i] = old.versions[i]
        PROVE  versions' = merged /\ Len(versions') <= MaxVersions
    <2>1. inserted = <<>> /\ rows = merged
      <3>1. /\ SubSeq(new.versions, Len(old.versions) + 1, Len(new.versions)) = <<>>
            /\ \A i \in DOMAIN versions \ DOMAIN old.versions : i \notin VersionsOf(versions, d)
            /\ \A i \in DOMAIN old.versions :
                  Updated(versions[i], old.versions[i], new.versions[i]) =
                  IF i \in VersionsOf(versions, d) THEN new.versions[i] ELSE versions[i]
        <4>. DEFINE before == old.versions
                    after  == new.versions
        <4>1. /\ before \in Seq(Version) /\ after \in Seq(Version)
              /\ DOMAIN before \subseteq DOMAIN versions /\ DOMAIN after = DOMAIN before
              /\ VersionsOf(versions, d) = VersionsOf(before, d)
              /\ \A i \in VersionsOf(before, d) : versions[i] = before[i]
              /\ \A i \in DOMAIN before \ VersionsOf(before, d) : after[i] = before[i]
          BY <1>0, <1>3, <1>7
        <4>. HIDE DEF before, after
        <4>2. /\ SubSeq(after, Len(before) + 1, Len(after)) = <<>>
              /\ \A i \in DOMAIN versions \ DOMAIN before : i \notin VersionsOf(versions, d)
              /\ \A i \in DOMAIN before : Updated(versions[i], before[i], after[i]) =
                                        IF i \in VersionsOf(versions, d) THEN after[i]
                                                                         ELSE versions[i]
          BY <1>0, <4>1, MergeVersions
        <4>. QED  BY <4>2 DEF before, after
      <3>2. \A i \in DOMAIN versions :
               IF i \in DOMAIN old.versions
               THEN Updated(versions[i], old.versions[i], new.versions[i]) =
                    IF i \in VersionsOf(versions, d) THEN new.versions[i] ELSE versions[i]
               ELSE i \notin VersionsOf(versions, d)
        BY <3>1
      <3>3. rows = merged
        BY <3>2 DEF rows, merged
      <3>. QED  BY <3>1, <3>3 DEF inserted
    <2>2. Len(merged) = Len(versions) /\ merged \in Seq(Version)
      <3>1. DOMAIN merged = 1 .. Len(versions)
        BY <1>5 DEF merged
      <3>2. merged \in Seq(Version)
        <4>1. \A i \in DOMAIN versions : merged[i] \in Version
          <5>1. \A i \in DOMAIN new.versions : new.versions[i] \in Version
            BY <1>0, Rows
          <5>. QED  BY <1>3, <1>5, <1>6, <1>7, <5>1 DEF merged, VersionsOf
        <4>. QED  BY <1>0, <4>1, RewriteRows DEF merged
      <3>. QED  BY <1>5, <3>1, <3>2
    <2>3. versions \o <<>> = versions /\ merged \o <<>> = merged
      BY <1>0, <2>2, ConcatEmptySeq
    <2>. QED  BY <1>2, <2>1, <2>2, <2>3
  <1>8. ASSUME \A e \in Docs \ {d} : new.documents[e] = old.documents[e],
               documents[d] = old.documents[d] \/ new.documents[d] = old.documents[d]
        PROVE  documents' = IF documents[d] = old.documents[d]
                            THEN [documents EXCEPT ![d] = new.documents[d]] ELSE documents
    <2>1. \A e \in Docs : Updated(documents[e], old.documents[e], new.documents[e]) =
             IF documents[d] = old.documents[d] /\ e = d THEN new.documents[d] ELSE documents[e]
      BY <1>1, <1>8, MergeDocuments
    <2>. QED  BY <1>1, <1>2, <2>1
  <1>9. new.documents = old.documents => documents' = documents
    <2>. SUFFICES ASSUME new.documents = old.documents  PROVE documents' = documents
      OBVIOUS
    <2>1. documents' = IF documents[d] = old.documents[d]
                       THEN [documents EXCEPT ![d] = new.documents[d]] ELSE documents
      BY <1>8
    <2>. QED  BY <1>1, <2>1
  <1>10. CASE DecidesDocument(old, new, d)
    <2>1. PICK row \in Document :
             /\ old.documents[d].is_active
             /\ \/ row = [old.documents[d] EXCEPT !.is_active = FALSE]
                \/ \E review, retention \in BOOLEAN :
                      row = [old.documents[d] EXCEPT !.review_period = review,
                                                     !.retention_period = retention]
             /\ new.documents = [old.documents EXCEPT ![d] = row]
             /\ new.versions = old.versions
      BY <1>10 DEF DecidesDocument
    <2>9. new.versions = old.versions /\ documents[d] = old.documents[d]
      BY <1>a, <2>1
    <2>2. versions' = merged /\ Len(versions') <= MaxVersions
      BY <1>7, <2>9
    <2>3. merged = versions
      BY <1>0, <1>3, <2>9 DEF merged
    <2>4. documents' = [documents EXCEPT ![d] = row]
      <3>1. \A e \in Docs \ {d} : new.documents[e] = old.documents[e]
        BY <1>1, <2>1
      <3>2. new.documents[d] = row
        BY <1>1, <2>1
      <3>. QED  BY <1>8, <2>9, <3>1, <3>2
    <2>5. DecidesDocument(Stored, next, d)
      BY <1>4, <2>9, <2>1, <2>2, <2>3, <2>4 DEF DecidesDocument
    <2>. QED  BY <1>2, <2>2, <2>5 DEF Decides, next
  <1>11. CASE DecidesUpload(old, new, d)
    <2>1. PICK user \in Users :
             /\ old.documents[d].is_active
             /\ ~RevisionInProgress(old.versions, d)
             /\ new.documents = old.documents
             /\ new.versions = Append(old.versions,
                    NewVersion(d, NextVersionNumber(old.versions, d), user))
      BY <1>11 DEF DecidesUpload
    <2>. DEFINE row == NewVersion(d, NextVersionNumber(old.versions, d), user)
    <2>2. inserted = <<row>> /\ row \in Version
      <3>1. /\ Len(new.versions) = Len(old.versions) + 1
            /\ new.versions[Len(old.versions) + 1] = row
        BY <1>0, <1>5, <2>1
      <3>2. row \in Version
        <4>1. Len(old.versions) + 1 \in DOMAIN new.versions
          BY <1>0, <1>5, <3>1
        <4>. QED  BY <1>0, <3>1, <4>1, Rows
      <3>3. inserted = <<new.versions[Len(old.versions) + 1]>>
        <4>. DEFINE n == Len(old.versions)
        <4>1. n + 1 \in Nat /\ n + 1 \in 1 .. Len(new.versions)
          BY <1>5, <3>1
        <4>2. SubSeq(new.versions, (n + 1) + 1, n + 1) = <<>>
          BY <4>1, SubSeqEmpty
        <4>3. /\ n + 1 \in 1 .. Len(new.versions) /\ n + 1 \in (n + 1) .. Len(new.versions)
              /\ <<new.versions[n + 1]>> \o <<>> = <<new.versions[n + 1]>>
          BY <1>0, <3>1, <4>1
        <4>4. SubSeq(new.versions, n + 1, n + 1)
              = <<new.versions[n + 1]>> \o SubSeq(new.versions, (n + 1) + 1, n + 1)
          BY <1>0, <4>3, SubSeqRecursiveFirst
        <4>5. inserted = SubSeq(new.versions, n + 1, n + 1)
          BY <3>1 DEF inserted
        <4>. QED  BY <4>2, <4>3, <4>4, <4>5
      <3>. QED  BY <3>1, <3>2, <3>3
    <2>3. rows = versions
      <3>1. ASSUME NEW i \in DOMAIN old.versions
            PROVE  Updated(versions[i], old.versions[i], new.versions[i]) = versions[i]
        <4>1. new.versions[i] = old.versions[i]
          BY <1>0, <1>5, <2>1
        <4>2. versions[i] \in Version /\ old.versions[i] \in Version
              /\ new.versions[i] \in Version
          BY <1>0, <1>5, <4>1
        <4>. QED  BY <4>1, <4>2, UpdatedRow
      <3>. QED  BY <1>0, <3>1 DEF rows
    <2>4. row = NewVersion(d, NextVersionNumber(versions, d), user)
      <3>1. {versions[i].version_number : i \in VersionsOf(versions, d)}
             = {old.versions[i].version_number : i \in VersionsOf(old.versions, d)}
        BY <1>3
      <3>. QED  BY <3>1 DEF NextVersionNumber
    <2>5. ~RevisionInProgress(versions, d)
      BY <1>3, <2>1 DEF RevisionInProgress
    <2>. HIDE DEF row
    <2>6. versions' = Append(versions, row) /\ Len(versions') <= MaxVersions
      <3>1. versions \o <<row>> = Append(versions, row)
        BY <1>0, <2>2, AppendIsConcat
      <3>. QED  BY <1>2, <2>2, <2>3, <3>1
    <2>7. DecidesUpload(Stored, next, d)
      BY <1>a, <1>4, <1>9, <2>1, <2>4, <2>5, <2>6 DEF DecidesUpload
    <2>. QED  BY <1>2, <2>6, <2>7 DEF Decides, next
  <1>12. CASE DecidesVersion(old, new, d)
    <2>1. PICK i \in VersionsOf(old.versions, d), w \in Version :
             /\ MovesTo(old.versions[i], w)
             /\ new.documents = old.documents
             /\ new.versions = [old.versions EXCEPT ![i] = w]
      BY <1>12 DEF DecidesVersion
    <2>2. versions' = merged /\ Len(versions') <= MaxVersions
      BY <1>7, <2>1
    <2>3. merged = [versions EXCEPT ![i] = w]
      BY <1>0, <1>3, <2>1 DEF merged, VersionsOf
    <2>4. i \in VersionsOf(versions, d) /\ versions[i] = old.versions[i]
      BY <1>3
    <2>5. documents' = documents /\ MovesTo(versions[i], w)
      BY <1>9, <2>1, <2>4
    <2>6. DecidesVersion(Stored, next, d)
      <3>1. i \in VersionsOf(Stored.versions, d) /\ MovesTo(Stored.versions[i], w)
        BY <1>4, <2>4, <2>5
      <3>2. /\ next.documents = Stored.documents
            /\ next.versions = [Stored.versions EXCEPT ![i] = w]
        BY <1>4, <2>2, <2>3, <2>5
      <3>. QED  BY <3>1, <3>2 DEF DecidesVersion
    <2>. QED  BY <1>2, <2>2, <2>6 DEF Decides, next
  <1>13. CASE DecidesApproval(old, new, d)
    <2>1. PICK i \in VersionsOf(old.versions, d), actor \in Users :
             /\ old.documents[d].is_active
             /\ CanApprove(old.versions[i], actor)
             /\ new.documents = [old.documents EXCEPT ![d] = DocumentApproved(old.documents[d], i)]
             /\ new.versions = Approved(old.versions, i, actor)
      BY <1>13 DEF DecidesApproval
    <2>8. CanApprove(versions[i], actor)
      BY <1>3, <2>1
    <2>2. i \in VersionsOf(versions, d) /\ versions[i] = old.versions[i]
          /\ versions[i].document = d /\ old.versions[i].document = d
      BY <1>3 DEF VersionsOf
    <2>3. EffectiveOf(versions, d) = EffectiveOf(old.versions, d)
      BY <1>3 DEF EffectiveOf
    <2>4. versions' = merged /\ Len(versions') <= MaxVersions
      BY <1>7, <2>1, <2>2 DEF Approved, EffectiveOf
    <2>5. merged = Approved(versions, i, actor)
      <3>1. ASSUME NEW j \in DOMAIN versions
            PROVE  merged[j] = Approved(versions, i, actor)[j]
        <4>1. CASE j \in VersionsOf(versions, d)
          <5>1. j \in DOMAIN old.versions /\ versions[j] = old.versions[j]
            BY <1>3, <4>1 DEF VersionsOf
          <5>2. merged[j] = Approved(old.versions, i, actor)[j]
            BY <2>1, <4>1 DEF merged
          <5>. QED  BY <2>2, <2>3, <5>1, <5>2 DEF Approved
        <4>2. CASE j \notin VersionsOf(versions, d)
          BY <2>2, <4>2 DEF merged, Approved, EffectiveOf
        <4>. QED  BY <4>1, <4>2
      <3>. QED  BY <3>1 DEF merged, Approved
    <2>9. documents[d] = old.documents[d] /\ documents[d].is_active
      BY <1>a, <2>1
    <2>6. documents' = [documents EXCEPT ![d] = DocumentApproved(documents[d], i)]
      <3>1. \A e \in Docs \ {d} : new.documents[e] = old.documents[e]
        BY <1>1, <2>1
      <3>2. new.documents[d] = DocumentApproved(documents[d], i)
        BY <1>1, <2>1, <2>9
      <3>. QED  BY <1>8, <2>9, <3>1, <3>2
    <2>7. DecidesApproval(Stored, next, d)
      <3>1. /\ i \in VersionsOf(Stored.versions, d) /\ Stored.documents[d].is_active
            /\ CanApprove(Stored.versions[i], actor)
        BY <1>4, <2>9, <2>8, <2>2
      <3>2. next.documents =
               [Stored.documents EXCEPT ![d] = DocumentApproved(Stored.documents[d], i)]
        BY <1>4, <2>6
      <3>3. next.versions = Approved(Stored.versions, i, actor)
        BY <1>4, <2>4, <2>5
      <3>. QED  BY <3>1, <3>2, <3>3 DEF DecidesApproval
    <2>. QED  BY <1>2, <2>4, <2>7 DEF Decides, next
  <1>14. CASE DecidesRetirement(old, new, d)
    <2>1. PICK i \in VersionsOf(old.versions, d) :
             /\ old.documents[d].is_active
             /\ CanObsolete(old.versions[i])
             /\ new.documents = [old.documents EXCEPT ![d] = DocumentRetired(old.documents[d], i)]
             /\ new.versions = [old.versions EXCEPT ![i] = Retired(old.versions[i])]
      BY <1>14 DEF DecidesRetirement
    <2>2. versions' = merged /\ Len(versions') <= MaxVersions
      BY <1>7, <2>1
    <2>3. merged = [versions EXCEPT ![i] = Retired(versions[i])]
      BY <1>0, <1>3, <2>1 DEF merged, VersionsOf
    <2>4. i \in VersionsOf(versions, d) /\ versions[i] = old.versions[i]
      BY <1>3
    <2>9. documents[d] = old.documents[d] /\ documents[d].is_active
      BY <1>a, <2>1
    <2>5. documents' = [documents EXCEPT ![d] = DocumentRetired(documents[d], i)]
      <3>1. \A e \in Docs \ {d} : new.documents[e] = old.documents[e]
        BY <1>1, <2>1
      <3>2. new.documents[d] = DocumentRetired(documents[d], i)
        BY <1>1, <2>1, <2>9
      <3>. QED  BY <1>8, <2>9, <3>1, <3>2
    <2>6. DecidesRetirement(Stored, next, d)
      <3>1. /\ i \in VersionsOf(Stored.versions, d) /\ Stored.documents[d].is_active
            /\ CanObsolete(Stored.versions[i])
        BY <1>4, <2>9, <2>1, <2>4
      <3>2. next.documents =
               [Stored.documents EXCEPT ![d] = DocumentRetired(Stored.documents[d], i)]
        BY <1>4, <2>5
      <3>3. next.versions = [Stored.versions EXCEPT ![i] = Retired(Stored.versions[i])]
        BY <1>4, <2>2, <2>3
      <3>. QED  BY <3>1, <3>2, <3>3 DEF DecidesRetirement
    <2>. QED  BY <1>2, <2>2, <2>6 DEF Decides, next
  <1>. QED  BY <1>10, <1>11, <1>12, <1>13, <1>14 DEF Decides, old, new

\* What is decided on a document changes the rows of no other.
LEMMA DecisionsAreLocal ==
    ASSUME NEW old, NEW new, NEW d \in Docs, Decides(old, new, d),
           old.documents \in [Docs -> Document], old.versions \in Seq(Version),
           NEW e \in Docs, e # d
    PROVE  /\ new.documents[e] = old.documents[e]
           /\ VersionsOf(new.versions, e) = VersionsOf(old.versions, e)
           /\ \A i \in VersionsOf(old.versions, e) : new.versions[i] = old.versions[i]
  <1>. DEFINE vs == old.versions
              ws == new.versions
  <1>1. /\ Len(vs) \in Nat /\ DOMAIN vs = 1 .. Len(vs)
        /\ \A i \in DOMAIN vs : vs[i] \in Version
    BY Rows
  <1>2. CASE DecidesDocument(old, new, d)
    BY <1>2 DEF DecidesDocument
  <1>3. CASE DecidesUpload(old, new, d)
    <2>1. PICK user \in Users :
             /\ new.documents = old.documents
             /\ ws = Append(vs, NewVersion(d, NextVersionNumber(vs, d), user))
      BY <1>3 DEF DecidesUpload
    <2>. DEFINE row == NewVersion(d, NextVersionNumber(vs, d), user)
    <2>2. row.document = d /\ ws = Append(vs, row) /\ vs \in Seq(Version)
      BY <2>1 DEF NewVersion
    <2>. HIDE DEF row, vs, ws
    <2>3. /\ DOMAIN ws = 1 .. Len(vs) + 1
          /\ ws[Len(vs) + 1] = row
          /\ \A i \in 1 .. Len(vs) : ws[i] = vs[i]
      BY <1>1, <2>2
    <2>4. /\ VersionsOf(ws, e) = VersionsOf(vs, e)
          /\ \A i \in VersionsOf(vs, e) : ws[i] = vs[i]
      BY <1>1, <2>2, <2>3 DEF VersionsOf
    <2>. QED  BY <2>1, <2>4 DEF vs, ws
  <1>4. CASE DecidesVersion(old, new, d)
    <2>1. PICK i \in VersionsOf(vs, d), w \in Version :
             /\ \/ w = Submitted(vs[i])
                \/ \E actor \in Users : w = SignedOff(vs[i], actor) \/ w = SentBack(vs[i])
             /\ new.documents = old.documents
             /\ ws = [vs EXCEPT ![i] = w]
      BY <1>4 DEF DecidesVersion, MovesTo
    <2>2. vs[i].document = d /\ vs[i] \in Version /\ i \in DOMAIN vs
      BY <1>1 DEF VersionsOf
    <2>3. w.document = d
      BY <2>1, <2>2 DEF Submitted, SignedOff, SentBack, Version
    <2>4. DOMAIN ws = DOMAIN vs /\ ws[i] = w /\ \A j \in DOMAIN vs \ {i} : ws[j] = vs[j]
      BY <1>1, <2>1, <2>2
    <2>. QED  BY <2>1, <2>2, <2>3, <2>4 DEF VersionsOf
  <1>5. CASE DecidesApproval(old, new, d)
    <2>1. PICK i \in VersionsOf(vs, d), actor \in Users :
             /\ new.documents = [old.documents EXCEPT ![d] = DocumentApproved(old.documents[d], i)]
             /\ ws = Approved(vs, i, actor)
      BY <1>5 DEF DecidesApproval
    <2>2. vs[i].document = d /\ i \in DOMAIN vs
      BY DEF VersionsOf
    <2>3. DOMAIN ws = DOMAIN vs
      BY <2>1 DEF Approved
    <2>4. ASSUME NEW j \in DOMAIN vs
          PROVE  /\ ws[j].document = vs[j].document
                 /\ vs[j].document = e => ws[j] = vs[j]
      <3>1. ws[j] = IF j = i
                    THEN [vs[j] EXCEPT !.status = "Effective", !.approved_by = actor]
                    ELSE IF j \in EffectiveOf(vs, d)
                    THEN [vs[j] EXCEPT !.status = "Obsolete"]
                    ELSE vs[j]
        BY <2>1, <2>2 DEF Approved
      <3>2. vs[j] \in Version /\ (j \in EffectiveOf(vs, d) => vs[j].document = d)
        BY <1>1 DEF EffectiveOf, VersionsOf
      <3>. HIDE DEF vs, ws
      <3>3. ws[j].document = vs[j].document
        BY <3>1, <3>2 DEF Version
      <3>4. vs[j].document = e => ws[j] = vs[j]
        BY <2>2, <3>1, <3>2
      <3>. QED  BY <3>3, <3>4
    <2>5. new.documents[e] = old.documents[e]
      BY <2>1
    <2>. QED  BY <2>3, <2>4, <2>5 DEF VersionsOf
  <1>6. CASE DecidesRetirement(old, new, d)
    <2>1. PICK i \in VersionsOf(vs, d) :
             /\ new.documents = [old.documents EXCEPT ![d] = DocumentRetired(old.documents[d], i)]
             /\ ws = [vs EXCEPT ![i] = Retired(vs[i])]
      BY <1>6 DEF DecidesRetirement
    <2>2. vs[i].document = d /\ vs[i] \in Version /\ i \in DOMAIN vs
      BY <1>1 DEF VersionsOf
    <2>3. Retired(vs[i]).document = d
      BY <2>2 DEF Retired, Version
    <2>4. /\ DOMAIN ws = DOMAIN vs /\ ws[i] = Retired(vs[i])
          /\ \A j \in DOMAIN vs \ {i} : ws[j] = vs[j]
      BY <1>1, <2>1, <2>2
    <2>5. new.documents[e] = old.documents[e]
      BY <2>1
    <2>. QED  BY <2>2, <2>3, <2>4, <2>5 DEF VersionsOf
  <1>. QED  BY <1>2, <1>3, <1>4, <1>5, <1>6 DEF Decides

\* Every handler decides on a document from what is stored when it loads it.
LEMMA HandlersDecide ==
    ASSUME ReplicasInv, NEW r \in Requests,
           \/ \E d \in Docs :
                 \/ DeleteHandler(r, d)
                 \/ \E user \in Users : UploadHandler(r, d, user)
                 \/ \E review, retention \in BOOLEAN : EditHandler(r, d, review, retention)
           \/ \E i \in 1 .. MaxVersions :
                 \/ SubmitHandler(r, i)
                 \/ ObsoleteHandler(r, i)
                 \/ \E actor \in Users :
                       \/ ReviewHandler(r, i, actor)
                       \/ ApproveHandler(r, i, actor)
                       \/ RejectHandler(r, i, actor)
    PROVE  \E newDocuments, newVersions :
              /\ Handle(r, newDocuments, newVersions)
              /\ \E d \in Docs :
                    Decides(Stored, [documents |-> newDocuments, versions |-> newVersions], d)
  <1>. DEFINE Made(newDocuments, newVersions) ==
                 /\ Handle(r, newDocuments, newVersions)
                 /\ \E d \in Docs :
                       Decides(Stored, [documents |-> newDocuments, versions |-> newVersions], d)
  <1>1. /\ documents \in [Docs -> Document] /\ versions \in Seq(Version)
        /\ \A i \in DOMAIN versions :
              versions[i] \in Version /\ versions[i].document \in Docs
    BY Rows DEF ReplicasInv, ReplicasTypeOK, TablesOK
  <1>2. Stored.documents = documents /\ Stored.versions = versions
    BY DEF Stored
  <1>4. ASSUME NEW d \in Docs, DeleteHandler(r, d)
        PROVE  \E newDocuments, newVersions : Made(newDocuments, newVersions)
    <2>. DEFINE row == [documents[d] EXCEPT !.is_active = FALSE]
                new == [documents |-> [documents EXCEPT ![d] = row], versions |-> versions]
    <2>1. Handle(r, [documents EXCEPT ![d] = row], versions) /\ documents[d].is_active
      BY <1>1, <1>4 DEF DeleteHandler, Available
    <2>2. row \in Document
      BY <1>1 DEF Document
    <2>3. DecidesDocument(Stored, new, d)
      BY <1>2, <2>1, <2>2 DEF DecidesDocument
    <2>. QED  BY <2>1, <2>3 DEF Decides
  <1>5. ASSUME NEW d \in Docs, NEW user \in Users, UploadHandler(r, d, user)
        PROVE  \E newDocuments, newVersions : Made(newDocuments, newVersions)
    <2>. DEFINE rows == Append(versions, NewVersion(d, NextVersionNumber(versions, d), user))
                new == [documents |-> documents, versions |-> rows]
    <2>1. /\ documents[d].is_active /\ ~RevisionInProgress(versions, d)
          /\ Handle(r, documents, rows)
      BY <1>5 DEF UploadHandler, Available
    <2>2. DecidesUpload(Stored, new, d)
      BY <1>2, <2>1 DEF DecidesUpload
    <2>. QED  BY <2>1, <2>2 DEF Decides
  <1>6. ASSUME NEW d \in Docs, NEW review \in BOOLEAN, NEW retention \in BOOLEAN,
               EditHandler(r, d, review, retention)
        PROVE  \E newDocuments, newVersions : Made(newDocuments, newVersions)
    <2>. DEFINE row == [documents[d] EXCEPT !.review_period = review,
                                            !.retention_period = retention]
                new == [documents |-> [documents EXCEPT ![d] = row], versions |-> versions]
    <2>1. Handle(r, [documents EXCEPT ![d] = row], versions) /\ documents[d].is_active
      BY <1>1, <1>6 DEF EditHandler, Available
    <2>2. row \in Document
      BY <1>1 DEF Document
    <2>3. DecidesDocument(Stored, new, d)
      BY <1>2, <2>1, <2>2 DEF DecidesDocument
    <2>. QED  BY <2>1, <2>3 DEF Decides
  <1>7. ASSUME NEW i, SubmitHandler(r, i)
        PROVE  \E newDocuments, newVersions : Made(newDocuments, newVersions)
    <2>. DEFINE w == Submitted(versions[i])
                new == [documents |-> documents, versions |-> [versions EXCEPT ![i] = w]]
    <2>1. /\ i \in DOMAIN versions /\ CanSubmit(versions[i])
          /\ Handle(r, documents, [versions EXCEPT ![i] = w])
      BY <1>7 DEF SubmitHandler, VersionOr404
    <2>2. w \in Version /\ versions[i].document \in Docs
      BY <1>1, <2>1 DEF Submitted, Version, Statuses
    <2>3. i \in VersionsOf(versions, versions[i].document)
      BY <2>1 DEF VersionsOf
    <2>4. DecidesVersion(Stored, new, versions[i].document)
      BY <1>2, <2>1, <2>2, <2>3 DEF DecidesVersion, MovesTo
    <2>. QED  BY <2>1, <2>2, <2>4 DEF Decides
  <1>8. ASSUME NEW i, NEW actor \in Users, ReviewHandler(r, i, actor)
        PROVE  \E newDocuments, newVersions : Made(newDocuments, newVersions)
    <2>. DEFINE w == SignedOff(versions[i], actor)
                new == [documents |-> documents, versions |-> [versions EXCEPT ![i] = w]]
    <2>1. /\ i \in DOMAIN versions /\ CanSignOff(versions[i], actor)
          /\ Handle(r, documents, [versions EXCEPT ![i] = w])
      BY <1>8 DEF ReviewHandler, VersionOr404
    <2>2. w \in Version /\ versions[i].document \in Docs
      BY <1>1, <2>1 DEF SignedOff, Version, Statuses
    <2>3. i \in VersionsOf(versions, versions[i].document)
      BY <2>1 DEF VersionsOf
    <2>4. DecidesVersion(Stored, new, versions[i].document)
      BY <1>2, <2>1, <2>2, <2>3 DEF DecidesVersion, MovesTo
    <2>. QED  BY <2>1, <2>2, <2>4 DEF Decides
  <1>9. ASSUME NEW i, NEW actor \in Users, RejectHandler(r, i, actor)
        PROVE  \E newDocuments, newVersions : Made(newDocuments, newVersions)
    <2>. DEFINE w == SentBack(versions[i])
                new == [documents |-> documents, versions |-> [versions EXCEPT ![i] = w]]
    <2>1. /\ i \in DOMAIN versions /\ CanReject(versions[i], actor)
          /\ Handle(r, documents, [versions EXCEPT ![i] = w])
      BY <1>9 DEF RejectHandler, VersionOr404
    <2>2. w \in Version /\ versions[i].document \in Docs
      BY <1>1, <2>1 DEF SentBack, Version, Statuses
    <2>3. i \in VersionsOf(versions, versions[i].document)
      BY <2>1 DEF VersionsOf
    <2>4. DecidesVersion(Stored, new, versions[i].document)
      BY <1>2, <2>1, <2>2, <2>3 DEF DecidesVersion, MovesTo
    <2>. QED  BY <2>1, <2>2, <2>4 DEF Decides
  <1>10. ASSUME NEW i, NEW actor \in Users, ApproveHandler(r, i, actor)
         PROVE  \E newDocuments, newVersions : Made(newDocuments, newVersions)
    <2>. DEFINE d == versions[i].document
                row == DocumentApproved(documents[d], i)
                new == [documents |-> [documents EXCEPT ![d] = row],
                        versions |-> Approved(versions, i, actor)]
    <2>1. /\ i \in DOMAIN versions /\ documents[d].is_active /\ CanApprove(versions[i], actor)
          /\ Handle(r, [documents EXCEPT ![d] = row], Approved(versions, i, actor))
      BY <1>10 DEF ApproveHandler, VersionOr404, Available
    <2>2. d \in Docs /\ i \in VersionsOf(versions, d)
      BY <1>1, <2>1 DEF VersionsOf
    <2>3. DecidesApproval(Stored, new, d)
      BY <1>2, <2>1, <2>2 DEF DecidesApproval
    <2>. QED  BY <2>1, <2>2, <2>3 DEF Decides
  <1>11. ASSUME NEW i, ObsoleteHandler(r, i)
         PROVE  \E newDocuments, newVersions : Made(newDocuments, newVersions)
    <2>. DEFINE d == versions[i].document
                row == DocumentRetired(documents[d], i)
                new == [documents |-> [documents EXCEPT ![d] = row],
                        versions |-> [versions EXCEPT ![i] = Retired(versions[i])]]
    <2>1. /\ i \in DOMAIN versions /\ documents[d].is_active /\ CanObsolete(versions[i])
          /\ Handle(r, [documents EXCEPT ![d] = row], [versions EXCEPT ![i] = Retired(versions[i])])
      BY <1>11 DEF ObsoleteHandler, VersionOr404, Available
    <2>2. d \in Docs /\ i \in VersionsOf(versions, d)
      BY <1>1, <2>1 DEF VersionsOf
    <2>3. DecidesRetirement(Stored, new, d)
      BY <1>2, <2>1, <2>2 DEF DecidesRetirement
    <2>. QED  BY <2>1, <2>2, <2>3 DEF Decides
  <1>. QED  BY <1>4, <1>5, <1>6, <1>7, <1>8, <1>9, <1>10, <1>11

\* A decision is a step of the one process.
LEMMA DecisionIsStep ==
    ASSUME ReplicasInv, ActiveRegistered, NEW d \in Docs,
           Decides(Stored, [documents |-> documents', versions |-> versions'], d),
           registered' = registered, Len(versions') <= MaxVersions
    PROVE  Control!Next
  <1>. DEFINE next == [documents |-> documents', versions |-> versions']
  <1>1. /\ Stored.documents = documents /\ Stored.versions = versions
        /\ next.documents = documents' /\ next.versions = versions'
    BY DEF Stored
  <1>2. documents \in [Docs -> Document] /\ versions \in Seq(Version)
    BY DEF ReplicasInv, ReplicasTypeOK, TablesOK
  <1>3. documents[d].is_active => Control!Available(d)
    BY DEF ActiveRegistered, Control!Available
  <1>4. \A i \in VersionsOf(versions, d) : i \in DOMAIN versions /\ versions[i].document = d
    BY DEF VersionsOf
  <1>5. CASE DecidesDocument(Stored, next, d)
    <2>1. PICK row \in Document :
             /\ documents[d].is_active
             /\ \/ row = [documents[d] EXCEPT !.is_active = FALSE]
                \/ \E review, retention \in BOOLEAN :
                      row = [documents[d] EXCEPT !.review_period = review,
                                                 !.retention_period = retention]
             /\ documents' = [documents EXCEPT ![d] = row]
             /\ versions' = versions
      BY <1>1, <1>5 DEF DecidesDocument
    <2>2. CASE row = [documents[d] EXCEPT !.is_active = FALSE]
      <3>1. documents' = [documents EXCEPT ![d].is_active = FALSE]
        BY <1>2, <2>1, <2>2
      <3>2. Control!DeleteDocument(d)
        BY <1>3, <2>1, <3>1 DEF Control!DeleteDocument
      <3>. QED  BY <3>2 DEF Control!Next
    <2>3. ASSUME NEW review \in BOOLEAN, NEW retention \in BOOLEAN,
                 row = [documents[d] EXCEPT !.review_period = review,
                                            !.retention_period = retention]
          PROVE  Control!Next
      <3>1. documents' = [documents EXCEPT ![d].review_period = review,
                                           ![d].retention_period = retention]
        BY <1>2, <2>1, <2>3
      <3>2. Control!UpdateDocument(d, review, retention)
        BY <1>3, <2>1, <3>1 DEF Control!UpdateDocument
      <3>. QED  BY <3>2 DEF Control!Next
    <2>. QED  BY <2>1, <2>2, <2>3
  <1>6. CASE DecidesUpload(Stored, next, d)
    <2>1. PICK user \in Users :
             /\ documents[d].is_active
             /\ ~RevisionInProgress(versions, d)
             /\ documents' = documents
             /\ versions' =
                   Append(versions, NewVersion(d, NextVersionNumber(versions, d), user))
      BY <1>1, <1>6 DEF DecidesUpload
    <2>2. Control!NextVersionNumber(versions, d) = NextVersionNumber(versions, d)
      BY DEF Control!NextVersionNumber, Control!VersionsOf, NextVersionNumber, VersionsOf,
             Control!Max, Max
    <2>3. \A n : Control!NewVersion(d, n, user) = NewVersion(d, n, user)
      BY DEF Control!NewVersion, NewVersion
    <2>4. ~Control!RevisionInProgress(versions, d)
      BY <2>1 DEF Control!RevisionInProgress, RevisionInProgress,
                  Control!VersionsOf, VersionsOf, Control!InFlight, InFlight
    <2>5. Len(versions) < MaxVersions
      <3>1. Len(versions') = Len(versions) + 1 /\ Len(versions) \in Nat
        BY <1>2, <2>1
      <3>. QED  BY <3>1, MaxVersionsAssumption
    <2>6. Control!CreateVersion(d, user)
      BY <1>3, <2>1, <2>2, <2>3, <2>4, <2>5 DEF Control!CreateVersion, Control!CanUpload
    <2>. QED  BY <2>6 DEF Control!Next
  <1>7. CASE DecidesVersion(Stored, next, d)
    <2>1. PICK i \in VersionsOf(versions, d), w \in Version :
             /\ \/ CanSubmit(versions[i]) /\ w = Submitted(versions[i])
                \/ \E actor \in Users :
                      \/ CanSignOff(versions[i], actor) /\ w = SignedOff(versions[i], actor)
                      \/ CanReject(versions[i], actor) /\ w = SentBack(versions[i])
             /\ documents' = documents
             /\ versions' = [versions EXCEPT ![i] = w]
      BY <1>1, <1>7 DEF DecidesVersion, MovesTo
    <2>2. CASE CanSubmit(versions[i]) /\ w = Submitted(versions[i])
      <3>1. Control!SubmitVersion(i)
        BY <2>1, <2>2 DEF Control!SubmitVersion, Control!CanSubmit, Control!Submitted,
              Control!ALLOWED_TRANSITIONS, Control!Statuses,
              CanSubmit, Submitted, ALLOWED_TRANSITIONS, Statuses
      <3>. QED  BY <1>4, <3>1 DEF Control!Next
    <2>3. ASSUME NEW actor \in Users, CanSignOff(versions[i], actor),
                 w = SignedOff(versions[i], actor)
          PROVE  Control!Next
      <3>1. Control!ReviewVersion(i, actor)
        BY <2>1, <2>3 DEF Control!ReviewVersion, Control!CanSignOff, Control!SignedOff,
              CanSignOff, SignedOff
      <3>. QED  BY <1>4, <3>1 DEF Control!Next
    <2>4. ASSUME NEW actor \in Users, CanReject(versions[i], actor), w = SentBack(versions[i])
          PROVE  Control!Next
      <3>1. Control!RejectVersion(i, actor)
        BY <2>1, <2>4 DEF Control!RejectVersion, Control!CanReject, Control!SentBack,
              CanReject, SentBack
      <3>. QED  BY <1>4, <3>1 DEF Control!Next
    <2>. QED  BY <2>1, <2>2, <2>3, <2>4
  <1>8. CASE DecidesApproval(Stored, next, d)
    <2>1. PICK i \in VersionsOf(versions, d), actor \in Users :
             /\ documents[d].is_active
             /\ CanApprove(versions[i], actor)
             /\ documents' = [documents EXCEPT ![d] = DocumentApproved(documents[d], i)]
             /\ versions' = Approved(versions, i, actor)
      BY <1>1, <1>8 DEF DecidesApproval
    <2>2. Control!Approved(versions, i, actor) = Approved(versions, i, actor)
      BY DEF Control!Approved, Approved, Control!EffectiveOf, EffectiveOf,
             Control!VersionsOf, VersionsOf
    <2>3. Control!DocumentApproved(documents[d], i) = DocumentApproved(documents[d], i)
      BY DEF Control!DocumentApproved, DocumentApproved
    <2>4. Control!CanApprove(versions[i], actor)
      BY <2>1 DEF Control!CanApprove, CanApprove
    <2>5. Control!ApproveVersion(i, actor)
      BY <1>3, <1>4, <2>1, <2>2, <2>3, <2>4 DEF Control!ApproveVersion
    <2>. QED  BY <1>4, <2>5 DEF Control!Next
  <1>9. CASE DecidesRetirement(Stored, next, d)
    <2>1. PICK i \in VersionsOf(versions, d) :
             /\ documents[d].is_active
             /\ CanObsolete(versions[i])
             /\ documents' = [documents EXCEPT ![d] = DocumentRetired(documents[d], i)]
             /\ versions' = [versions EXCEPT ![i] = Retired(versions[i])]
      BY <1>1, <1>9 DEF DecidesRetirement
    <2>2. Control!Retired(versions[i]) = Retired(versions[i])
      BY DEF Control!Retired, Retired
    <2>3. Control!DocumentRetired(documents[d], i) = DocumentRetired(documents[d], i)
      BY DEF Control!DocumentRetired, DocumentRetired
    <2>4. Control!CanObsolete(versions[i])
      BY <2>1 DEF Control!CanObsolete, CanObsolete
    <2>5. Control!ObsoleteVersion(i)
      BY <1>3, <1>4, <2>1, <2>2, <2>3, <2>4 DEF Control!ObsoleteVersion
    <2>. QED  BY <1>4, <2>5 DEF Control!Next
  <1>. QED  BY <1>5, <1>6, <1>7, <1>8, <1>9 DEF Decides

----------------------------------------------------------------------------
(* Steps of several processes *)

\* The steps are: a document is created, a handler begins, commits or rolls back.
LEMMA ReplicasSteps ==
    ASSUME ReplicasInv, ReplicasNext
    PROVE  \/ \E d \in Docs, review, retention \in BOOLEAN : CreateHandler(d, review, retention)
           \/ \E r \in Requests : \E newDocuments, newVersions :
                 /\ Handle(r, newDocuments, newVersions)
                 /\ \E d \in Docs :
                       Decides(Stored, [documents |-> newDocuments, versions |-> newVersions], d)
           \/ \E h \in handlers : Commit(h)
           \/ \E h \in handlers : RollBack(h)
  BY HandlersDecide DEF ReplicasNext

\* Nobody brings a deleted document back.
LEMMA NobodyRevives ==
    ASSUME NEW old, NEW new, NEW d \in Docs, Decides(old, new, d),
           old.documents \in [Docs -> Document], NEW e \in Docs,
           new.documents[e].is_active
    PROVE  old.documents[e].is_active
  <1>1. CASE DecidesDocument(old, new, d)
    <2>1. PICK row \in Document : /\ old.documents[d].is_active
                                  /\ new.documents = [old.documents EXCEPT ![d] = row]
      BY <1>1 DEF DecidesDocument
    <2>2. CASE e = d
      BY <2>1, <2>2
    <2>3. CASE e # d
      <3>1. new.documents[e] = old.documents[e]
        BY <2>1, <2>3
      <3>. QED  BY <3>1
    <2>. QED  BY <2>2, <2>3
  <1>2. CASE DecidesUpload(old, new, d) \/ DecidesVersion(old, new, d)
    <2>1. new.documents = old.documents
      BY <1>2 DEF DecidesUpload, DecidesVersion
    <2>. QED  BY <2>1
  <1>3. CASE DecidesApproval(old, new, d) \/ DecidesRetirement(old, new, d)
    <2>1. \E row : /\ old.documents[d].is_active
                   /\ new.documents = [old.documents EXCEPT ![d] = row]
      BY <1>3 DEF DecidesApproval, DecidesRetirement
    <2>2. CASE e = d
      BY <2>1, <2>2
    <2>3. CASE e # d
      <3>1. new.documents[e] = old.documents[e]
        BY <2>1, <2>3
      <3>. QED  BY <3>1
    <2>. QED  BY <2>2, <2>3
  <1>. QED  BY <1>1, <1>2, <1>3 DEF Decides

LEMMA ActiveStays ==
    ASSUME NEW row \in Document, NEW loaded \in Document, NEW written \in Document,
           written.is_active => loaded.is_active,
           Updated(row, loaded, written).is_active
    PROVE  row.is_active
  <1>1. Updated(row, loaded, written).is_active =
           IF written.is_active # loaded.is_active THEN written.is_active ELSE row.is_active
    BY DEF Updated, Document
  <1>2. written.is_active \in BOOLEAN /\ loaded.is_active \in BOOLEAN
    BY DEF Document
  <1>. QED  BY <1>1, <1>2

LEMMA DecisionsInit == ReplicasInit => DecisionsInv
  <1>. SUFFICES ASSUME ReplicasInit  PROVE DecisionsInv
    OBVIOUS
  <1>1. ReplicasInv
    BY ReplicasInitInv
  <1>2. EveryHandlerDecides
    BY DEF ReplicasInit, EveryHandlerDecides
  <1>3. ASSUME NEW d \in Docs  PROVE ~documents[d].is_active
    BY DEF ReplicasInit, EmptyTables, NewDocument
  <1>. QED  BY <1>1, <1>2, <1>3 DEF DecisionsInv, ActiveRegistered

LEMMA DecisionsStep == DecisionsInv /\ [ReplicasNext]_replicas_vars => DecisionsInv'
  <1>. SUFFICES ASSUME DecisionsInv, [ReplicasNext]_replicas_vars  PROVE DecisionsInv'
    OBVIOUS
  <1>0. /\ ReplicasInv /\ EveryHandlerDecides /\ ActiveRegistered /\ ReplicasInv'
        /\ documents \in [Docs -> Document]
    BY ReplicasStepInv DEF DecisionsInv, ReplicasInv, ReplicasTypeOK, TablesOK
  <1>. SUFFICES EveryHandlerDecides' /\ ActiveRegistered'
    BY <1>0 DEF DecisionsInv
  <1>1. CASE UNCHANGED replicas_vars
    BY <1>0, <1>1 DEF replicas_vars, EveryHandlerDecides, ActiveRegistered
  <1>2. ASSUME NEW d \in Docs, NEW review \in BOOLEAN, NEW retention \in BOOLEAN,
               CreateHandler(d, review, retention)
        PROVE  EveryHandlerDecides' /\ ActiveRegistered'
    <2>1. /\ registered' = registered \cup {d} /\ handlers' = handlers
          /\ \A e \in Docs \ {d} : documents'[e] = documents[e]
      BY <1>0, <1>2 DEF CreateHandler, Insert
    <2>2. EveryHandlerDecides'
      BY <1>0, <2>1 DEF EveryHandlerDecides
    <2>3. ASSUME NEW e \in Docs, documents'[e].is_active  PROVE e \in registered'
      <3>1. CASE e = d
        BY <2>1, <3>1
      <3>2. CASE e # d
        <4>1. documents[e].is_active
          BY <2>1, <2>3, <3>2
        <4>. QED  BY <1>0, <2>1, <4>1 DEF ActiveRegistered
      <3>. QED  BY <3>1, <3>2
    <2>. QED  BY <2>2, <2>3 DEF ActiveRegistered
  <1>3. ASSUME NEW r \in Requests, NEW newDocuments, NEW newVersions,
               Handle(r, newDocuments, newVersions),
               \E d \in Docs :
                  Decides(Stored, [documents |-> newDocuments, versions |-> newVersions], d)
        PROVE  EveryHandlerDecides' /\ ActiveRegistered'
    <2>. DEFINE new == [documents |-> newDocuments, versions |-> newVersions]
                h == [request |-> r, loaded |-> Stored, written |-> new]
    <2>1. /\ registered' = registered /\ documents' = documents
          /\ handlers' = handlers \cup {h}
      BY <1>3 DEF Handle, Stored
    <2>2. \E d \in Docs : Decides(h.loaded, h.written, d)
      BY <1>3
    <2>. HIDE DEF h
    <2>3. EveryHandlerDecides'
      BY <1>0, <2>1, <2>2 DEF EveryHandlerDecides
    <2>. QED  BY <1>0, <2>1, <2>3 DEF ActiveRegistered
  <1>4. ASSUME NEW h \in handlers, Commit(h)  PROVE EveryHandlerDecides' /\ ActiveRegistered'
    <2>1. /\ handlers' = handlers \ {h} /\ registered' = registered
          /\ documents' = [e \in Docs |->
                 Updated(documents[e], h.loaded.documents[e], h.written.documents[e])]
      BY <1>4 DEF Commit
    <2>2. EveryHandlerDecides'
      BY <1>0, <2>1 DEF EveryHandlerDecides
    <2>3. /\ h.loaded.documents \in [Docs -> Document]
          /\ h.written.documents \in [Docs -> Document]
      BY <1>0 DEF ReplicasInv, ReplicasTypeOK, Tables
    <2>4. PICK d \in Docs : Decides(h.loaded, h.written, d)
      BY <1>0 DEF EveryHandlerDecides
    <2>5. ASSUME NEW e \in Docs, documents'[e].is_active  PROVE e \in registered'
      <3>1. h.written.documents[e].is_active => h.loaded.documents[e].is_active
        BY <2>3, <2>4, NobodyRevives
      <3>2. Updated(documents[e], h.loaded.documents[e], h.written.documents[e]).is_active
        BY <2>1, <2>5
      <3>3. /\ documents[e] \in Document /\ h.loaded.documents[e] \in Document
            /\ h.written.documents[e] \in Document
        BY <1>0, <2>3
      <3>4. documents[e].is_active
        BY <3>1, <3>2, <3>3, ActiveStays
      <3>. QED  BY <1>0, <2>1, <3>4 DEF ActiveRegistered
    <2>. QED  BY <2>2, <2>5 DEF ActiveRegistered
  <1>5. ASSUME NEW h \in handlers, RollBack(h)  PROVE EveryHandlerDecides' /\ ActiveRegistered'
    BY <1>0, <1>5 DEF RollBack, EveryHandlerDecides, ActiveRegistered
  <1>6. CASE ReplicasNext
    BY <1>0, <1>2, <1>3, <1>4, <1>5, <1>6, ReplicasSteps
  <1>. QED  BY <1>1, <1>6

LEMMA DecisionsInvariant == ReplicasSpec => []DecisionsInv
  BY DecisionsInit, DecisionsStep, PTL DEF ReplicasSpec

----------------------------------------------------------------------------
(* What the processes together do *)

\* Nobody has disturbed a handler in progress.
AllUndisturbed ==
    \A h \in handlers, d \in Docs : Decides(h.loaded, h.written, d) => Undisturbed(h, d)

\* An undisturbed commit is a step of the one process.
LEMMA UndisturbedCommitIsStep ==
    ASSUME DecisionsInv, NEW h \in handlers, NEW d \in Docs,
           Commit(h), Decides(h.loaded, h.written, d), Undisturbed(h, d)
    PROVE  Control!Next
  <1>1. ReplicasInv /\ ActiveRegistered
    BY DEF DecisionsInv
  <1>2. /\ Decides(Stored, [documents |-> documents', versions |-> versions'], d)
        /\ Len(versions') <= MaxVersions
        /\ registered' = registered
    BY <1>1, CommitMerges
  <1>. QED  BY <1>1, <1>2, DecisionIsStep

\* While requests in progress are about different documents, none is disturbed.
LEMMA ApartStaysUndisturbed ==
    DecisionsInv /\ AllUndisturbed /\ DocumentsApart /\ [ReplicasNext]_replicas_vars
        => AllUndisturbed'
  <1>. SUFFICES ASSUME DecisionsInv, AllUndisturbed, DocumentsApart,
                       [ReplicasNext]_replicas_vars
                PROVE  AllUndisturbed'
    OBVIOUS
  <1>0. /\ ReplicasInv /\ EveryHandlerDecides /\ ActiveRegistered
        /\ documents \in [Docs -> Document] /\ versions \in Seq(Version)
    BY DEF DecisionsInv, ReplicasInv, ReplicasTypeOK, TablesOK
  <1>. DEFINE now == [documents |-> documents', versions |-> versions']
  <1>a. /\ Stored.documents = documents /\ Stored.versions = versions
        /\ now.documents = documents' /\ now.versions = versions'
    BY DEF Stored
  <1>b. Stored' = now
    BY DEF Stored
  <1>. SUFFICES ASSUME NEW g \in handlers', NEW e \in Docs,
                       Decides(g.loaded, g.written, e)
                PROVE  Agree(now, g.loaded, e)
    BY <1>b DEF AllUndisturbed, Undisturbed
  <1>. HIDE DEF now
  <1>c. g \in handlers => Agree(Stored, g.loaded, e)
    BY DEF AllUndisturbed, Undisturbed
  <1>1. CASE documents' = documents /\ versions' = versions /\ g \in handlers
    BY <1>1, <1>a, <1>c DEF Agree
  <1>2. ASSUME NEW d \in Docs, NEW review \in BOOLEAN, NEW retention \in BOOLEAN,
               CreateHandler(d, review, retention)
        PROVE  Agree(now, g.loaded, e)
    <2>1. /\ d \notin registered /\ versions' = versions /\ g \in handlers
          /\ e # d => documents'[e] = documents[e]
      BY <1>0, <1>2 DEF CreateHandler, Insert
    <2>2. Agree(Stored, g.loaded, e)
      BY <1>c, <2>1
    <2>3. g.loaded.documents[e].is_active => documents'[e] = g.loaded.documents[e]
      <3>. SUFFICES ASSUME g.loaded.documents[e].is_active
                    PROVE  documents'[e] = g.loaded.documents[e]
        OBVIOUS
      <3>1. documents[e] = g.loaded.documents[e]
        BY <1>a, <2>2 DEF Agree
      <3>2. e \in registered
        BY <1>0, <3>1 DEF ActiveRegistered
      <3>. QED  BY <2>1, <3>1, <3>2
    <2>. QED  BY <1>a, <2>1, <2>2, <2>3 DEF Agree
  <1>3. ASSUME NEW r \in Requests, NEW newDocuments, NEW newVersions,
               Handle(r, newDocuments, newVersions)
        PROVE  Agree(now, g.loaded, e)
    <2>1. /\ documents' = documents /\ versions' = versions
          /\ g \in handlers \/ g.loaded = Stored
      BY <1>3 DEF Handle, Stored
    <2>2. CASE g.loaded = Stored
      BY <1>a, <2>1, <2>2 DEF Agree
    <2>. QED  BY <1>1, <2>1, <2>2
  <1>4. ASSUME NEW h \in handlers, Commit(h)  PROVE Agree(now, g.loaded, e)
    <2>1. g \in handlers /\ g # h
      BY <1>4 DEF Commit
    <2>2. PICK d \in Docs : Decides(h.loaded, h.written, d)
      BY <1>0 DEF EveryHandlerDecides
    <2>3. e # d
      BY <2>1, <2>2 DEF DocumentsApart
    <2>4. Undisturbed(h, d)
      BY <2>2 DEF AllUndisturbed
    <2>5. Decides(Stored, now, d)
      BY <1>0, <1>4, <2>2, <2>4, CommitMerges DEF now
    <2>6. Stored.documents \in [Docs -> Document] /\ Stored.versions \in Seq(Version)
      BY <1>0, <1>a
    <2>7. /\ now.documents[e] = Stored.documents[e]
          /\ VersionsOf(now.versions, e) = VersionsOf(Stored.versions, e)
          /\ \A i \in VersionsOf(Stored.versions, e) : now.versions[i] = Stored.versions[i]
      BY <2>3, <2>5, <2>6, DecisionsAreLocal
    <2>8. Agree(Stored, g.loaded, e)
      BY <1>c, <2>1
    <2>. QED  BY <2>7, <2>8 DEF Agree
  <1>5. ASSUME NEW h \in handlers, RollBack(h)  PROVE Agree(now, g.loaded, e)
    BY <1>1, <1>5 DEF RollBack
  <1>6. CASE UNCHANGED replicas_vars
    BY <1>1, <1>6 DEF replicas_vars
  <1>7. CASE ReplicasNext
    BY <1>0, <1>2, <1>3, <1>4, <1>5, <1>7, ReplicasSteps
  <1>. QED  BY <1>6, <1>7

\* Undisturbed handlers make the steps of the one process: a handler that
\* begins or rolls back makes none.
LEMMA UndisturbedStep ==
    DecisionsInv /\ AllUndisturbed /\ [ReplicasNext]_replicas_vars => [Control!Next]_Control!vars
  <1>. SUFFICES ASSUME DecisionsInv, AllUndisturbed, [ReplicasNext]_replicas_vars
                PROVE  [Control!Next]_Control!vars
    OBVIOUS
  <1>0. ReplicasInv /\ EveryHandlerDecides
    BY DEF DecisionsInv
  <1>1. CASE registered' = registered /\ documents' = documents /\ versions' = versions
    BY <1>1 DEF Control!vars
  <1>2. ASSUME NEW d \in Docs, NEW review \in BOOLEAN, NEW retention \in BOOLEAN,
               CreateHandler(d, review, retention)
        PROVE  Control!Next
    <2>1. Control!NewDocument(review, retention) = NewDocument(review, retention)
      BY DEF Control!NewDocument, NewDocument
    <2>2. Control!CreateDocument(d, review, retention)
      BY <1>2, <2>1 DEF CreateHandler, Insert, Control!CreateDocument, Control!Insert
    <2>. QED  BY <2>2 DEF Control!Next
  <1>3. ASSUME NEW h \in handlers, Commit(h)  PROVE Control!Next
    <2>1. PICK d \in Docs : Decides(h.loaded, h.written, d)
      BY <1>0 DEF EveryHandlerDecides
    <2>2. Undisturbed(h, d)
      BY <2>1 DEF AllUndisturbed
    <2>. QED  BY <1>3, <2>1, <2>2, UndisturbedCommitIsStep
  <1>4. ASSUME NEW r \in Requests, NEW newDocuments, NEW newVersions,
               Handle(r, newDocuments, newVersions)
        PROVE  [Control!Next]_Control!vars
    BY <1>1, <1>4 DEF Handle
  <1>5. ASSUME NEW h \in handlers, RollBack(h)  PROVE [Control!Next]_Control!vars
    BY <1>1, <1>5 DEF RollBack
  <1>6. CASE UNCHANGED replicas_vars
    BY <1>1, <1>6 DEF replicas_vars
  <1>7. CASE ReplicasNext
    BY <1>0, <1>2, <1>3, <1>4, <1>5, <1>7, ReplicasSteps
  <1>. QED  BY <1>6, <1>7

LEMMA ReplicasStart == ReplicasInit => Control!Init /\ AllUndisturbed
  <1>1. ReplicasInit => AllUndisturbed
    BY DEF ReplicasInit, AllUndisturbed
  <1>2. Control!NewDocument(FALSE, FALSE) = NewDocument(FALSE, FALSE)
    BY DEF Control!NewDocument, NewDocument
  <1>3. ReplicasInit => Control!Init
    BY <1>2 DEF ReplicasInit, EmptyTables, Control!Init, Control!EmptyTables
  <1>. QED  BY <1>1, <1>3

\* The commit of a handler does what the one process could do in one step,
\* unless the rows of its document have changed since it has loaded them: a
\* handler never conflicts with those that work on other documents, although
\* versions of all documents are rows of one table.
THEOREM OnlyTheSameDocumentConflicts ==
    ReplicasSpec => [][\A h \in handlers, d \in Docs :
                          Commit(h) /\ Decides(h.loaded, h.written, d) /\ Undisturbed(h, d)
                              => Control!Next]_replicas_vars
  <1>1. DecisionsInv /\ [ReplicasNext]_replicas_vars
           => [\A h \in handlers, d \in Docs :
                  Commit(h) /\ Decides(h.loaded, h.written, d) /\ Undisturbed(h, d)
                      => Control!Next]_replicas_vars
    BY UndisturbedCommitIsStep
  <1>. QED  BY <1>1, DecisionsInvariant, PTL DEF ReplicasSpec

\* Any number of processes behave as the one process does, as long as the
\* requests in progress at a time are about different documents.
THEOREM DocumentsApartAsOne == ReplicasSpec /\ []DocumentsApart => Control!Spec
  <1>. QED  BY DecisionsInvariant, ReplicasStart, ApartStaysUndisturbed, UndisturbedStep, PTL
            DEF ReplicasSpec, Control!Spec

\* What is decided on the stored tables leaves at most one version in force.
LEMMA DecisionsSupersede ==
    ASSUME ReplicasInv, AtMostOneEffective, NEW d \in Docs,
           Decides(Stored, [documents |-> documents', versions |-> versions'], d)
    PROVE  AtMostOneEffective'
  <1>. DEFINE now == [documents |-> documents', versions |-> versions']
  <1>1. /\ versions \in Seq(Version) /\ Len(versions) \in Nat /\ DOMAIN versions = 1 .. Len(versions)
        /\ \A i \in DOMAIN versions : versions[i] \in Version
    BY Rows DEF ReplicasInv, Sound
  <1>2. Stored.versions = versions /\ now.versions = versions'
    BY DEF Stored
  \* Nothing comes into force.
  <1>3. ASSUME \A i \in DOMAIN versions' :
                  versions'[i].status = "Effective" => i \in DOMAIN versions /\ versions'[i] = versions[i]
        PROVE  AtMostOneEffective'
    BY <1>3 DEF AtMostOneEffective
  <1>4. CASE DecidesDocument(Stored, now, d)
    BY <1>2, <1>3, <1>4 DEF DecidesDocument
  <1>5. CASE DecidesUpload(Stored, now, d)
    <2>1. PICK user \in Users :
             versions' = Append(versions, NewVersion(d, NextVersionNumber(versions, d), user))
      BY <1>2, <1>5 DEF DecidesUpload
    <2>2. NewVersion(d, NextVersionNumber(versions, d), user).status = "Draft"
      BY DEF NewVersion
    <2>. QED  BY <1>1, <1>3, <2>1, <2>2
  <1>6. CASE DecidesVersion(Stored, now, d)
    <2>1. PICK i \in DOMAIN versions : \E w :
             /\ \/ w = Submitted(versions[i])
                \/ \E actor \in Users : w = SignedOff(versions[i], actor) \/ w = SentBack(versions[i])
             /\ versions' = [versions EXCEPT ![i] = w]
      BY <1>2, <1>6 DEF DecidesVersion, MovesTo, VersionsOf
    <2>2. PICK w :
             /\ \/ w = Submitted(versions[i])
                \/ \E actor \in Users : w = SignedOff(versions[i], actor) \/ w = SentBack(versions[i])
             /\ versions' = [versions EXCEPT ![i] = w]
      BY <2>1
    <2>3. w.status # "Effective"
      BY <1>1, <2>2 DEF Submitted, SignedOff, SentBack, Version
    <2>. QED  BY <1>3, <2>2, <2>3
  <1>7. CASE DecidesApproval(Stored, now, d)
    <2>1. PICK i \in VersionsOf(versions, d), actor \in Users :
             versions' = Approved(versions, i, actor)
      BY <1>2, <1>7 DEF DecidesApproval
    <2>2. i \in DOMAIN versions /\ versions[i].document = d
      BY DEF VersionsOf
    <2>3. DOMAIN versions' = DOMAIN versions
      BY <2>1 DEF Approved
    <2>4. ASSUME NEW j \in DOMAIN versions
          PROVE  /\ versions'[j].document = versions[j].document
                 /\ j # i /\ versions'[j].status = "Effective" =>
                       versions[j].status = "Effective" /\ versions[j].document # d
      BY <1>1, <2>1, <2>2 DEF Approved, EffectiveOf, VersionsOf, Version
    <2>. QED  BY <2>2, <2>3, <2>4 DEF AtMostOneEffective
  <1>8. CASE DecidesRetirement(Stored, now, d)
    <2>1. PICK i \in DOMAIN versions : versions' = [versions EXCEPT ![i] = Retired(versions[i])]
      BY <1>2, <1>8 DEF DecidesRetirement, VersionsOf
    <2>2. Retired(versions[i]).status # "Effective"
      BY <1>1 DEF Retired, Version
    <2>. QED  BY <1>3, <2>1, <2>2
  <1>. QED  BY <1>4, <1>5, <1>6, <1>7, <1>8 DEF Decides

\* In several processes too at most one version of a document is in force, as
\* long as requests about the same document do not overlap; when two approvals
\* of one document do, both may come into force.
THEOREM OneEffectiveApart == ReplicasSpec /\ []DocumentsApart => []AtMostOneEffective
  <1>1. ReplicasInit => AtMostOneEffective
    BY DEF ReplicasInit, EmptyTables, AtMostOneEffective
  <1>2. DecisionsInv /\ AllUndisturbed /\ AtMostOneEffective /\ [ReplicasNext]_replicas_vars
           => AtMostOneEffective'
    <2>. SUFFICES ASSUME DecisionsInv, AllUndisturbed, AtMostOneEffective,
                         [ReplicasNext]_replicas_vars
                  PROVE  AtMostOneEffective'
      OBVIOUS
    <2>0. ReplicasInv /\ EveryHandlerDecides
      BY DEF DecisionsInv
    <2>1. CASE versions' = versions
      BY <2>1 DEF AtMostOneEffective
    <2>2. ASSUME NEW h \in handlers, Commit(h)  PROVE AtMostOneEffective'
      <3>1. PICK d \in Docs : Decides(h.loaded, h.written, d)
        BY <2>0 DEF EveryHandlerDecides
      <3>2. Undisturbed(h, d)
        BY <3>1 DEF AllUndisturbed
      <3>3. Decides(Stored, [documents |-> documents', versions |-> versions'], d)
        BY <2>0, <2>2, <3>1, <3>2, CommitMerges
      <3>. QED  BY <2>0, <3>3, DecisionsSupersede
    <2>3. ReplicasNext => versions' = versions \/ \E h \in handlers : Commit(h)
      BY <2>0, ReplicasSteps DEF CreateHandler, Handle, RollBack
    <2>4. UNCHANGED replicas_vars => versions' = versions
      BY DEF replicas_vars
    <2>. QED  BY <2>1, <2>2, <2>3, <2>4
  <1>. QED  BY <1>1, <1>2, DecisionsInvariant, ReplicasStart, ApartStaysUndisturbed, PTL
            DEF ReplicasSpec

=============================================================================
