------------------------- MODULE DocumentWorkflow -------------------------
(***************************************************************************)
(* The rules of app/services/document_workflow.py as operators on rows:    *)
(* for each function of that file the condition under which it does not    *)
(* raise WorkflowError (Can...) and the row it leaves behind.  Rows are    *)
(* those of app/models/document.py.  The API (documents.py) and the        *)
(* browser (document_pages.py) both call these functions, so the modules   *)
(* that model the handlers share this one.                                 *)
(*                                                                         *)
(* Abstractions.  The primary key of a version is its position in the      *)
(* sequence of versions (an autoincrement column).  A date is identified   *)
(* by the version whose approval or obsolescence computed it and 0 is      *)
(* NULL, so two dates differ when different steps computed them; how the   *)
(* date itself is computed is the business of add_months.  A review or     *)
(* retention period is only set or not set.  File metadata, titles,        *)
(* owners, timestamps and effective_date decide nothing and are left out.  *)
(***************************************************************************)
EXTENDS Naturals, Sequences, FiniteSetsExt

CONSTANTS
    Users,      \* ids of the users of one organization
    NoUser,     \* a NULL user column
    Docs        \* ids of the documents of that organization

ASSUME NoUserAssumption == NoUser \notin Users

Statuses == {"Draft", "In_Review", "Pending_Approval",
             "Effective", "Obsolete", "Rejected"}

\* A revision that blocks the upload of another one.
InFlight == {"Draft", "In_Review", "Pending_Approval"}

Version == [document       : Docs,
            version_number : Nat \ {0},
            status         : Statuses,
            author         : Users,
            reviewed_by    : Users \cup {NoUser},
            approved_by    : Users \cup {NoUser}]

Document == [is_active        : BOOLEAN,
             review_period    : BOOLEAN,
             retention_period : BOOLEAN,
             next_review      : Nat,
             retention_until  : Nat]

VersionsOf(vs, d) == {i \in DOMAIN vs : vs[i].document = d}

EffectiveOf(vs, d) == {i \in VersionsOf(vs, d) : vs[i].status = "Effective"}

\* Mutant: a version waiting for approval is forgotten.
RevisionInProgress_Mutant(vs, d) ==
    \E i \in VersionsOf(vs, d) : vs[i].status \in {"Draft", "In_Review"}

RevisionInProgress(vs, d) == \E i \in VersionsOf(vs, d) : vs[i].status \in InFlight

\* Mutants: the number is not advanced; it is taken from the effective version.
NextVersionNumber_NotAdvanced(vs, d) ==
    Max({0} \cup {vs[i].version_number : i \in VersionsOf(vs, d)})

NextVersionNumber_FromEffective(vs, d) ==
    1 + Max({0} \cup {vs[i].version_number : i \in EffectiveOf(vs, d)})

NextVersionNumber(vs, d) ==
    1 + Max({0} \cup {vs[i].version_number : i \in VersionsOf(vs, d)})

NewDocument(review, retention) ==
    [is_active        |-> TRUE,
     review_period    |-> review,
     retention_period |-> retention,
     next_review      |-> 0,
     retention_until  |-> 0]

NewVersion(d, number, user) ==
    [document       |-> d,
     version_number |-> number,
     status         |-> "Draft",
     author         |-> user,
     reviewed_by    |-> NoUser,
     approved_by    |-> NoUser]

\* Mutant: an effective version can be submitted again.
ALLOWED_TRANSITIONS_Mutant ==
    [s \in Statuses |-> IF s \in {"Draft", "Effective"} THEN {"In_Review"} ELSE {}]

ALLOWED_TRANSITIONS ==
    [s \in Statuses |-> IF s = "Draft" THEN {"In_Review"} ELSE {}]

CanSubmit(v) == "In_Review" \in ALLOWED_TRANSITIONS[v.status]

Submitted(v) == [v EXCEPT !.status = "In_Review"]

\* Mutant: the reviewer may be the author.
CanSignOff_Mutant(v, actor) == v.status = "In_Review"

CanSignOff(v, actor) == v.status = "In_Review" /\ actor # v.author

SignedOff(v, actor) == [v EXCEPT !.status = "Pending_Approval", !.reviewed_by = actor]

\* Mutant: the approver is compared with the author only.
CanApprove_Mutant(v, actor) == v.status = "Pending_Approval" /\ actor # v.author

CanApprove(v, actor) ==
    /\ v.status = "Pending_Approval"
    /\ actor \notin {v.author, v.reviewed_by}

\* Mutant: the predecessor is not superseded.
Approved_Mutant(vs, i, actor) ==
    [vs EXCEPT ![i].status = "Effective", ![i].approved_by = actor]

\* All versions after version i is approved: every other effective version
\* of the document is superseded.
Approved(vs, i, actor) ==
    [j \in DOMAIN vs |->
        IF j = i
        THEN [vs[j] EXCEPT !.status = "Effective", !.approved_by = actor]
        ELSE IF j \in EffectiveOf(vs, vs[i].document)
        THEN [vs[j] EXCEPT !.status = "Obsolete"]
        ELSE vs[j]]

\* Mutant: an approval leaves the retention clock running.
DocumentApproved_Mutant(doc, i) ==
    [doc EXCEPT !.next_review = IF doc.review_period THEN i ELSE 0]

DocumentApproved(doc, i) ==
    [doc EXCEPT !.next_review     = IF doc.review_period THEN i ELSE 0,
                !.retention_until = 0]

CanReject(v, actor) ==
    v.status \in {"In_Review", "Pending_Approval"} /\ actor # v.author

SentBack(v) ==
    [v EXCEPT !.status = "Draft", !.reviewed_by = NoUser, !.approved_by = NoUser]

CanObsolete(v) == v.status = "Effective"

Retired(v) == [v EXCEPT !.status = "Obsolete"]

\* Mutants: the review stays scheduled; the wrong policy field is read.
DocumentRetired_KeepsReview(doc, i) ==
    [doc EXCEPT !.retention_until = IF doc.retention_period THEN i ELSE 0]

DocumentRetired_WrongPolicy(doc, i) ==
    [doc EXCEPT !.next_review     = 0,
                !.retention_until = IF doc.review_period THEN i ELSE 0]

DocumentRetired(doc, i) ==
    [doc EXCEPT !.next_review     = 0,
                !.retention_until = IF doc.retention_period THEN i ELSE 0]

===========================================================================
