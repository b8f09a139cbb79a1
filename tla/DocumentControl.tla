-------------------------- MODULE DocumentControl --------------------------
(***************************************************************************)
(* Document control as the single-process deployment runs it (the          *)
(* Dockerfile starts one uvicorn process).  A handler body is an async     *)
(* function whose database calls block the event loop, so it is one        *)
(* atomic step, with one exception: the upload handler awaits              *)
(* file.read(), which leaves the event loop when the file has been spooled *)
(* to disk.  An upload is therefore either one step (CreateVersion, a      *)
(* small file) or a BeginUpload, which checks that no revision is in       *)
(* progress and computes the version number from the collection it has     *)
(* loaded, followed by a FinishUpload, which inserts the row, with any     *)
(* other handlers in between.                                              *)
(***************************************************************************)
EXTENDS DocumentTables

VARIABLES
    uploads,        \* upload handlers suspended in file.read()
    spooled         \* history: documents of which an upload was suspended

vars == <<registered, documents, versions, uploads, spooled>>

Upload == [request        : Requests,
           document       : Docs,
           version_number : Nat \ {0},
           author         : Users]

TypeOK ==
    /\ TablesOK
    /\ uploads \subseteq Upload
    /\ spooled \subseteq Docs

Init ==
    /\ EmptyTables
    /\ uploads = {}
    /\ spooled = {}

----------------------------------------------------------------------------
(* Documents *)

CreateDocument(d, review, retention) ==
    /\ Insert(d, review, retention)
    /\ UNCHANGED <<versions, uploads, spooled>>

UpdateDocument(d, review, retention) ==
    /\ Available(d)
    /\ documents' = [documents EXCEPT ![d].review_period = review,
                                      ![d].retention_period = retention]
    /\ UNCHANGED <<registered, versions, uploads, spooled>>

\* The browser's forms send every field, and change the same columns.
DocumentCreateSubmit(d, review, retention) == CreateDocument(d, review, retention)

DocumentEditSubmit(d, review, retention) == UpdateDocument(d, review, retention)

DeleteDocument(d) ==
    /\ Available(d)
    /\ documents' = [documents EXCEPT ![d].is_active = FALSE]
    /\ UNCHANGED <<registered, versions, uploads, spooled>>

----------------------------------------------------------------------------
(* Uploads *)

CanUpload(d) ==
    /\ Available(d)
    /\ ~RevisionInProgress(versions, d)

CreateVersion(d, user) ==
    /\ Len(versions) < MaxVersions
    /\ CanUpload(d)
    /\ versions' = Append(versions, NewVersion(d, NextVersionNumber(versions, d), user))
    /\ UNCHANGED <<registered, documents, uploads, spooled>>

BeginUpload(r, d, user) ==
    /\ \A u \in uploads : u.request # r
    /\ CanUpload(d)
    /\ uploads' = uploads \cup
           {[request |-> r, document |-> d, author |-> user,
             version_number |-> NextVersionNumber(versions, d)]}
    /\ spooled' = spooled \cup {d}
    /\ UNCHANGED <<registered, documents, versions>>

FinishUpload(u) ==
    /\ Len(versions) < MaxVersions
    /\ versions' = Append(versions, NewVersion(u.document, u.version_number, u.author))
    /\ uploads' = uploads \ {u}
    /\ UNCHANGED <<registered, documents, spooled>>

\* The file is empty or too large, the client is gone, or the process stops.
FailUpload(u) ==
    /\ uploads' = uploads \ {u}
    /\ UNCHANGED <<registered, documents, versions, spooled>>

----------------------------------------------------------------------------
(* The workflow of a version.  Submit, review and reject look the version  *)
(* up without its document, so they also act on a deleted document.        *)

SubmitVersion(i) ==
    /\ CanSubmit(versions[i])
    /\ versions' = [versions EXCEPT ![i] = Submitted(@)]
    /\ UNCHANGED <<registered, documents, uploads, spooled>>

ReviewVersion(i, actor) ==
    /\ CanSignOff(versions[i], actor)
    /\ versions' = [versions EXCEPT ![i] = SignedOff(@, actor)]
    /\ UNCHANGED <<registered, documents, uploads, spooled>>

ApproveVersion(i, actor) ==
    LET d == versions[i].document IN
    /\ Available(d)
    /\ CanApprove(versions[i], actor)
    /\ versions' = Approved(versions, i, actor)
    /\ documents' = [documents EXCEPT ![d] = DocumentApproved(@, i)]
    /\ UNCHANGED <<registered, uploads, spooled>>

RejectVersion(i, actor) ==
    /\ CanReject(versions[i], actor)
    /\ versions' = [versions EXCEPT ![i] = SentBack(@)]
    /\ UNCHANGED <<registered, documents, uploads, spooled>>

ObsoleteVersion(i) ==
    LET d == versions[i].document IN
    /\ Available(d)
    /\ CanObsolete(versions[i])
    /\ versions' = [versions EXCEPT ![i] = Retired(@)]
    /\ documents' = [documents EXCEPT ![d] = DocumentRetired(@, i)]
    /\ UNCHANGED <<registered, uploads, spooled>>

Next ==
    \/ \E d \in Docs, review, retention \in BOOLEAN :
          \/ CreateDocument(d, review, retention) \/ DocumentCreateSubmit(d, review, retention)
          \/ UpdateDocument(d, review, retention) \/ DocumentEditSubmit(d, review, retention)
    \/ \E d \in Docs : DeleteDocument(d)
    \/ \E d \in Docs, user \in Users : CreateVersion(d, user)
    \/ \E r \in Requests, d \in Docs, user \in Users : BeginUpload(r, d, user)
    \/ \E u \in uploads : FinishUpload(u) \/ FailUpload(u)
    \/ \E i \in DOMAIN versions :
          \/ SubmitVersion(i)
          \/ ObsoleteVersion(i)
          \/ \E actor \in Users :
                ReviewVersion(i, actor) \/ ApproveVersion(i, actor) \/ RejectVersion(i, actor)

Spec == Init /\ [][Next]_vars

----------------------------------------------------------------------------
(* Properties *)

\* The reviewer on record is somebody other than the author from the sign-off
\* on, and a version that came into force was approved by a third person.  A
\* rejection in between must not leave an earlier sign-off behind.
SegregationOfDuties ==
    \A i \in DOMAIN versions :
        LET v == versions[i] IN
        /\ v.status \in {"Pending_Approval", "Effective", "Obsolete"} =>
              v.reviewed_by \in Users \ {v.author}
        /\ v.status \in {"Effective", "Obsolete"} =>
              v.approved_by \in Users \ {v.author, v.reviewed_by}
        /\ v.status \in InFlight => v.approved_by = NoUser
        /\ v.status \in {"Draft", "In_Review"} => v.reviewed_by = NoUser

\* A document is scheduled for periodic review on account of the version in
\* force and of no other.
ReviewClockFollowsForce ==
    \A d \in Docs :
        documents[d].next_review # 0 =>
            documents[d].next_review \in EffectiveOf(versions, d)

\* The retention period of a document (after which it may be disposed of)
\* runs only while no version of it is in force.
RetentionClockRunsOnlyOutOfForce ==
    \A d \in Docs :
        documents[d].retention_until # 0 => EffectiveOf(versions, d) = {}

\* A document is left without an effective version only by a manual
\* obsolescence, which starts the retention period its policy asks for.
RetirementStartsRetention ==
    [][\A d \in Docs :
          EffectiveOf(versions, d) # {} /\ EffectiveOf(versions', d) = {} =>
              /\ documents'[d].next_review = 0
              /\ documents'[d].retention_until \in
                    IF documents[d].retention_period THEN EffectiveOf(versions, d) ELSE {0}]_vars

\* The entry of the register that version i of the table amounts to.
EntryOf(i) ==
    [version  |-> i,
     document |-> versions[i].document,
     author   |-> versions[i].author,
     reviewer |-> versions[i].reviewed_by,
     approver |-> versions[i].approved_by]

WithStatus(statuses) == {i \in DOMAIN versions : versions[i].status \in statuses}

Register == INSTANCE DocumentRegister WITH
    issued    <- {EntryOf(i) : i \in WithStatus({"Effective", "Obsolete"})},
    withdrawn <- WithStatus({"Obsolete"})

\* The versions that are or were effective form a register of issues: three
\* signatories each, never altered, at most one in force per document.
IsRegister == Register!Spec

\* The comment in create_version: "Guard against two drafts in flight at once."
OneRevisionInFlight ==
    \A i, j \in DOMAIN versions :
        /\ versions[i].status \in InFlight
        /\ versions[j].status \in InFlight
        /\ versions[i].document = versions[j].document
        => i = j

\* A document of which no upload was ever suspended has one revision in
\* flight, and its versions are numbered in the order they were uploaded.
RevisionsInOrder ==
    \A i, j \in DOMAIN versions :
        /\ versions[i].document = versions[j].document
        /\ versions[i].document \notin spooled
        /\ i < j
        => /\ versions[i].status \notin InFlight
           /\ versions[i].version_number < versions[j].version_number

\* Such a document never goes back to an older revision: what comes into force
\* is newer than everything that has ever been in force.
NoReturnToOlderRevision ==
    [][\A i \in DOMAIN versions, j \in DOMAIN versions :
          /\ versions[i].status # "Effective" /\ versions'[i].status = "Effective"
          /\ versions[i].document = versions[j].document
          /\ versions[i].document \notin spooled
          /\ versions[j].status \in {"Effective", "Obsolete"}
          => versions[j].version_number < versions[i].version_number]_vars

============================================================================
