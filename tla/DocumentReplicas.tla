-------------------------- MODULE DocumentReplicas --------------------------
(***************************************************************************)
(* Document control when more than one process serves the application: the *)
(* replicas the repository's README speaks of, or the old and the new      *)
(* instance while a deployment is rolled over.  A handler loads rows,      *)
(* decides on what it has loaded and commits; other processes commit in    *)
(* between.  Nothing is locked and no row carries a revision counter; the  *)
(* unit of work writes the columns whose value differs from the one it     *)
(* loaded and leaves the others alone.                                     *)
(***************************************************************************)
EXTENDS DocumentTables

VARIABLE
    handlers        \* handlers between their reads and their commit

replicas_vars == <<registered, documents, versions, handlers>>

Tables == [documents : [Docs -> Document], versions : Seq(Version)]

ReplicasTypeOK ==
    /\ TablesOK
    /\ handlers \subseteq [request : Requests, loaded : Tables, written : Tables]

ReplicasInit == EmptyTables /\ handlers = {}

\* A version is found whether or not its document has been deleted.
VersionOr404(i) == i \in DOMAIN versions

CreateHandler(d, review, retention) ==
    /\ Insert(d, review, retention)
    /\ UNCHANGED <<versions, handlers>>

\* A handler has loaded the tables and computed what it will write.
Handle(r, newDocuments, newVersions) ==
    /\ \A h \in handlers : h.request # r
    /\ handlers' = handlers \cup
           {[request |-> r,
             loaded  |-> [documents |-> documents, versions |-> versions],
             written |-> [documents |-> newDocuments, versions |-> newVersions]]}
    /\ UNCHANGED <<registered, documents, versions>>

UploadHandler(r, d, user) ==
    /\ Available(d)
    /\ ~RevisionInProgress(versions, d)
    /\ Handle(r, documents,
              Append(versions, NewVersion(d, NextVersionNumber(versions, d), user)))

EditHandler(r, d, review, retention) ==
    /\ Available(d)
    /\ Handle(r, [documents EXCEPT ![d].review_period = review,
                                   ![d].retention_period = retention], versions)

DeleteHandler(r, d) ==
    /\ Available(d)
    /\ Handle(r, [documents EXCEPT ![d].is_active = FALSE], versions)

SubmitHandler(r, i) ==
    /\ VersionOr404(i)
    /\ CanSubmit(versions[i])
    /\ Handle(r, documents, [versions EXCEPT ![i] = Submitted(@)])

ReviewHandler(r, i, actor) ==
    /\ VersionOr404(i)
    /\ CanSignOff(versions[i], actor)
    /\ Handle(r, documents, [versions EXCEPT ![i] = SignedOff(@, actor)])

ApproveHandler(r, i, actor) ==
    LET d == versions[i].document IN
    /\ VersionOr404(i)
    /\ Available(d)
    /\ CanApprove(versions[i], actor)
    /\ Handle(r, [documents EXCEPT ![d] = DocumentApproved(@, i)],
              Approved(versions, i, actor))

RejectHandler(r, i, actor) ==
    /\ VersionOr404(i)
    /\ CanReject(versions[i], actor)
    /\ Handle(r, documents, [versions EXCEPT ![i] = SentBack(@)])

ObsoleteHandler(r, i) ==
    LET d == versions[i].document IN
    /\ VersionOr404(i)
    /\ Available(d)
    /\ CanObsolete(versions[i])
    /\ Handle(r, [documents EXCEPT ![d] = DocumentRetired(@, i)],
              [versions EXCEPT ![i] = Retired(@)])

\* UPDATE ... SET only the columns whose value changed since they were loaded.
Updated(row, loaded, written) ==
    [column \in DOMAIN row |->
        IF written[column] # loaded[column] THEN written[column] ELSE row[column]]

Commit(h) ==
    LET old == h.loaded
        new == h.written
        inserted == SubSeq(new.versions, Len(old.versions) + 1, Len(new.versions))
    IN  /\ Len(versions \o inserted) <= MaxVersions
        /\ documents' = [d \in Docs |->
               Updated(documents[d], old.documents[d], new.documents[d])]
        /\ versions' = [i \in DOMAIN versions |->
               IF i \in DOMAIN old.versions
               THEN Updated(versions[i], old.versions[i], new.versions[i])
               ELSE versions[i]] \o inserted
        /\ handlers' = handlers \ {h}
        /\ UNCHANGED registered

\* The process stops, the database refuses or the upload is empty or too large.
RollBack(h) ==
    /\ handlers' = handlers \ {h}
    /\ UNCHANGED <<registered, documents, versions>>

ReplicasNext ==
    \/ \E d \in Docs, review, retention \in BOOLEAN : CreateHandler(d, review, retention)
    \/ \E r \in Requests :
          \/ \E d \in Docs :
                \/ DeleteHandler(r, d)
                \/ \E user \in Users : UploadHandler(r, d, user)
                \/ \E review, retention \in BOOLEAN : EditHandler(r, d, review, retention)
          \/ \E i \in 1 .. MaxVersions :
                \/ SubmitHandler(r, i)
                \/ ObsoleteHandler(r, i)
                \/ \E actor \in Users :
                      \/ ReviewHandler(r, i, actor)
                      \/ ApproveHandler(r, i, actor)
                      \/ RejectHandler(r, i, actor)
    \/ \E h \in handlers : Commit(h) \/ RollBack(h)

ReplicasSpec == ReplicasInit /\ [][ReplicasNext]_replicas_vars

----------------------------------------------------------------------------
(* Properties *)

\* Whatever handlers overlap, nobody is on record as reviewer or approver of a
\* version of his own: the author column is never written again, so a check
\* made on a stale row is still right about the author.
AuthorNeverSigns ==
    \A i \in DOMAIN versions :
        versions[i].author \notin {versions[i].reviewed_by, versions[i].approved_by}

============================================================================
