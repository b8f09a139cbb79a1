---------------------------- MODULE BlobStorage ----------------------------
(***************************************************************************)
(* Files and the rows that describe them: the uploads of attachments.py    *)
(* and of alerts.py (signed acknowledgements, and images, of which an      *)
(* alert has one per slot), the deletion of an image, the storage backend  *)
(* of app/core/storage.py and the sessions of app/database.py.             *)
(*                                                                         *)
(* The store of blobs and the database are not written in one transaction. *)
(* Every process has an event loop that runs one handler until it awaits   *)
(* or returns, and a pool of connections; a handler takes a connection     *)
(* with its first query and gives it back when it is answered, so that it  *)
(* holds it while it awaits the file.  The query itself is not awaited:    *)
(* when the pool is empty the whole loop waits for it, for as long as the  *)
(* pool's timeout.  A process may stop between any two steps.              *)
(*                                                                         *)
(* Left out: the events and alerts themselves, the reading requests and    *)
(* what is recorded of a file besides its key.                             *)
(***************************************************************************)
EXTENDS Naturals, FiniteSets

CONSTANTS
    Processes,      \* server processes
    Requests,       \* ids of requests
    Parents,        \* events and alerts
    Slots,          \* image slots: pairs of an alert and a position
    Keys,           \* storage keys
    Connections,    \* connections of a process's pool
    Null

ASSUME ConnectionsAssumption == Connections \in Nat \ {0}
ASSUME NullAssumption == Null \notin Keys \cup Requests

VARIABLES
    blobs,          \* keys of the blobs in the store
    files,          \* attachments and alert_acknowledgements: [parent, key]
    images,         \* alert_images: of each slot the row's key, or Null
    requests,       \* requests under way
    loop,           \* of each process, the request its event loop is running
    failed          \* history: keys of requests that failed or overlapped

tables == <<files, images>>

vars == <<blobs, tables, requests, loop, failed>>

Phase == {"arrived", "connecting", "reading", "read", "saving", "saved", "replaced"}

File == [parent : Parents, key : Keys]

\* `target' is the parent of a file or the slot of an image, `key' the new
\* blob's, `loaded' that of the image row read; `gone' tells that another
\* request has deleted that row.
Request ==
    [op : {"attach", "image", "delete"}, process : Processes, target : Parents \cup Slots,
     key : Keys \cup {Null}, phase : Phase, loaded : Keys \cup {Null}, gone : BOOLEAN]

TypeOK ==
    /\ blobs \subseteq Keys
    /\ files \subseteq File
    /\ images \in [Slots -> Keys \cup {Null}]
    /\ DOMAIN requests \subseteq Requests /\ requests \in [DOMAIN requests -> Request]
    /\ loop \in [Processes -> DOMAIN requests \cup {Null}]
    /\ failed \subseteq Keys

Init ==
    /\ blobs = {}
    /\ files = {}
    /\ images = [s \in Slots |-> Null]
    /\ requests = [r \in {} |-> Null]
    /\ loop = [p \in Processes |-> Null]
    /\ failed = {}

----------------------------------------------------------------------------
(* Requests, the event loop and the pool *)

At(r, phase) == r \in DOMAIN requests /\ requests[r].phase = phase

Running(r) == r \in DOMAIN requests /\ loop[requests[r].process] = r

\* The connections of a process that are in use.
InUse(p) ==
    {r \in DOMAIN requests :
        requests[r].process = p /\ requests[r].phase \notin {"arrived", "connecting"}}

ConnectionFree(p) == Cardinality(InUse(p)) < Connections

Named == {f.key : f \in files} \cup {images[s] : s \in Slots}

\* Keys that a request is about to name or to replace.
Underway ==
    {requests[r].key : r \in DOMAIN requests} \cup {requests[r].loaded : r \in DOMAIN requests}

\* uuid4: nobody knows the key that an upload is given.
Fresh(key) == key \notin blobs \cup Named \cup Underway

MoveTo(r, phase) == requests' = [requests EXCEPT ![r].phase = phase]

Release(p) == loop' = [loop EXCEPT ![p] = Null]

\* The response; the session is closed and its connection returned.
\* Mutant: the loop goes on waiting for a request it has answered.
Answer_Mutant(r) ==
    /\ requests' = [x \in DOMAIN requests \ {r} |-> requests[x]]
    /\ UNCHANGED loop

Answer(r) ==
    /\ requests' = [x \in DOMAIN requests \ {r} |-> requests[x]]
    /\ Release(requests[r].process)

Arrive(r, op, p, target, key) ==
    /\ r \notin DOMAIN requests
    /\ requests' = [x \in DOMAIN requests \cup {r} |->
           IF x = r THEN [op |-> op, process |-> p, target |-> target, key |-> key,
                          phase |-> "arrived", loaded |-> Null, gone |-> FALSE]
           ELSE requests[x]]
    /\ failed' = failed \ {key}
    /\ UNCHANGED <<blobs, tables, loop>>

Start(r) ==
    /\ At(r, "arrived")
    /\ loop[requests[r].process] = Null
    /\ loop' = [loop EXCEPT ![requests[r].process] = r]
    /\ MoveTo(r, "connecting")
    /\ UNCHANGED <<blobs, tables, failed>>

\* The first query.  An upload goes on to await its file.
Connect(r) ==
    /\ At(r, "connecting")
    /\ ConnectionFree(requests[r].process)
    /\ IF requests[r].op = "delete"
       THEN MoveTo(r, "saved") /\ UNCHANGED loop
       ELSE MoveTo(r, "reading") /\ Release(requests[r].process)
    /\ UNCHANGED <<blobs, tables, failed>>

\* QueuePool's timeout: the request is answered with an error.
\* Mutant: the pool waits for ever.
PoolTimeout_Mutant(r) == FALSE /\ UNCHANGED vars

PoolTimeout(r) ==
    /\ At(r, "connecting")
    /\ ~ConnectionFree(requests[r].process)
    /\ Answer(r)
    /\ UNCHANGED <<blobs, tables, failed>>

\* A thread of the pool has read the file.
Read(r) ==
    /\ At(r, "reading")
    /\ MoveTo(r, "read")
    /\ UNCHANGED <<blobs, tables, loop, failed>>

Resume(r) ==
    /\ At(r, "read")
    /\ loop[requests[r].process] = Null
    /\ loop' = [loop EXCEPT ![requests[r].process] = r]
    /\ MoveTo(r, "saving")
    /\ UNCHANGED <<blobs, tables, failed>>

----------------------------------------------------------------------------
(* The handlers *)

\* No such event or alert, an invalid slot, an empty file or one too large.
Refuse(r) ==
    /\ Running(r)
    /\ \/ requests[r].phase = "connecting" /\ ConnectionFree(requests[r].process)
       \/ requests[r].phase = "saving"
    /\ Answer(r)
    /\ UNCHANGED <<blobs, tables, failed>>

Save(r) ==
    /\ At(r, "saving")
    /\ blobs' = blobs \cup {requests[r].key}
    /\ MoveTo(r, "saved")
    /\ UNCHANGED <<tables, loop, failed>>

\* upload_attachment and the upload of alert_acknowledge_submit.
CommitFile(r) ==
    /\ At(r, "saved") /\ requests[r].op = "attach"
    /\ files' = files \cup {[parent |-> requests[r].target, key |-> requests[r].key]}
    /\ Answer(r)
    /\ UNCHANGED <<blobs, images, failed>>

\* alert_image_upload and alert_image_delete: the row of the slot is read and
\* its blob deleted from the store.
\* Mutant: an image's deletion leaves its blob.
Replace_Mutant(r) ==
    LET slot == requests[r].target
    IN  /\ At(r, "saved") /\ requests[r].op \in {"image", "delete"}
        /\ blobs' = IF requests[r].op = "delete" THEN blobs ELSE blobs \ {images[slot]}
        /\ requests' = [requests EXCEPT ![r].phase = "replaced", ![r].loaded = images[slot]]
        /\ UNCHANGED <<tables, loop, failed>>

Replace(r) ==
    LET slot == requests[r].target
    IN  /\ At(r, "saved") /\ requests[r].op \in {"image", "delete"}
        /\ blobs' = blobs \ {images[slot]}
        /\ requests' = [requests EXCEPT ![r].phase = "replaced", ![r].loaded = images[slot]]
        /\ UNCHANGED <<tables, loop, failed>>

\* What another request has put in the slot since is named no more.
Overlapped(r) == {images[requests[r].target]} \ {requests[r].loaded, Null}

\* The row read is updated, if it is still there; or a row is inserted, if none
\* has been since.
CommitImage(r) ==
    LET slot == requests[r].target
    IN  /\ At(r, "replaced") /\ requests[r].op = "image"
        /\ IF requests[r].loaded = Null THEN images[slot] = Null ELSE ~requests[r].gone
        /\ images' = [images EXCEPT ![slot] = requests[r].key]
        /\ failed' = failed \cup Overlapped(r)
        /\ Answer(r)
        /\ UNCHANGED <<blobs, files>>

\* Deleting a row that is gone changes nothing.
CommitDelete(r) ==
    LET slot == requests[r].target
        deletes == requests[r].loaded # Null /\ ~requests[r].gone
    IN  /\ At(r, "replaced") /\ requests[r].op = "delete"
        /\ images' = IF deletes THEN [images EXCEPT ![slot] = Null] ELSE images
        /\ failed' = IF deletes THEN failed \cup Overlapped(r) ELSE failed
        /\ requests' = [x \in DOMAIN requests \ {r} |->
               IF deletes /\ requests[x].target = slot /\ requests[x].loaded # Null
               THEN [requests[x] EXCEPT !.gone = TRUE] ELSE requests[x]]
        /\ Release(requests[r].process)
        /\ UNCHANGED <<blobs, files>>

----------------------------------------------------------------------------
(* Failures *)

\* The keys a request has saved or deleted and whose row is not committed.
Touched(r) ==
    CASE requests[r].phase = "saved"    -> {requests[r].key} \ {Null}
      [] requests[r].phase = "replaced" -> {requests[r].key, requests[r].loaded} \ {Null}
      [] OTHER                          -> {}

\* An error of the store or the database: the answer is an error.
Fail(r) ==
    /\ Running(r) /\ requests[r].phase # "connecting"
    /\ failed' = failed \cup Touched(r)
    /\ Answer(r)
    /\ UNCHANGED <<blobs, tables>>

\* The process stops and is started again; its requests are lost.
Crash(p) ==
    LET lost == {r \in DOMAIN requests : requests[r].process = p}
    IN  /\ failed' = failed \cup UNION {Touched(r) : r \in lost}
        /\ requests' = [r \in DOMAIN requests \ lost |-> requests[r]]
        /\ Release(p)
        /\ UNCHANGED <<blobs, tables>>

----------------------------------------------------------------------------

Client(r) ==
    \E p \in Processes :
        \/ \E key \in Keys : Fresh(key) /\ (\/ \E n \in Parents : Arrive(r, "attach", p, n, key)
                                            \/ \E s \in Slots : Arrive(r, "image", p, s, key))
        \/ \E s \in Slots : Arrive(r, "delete", p, s, Null)

\* What the handler on the loop does next, when nothing fails.
Handler(r) ==
    \/ Connect(r) \/ PoolTimeout(r)
    \/ Save(r) \/ CommitFile(r) \/ Replace(r) \/ CommitImage(r) \/ CommitDelete(r)

Next ==
    \/ \E r \in Requests :
          Client(r) \/ Start(r) \/ Read(r) \/ Resume(r) \/ Handler(r) \/ Refuse(r) \/ Fail(r)
    \/ \E p \in Processes : Crash(p)

\* The processes run: the handler on a loop goes on or fails, a thread reads
\* the file it was given, and the loop, which takes its callbacks in the order
\* they became ready, passes none over for ever.
Fairness ==
    \A r \in Requests :
        /\ WF_vars(Handler(r) \/ Fail(r))
        /\ WF_vars(Read(r))
        /\ SF_vars(Start(r))
        /\ SF_vars(Resume(r))

Spec == Init /\ [][Next]_vars /\ Fairness

----------------------------------------------------------------------------
(* Properties *)

\* A committed row names a blob that is in the store, and a blob in the store
\* is named by a row, while no handler is on its way between the two; except
\* after a request that failed, or lost its process, between them, or whose
\* image another request replaced at the same time.
StoreMatchesTables ==
    /\ Named \ {Null} \subseteq blobs \cup failed \cup Underway
    /\ blobs \subseteq Named \cup failed \cup Underway

\* Every request is answered in the end, with an error if need be, also when
\* handlers that await their files hold all the connections of the process.
EveryRequestAnswered == \A r \in Requests : r \in DOMAIN requests ~> r \notin DOMAIN requests

============================================================================
