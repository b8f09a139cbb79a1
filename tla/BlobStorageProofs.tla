------------------------- MODULE BlobStorageProofs -------------------------
(***************************************************************************)
(* Proofs about BlobStorage, for any number of processes, connections,     *)
(* requests and keys.  They rest on the life of a key: it is fresh when    *)
(* an upload is given it, belongs to that upload alone until its row is    *)
(* committed, and, once its blob has been deleted for a replacement, is    *)
(* nobody else's while the replacement is under way.                       *)
(***************************************************************************)
EXTENDS BlobStorage, FiniteSetTheorems, TLAPS

\* The phases in which a request runs on the event loop of its process.
OnLoop == {"connecting", "saving", "saved", "replaced"}

\* A loop runs a request of its own process, and the requests in those phases
\* are the ones that loops run.
LoopSound ==
    /\ \A p \in Processes : loop[p] # Null => requests[loop[p]].process = p
    /\ \A r \in DOMAIN requests : requests[r].phase \in OnLoop <=> Running(r)

\* What a request of each kind has, and has loaded, in each phase.
Shape(q) ==
    /\ q.op = "delete" =>
          q.key = Null /\ q.phase \in {"arrived", "connecting", "saved", "replaced"}
    /\ q.op # "delete" => q.key # Null
    /\ q.op = "attach" => q.target \in Parents /\ q.phase # "replaced"
    /\ q.op # "attach" => q.target \in Slots
    /\ q.phase # "replaced" => q.loaded = Null /\ ~q.gone

WellFormed == \A r \in DOMAIN requests : Shape(requests[r])

\* No key is named by two slots, or by a slot and a file.
NamesUnique ==
    /\ \A f \in files, s \in Slots : f.key # images[s]
    /\ \A s, t \in Slots : images[s] = images[t] /\ images[s] # Null => s = t

\* The key of an upload is named nowhere, is no other request's, and is in the
\* store from the save on.
KeysOwn ==
    \A r \in DOMAIN requests : requests[r].key # Null =>
        /\ requests[r].key \notin Named
        /\ \A x \in DOMAIN requests : requests[x].loaded # requests[r].key
        /\ \A x \in DOMAIN requests : requests[x].key = requests[r].key => x = r
        /\ requests[r].key \in blobs <=> requests[r].phase \in {"saved", "replaced"}

\* The key that a replacement has loaded is no longer in the store, and named at
\* most in the slot it was loaded from, and there only until the row is deleted.
LoadedReplaced ==
    \A r \in DOMAIN requests : requests[r].loaded # Null =>
        /\ requests[r].loaded \notin blobs
        /\ \A f \in files : f.key # requests[r].loaded
        /\ \A s \in Slots : images[s] = requests[r].loaded =>
              s = requests[r].target /\ ~requests[r].gone

\* The handlers of a process never hold more connections than its pool has.
PoolNeverExceeded ==
    \A p \in Processes : IsFiniteSet(InUse(p)) /\ Cardinality(InUse(p)) <= Connections

Inv == TypeOK /\ LoopSound /\ WellFormed

KeyInv == NamesUnique /\ KeysOwn /\ LoadedReplaced

----------------------------------------------------------------------------
(* Requests *)

\* The columns of a request.
LEMMA Fields ==
    ASSUME TypeOK, NEW r \in DOMAIN requests
    PROVE  /\ r \in Requests /\ r # Null
           /\ requests[r] \in Request
           /\ requests[r].process \in Processes
           /\ requests[r].op \in {"attach", "image", "delete"}
           /\ requests[r].target \in Parents \cup Slots
           /\ requests[r].key \in Keys \cup {Null}
           /\ requests[r].loaded \in Keys \cup {Null}
           /\ requests[r].phase \in Phase
           /\ requests[r].gone \in BOOLEAN
  BY NullAssumption DEF TypeOK, Request

\* A request that goes on to another phase.
LEMMA Moves ==
    ASSUME TypeOK, NEW r \in DOMAIN requests, NEW phase \in Phase, MoveTo(r, phase)
    PROVE  /\ DOMAIN requests' = DOMAIN requests
           /\ requests' \in [DOMAIN requests -> Request]
           /\ \A x \in DOMAIN requests :
                 /\ requests'[x].op = requests[x].op
                 /\ requests'[x].process = requests[x].process
                 /\ requests'[x].target = requests[x].target
                 /\ requests'[x].key = requests[x].key
                 /\ requests'[x].loaded = requests[x].loaded
                 /\ requests'[x].gone = requests[x].gone
                 /\ requests'[x].phase = IF x = r THEN phase ELSE requests[x].phase
           /\ Underway' = Underway
  <1>1. requests' = [requests EXCEPT ![r].phase = phase]
    BY DEF MoveTo
  <1>2. requests \in [DOMAIN requests -> Request]
    BY DEF TypeOK
  <1>3. DOMAIN requests' = DOMAIN requests /\ requests' \in [DOMAIN requests -> Request]
    BY <1>1, <1>2 DEF Request
  <1>4. \A x \in DOMAIN requests :
           /\ requests'[x].op = requests[x].op
           /\ requests'[x].process = requests[x].process
           /\ requests'[x].target = requests[x].target
           /\ requests'[x].key = requests[x].key
           /\ requests'[x].loaded = requests[x].loaded
           /\ requests'[x].gone = requests[x].gone
           /\ requests'[x].phase = IF x = r THEN phase ELSE requests[x].phase
    BY <1>1, <1>2 DEF Request
  <1>5. Underway' = Underway
    BY <1>3, <1>4 DEF Underway
  <1>. QED  BY <1>3, <1>4, <1>5

\* Requests that are answered or lost.
Ends(over) == requests' = [x \in DOMAIN requests \ over |-> requests[x]]

LEMMA Ending ==
    ASSUME TypeOK, NEW over, Ends(over)
    PROVE  /\ DOMAIN requests' = DOMAIN requests \ over
           /\ \A x \in DOMAIN requests' : x \in DOMAIN requests /\ requests'[x] = requests[x]
           /\ requests' \in [DOMAIN requests' -> Request]
           /\ DOMAIN requests' \subseteq Requests
  BY DEF Ends, TypeOK

LEMMA Answering ==
    ASSUME NEW r, Answer(r)
    PROVE  Ends({r}) /\ loop' = [loop EXCEPT ![requests[r].process] = Null]
  BY DEF Answer, Ends, Release

\* A request that arrives.
LEMMA Arrival ==
    ASSUME TypeOK, NEW r \in Requests, NEW op \in {"attach", "image", "delete"},
           NEW p \in Processes, NEW target \in Parents \cup Slots, NEW key \in Keys \cup {Null},
           Arrive(r, op, p, target, key)
    PROVE  /\ r \notin DOMAIN requests
           /\ DOMAIN requests' = DOMAIN requests \cup {r}
           /\ \A x \in DOMAIN requests : requests'[x] = requests[x]
           /\ requests'[r].op = op /\ requests'[r].process = p
           /\ requests'[r].target = target /\ requests'[r].key = key
           /\ requests'[r].phase = "arrived" /\ requests'[r].loaded = Null
           /\ requests'[r].gone = FALSE
           /\ requests' \in [DOMAIN requests' -> Request]
           /\ DOMAIN requests' \subseteq Requests
  <1>1. requests' = [x \in DOMAIN requests \cup {r} |->
             IF x = r THEN [op |-> op, process |-> p, target |-> target, key |-> key,
                            phase |-> "arrived", loaded |-> Null, gone |-> FALSE]
             ELSE requests[x]]
        /\ r \notin DOMAIN requests
    BY DEF Arrive
  <1>2. [op |-> op, process |-> p, target |-> target, key |-> key,
         phase |-> "arrived", loaded |-> Null, gone |-> FALSE] \in Request
    BY DEF Request, Phase
  <1>. QED  BY <1>1, <1>2 DEF TypeOK

\* A request that has read the row of its slot.
LEMMA Replacing ==
    ASSUME TypeOK, NEW r \in DOMAIN requests, NEW loaded \in Keys \cup {Null},
           requests' = [requests EXCEPT ![r].phase = "replaced", ![r].loaded = loaded]
    PROVE  /\ DOMAIN requests' = DOMAIN requests
           /\ requests' \in [DOMAIN requests -> Request]
           /\ \A x \in DOMAIN requests :
                 /\ requests'[x].op = requests[x].op
                 /\ requests'[x].process = requests[x].process
                 /\ requests'[x].target = requests[x].target
                 /\ requests'[x].key = requests[x].key
                 /\ requests'[x].loaded = IF x = r THEN loaded ELSE requests[x].loaded
                 /\ requests'[x].gone = requests[x].gone
                 /\ requests'[x].phase = IF x = r THEN "replaced" ELSE requests[x].phase
  <1>1. requests \in [DOMAIN requests -> Request]
    BY DEF TypeOK
  <1>2. "replaced" \in Phase
    BY DEF Phase
  <1>3. DOMAIN requests' = DOMAIN requests /\ requests' \in [DOMAIN requests -> Request]
    BY <1>1, <1>2 DEF Request
  <1>. QED  BY <1>1, <1>3 DEF Request

\* A deletion that ends tells the others that have loaded the row.
LEMMA Deleting ==
    ASSUME TypeOK, NEW r \in DOMAIN requests, CommitDelete(r)
    PROVE  /\ DOMAIN requests' = DOMAIN requests \ {r}
           /\ requests' \in [DOMAIN requests' -> Request]
           /\ \A x \in DOMAIN requests' :
                 /\ requests'[x].op = requests[x].op
                 /\ requests'[x].process = requests[x].process
                 /\ requests'[x].target = requests[x].target
                 /\ requests'[x].key = requests[x].key
                 /\ requests'[x].loaded = requests[x].loaded
                 /\ requests'[x].phase = requests[x].phase
                 /\ requests'[x].gone =
                       \/ requests[x].gone
                       \/ /\ requests[r].loaded # Null /\ ~requests[r].gone
                          /\ requests[x].target = requests[r].target
                          /\ requests[x].loaded # Null
           /\ loop' = [loop EXCEPT ![requests[r].process] = Null]
  <1>. DEFINE told(x) == /\ requests[r].loaded # Null /\ ~requests[r].gone
                         /\ requests[x].target = requests[r].target
                         /\ requests[x].loaded # Null
  <1>1. requests \in [DOMAIN requests -> Request]
    BY DEF TypeOK
  <1>2. requests' = [x \in DOMAIN requests \ {r} |->
             IF told(x) THEN [requests[x] EXCEPT !.gone = TRUE] ELSE requests[x]]
    BY DEF CommitDelete
  <1>3. DOMAIN requests' = DOMAIN requests \ {r}
    BY <1>2
  <1>4. \A x \in DOMAIN requests' :
           /\ requests'[x] \in Request
           /\ requests'[x].op = requests[x].op
           /\ requests'[x].process = requests[x].process
           /\ requests'[x].target = requests[x].target
           /\ requests'[x].key = requests[x].key
           /\ requests'[x].loaded = requests[x].loaded
           /\ requests'[x].phase = requests[x].phase
           /\ requests'[x].gone = (requests[x].gone \/ told(x))
    <2>. SUFFICES ASSUME NEW x \in DOMAIN requests \ {r}
                  PROVE  /\ requests'[x] \in Request
                         /\ requests'[x].op = requests[x].op
                         /\ requests'[x].process = requests[x].process
                         /\ requests'[x].target = requests[x].target
                         /\ requests'[x].key = requests[x].key
                         /\ requests'[x].loaded = requests[x].loaded
                         /\ requests'[x].phase = requests[x].phase
                         /\ requests'[x].gone = (requests[x].gone \/ told(x))
      BY <1>3
    <2>1. requests[x] \in Request
      BY <1>1
    <2>2. CASE told(x)
      <3>1. requests'[x] = [requests[x] EXCEPT !.gone = TRUE]
        BY <1>2, <2>2
      <3>. QED  BY <2>1, <2>2, <3>1 DEF Request
    <2>3. CASE ~told(x)
      <3>1. requests'[x] = requests[x]
        BY <1>2, <2>3
      <3>. QED  BY <2>1, <2>3, <3>1 DEF Request
    <2>. QED  BY <2>2, <2>3
  <1>5. requests' \in [DOMAIN requests' -> Request]
    <2>1. requests' = [x \in DOMAIN requests' |-> requests'[x]]
      BY <1>2, <1>3
    <2>. QED  BY <2>1, <1>4
  <1>6. loop' = [loop EXCEPT ![requests[r].process] = Null]
    BY DEF CommitDelete, Release
  <1>. QED  BY <1>3, <1>4, <1>5, <1>6

----------------------------------------------------------------------------
(* Types, the event loops and the shape of requests *)

RequestsSound ==
    /\ DOMAIN requests \subseteq Requests /\ requests \in [DOMAIN requests -> Request]
    /\ loop \in [Processes -> DOMAIN requests \cup {Null}]
    /\ LoopSound
    /\ WellFormed

StoreTyped ==
    /\ blobs \subseteq Keys
    /\ files \subseteq File
    /\ images \in [Slots -> Keys \cup {Null}]
    /\ failed \subseteq Keys

\* A running request is the one its process's loop runs.
LEMMA LoopOf ==
    ASSUME Inv, NEW r \in DOMAIN requests
    PROVE  /\ requests[r].phase \in OnLoop <=> loop[requests[r].process] = r
           /\ \A p \in Processes : loop[p] = r => p = requests[r].process
           /\ \A p \in Processes : loop[p] \in DOMAIN requests \cup {Null}
  BY Fields DEF Inv, TypeOK, LoopSound, Running

\* A request that moves while it keeps the loop.
LEMMA MovingSound ==
    ASSUME Inv, NEW r \in DOMAIN requests,
           DOMAIN requests' = DOMAIN requests,
           requests' \in [DOMAIN requests -> Request],
           \A x \in DOMAIN requests :
              /\ requests'[x].process = requests[x].process
              /\ x # r => requests'[x].phase = requests[x].phase,
           loop' \in [Processes -> DOMAIN requests \cup {Null}],
           \A p \in Processes \ {requests[r].process} : loop'[p] = loop[p],
           IF requests'[r].phase \in OnLoop
              THEN loop'[requests[r].process] = r ELSE loop'[requests[r].process] = Null,
           loop[requests[r].process] \in {r, Null}
    PROVE  LoopSound'
  <1>. DEFINE p == requests[r].process
  <1>1. p \in Processes /\ r # Null
    BY Fields DEF Inv
  <1>2. ASSUME NEW q \in Processes, loop'[q] # Null
        PROVE  requests'[loop'[q]].process = q
    <2>1. CASE q = p
      BY <1>1, <1>2, <2>1
    <2>2. CASE q # p
      BY <1>2, <2>2 DEF Inv, TypeOK, LoopSound
    <2>. QED  BY <2>1, <2>2
  <1>3. ASSUME NEW x \in DOMAIN requests
        PROVE  requests'[x].phase \in OnLoop <=> loop'[requests'[x].process] = x
    <2>1. CASE x = r
      BY <1>1, <2>1
    <2>2. CASE x # r
      <3>1. requests[x].phase \in OnLoop <=> loop[requests[x].process] = x
        BY LoopOf
      <3>2. requests[x].process \in Processes /\ x # Null
        BY Fields DEF Inv
      <3>3. CASE requests[x].process = p
        BY <1>1, <2>2, <3>1, <3>2, <3>3
      <3>4. CASE requests[x].process # p
        BY <1>1, <2>2, <3>1, <3>2, <3>4
      <3>. QED  BY <3>3, <3>4
    <2>. QED  BY <2>1, <2>2
  <1>. QED  BY <1>2, <1>3 DEF LoopSound, Running

\* Requests that end free the loops that ran them.
LEMMA EndingSound ==
    ASSUME Inv, NEW over \in SUBSET DOMAIN requests,
           DOMAIN requests' = DOMAIN requests \ over,
           requests' \in [DOMAIN requests' -> Request],
           \A x \in DOMAIN requests' :
              /\ requests'[x].op = requests[x].op
              /\ requests'[x].process = requests[x].process
              /\ requests'[x].target = requests[x].target
              /\ requests'[x].key = requests[x].key
              /\ requests'[x].loaded = requests[x].loaded
              /\ requests'[x].phase = requests[x].phase
              /\ requests'[x].gone => requests[x].gone \/ requests[x].loaded # Null,
           loop' = [p \in Processes |-> IF loop[p] \in over THEN Null ELSE loop[p]]
    PROVE  RequestsSound'
  <1>1. DOMAIN requests \subseteq Requests /\ loop \in [Processes -> DOMAIN requests \cup {Null}]
    BY DEF Inv, TypeOK
  <1>2. DOMAIN requests' \subseteq Requests /\ loop' \in [Processes -> DOMAIN requests' \cup {Null}]
    BY <1>1
  <1>3. Null \notin DOMAIN requests
    BY <1>1, NullAssumption
  <1>4. ASSUME NEW p \in Processes, loop'[p] # Null
        PROVE  requests'[loop'[p]].process = p
    <2>1. loop'[p] = loop[p] /\ loop[p] \in DOMAIN requests'
      BY <1>1, <1>4
    <2>. QED  BY <1>4, <2>1 DEF Inv, LoopSound
  <1>5. ASSUME NEW x \in DOMAIN requests'
        PROVE  requests'[x].phase \in OnLoop <=> loop'[requests'[x].process] = x
    <2>1. x \in DOMAIN requests /\ requests[x].process \in Processes /\ x # Null /\ x \notin over
      BY <1>3, Fields DEF Inv
    <2>2. requests[x].phase \in OnLoop <=> loop[requests[x].process] = x
      BY <2>1, LoopOf
    <2>. QED  BY <2>1, <2>2
  <1>6. WellFormed'
    <2>. SUFFICES ASSUME NEW x \in DOMAIN requests'
                  PROVE  Shape(requests'[x])
      BY DEF WellFormed
    <2>1. Shape(requests[x])
      BY DEF Inv, WellFormed
    <2>. QED  BY <2>1 DEF Shape
  <1>. QED  BY <1>2, <1>4, <1>5, <1>6 DEF RequestsSound, LoopSound, Running

\* A request that is answered was running.
LEMMA AnsweringSound ==
    ASSUME Inv, NEW r \in DOMAIN requests, requests[r].phase \in OnLoop,
           loop' = [loop EXCEPT ![requests[r].process] = Null]
    PROVE  loop' = [p \in Processes |-> IF loop[p] \in {r} THEN Null ELSE loop[p]]
  <1>1. loop \in [Processes -> DOMAIN requests \cup {Null}]
    BY DEF Inv, TypeOK
  <1>2. /\ requests[r].process \in Processes
        /\ loop[requests[r].process] = r
        /\ \A p \in Processes : loop[p] = r => p = requests[r].process
    BY LoopOf, Fields DEF Inv
  <1>. QED  BY <1>1, <1>2

LEMMA AnswerSound ==
    ASSUME Inv, NEW r \in DOMAIN requests, requests[r].phase \in OnLoop, Answer(r)
    PROVE  RequestsSound'
  <1>1. Ends({r}) /\ loop' = [loop EXCEPT ![requests[r].process] = Null]
    BY Answering
  <1>2. loop' = [p \in Processes |-> IF loop[p] \in {r} THEN Null ELSE loop[p]]
    BY <1>1, AnsweringSound
  <1>3. /\ DOMAIN requests' = DOMAIN requests \ {r}
        /\ \A x \in DOMAIN requests' : x \in DOMAIN requests /\ requests'[x] = requests[x]
        /\ requests' \in [DOMAIN requests' -> Request]
    BY <1>1, Ending DEF Inv
  <1>. QED  BY <1>2, <1>3, EndingSound

\* A request that goes on to another phase keeps its shape.
LEMMA MoveKeepsShape ==
    ASSUME Inv, NEW r \in DOMAIN requests, NEW phase \in Phase, MoveTo(r, phase),
           requests[r].phase # "replaced", phase # "replaced",
           requests[r].op = "delete" => phase \in {"connecting", "saved"}
    PROVE  WellFormed'
  <1>1. DOMAIN requests' = DOMAIN requests
    BY Moves DEF Inv
  <1>. SUFFICES ASSUME NEW x \in DOMAIN requests
                PROVE  Shape(requests'[x])
    BY <1>1 DEF WellFormed
  <1>2. /\ requests'[x].op = requests[x].op
        /\ requests'[x].target = requests[x].target
        /\ requests'[x].key = requests[x].key
        /\ requests'[x].loaded = requests[x].loaded
        /\ requests'[x].gone = requests[x].gone
        /\ requests'[x].phase = IF x = r THEN phase ELSE requests[x].phase
    BY Moves DEF Inv
  <1>3. Shape(requests[x])
    BY DEF Inv, WellFormed
  <1>. QED  BY <1>2, <1>3 DEF Shape

LEMMA ArriveSound ==
    ASSUME Inv, NEW r \in Requests, NEW op \in {"attach", "image", "delete"},
           NEW p \in Processes, NEW target, NEW key \in Keys \cup {Null},
           IF op = "attach" THEN target \in Parents ELSE target \in Slots,
           IF op = "delete" THEN key = Null ELSE key # Null,
           Arrive(r, op, p, target, key)
    PROVE  RequestsSound'
  <1>0. TypeOK /\ target \in Parents \cup Slots
    BY DEF Inv
  <1>1. /\ r \notin DOMAIN requests
        /\ DOMAIN requests' = DOMAIN requests \cup {r}
        /\ \A x \in DOMAIN requests : requests'[x] = requests[x]
        /\ requests'[r].op = op /\ requests'[r].process = p
        /\ requests'[r].target = target /\ requests'[r].key = key
        /\ requests'[r].phase = "arrived" /\ requests'[r].loaded = Null
        /\ requests'[r].gone = FALSE
        /\ requests' \in [DOMAIN requests' -> Request]
        /\ DOMAIN requests' \subseteq Requests
    BY <1>0, Arrival
  <1>2. loop' = loop /\ loop \in [Processes -> DOMAIN requests \cup {Null}]
    BY <1>0 DEF Arrive, TypeOK
  <1>3. WellFormed'
    <2>1. Shape(requests'[r])
      BY <1>1 DEF Shape
    <2>2. \A x \in DOMAIN requests : Shape(requests'[x])
      BY <1>1 DEF Inv, WellFormed
    <2>. QED  BY <1>1, <2>1, <2>2 DEF WellFormed
  <1>4. LoopSound'
    <2>1. \A q \in Processes : loop[q] # Null => requests'[loop[q]].process = q
      BY <1>1, <1>2 DEF Inv, LoopSound
    <2>2. \A x \in DOMAIN requests :
             requests'[x].phase \in OnLoop <=> loop[requests'[x].process] = x
      BY <1>1, LoopOf
    <2>3. requests'[r].phase \notin OnLoop /\ loop[requests'[r].process] # r
      <3>1. requests'[r].process = p /\ requests'[r].phase = "arrived"
        BY <1>1
      <3>2. loop[p] # r
        BY <1>1, <1>2, NullAssumption
      <3>. QED  BY <3>1, <3>2 DEF OnLoop
    <2>. QED  BY <1>1, <1>2, <2>1, <2>2, <2>3 DEF LoopSound, Running
  <1>. QED  BY <1>1, <1>2, <1>3, <1>4 DEF RequestsSound

\* A thread has read a file, whatever the loop is running meanwhile.
LEMMA ReadSound ==
    ASSUME Inv, NEW r \in DOMAIN requests, requests[r].phase = "reading",
           MoveTo(r, "read"), loop' = loop
    PROVE  RequestsSound'
  <1>1. "read" \in Phase /\ TypeOK /\ Shape(requests[r])
    BY DEF Phase, Inv, WellFormed
  <1>2. /\ DOMAIN requests' = DOMAIN requests
        /\ requests' \in [DOMAIN requests -> Request]
        /\ \A x \in DOMAIN requests :
              /\ requests'[x].process = requests[x].process
              /\ requests'[x].phase = IF x = r THEN "read" ELSE requests[x].phase
    BY <1>1, Moves
  <1>3. \A x \in DOMAIN requests : requests'[x].phase \in OnLoop <=> requests[x].phase \in OnLoop
    BY <1>2 DEF OnLoop
  <1>4. /\ loop \in [Processes -> DOMAIN requests \cup {Null}]
        /\ DOMAIN requests \subseteq Requests
    BY <1>1 DEF TypeOK
  <1>5. LoopSound'
    BY <1>2, <1>3, <1>4 DEF Inv, LoopSound, Running
  <1>6. WellFormed'
    BY <1>1, MoveKeepsShape DEF Shape
  <1>. QED  BY <1>2, <1>4, <1>5, <1>6 DEF RequestsSound

\* What a handler does between Start and its answer, or its await.
LEMMA GoingOnSound ==
    ASSUME Inv, NEW r \in Requests,
           \/ Start(r) \/ Connect(r) \/ Read(r) \/ Resume(r) \/ Save(r) \/ Replace(r)
    PROVE  RequestsSound'
  <1>1. r \in DOMAIN requests
    BY DEF Start, Connect, Read, Resume, Save, Replace, At
  <1>. DEFINE p == requests[r].process
  <1>2. /\ TypeOK /\ p \in Processes
        /\ DOMAIN requests \subseteq Requests
        /\ loop \in [Processes -> DOMAIN requests \cup {Null}]
        /\ Shape(requests[r])
        /\ requests[r].phase \in OnLoop <=> loop[p] = r
    BY <1>1, Fields, LoopOf DEF Inv, TypeOK, WellFormed
  <1>3. ASSUME NEW phase \in Phase \ {"replaced"}, MoveTo(r, phase),
               requests[r].phase # "replaced",
               requests[r].op = "delete" => phase \in {"connecting", "saved"},
               loop[p] \in {r, Null},
               loop' = [loop EXCEPT ![p] = IF phase \in OnLoop THEN r ELSE Null]
        PROVE  RequestsSound'
    <2>1. /\ DOMAIN requests' = DOMAIN requests
          /\ requests' \in [DOMAIN requests -> Request]
          /\ \A x \in DOMAIN requests :
                /\ requests'[x].process = requests[x].process
                /\ requests'[x].phase = IF x = r THEN phase ELSE requests[x].phase
      BY <1>1, <1>2, <1>3, Moves
    <2>2. /\ loop' \in [Processes -> DOMAIN requests \cup {Null}]
          /\ \A q \in Processes \ {p} : loop'[q] = loop[q]
          /\ IF requests'[r].phase \in OnLoop THEN loop'[p] = r ELSE loop'[p] = Null
      BY <1>1, <1>2, <1>3, <2>1
    <2>3. LoopSound'
      BY <1>1, <1>3, <2>1, <2>2, MovingSound
    <2>4. WellFormed'
      BY <1>1, <1>3, MoveKeepsShape
    <2>. QED  BY <1>2, <2>1, <2>2, <2>3, <2>4 DEF RequestsSound
  <1>. HIDE DEF p
  <1>4. CASE Start(r)
    <2>1. loop[p] = Null /\ loop' = [loop EXCEPT ![p] = r] /\ MoveTo(r, "connecting")
          /\ requests[r].phase = "arrived"
      BY <1>4 DEF Start, At, p
    <2>. QED  BY <1>3, <2>1 DEF Phase, OnLoop
  <1>5. CASE Connect(r)
    <2>1. requests[r].phase = "connecting" /\ loop[p] = r
      BY <1>2, <1>5 DEF Connect, At, OnLoop
    <2>2. CASE requests[r].op = "delete"
      <3>1. MoveTo(r, "saved") /\ loop' = loop
        BY <1>5, <2>2 DEF Connect
      <3>2. loop' = [loop EXCEPT ![p] = r]
        BY <1>2, <2>1, <3>1
      <3>. QED  BY <1>3, <2>1, <3>1, <3>2 DEF Phase, OnLoop
    <2>3. CASE requests[r].op # "delete"
      <3>1. MoveTo(r, "reading") /\ loop' = [loop EXCEPT ![p] = Null]
        BY <1>5, <2>3 DEF Connect, Release, p
      <3>. QED  BY <1>3, <2>1, <2>3, <3>1 DEF Phase, OnLoop
    <2>. QED  BY <2>2, <2>3
  <1>6. CASE Read(r)
    <2>1. requests[r].phase = "reading" /\ MoveTo(r, "read") /\ loop' = loop
      BY <1>6 DEF Read, At
    <2>2. requests[r].op # "delete"
      BY <1>2, <2>1 DEF Shape
    <2>. QED  BY <1>1, <1>2, <2>1, <2>2, ReadSound DEF p
  <1>7. CASE Resume(r)
    <2>1. loop[p] = Null /\ loop' = [loop EXCEPT ![p] = r] /\ MoveTo(r, "saving")
          /\ requests[r].phase = "read"
      BY <1>7 DEF Resume, At, p
    <2>2. requests[r].op # "delete"
      BY <1>2, <2>1 DEF Shape
    <2>. QED  BY <1>3, <2>1, <2>2 DEF Phase, OnLoop
  <1>8. CASE Save(r)
    <2>1. requests[r].phase = "saving" /\ MoveTo(r, "saved") /\ loop' = loop
      BY <1>8 DEF Save, At
    <2>2. loop[p] = r /\ loop' = [loop EXCEPT ![p] = r]
      BY <1>2, <2>1 DEF OnLoop
    <2>. QED  BY <1>3, <2>1, <2>2 DEF Phase, OnLoop
  <1>9. CASE Replace(r)
    <2>. DEFINE loaded == images[requests[r].target]
    <2>1. /\ requests' = [requests EXCEPT ![r].phase = "replaced", ![r].loaded = loaded]
          /\ requests[r].phase = "saved" /\ requests[r].op \in {"image", "delete"}
          /\ loop' = loop
      BY <1>9 DEF Replace, At
    <2>2. loaded \in Keys \cup {Null}
      BY <1>2, <2>1 DEF Shape, TypeOK
    <2>. HIDE DEF loaded
    <2>3. /\ DOMAIN requests' = DOMAIN requests
          /\ requests' \in [DOMAIN requests -> Request]
          /\ \A x \in DOMAIN requests :
                /\ requests'[x].op = requests[x].op
                /\ requests'[x].process = requests[x].process
                /\ requests'[x].target = requests[x].target
                /\ requests'[x].key = requests[x].key
                /\ requests'[x].loaded = IF x = r THEN loaded ELSE requests[x].loaded
                /\ requests'[x].gone = requests[x].gone
                /\ requests'[x].phase = IF x = r THEN "replaced" ELSE requests[x].phase
      BY <1>1, <1>2, <2>1, <2>2, Replacing
    <2>4. loop[p] = r
      BY <1>2, <2>1 DEF OnLoop
    <2>5. LoopSound'
      BY <1>1, <1>2, <2>1, <2>3, <2>4, MovingSound DEF p, OnLoop
    <2>6. WellFormed'
      <3>. SUFFICES ASSUME NEW x \in DOMAIN requests
                    PROVE  Shape(requests'[x])
        BY <2>3 DEF WellFormed
      <3>1. Shape(requests[x])
        BY DEF Inv, WellFormed
      <3>. QED  BY <2>1, <2>3, <3>1 DEF Shape
    <2>. QED  BY <1>2, <2>1, <2>3, <2>5, <2>6 DEF RequestsSound
  <1>. QED  BY <1>4, <1>5, <1>6, <1>7, <1>8, <1>9

LEMMA CommitDeleteSound ==
    ASSUME Inv, NEW r \in DOMAIN requests, CommitDelete(r)
    PROVE  RequestsSound'
  <1>. DEFINE over == {r}
  <1>1. requests[r].phase \in OnLoop
    BY DEF CommitDelete, At, OnLoop
  <1>2. /\ DOMAIN requests' = DOMAIN requests \ {r}
        /\ requests' \in [DOMAIN requests' -> Request]
        /\ loop' = [loop EXCEPT ![requests[r].process] = Null]
    BY Deleting DEF Inv
  <1>3. \A x \in DOMAIN requests' :
           /\ requests'[x].op = requests[x].op
           /\ requests'[x].process = requests[x].process
           /\ requests'[x].target = requests[x].target
           /\ requests'[x].key = requests[x].key
           /\ requests'[x].loaded = requests[x].loaded
           /\ requests'[x].phase = requests[x].phase
           /\ requests'[x].gone => requests[x].gone \/ requests[x].loaded # Null
    BY Deleting DEF Inv
  <1>4. loop' = [p \in Processes |-> IF loop[p] \in over THEN Null ELSE loop[p]]
    BY <1>1, <1>2, AnsweringSound
  <1>5. over \in SUBSET DOMAIN requests /\ DOMAIN requests' = DOMAIN requests \ over
    BY <1>2
  <1>6. requests' \in [DOMAIN requests' -> Request]
    BY <1>2
  <1>. HIDE DEF over
  <1>. QED  BY <1>3, <1>4, <1>5, <1>6, EndingSound

LEMMA CrashSound ==
    ASSUME Inv, NEW p \in Processes, Crash(p)
    PROVE  RequestsSound'
  <1>. DEFINE lost == {r \in DOMAIN requests : requests[r].process = p}
  <1>1. Ends(lost) /\ loop' = [loop EXCEPT ![p] = Null]
    BY DEF Crash, Ends, Release
  <1>2. loop \in [Processes -> DOMAIN requests \cup {Null}]
    BY DEF Inv, TypeOK
  <1>3. Null \notin DOMAIN requests
    BY NullAssumption DEF Inv, TypeOK
  <1>4. \A q \in Processes : loop[q] \in lost <=> q = p /\ loop[q] # Null
    BY <1>2, <1>3 DEF Inv, LoopSound
  <1>5. loop' = [q \in Processes |-> IF loop[q] \in lost THEN Null ELSE loop[q]]
    BY <1>1, <1>2, <1>4
  <1>. HIDE DEF lost
  <1>6. /\ DOMAIN requests' = DOMAIN requests \ lost
        /\ \A x \in DOMAIN requests' : x \in DOMAIN requests /\ requests'[x] = requests[x]
        /\ requests' \in [DOMAIN requests' -> Request]
    BY <1>1, Ending DEF Inv
  <1>7. lost \in SUBSET DOMAIN requests
    BY DEF lost
  <1>. QED  BY <1>5, <1>6, <1>7, EndingSound

\* What a request has touched is a key.
LEMMA TouchedKeys ==
    ASSUME TypeOK, NEW r \in DOMAIN requests
    PROVE  Touched(r) \subseteq Keys
  BY Fields DEF Touched

\* The rows and the blobs keep their types.
LEMMA StoreStep ==
    ASSUME Inv, [Next]_vars
    PROVE  StoreTyped'
  <1>. TypeOK /\ WellFormed
    BY DEF Inv
  <1>1. ASSUME NEW r \in Requests, Client(r)
        PROVE  StoreTyped'
    BY <1>1 DEF Client, Arrive, TypeOK, StoreTyped, tables
  <1>2. ASSUME NEW r \in Requests,
               \/ Start(r) \/ Connect(r) \/ PoolTimeout(r) \/ Read(r) \/ Resume(r) \/ Refuse(r)
        PROVE  StoreTyped'
    BY <1>2 DEF Start, Connect, PoolTimeout, Read, Resume, Refuse, TypeOK, StoreTyped, tables
  <1>3. ASSUME NEW r \in Requests, Save(r)
        PROVE  StoreTyped'
    <2>1. r \in DOMAIN requests /\ requests[r].phase = "saving"
      BY <1>3 DEF Save, At
    <2>2. requests[r].key \in Keys
      BY <2>1, Fields DEF WellFormed, Shape
    <2>. QED  BY <1>3, <2>2 DEF Save, TypeOK, StoreTyped, tables
  <1>4. ASSUME NEW r \in Requests, CommitFile(r)
        PROVE  StoreTyped'
    <2>1. r \in DOMAIN requests /\ requests[r].op = "attach"
      BY <1>4 DEF CommitFile, At
    <2>2. requests[r].key \in Keys /\ requests[r].target \in Parents
      BY <2>1, Fields DEF WellFormed, Shape
    <2>. QED  BY <1>4, <2>2 DEF CommitFile, TypeOK, StoreTyped, File
  <1>5. ASSUME NEW r \in Requests, Replace(r)
        PROVE  StoreTyped'
    BY <1>5 DEF Replace, TypeOK, StoreTyped, tables
  <1>6. ASSUME NEW r \in Requests, CommitImage(r)
        PROVE  StoreTyped'
    <2>1. r \in DOMAIN requests /\ requests[r].op = "image"
      BY <1>6 DEF CommitImage, At
    <2>2. requests[r].key \in Keys /\ requests[r].target \in Slots
      BY <2>1, Fields DEF WellFormed, Shape
    <2>3. Overlapped(r) \subseteq Keys
      BY <2>2 DEF Overlapped, TypeOK
    <2>. QED  BY <1>6, <2>2, <2>3 DEF CommitImage, TypeOK, StoreTyped
  <1>7. ASSUME NEW r \in Requests, CommitDelete(r)
        PROVE  StoreTyped'
    <2>1. r \in DOMAIN requests /\ requests[r].op = "delete"
      BY <1>7 DEF CommitDelete, At
    <2>2. requests[r].target \in Slots
      BY <2>1, Fields DEF WellFormed, Shape
    <2>3. Overlapped(r) \subseteq Keys
      BY <2>2 DEF Overlapped, TypeOK
    <2>4. /\ images' = [images EXCEPT ![requests[r].target] = Null] \/ images' = images
          /\ failed' = failed \cup Overlapped(r) \/ failed' = failed
          /\ UNCHANGED <<blobs, files>>
      BY <1>7 DEF CommitDelete
    <2>. QED  BY <2>2, <2>3, <2>4 DEF TypeOK, StoreTyped
  <1>8. ASSUME NEW r \in Requests, Fail(r)
        PROVE  StoreTyped'
    <2>1. r \in DOMAIN requests
      BY <1>8 DEF Fail, Running
    <2>. QED  BY <1>8, <2>1, TouchedKeys DEF Fail, TypeOK, StoreTyped, tables
  <1>9. ASSUME NEW p \in Processes, Crash(p)
        PROVE  StoreTyped'
    <2>1. UNION {Touched(r) : r \in {x \in DOMAIN requests : requests[x].process = p}} \subseteq Keys
      BY TouchedKeys
    <2>. QED  BY <1>9, <2>1 DEF Crash, TypeOK, StoreTyped, tables
  <1>10. CASE UNCHANGED vars
    BY <1>10 DEF vars, tables, TypeOK, StoreTyped
  <1>. QED  BY <1>1, <1>2, <1>3, <1>4, <1>5, <1>6, <1>7, <1>8, <1>9, <1>10 DEF Next, Handler

LEMMA RequestsStep ==
    ASSUME Inv, [Next]_vars
    PROVE  RequestsSound'
  <1>1. ASSUME NEW r \in Requests, Client(r)
        PROVE  RequestsSound'
    <2>1. \A key \in Keys : key \in Keys \cup {Null} /\ key # Null
      BY NullAssumption
    <2>2. ASSUME NEW p \in Processes, NEW key \in Keys, NEW n \in Parents,
                 Arrive(r, "attach", p, n, key)
          PROVE  RequestsSound'
      BY <2>1, <2>2, ArriveSound
    <2>3. ASSUME NEW p \in Processes, NEW key \in Keys, NEW s \in Slots,
                 Arrive(r, "image", p, s, key)
          PROVE  RequestsSound'
      BY <2>1, <2>3, ArriveSound
    <2>4. ASSUME NEW p \in Processes, NEW s \in Slots, Arrive(r, "delete", p, s, Null)
          PROVE  RequestsSound'
      BY <2>4, ArriveSound
    <2>. QED  BY <1>1, <2>2, <2>3, <2>4 DEF Client
  <1>2. ASSUME NEW r \in Requests,
               \/ Start(r) \/ Connect(r) \/ Read(r) \/ Resume(r) \/ Save(r) \/ Replace(r)
        PROVE  RequestsSound'
    BY <1>2, GoingOnSound
  <1>3. ASSUME NEW r \in Requests,
               PoolTimeout(r) \/ Refuse(r) \/ CommitFile(r) \/ CommitImage(r) \/ Fail(r)
        PROVE  RequestsSound'
    <2>1. r \in DOMAIN requests /\ Answer(r)
      BY <1>3 DEF PoolTimeout, Refuse, CommitFile, CommitImage, Fail, At, Running
    <2>2. requests[r].phase \in OnLoop
      <3>1. CASE Refuse(r) \/ Fail(r)
        BY <2>1, <3>1, LoopOf DEF Refuse, Fail, Running
      <3>2. CASE PoolTimeout(r) \/ CommitFile(r) \/ CommitImage(r)
        BY <3>2 DEF PoolTimeout, CommitFile, CommitImage, At, OnLoop
      <3>. QED  BY <1>3, <3>1, <3>2
    <2>. QED  BY <2>1, <2>2, AnswerSound
  <1>4. ASSUME NEW r \in Requests, CommitDelete(r)
        PROVE  RequestsSound'
    <2>1. r \in DOMAIN requests
      BY <1>4 DEF CommitDelete, At
    <2>. QED  BY <1>4, <2>1, CommitDeleteSound
  <1>5. ASSUME NEW p \in Processes, Crash(p)
        PROVE  RequestsSound'
    BY <1>5, CrashSound
  <1>6. CASE UNCHANGED vars
    BY <1>6 DEF vars, Inv, TypeOK, RequestsSound, LoopSound, Running, WellFormed
  <1>. QED  BY <1>1, <1>2, <1>3, <1>4, <1>5, <1>6 DEF Next, Handler

LEMMA InitSound == Init => Inv
  <1>. SUFFICES ASSUME Init PROVE Inv
    OBVIOUS
  <1>1. DOMAIN requests = {} /\ requests \in [{} -> Request]
    BY DEF Init
  <1>. QED  BY <1>1 DEF Init, Inv, TypeOK, LoopSound, Running, WellFormed

LEMMA Invariance == Spec => []Inv
  <1>1. Inv /\ [Next]_vars => Inv'
    <2>1. Inv' <=> RequestsSound' /\ StoreTyped'
      BY DEF Inv, TypeOK, RequestsSound, StoreTyped
    <2>. QED  BY <2>1, RequestsStep, StoreStep
  <1>. QED  BY <1>1, InitSound, PTL DEF Spec

----------------------------------------------------------------------------
(* The life of a key *)

KeysSound == KeyInv /\ StoreMatchesTables

Stored == {"saved", "replaced"}

\* Requests that change phase without touching the store.
LEMMA QuietKeys ==
    ASSUME Inv, KeysSound, UNCHANGED <<blobs, files, images, failed>>,
           DOMAIN requests' = DOMAIN requests,
           \A x \in DOMAIN requests :
              /\ requests'[x].target = requests[x].target
              /\ requests'[x].key = requests[x].key
              /\ requests'[x].loaded = requests[x].loaded
              /\ requests'[x].gone = requests[x].gone
              /\ requests[x].key # Null =>
                    (requests'[x].phase \in Stored <=> requests[x].phase \in Stored)
    PROVE  KeysSound'
  <1>1. Named' = Named
    BY DEF Named
  <1>2. Underway' = Underway
    BY DEF Underway
  <1>3. NamesUnique'
    BY DEF NamesUnique, KeysSound, KeyInv
  <1>4. KeysOwn'
    BY <1>1 DEF KeysOwn, KeysSound, KeyInv, Stored
  <1>5. LoadedReplaced'
    BY DEF LoadedReplaced, KeysSound, KeyInv
  <1>6. StoreMatchesTables'
    BY <1>1, <1>2 DEF StoreMatchesTables, KeysSound
  <1>. QED  BY <1>3, <1>4, <1>5, <1>6 DEF KeysSound, KeyInv

\* Requests that end while the tables and the store stay as they are: what they
\* had saved or loaded is known to have failed.
LEMMA EndingKeys ==
    ASSUME Inv, KeysSound, UNCHANGED <<blobs, files, images>>,
           NEW over, DOMAIN requests' = DOMAIN requests \ over,
           \A x \in DOMAIN requests' : requests'[x] = requests[x],
           failed \subseteq failed',
           \A r \in over \cap DOMAIN requests :
              /\ requests[r].key # Null /\ requests[r].phase \in Stored
                    => requests[r].key \in failed'
              /\ requests[r].loaded # Null /\ ~requests[r].gone
                    => requests[r].loaded \in failed'
    PROVE  KeysSound'
  <1>1. Named' = Named
    BY DEF Named
  <1>2. NamesUnique'
    BY DEF NamesUnique, KeysSound, KeyInv
  <1>3. KeysOwn'
    BY <1>1 DEF KeysOwn, KeysSound, KeyInv
  <1>4. LoadedReplaced'
    BY DEF LoadedReplaced, KeysSound, KeyInv
  <1>5. ASSUME NEW k \in (Named \ {Null}) \cup blobs, k \in Underway, k # Null
        PROVE  k \in failed' \cup Underway'
    <2>1. PICK r \in DOMAIN requests : k = requests[r].key \/ k = requests[r].loaded
      BY <1>5 DEF Underway
    <2>2. CASE r \notin over
      BY <2>1, <2>2 DEF Underway
    <2>3. CASE r \in over /\ k = requests[r].loaded
      <3>1. k \notin blobs /\ (k \in Named => ~requests[r].gone)
        BY <1>5, <2>3 DEF Named, KeysSound, KeyInv, LoadedReplaced
      <3>. QED  BY <1>5, <2>3, <3>1
    <2>4. CASE r \in over /\ k = requests[r].key
      <3>1. k \notin Named /\ (k \in blobs <=> requests[r].phase \in Stored)
        BY <1>5, <2>4 DEF KeysSound, KeyInv, KeysOwn, Stored
      <3>. QED  BY <1>5, <2>4, <3>1
    <2>. QED  BY <2>1, <2>2, <2>3, <2>4
  <1>6. Null \notin blobs
    BY NullAssumption DEF Inv, TypeOK
  <1>7. StoreMatchesTables'
    BY <1>1, <1>5, <1>6 DEF StoreMatchesTables, KeysSound
  <1>. QED  BY <1>2, <1>3, <1>4, <1>7 DEF KeysSound, KeyInv

LEMMA ArriveKeys ==
    ASSUME Inv, KeysSound, NEW r \in Requests, NEW op \in {"attach", "image", "delete"},
           NEW p \in Processes, NEW target \in Parents \cup Slots, NEW key \in Keys \cup {Null},
           key = Null \/ Fresh(key),
           Arrive(r, op, p, target, key)
    PROVE  KeysSound'
  <1>0. TypeOK
    BY DEF Inv
  <1>1. /\ r \notin DOMAIN requests
        /\ DOMAIN requests' = DOMAIN requests \cup {r}
        /\ \A x \in DOMAIN requests : requests'[x] = requests[x]
        /\ requests'[r].op = op /\ requests'[r].process = p
        /\ requests'[r].target = target /\ requests'[r].key = key
        /\ requests'[r].phase = "arrived" /\ requests'[r].loaded = Null
        /\ requests'[r].gone = FALSE
        /\ requests' \in [DOMAIN requests' -> Request]
        /\ DOMAIN requests' \subseteq Requests
    BY <1>0, Arrival
  <1>2. UNCHANGED <<blobs, files, images>> /\ failed' = failed \ {key}
    BY DEF Arrive, tables
  <1>3. Named' = Named
    BY <1>2 DEF Named
  <1>4. Underway' = Underway \cup {key, Null}
    BY <1>1 DEF Underway
  <1>5. NamesUnique'
    BY <1>2 DEF NamesUnique, KeysSound, KeyInv
  <1>6. KeysOwn'
    <2>. SUFFICES ASSUME NEW x \in DOMAIN requests', requests'[x].key # Null
                  PROVE  /\ requests'[x].key \notin Named
                         /\ \A y \in DOMAIN requests' : requests'[y].loaded # requests'[x].key
                         /\ \A y \in DOMAIN requests' : requests'[y].key = requests'[x].key => y = x
                         /\ requests'[x].key \in blobs <=> requests'[x].phase \in Stored
      BY <1>2, <1>3 DEF KeysOwn, Stored
    <2>1. CASE x = r
      <3>1. key # Null /\ key \notin Underway /\ key \notin blobs /\ key \notin Named
        BY <1>1, <2>1 DEF Fresh
      <3>2. \A y \in DOMAIN requests : requests[y].key # key /\ requests[y].loaded # key
        BY <3>1 DEF Underway
      <3>. QED  BY <1>1, <2>1, <3>1, <3>2 DEF Stored
    <2>2. CASE x # r
      BY <1>1, <2>2 DEF Fresh, Underway, Stored, KeysSound, KeyInv, KeysOwn
    <2>. QED  BY <2>1, <2>2
  <1>7. LoadedReplaced'
    BY <1>1, <1>2 DEF LoadedReplaced, KeysSound, KeyInv
  <1>8. StoreMatchesTables'
    BY <1>2, <1>3, <1>4 DEF StoreMatchesTables, KeysSound
  <1>. QED  BY <1>5, <1>6, <1>7, <1>8 DEF KeysSound, KeyInv

LEMMA SaveKeys ==
    ASSUME Inv, KeysSound, NEW r \in DOMAIN requests, Save(r)
    PROVE  KeysSound'
  <1>. DEFINE key == requests[r].key
  <1>1. requests[r].phase = "saving" /\ "saved" \in Phase /\ TypeOK
    BY DEF Save, At, Phase, Inv
  <1>2. /\ DOMAIN requests' = DOMAIN requests
        /\ \A x \in DOMAIN requests :
              /\ requests'[x].target = requests[x].target
              /\ requests'[x].key = requests[x].key
              /\ requests'[x].loaded = requests[x].loaded
              /\ requests'[x].gone = requests[x].gone
              /\ requests'[x].phase = IF x = r THEN "saved" ELSE requests[x].phase
        /\ Underway' = Underway
    BY <1>1, Moves DEF Save
  <1>3. key # Null
    <2>1. Shape(requests[r])
      BY DEF Inv, WellFormed
    <2>. QED  BY <1>1, <2>1, Fields DEF Shape
  <1>4. blobs' = blobs \cup {key} /\ UNCHANGED <<files, images, failed>> /\ Named' = Named
    BY DEF Save, tables, Named
  <1>5. NamesUnique'
    BY <1>4 DEF NamesUnique, KeysSound, KeyInv
  <1>6. KeysOwn'
    <2>. SUFFICES ASSUME NEW x \in DOMAIN requests, requests[x].key # Null
                  PROVE  /\ requests[x].key \notin Named
                         /\ \A y \in DOMAIN requests : requests[y].loaded # requests[x].key
                         /\ \A y \in DOMAIN requests : requests[y].key = requests[x].key => y = x
                         /\ requests[x].key \in blobs' <=> requests'[x].phase \in Stored
      BY <1>2, <1>4 DEF KeysOwn, Stored
    <2>1. /\ requests[x].key \notin Named
          /\ \A y \in DOMAIN requests : requests[y].loaded # requests[x].key
          /\ \A y \in DOMAIN requests : requests[y].key = requests[x].key => y = x
          /\ requests[x].key \in blobs <=> requests[x].phase \in Stored
      BY DEF KeysSound, KeyInv, KeysOwn, Stored
    <2>2. requests[x].key \in blobs' <=> requests'[x].phase \in Stored
      BY <1>2, <1>4, <2>1 DEF Stored
    <2>. QED  BY <2>1, <2>2
  <1>7. LoadedReplaced'
    <2>1. \A x \in DOMAIN requests : requests[x].loaded # key
      BY <1>3 DEF KeysSound, KeyInv, KeysOwn
    <2>. QED  BY <1>2, <1>4, <2>1 DEF LoadedReplaced, KeysSound, KeyInv
  <1>8. StoreMatchesTables'
    <2>1. key \in Underway
      BY DEF Underway
    <2>. QED  BY <1>2, <1>4, <2>1 DEF StoreMatchesTables, KeysSound
  <1>. QED  BY <1>5, <1>6, <1>7, <1>8 DEF KeysSound, KeyInv

LEMMA CommitFileKeys ==
    ASSUME Inv, KeysSound, NEW r \in DOMAIN requests, CommitFile(r)
    PROVE  KeysSound'
  <1>. DEFINE key == requests[r].key
              file == [parent |-> requests[r].target, key |-> key]
  <1>1. requests[r].phase = "saved" /\ requests[r].op = "attach" /\ TypeOK
    BY DEF CommitFile, At, Inv
  <1>2. key # Null /\ requests[r].loaded = Null
    <2>1. Shape(requests[r])
      BY DEF Inv, WellFormed
    <2>. QED  BY <1>1, <2>1 DEF Shape
  <1>3. /\ DOMAIN requests' = DOMAIN requests \ {r}
        /\ \A x \in DOMAIN requests' : x \in DOMAIN requests /\ requests'[x] = requests[x]
    BY <1>1, Answering, Ending DEF CommitFile
  <1>4. files' = files \cup {file} /\ UNCHANGED <<blobs, images, failed>> /\ file.key = key
    BY DEF CommitFile
  <1>5. /\ key \notin Named /\ key \in blobs
        /\ \A x \in DOMAIN requests : requests[x].loaded # key
        /\ \A x \in DOMAIN requests : requests[x].key = key => x = r
    BY <1>1, <1>2 DEF KeysSound, KeyInv, KeysOwn
  <1>. HIDE DEF file
  <1>6. Named' = Named \cup {key}
    BY <1>4 DEF Named
  <1>7. \A k \in Underway : k = key \/ k = Null \/ k \in Underway'
    BY <1>2, <1>3 DEF Underway
  <1>8. NamesUnique'
    BY <1>4, <1>5 DEF NamesUnique, KeysSound, KeyInv, Named
  <1>9. KeysOwn'
    BY <1>3, <1>4, <1>5, <1>6 DEF KeysOwn, KeysSound, KeyInv
  <1>10. LoadedReplaced'
    BY <1>3, <1>4, <1>5 DEF LoadedReplaced, KeysSound, KeyInv
  <1>11. Null \notin blobs
    BY NullAssumption DEF Inv, TypeOK
  <1>12. StoreMatchesTables'
    BY <1>4, <1>5, <1>6, <1>7, <1>11 DEF StoreMatchesTables, KeysSound
  <1>. QED  BY <1>8, <1>9, <1>10, <1>12 DEF KeysSound, KeyInv

LEMMA ReplaceKeys ==
    ASSUME Inv, KeysSound, NEW r \in DOMAIN requests, Replace(r)
    PROVE  KeysSound'
  <1>. DEFINE s == requests[r].target
              old == images[s]
  <1>1. /\ requests[r].phase = "saved" /\ requests[r].op \in {"image", "delete"}
        /\ TypeOK /\ Shape(requests[r])
    BY DEF Replace, At, Inv, WellFormed
  <1>2. /\ s \in Slots /\ old \in Keys \cup {Null} /\ old \in Named
        /\ requests[r].loaded = Null /\ ~requests[r].gone
    BY <1>1 DEF Shape, TypeOK, Named
  <1>3. /\ blobs' = blobs \ {old} /\ UNCHANGED <<files, images, failed>> /\ Named' = Named
        /\ requests' = [requests EXCEPT ![r].phase = "replaced", ![r].loaded = old]
    BY DEF Replace, tables, Named
  <1>. HIDE DEF old
  <1>4. /\ DOMAIN requests' = DOMAIN requests
        /\ requests' \in [DOMAIN requests -> Request]
        /\ \A x \in DOMAIN requests :
              /\ requests'[x].op = requests[x].op
              /\ requests'[x].process = requests[x].process
              /\ requests'[x].target = requests[x].target
              /\ requests'[x].key = requests[x].key
              /\ requests'[x].loaded = IF x = r THEN old ELSE requests[x].loaded
              /\ requests'[x].gone = requests[x].gone
              /\ requests'[x].phase = IF x = r THEN "replaced" ELSE requests[x].phase
    BY <1>1, <1>2, <1>3, Replacing
  <1>5. NamesUnique'
    BY <1>3 DEF NamesUnique, KeysSound, KeyInv
  <1>6. KeysOwn'
    <2>. SUFFICES ASSUME NEW x \in DOMAIN requests, requests[x].key # Null
                  PROVE  /\ requests[x].key \notin Named
                         /\ \A y \in DOMAIN requests : requests'[y].loaded # requests[x].key
                         /\ \A y \in DOMAIN requests : requests[y].key = requests[x].key => y = x
                         /\ requests[x].key \in blobs' <=> requests'[x].phase \in Stored
      BY <1>3, <1>4 DEF KeysOwn, Stored
    <2>1. /\ requests[x].key \notin Named
          /\ \A y \in DOMAIN requests : requests[y].loaded # requests[x].key
          /\ \A y \in DOMAIN requests : requests[y].key = requests[x].key => y = x
          /\ requests[x].key \in blobs <=> requests[x].phase \in Stored
      BY DEF KeysSound, KeyInv, KeysOwn, Stored
    <2>2. requests[x].key # old
      BY <1>2, <2>1
    <2>3. requests[x].key \in blobs' <=> requests'[x].phase \in Stored
      BY <1>1, <1>3, <1>4, <2>1, <2>2 DEF Stored
    <2>. QED  BY <1>4, <2>1, <2>2, <2>3
  <1>7. LoadedReplaced'
    <2>. SUFFICES ASSUME NEW x \in DOMAIN requests, requests'[x].loaded # Null
                  PROVE  /\ requests'[x].loaded \notin blobs'
                         /\ \A f \in files : f.key # requests'[x].loaded
                         /\ \A t \in Slots : images[t] = requests'[x].loaded =>
                               t = requests[x].target /\ ~requests[x].gone
      BY <1>3, <1>4 DEF LoadedReplaced
    <2>1. CASE x = r
      <3>1. requests'[x].loaded = old
        BY <1>4, <2>1
      <3>2. /\ \A f \in files : f.key # old
            /\ \A t \in Slots : images[t] = old => t = s
        BY <1>2, <3>1 DEF KeysSound, KeyInv, NamesUnique, old
      <3>. QED  BY <1>2, <1>3, <2>1, <3>1, <3>2
    <2>2. CASE x # r
      BY <1>3, <1>4, <2>2 DEF KeysSound, KeyInv, LoadedReplaced
    <2>. QED  BY <2>1, <2>2
  <1>8. StoreMatchesTables'
    <2>1. old \in Underway' /\ Underway \subseteq Underway' \cup {Null}
      BY <1>2, <1>4 DEF Underway
    <2>2. Null \notin blobs
      BY <1>1, NullAssumption DEF TypeOK
    <2>. QED  BY <1>3, <2>1, <2>2 DEF StoreMatchesTables, KeysSound
  <1>. QED  BY <1>5, <1>6, <1>7, <1>8 DEF KeysSound, KeyInv

LEMMA CommitImageKeys ==
    ASSUME Inv, KeysSound, NEW r \in DOMAIN requests, CommitImage(r)
    PROVE  KeysSound'
  <1>. DEFINE s == requests[r].target
              key == requests[r].key
              loaded == requests[r].loaded
  <1>1. /\ requests[r].phase = "replaced" /\ requests[r].op = "image"
        /\ TypeOK /\ Shape(requests[r])
    BY DEF CommitImage, At, Inv, WellFormed
  <1>2. s \in Slots /\ key # Null /\ images \in [Slots -> Keys \cup {Null}]
    BY <1>1 DEF Shape, TypeOK
  <1>3. /\ DOMAIN requests' = DOMAIN requests \ {r}
        /\ \A x \in DOMAIN requests' : x \in DOMAIN requests /\ requests'[x] = requests[x]
    BY <1>1, Answering, Ending DEF CommitImage
  <1>4. /\ images' = [images EXCEPT ![s] = key]
        /\ failed' = failed \cup ({images[s]} \ {loaded, Null})
        /\ UNCHANGED <<blobs, files>>
    BY DEF CommitImage, Overlapped
  <1>5. /\ key \notin Named /\ key \in blobs
        /\ \A x \in DOMAIN requests : requests[x].loaded # key
        /\ \A x \in DOMAIN requests : requests[x].key = key => x = r
    BY <1>1, <1>2 DEF KeysSound, KeyInv, KeysOwn
  <1>6. loaded # Null =>
           /\ loaded \notin blobs
           /\ \A f \in files : f.key # loaded
           /\ \A t \in Slots : images[t] = loaded => t = s
    BY DEF KeysSound, KeyInv, LoadedReplaced
  <1>7. \A k \in Underway : k \in {key, loaded} \/ k \in Underway'
    BY <1>3 DEF Underway
  <1>. HIDE DEF s, key, loaded
  <1>8. \A t \in Slots : images'[t] = IF t = s THEN key ELSE images[t]
    BY <1>2, <1>4
  <1>9. /\ Named' \subseteq Named \cup {key} /\ key \in Named'
        /\ Named \subseteq Named' \cup {images[s]}
        /\ loaded # Null => loaded \notin Named'
    <2>1. Named' = {f.key : f \in files} \cup {images'[t] : t \in Slots}
      BY <1>4 DEF Named
    <2>2. loaded # key
      BY <1>5 DEF loaded
    <2>. QED  BY <1>2, <1>6, <1>8, <2>1, <2>2 DEF Named
  <1>10. NamesUnique'
    <2>1. \A t \in Slots : images[t] # key
      BY <1>5 DEF Named
    <2>2. \A f \in files : f.key # key
      BY <1>5 DEF Named
    <2>. QED  BY <1>4, <1>8, <2>1, <2>2 DEF NamesUnique, KeysSound, KeyInv
  <1>11. KeysOwn'
    BY <1>3, <1>4, <1>5, <1>9 DEF KeysOwn, KeysSound, KeyInv
  <1>12. LoadedReplaced'
    BY <1>3, <1>4, <1>5, <1>8 DEF LoadedReplaced, KeysSound, KeyInv
  <1>13. Null \notin blobs
    BY NullAssumption DEF Inv, TypeOK
  <1>14. StoreMatchesTables'
    BY <1>4, <1>5, <1>6, <1>7, <1>9, <1>13 DEF StoreMatchesTables, KeysSound
  <1>. QED  BY <1>10, <1>11, <1>12, <1>14 DEF KeysSound, KeyInv

LEMMA CommitDeleteKeys ==
    ASSUME Inv, KeysSound, NEW r \in DOMAIN requests, CommitDelete(r)
    PROVE  KeysSound'
  <1>. DEFINE s == requests[r].target
              loaded == requests[r].loaded
  <1>1. /\ requests[r].phase = "replaced" /\ requests[r].op = "delete"
        /\ TypeOK /\ Shape(requests[r])
    BY DEF CommitDelete, At, Inv, WellFormed
  <1>2. /\ s \in Slots /\ requests[r].key = Null /\ images \in [Slots -> Keys \cup {Null}]
        /\ \A f \in files : f.key # Null
    BY <1>1, NullAssumption DEF Shape, TypeOK, File
  <1>3. CASE loaded # Null /\ ~requests[r].gone
    <2>1. /\ DOMAIN requests' = DOMAIN requests \ {r}
          /\ requests' \in [DOMAIN requests' -> Request]
          /\ \A x \in DOMAIN requests' :
                /\ requests'[x].op = requests[x].op
                /\ requests'[x].process = requests[x].process
                /\ requests'[x].target = requests[x].target
                /\ requests'[x].key = requests[x].key
                /\ requests'[x].loaded = requests[x].loaded
                /\ requests'[x].phase = requests[x].phase
                /\ requests'[x].gone =
                      \/ requests[x].gone
                      \/ /\ requests[r].loaded # Null /\ ~requests[r].gone
                         /\ requests[x].target = requests[r].target
                         /\ requests[x].loaded # Null
          /\ loop' = [loop EXCEPT ![requests[r].process] = Null]
      BY <1>1, Deleting
    <2>2. /\ DOMAIN requests' = DOMAIN requests \ {r}
          /\ \A x \in DOMAIN requests \ {r} :
                /\ requests'[x].target = requests[x].target
                /\ requests'[x].key = requests[x].key
                /\ requests'[x].loaded = requests[x].loaded
                /\ requests'[x].phase = requests[x].phase
                /\ requests'[x].gone => requests[x].gone \/ requests[x].target = s
      BY <2>1
    <2>3. /\ images' = [images EXCEPT ![s] = Null]
          /\ failed' = failed \cup ({images[s]} \ {loaded, Null})
          /\ UNCHANGED <<blobs, files>>
      BY <1>3 DEF CommitDelete, Overlapped
    <2>4. /\ loaded \notin blobs
          /\ \A f \in files : f.key # loaded
          /\ \A t \in Slots : images[t] = loaded => t = s
      BY <1>3 DEF KeysSound, KeyInv, LoadedReplaced
    <2>5. \A k \in Underway : k \in {Null, loaded} \/ k \in Underway'
      BY <1>2, <2>2 DEF Underway
    <2>. HIDE DEF s, loaded
    <2>6. \A t \in Slots : images'[t] = IF t = s THEN Null ELSE images[t]
      BY <1>2, <2>3
    <2>7. /\ Named' \subseteq Named \cup {Null}
          /\ Named \subseteq Named' \cup {images[s]}
          /\ loaded \notin Named' \/ loaded = Null
      <3>1. Named' = {f.key : f \in files} \cup {images'[t] : t \in Slots}
        BY <2>3 DEF Named
      <3>. QED  BY <1>2, <2>4, <2>6, <3>1 DEF Named
    <2>8. NamesUnique'
      BY <1>2, <2>3, <2>6 DEF NamesUnique, KeysSound, KeyInv
    <2>9. KeysOwn'
      BY <2>2, <2>3, <2>7 DEF KeysOwn, KeysSound, KeyInv
    <2>10. LoadedReplaced'
      BY <2>2, <2>3, <2>6 DEF LoadedReplaced, KeysSound, KeyInv
    <2>11. Null \notin blobs
      BY <1>1, NullAssumption DEF TypeOK
    <2>12. StoreMatchesTables'
      BY <1>3, <2>3, <2>4, <2>5, <2>7, <2>11 DEF StoreMatchesTables, KeysSound, loaded
    <2>. QED  BY <2>8, <2>9, <2>10, <2>12 DEF KeysSound, KeyInv
  <1>4. CASE ~(loaded # Null /\ ~requests[r].gone)
    <2>1. UNCHANGED <<blobs, files, images, failed>>
      BY <1>4 DEF CommitDelete
    <2>2. requests' = [x \in DOMAIN requests \ {r} |-> requests[x]]
      BY <1>4 DEF CommitDelete
    <2>3. /\ DOMAIN requests' = DOMAIN requests \ {r}
          /\ \A x \in DOMAIN requests' : requests'[x] = requests[x]
      BY <2>2
    <2>4. /\ requests[r].key # Null /\ requests[r].phase \in Stored => requests[r].key \in failed'
          /\ requests[r].loaded # Null /\ ~requests[r].gone => requests[r].loaded \in failed'
      BY <1>2, <1>4
    <2>. QED  BY <2>1, <2>3, <2>4, EndingKeys
  <1>. QED  BY <1>3, <1>4

LEMMA KeysStep ==
    ASSUME Inv, KeysSound, [Next]_vars
    PROVE  KeysSound'
  <1>0. TypeOK
    BY DEF Inv
  <1>1. ASSUME NEW r \in Requests, Client(r)
        PROVE  KeysSound'
    <2>1. ASSUME NEW p \in Processes, NEW key \in Keys, NEW n \in Parents, Fresh(key),
                 Arrive(r, "attach", p, n, key)
          PROVE  KeysSound'
      BY <2>1, ArriveKeys
    <2>2. ASSUME NEW p \in Processes, NEW key \in Keys, NEW s \in Slots, Fresh(key),
                 Arrive(r, "image", p, s, key)
          PROVE  KeysSound'
      BY <2>2, ArriveKeys
    <2>3. ASSUME NEW p \in Processes, NEW s \in Slots, Arrive(r, "delete", p, s, Null)
          PROVE  KeysSound'
      BY <2>3, ArriveKeys
    <2>. QED  BY <1>1, <2>1, <2>2, <2>3 DEF Client
  <1>2. ASSUME NEW r \in Requests, Start(r) \/ Connect(r) \/ Read(r) \/ Resume(r)
        PROVE  KeysSound'
    <2>1. r \in DOMAIN requests /\ requests[r].phase \notin Stored
      BY <1>2 DEF Start, Connect, Read, Resume, At, Stored
    <2>2. UNCHANGED <<blobs, files, images, failed>>
      BY <1>2 DEF Start, Connect, Read, Resume, tables
    <2>3. PICK phase \in Phase : MoveTo(r, phase) /\ (phase \in Stored => requests[r].op = "delete")
      BY <1>2 DEF Start, Connect, Read, Resume, Phase, Stored
    <2>4. /\ DOMAIN requests' = DOMAIN requests
          /\ \A x \in DOMAIN requests :
                /\ requests'[x].target = requests[x].target
                /\ requests'[x].key = requests[x].key
                /\ requests'[x].loaded = requests[x].loaded
                /\ requests'[x].gone = requests[x].gone
                /\ requests'[x].phase = IF x = r THEN phase ELSE requests[x].phase
      BY <1>0, <2>1, <2>3, Moves
    <2>5. requests[r].key # Null => phase \notin Stored
      BY <2>1, <2>3 DEF Inv, WellFormed, Shape
    <2>6. \A x \in DOMAIN requests : requests[x].key # Null =>
             (requests'[x].phase \in Stored <=> requests[x].phase \in Stored)
      BY <2>1, <2>4, <2>5
    <2>. QED  BY <2>2, <2>4, <2>6, QuietKeys
  <1>3. ASSUME NEW r \in Requests, PoolTimeout(r) \/ Refuse(r) \/ Fail(r)
        PROVE  KeysSound'
    <2>1. r \in DOMAIN requests /\ Answer(r) /\ UNCHANGED <<blobs, files, images>>
      BY <1>3 DEF PoolTimeout, Refuse, Fail, At, Running, tables
    <2>2. /\ DOMAIN requests' = DOMAIN requests \ {r}
          /\ \A x \in DOMAIN requests' : requests'[x] = requests[x]
      BY <1>0, <2>1, Answering, Ending
    <2>3. requests[r].loaded # Null => requests[r].phase = "replaced"
      BY <2>1 DEF Inv, WellFormed, Shape
    <2>4. /\ failed \subseteq failed'
          /\ requests[r].key # Null /\ requests[r].phase \in Stored => requests[r].key \in failed'
          /\ requests[r].loaded # Null => requests[r].loaded \in failed'
      <3>1. CASE Fail(r)
        BY <2>3, <3>1 DEF Fail, Touched, Stored
      <3>2. CASE PoolTimeout(r) \/ Refuse(r)
        BY <2>3, <3>2 DEF PoolTimeout, Refuse, At, Stored
      <3>. QED  BY <1>3, <3>1, <3>2
    <2>. QED  BY <2>1, <2>2, <2>4, EndingKeys
  <1>4. ASSUME NEW p \in Processes, Crash(p)
        PROVE  KeysSound'
    <2>. DEFINE lost == {r \in DOMAIN requests : requests[r].process = p}
    <2>1. UNCHANGED <<blobs, files, images>> /\ Ends(lost)
      BY <1>4 DEF Crash, Ends, tables
    <2>2. \A r \in lost : Touched(r) \subseteq failed'
      BY <1>4 DEF Crash
    <2>3. failed \subseteq failed'
      BY <1>4 DEF Crash
    <2>. HIDE DEF lost
    <2>4. /\ DOMAIN requests' = DOMAIN requests \ lost
          /\ \A x \in DOMAIN requests' : requests'[x] = requests[x]
      BY <1>0, <2>1, Ending
    <2>5. ASSUME NEW r \in lost \cap DOMAIN requests
          PROVE  /\ requests[r].key # Null /\ requests[r].phase \in Stored
                       => requests[r].key \in failed'
                 /\ requests[r].loaded # Null => requests[r].loaded \in failed'
      <3>1. requests[r].loaded # Null => requests[r].phase = "replaced"
        BY DEF Inv, WellFormed, Shape
      <3>2. Touched(r) \subseteq failed'
        BY <2>2
      <3>. QED  BY <3>1, <3>2 DEF Touched, Stored
    <2>. QED  BY <2>1, <2>3, <2>4, <2>5, EndingKeys
  <1>5. ASSUME NEW r \in Requests,
               Save(r) \/ CommitFile(r) \/ Replace(r) \/ CommitImage(r) \/ CommitDelete(r)
        PROVE  KeysSound'
    <2>1. r \in DOMAIN requests
      BY <1>5 DEF Save, CommitFile, Replace, CommitImage, CommitDelete, At
    <2>. QED  BY <1>5, <2>1, SaveKeys, CommitFileKeys, ReplaceKeys, CommitImageKeys, CommitDeleteKeys
  <1>6. CASE UNCHANGED vars
    BY <1>6, QuietKeys DEF vars, tables
  <1>. QED  BY <1>1, <1>2, <1>3, <1>4, <1>5, <1>6 DEF Next, Handler

LEMMA InitKeys == Init => KeysSound
  <1>. SUFFICES ASSUME Init PROVE KeysSound
    OBVIOUS
  <1>1. DOMAIN requests = {}
    BY DEF Init
  <1>2. Named \subseteq {Null}
    BY DEF Init, Named
  <1>3. NamesUnique /\ KeysOwn /\ LoadedReplaced
    BY <1>1 DEF Init, NamesUnique, KeysOwn, LoadedReplaced
  <1>4. StoreMatchesTables
    BY <1>2 DEF Init, StoreMatchesTables
  <1>. QED  BY <1>3, <1>4 DEF KeysSound, KeyInv

----------------------------------------------------------------------------
(* The pool *)

LEMMA PoolStep ==
    ASSUME Inv, PoolNeverExceeded, [Next]_vars
    PROVE  PoolNeverExceeded'
  <1>. DEFINE Holds(q) == q.phase \notin {"arrived", "connecting"}
              Grows == \A x \in DOMAIN requests' : Holds(requests'[x]) =>
                          /\ x \in DOMAIN requests /\ Holds(requests[x])
                          /\ requests'[x].process = requests[x].process
  <1>0. TypeOK
    BY DEF Inv
  <1>1. ASSUME Grows
        PROVE  PoolNeverExceeded'
    <2>. SUFFICES ASSUME NEW p \in Processes
                  PROVE  IsFiniteSet(InUse(p)') /\ Cardinality(InUse(p)') <= Connections
      BY DEF PoolNeverExceeded
    <2>1. InUse(p)' \subseteq InUse(p)
      BY <1>1 DEF InUse
    <2>2. IsFiniteSet(InUse(p)) /\ Cardinality(InUse(p)) <= Connections
      BY DEF PoolNeverExceeded
    <2>3. IsFiniteSet(InUse(p)') /\ Cardinality(InUse(p)') <= Cardinality(InUse(p))
      BY <2>1, <2>2, FS_Subset
    <2>4. Cardinality(InUse(p)') \in Nat /\ Cardinality(InUse(p)) \in Nat
      BY <2>2, <2>3, FS_CardinalityType
    <2>. QED  BY <2>2, <2>3, <2>4, ConnectionsAssumption
  <1>2. ASSUME NEW r \in Requests, Client(r)
        PROVE  PoolNeverExceeded'
    <2>1. ASSUME NEW op \in {"attach", "image", "delete"}, NEW p \in Processes, NEW target,
                 NEW key, Arrive(r, op, p, target, key)
          PROVE  Grows
      <3>1. /\ DOMAIN requests' = DOMAIN requests \cup {r}
            /\ \A x \in DOMAIN requests : requests'[x] = requests[x]
            /\ requests'[r].phase = "arrived"
        BY <2>1 DEF Arrive
      <3>. QED  BY <3>1
    <2>. QED  BY <1>1, <1>2, <2>1 DEF Client
  <1>3. ASSUME NEW r \in DOMAIN requests, NEW phase \in Phase, MoveTo(r, phase),
               phase = "connecting" \/ Holds(requests[r])
        PROVE  PoolNeverExceeded'
    <2>1. /\ DOMAIN requests' = DOMAIN requests
          /\ \A x \in DOMAIN requests :
                /\ requests'[x].process = requests[x].process
                /\ requests'[x].phase = IF x = r THEN phase ELSE requests[x].phase
      BY <1>0, <1>3, Moves
    <2>. QED  BY <1>1, <1>3, <2>1
  <1>4. ASSUME NEW r \in Requests, Start(r) \/ Read(r) \/ Resume(r) \/ Save(r)
        PROVE  PoolNeverExceeded'
    BY <1>3, <1>4 DEF Start, Read, Resume, Save, At, Phase
  <1>5. ASSUME NEW r \in Requests, Connect(r)
        PROVE  PoolNeverExceeded'
    <2>. DEFINE q == requests[r].process
    <2>1. r \in DOMAIN requests /\ requests[r].phase = "connecting" /\ ConnectionFree(q)
      BY <1>5 DEF Connect, At
    <2>2. PICK phase \in Phase : MoveTo(r, phase)
      BY <1>5 DEF Connect, Phase
    <2>3. /\ DOMAIN requests' = DOMAIN requests
          /\ \A x \in DOMAIN requests :
                /\ requests'[x].process = requests[x].process
                /\ requests'[x].phase = IF x = r THEN phase ELSE requests[x].phase
      BY <1>0, <2>1, <2>2, Moves
    <2>. SUFFICES ASSUME NEW p \in Processes
                  PROVE  IsFiniteSet(InUse(p)') /\ Cardinality(InUse(p)') <= Connections
      BY DEF PoolNeverExceeded
    <2>4. IsFiniteSet(InUse(p)) /\ Cardinality(InUse(p)) <= Connections
      BY DEF PoolNeverExceeded
    <2>5. /\ InUse(p)' \subseteq InUse(p) \cup {r}
          /\ p # q => InUse(p)' \subseteq InUse(p)
      BY <2>1, <2>3 DEF InUse
    <2>6. /\ IsFiniteSet(InUse(p) \cup {r})
          /\ Cardinality(InUse(p) \cup {r}) \in {Cardinality(InUse(p)), Cardinality(InUse(p)) + 1}
      BY <2>4, FS_AddElement
    <2>7. IsFiniteSet(InUse(p)') /\ Cardinality(InUse(p)') <= Cardinality(InUse(p) \cup {r})
      BY <2>5, <2>6, FS_Subset
    <2>8. p # q => Cardinality(InUse(p)') <= Cardinality(InUse(p))
      BY <2>4, <2>5, FS_Subset
    <2>9. Cardinality(InUse(p)') \in Nat /\ Cardinality(InUse(p)) \in Nat
      BY <2>4, <2>7, FS_CardinalityType
    <2>10. CASE p = q
      <3>1. Cardinality(InUse(p)) < Connections
        BY <2>1, <2>10 DEF ConnectionFree
      <3>. QED  BY <2>6, <2>7, <2>9, <3>1, ConnectionsAssumption
    <2>11. CASE p # q
      BY <2>4, <2>7, <2>8, <2>9, <2>11, ConnectionsAssumption
    <2>. QED  BY <2>10, <2>11
  <1>6. ASSUME NEW r \in Requests,
               PoolTimeout(r) \/ Refuse(r) \/ CommitFile(r) \/ CommitImage(r) \/ Fail(r)
        PROVE  PoolNeverExceeded'
    <2>1. Answer(r)
      BY <1>6 DEF PoolTimeout, Refuse, CommitFile, CommitImage, Fail
    <2>2. \A x \in DOMAIN requests' : x \in DOMAIN requests /\ requests'[x] = requests[x]
      BY <1>0, <2>1, Answering, Ending
    <2>. QED  BY <1>1, <2>2
  <1>7. ASSUME NEW r \in Requests, Replace(r)
        PROVE  PoolNeverExceeded'
    <2>1. r \in DOMAIN requests /\ Holds(requests[r])
      BY <1>7 DEF Replace, At
    <2>2. requests' = [requests EXCEPT ![r].phase = "replaced",
                                       ![r].loaded = images[requests[r].target]]
      BY <1>7 DEF Replace
    <2>3. requests \in [DOMAIN requests -> Request]
      BY <1>0 DEF TypeOK
    <2>4. /\ DOMAIN requests' = DOMAIN requests
          /\ \A x \in DOMAIN requests :
                /\ requests'[x].process = requests[x].process
                /\ x # r => requests'[x].phase = requests[x].phase
      BY <2>1, <2>2, <2>3 DEF Request
    <2>. QED  BY <1>1, <2>1, <2>4
  <1>8. ASSUME NEW r \in Requests, CommitDelete(r)
        PROVE  PoolNeverExceeded'
    <2>1. r \in DOMAIN requests
      BY <1>8 DEF CommitDelete, At
    <2>2. DOMAIN requests' = DOMAIN requests \ {r}
      BY <1>0, <1>8, <2>1, Deleting
    <2>3. \A x \in DOMAIN requests' : /\ requests'[x].process = requests[x].process
                                     /\ requests'[x].phase = requests[x].phase
      BY <1>0, <1>8, <2>1, Deleting
    <2>. QED  BY <1>1, <2>2, <2>3
  <1>9. ASSUME NEW p \in Processes, Crash(p)
        PROVE  PoolNeverExceeded'
    <2>1. Ends({r \in DOMAIN requests : requests[r].process = p})
      BY <1>9 DEF Crash, Ends
    <2>2. \A x \in DOMAIN requests' : x \in DOMAIN requests /\ requests'[x] = requests[x]
      BY <1>0, <2>1, Ending
    <2>. QED  BY <1>1, <2>2
  <1>10. CASE UNCHANGED vars
    BY <1>1, <1>10 DEF vars
  <1>. QED  BY <1>2, <1>4, <1>5, <1>6, <1>7, <1>8, <1>9, <1>10 DEF Next, Handler

LEMMA InitPool == Init => PoolNeverExceeded
  <1>. SUFFICES ASSUME Init, NEW p \in Processes
                PROVE  IsFiniteSet(InUse(p)) /\ Cardinality(InUse(p)) <= Connections
    BY DEF PoolNeverExceeded
  <1>1. InUse(p) = {}
    BY DEF Init, InUse
  <1>. QED  BY <1>1, FS_EmptySet, ConnectionsAssumption

----------------------------------------------------------------------------
(* The theorems *)

\* The tables, the store and the requests under way keep their types.
THEOREM TypeCorrect == Spec => []TypeOK
  <1>1. Inv => TypeOK
    BY DEF Inv
  <1>. QED  BY <1>1, Invariance, PTL

\* A process's loop runs one request of its own at a time: the requests that are
\* past their await, or have not come to it, never overlap in a process.
THEOREM LoopRunsOne == Spec => []LoopSound
  <1>1. Inv => LoopSound
    BY DEF Inv
  <1>. QED  BY <1>1, Invariance, PTL

\* Rows name blobs that are in the store and blobs in the store are named by
\* rows, except under way and after failures and overlaps.
THEOREM StoreMatches == Spec => []StoreMatchesTables
  <1>1. Inv /\ KeysSound /\ [Next]_vars => KeysSound'
    BY KeysStep
  <1>2. KeysSound => StoreMatchesTables
    BY DEF KeysSound
  <1>. QED  BY <1>1, <1>2, InitKeys, Invariance, PTL DEF Spec

\* The key of an upload under way is named by no row and loaded by no other
\* request, and what a replacement has loaded is the slot's own or nobody's: no
\* request deletes, or commits, the blob of another.
THEOREM KeysNeverShared == Spec => []KeyInv
  <1>1. Inv /\ KeysSound /\ [Next]_vars => KeysSound'
    BY KeysStep
  <1>2. KeysSound => KeyInv
    BY DEF KeysSound
  <1>. QED  BY <1>1, <1>2, InitKeys, Invariance, PTL DEF Spec

\* The handlers of a process, the awaiting ones included, never hold more
\* connections than the pool of app/database.py has.
THEOREM PoolBound == Spec => []PoolNeverExceeded
  <1>1. Inv /\ PoolNeverExceeded /\ [Next]_vars => PoolNeverExceeded'
    BY PoolStep
  <1>. QED  BY <1>1, InitPool, Invariance, PTL DEF Spec
============================================================================
