----------------------------- MODULE CreamProofs -----------------------------
(***************************************************************************)
(* What holds of module Cream for any clients, workers, descriptors, keys, *)
(* buffers and hash function, and a map of any capacity.                   *)
(***************************************************************************)
EXTENDS Cream, TLAPS, FiniteSetTheorems, WellFoundedInduction

Slots == Table!Slots

LiveNodes == Table!Live(nodes)

\* TypeOK, and what it leaves out: the queue and the answers are sequences.
Shapes ==
    /\ TypeOK
    /\ queue \in Seq(Fds)
    /\ got \in [Clients -> Seq(Answers \cup Values)]

\* What a worker has in its variables at each of its steps.
WorkerOK ==
    \A w \in Workers :
        /\ fd[w] = 0 <=> wpc[w] = "dequeue"
        /\ wpc[w] \in {"dequeue", "receive"} => request[w] = NoRequest /\ buffer[w] = "null"
        /\ wpc[w] \notin {"dequeue", "receive"} => request[w] \in Request
        /\ wpc[w] \in {"respond", "send", "close"} => code[w] \in Answers
        /\ wpc[w] = "send" => buffer[w] \in Buffers
        /\ wpc[w] = "respond" /\ request[w].code = "GET" /\ code[w] = "OK" =>
              buffer[w] \in Buffers

\* A descriptor is in at most one place, and it is in one exactly when it is open.
HandsOK ==
    /\ \A j, k \in DOMAIN queue : queue[j] = queue[k] => j = k
    /\ \A k \in DOMAIN queue : queue[k] # accepted
    /\ \A v, w \in Workers : fd[v] # 0 /\ fd[v] = fd[w] => v = w
    /\ \A w \in Workers : /\ \A k \in DOMAIN queue : queue[k] # fd[w]
                          /\ fd[w] # 0 => fd[w] # accepted
    /\ \A f \in Fds : fds[f] # "null" <=> \/ f = accepted
                                          \/ \E k \in DOMAIN queue : queue[k] = f
                                          \/ \E w \in Workers : fd[w] = f

\* A connection has one descriptor, and a client one connection.
PeersOK ==
    /\ \A f, g \in Fds : fds[f] # "null" /\ fds[f] = fds[g] => f = g
    /\ \A f \in Fds : fds[f] # "null" => conn[fds[f]] = "accepted"

\* The answer that fits request r.
Fits(r, ans) ==
    /\ ans = "UNSUPPORTED" <=> r.code = "unsupported"
    /\ ans = "BAD_REQUEST" <=> r.code \in {"PUT", "GET", "EVICT"} /\ ~r.valid

\* What a worker knows of its client, whose side of the connection is not closed.
AnswerOK ==
    \A w \in Workers :
        LET peer == Peer(w) IN
        /\ wpc[w] \notin {"dequeue", "receive"} /\ sends[peer].code # "eof" => request[w] = sends[peer]
        /\ wpc[w] \in {"respond", "send", "close"} => Fits(request[w], code[w])
        /\ wpc[w] = "send" =>
              request[w].code = "GET" /\ code[w] = "OK" /\ got[peer] = <<"OK">>
        /\ wpc[w] = "close" =>
              /\ got[peer] # <<>> /\ got[peer][1] = code[w]
              /\ Len(got[peer]) = 2 <=> request[w].code = "GET" /\ code[w] = "OK"

\* A PUT between its receive and its map call has a buffer of its own, with the
\* value for its key (an exiting process may be without).
PutBuffersOK ==
    \A w \in Workers : request[w].code = "PUT" =>
        /\ buffer[w] # "null" =>
              /\ buffer[w] \in allocated
              /\ \A i \in Slots : nodes[i].val # buffer[w]
              /\ \A v \in Workers : request[v].code = "PUT" /\ buffer[v] = buffer[w] => v = w
        /\ wpc[w] = "serve" /\ ~exited =>
              /\ buffer[w] # "null"
              /\ request[w].valid => content[buffer[w]] \in PutFor(request[w].key)

\* A slot has a value exactly when it has a key, and size counts the live ones.
NodesOK ==
    /\ \A i \in Slots : nodes[i].key = "null" <=> nodes[i].val = "null"
    /\ Cardinality(LiveNodes) <= size

CreamInv ==
    /\ Shapes /\ WorkerOK /\ HandsOK /\ PeersOK /\ AnswerOK
    /\ PutBuffersOK /\ NodesOK /\ StoredValuesIntact /\ AnswersMatchRequests
-----------------------------------------------------------------------------
(***************************************************************************)
(* The table.                                                              *)
(***************************************************************************)
\* A probe loop that stops does so at the first of the steps at which it may.
LEMMA LeastIsLeast ==
    ASSUME NEW S, S \subseteq Nat, S # {}
    PROVE  Table!Least(S) \in S /\ \A i \in S : Table!Least(S) <= i
<1> DEFINE R == {ss \in Nat \X Nat : ss[1] < ss[2]}
<1>1. IsWellFoundedOn(R, Nat)
  BY NatLessThanWellFounded DEF OpToRel
<1>2. \E j \in S : \A i \in S : ~ (<<i, j>> \in R)
  <2> HIDE DEF R
  <2> QED
    BY <1>1, WFMin
<1>3. \A i, j \in S : ~ (<<i, j>> \in R) => j <= i
  OBVIOUS
<1>4. \E j \in S : \A i \in S : j <= i
  BY <1>2, <1>3
<1> QED
  BY <1>4 DEF Table!Least

\* The map has as many slots as its capacity.
LEMMA SlotsFinite == /\ IsFiniteSet(Slots) /\ Cardinality(Slots) = Capacity
                     /\ Slots \subseteq Nat
<1>1. 0 \in Int /\ Capacity - 1 \in Int /\ Capacity \in Nat
  BY CreamAssumption
<1> QED
  BY <1>1, FS_Interval, CreamAssumption DEF Slots, Table!Slots

\* A probe that wraps round stays in the table.
LEMMA ProbeInSlots ==
    ASSUME NEW k \in Keys, NEW j \in Slots
    PROVE  Table!Probe(k, j) \in Slots
BY CreamAssumption DEF Table!Probe, Slots, Table!Slots

\* A get returns a buffer or nothing.
LEMMA GetIsBuffer ==
    ASSUME NEW table1 \in [Slots -> Table!Node], NEW k \in Keys
    PROVE  Table!Get(table1, k) \in Buffers \cup {"null"}
<1> DEFINE stops == Table!GetStops(table1, k)
<1>1. stops \subseteq Slots /\ Slots \subseteq Nat
  BY SlotsFinite DEF Table!GetStops, Slots
<1>2. CASE stops = {}
  BY <1>2 DEF Table!Get
<1>3. CASE stops # {}
  <2>1. Table!Probe(k, Table!Least(stops)) \in Slots
    BY <1>1, <1>3, LeastIsLeast, ProbeInSlots
  <2> QED
    BY <1>3, <2>1 DEF Table!Get, Table!Node
<1> QED
  BY <1>2, <1>3

\* get_true_index finds a live entry of the key, or nothing.
LEMMA TrueIndexIsLive ==
    ASSUME NEW table1, NEW k \in Keys, Table!TrueIndex(table1, k) # -1
    PROVE  /\ Table!TrueIndex(table1, k) \in Slots
           /\ Table!TrueIndex(table1, k) \in Table!Live(table1)
<1> DEFINE stops == Table!IndexStops(table1, k)
           first == Table!Least(stops)
<1>1. stops \subseteq Slots /\ Slots \subseteq Nat
  BY SlotsFinite DEF Table!IndexStops, Slots
<1>2. stops # {}
  BY DEF Table!TrueIndex
<1>3. first \in stops
  BY <1>1, <1>2, LeastIsLeast
<1>4. Table!Probe(k, first) \in Slots
  BY <1>1, <1>3, ProbeInSlots
<1>5. ~table1[Table!Probe(k, first)].tombstone
  BY <1>3 DEF Table!IndexStops
<1> QED
  BY <1>2, <1>4, <1>5 DEF Table!TrueIndex, Table!Live, Slots

\* There are no more live entries than slots.
LEMMA LiveFinite ==
    \A table1 : /\ IsFiniteSet(Table!Live(table1))
                /\ Cardinality(Table!Live(table1)) \in Nat
                /\ Cardinality(Table!Live(table1)) <= Capacity
<1>1. \A table1 : Table!Live(table1) \in SUBSET Slots
  BY DEF Table!Live, Slots
<1> QED
  BY <1>1, SlotsFinite, FS_Subset, FS_CardinalityType
-----------------------------------------------------------------------------
(***************************************************************************)
(* The steps of a worker.                                                  *)
(***************************************************************************)
LEMMA GotoMoves ==
    ASSUME TypeOK, NEW w \in Workers, NEW from, NEW to, Goto(w, from, to)
    PROVE  /\ wpc[w] = from /\ wpc'[w] = to /\ ~exited
           /\ \A v \in Workers : v # w => wpc'[v] = wpc[v]
BY DEF Goto, TypeOK

\* The map calls, and the requests that are refused without one.
Serve(w) ==
    BadRequest(w) \/ Unsupported(w) \/ HandlePut(w) \/ HandleGet(w) \/ HandleEvict(w) \/ HandleClear(w)

\* A step of the server is one of these.
LEMMA NextCases ==
    ASSUME Next
    PROVE  \/ \E c \in Clients : Accept(c)
           \/ Enqueue
           \/ \E w \in Workers : \/ Dequeue(w) \/ Receive(w) \/ Serve(w)
                                 \/ WriteHeader(w) \/ WriteValue(w) \/ Close(w)
BY DEF Next, Work, Serve

\* Whatever a worker is asked, its answer is one that fits, it has the value that
\* it is to send, and it changes nothing but its own call and the map.
LEMMA ServeAnswers ==
    ASSUME Shapes, WorkerOK, NEW w \in Workers, Serve(w)
    PROVE  \E ans \in Answers, b \in Buffers \cup {"null"} :
              /\ ~exited /\ wpc[w] = "serve" /\ request[w] \in Request
              /\ wpc' = [wpc EXCEPT ![w] = "respond"]
              /\ code' = [code EXCEPT ![w] = ans]
              /\ buffer' = [buffer EXCEPT ![w] = b]
              /\ Fits(request[w], ans)
              /\ request[w].code = "GET" /\ ans = "OK" => b \in Buffers
              /\ UNCHANGED <<clients, fds, accepted, queue, content, exited, fd, request>>
<1> USE DEF Shapes, TypeOK, Fits, Respond, Goto, Answers
<1>1. wpc[w] = "serve" => request[w] \in Request
  BY DEF WorkerOK
<1>2. buffer = [buffer EXCEPT ![w] = buffer[w]] /\ buffer[w] \in Buffers \cup {"null"}
  OBVIOUS
<1>3. CASE BadRequest(w)
  BY <1>1, <1>2, <1>3 DEF BadRequest
<1>4. CASE Unsupported(w)
  BY <1>1, <1>2, <1>4 DEF Unsupported, Serving
<1>5. CASE HandlePut(w)
  BY <1>1, <1>2, <1>5 DEF HandlePut, Serving
<1>6. CASE HandleGet(w)
  <2> DEFINE value == Table!Get(nodes, request[w].key)
  <2>1. request[w].key \in Keys /\ nodes \in [Slots -> Table!Node]
    BY <1>1, <1>6 DEF HandleGet, Serving, Request, RequestsOf, Slots
  <2>2. value \in Buffers \cup {"null"}
    BY <2>1, GetIsBuffer
  <2>3. /\ Respond(w, IF value = "null" THEN "NOT_FOUND" ELSE "OK", "respond")
        /\ buffer' = [buffer EXCEPT ![w] = value]
        /\ wpc[w] = "serve" /\ request[w].code = "GET" /\ request[w].valid
    BY <1>6 DEF HandleGet, Serving
  <2> HIDE DEF value
  <2> QED
    BY <1>1, <2>2, <2>3
<1>7. CASE HandleEvict(w)
  BY <1>1, <1>2, <1>7 DEF HandleEvict, Serving
<1>8. CASE HandleClear(w)
  BY <1>1, <1>2, <1>8 DEF HandleClear, Serving
<1> QED
  BY <1>3, <1>4, <1>5, <1>6, <1>7, <1>8 DEF Serve
-----------------------------------------------------------------------------
(***************************************************************************)
(* The steps preserve the invariant.                                       *)
(***************************************************************************)
\* A worker that has a descriptor has a client at the other end, and no other
\* worker has the same one.
LEMMA PeerIsClient ==
    ASSUME CreamInv, NEW w \in Workers, wpc[w] # "dequeue"
    PROVE  /\ fd[w] \in Fds /\ Peer(w) = fds[fd[w]]
           /\ Peer(w) \in Clients /\ Peer(w) # "null" /\ conn[Peer(w)] = "accepted"
           /\ \A v \in Workers : v # w /\ wpc[v] # "dequeue" => Peer(v) # Peer(w)
<1>1. \A v \in Workers : wpc[v] # "dequeue" => fd[v] \in Fds /\ fds[fd[v]] # "null"
  <2>1. \A v \in Workers : wpc[v] # "dequeue" => fd[v] # 0 /\ fd[v] \in Fds
    BY DEF CreamInv, WorkerOK, Shapes, TypeOK
  <2> QED
    BY <2>1 DEF CreamInv, HandsOK
<1>2. \A v \in Workers : v # w => fd[v] # fd[w]
  BY <1>1, CreamAssumption DEF CreamInv, HandsOK, Fds
<1> QED
  BY <1>1, <1>2 DEF CreamInv, PeersOK, Shapes, TypeOK, Peer

\* The free descriptor that accept returns.
LEMMA LowestFree ==
    ASSUME TypeOK, ~ \A f \in Fds : fds[f] # "null"
    PROVE  LET new == CHOOSE f \in Fds : fds[f] = "null" /\ \A g \in 1 .. f - 1 : fds[g] # "null"
           IN  new \in Fds /\ fds[new] = "null"
<1> DEFINE S == {f \in Fds : fds[f] = "null"}
<1>1. S \subseteq Nat /\ S # {}
  BY CreamAssumption DEF Fds
<1>2. Table!Least(S) \in S /\ \A i \in S : Table!Least(S) <= i
  BY <1>1, LeastIsLeast
<1>3. \A g \in 1 .. Table!Least(S) - 1 : fds[g] # "null"
  BY <1>1, <1>2, CreamAssumption DEF Fds
<1> QED
  BY <1>2, <1>3

\* accept gives the connection a descriptor that is free, or main exits.
LEMMA AcceptMoves ==
    ASSUME TypeOK, NEW c \in Clients, Accept(c)
    PROVE  /\ ~exited /\ accepted = 0 /\ conn[c] = "away"
           /\ UNCHANGED <<sends, got, queue, map, heap, worker>>
           /\ \/ exited' = TRUE /\ UNCHANGED <<conn, fds, accepted>>
              \/ \E f \in Fds : /\ fds[f] = "null" /\ f # 0 /\ accepted' = f
                                /\ fds' = [fds EXCEPT ![f] = c]
                                /\ conn' = [conn EXCEPT ![c] = "accepted"]
                                /\ UNCHANGED exited
<1>1. \A f \in Fds : f # 0
  BY CreamAssumption DEF Fds
<1>2. CASE \A f \in Fds : fds[f] # "null"
  BY <1>2 DEF Accept
<1>3. CASE ~ \A f \in Fds : fds[f] # "null"
  BY <1>1, <1>3, LowestFree DEF Accept
<1> QED
  BY <1>2, <1>3

\* put, over a full map or not, and the entries it leaves.
LEMMA PutCounts ==
    ASSUME CreamInv, NEW w \in Workers, HandlePut(w)
    PROVE  /\ nodes' \in [Slots -> Table!Node] /\ size' \in 0 .. Capacity
           /\ Cardinality(LiveNodes') <= size'
<1> DEFINE k == request[w].key
           full == size >= Capacity
           slot == IF full THEN Index[k] ELSE Table!PutSlot(nodes, k)
           new == [key |-> k, val |-> buffer[w], tombstone |-> FALSE]
<1>1. /\ wpc[w] = "serve" /\ request[w] \in Request
      /\ nodes' = [nodes EXCEPT ![slot] = new]
      /\ size' = IF full THEN size ELSE size + 1
  BY DEF HandlePut, Serving, CreamInv, WorkerOK
<1>2. /\ nodes \in [Slots -> Table!Node] /\ size \in 0 .. Capacity /\ Capacity \in Nat
      /\ Cardinality(LiveNodes) <= size
  BY CreamAssumption DEF CreamInv, Shapes, TypeOK, NodesOK, Slots
<1>3. new \in Table!Node
  BY <1>1 DEF Request, RequestsOf, CreamInv, Shapes, TypeOK, Table!Node
<1> HIDE DEF slot, new, k
<1>4. nodes' \in [Slots -> Table!Node]
  BY <1>1, <1>2, <1>3
<1>5. size' \in 0 .. Capacity
  BY <1>1, <1>2
<1>6. Cardinality(LiveNodes') <= size'
  <2>1. CASE full
    BY <1>1, <1>2, <2>1, LiveFinite DEF LiveNodes
  <2>2. CASE ~full
    <3>1. LiveNodes' \subseteq LiveNodes \cup {slot}
      BY <1>1, <1>2 DEF LiveNodes, Table!Live, Slots
    <3>2. IsFiniteSet(LiveNodes) /\ Cardinality(LiveNodes) \in Nat
      BY LiveFinite DEF LiveNodes
    <3>3. /\ IsFiniteSet(LiveNodes \cup {slot})
          /\ Cardinality(LiveNodes \cup {slot}) <= Cardinality(LiveNodes) + 1
      <4>1. \/ Cardinality(LiveNodes \cup {slot}) = Cardinality(LiveNodes)
            \/ Cardinality(LiveNodes \cup {slot}) = Cardinality(LiveNodes) + 1
        BY <3>2, FS_AddElement
      <4>2. IsFiniteSet(LiveNodes \cup {slot})
        BY <3>2, FS_AddElement
      <4> QED
        BY <3>2, <4>1, <4>2
    <3>4. Cardinality(LiveNodes') <= Cardinality(LiveNodes \cup {slot})
      BY <3>1, <3>3, FS_Subset
    <3>5. /\ Cardinality(LiveNodes') \in Nat
          /\ Cardinality(LiveNodes \cup {slot}) \in Nat
      BY <3>3, FS_CardinalityType, LiveFinite DEF LiveNodes
    <3> QED
      BY <1>1, <1>2, <2>2, <3>2, <3>3, <3>4, <3>5
  <2> QED
    BY <2>1, <2>2
<1> QED
  BY <1>4, <1>5, <1>6

\* delete marks a live entry or leaves the map alone.
LEMMA EvictMarks ==
    ASSUME CreamInv, NEW w \in Workers, HandleEvict(w)
    PROVE  \/ UNCHANGED map
           \/ \E i \in LiveNodes : /\ nodes' = [nodes EXCEPT ![i].tombstone = TRUE]
                                   /\ size' = size - 1
<1> DEFINE k == request[w].key
           i == Table!TrueIndex(nodes, k)
<1>1. k \in Keys
  BY DEF HandleEvict, Serving, CreamInv, WorkerOK, Request, RequestsOf
<1>2. i # -1 => i \in LiveNodes
  BY <1>1, TrueIndexIsLive DEF LiveNodes
<1>3. \/ UNCHANGED map
      \/ i # -1 /\ nodes' = [nodes EXCEPT ![i].tombstone = TRUE] /\ size' = size - 1
  BY DEF HandleEvict
<1> HIDE DEF i
<1> QED
  BY <1>2, <1>3

\* After an EVICT the size covers the live entries.
LEMMA EvictCounts ==
    ASSUME CreamInv, NEW w \in Workers, HandleEvict(w)
    PROVE  /\ nodes' \in [Slots -> Table!Node] /\ size' \in 0 .. Capacity
           /\ Cardinality(LiveNodes') <= size'
<1>1. /\ nodes \in [Slots -> Table!Node] /\ size \in 0 .. Capacity /\ Capacity \in Nat
      /\ Cardinality(LiveNodes) <= size
  BY CreamAssumption DEF CreamInv, Shapes, TypeOK, NodesOK, Slots
<1>2. CASE UNCHANGED map
  BY <1>1, <1>2 DEF map, LiveNodes
<1>3. ASSUME NEW i \in LiveNodes, nodes' = [nodes EXCEPT ![i].tombstone = TRUE], size' = size - 1
      PROVE  /\ nodes' \in [Slots -> Table!Node] /\ size' \in 0 .. Capacity
             /\ Cardinality(LiveNodes') <= size'
  <2>1. LiveNodes' = LiveNodes \ {i}
    BY <1>1, <1>3 DEF LiveNodes, Table!Live, Slots, Table!Node
  <2>2. IsFiniteSet(LiveNodes) /\ Cardinality(LiveNodes) \in Nat
    BY LiveFinite DEF LiveNodes
  <2>3. Cardinality(LiveNodes \ {i}) = Cardinality(LiveNodes) - 1
    BY <1>3, <2>2, FS_RemoveElement
  <2>4. Cardinality(LiveNodes) >= 1
    BY <1>3, <2>2, FS_EmptySet
  <2>5. nodes' \in [Slots -> Table!Node]
    BY <1>1, <1>3 DEF Table!Node
  <2> QED
    BY <1>1, <1>3, <2>1, <2>2, <2>3, <2>4, <2>5
<1> QED
  BY <1>2, <1>3, EvictMarks

\* After a CLEAR the size covers the live entries.
LEMMA ClearCounts ==
    ASSUME CreamInv, NEW w \in Workers, HandleClear(w)
    PROVE  /\ nodes' \in [Slots -> Table!Node] /\ size' \in 0 .. Capacity
           /\ Cardinality(LiveNodes') <= size'
<1>1. /\ nodes \in [Slots -> Table!Node] /\ Capacity \in Nat
      /\ nodes' = [i \in Slots |-> IF nodes[i].key = "null" THEN nodes[i] ELSE Table!Clear]
      /\ size' = 0
  BY CreamAssumption DEF HandleClear, CreamInv, Shapes, TypeOK, Slots
<1>2. LiveNodes' = {}
  BY <1>1 DEF LiveNodes, Table!Live, Slots, Table!Clear
<1>3. nodes' \in [Slots -> Table!Node]
  BY <1>1 DEF Table!Node, Table!Clear
<1> QED
  BY <1>1, <1>2, <1>3, FS_EmptySet

\* So it does after every request.
LEMMA ServeCounts ==
    ASSUME CreamInv, NEW w \in Workers, Serve(w)
    PROVE  /\ nodes' \in [Slots -> Table!Node] /\ size' \in 0 .. Capacity
           /\ Cardinality(LiveNodes') <= size'
<1>1. CASE UNCHANGED map
  BY <1>1 DEF map, LiveNodes, CreamInv, Shapes, TypeOK, NodesOK, Slots
<1>2. BadRequest(w) \/ Unsupported(w) \/ HandleGet(w) => UNCHANGED map
  BY DEF BadRequest, Unsupported, HandleGet
<1> QED
  BY <1>1, <1>2, PutCounts, EvictCounts, ClearCounts DEF Serve

\* A request is what the client sent, or anything when it sent nothing; a PUT gets
\* a new buffer unless there is none left.
LEMMA ReceiveMoves ==
    ASSUME CreamInv, NEW w \in Workers, Receive(w)
    PROVE  \E r \in Request :
              /\ request' = [request EXCEPT ![w] = r]
              /\ sends[Peer(w)].code # "eof" => r = sends[Peer(w)]
              /\ \/ UNCHANGED <<content, allocated, buffer>> /\ (r.code = "PUT" => exited')
                 \/ \E new \in Buffers \ allocated, val \in Values :
                       /\ allocated' = allocated \cup {new}
                       /\ buffer' = [buffer EXCEPT ![w] = new]
                       /\ content' = [content EXCEPT ![new] = val]
                       /\ r.code = "PUT" /\ UNCHANGED exited
                       /\ r.valid => val = IF sends[Peer(w)].code = "eof" THEN "junk" ELSE Peer(w)
<1>1. PICK r \in Received(w) :
          /\ request' = [request EXCEPT ![w] = r]
          /\ IF r.code # "PUT" THEN UNCHANGED <<heap, buffer, exited>>
             ELSE IF allocated = Buffers THEN exited' = TRUE /\ UNCHANGED <<heap, buffer>>
             ELSE \E new \in Buffers \ allocated :
                    /\ allocated' = allocated \cup {new}
                    /\ buffer' = [buffer EXCEPT ![w] = new]
                    /\ content' = [content EXCEPT ![new] =
                                     IF ~r.valid THEN @
                                     ELSE IF sends[Peer(w)].code = "eof" THEN "junk" ELSE Peer(w)]
                    /\ UNCHANGED exited
  BY DEF Receive
<1>2. Peer(w) \in Clients
  BY PeerIsClient DEF Receive
<1>3. r \in Request /\ (sends[Peer(w)].code # "eof" => r = sends[Peer(w)])
  BY <1>2 DEF Receive, Received, Request, Requests, RequestsOf, CreamInv, Shapes, TypeOK, Codes
<1>4. CASE r.code # "PUT" \/ allocated = Buffers
  BY <1>1, <1>3, <1>4 DEF heap
<1>5. CASE r.code = "PUT" /\ allocated # Buffers
  <2>1. PICK new \in Buffers \ allocated :
            /\ allocated' = allocated \cup {new}
            /\ buffer' = [buffer EXCEPT ![w] = new]
            /\ content' = [content EXCEPT ![new] =
                             IF ~r.valid THEN content[new]
                             ELSE IF sends[Peer(w)].code = "eof" THEN "junk" ELSE Peer(w)]
            /\ UNCHANGED exited
    BY <1>1, <1>5
  <2> DEFINE val == IF ~r.valid THEN content[new]
                    ELSE IF sends[Peer(w)].code = "eof" THEN "junk" ELSE Peer(w)
  <2>2. val \in Values /\ content' = [content EXCEPT ![new] = val]
    BY <1>2, <2>1 DEF CreamInv, Shapes, TypeOK, Values
  <2>3. r.valid => val = IF sends[Peer(w)].code = "eof" THEN "junk" ELSE Peer(w)
    OBVIOUS
  <2> HIDE DEF val
  <2> QED
    BY <1>1, <1>3, <1>5, <2>1, <2>2, <2>3
<1> QED
  BY <1>4, <1>5

\* Every step keeps what the variables look like.
LEMMA ShapesStep ==
    ASSUME CreamInv, [Next]_vars
    PROVE  Shapes'
<1>1. ASSUME NEW c \in Clients, Accept(c)
      PROVE  Shapes'
  <2>1. UNCHANGED <<sends, got, queue, nodes, size, content, allocated, wpc, fd, request, buffer, code>>
    BY <1>1 DEF Accept, map, heap, worker
  <2>2. /\ conn' \in [Clients -> {"away", "accepted", "closed"}]
        /\ fds' \in [Fds -> Clients \cup {"null"}]
        /\ accepted' \in Fds \cup {0} /\ exited' \in BOOLEAN
    <3>1. CASE exited' = TRUE /\ UNCHANGED <<conn, fds, accepted>>
      BY <3>1 DEF CreamInv, Shapes, TypeOK
    <3>2. ASSUME NEW f \in Fds, accepted' = f, fds' = [fds EXCEPT ![f] = c],
                 conn' = [conn EXCEPT ![c] = "accepted"], UNCHANGED exited
          PROVE  /\ conn' \in [Clients -> {"away", "accepted", "closed"}]
                 /\ fds' \in [Fds -> Clients \cup {"null"}]
                 /\ accepted' \in Fds \cup {0} /\ exited' \in BOOLEAN
      BY <3>2 DEF CreamInv, Shapes, TypeOK
    <3>3. TypeOK
      BY DEF CreamInv, Shapes
    <3> QED
      BY <1>1, <3>1, <3>2, <3>3, AcceptMoves
  <2> QED
    BY <2>1, <2>2 DEF CreamInv, Shapes, TypeOK
<1>2. CASE Enqueue
  <2>1. queue' \in Seq(Fds) /\ accepted' = 0
    BY <1>2 DEF Enqueue, CreamInv, Shapes, TypeOK
  <2> QED
    BY <1>2, <2>1 DEF Enqueue, CreamInv, Shapes, TypeOK, clients, map, heap, worker
<1>3. ASSUME NEW w \in Workers, Dequeue(w)
      PROVE  Shapes'
  <2>1. queue' \in Seq(Fds) /\ Head(queue) \in Fds
    BY <1>3 DEF Dequeue, CreamInv, Shapes
  <2> QED
    BY <1>3, <2>1 DEF Dequeue, Goto, CreamInv, Shapes, TypeOK, clients, map, heap
<1>4. ASSUME NEW w \in Workers, Receive(w)
      PROVE  Shapes'
  <2>1. Peer(w) \in Clients
    BY <1>4, PeerIsClient DEF Receive
  <2>2. Received(w) \subseteq Request
    BY <1>4, <2>1 DEF Receive, Received, Request, Requests, RequestsOf, CreamInv, Shapes, TypeOK, Codes
  <2>3. /\ request' \in [Workers -> Request \cup {NoRequest}] /\ exited' \in BOOLEAN
        /\ wpc' \in [Workers -> {"dequeue", "receive", "serve", "respond", "send", "close"}]
    <3>1. wpc' \in [Workers -> {"dequeue", "receive", "serve", "respond", "send", "close"}]
      BY <1>4 DEF Receive, Goto, CreamInv, Shapes, TypeOK
    <3>2. request' \in [Workers -> Request \cup {NoRequest}]
      <4> request \in [Workers -> Request \cup {NoRequest}]
        BY DEF CreamInv, Shapes, TypeOK
      <4> QED
        BY <1>4, ReceiveMoves
    <3>3. exited' \in BOOLEAN
      BY <1>4, <2>2 DEF Receive, CreamInv, Shapes, TypeOK
    <3> QED
      BY <3>1, <3>2, <3>3
  <2>4. /\ content' \in [Buffers -> Values] /\ allocated' \subseteq Buffers
        /\ buffer' \in [Workers -> Buffers \cup {"null"}]
    <3>1. /\ content \in [Buffers -> Values] /\ allocated \subseteq Buffers
          /\ buffer \in [Workers -> Buffers \cup {"null"}]
          /\ "junk" \in Values /\ Peer(w) \in Values
      BY <2>1 DEF CreamInv, Shapes, TypeOK, Values
    <3>2. CASE UNCHANGED <<content, allocated, buffer>>
      BY <3>1, <3>2
    <3>4. ASSUME NEW new \in Buffers, NEW val \in Values,
                 allocated' = allocated \cup {new},
                 buffer' = [buffer EXCEPT ![w] = new],
                 content' = [content EXCEPT ![new] = val]
          PROVE  /\ content' \in [Buffers -> Values] /\ allocated' \subseteq Buffers
                 /\ buffer' \in [Workers -> Buffers \cup {"null"}]
      BY <3>1, <3>4
    <3>5. \/ UNCHANGED <<content, allocated, buffer>>
          \/ \E new \in Buffers, val \in Values :
                /\ allocated' = allocated \cup {new}
                /\ buffer' = [buffer EXCEPT ![w] = new]
                /\ content' = [content EXCEPT ![new] = val]
      BY <1>4, ReceiveMoves
    <3> QED
      BY <3>2, <3>4, <3>5
  <2> QED
    BY <1>4, <2>3, <2>4 DEF Receive, CreamInv, Shapes, TypeOK, clients, map
<1>5. ASSUME NEW w \in Workers, Serve(w)
      PROVE  Shapes'
  <2>1. nodes' \in [Table!Slots -> Table!Node] /\ size' \in 0 .. Capacity
    BY <1>5, ServeCounts DEF Slots
  <2>2. allocated' \subseteq Buffers
    BY <1>5 DEF Serve, BadRequest, Unsupported, HandlePut, HandleGet, HandleEvict, HandleClear,
                CreamInv, Shapes, TypeOK
  <2>3. /\ UNCHANGED <<conn, sends, got, fds, accepted, queue, content, exited, fd, request>>
        /\ wpc' \in [Workers -> {"dequeue", "receive", "serve", "respond", "send", "close"}]
        /\ code' \in [Workers -> Answers \cup {"null"}]
        /\ buffer' \in [Workers -> Buffers \cup {"null"}]
    <3>1. PICK ans \in Answers, b \in Buffers \cup {"null"} :
              /\ wpc' = [wpc EXCEPT ![w] = "respond"]
              /\ code' = [code EXCEPT ![w] = ans]
              /\ buffer' = [buffer EXCEPT ![w] = b]
              /\ UNCHANGED <<clients, fds, accepted, queue, content, exited, fd, request>>
      BY <1>5, ServeAnswers DEF CreamInv
    <3> QED
      BY <3>1 DEF CreamInv, Shapes, TypeOK, clients
  <2> QED
    BY <2>1, <2>2, <2>3 DEF CreamInv, Shapes, TypeOK
<1>6. ASSUME NEW w \in Workers, WriteHeader(w)
      PROVE  Shapes'
  <2>1. Peer(w) \in Clients /\ code[w] \in Answers
    BY <1>6, PeerIsClient DEF WriteHeader, Goto, CreamInv, WorkerOK
  <2>2. /\ <<code[w]>> \in Seq(Answers \cup Values)
        /\ Len(<<code[w]>>) = 1 /\ <<code[w]>>[1] \in Answers
    BY <2>1
  <2>3. got' = [got EXCEPT ![Peer(w)] = <<code[w]>>]
    BY <1>6 DEF WriteHeader
  <2>4. /\ got' \in [Clients -> Seq(Answers \cup Values)]
        /\ \A c \in Clients : /\ Len(got'[c]) <= 2
                              /\ Len(got'[c]) > 0 => got'[c][1] \in Answers
                              /\ Len(got'[c]) > 1 => got'[c][2] \in Values
    BY <2>1, <2>2, <2>3 DEF CreamInv, Shapes, TypeOK
  <2> QED
    BY <1>6, <2>4 DEF WriteHeader, Goto, CreamInv, Shapes, TypeOK, map, heap
<1>7. ASSUME NEW w \in Workers, WriteValue(w)
      PROVE  Shapes'
  <2>1. /\ Peer(w) \in Clients /\ got[Peer(w)] = <<"OK">> /\ content[buffer[w]] \in Values
        /\ got' = [got EXCEPT ![Peer(w)] = Append(@, content[buffer[w]])]
    BY <1>7, PeerIsClient DEF WriteValue, Goto, CreamInv, WorkerOK, AnswerOK, Shapes, TypeOK
  <2> DEFINE ans == Append(got[Peer(w)], content[buffer[w]])
  <2>2. /\ ans \in Seq(Answers \cup Values) /\ Len(ans) <= 2
        /\ Len(ans) > 0 => ans[1] \in Answers
        /\ Len(ans) > 1 => ans[2] \in Values
    BY <2>1 DEF Answers
  <2>3. got' = [got EXCEPT ![Peer(w)] = ans]
    BY <2>1
  <2> HIDE DEF ans
  <2>4. /\ got' \in [Clients -> Seq(Answers \cup Values)]
        /\ \A c \in Clients : /\ Len(got'[c]) <= 2
                              /\ Len(got'[c]) > 0 => got'[c][1] \in Answers
                              /\ Len(got'[c]) > 1 => got'[c][2] \in Values
    <3>1. /\ got \in [Clients -> Seq(Answers \cup Values)]
          /\ \A c \in Clients : /\ Len(got[c]) <= 2
                                /\ Len(got[c]) > 0 => got[c][1] \in Answers
                                /\ Len(got[c]) > 1 => got[c][2] \in Values
      BY DEF CreamInv, Shapes, TypeOK
    <3>2. \A c \in Clients : got'[c] = IF c = Peer(w) THEN ans ELSE got[c]
      BY <2>3, <3>1
    <3>3. got' \in [Clients -> Seq(Answers \cup Values)]
      BY <2>2, <2>3, <3>1
    <3> QED
      BY <2>2, <3>1, <3>2, <3>3
  <2> QED
    BY <1>7, <2>4 DEF WriteValue, Goto, CreamInv, Shapes, TypeOK, map, heap
<1>8. ASSUME NEW w \in Workers, Close(w)
      PROVE  Shapes'
  BY <1>8 DEF Close, Goto, Done, CreamInv, Shapes, TypeOK, map, heap
<1>9. CASE UNCHANGED vars
  BY <1>9 DEF vars, clients, map, heap, worker, CreamInv, Shapes, TypeOK
<1> QED
  BY <1>1, <1>2, <1>3, <1>4, <1>5, <1>6, <1>7, <1>8, <1>9, NextCases

\* Only main, a dequeue and a close move descriptors and connections.
LEMMA OthersKeepHands ==
    ASSUME CreamInv, NEW w \in Workers,
           Receive(w) \/ Serve(w) \/ WriteHeader(w) \/ WriteValue(w)
    PROVE  UNCHANGED <<conn, sends, fds, accepted, queue, fd>>
<1>1. Serve(w) => UNCHANGED <<conn, sends, fds, accepted, queue, fd>>
  BY ServeAnswers DEF CreamInv, clients
<1> QED
  BY <1>1 DEF Receive, WriteHeader, WriteValue, clients

\* Every step keeps an open descriptor in one pair of hands.
LEMMA HandsStep ==
    ASSUME CreamInv, [Next]_vars
    PROVE  HandsOK'
<1> USE DEF HandsOK
<1>0. /\ HandsOK /\ queue \in Seq(Fds) /\ accepted \in Fds \cup {0}
      /\ fds \in [Fds -> Clients \cup {"null"}] /\ fd \in [Workers -> Fds \cup {0}]
      /\ 0 \notin Fds /\ "null" \notin Clients
  BY CreamAssumption DEF CreamInv, Shapes, TypeOK, Fds
<1>1. ASSUME NEW c \in Clients, Accept(c)
      PROVE  HandsOK'
  <2>1. UNCHANGED <<queue, fd>> /\ accepted = 0
    BY <1>1 DEF Accept, worker
  <2>2. CASE UNCHANGED <<fds, accepted>>
    BY <1>0, <2>1, <2>2
  <2>3. ASSUME NEW f \in Fds, fds[f] = "null", accepted' = f, fds' = [fds EXCEPT ![f] = c]
        PROVE  HandsOK'
    <3>1. /\ \A k \in DOMAIN queue : queue[k] # f
          /\ \A v \in Workers : fd[v] # f
      BY <1>0, <2>3
    <3> QED
      BY <1>0, <2>1, <2>3, <3>1
  <2>4. TypeOK
    BY DEF CreamInv, Shapes
  <2> QED
    BY <1>1, <2>2, <2>3, <2>4, AcceptMoves
<1>2. CASE Enqueue
  <2>1. UNCHANGED <<fds, fd>> /\ accepted # 0 /\ accepted' = 0
    BY <1>2 DEF Enqueue, worker
  <2>2. /\ DOMAIN queue = 1 .. Len(queue) /\ Len(queue) \in Nat
        /\ DOMAIN queue' = 1 .. Len(queue) + 1
        /\ \A k \in 1 .. Len(queue) : queue'[k] = queue[k]
        /\ queue'[Len(queue) + 1] = accepted
    BY <1>0, <1>2 DEF Enqueue
  <2>3. \A k \in DOMAIN queue' : k \in DOMAIN queue \/ k = Len(queue) + 1
    BY <2>2
  <2>4. \A j, k \in DOMAIN queue' : queue'[j] = queue'[k] => j = k
    BY <1>0, <2>2, <2>3
  <2>5. \A k \in DOMAIN queue' : queue'[k] # accepted'
    BY <1>0, <2>1, <2>2, <2>3
  <2>6. \A v \in Workers : /\ \A k \in DOMAIN queue' : queue'[k] # fd[v]
                           /\ fd[v] # 0 => fd[v] # accepted'
    BY <1>0, <2>1, <2>2, <2>3
  <2>7. \A f \in Fds : (\E k \in DOMAIN queue' : queue'[k] = f) <=>
                          f = accepted \/ \E k \in DOMAIN queue : queue[k] = f
    BY <2>2, <2>3
  <2> QED
    BY <1>0, <2>1, <2>4, <2>5, <2>6, <2>7
<1>3. ASSUME NEW w \in Workers, Dequeue(w)
      PROVE  HandsOK'
  <2>1. /\ UNCHANGED <<fds, accepted>> /\ fd' = [fd EXCEPT ![w] = Head(queue)]
        /\ queue # <<>> /\ queue' = Tail(queue) /\ fd[w] = 0
    BY <1>3 DEF Dequeue, Goto, CreamInv, WorkerOK
  <2>2. /\ DOMAIN queue = 1 .. Len(queue) /\ Len(queue) \in Nat \ {0}
        /\ DOMAIN queue' = 1 .. Len(queue) - 1
        /\ \A k \in DOMAIN queue' : k + 1 \in DOMAIN queue /\ queue'[k] = queue[k + 1]
        /\ 1 \in DOMAIN queue /\ Head(queue) = queue[1]
    BY <1>0, <2>1
  <2>3. Head(queue) \in Fds /\ \A k \in DOMAIN queue' : queue'[k] # Head(queue) /\ queue'[k] \in Fds
    <3>1. ASSUME NEW k \in DOMAIN queue'
          PROVE  queue'[k] # queue[1]
      <4>1. k + 1 # 1
        BY <2>2
      <4> QED
        BY <1>0, <2>2, <4>1
    <3> QED
      BY <1>0, <2>2, <3>1
  <2>4. \A k \in DOMAIN queue : k = 1 \/ (k - 1 \in DOMAIN queue' /\ queue'[k - 1] = queue[k])
    BY <2>2
  <2>5. \A j, k \in DOMAIN queue' : queue'[j] = queue'[k] => j = k
    <3> TAKE j, k \in DOMAIN queue'
    <3>1. queue'[j] = queue'[k] => j + 1 = k + 1
      BY <1>0, <2>2
    <3> QED
      BY <2>2, <3>1
  <2>6. \A k \in DOMAIN queue' : queue'[k] # accepted'
    BY <1>0, <2>1, <2>2
  <2>7. \A v \in Workers : v # w => fd'[v] = fd[v] /\ fd[v] # Head(queue)
    BY <1>0, <2>1, <2>2
  <2>8. fd'[w] = Head(queue) /\ Head(queue) # accepted'
    BY <1>0, <2>1, <2>2
  <2>9. \A u, v \in Workers : fd'[u] # 0 /\ fd'[u] = fd'[v] => u = v
    BY <1>0, <2>7, <2>8
  <2>10. \A v \in Workers : /\ \A k \in DOMAIN queue' : queue'[k] # fd'[v]
                            /\ fd'[v] # 0 => fd'[v] # accepted'
    BY <1>0, <2>1, <2>2, <2>3, <2>7, <2>8
  <2>11. \A f \in Fds : \/ \E k \in DOMAIN queue : queue[k] = f
                        \/ \E v \in Workers : fd[v] = f
                    <=> \/ \E k \in DOMAIN queue' : queue'[k] = f
                        \/ \E v \in Workers : fd'[v] = f
    <3> TAKE f \in Fds
    <3>1. (\E v \in Workers : fd'[v] = f) <=> f = Head(queue) \/ \E v \in Workers : fd[v] = f
      BY <1>0, <2>1, <2>3, <2>7, <2>8
    <3>2. (\E k \in DOMAIN queue : queue[k] = f) <=>
             f = Head(queue) \/ \E k \in DOMAIN queue' : queue'[k] = f
      BY <2>2, <2>4
    <3> QED
      BY <3>1, <3>2
  <2> QED
    BY <1>0, <2>1, <2>5, <2>6, <2>9, <2>10, <2>11
<1>4. ASSUME NEW w \in Workers, Receive(w) \/ Serve(w) \/ WriteHeader(w) \/ WriteValue(w)
      PROVE  HandsOK'
  BY <1>0, <1>4, OthersKeepHands
<1>5. ASSUME NEW w \in Workers, Close(w)
      PROVE  HandsOK'
  <2>1. /\ UNCHANGED <<queue, accepted>> /\ fd' = [fd EXCEPT ![w] = 0]
        /\ fds' = [fds EXCEPT ![fd[w]] = "null"]
    BY <1>5 DEF Close, Done
  <2>2. fd[w] \in Fds
    BY <1>5, PeerIsClient DEF Close, Goto
  <2>3. /\ fd'[w] = 0 /\ fds'[fd[w]] = "null"
        /\ \A v \in Workers : v # w => fd'[v] = fd[v] /\ fd[v] # fd[w]
        /\ \A f \in Fds : f # fd[w] => fds'[f] = fds[f]
    BY <1>0, <2>1, <2>2
  <2>4. \A k \in DOMAIN queue : queue[k] \in Fds /\ queue[k] # fd[w]
    BY <1>0
  <2>5. \A f \in Fds : fds'[f] # "null" <=> \/ f = accepted
                                            \/ \E k \in DOMAIN queue : queue[k] = f
                                            \/ \E v \in Workers : fd'[v] = f
    <3> TAKE f \in Fds
    <3>1. CASE f = fd[w]
      BY <1>0, <2>2, <2>3, <2>4, <3>1
    <3>2. CASE f # fd[w]
      BY <1>0, <2>2, <2>3, <3>2
    <3> QED
      BY <3>1, <3>2
  <2> QED
    BY <1>0, <2>1, <2>2, <2>3, <2>4, <2>5
<1>6. CASE UNCHANGED vars
  BY <1>0, <1>6 DEF vars, worker
<1> QED
  BY <1>1, <1>2, <1>3, <1>4, <1>5, <1>6, NextCases

\* Every step keeps one descriptor for each connection.
LEMMA PeersStep ==
    ASSUME CreamInv, [Next]_vars
    PROVE  PeersOK'
<1> USE DEF PeersOK
<1>0. /\ PeersOK /\ fds \in [Fds -> Clients \cup {"null"}] /\ fd \in [Workers -> Fds \cup {0}]
      /\ conn \in [Clients -> {"away", "accepted", "closed"}] /\ "null" \notin Clients
  BY CreamAssumption DEF CreamInv, Shapes, TypeOK
<1>1. ASSUME NEW c \in Clients, Accept(c)
      PROVE  PeersOK'
  <2>1. conn[c] = "away"
    BY <1>1 DEF Accept
  <2>2. ASSUME NEW f \in Fds, fds' = [fds EXCEPT ![f] = c],
               conn' = [conn EXCEPT ![c] = "accepted"]
        PROVE  PeersOK'
    BY <1>0, <2>1, <2>2
  <2>3. TypeOK
    BY DEF CreamInv, Shapes
  <2> QED
    BY <1>0, <1>1, <2>2, <2>3, AcceptMoves
<1>2. Enqueue \/ (\E w \in Workers : Dequeue(w)) => UNCHANGED <<conn, fds>>
  BY DEF Enqueue, Dequeue, clients
<1>3. ASSUME NEW w \in Workers, Close(w)
      PROVE  PeersOK'
  <2>1. /\ conn' = [conn EXCEPT ![Peer(w)] = "closed"]
        /\ fds' = [fds EXCEPT ![fd[w]] = "null"]
        /\ fd[w] \in Fds /\ Peer(w) = fds[fd[w]] /\ Peer(w) # "null"
    BY <1>3, PeerIsClient DEF Close, Goto
  <2> QED
    BY <1>0, <2>1
<1>4. CASE UNCHANGED <<conn, fds>>
  BY <1>0, <1>4
<1>5. UNCHANGED vars => UNCHANGED <<conn, fds>>
  BY DEF vars, clients
<1> QED
  BY <1>1, <1>2, <1>3, <1>4, <1>5, NextCases, OthersKeepHands

\* The workers that do not move keep their variables.
LEMMA OnlyItsOwn ==
    ASSUME CreamInv, NEW w \in Workers,
           Dequeue(w) \/ Receive(w) \/ Serve(w) \/ WriteHeader(w) \/ WriteValue(w) \/ Close(w)
    PROVE  \A v \in Workers : v # w =>
              /\ wpc'[v] = wpc[v] /\ fd'[v] = fd[v] /\ request'[v] = request[v]
              /\ buffer'[v] = buffer[v] /\ code'[v] = code[v]
<1> USE DEF Goto
<1>0. /\ wpc \in [Workers -> {"dequeue", "receive", "serve", "respond", "send", "close"}]
      /\ fd \in [Workers -> Fds \cup {0}]
      /\ request \in [Workers -> Request \cup {NoRequest}]
      /\ buffer \in [Workers -> Buffers \cup {"null"}]
      /\ code \in [Workers -> Answers \cup {"null"}]
  BY DEF CreamInv, Shapes, TypeOK
<1>1. CASE Dequeue(w)
  BY <1>0, <1>1 DEF Dequeue
<1>2. CASE Receive(w)
  <2>1. UNCHANGED <<fd, code>> /\ wpc' = [wpc EXCEPT ![w] = "serve"]
    BY <1>2 DEF Receive
  <2>2. \E r, b : request' = [request EXCEPT ![w] = r] /\ buffer' = [buffer EXCEPT ![w] = b]
    <3>1. buffer = [buffer EXCEPT ![w] = buffer[w]]
      BY <1>0
    <3> QED
      BY <1>2, <3>1, ReceiveMoves
  <2> QED
    BY <1>0, <2>1, <2>2
<1>3. CASE Serve(w)
  <2>1. \E a, b : /\ UNCHANGED <<fd, request>> /\ wpc' = [wpc EXCEPT ![w] = "respond"]
                  /\ code' = [code EXCEPT ![w] = a] /\ buffer' = [buffer EXCEPT ![w] = b]
    BY <1>3, ServeAnswers DEF CreamInv
  <2> QED
    BY <1>0, <2>1
<1>4. CASE WriteHeader(w)
  BY <1>0, <1>4 DEF WriteHeader
<1>5. CASE WriteValue(w)
  BY <1>0, <1>5 DEF WriteValue
<1>6. CASE Close(w)
  BY <1>0, <1>6 DEF Close, Done
<1> QED
  BY <1>1, <1>2, <1>3, <1>4, <1>5, <1>6

\* WorkerOK of one worker.
Phase(w) ==
    /\ fd[w] = 0 <=> wpc[w] = "dequeue"
    /\ wpc[w] \in {"dequeue", "receive"} => request[w] = NoRequest /\ buffer[w] = "null"
    /\ wpc[w] \notin {"dequeue", "receive"} => request[w] \in Request
    /\ wpc[w] \in {"respond", "send", "close"} => code[w] \in Answers
    /\ wpc[w] = "send" => buffer[w] \in Buffers
    /\ wpc[w] = "respond" /\ request[w].code = "GET" /\ code[w] = "OK" => buffer[w] \in Buffers

\* Every step keeps what a worker has in its variables.
LEMMA WorkerStep ==
    ASSUME CreamInv, [Next]_vars
    PROVE  WorkerOK'
<1>0. /\ wpc \in [Workers -> {"dequeue", "receive", "serve", "respond", "send", "close"}]
      /\ fd \in [Workers -> Fds \cup {0}]
      /\ request \in [Workers -> Request \cup {NoRequest}]
      /\ buffer \in [Workers -> Buffers \cup {"null"}]
      /\ code \in [Workers -> Answers \cup {"null"}]
      /\ TypeOK
  BY DEF CreamInv, Shapes, TypeOK
<1>1. \A w \in Workers : Phase(w)
  BY DEF CreamInv, WorkerOK, Phase
<1>2. CASE UNCHANGED worker
  BY <1>1, <1>2 DEF worker, WorkerOK, Phase
<1>3. ASSUME NEW w \in Workers,
             Dequeue(w) \/ Receive(w) \/ Serve(w) \/ WriteHeader(w) \/ WriteValue(w) \/ Close(w)
      PROVE  WorkerOK'
  <2>1. Phase(w)'
    <3>1. CASE Dequeue(w)
      <4>1. Head(queue) \in Fds /\ 0 \notin Fds
        BY <3>1, CreamAssumption DEF Dequeue, CreamInv, Shapes, Fds
      <4>2. /\ wpc[w] = "dequeue" /\ wpc'[w] = "receive" /\ fd'[w] = Head(queue)
            /\ UNCHANGED <<request, buffer, code>>
        BY <1>0, <3>1 DEF Dequeue, Goto
      <4> QED
        BY <1>1, <4>1, <4>2 DEF Phase
    <3>2. CASE Receive(w)
      <4>1. wpc[w] = "receive" /\ wpc'[w] = "serve" /\ fd'[w] = fd[w]
        BY <1>0, <3>2 DEF Receive, Goto
      <4>2. request'[w] \in Request
        BY <1>0, <3>2, ReceiveMoves
      <4> QED
        BY <1>1, <4>1, <4>2 DEF Phase
    <3>3. CASE Serve(w)
      <4>1. PICK ans \in Answers, b \in Buffers \cup {"null"} :
                /\ wpc[w] = "serve" /\ request[w] \in Request
                /\ wpc' = [wpc EXCEPT ![w] = "respond"]
                /\ code' = [code EXCEPT ![w] = ans]
                /\ buffer' = [buffer EXCEPT ![w] = b]
                /\ request[w].code = "GET" /\ ans = "OK" => b \in Buffers
                /\ UNCHANGED <<fd, request>>
        BY <3>3, ServeAnswers DEF CreamInv
      <4>2. wpc'[w] = "respond" /\ code'[w] = ans /\ buffer'[w] = b
        BY <1>0, <4>1
      <4> QED
        BY <1>1, <4>1, <4>2 DEF Phase
    <3>4. CASE WriteHeader(w)
      <4>1. /\ wpc[w] = "respond" /\ UNCHANGED <<fd, request, buffer, code>>
            /\ wpc'[w] = IF request[w].code = "GET" /\ code[w] = "OK" THEN "send" ELSE "close"
        BY <1>0, <3>4 DEF WriteHeader, Goto
      <4> QED
        BY <1>1, <4>1 DEF Phase
    <3>5. CASE WriteValue(w)
      <4>1. wpc[w] = "send" /\ wpc'[w] = "close" /\ UNCHANGED <<fd, request, buffer, code>>
        BY <1>0, <3>5 DEF WriteValue, Goto
      <4> QED
        BY <1>1, <4>1 DEF Phase
    <3>6. CASE Close(w)
      <4>1. wpc'[w] = "dequeue" /\ fd'[w] = 0 /\ request'[w] = NoRequest /\ buffer'[w] = "null"
        BY <1>0, <3>6 DEF Close, Done, Goto
      <4> QED
        BY <4>1 DEF Phase
    <3> QED
      BY <1>3, <3>1, <3>2, <3>3, <3>4, <3>5, <3>6
  <2>2. \A v \in Workers : v # w => Phase(v)'
    BY <1>1, <1>3, OnlyItsOwn DEF Phase
  <2>3. \A v \in Workers : Phase(v)'
    BY <2>1, <2>2
  <2> QED
    BY <2>3 DEF Phase, WorkerOK
<1>4. Enqueue \/ (\E c \in Clients : Accept(c)) \/ UNCHANGED vars => UNCHANGED worker
  BY DEF Enqueue, Accept, vars
<1> QED
  BY <1>2, <1>3, <1>4, NextCases

\* The part of AnswerOK about one worker.
Knows(w) ==
    LET peer == Peer(w) IN
    /\ wpc[w] \notin {"dequeue", "receive"} /\ sends[peer].code # "eof" => request[w] = sends[peer]
    /\ wpc[w] \in {"respond", "send", "close"} => Fits(request[w], code[w])
    /\ wpc[w] = "send" =>
          request[w].code = "GET" /\ code[w] = "OK" /\ got[peer] = <<"OK">>
    /\ wpc[w] = "close" =>
          /\ got[peer] # <<>> /\ got[peer][1] = code[w]
          /\ Len(got[peer]) = 2 <=> request[w].code = "GET" /\ code[w] = "OK"

\* The part of AnswersMatchRequests about one client.
Told(c) ==
    conn[c] = "closed" /\ sends[c].code # "eof" =>
        /\ got[c] # <<>>
        /\ got[c][1] = "UNSUPPORTED" <=> sends[c].code = "unsupported"
        /\ got[c][1] = "BAD_REQUEST" <=>
              sends[c].code \in {"PUT", "GET", "EVICT"} /\ ~sends[c].valid
        /\ Len(got[c]) = 2 <=> sends[c].code = "GET" /\ got[c][1] = "OK"

\* The client of a worker stays the same until the connection is closed.
LEMMA PeerStays ==
    ASSUME CreamInv, [Next]_vars, NEW w \in Workers, wpc[w] # "dequeue", ~Close(w),
           fd'[w] = fd[w]
    PROVE  Peer(w)' = Peer(w)
<1>0. /\ fds \in [Fds -> Clients \cup {"null"}] /\ fd \in [Workers -> Fds \cup {0}] /\ TypeOK
  BY DEF CreamInv, Shapes, TypeOK
<1>1. fd[w] \in Fds /\ Peer(w) = fds[fd[w]] /\ fds[fd[w]] # "null"
  BY PeerIsClient
<1>2. ASSUME NEW c \in Clients, Accept(c)
      PROVE  fds'[fd[w]] = fds[fd[w]]
  BY <1>0, <1>1, <1>2, AcceptMoves
<1>3. ASSUME NEW v \in Workers, Close(v)
      PROVE  fds'[fd[w]] = fds[fd[w]]
  <2>1. wpc[v] # "dequeue" /\ v # w
    BY <1>3 DEF Close, Goto
  <2>2. fd[v] \in Fds /\ fd[v] # fd[w]
    BY <2>1, PeerIsClient
  <2>3. fds' = [fds EXCEPT ![fd[v]] = "null"]
    BY <1>3 DEF Close
  <2> QED
    BY <1>0, <1>1, <2>2, <2>3
<1>4. Enqueue \/ (\E v \in Workers : Dequeue(v)) \/ UNCHANGED vars => UNCHANGED fds
  BY DEF Enqueue, Dequeue, vars
<1>5. fds'[fd[w]] = fds[fd[w]]
  BY <1>2, <1>3, <1>4, NextCases, OthersKeepHands
<1> QED
  BY <1>1, <1>5 DEF Peer

\* A worker writes to its own client.
LEMMA WritesToPeer ==
    ASSUME CreamInv, NEW w \in Workers,
           Dequeue(w) \/ Receive(w) \/ Serve(w) \/ WriteHeader(w) \/ WriteValue(w) \/ Close(w)
    PROVE  /\ sends' = sends
           /\ wpc[w] = "dequeue" => got' = got
           /\ \A c \in Clients : c # Peer(w) => got'[c] = got[c]
<1>1. Dequeue(w) \/ Receive(w) \/ Close(w) => UNCHANGED <<got, sends>>
  BY DEF Dequeue, Receive, Close, Done, clients
<1>2. Serve(w) => UNCHANGED <<got, sends>>
  BY ServeAnswers DEF CreamInv, clients
<1>3. WriteHeader(w) \/ WriteValue(w) =>
         /\ sends' = sends /\ wpc[w] # "dequeue" /\ \A c \in Clients : c # Peer(w) => got'[c] = got[c]
  BY DEF WriteHeader, WriteValue, Goto, CreamInv, Shapes
<1> QED
  BY <1>1, <1>2, <1>3

\* Every step keeps the answers those to the requests.
LEMMA AnswerStep ==
    ASSUME CreamInv, [Next]_vars
    PROVE  AnswerOK' /\ AnswersMatchRequests'
<1>0. /\ wpc \in [Workers -> {"dequeue", "receive", "serve", "respond", "send", "close"}]
      /\ fd \in [Workers -> Fds \cup {0}]
      /\ conn \in [Clients -> {"away", "accepted", "closed"}]
      /\ code \in [Workers -> Answers \cup {"null"}]
      /\ got \in [Clients -> Seq(Answers \cup Values)] /\ TypeOK
  BY DEF CreamInv, Shapes, TypeOK
<1>1. (\A w \in Workers : Knows(w)) /\ (\A c \in Clients : Told(c))
  BY DEF CreamInv, AnswerOK, AnswersMatchRequests, Knows, Told
<1>2. ASSUME NEW v \in Workers, wpc'[v] = wpc[v], fd'[v] = fd[v], request'[v] = request[v],
             code'[v] = code[v], ~Close(v), sends' = sends,
             wpc[v] # "dequeue" => got'[Peer(v)] = got[Peer(v)]
      PROVE  Knows(v)'
  <2>1. CASE wpc[v] = "dequeue"
    BY <1>2, <2>1 DEF Knows
  <2>2. CASE wpc[v] # "dequeue"
    <3>1. Peer(v)' = Peer(v)
      BY <1>2, <2>2, PeerStays
    <3>2. got'[Peer(v)'] = got[Peer(v)] /\ sends'[Peer(v)'] = sends[Peer(v)]
      BY <1>2, <2>2, <3>1
    <3> QED
      BY <1>1, <1>2, <3>1, <3>2 DEF Knows, Fits
  <2> QED
    BY <2>1, <2>2
<1>3. CASE UNCHANGED <<got, sends, worker>> /\ \A c \in Clients : conn'[c] = "closed" => conn[c] = "closed"
  <2>1. ASSUME NEW v \in Workers
        PROVE  Knows(v)'
    <3>1. ~Close(v)
      BY <1>0, <1>3 DEF Close, Goto, worker
    <3> QED
      BY <1>2, <1>3, <3>1 DEF worker
  <2>2. \A c \in Clients : Told(c)'
    BY <1>1, <1>3 DEF Told
  <2> QED
    BY <2>1, <2>2 DEF AnswerOK, AnswersMatchRequests, Knows, Told
<1>4. ASSUME NEW w \in Workers,
             Dequeue(w) \/ Receive(w) \/ Serve(w) \/ WriteHeader(w) \/ WriteValue(w) \/ Close(w)
      PROVE  AnswerOK' /\ AnswersMatchRequests'
  <2>1. ASSUME NEW v \in Workers, v # w
        PROVE  Knows(v)'
    <3>1. wpc'[v] = wpc[v] /\ fd'[v] = fd[v] /\ request'[v] = request[v] /\ code'[v] = code[v]
      BY <1>4, <2>1, OnlyItsOwn
    <3>2. ~Close(v)
      <4>1. Close(v) => wpc[v] = "close" /\ wpc'[v] = "dequeue"
        BY <1>0 DEF Close, Goto
      <4> QED
        BY <3>1, <4>1
    <3>3. wpc[v] # "dequeue" => got'[Peer(v)] = got[Peer(v)]
      <4>1. CASE wpc[w] = "dequeue"
        BY <1>4, <4>1, WritesToPeer
      <4>2. CASE wpc[w] # "dequeue" /\ wpc[v] # "dequeue"
        <5>1. Peer(v) \in Clients /\ Peer(v) # Peer(w)
          BY <2>1, <4>2, PeerIsClient
        <5> QED
          BY <1>4, <5>1, WritesToPeer
      <4> QED
        BY <4>1, <4>2
    <3>4. sends' = sends
      BY <1>4, WritesToPeer
    <3> QED
      BY <1>2, <3>1, <3>2, <3>3, <3>4
  <2>2. Knows(w)'
    <3>1. CASE Dequeue(w)
      <4>1. wpc'[w] = "receive"
        BY <1>0, <3>1 DEF Dequeue, Goto
      <4> QED
        BY <4>1 DEF Knows
    <3>2. CASE Close(w)
      <4>1. wpc'[w] = "dequeue"
        BY <1>0, <3>2 DEF Close, Goto
      <4> QED
        BY <4>1 DEF Knows
    <3>3. ASSUME wpc[w] # "dequeue", wpc'[w] # "dequeue", fd'[w] = fd[w]
          PROVE  Peer(w)' = Peer(w) /\ Peer(w) \in Clients /\ sends'[Peer(w)'] = sends[Peer(w)]
      <4>1. ~Close(w)
        BY <1>0, <3>3 DEF Close, Goto
      <4>2. Peer(w)' = Peer(w) /\ Peer(w) \in Clients
        BY <3>3, <4>1, PeerStays, PeerIsClient
      <4> QED
        BY <1>4, <4>2, WritesToPeer
    <3>4. CASE Receive(w)
      <4>1. wpc[w] = "receive" /\ wpc'[w] = "serve" /\ fd'[w] = fd[w]
        BY <1>0, <3>4 DEF Receive, Goto
      <4>2. sends[Peer(w)].code # "eof" => request'[w] = sends[Peer(w)]
        <5> request \in [Workers -> Request \cup {NoRequest}]
          BY DEF CreamInv, Shapes, TypeOK
        <5> QED
          BY <3>4, ReceiveMoves
      <4> QED
        BY <3>3, <4>1, <4>2 DEF Knows
    <3>5. CASE Serve(w)
      <4>1. PICK ans \in Answers :
                /\ wpc[w] = "serve" /\ wpc' = [wpc EXCEPT ![w] = "respond"]
                /\ code' = [code EXCEPT ![w] = ans] /\ Fits(request[w], ans)
                /\ UNCHANGED <<fd, request>>
        BY <3>5, ServeAnswers DEF CreamInv
      <4>2. wpc'[w] = "respond" /\ code'[w] = ans /\ fd'[w] = fd[w] /\ request'[w] = request[w]
        BY <1>0, <4>1
      <4>3. Peer(w)' = Peer(w) /\ sends'[Peer(w)'] = sends[Peer(w)]
        BY <3>3, <4>1, <4>2
      <4>4. Knows(w)
        BY <1>1
      <4> QED
        BY <4>1, <4>2, <4>3, <4>4 DEF Knows, Fits
    <3>6. CASE WriteHeader(w)
      <4>1. /\ wpc[w] = "respond" /\ UNCHANGED <<fd, request, code>>
            /\ wpc'[w] = IF request[w].code = "GET" /\ code[w] = "OK" THEN "send" ELSE "close"
            /\ got' = [got EXCEPT ![Peer(w)] = <<code[w]>>]
        BY <1>0, <3>6 DEF WriteHeader, Goto
      <4>2. Peer(w)' = Peer(w) /\ Peer(w) \in Clients /\ sends'[Peer(w)'] = sends[Peer(w)]
        BY <3>3, <4>1
      <4>3. got'[Peer(w)'] = <<code[w]>>
        BY <1>0, <4>1, <4>2
      <4>4. Knows(w)
        BY <1>1
      <4>5. <<code[w]>> # <<>> /\ <<code[w]>>[1] = code[w] /\ Len(<<code[w]>>) = 1
        OBVIOUS
      <4> QED
        BY <4>1, <4>2, <4>3, <4>4, <4>5 DEF Knows, Fits
    <3>7. CASE WriteValue(w)
      <4>1. /\ wpc[w] = "send" /\ wpc'[w] = "close" /\ UNCHANGED <<fd, request, code>>
            /\ got' = [got EXCEPT ![Peer(w)] = Append(@, content[buffer[w]])]
        BY <1>0, <3>7 DEF WriteValue, Goto
      <4>2. Peer(w)' = Peer(w) /\ Peer(w) \in Clients /\ sends'[Peer(w)'] = sends[Peer(w)]
        BY <3>3, <4>1
      <4>3. Knows(w)
        BY <1>1
      <4>4. got'[Peer(w)'] = Append(<<"OK">>, content[buffer[w]])
        BY <1>0, <4>1, <4>2, <4>3 DEF Knows
      <4>5. /\ got'[Peer(w)'] # <<>> /\ got'[Peer(w)'][1] = "OK" /\ Len(got'[Peer(w)']) = 2
        BY <4>4
      <4> QED
        BY <4>1, <4>2, <4>3, <4>5 DEF Knows, Fits
    <3> QED
      BY <1>4, <3>1, <3>2, <3>4, <3>5, <3>6, <3>7
  <2>3. ASSUME NEW c \in Clients
        PROVE  Told(c)'
    <3>1. CASE Close(w) /\ c = Peer(w)
      <4>1. wpc[w] = "close" /\ UNCHANGED <<got, sends>>
        BY <3>1 DEF Close, Goto, Done
      <4>2. Knows(w)
        BY <1>1
      <4>3. sends[c].code # "eof" =>
               /\ request[w] = sends[c] /\ Fits(request[w], code[w])
               /\ got[c] # <<>> /\ got[c][1] = code[w]
               /\ Len(got[c]) = 2 <=> request[w].code = "GET" /\ code[w] = "OK"
        BY <3>1, <4>1, <4>2 DEF Knows
      <4> QED
        BY <4>1, <4>3 DEF Told, Fits
    <3>2. CASE ~(Close(w) /\ c = Peer(w))
      <4>1. conn'[c] = conn[c]
        <5>1. Close(w) => conn' = [conn EXCEPT ![Peer(w)] = "closed"]
          BY DEF Close
        <5>2. Dequeue(w) => conn' = conn
          BY DEF Dequeue, clients
        <5> QED
          BY <1>0, <1>4, <3>2, <5>1, <5>2, OthersKeepHands
      <4>2. conn[c] = "closed" => got'[c] = got[c]
        <5>1. CASE wpc[w] = "dequeue"
          BY <1>4, <5>1, WritesToPeer
        <5>2. CASE wpc[w] # "dequeue" /\ conn[c] = "closed"
          <6>1. c # Peer(w)
            BY <5>2, PeerIsClient
          <6> QED
            BY <1>4, <6>1, WritesToPeer
        <5> QED
          BY <5>1, <5>2
      <4>3. sends' = sends
        BY <1>4, WritesToPeer
      <4> QED
        BY <1>1, <4>1, <4>2, <4>3 DEF Told
    <3> QED
      BY <3>1, <3>2
  <2>4. (\A v \in Workers : Knows(v)') /\ (\A c \in Clients : Told(c)')
    BY <2>1, <2>2, <2>3
  <2> QED
    BY <2>4 DEF AnswerOK, AnswersMatchRequests, Knows, Told
<1>5. (\E c \in Clients : Accept(c)) =>
         UNCHANGED <<got, sends, worker>> /\ \A c \in Clients : conn'[c] = "closed" => conn[c] = "closed"
  <2>1. ASSUME NEW c \in Clients, Accept(c)
        PROVE  /\ UNCHANGED <<got, sends, worker>>
               /\ conn' = conn \/ conn' = [conn EXCEPT ![c] = "accepted"]
    BY <1>0, <2>1, AcceptMoves
  <2> QED
    BY <1>0, <2>1
<1>6. Enqueue \/ UNCHANGED vars =>
         UNCHANGED <<got, sends, worker>> /\ \A c \in Clients : conn'[c] = "closed" => conn[c] = "closed"
  BY DEF Enqueue, vars, clients
<1> QED
  BY <1>3, <1>4, <1>5, <1>6, NextCases

\* A map call leaves every key and value where it is, unless it is put or clear.
LEMMA MapMoves ==
    ASSUME CreamInv, NEW w \in Workers, Serve(w)
    PROVE  \/ /\ UNCHANGED allocated /\ (request[w].code = "PUT" => buffer' = buffer)
              /\ \A i \in Slots : nodes'[i].key = nodes[i].key /\ nodes'[i].val = nodes[i].val
           \/ HandlePut(w)
           \/ HandleClear(w)
<1>1. CASE BadRequest(w) \/ Unsupported(w) \/ HandleGet(w)
  BY <1>1 DEF BadRequest, Unsupported, HandleGet, Serving, map
<1>2. CASE HandleEvict(w)
  <2>1. UNCHANGED allocated /\ buffer' = buffer
    BY <1>2 DEF HandleEvict
  <2>2. \A i \in LiveNodes : nodes' = [nodes EXCEPT ![i].tombstone = TRUE] =>
           \A j \in Slots : nodes'[j].key = nodes[j].key /\ nodes'[j].val = nodes[j].val
    <3> nodes \in [Slots -> Table!Node]
      BY DEF CreamInv, Shapes, TypeOK, Slots
    <3> QED
      BY DEF Table!Node
  <2>3. UNCHANGED map => \A j \in Slots : nodes'[j].key = nodes[j].key /\ nodes'[j].val = nodes[j].val
    BY DEF map
  <2> QED
    BY <1>2, <2>1, <2>2, <2>3, EvictMarks
<1> QED
  BY <1>1, <1>2 DEF Serve

\* The entry that a put writes, and the buffer it may free.
LEMMA PutMoves ==
    ASSUME CreamInv, NEW w \in Workers, HandlePut(w)
    PROVE  /\ wpc[w] = "serve" /\ request[w].code = "PUT" /\ request[w].valid /\ ~exited
           /\ request[w].key \in Keys /\ buffer' = [buffer EXCEPT ![w] = "null"]
           /\ \E slot :
                /\ nodes' = [nodes EXCEPT ![slot] =
                               [key |-> request[w].key, val |-> buffer[w], tombstone |-> FALSE]]
                /\ \/ allocated' = allocated
                   \/ slot \in Slots /\ allocated' = allocated \ {nodes[slot].val}
<1>1. /\ wpc[w] = "serve" /\ request[w].code = "PUT" /\ request[w].valid /\ ~exited
      /\ buffer' = [buffer EXCEPT ![w] = "null"]
  BY DEF HandlePut, Serving, Respond, Goto
<1>2. request[w].key \in Keys
  BY <1>1 DEF CreamInv, WorkerOK, Request, RequestsOf
<1>3. Index[request[w].key] \in Slots
  BY <1>2, CreamAssumption DEF Slots, Table!Slots
<1>4. CASE size >= Capacity
  BY <1>1, <1>2, <1>3, <1>4 DEF HandlePut
<1>5. CASE ~(size >= Capacity)
  BY <1>1, <1>2, <1>5 DEF HandlePut
<1> QED
  BY <1>4, <1>5

\* The part of PutBuffersOK about one worker.
OwnBuffer(w) ==
    request[w].code = "PUT" =>
        /\ buffer[w] # "null" =>
              /\ buffer[w] \in allocated
              /\ \A i \in Slots : nodes[i].val # buffer[w]
              /\ \A v \in Workers : request[v].code = "PUT" /\ buffer[v] = buffer[w] => v = w
        /\ wpc[w] = "serve" /\ ~exited =>
              /\ buffer[w] # "null"
              /\ request[w].valid => content[buffer[w]] \in PutFor(request[w].key)

\* The part of StoredValuesIntact, and of NodesOK, about one slot.
Intact(i) ==
    /\ nodes[i].key = "null" <=> nodes[i].val = "null"
    /\ nodes[i].key # "null" =>
        /\ nodes[i].val \in allocated
        /\ \A j \in Slots \ {i} : nodes[j].val # nodes[i].val
        /\ \A w \in Workers : request[w].code = "PUT" => buffer[w] # nodes[i].val
        /\ content[nodes[i].val] \in PutFor(nodes[i].key)

\* Every step keeps the buffer of a put its own, and those of the map allocated.
LEMMA BuffersStep ==
    ASSUME CreamInv, [Next]_vars
    PROVE  (\A v \in Workers : OwnBuffer(v)') /\ (\A i \in Slots : Intact(i)')
<1>0. /\ wpc \in [Workers -> {"dequeue", "receive", "serve", "respond", "send", "close"}]
      /\ request \in [Workers -> Request \cup {NoRequest}]
      /\ buffer \in [Workers -> Buffers \cup {"null"}]
      /\ nodes \in [Slots -> Table!Node] /\ allocated \subseteq Buffers
      /\ content \in [Buffers -> Values] /\ exited \in BOOLEAN /\ TypeOK
      /\ "null" \notin Buffers /\ "null" \notin Keys /\ NoRequest.code # "PUT"
  BY CreamAssumption DEF CreamInv, Shapes, TypeOK, Slots, NoRequest
<1>1. (\A v \in Workers : OwnBuffer(v)) /\ (\A i \in Slots : Intact(i))
  BY DEF CreamInv, PutBuffersOK, StoredValuesIntact, NodesOK, OwnBuffer, Intact, Slots
<1>2. sends' = sends => \A k : PutFor(k)' = PutFor(k)
  BY DEF PutFor
<1>3. ASSUME sends' = sends, UNCHANGED <<nodes, content, allocated>>, exited => exited',
             \A v \in Workers :
                \/ request'[v].code # "PUT"
                \/ /\ request'[v] = request[v] /\ buffer'[v] = buffer[v]
                   /\ wpc'[v] = "serve" => wpc[v] = "serve"
      PROVE  (\A v \in Workers : OwnBuffer(v)') /\ (\A i \in Slots : Intact(i)')
  <2>1. ASSUME NEW v \in Workers
        PROVE  OwnBuffer(v)'
    BY <1>1, <1>2, <1>3 DEF OwnBuffer
  <2>2. ASSUME NEW i \in Slots
        PROVE  Intact(i)'
    BY <1>1, <1>2, <1>3 DEF Intact
  <2> QED
    BY <2>1, <2>2
<1>4. CASE Enqueue \/ (\E c \in Clients : Accept(c)) \/ UNCHANGED vars
  BY <1>0, <1>3, <1>4 DEF Enqueue, Accept, vars, clients, map, heap, worker
<1>5. ASSUME NEW w \in Workers, Receive(w)
      PROVE  (\A v \in Workers : OwnBuffer(v)') /\ (\A i \in Slots : Intact(i)')
  <2>1. PICK r \in Request :
            /\ request' = [request EXCEPT ![w] = r]
            /\ sends[Peer(w)].code # "eof" => r = sends[Peer(w)]
            /\ \/ UNCHANGED <<content, allocated, buffer>> /\ (r.code = "PUT" => exited')
               \/ \E new \in Buffers \ allocated, val \in Values :
                    /\ allocated' = allocated \cup {new}
                    /\ buffer' = [buffer EXCEPT ![w] = new]
                    /\ content' = [content EXCEPT ![new] = val]
                    /\ r.code = "PUT" /\ UNCHANGED exited
                    /\ r.valid => val = IF sends[Peer(w)].code = "eof" THEN "junk" ELSE Peer(w)
    BY <1>5, ReceiveMoves
  <2>2. /\ UNCHANGED <<nodes, sends>> /\ ~exited
        /\ \A v \in Workers : v # w => wpc'[v] = wpc[v] /\ buffer'[v] = buffer[v] /\ request'[v] = request[v]
        /\ request'[w] = r /\ wpc'[w] = "serve"
        /\ buffer[w] = "null" /\ request[w].code # "PUT"
    <3>1. \A v \in Workers : v # w => wpc'[v] = wpc[v] /\ buffer'[v] = buffer[v] /\ request'[v] = request[v]
      BY <1>5, OnlyItsOwn
    <3>2. UNCHANGED <<nodes, sends>> /\ ~exited /\ wpc[w] = "receive" /\ wpc'[w] = "serve"
      BY <1>0, <1>5 DEF Receive, Goto, map, clients
    <3>3. request[w] = NoRequest /\ buffer[w] = "null"
      BY <3>2 DEF CreamInv, WorkerOK
    <3> QED
      BY <1>0, <2>1, <3>1, <3>2, <3>3
  <2>3. ASSUME UNCHANGED <<content, allocated, buffer>>, r.code = "PUT" => exited'
        PROVE  (\A v \in Workers : OwnBuffer(v)') /\ (\A i \in Slots : Intact(i)')
    <3>1. ASSUME NEW v \in Workers
          PROVE  OwnBuffer(v)'
      <4>1. CASE v = w
        BY <2>2, <2>3, <4>1 DEF OwnBuffer
      <4>2. CASE v # w
        <5>1. \A u \in Workers : buffer'[u] # "null" => request'[u] = request[u]
          BY <2>2, <2>3
        <5> QED
          BY <1>1, <1>2, <2>2, <2>3, <4>2, <5>1 DEF OwnBuffer
      <4> QED
        BY <4>1, <4>2
    <3>2. ASSUME NEW i \in Slots
          PROVE  Intact(i)'
      BY <1>1, <1>2, <2>2, <2>3 DEF Intact
    <3> QED
      BY <3>1, <3>2
  <2>4. ASSUME NEW new \in Buffers \ allocated, NEW val \in Values,
               allocated' = allocated \cup {new},
               buffer' = [buffer EXCEPT ![w] = new],
               content' = [content EXCEPT ![new] = val],
               r.code = "PUT",
               r.valid => val = IF sends[Peer(w)].code = "eof" THEN "junk" ELSE Peer(w)
        PROVE  (\A v \in Workers : OwnBuffer(v)') /\ (\A i \in Slots : Intact(i)')
    <3>1. /\ buffer'[w] = new /\ content'[new] = val /\ new # "null"
          /\ \A b \in allocated : b # new /\ b \in allocated' /\ content'[b] = content[b]
      BY <1>0, <2>4
    <3>2. \A i \in Slots : nodes[i].val # new
      BY <1>1, <3>1 DEF Intact
    <3>3. \A v \in Workers : request[v].code = "PUT" => buffer[v] # new
      BY <1>1, <3>1 DEF OwnBuffer
    <3>4. r.valid => val \in PutFor(r.key)
      <4>1. Peer(w) \in Clients
        BY <1>5, PeerIsClient DEF Receive
      <4> QED
        BY <2>1, <2>4, <4>1 DEF PutFor
    <3>5. ASSUME NEW v \in Workers
          PROVE  OwnBuffer(v)'
      <4>1. CASE v = w
        BY <1>2, <2>2, <2>4, <3>1, <3>2, <3>3, <3>4, <4>1 DEF OwnBuffer
      <4>2. CASE v # w
        <5>1. OwnBuffer(v) /\ (request[v].code = "PUT" => buffer[v] # new)
          BY <1>1, <3>3
        <5>2. \A u \in Workers : /\ u # w => buffer'[u] = buffer[u] /\ request'[u] = request[u]
                                 /\ u = w => buffer'[u] = new
          BY <2>2, <3>1
        <5>3. wpc'[v] = wpc[v]
          BY <2>2, <4>2
        <5> QED
          BY <1>2, <2>2, <3>1, <4>2, <5>1, <5>2, <5>3 DEF OwnBuffer
      <4> QED
        BY <4>1, <4>2
    <3>6. ASSUME NEW i \in Slots
          PROVE  Intact(i)'
      <4>1. Intact(i) /\ nodes[i].val # new
        BY <1>1, <3>2
      <4>2. \A u \in Workers : /\ u # w => buffer'[u] = buffer[u] /\ request'[u] = request[u]
                               /\ u = w => buffer'[u] = new
        BY <2>2, <3>1
      <4> QED
        BY <1>2, <2>2, <3>1, <4>1, <4>2 DEF Intact
    <3> QED
      BY <3>5, <3>6
  <2> QED
    BY <2>1, <2>3, <2>4
<1>6. ASSUME NEW w \in Workers, Serve(w)
      PROVE  (\A v \in Workers : OwnBuffer(v)') /\ (\A i \in Slots : Intact(i)')
  <2>1. /\ UNCHANGED <<content, exited, request, sends>>
        /\ wpc[w] = "serve" /\ wpc'[w] = "respond"
        /\ \A v \in Workers : v # w => wpc'[v] = wpc[v] /\ buffer'[v] = buffer[v]
    <3>1. \A v \in Workers : v # w => wpc'[v] = wpc[v] /\ buffer'[v] = buffer[v]
      BY <1>6, OnlyItsOwn
    <3>2. /\ UNCHANGED <<content, exited, request, clients>>
          /\ wpc[w] = "serve" /\ wpc' = [wpc EXCEPT ![w] = "respond"]
      BY <1>6, ServeAnswers DEF CreamInv
    <3> QED
      BY <1>0, <3>1, <3>2 DEF clients
  <2>2. CASE /\ UNCHANGED allocated /\ (request[w].code = "PUT" => buffer' = buffer)
             /\ \A i \in Slots : nodes'[i].key = nodes[i].key /\ nodes'[i].val = nodes[i].val
    <3>1. \A v \in Workers : /\ request[v].code = "PUT" => buffer'[v] = buffer[v]
                             /\ wpc'[v] = "serve" => wpc[v] = "serve"
      BY <2>1, <2>2
    <3>2. ASSUME NEW v \in Workers
          PROVE  OwnBuffer(v)'
      <4>1. OwnBuffer(v)
        BY <1>1
      <4> QED
        BY <1>2, <2>1, <2>2, <3>1, <4>1 DEF OwnBuffer
    <3>3. ASSUME NEW i \in Slots
          PROVE  Intact(i)'
      <4>1. Intact(i)
        BY <1>1
      <4> QED
        BY <1>2, <2>1, <2>2, <3>1, <4>1 DEF Intact
    <3> QED
      BY <3>2, <3>3
  <2>3. CASE HandlePut(w)
    <3>1. PICK slot :
              /\ nodes' = [nodes EXCEPT ![slot] =
                             [key |-> request[w].key, val |-> buffer[w], tombstone |-> FALSE]]
              /\ \/ allocated' = allocated
                 \/ slot \in Slots /\ allocated' = allocated \ {nodes[slot].val}
      BY <2>3, PutMoves
    <3>2. /\ request[w].code = "PUT" /\ request[w].valid /\ ~exited
          /\ request[w].key \in Keys /\ request[w].key # "null" /\ buffer'[w] = "null"
      BY <1>0, <2>3, PutMoves
    <3>3. /\ buffer[w] # "null" /\ buffer[w] \in allocated
          /\ \A i \in Slots : nodes[i].val # buffer[w]
          /\ \A v \in Workers : request[v].code = "PUT" /\ buffer[v] = buffer[w] => v = w
          /\ content[buffer[w]] \in PutFor(request[w].key)
      <4>1. OwnBuffer(w)
        BY <1>1
      <4> QED
        BY <2>1, <3>2, <4>1 DEF OwnBuffer
    <3>4. \A i \in Slots : /\ i # slot => nodes'[i] = nodes[i]
                           /\ i = slot => nodes'[i].key = request[w].key /\ nodes'[i].val = buffer[w]
      BY <1>0, <3>1
    <3>5. \A b : b \in allocated' <=> b \in allocated /\ (allocated' = allocated \/ b # nodes[slot].val)
      BY <3>1
    <3>6. ASSUME NEW v \in Workers
          PROVE  OwnBuffer(v)'
      <4>1. CASE v = w
        BY <2>1, <3>2, <4>1 DEF OwnBuffer
      <4>2. CASE v # w /\ request[v].code = "PUT"
        <5>1. OwnBuffer(v) /\ buffer[v] # buffer[w] /\ buffer'[v] = buffer[v] /\ wpc'[v] = wpc[v]
          BY <1>1, <2>1, <3>3, <4>2
        <5>2. buffer[v] # "null" => buffer[v] \in allocated' /\ \A i \in Slots : nodes'[i].val # buffer[v]
          BY <3>1, <3>4, <3>5, <4>2, <5>1 DEF OwnBuffer
        <5>3. \A u \in Workers : buffer'[u] # "null" => buffer'[u] = buffer[u]
          BY <2>1, <3>2
        <5> QED
          BY <1>2, <2>1, <4>2, <5>1, <5>2, <5>3 DEF OwnBuffer
      <4> QED
        BY <2>1, <4>1, <4>2 DEF OwnBuffer
    <3>7. ASSUME NEW i \in Slots
          PROVE  Intact(i)'
      <4>1. \A v \in Workers : v # w => buffer'[v] = buffer[v]
        BY <2>1
      <4>2. CASE i = slot
        <5>1. nodes'[i].key = request[w].key /\ nodes'[i].val = buffer[w]
          BY <3>4, <4>2
        <5>2. buffer[w] \in allocated'
          BY <3>3, <3>5, <4>2
        <5>3. \A j \in Slots \ {i} : nodes'[j].val # buffer[w]
          BY <3>3, <3>4, <4>2
        <5>4. \A v \in Workers : request'[v].code = "PUT" => buffer'[v] # buffer[w]
          BY <2>1, <3>2, <3>3, <4>1
        <5> QED
          BY <1>2, <2>1, <3>2, <3>3, <5>1, <5>2, <5>3, <5>4 DEF Intact
      <4>3. CASE i # slot
        <5>1. Intact(i) /\ nodes'[i] = nodes[i] /\ nodes[i].val # buffer[w]
          BY <1>1, <3>3, <3>4, <4>3
        <5>2. nodes[i].key # "null" => /\ nodes[i].val \in allocated'
                                       /\ nodes[i].val # "null"
          BY <3>1, <3>5, <4>3, <5>1 DEF Intact
        <5>3. nodes[i].key # "null" => \A j \in Slots \ {i} : nodes'[j].val # nodes[i].val
          BY <3>4, <5>1 DEF Intact
        <5>4. nodes[i].key # "null" =>
                 \A v \in Workers : request'[v].code = "PUT" => buffer'[v] # nodes[i].val
          BY <2>1, <3>2, <4>1, <5>1, <5>2 DEF Intact
        <5> QED
          BY <1>2, <2>1, <5>1, <5>2, <5>3, <5>4 DEF Intact
      <4> QED
        BY <4>2, <4>3
    <3> QED
      BY <3>6, <3>7
  <2>4. CASE HandleClear(w)
    <3>1. /\ allocated' = allocated \ {nodes[i].val : i \in Slots} /\ buffer' = buffer
          /\ nodes' = [i \in Slots |-> IF nodes[i].key = "null" THEN nodes[i] ELSE Table!Clear]
      BY <2>4 DEF HandleClear, Slots
    <3>2. \A i \in Slots : nodes'[i].key = "null" /\ nodes'[i].val = "null"
      BY <1>1, <3>1 DEF Table!Clear, Intact
    <3>3. ASSUME NEW v \in Workers
          PROVE  OwnBuffer(v)'
      <4>1. OwnBuffer(v) /\ (wpc'[v] = "serve" => wpc[v] = "serve")
        BY <1>1, <2>1
      <4> QED
        BY <1>2, <2>1, <3>1, <3>2, <4>1 DEF OwnBuffer
    <3>4. \A i \in Slots : Intact(i)'
      BY <3>2 DEF Intact
    <3> QED
      BY <3>3, <3>4
  <2> QED
    BY <1>6, <2>2, <2>3, <2>4, MapMoves
<1>7. ASSUME NEW w \in Workers, Dequeue(w) \/ WriteHeader(w) \/ WriteValue(w) \/ Close(w)
      PROVE  (\A v \in Workers : OwnBuffer(v)') /\ (\A i \in Slots : Intact(i)')
  <2>1. sends' = sends /\ UNCHANGED <<nodes, content, allocated, exited>>
    BY <1>7 DEF Dequeue, WriteHeader, WriteValue, Close, Done, clients, map, heap
  <2>2. \A v \in Workers : v # w =>
           wpc'[v] = wpc[v] /\ request'[v] = request[v] /\ buffer'[v] = buffer[v]
    BY <1>7, OnlyItsOwn
  <2>3. \/ request'[w].code # "PUT"
        \/ request'[w] = request[w] /\ buffer'[w] = buffer[w] /\ wpc'[w] # "serve"
    BY <1>0, <1>7 DEF Dequeue, WriteHeader, WriteValue, Close, Done, Goto
  <2> QED
    BY <1>3, <2>1, <2>2, <2>3
<1> QED
  BY <1>4, <1>5, <1>6, <1>7, NextCases

\* Every step keeps the parts about buffers and the table.
LEMMA NodesStep ==
    ASSUME CreamInv, [Next]_vars
    PROVE  PutBuffersOK' /\ StoredValuesIntact' /\ NodesOK'
<1>1. (\A v \in Workers : OwnBuffer(v)') /\ (\A i \in Slots : Intact(i)')
  BY BuffersStep
<1>2. Cardinality(LiveNodes') <= size'
  <2>1. CASE UNCHANGED map
    BY <2>1 DEF map, LiveNodes, CreamInv, NodesOK
  <2>2. UNCHANGED map \/ \E w \in Workers : Serve(w)
    BY NextCases DEF vars, Accept, Enqueue, Dequeue, Receive, WriteHeader, WriteValue, Close, Done
  <2> QED
    BY <2>1, <2>2, ServeCounts
<1> QED
  BY <1>1, <1>2 DEF OwnBuffer, Intact, PutBuffersOK, StoredValuesIntact, NodesOK, Slots
-----------------------------------------------------------------------------
(***************************************************************************)
(* The theorems.                                                           *)
(***************************************************************************)
LEMMA InitEstablishes == Init => CreamInv
<1> SUFFICES ASSUME Init PROVE CreamInv
  OBVIOUS
<1> USE CreamAssumption DEF Init
<1>1. Shapes
  <2>1. nodes \in [Table!Slots -> Table!Node]
    BY DEF Table!Empty, Table!Node
  <2>2. sends \in [Clients -> Requests]
    OBVIOUS
  <2>3. /\ \A c \in Clients : Len(got[c]) = 0
        /\ got \in [Clients -> Seq(Answers \cup Values)] /\ queue \in Seq(Fds) /\ DOMAIN queue = {}
    OBVIOUS
  <2>4. content \in [Buffers -> Values]
    BY DEF Values
  <2>5. /\ conn \in [Clients -> {"away", "accepted", "closed"}]
        /\ fds \in [Fds -> Clients \cup {"null"}] /\ accepted \in Fds \cup {0}
        /\ size \in 0 .. Capacity /\ allocated \subseteq Buffers /\ exited \in BOOLEAN
    <3>1. size \in 0 .. Capacity
      <4> HIDE DEF Init
      <4>1. size = 0 /\ Capacity \in Nat
        BY DEF Init
      <4> QED
        BY <4>1
    <3>2. conn \in [Clients -> {"away", "accepted", "closed"}]
      OBVIOUS
    <3>3. fds \in [Fds -> Clients \cup {"null"}]
      OBVIOUS
    <3>4. accepted \in Fds \cup {0} /\ allocated \subseteq Buffers /\ exited \in BOOLEAN
      OBVIOUS
    <3> QED
      BY <3>1, <3>2, <3>3, <3>4
  <2>6. /\ wpc \in [Workers -> {"dequeue", "receive", "serve", "respond", "send", "close"}]
        /\ fd \in [Workers -> Fds \cup {0}]
        /\ request \in [Workers -> Request \cup {NoRequest}]
        /\ buffer \in [Workers -> Buffers \cup {"null"}]
        /\ code \in [Workers -> Answers \cup {"null"}]
    OBVIOUS
  <2>7. \A c \in Clients : ~(Len(got[c]) > 0) /\ ~(Len(got[c]) > 1) /\ Len(got[c]) <= 2
    BY <2>3
  <2> QED
    BY <2>1, <2>2, <2>3, <2>4, <2>5, <2>6, <2>7 DEF Shapes, TypeOK
<1>2. WorkerOK
  BY DEF WorkerOK
<1>3. HandsOK
  BY DEF HandsOK, Fds
<1>4. PeersOK
  BY DEF PeersOK
<1>5. AnswerOK /\ AnswersMatchRequests
  BY DEF AnswerOK, AnswersMatchRequests
<1>6. PutBuffersOK /\ StoredValuesIntact
  BY DEF PutBuffersOK, StoredValuesIntact, NoRequest, Table!Empty
<1>7. NodesOK
  <2>1. LiveNodes = {}
    BY DEF LiveNodes, Table!Live, Table!Empty
  <2> QED
    BY <2>1, FS_EmptySet DEF NodesOK, Slots, Table!Empty
<1> QED
  BY <1>1, <1>2, <1>3, <1>4, <1>5, <1>6, <1>7 DEF CreamInv

\* The invariant of the server.
LEMMA CreamInvHolds == Spec => []CreamInv
<1>1. CreamInv /\ [Next]_vars => CreamInv'
  BY ShapesStep, WorkerStep, HandsStep, PeersStep, AnswerStep, NodesStep DEF CreamInv
<1> QED
  BY <1>1, InitEstablishes, PTL DEF Spec

\* Type correctness of the server and its clients.
THEOREM TypeCorrect == Spec => []TypeOK
BY CreamInvHolds, PTL DEF CreamInv, Shapes

\* An open descriptor is in main's hands, in the queue or with a worker, in one place
\* and once; a closed one is nowhere.
THEOREM DescriptorsCorrect == Spec => []DescriptorsAccountedFor
<1>1. CreamInv => DescriptorsAccountedFor
  <2> SUFFICES ASSUME CreamInv, NEW f \in Fds
               PROVE  Cardinality({k \in DOMAIN queue : queue[k] = f}) + Cardinality({w \in Workers : fd[w] = f})
                        + Cardinality({a \in {accepted} : a = f}) = IF fds[f] = "null" THEN 0 ELSE 1
    BY DEF DescriptorsAccountedFor
  <2> DEFINE Q == {k \in DOMAIN queue : queue[k] = f}
             W == {w \in Workers : fd[w] = f}
             A == {a \in {accepted} : a = f}
  <2>1. HandsOK /\ f # 0
    BY CreamAssumption DEF CreamInv, Fds
  <2>2. \A S : S = {} => Cardinality(S) = 0
    BY FS_EmptySet
  <2>3. \A S, x : S = {x} => Cardinality(S) = 1
    BY FS_Singleton
  <2>4. CASE fds[f] = "null"
    <3>1. Q = {} /\ W = {} /\ A = {}
      BY <2>1, <2>4 DEF HandsOK
    <3> QED
      BY <2>2, <2>4, <3>1
  <2>5. CASE fds[f] # "null"
    <3>1. ASSUME f = accepted
          PROVE  Cardinality(Q) + Cardinality(W) + Cardinality(A) = 1
      <4>1. Q = {} /\ W = {} /\ A = {f}
        BY <2>1, <3>1 DEF HandsOK
      <4>2. Cardinality(Q) = 0 /\ Cardinality(W) = 0 /\ Cardinality(A) = 1
        BY <2>2, <2>3, <4>1
      <4> HIDE DEF Q, W, A
      <4> QED
        BY <4>2
    <3>2. ASSUME NEW k \in DOMAIN queue, queue[k] = f
          PROVE  Cardinality(Q) + Cardinality(W) + Cardinality(A) = 1
      <4>1. Q = {k} /\ W = {} /\ A = {}
        BY <2>1, <3>2 DEF HandsOK
      <4>2. Cardinality(Q) = 1 /\ Cardinality(W) = 0 /\ Cardinality(A) = 0
        BY <2>2, <2>3, <4>1
      <4> HIDE DEF Q, W, A
      <4> QED
        BY <4>2
    <3>3. ASSUME NEW w \in Workers, fd[w] = f
          PROVE  Cardinality(Q) + Cardinality(W) + Cardinality(A) = 1
      <4>1. Q = {} /\ W = {w} /\ A = {}
        BY <2>1, <3>3 DEF HandsOK
      <4>2. Cardinality(Q) = 0 /\ Cardinality(W) = 1 /\ Cardinality(A) = 0
        BY <2>2, <2>3, <4>1
      <4> HIDE DEF Q, W, A
      <4> QED
        BY <4>2
    <3> QED
      BY <2>1, <2>5, <3>1, <3>2, <3>3 DEF HandsOK
  <2> QED
    BY <2>4, <2>5
<1> QED
  BY <1>1, CreamInvHolds, PTL

\* What a client is told answers its own request, and in full.
THEOREM AnswersCorrect == Spec => []AnswersMatchRequests
BY CreamInvHolds, PTL DEF CreamInv

\* The buffer of an entry stays the entry's own, with a value put for its key.
THEOREM ValuesCorrect == Spec => []StoredValuesIntact
BY CreamInvHolds, PTL DEF CreamInv
=============================================================================
