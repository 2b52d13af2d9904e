-------------------------------- MODULE Cream --------------------------------
(***************************************************************************)
(* The cache server (multi_thread_server/src/cream.c): the main thread     *)
(* accepts connections and queues their descriptors; each worker takes one *)
(* from the queue, reads one request, serves it from the hash map, answers *)
(* and closes the connection.                                              *)
(*                                                                         *)
(* The queue is the FIFO queue that module Queue implements and a call of  *)
(* the map is one step here: what happens inside is the subject of module  *)
(* Hashmap.  The values of the map are pointers to malloc'ed buffers, and  *)
(* the map destroys an entry by freeing them, so that a buffer can come    *)
(* back with other contents while somebody still points to it.             *)
(***************************************************************************)
EXTENDS Sequences, FiniteSets, Integers

CONSTANTS
    Clients, Workers,
    MaxFds,     \* how many connections the process may have open
    Keys, Buffers,
    Capacity, Index,    \* of the hash map
    Script      \* Script[c]: the requests that client c may send, see Requests

Fds == 1 .. MaxFds    \* the descriptors of connections; 0 stands for none

Values == Clients \cup {"junk"}    \* the value put by a client, or whatever malloc left

Table == INSTANCE HashTable WITH Vals <- Buffers

Codes == {"PUT", "GET", "EVICT", "CLEAR", "unsupported"}

\* A request as the server reads it; valid: its sizes are within the limits.  A
\* client may also send nothing, or close its side before it has sent a header.
RequestsOf(codes) == [code : codes, key : Keys, valid : BOOLEAN]
Request   == RequestsOf(Codes)
Requests  == RequestsOf(Codes \cup {"silence", "eof"})
NoRequest == [code |-> "null", key |-> "null", valid |-> FALSE]

ASSUME CreamAssumption ==
    /\ IsFiniteSet(Clients) /\ IsFiniteSet(Workers) /\ MaxFds \in Nat
    /\ Capacity \in Nat \ {0} /\ Index \in [Keys -> 0 .. Capacity - 1]
    /\ Script \in [Clients -> SUBSET Requests]
    /\ "null" \notin Clients \cup Workers \cup Keys \cup Buffers

VARIABLES
    \* of each client: "away" until it is accepted, then "accepted" or "closed";
    \* what it sends; the response it got
    conn, sends, got,
    fds,            \* fds[f]: the client at the other end of descriptor f, or "null" if f is closed
    accepted,       \* main: the descriptor accepted and not queued yet, or 0
    queue,          \* the queued descriptors
    nodes, size,    \* the hash map
    content,        \* content[b]: the bytes in buffer b
    allocated,      \* the buffers malloc gave out
    exited,         \* app_error or unix_error ended the process
    wpc, fd, request, buffer, code    \* of each worker

clients == <<conn, sends, got>>
map     == <<nodes, size>>
heap    == <<content, allocated>>
worker  == <<wpc, fd, request, buffer, code>>
vars    == <<clients, fds, accepted, queue, map, heap, exited, worker>>

Goto(w, from, to) ==
    /\ ~exited
    /\ wpc[w] = from
    /\ wpc' = [wpc EXCEPT ![w] = to]
-----------------------------------------------------------------------------
Init ==
    /\ conn  = [c \in Clients |-> "away"]
    /\ sends \in [Clients -> UNION {Script[c] : c \in Clients}]
    /\ \A c \in Clients : sends[c] \in Script[c]
    /\ got   = [c \in Clients |-> <<>>]
    /\ fds = [f \in Fds |-> "null"] /\ accepted = 0 /\ queue = <<>>
    /\ nodes = [i \in Table!Slots |-> Table!Empty] /\ size = 0
    /\ content = [b \in Buffers |-> "junk"] /\ allocated = {}
    /\ exited = FALSE
    /\ wpc     = [w \in Workers |-> "dequeue"]
    /\ fd      = [w \in Workers |-> 0]
    /\ request = [w \in Workers |-> NoRequest]
    /\ buffer  = [w \in Workers |-> "null"]
    /\ code    = [w \in Workers |-> "null"]

\* accept gives the connection the lowest descriptor that is not open; when there
\* is none it fails, and Accept exits.
Accept(c) ==
    /\ ~exited /\ accepted = 0 /\ conn[c] = "away"
    /\ IF \A f \in Fds : fds[f] # "null"
       THEN exited' = TRUE /\ UNCHANGED <<conn, fds, accepted>>
       ELSE /\ accepted' = CHOOSE f \in Fds : fds[f] = "null" /\ \A g \in 1 .. f - 1 : fds[g] # "null"
            /\ fds' = [fds EXCEPT ![accepted'] = c]
            /\ conn' = [conn EXCEPT ![c] = "accepted"]
            /\ UNCHANGED exited
    /\ UNCHANGED <<sends, got, queue, map, heap, worker>>

Enqueue ==
    /\ ~exited /\ accepted # 0
    /\ queue' = Append(queue, accepted)
    /\ accepted' = 0
    /\ UNCHANGED <<clients, fds, map, heap, exited, worker>>
-----------------------------------------------------------------------------
Dequeue(w) ==
    /\ Goto(w, "dequeue", "receive")
    /\ queue # <<>>
    /\ fd' = [fd EXCEPT ![w] = Head(queue)]
    /\ queue' = Tail(queue)
    /\ UNCHANGED <<clients, fds, accepted, map, heap, exited, request, buffer, code>>

Peer(w) == fds[fd[w]]

\* The request that worker w finds in its variables once its reads are over.  The
\* bytes that do not come are not missed: a count of 0 is not an error for
\* handle_request, which then acts on an uninitialised header.
Received(w) ==
    IF sends[Peer(w)].code = "eof" THEN Request ELSE {sends[Peer(w)]}

\* The header and what follows it; a PUT reads its value into a new buffer.
Receive(w) ==
    /\ wpc[w] = "receive" /\ sends[Peer(w)].code # "silence"
    /\ Goto(w, "receive", "serve")
    /\ \E r \in Received(w) :
          /\ request' = [request EXCEPT ![w] = r]
          /\ IF r.code # "PUT" THEN UNCHANGED <<heap, buffer, exited>>
             ELSE IF allocated = Buffers THEN exited' = TRUE /\ UNCHANGED <<heap, buffer>>
             ELSE \E new \in Buffers \ allocated :
                    /\ allocated' = allocated \cup {new}
                    /\ buffer' = [buffer EXCEPT ![w] = new]
                    /\ content' = [content EXCEPT ![new] =
                                     IF ~r.valid THEN @
                                     ELSE IF sends[Peer(w)].code = "eof" THEN "junk" ELSE Peer(w)]
                    /\ UNCHANGED exited
    /\ UNCHANGED <<clients, fds, accepted, queue, map, fd, code>>

\* The map call is done and the response chosen.
Respond(w, c, next) ==
    /\ Goto(w, "serve", next)
    /\ code' = [code EXCEPT ![w] = c]
    /\ UNCHANGED <<clients, fds, accepted, queue, content, exited, fd, request>>

Serving(w, c) == wpc[w] = "serve" /\ request[w].code = c

\* Mutant: a handler that returns before it answers a request it refuses.
BadRequestUnanswered(w) ==
    /\ wpc[w] = "serve" /\ request[w].code \in {"PUT", "GET", "EVICT"} /\ ~request[w].valid
    /\ Respond(w, "BAD_REQUEST", "close")
    /\ UNCHANGED <<map, allocated, buffer>>

BadRequest(w) ==
    /\ wpc[w] = "serve" /\ request[w].code \in {"PUT", "GET", "EVICT"} /\ ~request[w].valid
    /\ Respond(w, "BAD_REQUEST", "respond")
    /\ UNCHANGED <<map, allocated, buffer>>

Unsupported(w) ==
    /\ Serving(w, "unsupported")
    /\ Respond(w, "UNSUPPORTED", "respond")
    /\ UNCHANGED <<map, allocated, buffer>>

\* put with force: over a full map it destroys what is at the key's index, and so
\* frees the buffer of the value there, of a deleted entry too.
HandlePut(w) ==
    /\ Serving(w, "PUT") /\ request[w].valid
    /\ LET k == request[w].key
           full == size >= Capacity
           slot == IF full THEN Index[k] ELSE Table!PutSlot(nodes, k)
       IN  /\ nodes' = [nodes EXCEPT ![slot] =
                           [key |-> k, val |-> buffer[w], tombstone |-> FALSE]]
           /\ size' = IF full THEN size ELSE size + 1
           /\ allocated' = IF full THEN allocated \ {nodes[slot].val} ELSE allocated
    /\ buffer' = [buffer EXCEPT ![w] = "null"]
    /\ Respond(w, "OK", "respond")

\* get returns the pointer, and the lock is gone.
HandleGet(w) ==
    /\ Serving(w, "GET") /\ request[w].valid
    /\ LET value == Table!Get(nodes, request[w].key)
       IN  /\ Respond(w, IF value = "null" THEN "NOT_FOUND" ELSE "OK", "respond")
           /\ buffer' = [buffer EXCEPT ![w] = value]
    /\ UNCHANGED <<map, allocated>>

\* Mutant: the value of the node that delete returns is freed.
HandleEvictFrees(w) ==
    /\ Serving(w, "EVICT") /\ request[w].valid
    /\ LET i == Table!TrueIndex(nodes, request[w].key)
       IN  IF i = -1 THEN UNCHANGED <<map, allocated>>
           ELSE /\ nodes' = [nodes EXCEPT ![i].tombstone = TRUE] /\ size' = size - 1
                /\ allocated' = allocated \ {nodes[i].val}
    /\ Respond(w, "OK", "respond")
    /\ UNCHANGED buffer

\* The node that delete returns is ignored; its buffers stay in the tombstone.
HandleEvict(w) ==
    /\ Serving(w, "EVICT") /\ request[w].valid
    /\ LET k == request[w].key
           i == Table!TrueIndex(nodes, k)
       IN  IF Table!Get(nodes, k) = "null" \/ i = -1 THEN UNCHANGED map
           ELSE nodes' = [nodes EXCEPT ![i].tombstone = TRUE] /\ size' = size - 1
    /\ Respond(w, "OK", "respond")
    /\ UNCHANGED <<allocated, buffer>>

HandleClear(w) ==
    /\ Serving(w, "CLEAR")
    /\ allocated' = allocated \ {nodes[i].val : i \in Table!Slots}
    /\ nodes' = [i \in Table!Slots |-> IF nodes[i].key = "null" THEN nodes[i] ELSE Table!Clear]
    /\ size' = 0
    /\ Respond(w, "OK", "respond")
    /\ UNCHANGED buffer

\* The response header; the value of a GET follows, from the map's own buffer.
WriteHeader(w) ==
    /\ Goto(w, "respond", IF request[w].code = "GET" /\ code[w] = "OK" THEN "send" ELSE "close")
    /\ got' = [got EXCEPT ![Peer(w)] = <<code[w]>>]
    /\ UNCHANGED <<conn, sends, fds, accepted, queue, map, heap, exited,
                   fd, request, buffer, code>>

WriteValue(w) ==
    /\ Goto(w, "send", "close")
    /\ got' = [got EXCEPT ![Peer(w)] = Append(@, content[buffer[w]])]
    /\ UNCHANGED <<conn, sends, fds, accepted, queue, map, heap, exited,
                   fd, request, buffer, code>>

Done(w) ==
    /\ fd'      = [fd EXCEPT ![w] = 0]
    /\ request' = [request EXCEPT ![w] = NoRequest]
    /\ buffer'  = [buffer EXCEPT ![w] = "null"]
    /\ code'    = [code EXCEPT ![w] = "null"]
    /\ UNCHANGED <<sends, got, accepted, queue, map, heap, exited>>

\* Mutant: the thread does not close the connection.
CloseForgotten(w) == Goto(w, "close", "dequeue") /\ Done(w) /\ UNCHANGED <<conn, fds>>

\* Mutant: the thread serves one request and returns.
CloseAndReturn(w) ==
    /\ Goto(w, "close", "returned")
    /\ conn' = [conn EXCEPT ![Peer(w)] = "closed"]
    /\ fds' = [fds EXCEPT ![fd[w]] = "null"]
    /\ Done(w)

Close(w) ==
    /\ Goto(w, "close", "dequeue")
    /\ conn' = [conn EXCEPT ![Peer(w)] = "closed"]
    /\ fds' = [fds EXCEPT ![fd[w]] = "null"]
    /\ Done(w)
-----------------------------------------------------------------------------
Work(w) ==
    \/ Dequeue(w) \/ Receive(w)
    \/ BadRequest(w) \/ Unsupported(w)
    \/ HandlePut(w) \/ HandleGet(w) \/ HandleEvict(w) \/ HandleClear(w)
    \/ WriteHeader(w) \/ WriteValue(w) \/ Close(w)

Next == (\E c \in Clients : Accept(c)) \/ Enqueue \/ \E w \in Workers : Work(w)

Spec == Init /\ [][Next]_vars

\* The threads keep running; a client need not connect.
FairSpec == Spec /\ WF_vars(Enqueue) /\ \A w \in Workers : WF_vars(Work(w))
-----------------------------------------------------------------------------
(***************************************************************************)
(* Properties.                                                             *)
(***************************************************************************)
Answers == {"OK", "NOT_FOUND", "BAD_REQUEST", "UNSUPPORTED"}

\* The type invariant of the server and its clients.
TypeOK ==
    /\ conn \in [Clients -> {"away", "accepted", "closed"}]
    /\ sends \in [Clients -> Requests]
    /\ \A c \in Clients : /\ Len(got[c]) <= 2
                          /\ Len(got[c]) > 0 => got[c][1] \in Answers
                          /\ Len(got[c]) > 1 => got[c][2] \in Values
    /\ fds \in [Fds -> Clients \cup {"null"}]
    /\ accepted \in Fds \cup {0}
    /\ \A k \in DOMAIN queue : queue[k] \in Fds
    /\ nodes \in [Table!Slots -> Table!Node]
    /\ size \in 0 .. Capacity
    /\ content \in [Buffers -> Values]
    /\ allocated \subseteq Buffers
    /\ exited \in BOOLEAN
    /\ wpc \in [Workers -> {"dequeue", "receive", "serve", "respond", "send", "close"}]
    /\ fd \in [Workers -> Fds \cup {0}]
    /\ request \in [Workers -> Request \cup {NoRequest}]
    /\ buffer \in [Workers -> Buffers \cup {"null"}]
    /\ code \in [Workers -> Answers \cup {"null"}]

\* The one open descriptor of a connection goes from main through the queue to one
\* worker: it is never lost, never in two hands, and closed once, although the
\* kernel gives its number to the next connection as soon as it is closed.
DescriptorsAccountedFor ==
    \A f \in Fds :
        Cardinality({k \in DOMAIN queue : queue[k] = f}) + Cardinality({w \in Workers : fd[w] = f})
          + Cardinality({a \in {accepted} : a = f}) = IF fds[f] = "null" THEN 0 ELSE 1

\* What a client is told is the answer to its own request, in full: every client
\* served got a response, a value with it exactly when a GET found one.
AnswersMatchRequests ==
    \A c \in Clients : conn[c] = "closed" /\ sends[c].code # "eof" =>
        /\ got[c] # <<>>
        /\ got[c][1] = "UNSUPPORTED" <=> sends[c].code = "unsupported"
        /\ got[c][1] = "BAD_REQUEST" <=>
              sends[c].code \in {"PUT", "GET", "EVICT"} /\ ~sends[c].valid
        /\ Len(got[c]) = 2 <=> sends[c].code = "GET" /\ got[c][1] = "OK"

\* The values that clients put for key k, and what is left of a PUT that broke off.
PutFor(k) ==
    {c \in Clients : sends[c].code = "PUT" /\ sends[c].valid /\ sends[c].key = k}
      \cup {v \in {"junk"} : \E c \in Clients : sends[c].code = "eof"}

\* An entry's buffer stays the entry's own until the map destroys the entry: it is
\* not freed, in no other slot, deleted ones included, in the hands of no PUT, and
\* holds a value that was put for the entry's key.
StoredValuesIntact ==
    \A i \in Table!Slots : nodes[i].key # "null" =>
        /\ nodes[i].val \in allocated
        /\ \A j \in Table!Slots \ {i} : nodes[j].val # nodes[i].val
        /\ \A w \in Workers : request[w].code = "PUT" => buffer[w] # nodes[i].val
        /\ content[nodes[i].val] \in PutFor(nodes[i].key)

\* A client that connects and says nothing holds a worker for ever: as long as there
\* are fewer of them than workers, everybody else accepted is served, unless the
\* server runs out of descriptors or memory and exits.
Silent == {c \in Clients : sends[c].code = "silence"}

ServedDespiteSilence ==
    \A c \in Clients :
        conn[c] = "accepted" /\ c \notin Silent /\ Cardinality(Silent) < Cardinality(Workers)
            ~> conn[c] = "closed" \/ exited

\* The value a GET is answered with was put for the key it asked for.
GetReturnsKeysValue ==
    \A c \in Clients : sends[c].code = "GET" /\ Len(got[c]) = 2 =>
        got[c][2] \in PutFor(sends[c].key)
=============================================================================
