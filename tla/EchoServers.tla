----------------------------- MODULE EchoServers -----------------------------
(***************************************************************************)
(* The three servers of examples/: an accept loop, a channel of accepted   *)
(* connections, a pool of workers and the test clients, all children of    *)
(* one when_all, so that the first to fail stops the others.               *)
(*   "pool"       echo_server_pool: the last client shuts the listener     *)
(*   "multishot"  echo_server_multishot: the same on a multishot_acceptor  *)
(*   "file"       echo_to_file: workers write to a file, and the worker    *)
(*                with the last id shuts the listener                      *)
(* A connection is named by its client.  In the programs the channel has   *)
(* room for all clients.  Here it always has for "file", whose workers may *)
(* all leave while the loop pushes; for the others also smaller ones are   *)
(* tried, which their code copes with.                                     *)
(***************************************************************************)
EXTENDS Naturals, Sequences, FiniteSets

CONSTANTS
    Clients, Workers,
    Nobody,          \* no client
    Capacities,      \* the capacities of conn_ch tried
    MaxFailures      \* bound: the operations that fail

ASSUME ServerAssumption ==
    /\ IsFiniteSet(Clients) /\ Nobody \notin Clients \cup Workers
    /\ MaxFailures \in Nat

VARIABLES
    kind, capacity,
    stop,            \* has when_all requested stop?
    listening,       \* is the listening socket not shut down?
    backlog,         \* connections accept has not returned yet
    queue, closed,   \* conn_ch
    apc, accepted,   \* the accept loop and the connection in its hands
    wpc, conn,       \* the workers and the connections in theirs
    last,            \* the worker that got the last id
    count,           \* clients_done, or g_next_id
    cpc,             \* the clients
    data,            \* what has become of a client's message
    closes,          \* how often the server closed a connection
    acceptFailed,    \* history: accept failed for another reason
    failures

vars == <<kind, capacity, stop, listening, backlog, queue, closed, apc, accepted, wpc, conn,
          last, count, cpc, data, closes, acceptFailed, failures>>
config == <<kind, capacity>>
acceptVars == <<apc, accepted, acceptFailed>>
workerVars == <<wpc, conn, last>>
socketVars == <<listening, backlog>>

ConnCh == INSTANCE Channel WITH items <- queue

Init ==
    /\ kind \in {"pool", "multishot", "file"}
    /\ capacity \in Capacities /\ (kind = "file" => ConnCh!Usable(capacity) >= Cardinality(Clients))
    /\ stop = FALSE /\ listening = TRUE /\ backlog = <<>> /\ ConnCh!Init
    /\ apc = "accept" /\ accepted = Nobody /\ acceptFailed = FALSE
    /\ wpc = [w \in Workers |-> "pop"] /\ conn = [w \in Workers |-> Nobody] /\ last = Nobody
    /\ count = 0 /\ cpc = [c \in Clients |-> "connect"]
    /\ data = [c \in Clients |-> "none"] /\ closes = [c \in Clients |-> 0]
    /\ failures = MaxFailures

(* A child of when_all that ends with an exception stops the other ones. *)
Fail == stop \/ failures > 0
Failing == stop' = TRUE /\ failures' = IF stop \/ failures = 0 THEN failures ELSE failures - 1

-----------------------------------------------------------------------------
(* The clients.                                                            *)

Connect(c) ==
    /\ cpc[c] = "connect" /\ listening
    /\ cpc' = [cpc EXCEPT ![c] = "send"] /\ backlog' = Append(backlog, c)
    /\ UNCHANGED <<config, stop, listening, queue, closed, acceptVars, workerVars, count, data, closes, failures>>

(* The client of echo_to_file closes and is done; when the server sees that is up to it. *)
Send(c) ==
    /\ cpc[c] = "send"
    /\ cpc' = [cpc EXCEPT ![c] = IF kind = "file" THEN "done" ELSE "recv"]
    /\ data' = [data EXCEPT ![c] = "sent"]
    /\ UNCHANGED <<config, stop, socketVars, queue, closed, acceptVars, workerVars, count, closes, failures>>

(* Mutation of IsLastClient: off by one. *)
IsLastButOne == count = Cardinality(Clients) - 2

IsLastClient == count = Cardinality(Clients) - 1

(* The echo, or the end of the stream if the worker gave up; then, without *)
(* suspending, close and fetch_add, and the last client shuts the listener. *)
RecvAndCount(c) ==
    /\ cpc[c] = "recv" /\ (data[c] = "served" \/ closes[c] > 0)
    /\ cpc' = [cpc EXCEPT ![c] = "done"]
    /\ count' = count + 1 /\ listening' = (listening /\ ~IsLastClient)
    /\ UNCHANGED <<config, stop, backlog, queue, closed, acceptVars, workerVars, data, closes, failures>>

(* An operation throws, as recv on a connection that the worker gave up, *)
(* which is reset: the client ends and leaves its socket open; the stop  *)
(* ends the wait of its worker.                                          *)
ClientFails(c) ==
    /\ \/ cpc[c] \in {"connect", "send", "recv"} /\ Fail
       \/ cpc[c] = "recv" /\ closes[c] > 0
    /\ Failing
    /\ cpc' = [cpc EXCEPT ![c] = "done"]
    /\ UNCHANGED <<config, socketVars, queue, closed, acceptVars, workerVars, count, data, closes>>

-----------------------------------------------------------------------------
(* The accept loop: async_accept, or next() of the acceptor.               *)

Accept ==
    /\ apc \in {"accept", "next"} /\ backlog # <<>>
    /\ accepted' = Head(backlog) /\ backlog' = Tail(backlog) /\ apc' = "push"
    /\ UNCHANGED <<config, stop, listening, queue, closed, acceptFailed, workerVars, count, cpc, data, closes, failures>>

(* next() suspends; from now on it does not look at the stop token. *)
NextSuspends ==
    /\ kind = "multishot" /\ apc = "accept" /\ backlog = <<>> /\ listening /\ ~stop
    /\ apc' = "next"
    /\ UNCHANGED <<config, stop, socketVars, queue, closed, accepted, acceptFailed, workerVars, count, cpc, data, closes, failures>>

(* Mutation of LeaveLoop: the exception also skips conn_ch.close(). *)
LeaveFunction == apc' = "done" /\ UNCHANGED closed

(* The loop is left, and the channel is closed. *)
LeaveLoop == apc' = "done" /\ closed' = TRUE

(* accept ends by the shutdown (EINVAL) or by the stop token (ECANCELED). *)
AcceptEnds ==
    /\ \/ apc = "accept" /\ (stop \/ ~listening)
       \/ apc = "next" /\ ~listening
    /\ LeaveLoop
    /\ UNCHANGED <<config, stop, socketVars, queue, accepted, acceptFailed, workerVars, count, cpc, data, closes, failures>>

(* async_accept fails for another reason; the loop is left without an error. *)
AcceptFails ==
    /\ kind # "multishot" /\ apc = "accept" /\ failures > 0
    /\ failures' = failures - 1 /\ acceptFailed' = TRUE
    /\ LeaveLoop
    /\ UNCHANGED <<config, stop, socketVars, queue, accepted, workerVars, count, cpc, data, closes>>

(* next() throws, outside any try: the channel stays open, and the others are stopped. *)
NextThrows ==
    /\ kind = "multishot" /\ apc \in {"accept", "next"} /\ failures > 0 /\ Failing
    /\ apc' = "done"
    /\ UNCHANGED <<config, socketVars, queue, closed, accepted, acceptFailed, workerVars, count, cpc, data, closes>>

(* Only this loop closes the channel, so push never finds it closed. *)
PushConnection ==
    /\ apc = "push" /\ ConnCh!Push(capacity, accepted)
    /\ apc' = "accept" /\ accepted' = Nobody
    /\ UNCHANGED <<config, stop, socketVars, acceptFailed, workerVars, count, cpc, data, closes, failures>>

-----------------------------------------------------------------------------
(* The workers.                                                            *)

(* A connection, and in echo_to_file an id for it. *)
Pop(w) ==
    /\ wpc[w] = "pop"
    /\ \E c \in Clients : ConnCh!Pop(c) /\ conn' = [conn EXCEPT ![w] = c]
    /\ IF kind = "file"
       THEN /\ wpc' = [wpc EXCEPT ![w] = "open"] /\ count' = count + 1
            /\ last' = IF IsLastClient THEN w ELSE last
       ELSE wpc' = [wpc EXCEPT ![w] = "recv"] /\ UNCHANGED <<count, last>>
    /\ UNCHANGED <<config, stop, socketVars, acceptVars, cpc, data, closes, failures>>

(* Mutation of PopClosed: a worker leaves with connections in the channel. *)
PopClosedEarly(w) ==
    /\ wpc[w] = "pop" /\ closed
    /\ wpc' = [wpc EXCEPT ![w] = "done"]
    /\ UNCHANGED <<config, stop, socketVars, queue, closed, acceptVars, conn, last, count, cpc, data, closes, failures>>

PopClosed(w) ==
    /\ wpc[w] = "pop" /\ ConnCh!PopClosed
    /\ wpc' = [wpc EXCEPT ![w] = "done"]
    /\ UNCHANGED <<config, stop, socketVars, acceptVars, conn, last, count, cpc, data, closes, failures>>

OpenLog(w) ==
    /\ wpc[w] = "open"
    /\ wpc' = [wpc EXCEPT ![w] = "recv"]
    /\ UNCHANGED <<config, stop, socketVars, queue, closed, acceptVars, conn, last, count, cpc, data, closes, failures>>

(* async_openat throws, outside the try: the worker ends with its connection open. *)
OpenFails(w) ==
    /\ wpc[w] = "open" /\ Fail /\ Failing
    /\ wpc' = [wpc EXCEPT ![w] = "failed"]
    /\ UNCHANGED <<config, socketVars, queue, closed, acceptVars, conn, last, count, cpc, data, closes>>

(* recv, then send it back or write it to the file. *)
Serve(w) ==
    /\ wpc[w] = "recv" /\ data[conn[w]] = "sent"
    /\ data' = [data EXCEPT ![conn[w]] = "served"]
    /\ UNCHANGED <<config, stop, socketVars, queue, closed, acceptVars, workerVars, count, cpc, closes, failures>>

(* recv returns 0, or throws ECANCELED inside the try. *)
EndOfStream(w) ==
    /\ wpc[w] = "recv"
    /\ stop \/ (cpc[conn[w]] = "done" /\ data[conn[w]] = "served")
    /\ wpc' = [wpc EXCEPT ![w] = "close"]
    /\ UNCHANGED <<config, stop, socketVars, queue, closed, acceptVars, conn, last, count, cpc, data, closes, failures>>

(* recv, send or write throws another error inside the try. *)
ServeFails(w) ==
    /\ wpc[w] = "recv" /\ failures > 0 /\ failures' = failures - 1
    /\ wpc' = [wpc EXCEPT ![w] = "close"]
    /\ UNCHANGED <<config, stop, socketVars, queue, closed, acceptVars, conn, last, count, cpc, data, closes>>

Closed(c) == [closes EXCEPT ![c] = @ + 1]

(* close the connection; after the last id, shut the listener. *)
CloseConnection(w) ==
    /\ wpc[w] = "close"
    /\ closes' = Closed(conn[w])
    /\ wpc' = [wpc EXCEPT ![w] = "pop"] /\ conn' = [conn EXCEPT ![w] = Nobody]
    /\ listening' = (listening /\ last # w)
    /\ UNCHANGED <<config, stop, backlog, queue, closed, acceptVars, last, count, cpc, data, failures>>

(* async_close throws, which close in echo_server_pool does not. *)
CloseFails(w) ==
    /\ wpc[w] = "close" /\ kind # "pool" /\ Fail /\ Failing
    /\ wpc' = [wpc EXCEPT ![w] = "failed"]
    /\ UNCHANGED <<config, socketVars, queue, closed, acceptVars, conn, last, count, cpc, data, closes>>

ClientStep(c) ==
    \/ Connect(c) \/ Send(c) \/ RecvAndCount(c)
    \/ stop /\ ClientFails(c)

AcceptStep == Accept \/ NextSuspends \/ AcceptEnds \/ PushConnection

WorkerStep(w) ==
    \/ Pop(w) \/ PopClosed(w) \/ OpenLog(w) \/ Serve(w) \/ EndOfStream(w) \/ CloseConnection(w)
    \/ stop /\ OpenFails(w)

Next ==
    \/ AcceptStep \/ AcceptFails \/ NextThrows
    \/ \E c \in Clients : ClientStep(c) \/ ClientFails(c)
    \/ \E w \in Workers : WorkerStep(w) \/ OpenFails(w) \/ ServeFails(w) \/ CloseFails(w)

Spec == Init /\ [][Next]_vars

(* Fibers run, the loopback network delivers, and stop ends waits; failures may not come. *)
FairSpec ==
    /\ Spec
    /\ WF_vars(AcceptStep)
    /\ \A c \in Clients : WF_vars(ClientStep(c))
    /\ \A w \in Workers : WF_vars(WorkerStep(w))

-----------------------------------------------------------------------------
(* All children of when_all have completed, and sync_wait returns. *)
Returned ==
    /\ apc = "done" /\ \A w \in Workers : wpc[w] \in {"done", "failed"}
    /\ \A c \in Clients : cpc[c] = "done"

(* Where a connection is: in a queue, with the accept loop or with a worker. *)
Places(c) ==
    ({"backlog"} \X {i \in DOMAIN backlog : backlog[i] = c}) \cup ({"queue"} \X {i \in DOMAIN queue : queue[i] = c})
    \cup ({"worker"} \X {w \in Workers : conn[w] = c}) \cup {<<"loop", x>> : x \in {accepted} \cap {c}}

(***************************************************************************)
(* A connection has one owner until it is closed, once.  When sync_wait    *)
(* returns, after failures too, every accepted one has been closed, except *)
(* in the hands of a worker that ended with an exception (async_openat and *)
(* async_close are outside the try), or in the channel if all workers did. *)
(***************************************************************************)
ConnectionsClosedOnce ==
    /\ \A c \in Clients : /\ \A p, q \in Places(c) : p = q
                          /\ closes[c] = 0 \/ (closes[c] = 1 /\ Places(c) = {})
    /\ Returned => /\ accepted = Nobody
                   /\ queue = <<>> \/ \A w \in Workers : wpc[w] = "failed"
                   /\ \A w \in Workers : conn[w] # Nobody => kind # "pool" /\ wpc[w] = "failed"

(***************************************************************************)
(* The shutdown comes late enough.  No client finds the listener shut,     *)
(* after failures too; and without failures every client has been served   *)
(* and its connection closed when sync_wait returns.                       *)
(***************************************************************************)
EveryClientServed ==
    /\ ~listening => \A c \in Clients : cpc[c] # "connect"
    /\ Returned /\ failures = MaxFailures => \A c \in Clients : data[c] = "served" /\ closes[c] = 1

(***************************************************************************)
(* sync_wait returns, also when a client or a worker fails.  Three         *)
(* ways to hang are left: an accept that fails ends the loop without a     *)
(* stop while clients wait for their echo; a stop does not wake next();    *)
(* and a next() that throws leaves the channel of its workers open.        *)
(***************************************************************************)
SyncWaitReturns ==
    <>(\/ Returned
       \/ kind = "pool" /\ acceptFailed
       \/ kind = "multishot" /\ stop)
=============================================================================
