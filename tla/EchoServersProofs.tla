-------------------------- MODULE EchoServersProofs --------------------------
(***************************************************************************)
(* Proofs about EchoServers for any number of clients and workers, any     *)
(* capacity of the channel and any number of failing operations.           *)
(***************************************************************************)
EXTENDS EchoServers, FiniteSetTheorems, TLAPS

(* What a queue holds, and that it holds nothing twice. *)
Elems(s) == {s[i] : i \in 1..Len(s)}
Once(s) == \A i, j \in 1..Len(s) : s[i] = s[j] => i = j

Types ==
    /\ kind \in {"pool", "multishot", "file"} /\ stop \in BOOLEAN /\ listening \in BOOLEAN
    /\ backlog \in Seq(Clients) /\ queue \in Seq(Clients) /\ closed \in BOOLEAN
    /\ apc \in {"accept", "next", "push", "done"} /\ accepted \in Clients \cup {Nobody}
    /\ wpc \in [Workers -> {"pop", "open", "recv", "close", "done", "failed"}]
    /\ conn \in [Workers -> Clients \cup {Nobody}] /\ last \in Workers \cup {Nobody}
    /\ count \in Nat /\ cpc \in [Clients -> {"connect", "send", "recv", "done"}]
    /\ data \in [Clients -> {"none", "sent", "served"}] /\ closes \in [Clients -> {0, 1}]
    /\ failures \in Nat /\ failures <= MaxFailures

(***************************************************************************)
(* The life of a connection: it waits in the backlog, is in the hands of   *)
(* the accept loop, waits in conn_ch, is in the hands of a worker and has  *)
(* been closed.  It is at one of these stages, and at none before the      *)
(* client has connected.                                                   *)
(***************************************************************************)
InLoop == {accepted} \ {Nobody}
Holding(h) == {h[w] : w \in Workers} \ {Nobody}
Hands == [Workers -> Clients \cup {Nobody}]
Alone(h) == \A v, w \in Workers : h[v] = h[w] /\ h[v] # Nobody => v = w
AtWorkers == Holding(conn)
Gone == {c \in Clients : closes[c] # 0}
Unconnected == {c \in Clients : cpc[c] = "connect"}
Apart(N, B, L, Q, W, G) ==
    /\ N \cap (B \cup L \cup Q \cup W \cup G) = {} /\ B \cap (L \cup Q \cup W \cup G) = {}
    /\ L \cap (Q \cup W \cup G) = {} /\ Q \cap (W \cup G) = {} /\ W \cap G = {}
OneOwner ==
    /\ Once(backlog) /\ Once(queue) /\ Alone(conn)
    /\ Apart(Unconnected, Elems(backlog), InLoop, Elems(queue), AtWorkers, Gone)

(* Where the loop and a worker stand and what they hold; a worker that is  *)
(* done has seen the channel closed and empty, as it stays.                *)
Standing ==
    /\ apc = "push" <=> accepted # Nobody
    /\ closed => apc = "done"
    /\ \A w \in Workers :
          /\ wpc[w] \in {"pop", "done"} <=> conn[w] = Nobody
          /\ wpc[w] = "done" => closed /\ queue = <<>>
          /\ wpc[w] = "open" => kind = "file"
          /\ wpc[w] = "failed" => kind # "pool"

(* echo_to_file: an id for each connection popped; the last one shuts the listener. *)
Counted ==
    kind = "file" =>
        /\ count = Cardinality(AtWorkers \cup Gone)
        /\ last # Nobody \/ (~listening) => count = Cardinality(Clients)
        /\ \A c \in Clients : cpc[c] # "recv"

(* The other servers: a client that counts itself is done, and the last    *)
(* one to do so shuts the listener.                                        *)
Finished == {c \in Clients : cpc[c] = "done"}
Tallied ==
    kind # "file" =>
        /\ last = Nobody /\ count <= Cardinality(Finished)
        /\ ~listening => Cardinality(Clients) <= count

(***************************************************************************)
(* Without a failure: nobody is stopped, the loop is left only after the   *)
(* shutdown of the listener, and a connection is closed only when its      *)
(* client is done and has been served.                                     *)
(***************************************************************************)
Orderly ==
    failures = MaxFailures =>
        /\ ~stop /\ (apc = "done" => ~listening)
        /\ \A w \in Workers :
              /\ wpc[w] # "failed"
              /\ wpc[w] = "close" => cpc[conn[w]] = "done" /\ data[conn[w]] = "served"
        /\ \A c \in Clients :
              /\ c \in Gone => cpc[c] = "done" /\ data[c] = "served"
              /\ cpc[c] \in {"connect", "send"} => data[c] = "none"
              /\ data[c] = "served" => c \in AtWorkers \cup Gone
              /\ cpc[c] = "done" /\ kind # "file" => data[c] = "served"

IInv == Types /\ OneOwner /\ Standing /\ Counted /\ Tallied /\ Orderly

-----------------------------------------------------------------------------
(* What a push does to a queue that does not hold the element yet. *)
LEMMA PushOnce ==
    ASSUME NEW s \in Seq(Clients), NEW e \in Clients, Once(s), e \notin Elems(s)
    PROVE  /\ Append(s, e) \in Seq(Clients) /\ Once(Append(s, e))
           /\ Elems(Append(s, e)) = Elems(s) \cup {e}
  <1> DEFINE t == Append(s, e)
  <1>1. /\ Len(s) \in Nat /\ t \in Seq(Clients) /\ Len(t) = Len(s) + 1 /\ t[Len(s) + 1] = e
        /\ \A i \in 1..Len(s) : t[i] = s[i]
    OBVIOUS
  <1> HIDE DEF t
  <1>2. ASSUME NEW i \in 1..Len(t)
        PROVE  \/ i = Len(s) + 1 /\ t[i] = e
               \/ i \in 1..Len(s) /\ t[i] = s[i] /\ t[i] # e
    <2>1. i = Len(s) + 1 \/ i \in 1..Len(s)
      BY <1>1
    <2>2. CASE i \in 1..Len(s)
      BY <1>1, <2>2 DEF Elems
    <2> QED
      BY <1>1, <2>1, <2>2
  <1>3. Len(s) + 1 \in 1..Len(t) /\ \A i \in 1..Len(s) : i \in 1..Len(t)
    BY <1>1
  <1>4. Once(t)
    BY <1>2 DEF Once
  <1>5. Elems(t) = Elems(s) \cup {e}
    BY <1>1, <1>2, <1>3 DEF Elems
  <1> QED
    BY <1>1, <1>4, <1>5 DEF t

(* What a pop does to a queue. *)
LEMMA PopOnce ==
    ASSUME NEW S, NEW s \in Seq(S), s # <<>>, Once(s)
    PROVE  /\ Head(s) \in S /\ Head(s) \in Elems(s) /\ Tail(s) \in Seq(S) /\ Once(Tail(s))
           /\ Elems(Tail(s)) = Elems(s) \ {Head(s)}
  <1> DEFINE t == Tail(s)
             e == Head(s)
  <1>1. /\ Len(s) \in Nat \ {0} /\ t \in Seq(S) /\ Len(t) = Len(s) - 1 /\ e = s[1] /\ e \in S
        /\ \A i \in 1..Len(t) : t[i] = s[i + 1]
    OBVIOUS
  <1> HIDE DEF t, e
  <1>2. ASSUME NEW i \in 1..Len(t)
        PROVE  i \in Int /\ i + 1 \in 1..Len(s) /\ t[i] = s[i + 1] /\ i + 1 # 1
    <2>1. i \in Int /\ i + 1 \in 1..Len(s) /\ i + 1 # 1
      BY <1>1
    <2> QED
      BY <1>1, <2>1
  <1>3. ASSUME NEW i \in 1..Len(s), i # 1 PROVE \E j \in 1..Len(t) : t[j] = s[i]
    <2>1. i - 1 \in 1..Len(t) /\ i - 1 + 1 = i
      BY <1>1, <1>3
    <2> QED
      BY Zenon, <1>2, <2>1
  <1>4. 1 \in 1..Len(s)
    BY <1>1
  <1>5. Once(t)
    <2> SUFFICES ASSUME NEW i \in 1..Len(t), NEW j \in 1..Len(t), t[i] = t[j] PROVE i = j
      BY DEF Once
    <2>1. i + 1 = j + 1
      BY <1>2 DEF Once
    <2> QED
      BY <1>2, <2>1
  <1>6. ASSUME NEW i \in 1..Len(t) PROVE t[i] \in Elems(s) \ {e}
    BY <1>1, <1>2, <1>4 DEF Elems, Once
  <1>7. ASSUME NEW i \in 1..Len(s), s[i] # e PROVE s[i] \in Elems(t)
    BY Zenon, <1>1, <1>3, <1>7 DEF Elems
  <1>8. Elems(t) = Elems(s) \ {e} /\ e \in Elems(s)
    <2>1. Elems(t) \subseteq Elems(s) \ {e}
      BY Zenon, <1>6 DEF Elems
    <2>2. Elems(s) \ {e} \subseteq Elems(t)
      BY Zenon, <1>7 DEF Elems
    <2>3. e \in Elems(s)
      BY Zenon, <1>1, <1>4 DEF Elems
    <2> QED
      BY <2>1, <2>2, <2>3
  <1> QED
    BY <1>1, <1>5, <1>8 DEF t, e

(* A worker takes a connection that no other one has. *)
LEMMA TakeAlone ==
    ASSUME NEW h \in Hands, NEW w \in Workers, NEW c \in Clients,
           h[w] = Nobody, c \notin Holding(h), Alone(h)
    PROVE  /\ Alone([h EXCEPT ![w] = c])
           /\ Holding([h EXCEPT ![w] = c]) = Holding(h) \cup {c}
  <1> DEFINE k == [h EXCEPT ![w] = c]
  <1>1. k[w] = c /\ \A v \in Workers : v # w => k[v] = h[v]
    BY DEF Hands
  <1>2. c # Nobody
    BY ServerAssumption
  <1> HIDE DEF k
  <1>3. Alone(k)
    BY <1>1 DEF Alone, Holding
  <1>4. Holding(k) \subseteq Holding(h) \cup {c}
    BY <1>1 DEF Holding
  <1>5. Holding(h) \cup {c} \subseteq Holding(k)
    BY <1>1, <1>2 DEF Holding
  <1> QED
    BY Zenon, <1>3, <1>4, <1>5 DEF k

(* A worker gives its connection up. *)
LEMMA DropAlone ==
    ASSUME NEW h \in Hands, NEW w \in Workers, h[w] # Nobody, Alone(h)
    PROVE  /\ Alone([h EXCEPT ![w] = Nobody])
           /\ h[w] \in Holding(h) /\ Holding([h EXCEPT ![w] = Nobody]) = Holding(h) \ {h[w]}
  <1> DEFINE k == [h EXCEPT ![w] = Nobody]
  <1>1. k[w] = Nobody /\ \A v \in Workers : v # w => k[v] = h[v]
    BY DEF Hands
  <1> HIDE DEF k
  <1>2. Alone(k)
    BY <1>1 DEF Alone
  <1>3. h[w] \in Holding(h)
    BY DEF Holding
  <1>4. Holding(k) \subseteq Holding(h) \ {h[w]}
    BY <1>1 DEF Holding, Alone
  <1>5. Holding(h) \ {h[w]} \subseteq Holding(k)
    BY <1>1 DEF Holding
  <1> QED
    BY Zenon, <1>2, <1>3, <1>4, <1>5 DEF k

-----------------------------------------------------------------------------
(* The invariant holds at the start: no client has connected and nothing is counted. *)
LEMMA InitInv == Init => IInv
  <1> SUFFICES ASSUME Init PROVE IInv
    OBVIOUS
  <1>1. Types
    <2>1. /\ failures \in Nat /\ failures <= MaxFailures /\ count \in Nat
          /\ backlog \in Seq(Clients) /\ queue \in Seq(Clients)
      BY ServerAssumption DEF Init, ConnCh!Init
    <2> QED
      BY Zenon, <2>1 DEF Init, ConnCh!Init, Types
  <1>2. Elems(backlog) = {} /\ Elems(queue) = {} /\ Once(backlog) /\ Once(queue)
    BY DEF Init, ConnCh!Init, Elems, Once
  <1>3. InLoop = {} /\ AtWorkers = {} /\ Gone = {} /\ Alone(conn)
    BY Zenon DEF Init, InLoop, AtWorkers, Holding, Gone, Alone
  <1>4. OneOwner
    BY <1>2, <1>3 DEF OneOwner, Apart
  <1>5. Standing
    BY DEF Init, ConnCh!Init, Standing
  <1>6. Counted
    <2>1. Cardinality(AtWorkers \cup Gone) = 0
      BY <1>3, FS_EmptySet
    <2> QED
      BY <2>1 DEF Init, Counted
  <1>7. Orderly
    BY Zenon, <1>3 DEF Init, Orderly
  <1>8. Tallied
    <2>1. Finished = {}
      BY DEF Init, Finished
    <2>2. Cardinality(Finished) = 0
      BY Zenon, <2>1, FS_EmptySet
    <2>3. 0 <= 0
      OBVIOUS
    <2> QED
      BY Zenon, <2>2, <2>3 DEF Init, Tallied
  <1> QED
    BY Zenon, <1>1, <1>4, <1>5, <1>6, <1>7, <1>8 DEF IInv

(* The connection a busy worker holds is a client's, not closed yet. *)
LEMMA Busy ==
    ASSUME IInv, NEW w \in Workers, wpc[w] \notin {"pop", "done"}
    PROVE  /\ conn[w] \in Clients /\ conn[w] # Nobody /\ conn[w] \in AtWorkers
           /\ closes[conn[w]] = 0
  <1>1. conn[w] # Nobody /\ conn[w] \in Clients
    BY DEF IInv, Standing, Types
  <1>2. conn[w] \in AtWorkers
    BY Zenon, <1>1 DEF AtWorkers, Holding
  <1>3. conn[w] \notin Gone
    BY Zenon, <1>2 DEF IInv, OneOwner, Apart
  <1> QED
    BY <1>1, <1>2, <1>3 DEF Gone

(* What the steps that use the channel do to it. *)
LEMMA ChannelSteps ==
    /\ \A w \in Workers : Pop(w) =>
          /\ queue # <<>> /\ queue' = Tail(queue) /\ closed' = closed
          /\ Head(queue) \in Clients /\ conn' = [conn EXCEPT ![w] = Head(queue)]
    /\ \A w \in Workers : PopClosed(w) => closed /\ queue = <<>> /\ UNCHANGED <<queue, closed>>
    /\ PushConnection => ~closed /\ queue' = Append(queue, accepted) /\ closed' = closed
  BY DEF Pop, PopClosed, PushConnection, ConnCh!Pop, ConnCh!PopClosed, ConnCh!Push

(* A failure that is counted leaves fewer of them. *)
LEMMA FailureSteps ==
    ASSUME Types
    PROVE  /\ Failing => /\ stop' = TRUE /\ stop' \in BOOLEAN
                         /\ failures' \in Nat /\ failures' <= MaxFailures
           /\ Failing /\ Fail /\ ~stop => failures' # MaxFailures
           /\ Failing /\ failures' = MaxFailures => failures = MaxFailures
           /\ failures > 0 /\ failures' = failures - 1 =>
                 failures' \in Nat /\ failures' <= MaxFailures /\ failures' # MaxFailures
  <1>1. failures \in Nat /\ failures <= MaxFailures /\ MaxFailures \in Nat
    BY Zenon, ServerAssumption DEF Types
  <1>2. ASSUME failures > 0, failures' = failures - 1
        PROVE  failures' \in Nat /\ failures' <= MaxFailures /\ failures' # MaxFailures
    BY <1>1, <1>2
  <1>3. ASSUME Failing
        PROVE  \/ failures' = failures /\ (stop \/ failures = 0)
               \/ failures > 0 /\ failures' = failures - 1 /\ ~stop
    <2>1. failures = 0 \/ failures > 0
      BY <1>1
    <2> QED
      BY Zenon, <1>3, <2>1 DEF Failing
  <1>4. ~(0 > 0)
    BY SMTT(60)
  <1> QED
    BY Zenon, <1>1, <1>2, <1>3, <1>4 DEF Failing, Fail

-----------------------------------------------------------------------------
(* Every step is one of these. *)
LEMMA Steps ==
    ASSUME [Next]_vars
    PROVE  \/ Accept \/ NextSuspends \/ AcceptEnds \/ AcceptFails \/ NextThrows \/ PushConnection
           \/ \E c \in Clients : Connect(c) \/ Send(c) \/ RecvAndCount(c) \/ ClientFails(c)
           \/ \E w \in Workers : \/ Pop(w) \/ PopClosed(w) \/ OpenLog(w) \/ OpenFails(w) \/ Serve(w)
                                 \/ EndOfStream(w) \/ ServeFails(w) \/ CloseConnection(w)
                                 \/ CloseFails(w)
           \/ UNCHANGED vars
  BY Zenon DEF Next, AcceptStep, ClientStep, WorkerStep

(* Types are kept; that closes stays below 2 needs the owner of the connection. *)
LEMMA TypesStep == IInv /\ [Next]_vars => Types'
  <1> SUFFICES ASSUME IInv, [Next]_vars PROVE Types'
    OBVIOUS
  <1>1. Types
    BY Zenon DEF IInv
  <1>2. ASSUME Accept PROVE Types'
    <2>1. Head(backlog) \in Clients /\ Tail(backlog) \in Seq(Clients)
      BY <1>1, <1>2 DEF Types, Accept
    <2> QED
      BY Zenon, <1>1, <1>2, <2>1 DEF Types, Accept, config, workerVars
  <1>3. ASSUME NextSuspends \/ AcceptEnds PROVE Types'
    BY Zenon, <1>1, <1>3 DEF Types, NextSuspends, AcceptEnds, LeaveLoop, config, socketVars, workerVars
  <1>4. ASSUME AcceptFails \/ NextThrows PROVE Types'
    <2>1. failures' \in Nat /\ failures' <= MaxFailures /\ stop' \in BOOLEAN
      BY Zenon, <1>1, <1>4, FailureSteps DEF Types, AcceptFails, NextThrows
    <2> QED
      BY Zenon, <1>1, <1>4, <2>1 DEF Types, AcceptFails, NextThrows, LeaveLoop, config, socketVars,
         workerVars
  <1>5. ASSUME PushConnection PROVE Types'
    <2>1. accepted \in Clients
      BY Zenon, <1>1, <1>5 DEF Types, PushConnection, IInv, Standing
    <2>2. queue' = Append(queue, accepted) /\ closed' = closed /\ queue \in Seq(Clients)
      BY Zenon, <1>1, <1>5, ChannelSteps DEF Types
    <2>3. queue' \in Seq(Clients)
      BY <2>1, <2>2
    <2> QED
      BY Zenon, <1>1, <1>5, <2>2, <2>3 DEF Types, PushConnection, config, socketVars, workerVars
  <1>6. ASSUME NEW c \in Clients, Connect(c) PROVE Types'
    <2>1. backlog' \in Seq(Clients)
      BY <1>1, <1>6 DEF Types, Connect
    <2>2. cpc' \in [Clients -> {"connect", "send", "recv", "done"}]
      BY <1>1, <1>6 DEF Types, Connect
    <2> QED
      BY Zenon, <1>1, <1>6, <2>1, <2>2 DEF Types, Connect, config, acceptVars, workerVars
  <1>7. ASSUME NEW c \in Clients, Send(c) \/ RecvAndCount(c) PROVE Types'
    <2>1. /\ cpc' \in [Clients -> {"connect", "send", "recv", "done"}]
          /\ data' \in [Clients -> {"none", "sent", "served"}]
      BY Zenon, <1>1, <1>7 DEF Types, Send, RecvAndCount
    <2>2. count' \in Nat
      <3>1. count \in Nat /\ (count' = count \/ count' = count + 1)
        BY Zenon, <1>1, <1>7 DEF Types, Send, RecvAndCount
      <3> QED
        BY <3>1
    <2>3. listening' \in BOOLEAN
      BY Zenon, <1>1, <1>7 DEF Types, Send, RecvAndCount, socketVars
    <2> QED
      BY ZenonT(60), <1>1, <1>7, <2>1, <2>2, <2>3 DEF Types, Send, RecvAndCount, config, acceptVars, workerVars,
         socketVars
  <1>8. ASSUME NEW c \in Clients, ClientFails(c) PROVE Types'
    <2>1. cpc' \in [Clients -> {"connect", "send", "recv", "done"}]
      BY <1>1, <1>8 DEF Types, ClientFails
    <2>2. failures' \in Nat /\ failures' <= MaxFailures /\ stop' \in BOOLEAN
      BY Zenon, <1>1, <1>8, FailureSteps DEF Types, ClientFails
    <2> QED
      BY Zenon, <1>1, <1>8, <2>1, <2>2 DEF Types, ClientFails, config, acceptVars, workerVars,
         socketVars
  <1>9. ASSUME NEW w \in Workers, Pop(w) PROVE Types'
    <2>1. /\ queue' \in Seq(Clients) /\ conn' \in [Workers -> Clients \cup {Nobody}]
          /\ closed' = closed
      <3>1. /\ queue \in Seq(Clients) /\ queue # <<>> /\ queue' = Tail(queue) /\ closed' = closed
            /\ Head(queue) \in Clients /\ conn' = [conn EXCEPT ![w] = Head(queue)]
            /\ conn \in [Workers -> Clients \cup {Nobody}]
        BY Zenon, <1>1, <1>9, ChannelSteps DEF Types
      <3> QED
        BY <3>1
    <2>2. /\ wpc' \in [Workers -> {"pop", "open", "recv", "close", "done", "failed"}]
          /\ last' \in Workers \cup {Nobody}
      BY Zenon, <1>1, <1>9 DEF Types, Pop
    <2>3. count' \in Nat
      BY SMTT(60), <1>1, <1>9 DEF Types, Pop
    <2> QED
      BY Zenon, <1>1, <1>9, <2>1, <2>2, <2>3 DEF Types, Pop, config, acceptVars, socketVars
  <1>10. ASSUME NEW w \in Workers,
                PopClosed(w) \/ OpenLog(w) \/ OpenFails(w) \/ EndOfStream(w) \/ ServeFails(w)
                \/ CloseFails(w)
         PROVE  Types'
    <2>1. wpc' \in [Workers -> {"pop", "open", "recv", "close", "done", "failed"}]
      BY ZenonT(60), <1>1, <1>10 DEF Types, PopClosed, OpenLog, OpenFails, EndOfStream, ServeFails, CloseFails
    <2>2. failures' \in Nat /\ failures' <= MaxFailures /\ stop' \in BOOLEAN
      BY Zenon, <1>1, <1>10, FailureSteps
         DEF Types, PopClosed, OpenLog, OpenFails, EndOfStream, ServeFails, CloseFails
    <2>3. queue' = queue /\ closed' = closed
      BY Zenon, <1>10, ChannelSteps DEF OpenLog, OpenFails, EndOfStream, ServeFails, CloseFails
    <2> QED
      BY ZenonT(60), <1>1, <1>10, <2>1, <2>2, <2>3 DEF Types, PopClosed, OpenLog, OpenFails, EndOfStream,
         ServeFails, CloseFails, config, acceptVars, socketVars
  <1>11. ASSUME NEW w \in Workers, Serve(w) PROVE Types'
    <2>1. data' \in [Clients -> {"none", "sent", "served"}]
      BY Zenon, <1>1, <1>11 DEF Types, Serve
    <2> QED
      BY Zenon, <1>1, <1>11, <2>1 DEF Types, Serve, config, acceptVars, socketVars, workerVars
  <1>12. ASSUME NEW w \in Workers, CloseConnection(w) PROVE Types'
    <2>1. conn[w] \in Clients /\ closes[conn[w]] = 0
      BY <1>12, Busy DEF CloseConnection
    <2>2. closes' \in [Clients -> {0, 1}]
      BY <1>1, <1>12, <2>1 DEF Types, CloseConnection, Closed
    <2>3. /\ wpc' \in [Workers -> {"pop", "open", "recv", "close", "done", "failed"}]
          /\ conn' \in [Workers -> Clients \cup {Nobody}] /\ listening' \in BOOLEAN
      BY <1>1, <1>12 DEF Types, CloseConnection
    <2> QED
      BY ZenonT(60), <1>1, <1>12, <2>2, <2>3 DEF Types, CloseConnection, config, acceptVars
  <1>13. ASSUME UNCHANGED vars PROVE Types'
    BY Zenon, <1>1, <1>13 DEF Types, vars
  <1> QED
    BY Zenon, <1>2, <1>3, <1>4, <1>5, <1>6, <1>7, <1>8, <1>9, <1>10, <1>11, <1>12, <1>13, Steps

-----------------------------------------------------------------------------
(* A connection passes from one stage of its life to the next. *)
LEMMA Passes ==
    ASSUME NEW N, NEW B, NEW L, NEW Q, NEW W, NEW G, NEW c, Apart(N, B, L, Q, W, G)
    PROVE  /\ c \in N => Apart(N \ {c}, B \cup {c}, L, Q, W, G)
           /\ c \in B => Apart(N, B \ {c}, L \cup {c}, Q, W, G)
           /\ c \in L => Apart(N, B, L \ {c}, Q \cup {c}, W, G)
           /\ c \in Q => Apart(N, B, L, Q \ {c}, W \cup {c}, G)
           /\ c \in W => Apart(N, B, L, Q, W \ {c}, G \cup {c})
           /\ Apart(N \ {c}, B, L, Q, W, G)
  BY DEF Apart

(* What a client's step does to the set of the clients not connected. *)
LEMMA Connecting ==
    ASSUME Types, NEW c \in Clients, NEW l \in {"send", "recv", "done"}, cpc' = [cpc EXCEPT ![c] = l]
    PROVE  Unconnected' = Unconnected \ {c}
  BY DEF Types, Unconnected

(* A step that leaves the connections where they are. *)
LEMMA OwnersStay ==
    ASSUME OneOwner, UNCHANGED <<backlog, queue, accepted, conn, closes>>,
           Unconnected' = Unconnected \/ \E c \in Clients : Unconnected' = Unconnected \ {c}
    PROVE  OneOwner'
  <1>1. /\ Elems(backlog)' = Elems(backlog) /\ Elems(queue)' = Elems(queue)
        /\ Once(backlog)' /\ Once(queue)' /\ Alone(conn)'
        /\ AtWorkers' = AtWorkers /\ InLoop' = InLoop /\ Gone' = Gone
    BY Zenon DEF OneOwner, AtWorkers, InLoop, Gone
  <1>2. Apart(Unconnected, Elems(backlog), InLoop, Elems(queue), AtWorkers, Gone)
    BY ZenonT(60) DEF OneOwner
  <1>3. ASSUME NEW c
        PROVE  Apart(Unconnected \ {c}, Elems(backlog), InLoop, Elems(queue), AtWorkers, Gone)
    BY Zenon, <1>2, Passes
  <1> QED
    BY Zenon, <1>1, <1>2, <1>3 DEF OneOwner

(* A step that takes a connection from one stage of its life adds it to one other. *)
LEMMA OwnerStep == IInv /\ [Next]_vars => OneOwner'
  <1> SUFFICES ASSUME IInv, [Next]_vars PROVE OneOwner'
    OBVIOUS
  <1>1. Types /\ OneOwner /\ Standing
    BY Zenon DEF IInv
  <1> DEFINE N == Unconnected
             B == Elems(backlog)
             Q == Elems(queue)
             W == AtWorkers
  <1>2. /\ Once(backlog) /\ Once(queue) /\ Alone(conn) /\ Apart(N, B, InLoop, Q, W, Gone)
        /\ backlog \in Seq(Clients) /\ queue \in Seq(Clients)
        /\ conn \in Hands
    BY Zenon, <1>1 DEF OneOwner, Types, Hands
  <1>3. Nobody \notin Clients
    BY Zenon, ServerAssumption
  <1>4. cpc' = cpc => Unconnected' = Unconnected
    BY Zenon DEF Unconnected
  <1>5. ASSUME Accept PROVE OneOwner'
    <2> DEFINE c == Head(backlog)
    <2>1. /\ backlog # <<>> /\ backlog' = Tail(backlog) /\ accepted' = c /\ accepted = Nobody
          /\ UNCHANGED <<queue, conn, cpc, closes>>
      BY <1>1, <1>5 DEF Accept, workerVars, Standing
    <2>2. /\ c \in Clients /\ c \in B /\ Once(backlog')
          /\ Elems(backlog') = B \ {c}
      BY ZenonT(60), <1>2, <2>1, PopOnce
    <2> HIDE DEF c
    <2>3. InLoop' = InLoop \cup {c}
      BY <1>3, <2>1, <2>2 DEF InLoop
    <2>4. Apart(N, B \ {c}, InLoop \cup {c}, Q, W, Gone)
      BY Zenon, <1>2, <2>2, Passes
    <2>5. /\ Unconnected' = N /\ Elems(queue)' = Q /\ AtWorkers' = W /\ Gone' = Gone
          /\ Once(queue)' /\ Alone(conn)'
      BY ZenonT(60), <1>2, <1>4, <2>1 DEF AtWorkers, Gone
    <2> HIDE DEF N, B, Q, W
    <2> QED
      BY Zenon, <2>2, <2>3, <2>4, <2>5 DEF OneOwner
  <1>6. ASSUME PushConnection PROVE OneOwner'
    <2> DEFINE c == accepted
    <2>1. /\ queue' = Append(queue, c) /\ accepted' = Nobody /\ accepted # Nobody
          /\ UNCHANGED <<backlog, conn, cpc, closes>>
      BY Zenon, <1>1, <1>6, ChannelSteps DEF PushConnection, socketVars, workerVars, Standing
    <2>2. c \in Clients /\ c \in InLoop /\ InLoop' = InLoop \ {c}
      BY Zenon, <1>1, <2>1 DEF Types, InLoop
    <2>3. c \notin Q
      BY Zenon, <1>2, <2>2 DEF Apart
    <2> HIDE DEF c
    <2>4. Once(queue') /\ Elems(queue') = Q \cup {c}
      BY <1>2, <2>1, <2>2, <2>3, PushOnce
    <2>5. Apart(N, B, InLoop \ {c}, Q \cup {c}, W, Gone)
      BY ZenonT(60), <1>2, <2>2, Passes
    <2>6. Unconnected' = N /\ Elems(backlog)' = B /\ AtWorkers' = W /\ Gone' = Gone
      BY Zenon, <1>4, <2>1 DEF AtWorkers, Gone
    <2> QED
      BY Zenon, <1>2, <2>1, <2>2, <2>4, <2>5, <2>6 DEF OneOwner
  <1>7. ASSUME NEW c \in Clients, Connect(c) PROVE OneOwner'
    <2>1. /\ backlog' = Append(backlog, c) /\ cpc[c] = "connect" /\ cpc' = [cpc EXCEPT ![c] = "send"]
          /\ UNCHANGED <<queue, accepted, conn, closes>>
      BY Zenon, <1>7 DEF Connect, acceptVars, workerVars
    <2>2. c \in N /\ Unconnected' = N \ {c}
      BY Zenon, <1>1, <2>1, Connecting DEF Unconnected
    <2>3. c \notin B
      BY Zenon, <1>2, <2>2 DEF Apart
    <2>4. Once(backlog') /\ Elems(backlog') = B \cup {c}
      <3>1. Once(backlog) /\ backlog \in Seq(Clients) /\ c \notin Elems(backlog)
        BY Zenon, <1>2, <2>3
      <3>2. Once(Append(backlog, c)) /\ Elems(Append(backlog, c)) = Elems(backlog) \cup {c}
        BY ZenonT(60), <3>1, PushOnce
      <3> QED
        BY Zenon, <2>1, <3>2
    <2>5. Apart(N \ {c}, B \cup {c}, InLoop, Q, W, Gone)
      BY ZenonT(60), <1>2, <2>2, Passes
    <2> QED
      BY Zenon, <1>2, <2>1, <2>2, <2>4, <2>5 DEF OneOwner, AtWorkers, Gone, InLoop
  <1>8. ASSUME NEW w \in Workers, Pop(w) PROVE OneOwner'
    <2> DEFINE c == Head(queue)
    <2>1. /\ queue # <<>> /\ queue' = Tail(queue) /\ conn' = [conn EXCEPT ![w] = c]
          /\ wpc[w] = "pop" /\ UNCHANGED <<backlog, accepted, cpc, closes>>
      BY Zenon, <1>8, ChannelSteps DEF Pop, socketVars, acceptVars
    <2>2. conn[w] = Nobody
      BY <1>1, <2>1 DEF Standing
    <2>3. /\ c \in Clients /\ c \in Q /\ Once(queue')
          /\ Elems(queue') = Q \ {c}
      BY Zenon, <1>2, <2>1, PopOnce
    <2> HIDE DEF c
    <2>4. c \notin W
      BY Zenon, <1>2, <2>3 DEF Apart
    <2>5. Alone(conn') /\ Holding(conn') = W \cup {c}
      BY ZenonT(60), <1>2, <2>1, <2>2, <2>3, <2>4, TakeAlone DEF AtWorkers
    <2>6. Apart(N, B, InLoop, Q \ {c}, W \cup {c}, Gone)
      BY Zenon, <1>2, <2>3, Passes
    <2> QED
      BY Zenon, <1>2, <1>4, <2>1, <2>3, <2>5, <2>6 DEF OneOwner, AtWorkers, Gone, InLoop
  <1>9. ASSUME NEW w \in Workers, CloseConnection(w) PROVE OneOwner'
    <2> DEFINE c == conn[w]
    <2>1. /\ conn' = [conn EXCEPT ![w] = Nobody] /\ closes' = [closes EXCEPT ![c] = @ + 1]
          /\ wpc[w] = "close" /\ UNCHANGED <<backlog, queue, accepted, cpc>>
      BY Zenon, <1>9 DEF CloseConnection, acceptVars, Closed
    <2>2. c \in Clients /\ c # Nobody /\ c \in W /\ closes[c] = 0
      BY <2>1, Busy
    <2>3. Gone' = Gone \cup {c}
      BY <1>1, <2>1, <2>2 DEF Gone, Types
    <2>4. Alone(conn') /\ Holding(conn') = W \ {c}
      BY ZenonT(60), <1>2, <2>1, <2>2, DropAlone DEF AtWorkers
    <2> HIDE DEF c
    <2>5. Apart(N, B, InLoop, Q, W \ {c}, Gone \cup {c})
      BY Zenon, <1>2, <2>2, Passes
    <2> QED
      BY ZenonT(60), <1>2, <1>4, <2>1, <2>3, <2>4, <2>5 DEF OneOwner, AtWorkers, InLoop
  <1>10. ASSUME NEW c \in Clients, Send(c) \/ RecvAndCount(c) \/ ClientFails(c) PROVE OneOwner'
    <2>1. Unconnected' = Unconnected \ {c}
      BY ZenonT(60), <1>1, <1>10, Connecting DEF Send, RecvAndCount, ClientFails
    <2> QED
      BY Zenon, <1>1, <1>10, <2>1, OwnersStay DEF Send, RecvAndCount, ClientFails, socketVars,
         acceptVars, workerVars
  <1>11. ASSUME NEW w \in Workers,
                PopClosed(w) \/ OpenLog(w) \/ OpenFails(w) \/ Serve(w) \/ EndOfStream(w) \/ ServeFails(w)
                \/ CloseFails(w)
         PROVE  OneOwner'
    <2>1. UNCHANGED <<backlog, queue, accepted, conn, closes, cpc>>
      BY Zenon, <1>11, ChannelSteps DEF PopClosed, OpenLog, OpenFails, Serve, EndOfStream, ServeFails,
         CloseFails, socketVars, acceptVars, workerVars
    <2> QED
      BY Zenon, <1>1, <1>4, <2>1, OwnersStay
  <1>12. ASSUME NextSuspends \/ AcceptEnds \/ AcceptFails \/ NextThrows \/ UNCHANGED vars
         PROVE  OneOwner'
    <2>1. UNCHANGED <<backlog, queue, accepted, conn, closes, cpc>>
      BY Zenon, <1>12 DEF NextSuspends, AcceptEnds, AcceptFails, NextThrows, socketVars, workerVars, vars
    <2> QED
      BY Zenon, <1>1, <1>4, <2>1, OwnersStay
  <1> QED
    BY Zenon, <1>5, <1>6, <1>7, <1>8, <1>9, <1>10, <1>11, <1>12, Steps

-----------------------------------------------------------------------------
(* What a worker's step does to its place, and leaves alone. *)
LEMMA WorkerEffect ==
    ASSUME Types, NEW w \in Workers, NEW l \in {"pop", "open", "recv", "close", "done", "failed"},
           wpc' = [wpc EXCEPT ![w] = l]
    PROVE  wpc'[w] = l /\ \A v \in Workers : v # w => wpc'[v] = wpc[v]
  BY DEF Types

(* The part of Standing that is about one worker. *)
Stands(label, c) ==
    /\ label \in {"pop", "done"} <=> c = Nobody
    /\ label = "done" => closed /\ queue = <<>>
    /\ label = "open" => kind = "file"
    /\ label = "failed" => kind # "pool"

(* What the loop and the workers hold agrees with where they stand, after every step. *)
LEMMA StandingStep == IInv /\ [Next]_vars => Standing'
  <1> SUFFICES ASSUME IInv, [Next]_vars PROVE Standing'
    OBVIOUS
  <1>1. Types /\ Standing /\ \A w \in Workers : Stands(wpc[w], conn[w])
    BY Zenon DEF IInv, Standing, Stands
  <1>2. SUFFICES /\ (apc = "push" <=> accepted # Nobody)' /\ (closed => apc = "done")'
                 /\ \A w \in Workers : Stands(wpc[w], conn[w])'
    BY Zenon DEF Standing, Stands
  <1> DEFINE Goal == /\ (apc = "push" <=> accepted # Nobody)' /\ (closed => apc = "done")'
                     /\ \A w \in Workers : Stands(wpc[w], conn[w])'
  <1>3. ASSUME UNCHANGED <<kind, queue, wpc, conn>>, closed => closed'
        PROVE  \A w \in Workers : Stands(wpc[w], conn[w])'
    BY Zenon, <1>1, <1>3 DEF Stands
  <1>4. ASSUME Accept \/ NextSuspends \/ AcceptEnds \/ AcceptFails \/ NextThrows \/ UNCHANGED vars
        PROVE  Goal
    <2>1. UNCHANGED <<kind, queue, wpc, conn>>
      BY Zenon, <1>4 DEF Accept, NextSuspends, AcceptEnds, AcceptFails, NextThrows, socketVars, config,
         workerVars, vars
    <2>2. closed => closed'
      BY ZenonT(60), <1>4 DEF Accept, NextSuspends, AcceptEnds, AcceptFails, NextThrows, LeaveLoop, vars
    <2>3. (apc = "push" <=> accepted # Nobody)' /\ (closed => apc = "done")'
      <3>1. CASE Accept
        <4>1. accepted' \in Clients
          BY <1>1, <3>1 DEF Types, Accept
        <4>2. accepted' # Nobody
          BY Zenon, <4>1, ServerAssumption
        <4> QED
          BY Zenon, <1>1, <3>1, <4>2 DEF Accept, Standing
      <3>2. CASE NextSuspends \/ AcceptEnds \/ AcceptFails \/ NextThrows \/ UNCHANGED vars
        <4>1. \/ apc' = "done" /\ accepted' = accepted /\ apc \in {"accept", "next"}
              \/ apc' = "next" /\ apc = "accept" /\ UNCHANGED <<closed, accepted>>
              \/ UNCHANGED <<apc, closed, accepted>>
          BY Zenon, <3>2 DEF NextSuspends, AcceptEnds, AcceptFails, NextThrows, LeaveLoop, vars
        <4> QED
          BY <1>1, <4>1 DEF Standing
      <3> QED
        BY Zenon, <1>4, <3>1, <3>2
    <2> QED
      BY Zenon, <1>3, <2>1, <2>2, <2>3
  <1>5. ASSUME PushConnection PROVE Goal
    <2>1. /\ ~closed /\ ~closed' /\ UNCHANGED <<kind, wpc, conn>> /\ apc' = "accept"
          /\ accepted' = Nobody
      <3>1. ~closed /\ closed' = closed
        BY Zenon, <1>5, ChannelSteps
      <3> QED
        BY Zenon, <1>5, <3>1 DEF PushConnection, config, workerVars
    <2>2. (apc = "push" <=> accepted # Nobody)' /\ (closed => apc = "done")'
      BY <2>1
    <2>3. ASSUME NEW w \in Workers PROVE Stands(wpc[w], conn[w])'
      BY Zenon, <1>1, <2>1 DEF Stands
    <2> QED
      BY Zenon, <2>2, <2>3
  <1>6. ASSUME NEW c \in Clients, Connect(c) \/ Send(c) \/ RecvAndCount(c) \/ ClientFails(c)
        PROVE  Goal
    <2>1. UNCHANGED <<kind, queue, wpc, conn, closed, apc, accepted>>
      BY Zenon, <1>6 DEF Connect, Send, RecvAndCount, ClientFails, config, acceptVars, workerVars
    <2> QED
      BY ZenonT(60), <1>1, <1>3, <2>1 DEF Standing
  <1>7. ASSUME NEW w \in Workers,
               Pop(w) \/ PopClosed(w) \/ OpenLog(w) \/ OpenFails(w) \/ Serve(w) \/ EndOfStream(w)
               \/ ServeFails(w) \/ CloseConnection(w) \/ CloseFails(w)
        PROVE  Goal
    <2>1. UNCHANGED <<kind, closed, apc, accepted>>
      BY ZenonT(60), <1>7, ChannelSteps DEF Pop, PopClosed, OpenLog, OpenFails, Serve, EndOfStream, ServeFails,
         CloseConnection, CloseFails, config, acceptVars
    <2>2. queue' = queue \/ \A v \in Workers : wpc[v] # "done"
      BY Zenon, <1>1, <1>7, ChannelSteps DEF PopClosed, OpenLog, OpenFails, Serve, EndOfStream,
         ServeFails, CloseConnection, CloseFails, Stands
    <2>3. ASSUME NEW v \in Workers, v # w PROVE Stands(wpc[v], conn[v])'
      <3>1. wpc'[v] = wpc[v] /\ conn'[v] = conn[v]
        BY ZenonT(60), <1>1, <1>7, <2>3, ChannelSteps, WorkerEffect DEF Types, Pop, PopClosed, OpenLog,
           OpenFails, Serve, EndOfStream, ServeFails, CloseConnection, CloseFails, workerVars
      <3> QED
        BY Zenon, <1>1, <2>1, <2>2, <3>1 DEF Stands
    <2>4. Stands(wpc[w], conn[w])'
      <3>1. CASE Pop(w)
        <4>1. conn'[w] \in Clients
          BY Zenon, <1>1, <3>1, ChannelSteps DEF Types
        <4>2. conn'[w] # Nobody
          BY Zenon, <4>1, ServerAssumption
        <4>3. wpc'[w] = IF kind = "file" THEN "open" ELSE "recv"
          BY SMTT(60), <1>1, <3>1 DEF Pop, Types
        <4> QED
          BY SMTT(60), <2>1, <4>2, <4>3 DEF Stands
      <3>2. CASE PopClosed(w)
        <4>1. wpc'[w] = "done" /\ conn' = conn /\ conn[w] = Nobody /\ closed' /\ queue' = <<>>
          BY Zenon, <1>1, <2>1, <3>2, ChannelSteps DEF PopClosed, Types, Stands
        <4> QED
          BY <2>1, <4>1 DEF Stands
      <3>3. CASE OpenLog(w) \/ Serve(w) \/ EndOfStream(w) \/ ServeFails(w)
        <4>1. wpc'[w] \in {"recv", "close"} /\ conn' = conn /\ conn[w] # Nobody
          BY <1>1, <3>3 DEF OpenLog, Serve, EndOfStream, ServeFails, Types, Stands, workerVars
        <4> QED
          BY SMTT(60), <2>1, <4>1 DEF Stands
      <3>4. CASE OpenFails(w) \/ CloseFails(w)
        <4>1. wpc'[w] = "failed" /\ conn' = conn /\ conn[w] # Nobody /\ kind # "pool"
          BY <1>1, <3>4 DEF OpenFails, CloseFails, Types, Stands
        <4> QED
          BY <2>1, <4>1 DEF Stands
      <3>5. CASE CloseConnection(w)
        <4>1. wpc'[w] = "pop" /\ conn'[w] = Nobody
          BY <1>1, <3>5 DEF CloseConnection, Types
        <4> QED
          BY <2>1, <4>1 DEF Stands
      <3> QED
        BY Zenon, <1>7, <3>1, <3>2, <3>3, <3>4, <3>5
    <2> QED
      BY ZenonT(60), <1>1, <2>1, <2>3, <2>4 DEF Standing
  <1> QED
    BY Zenon, <1>4, <1>5, <1>6, <1>7, Steps

-----------------------------------------------------------------------------
(* The connections that a worker has or had. *)
Taken == AtWorkers \cup Gone

(* It is a finite set. *)
LEMMA TakenFinite ==
    ASSUME NEW T, T \subseteq Clients
    PROVE  /\ IsFiniteSet(T) /\ Cardinality(T) \in Nat /\ Cardinality(Clients) \in Nat
           /\ Cardinality(T) <= Cardinality(Clients)
           /\ Cardinality(T) = Cardinality(Clients) => T = Clients
  <1>1. IsFiniteSet(Clients)
    BY Zenon, ServerAssumption
  <1>2. IsFiniteSet(T) /\ Cardinality(T) <= Cardinality(Clients)
        /\ (Cardinality(T) = Cardinality(Clients) => T = Clients)
    BY Zenon, <1>1, FS_Subset
  <1> QED
    BY Zenon, <1>1, <1>2, FS_CardinalityType

(* The connections taken are clients', before and after a step. *)
LEMMA TakenType == /\ Types => Taken \subseteq Clients
                   /\ Types' => Taken' \subseteq Clients
  <1>1. ASSUME NEW h \in [Workers -> Clients \cup {Nobody}] PROVE Holding(h) \subseteq Clients
    BY DEF Holding
  <1>2. /\ Types => conn \in [Workers -> Clients \cup {Nobody}]
        /\ Types' => conn' \in [Workers -> Clients \cup {Nobody}]
    BY Zenon DEF Types
  <1>3. /\ Types => AtWorkers \subseteq Clients
        /\ Types' => AtWorkers' \subseteq Clients
    BY Zenon, <1>1, <1>2 DEF AtWorkers
  <1>4. Gone \subseteq Clients /\ Gone' \subseteq Clients
    BY Zenon DEF Gone
  <1> QED
    BY Zenon, <1>3, <1>4 DEF Taken

(* What becomes of it: a pop adds one, nothing else changes it. *)
LEMMA TakenStep ==
    ASSUME IInv, [Next]_vars
    PROVE  \/ \E w \in Workers : \E c \in Clients : Pop(w) /\ c \notin Taken /\ Taken' = Taken \cup {c}
           \/ Taken' = Taken /\ \A w \in Workers : ~Pop(w)
  <1>1. Types /\ OneOwner
    BY Zenon DEF IInv
  <1>2. Apart(Unconnected, Elems(backlog), InLoop, Elems(queue), AtWorkers, Gone)
    BY ZenonT(60), <1>1 DEF OneOwner
  <1>3. ASSUME NEW w \in Workers, Pop(w)
        PROVE  \E c \in Clients : c \notin Taken /\ Taken' = Taken \cup {c}
    <2> DEFINE c == Head(queue)
    <2>1. /\ queue # <<>> /\ queue \in Seq(Clients) /\ Once(queue)
          /\ conn' = [conn EXCEPT ![w] = c] /\ conn \in Hands
          /\ Alone(conn)
      BY Zenon, <1>1, <1>3, ChannelSteps DEF Types, OneOwner, Hands
    <2>2. conn[w] = Nobody /\ closes' = closes
      BY <1>3 DEF Pop, IInv, Standing
    <2>3. c \in Clients /\ c \in Elems(queue)
      BY Zenon, <2>1, PopOnce
    <2> HIDE DEF c
    <2>4. c \notin AtWorkers /\ c \notin Gone
      BY Zenon, <1>2, <2>3 DEF Apart
    <2>5. Holding(conn') = AtWorkers \cup {c}
      <3>1. /\ conn \in Hands /\ conn[w] = Nobody /\ Alone(conn)
            /\ c \in Clients /\ c \notin Holding(conn)
        BY Zenon, <2>1, <2>2, <2>3, <2>4 DEF AtWorkers
      <3>2. Holding([conn EXCEPT ![w] = c]) = Holding(conn) \cup {c}
        BY Zenon, <3>1, TakeAlone
      <3> QED
        BY Zenon, <2>1, <3>2 DEF AtWorkers
    <2>6. AtWorkers' = AtWorkers \cup {c} /\ Gone' = Gone
      BY Zenon, <2>2, <2>5 DEF AtWorkers, Gone
    <2>7. Taken' = Taken \cup {c}
      BY <2>6 DEF Taken
    <2> QED
      BY Zenon, <2>3, <2>4, <2>7 DEF Taken
  <1>4. ASSUME NEW w \in Workers, CloseConnection(w) PROVE Taken' = Taken
    <2> DEFINE c == conn[w]
    <2>1. /\ conn' = [conn EXCEPT ![w] = Nobody] /\ closes' = [closes EXCEPT ![c] = @ + 1]
          /\ wpc[w] = "close" /\ conn \in Hands /\ Alone(conn)
      BY ZenonT(60), <1>1, <1>4 DEF CloseConnection, Closed, Types, OneOwner, Hands
    <2>2. c \in Clients /\ c # Nobody /\ c \in AtWorkers /\ closes[c] = 0
      BY <2>1, Busy
    <2>3. Gone' = Gone \cup {c}
      BY <1>1, <2>1, <2>2 DEF Gone, Types
    <2>4. Holding(conn') = AtWorkers \ {c}
      BY Zenon, <2>1, <2>2, DropAlone DEF AtWorkers
    <2> HIDE DEF c
    <2>5. AtWorkers' = AtWorkers \ {c}
      BY Zenon, <2>4 DEF AtWorkers
    <2> QED
      BY <2>2, <2>3, <2>5 DEF Taken
  <1>5. ASSUME UNCHANGED <<conn, closes>> PROVE Taken' = Taken
    BY Zenon, <1>5 DEF Taken, AtWorkers, Gone
  <1>6. ASSUME \A w \in Workers : ~Pop(w) /\ ~CloseConnection(w) PROVE UNCHANGED <<conn, closes>>
    BY Zenon, <1>6, Steps DEF Accept, NextSuspends, AcceptEnds, AcceptFails, NextThrows, PushConnection,
       Connect, Send, RecvAndCount, ClientFails, PopClosed, OpenLog, OpenFails, Serve, EndOfStream,
       ServeFails, CloseFails, workerVars, vars
  <1> QED
    <2>1. CASE \E w \in Workers : Pop(w)
      BY Zenon, <1>3, <2>1
    <2>2. CASE \A w \in Workers : ~Pop(w)
      BY Zenon, <1>4, <1>5, <1>6, <2>2
    <2> QED
      BY Zenon, <2>1, <2>2

(* echo_to_file: the fetch_add counts exactly the connections popped. *)
LEMMA CountedStep == IInv /\ [Next]_vars => Counted'
  <1> SUFFICES ASSUME IInv, [Next]_vars, kind' = "file" PROVE Counted'
    BY Zenon DEF Counted
  <1>1. Types /\ Types' /\ Counted
    BY ZenonT(60), TypesStep DEF IInv
  <1>2. kind = "file"
    BY Zenon, Steps DEF Accept, NextSuspends, AcceptEnds, AcceptFails, NextThrows, PushConnection,
       Connect, Send, RecvAndCount, ClientFails, Pop, PopClosed, OpenLog, OpenFails, Serve, EndOfStream,
       ServeFails, CloseConnection, CloseFails, config, vars
  <1> DEFINE n == Cardinality(Clients)
  <1>3. /\ count = Cardinality(Taken) /\ n \in Nat /\ count \in Nat
        /\ last # Nobody \/ ~listening => count = n
        /\ \A c \in Clients : cpc[c] # "recv"
    BY ZenonT(60), <1>1, <1>2, TakenFinite, TakenType DEF Counted, Taken, Types
  <1>4. /\ IsFiniteSet(Taken) /\ Cardinality(Taken)' <= n
    BY ZenonT(60), <1>1, TakenFinite, TakenType
  <1> HIDE DEF n
  <1> DEFINE Goal == /\ count' = Cardinality(Taken)'
                     /\ last' # Nobody \/ ~listening' => count' = n
  <1>5. \A c \in Clients : cpc'[c] # "recv"
    <2>1. ASSUME NEW c \in Clients, Connect(c) \/ Send(c) \/ RecvAndCount(c) \/ ClientFails(c)
          PROVE  cpc' = [cpc EXCEPT ![c] = "send"] \/ cpc' = [cpc EXCEPT ![c] = "done"]
      BY SMTT(60), <1>2, <2>1 DEF Connect, Send, RecvAndCount, ClientFails
    <2>2. \/ cpc' = cpc
          \/ \E c \in Clients : cpc' = [cpc EXCEPT ![c] = "send"] \/ cpc' = [cpc EXCEPT ![c] = "done"]
      BY Zenon, <2>1, Steps DEF Accept, NextSuspends, AcceptEnds, AcceptFails, NextThrows,
         PushConnection, Pop, PopClosed, OpenLog, OpenFails, Serve, EndOfStream, ServeFails,
         CloseConnection, CloseFails, vars
    <2> QED
      BY SMTT(60), <1>1, <1>3, <2>2 DEF Types
  <1>6. ASSUME NEW w \in Workers, Pop(w) PROVE Goal
    <2>1. PICK c \in Clients : c \notin Taken /\ Taken' = Taken \cup {c}
      BY ZenonT(60), <1>6, TakenStep
    <2>2. Cardinality(Taken)' = count + 1
      BY Zenon, <1>3, <1>4, <2>1, FS_AddElement
    <2>3. count + 1 <= n
      BY Zenon, <1>4, <2>2
    <2>4. last = Nobody /\ listening
      BY <1>3, <2>3
    <2>5. /\ count' = count + 1 /\ last' = (IF count = n - 1 THEN w ELSE last)
          /\ listening' = listening
      BY Zenon, <1>2, <1>6 DEF Pop, IsLastClient, socketVars, n
    <2>6. last' # Nobody => count = n - 1
      BY Zenon, <2>4, <2>5
    <2>7. count = n - 1 => count + 1 = n
      BY <1>3
    <2> QED
      BY Zenon, <2>2, <2>4, <2>5, <2>6, <2>7
  <1>7. ASSUME \A w \in Workers : ~Pop(w) PROVE Goal
    <2>1. Taken' = Taken
      BY Zenon, <1>7, TakenStep
    <2>2. count' = count /\ last' = last
      BY ZenonT(60), <1>3, <1>7, Steps DEF Accept, NextSuspends, AcceptEnds, AcceptFails, NextThrows,
         PushConnection, Connect, Send, RecvAndCount, ClientFails, PopClosed, OpenLog, OpenFails, Serve,
         EndOfStream, ServeFails, CloseConnection, CloseFails, workerVars, vars
    <2>3. listening' = listening \/ \E w \in Workers : listening' = (listening /\ last # w)
      BY Zenon, <1>3, <1>7, Steps DEF Accept, NextSuspends, AcceptEnds, AcceptFails, NextThrows,
         PushConnection, Connect, Send, RecvAndCount, ClientFails, PopClosed, OpenLog, OpenFails, Serve,
         EndOfStream, ServeFails, CloseConnection, CloseFails, socketVars, vars
    <2>4. ~listening' => last # Nobody \/ ~listening
      BY Zenon, <2>3, ServerAssumption
    <2> QED
      BY Zenon, <1>3, <2>1, <2>2, <2>4
  <1>8. Goal
    BY ZenonT(60), <1>6, <1>7
  <1> QED
    BY Zenon, <1>5, <1>8 DEF Counted, Taken, n

(* The clients that are done: none becomes undone. *)
LEMMA FinishedStep ==
    ASSUME Types, [Next]_vars
    PROVE  /\ Finished' = Finished \/ \E c \in Clients : Finished' = Finished \cup {c}
           /\ \A c \in Clients : RecvAndCount(c) => c \notin Finished /\ Finished' = Finished \cup {c}
  <1>1. ASSUME NEW c \in Clients, NEW l \in {"send", "recv", "done"},
               cpc' = [cpc EXCEPT ![c] = l], cpc[c] # "done"
        PROVE  /\ c \notin Finished /\ (l = "done" => Finished' = Finished \cup {c})
               /\ l # "done" => Finished' = Finished
    BY <1>1 DEF Types, Finished
  <1>2. ASSUME NEW c \in Clients, Connect(c) \/ Send(c) \/ RecvAndCount(c) \/ ClientFails(c)
        PROVE  /\ cpc[c] # "done"
               /\ \E l \in {"send", "recv", "done"} :
                     cpc' = [cpc EXCEPT ![c] = l] /\ (RecvAndCount(c) => l = "done")
    <2>1. /\ cpc[c] \in {"connect", "send", "recv"}
          /\ \/ cpc' = [cpc EXCEPT ![c] = "done"]
             \/ ~RecvAndCount(c) /\ \E l \in {"send", "recv", "done"} : cpc' = [cpc EXCEPT ![c] = l]
      <3>1. CASE Connect(c)
        BY <3>1 DEF Connect, RecvAndCount
      <3>2. CASE Send(c)
        BY Zenon, <3>2 DEF Send, RecvAndCount
      <3>3. CASE RecvAndCount(c) \/ ClientFails(c)
        BY Zenon, <3>3 DEF RecvAndCount, ClientFails
      <3> QED
        BY Zenon, <1>2, <3>1, <3>2, <3>3
    <2> QED
      BY <2>1
  <1>3. \/ \E c \in Clients : Connect(c) \/ Send(c) \/ RecvAndCount(c) \/ ClientFails(c)
        \/ cpc' = cpc
    BY Zenon, Steps DEF Accept, NextSuspends, AcceptEnds, AcceptFails, NextThrows, PushConnection, Pop,
       PopClosed, OpenLog, OpenFails, Serve, EndOfStream, ServeFails, CloseConnection, CloseFails, vars
  <1>4. cpc' = cpc => Finished' = Finished
    BY Zenon DEF Finished
  <1>5. ASSUME NEW c \in Clients, RecvAndCount(c) PROVE c \notin Finished /\ Finished' = Finished \cup {c}
    BY Zenon, <1>1, <1>2, <1>5
  <1>6. ASSUME NEW c \in Clients, Connect(c) \/ Send(c) \/ RecvAndCount(c) \/ ClientFails(c)
        PROVE  Finished' = Finished \/ Finished' = Finished \cup {c}
    BY Zenon, <1>1, <1>2, <1>6
  <1> QED
    BY Zenon, <1>3, <1>4, <1>5, <1>6

(* The other servers: a step that raises clients_done also finishes a client. *)
LEMMA TalliedStep == IInv /\ [Next]_vars => Tallied'
  <1> SUFFICES ASSUME IInv, [Next]_vars, kind' # "file" PROVE Tallied'
    BY Zenon DEF Tallied
  <1>1. Types /\ Types' /\ Tallied
    BY Zenon, TypesStep DEF IInv
  <1>2. kind # "file"
    BY Zenon, Steps DEF Accept, NextSuspends, AcceptEnds, AcceptFails, NextThrows, PushConnection,
       Connect, Send, RecvAndCount, ClientFails, Pop, PopClosed, OpenLog, OpenFails, Serve, EndOfStream,
       ServeFails, CloseConnection, CloseFails, config, vars
  <1> DEFINE n == Cardinality(Clients)
             f == Cardinality(Finished)
  <1>3. Finished \subseteq Clients /\ Finished' \subseteq Clients
    BY Zenon DEF Finished
  <1>4. IsFiniteSet(Finished) /\ f \in Nat /\ f' \in Nat /\ n \in Nat /\ count \in Nat
    BY Zenon, <1>1, <1>3, TakenFinite DEF Types
  <1>5. last = Nobody /\ count <= f /\ (~listening => n <= count)
    BY Zenon, <1>1, <1>2 DEF Tallied
  <1>6. ASSUME NEW c, Finished' = Finished \cup {c} PROVE f' = f \/ (f' = f + 1)
    BY Zenon, <1>4, <1>6, FS_AddElement
  <1>7. ASSUME NEW c \in Clients, c \notin Finished, Finished' = Finished \cup {c} PROVE f' = f + 1
    BY Zenon, <1>4, <1>7, FS_AddElement
  <1>8. f' = f \/ f' = f + 1
    BY Zenon, <1>1, <1>6, FinishedStep
  <1>9. \A c \in Clients : RecvAndCount(c) => f' = f + 1
    BY Zenon, <1>1, <1>7, FinishedStep
  <1> HIDE DEF n, f
  <1>10. ASSUME NEW c \in Clients, RecvAndCount(c)
         PROVE  last' = Nobody /\ count' <= f' /\ (~listening' => n <= count')
    <2>1. /\ last' = last /\ count' = count + 1 /\ f' = f + 1
          /\ listening' = (listening /\ ~(count = n - 1))
      BY Zenon, <1>9, <1>10 DEF RecvAndCount, IsLastClient, workerVars, n
    <2>2. ~listening' => n <= count \/ count = n - 1
      BY Zenon, <1>5, <2>1
    <2>3. count' <= f' /\ (n <= count \/ count = n - 1 => n <= count')
      BY <1>4, <1>5, <2>1
    <2> QED
      BY Zenon, <1>5, <2>1, <2>2, <2>3
  <1>11. ASSUME \A c \in Clients : ~RecvAndCount(c)
         PROVE  last' = Nobody /\ count' <= f' /\ (~listening' => n <= count')
    <2>1. /\ last' = last /\ count' = count
          /\ listening' = listening \/ \E w \in Workers : listening' = (listening /\ last # w)
      BY Zenon, <1>2, <1>11, Steps DEF Accept, NextSuspends, AcceptEnds, AcceptFails, NextThrows,
         PushConnection, Connect, Send, ClientFails, Pop, PopClosed, OpenLog, OpenFails, Serve,
         EndOfStream, ServeFails, CloseConnection, CloseFails, workerVars, socketVars, vars
    <2>2. listening' = listening
      BY <1>1, <1>5, <2>1, ServerAssumption DEF Types
    <2>3. count <= f'
      BY <1>4, <1>5, <1>8
    <2> QED
      BY Zenon, <1>5, <2>1, <2>2, <2>3
  <1> QED
    BY Zenon, <1>10, <1>11 DEF Tallied, n, f

-----------------------------------------------------------------------------
(* Orderly, worker by worker and client by client. *)
WorkerOrder(label, c) ==
    /\ label # "failed"
    /\ label = "close" => cpc[c] = "done" /\ data[c] = "served"
ClientOrder(c) ==
    /\ c \in Gone => cpc[c] = "done" /\ data[c] = "served"
    /\ cpc[c] \in {"connect", "send"} => data[c] = "none"
    /\ data[c] = "served" => c \in Taken
    /\ cpc[c] = "done" /\ kind # "file" => data[c] = "served"

(* Orderly, by the worker and the client it speaks of. *)
LEMMA OrderlyParts ==
    Orderly <=> (failures = MaxFailures =>
                    /\ ~stop /\ (apc = "done" => ~listening)
                    /\ \A w \in Workers : WorkerOrder(wpc[w], conn[w])
                    /\ \A c \in Clients : ClientOrder(c))
  BY Zenon DEF Orderly, WorkerOrder, ClientOrder, Taken

(* In an orderly state a step that is not a failure is none of these. *)
LEMMA NoFailure ==
    ASSUME IInv, [Next]_vars, failures' = MaxFailures
    PROVE  /\ failures = MaxFailures /\ ~stop /\ stop' = stop
           /\ ~AcceptFails /\ ~NextThrows
           /\ \A c \in Clients : ~ClientFails(c)
           /\ \A w \in Workers : ~OpenFails(w) /\ ~ServeFails(w) /\ ~CloseFails(w)
  <1>1. Types /\ Orderly
    BY Zenon DEF IInv
  <1>2. failures = MaxFailures
    <2>1. \/ failures' = failures \/ Failing \/ (failures > 0 /\ failures' = failures - 1)
      BY Zenon, Steps DEF Accept, NextSuspends, AcceptEnds, AcceptFails, NextThrows, PushConnection,
         Connect, Send, RecvAndCount, ClientFails, Pop, PopClosed, OpenLog, OpenFails, Serve, EndOfStream,
         ServeFails, CloseConnection, CloseFails, vars
    <2> QED
      BY ZenonT(60), <1>1, <2>1, FailureSteps
  <1>3. ~stop
    BY Zenon, <1>1, <1>2 DEF Orderly
  <1>4. ~(Failing /\ Fail) /\ ~(failures > 0 /\ failures' = failures - 1)
    BY Zenon, <1>1, <1>3, FailureSteps
  <1>5. ~AcceptFails /\ ~NextThrows
    BY Zenon, <1>4 DEF AcceptFails, NextThrows, Fail
  <1>6. ASSUME NEW c \in Clients, ClientFails(c) PROVE FALSE
    <2>1. cpc[c] = "recv" /\ closes[c] > 0
      BY Zenon, <1>4, <1>6 DEF ClientFails
    <2>2. closes[c] # 0
      BY <2>1
    <2>3. cpc[c] = "done"
      BY Zenon, <1>1, <1>2, <2>2 DEF Orderly, Gone
    <2> QED
      BY <2>1, <2>3
  <1>7. \A w \in Workers : ~OpenFails(w) /\ ~ServeFails(w) /\ ~CloseFails(w)
    BY Zenon, <1>4 DEF OpenFails, ServeFails, CloseFails
  <1>8. stop' = stop
    BY ZenonT(60), <1>5, <1>6, <1>7, Steps DEF Accept, NextSuspends, AcceptEnds, PushConnection,
       Connect, Send, RecvAndCount, Pop, PopClosed, OpenLog, Serve, EndOfStream, CloseConnection, vars
  <1> QED
    BY Zenon, <1>2, <1>3, <1>5, <1>6, <1>7, <1>8

(* No listener is opened again, and no connection given back. *)
LEMMA Monotone ==
    ASSUME IInv, [Next]_vars
    PROVE  (~listening => ~listening') /\ kind' = kind /\ Taken \subseteq Taken'
  <1>1. /\ kind' = kind
        /\ \/ listening' = listening \/ listening' = (listening /\ ~IsLastClient)
           \/ \E w \in Workers : listening' = (listening /\ last # w)
    BY Zenon, Steps DEF Accept, NextSuspends, AcceptEnds, AcceptFails, NextThrows, PushConnection,
       Connect, Send, RecvAndCount, ClientFails, Pop, PopClosed, OpenLog, OpenFails, Serve, EndOfStream,
       ServeFails, CloseConnection, CloseFails, socketVars, config, vars
  <1>2. Taken \subseteq Taken'
    <2>1. Taken' = Taken \/ \E c \in Clients : Taken' = Taken \cup {c}
      BY Zenon, TakenStep
    <2> QED
      BY <2>1
  <1>3. ~listening => ~listening'
    BY ZenonT(60), <1>1
  <1> QED
    BY Zenon, <1>1, <1>2, <1>3

(* What a step that is no failure does to a client. *)
LEMMA ClientEffect ==
    ASSUME IInv, [Next]_vars, failures' = MaxFailures, NEW c \in Clients
    PROVE  \/ cpc'[c] = cpc[c] /\ data'[c] = data[c]
           \/ cpc[c] = "connect" /\ cpc'[c] = "send" /\ data'[c] = data[c]
           \/ cpc[c] = "send" /\ data'[c] = "sent" /\ cpc'[c] = IF kind = "file" THEN "done" ELSE "recv"
           \/ /\ cpc[c] = "recv" /\ cpc'[c] = "done" /\ data'[c] = data[c]
              /\ data[c] = "served" \/ c \in Gone
           \/ cpc'[c] = cpc[c] /\ data[c] = "sent" /\ data'[c] = "served" /\ c \in AtWorkers
  <1> DEFINE Effect ==
           \/ cpc'[c] = cpc[c] /\ data'[c] = data[c]
           \/ cpc[c] = "connect" /\ cpc'[c] = "send" /\ data'[c] = data[c]
           \/ cpc[c] = "send" /\ data'[c] = "sent" /\ cpc'[c] = IF kind = "file" THEN "done" ELSE "recv"
           \/ /\ cpc[c] = "recv" /\ cpc'[c] = "done" /\ data'[c] = data[c]
              /\ data[c] = "served" \/ c \in Gone
           \/ cpc'[c] = cpc[c] /\ data[c] = "sent" /\ data'[c] = "served" /\ c \in AtWorkers
  <1>1. /\ cpc \in [Clients -> {"connect", "send", "recv", "done"}]
        /\ data \in [Clients -> {"none", "sent", "served"}]
    BY ZenonT(60) DEF IInv, Types
  <1>2. ASSUME UNCHANGED <<cpc, data>> PROVE Effect
    BY ZenonT(60), <1>2
  <1>3. ASSUME NEW b \in Clients, Connect(b) PROVE Effect
    BY <1>1, <1>3 DEF Connect
  <1>4. ASSUME NEW b \in Clients, Send(b) PROVE Effect
    BY SMTT(60), <1>1, <1>4 DEF Send
  <1>5. ASSUME NEW b \in Clients, RecvAndCount(b) PROVE Effect
    <2>1. /\ cpc[b] = "recv" /\ cpc' = [cpc EXCEPT ![b] = "done"] /\ data' = data
          /\ data[b] = "served" \/ closes[b] > 0
      BY Zenon, <1>5 DEF RecvAndCount
    <2>2. data[b] = "served" \/ b \in Gone
      BY SMTT(60), <2>1 DEF Gone
    <2> QED
      BY <1>1, <2>1, <2>2
  <1>6. ASSUME NEW w \in Workers, Serve(w) PROVE Effect
    <2>1. /\ wpc[w] = "recv" /\ data[conn[w]] = "sent" /\ data' = [data EXCEPT ![conn[w]] = "served"]
          /\ cpc' = cpc
      BY Zenon, <1>6 DEF Serve
    <2>2. conn[w] \in Clients /\ conn[w] \in AtWorkers
      BY SMTT(60), <2>1, Busy
    <2> QED
      BY <1>1, <2>1, <2>2
  <1>7. ASSUME NEW w \in Workers,
               Pop(w) \/ PopClosed(w) \/ OpenLog(w) \/ EndOfStream(w) \/ CloseConnection(w)
        PROVE  UNCHANGED <<cpc, data>>
    BY Zenon, <1>7 DEF Pop, PopClosed, OpenLog, EndOfStream, CloseConnection
  <1>8. ASSUME Accept \/ NextSuspends \/ AcceptEnds \/ PushConnection \/ UNCHANGED vars
        PROVE  UNCHANGED <<cpc, data>>
    BY Zenon, <1>8 DEF Accept, NextSuspends, AcceptEnds, PushConnection, vars
  <1> QED
    BY Zenon, <1>2, <1>3, <1>4, <1>5, <1>6, <1>7, <1>8, Steps, NoFailure

(* And to a worker. *)
LEMMA WorkerEffects ==
    ASSUME IInv, [Next]_vars, failures' = MaxFailures, NEW v \in Workers
    PROVE  \/ wpc'[v] = wpc[v] /\ conn'[v] = conn[v]
           \/ wpc'[v] \in {"pop", "open", "recv", "done"}
           \/ /\ wpc'[v] = "close" /\ conn'[v] = conn[v] /\ conn[v] \in Clients
              /\ cpc[conn[v]] = "done" /\ data[conn[v]] = "served"
  <1> DEFINE Effect ==
           \/ wpc'[v] = wpc[v] /\ conn'[v] = conn[v]
           \/ wpc'[v] \in {"pop", "open", "recv", "done"}
           \/ /\ wpc'[v] = "close" /\ conn'[v] = conn[v] /\ conn[v] \in Clients
              /\ cpc[conn[v]] = "done" /\ data[conn[v]] = "served"
  <1>1. /\ wpc \in [Workers -> {"pop", "open", "recv", "close", "done", "failed"}]
        /\ conn \in [Workers -> Clients \cup {Nobody}] /\ ~stop
    BY Zenon, NoFailure DEF IInv, Types
  <1>2. ASSUME UNCHANGED <<wpc, conn>> PROVE Effect
    BY ZenonT(60), <1>2
  <1>3. ASSUME NEW w \in Workers, Pop(w) PROVE Effect
    <2>1. /\ conn' = [conn EXCEPT ![w] = Head(queue)]
          /\ \E l \in {"open", "recv"} : wpc' = [wpc EXCEPT ![w] = l]
      BY ZenonT(60), <1>3, ChannelSteps DEF Pop
    <2> QED
      BY <1>1, <2>1
  <1>4. ASSUME NEW w \in Workers, PopClosed(w) \/ OpenLog(w) \/ CloseConnection(w) PROVE Effect
    BY SMTT(60), <1>1, <1>4 DEF PopClosed, OpenLog, CloseConnection
  <1>5. ASSUME NEW w \in Workers, EndOfStream(w) PROVE Effect
    <2>1. conn[w] \in Clients /\ wpc[w] = "recv"
      BY SMTT(60), <1>5, Busy DEF EndOfStream
    <2> QED
      BY <1>1, <1>5, <2>1 DEF EndOfStream
  <1>6. ASSUME \/ \E w \in Workers : Serve(w)
               \/ \E c \in Clients : Connect(c) \/ Send(c) \/ RecvAndCount(c)
               \/ Accept \/ NextSuspends \/ AcceptEnds \/ PushConnection \/ UNCHANGED vars
        PROVE  UNCHANGED <<wpc, conn>>
    BY Zenon, <1>6 DEF Serve, Connect, Send, RecvAndCount, Accept, NextSuspends, AcceptEnds,
       PushConnection, workerVars, vars
  <1> QED
    BY ZenonT(60), <1>2, <1>3, <1>4, <1>5, <1>6, Steps, NoFailure

(* Without a failure a step closes only the connection of a client done and served. *)
LEMMA OrderlyStep == IInv /\ [Next]_vars => Orderly'
  <1> SUFFICES ASSUME IInv, [Next]_vars, failures' = MaxFailures
               PROVE  /\ ~stop' /\ (apc' = "done" => ~listening')
                      /\ \A w \in Workers : WorkerOrder(wpc[w], conn[w])'
                      /\ \A c \in Clients : ClientOrder(c)'
    BY Zenon DEF Orderly, WorkerOrder, ClientOrder, Taken
  <1>1. /\ ~stop /\ (apc = "done" => ~listening)
        /\ \A w \in Workers : WorkerOrder(wpc[w], conn[w])
        /\ \A c \in Clients : ClientOrder(c)
    BY Zenon, NoFailure, OrderlyParts DEF IInv
  <1>2. ~stop'
    BY Zenon, NoFailure
  <1>3. apc' = "done" => ~listening'
    <2>1. \/ apc' = apc \/ apc' \in {"push", "next", "accept"} \/ ~listening
      BY ZenonT(60), <1>1, Steps, NoFailure DEF Accept, NextSuspends, AcceptEnds, PushConnection, Connect, Send,
         RecvAndCount, Pop, PopClosed, OpenLog, Serve, EndOfStream, CloseConnection, acceptVars, vars
    <2>2. apc' = apc \/ apc' # "done" \/ ~listening
      BY SMTT(60), <2>1
    <2> QED
      BY ZenonT(60), <1>1, <2>2, Monotone
  <1>4. ASSUME NEW c \in Clients, cpc[c] = "done", data[c] = "served"
        PROVE  cpc'[c] = "done" /\ data'[c] = "served"
    BY <1>4, ClientEffect
  <1>5. ASSUME NEW w \in Workers PROVE WorkerOrder(wpc[w], conn[w])'
    <2>1. wpc[w] = "close" => conn[w] \in Clients
      BY Busy
    <2>2. \/ wpc'[w] = wpc[w] /\ conn'[w] = conn[w]
          \/ wpc'[w] \in {"pop", "open", "recv", "done"}
          \/ /\ wpc'[w] = "close" /\ conn'[w] = conn[w] /\ conn[w] \in Clients
             /\ cpc[conn[w]] = "done" /\ data[conn[w]] = "served"
      BY Zenon, WorkerEffects
    <2>3. WorkerOrder(wpc[w], conn[w])
      BY Zenon, <1>1
    <2> QED
      BY <1>4, <2>1, <2>2, <2>3 DEF WorkerOrder
  <1>6. ASSUME NEW c \in Clients PROVE ClientOrder(c)'
    <2>1. ClientOrder(c)
      BY Zenon, <1>1
    <2>2. c \in Gone' => c \in Gone \/ \E w \in Workers : wpc[w] = "close" /\ conn[w] = c
      <3>1. ASSUME NEW w \in Workers, CloseConnection(w), conn[w] # c PROVE c \in Gone' => c \in Gone
        BY SMTT(60), <3>1 DEF CloseConnection, Closed, Gone, IInv, Types
      <3>2. ASSUME closes' = closes PROVE Gone' = Gone
        BY Zenon, <3>2 DEF Gone
      <3>3. \/ closes' = closes \/ \E w \in Workers : CloseConnection(w)
        BY ZenonT(60), Steps, NoFailure DEF Accept, NextSuspends, AcceptEnds, PushConnection, Connect, Send,
           RecvAndCount, Pop, PopClosed, OpenLog, Serve, EndOfStream, vars
      <3> QED
        BY Zenon, <3>1, <3>2, <3>3 DEF CloseConnection
    <2>3. c \in Gone' => cpc'[c] = "done" /\ data'[c] = "served"
      BY ZenonT(60), <1>1, <1>4, <2>2 DEF WorkerOrder, ClientOrder
    <2>4. /\ cpc'[c] \in {"connect", "send"} => data'[c] = "none"
          /\ data'[c] = "served" => data[c] = "served" \/ c \in AtWorkers
          /\ cpc'[c] = "done" /\ kind # "file" => data'[c] = "served"
      BY <2>1, ClientEffect DEF ClientOrder
    <2>5. data'[c] = "served" => c \in Taken'
      BY ZenonT(60), <2>1, <2>4, Monotone DEF ClientOrder, Taken
    <2> QED
      BY ZenonT(60), <2>3, <2>4, <2>5, Monotone DEF ClientOrder
  <1> QED
    BY Zenon, <1>2, <1>3, <1>5, <1>6

(* Every step of a server keeps the invariant. *)
LEMMA StepInv == IInv /\ [Next]_vars => IInv'
  BY Zenon, TypesStep, OwnerStep, StandingStep, CountedStep, TalliedStep, OrderlyStep DEF IInv

(* The invariant holds in every reachable state. *)
LEMMA Invariant == Spec => []IInv
  BY InitInv, StepInv, PTL DEF Spec

-----------------------------------------------------------------------------
(* The places of a connection and the stages of its life. *)
LEMMA PlaceStages ==
    ASSUME Types, NEW c \in Clients, NEW p \in Places(c)
    PROVE  \/ c \in Elems(backlog) /\ \E i \in 1..Len(backlog) : backlog[i] = c /\ p = <<"backlog", i>>
           \/ c \in Elems(queue) /\ \E i \in 1..Len(queue) : queue[i] = c /\ p = <<"queue", i>>
           \/ c \in AtWorkers /\ \E w \in Workers : conn[w] = c /\ p = <<"worker", w>>
           \/ c \in InLoop /\ p = <<"loop", accepted>>
  <1>1. c # Nobody
    BY Zenon, ServerAssumption
  <1>2. DOMAIN backlog = 1..Len(backlog) /\ DOMAIN queue = 1..Len(queue)
    BY SMTT(60) DEF Types
  <1>3. \/ \E i \in DOMAIN backlog : backlog[i] = c /\ p = <<"backlog", i>>
        \/ \E i \in DOMAIN queue : queue[i] = c /\ p = <<"queue", i>>
        \/ \E w \in Workers : conn[w] = c /\ p = <<"worker", w>>
        \/ accepted = c /\ p = <<"loop", accepted>>
    BY DEF Places
  <1> QED
    BY Zenon, <1>1, <1>2, <1>3 DEF Elems, AtWorkers, Holding, InLoop

(* One owner means one place, and none once closed. *)
LEMMA OnePlace ==
    ASSUME Types, OneOwner, NEW c \in Clients
    PROVE  /\ \A p, q \in Places(c) : p = q
           /\ closes[c] = 0 \/ (closes[c] = 1 /\ Places(c) = {})
  <1>1. /\ Once(backlog) /\ Once(queue) /\ Alone(conn)
        /\ Apart(Unconnected, Elems(backlog), InLoop, Elems(queue), AtWorkers, Gone)
    BY Zenon DEF OneOwner
  <1>2. c # Nobody
    BY Zenon, ServerAssumption
  <1>3. /\ c \in Elems(backlog) => /\ c \notin Elems(queue) /\ c \notin AtWorkers
                                 /\ c \notin InLoop /\ c \notin Gone
        /\ c \in Elems(queue) => c \notin AtWorkers /\ c \notin InLoop /\ c \notin Gone
        /\ c \in AtWorkers => c \notin InLoop /\ c \notin Gone
        /\ c \in InLoop => c \notin Gone
    BY Zenon, <1>1 DEF Apart
  <1>4. ASSUME NEW p \in Places(c), NEW q \in Places(c) PROVE p = q
    <2>1. CASE c \in Elems(backlog)
      <3>1. PICK i \in 1..Len(backlog) : backlog[i] = c /\ p = <<"backlog", i>>
        BY ZenonT(60), <1>3, <2>1, PlaceStages
      <3>2. PICK j \in 1..Len(backlog) : backlog[j] = c /\ q = <<"backlog", j>>
        BY Zenon, <1>3, <2>1, PlaceStages
      <3> QED
        BY Zenon, <1>1, <3>1, <3>2 DEF Once
    <2>2. CASE c \in Elems(queue)
      <3>1. PICK i \in 1..Len(queue) : queue[i] = c /\ p = <<"queue", i>>
        BY ZenonT(60), <1>3, <2>2, PlaceStages
      <3>2. PICK j \in 1..Len(queue) : queue[j] = c /\ q = <<"queue", j>>
        BY Zenon, <1>3, <2>2, PlaceStages
      <3> QED
        BY Zenon, <1>1, <3>1, <3>2 DEF Once
    <2>3. CASE c \in AtWorkers
      <3>1. PICK v \in Workers : conn[v] = c /\ p = <<"worker", v>>
        BY ZenonT(60), <1>3, <2>3, PlaceStages
      <3>2. PICK w \in Workers : conn[w] = c /\ q = <<"worker", w>>
        BY Zenon, <1>3, <2>3, PlaceStages
      <3> QED
        BY Zenon, <1>1, <1>2, <3>1, <3>2 DEF Alone
    <2>4. CASE c \in InLoop
      BY Zenon, <1>3, <2>4, PlaceStages
    <2> QED
      BY ZenonT(60), <2>1, <2>2, <2>3, <2>4, PlaceStages
  <1>5. ASSUME c \in Gone PROVE Places(c) = {}
    BY Zenon, <1>3, <1>5, PlaceStages
  <1>6. closes[c] = 0 \/ (closes[c] = 1 /\ c \in Gone)
    <2>1. closes \in [Clients -> {0, 1}]
      BY Zenon DEF Types
    <2> QED
      BY <2>1 DEF Gone
  <1> QED
    BY Zenon, <1>4, <1>5, <1>6

(* The first conjunct of the property follows from OneOwner, the second    *)
(* from Standing: a worker that is done saw the queue empty.               *)
LEMMA OwnedInv == IInv => ConnectionsClosedOnce
  <1> SUFFICES ASSUME IInv PROVE ConnectionsClosedOnce
    OBVIOUS
  <1>1. Types /\ OneOwner /\ Standing
    BY Zenon DEF IInv
  <1>2. ASSUME Returned
        PROVE  /\ accepted = Nobody
               /\ queue = <<>> \/ \A w \in Workers : wpc[w] = "failed"
               /\ \A w \in Workers : conn[w] # Nobody => kind # "pool" /\ wpc[w] = "failed"
    <2>1. apc = "done" /\ \A w \in Workers : wpc[w] \in {"done", "failed"}
      BY Zenon, <1>2 DEF Returned
    <2>2. accepted = Nobody
      BY SMTT(60), <1>1, <2>1 DEF Standing
    <2>3. queue = <<>> \/ \A w \in Workers : wpc[w] = "failed"
      BY Zenon, <1>1, <2>1 DEF Standing
    <2>4. ASSUME NEW w \in Workers, conn[w] # Nobody PROVE kind # "pool" /\ wpc[w] = "failed"
      BY <1>1, <2>1, <2>4 DEF Standing
    <2> QED
      BY ZenonT(60), <2>2, <2>3, <2>4
  <1> QED
    BY Zenon, <1>1, <1>2, OnePlace DEF ConnectionsClosedOnce

(***************************************************************************)
(* The accepted connections of the example servers: for any number of      *)
(* clients and workers, any capacity of conn_ch and any number of failing  *)
(* operations, a connection has one owner until it is closed, is closed at *)
(* most once, and is left open when sync_wait returns only by a worker     *)
(* that ended with an exception.                                           *)
(***************************************************************************)
THEOREM ConnectionsOwned == Spec => []ConnectionsClosedOnce
  BY Invariant, OwnedInv, PTL

(* When the listener is shut every client has been counted: it is done, or *)
(* a worker has taken its connection.                                      *)
LEMMA NoneRefused == IInv /\ ~listening => \A c \in Clients : cpc[c] # "connect"
  <1> SUFFICES ASSUME IInv, ~listening, NEW c \in Clients PROVE cpc[c] # "connect"
    OBVIOUS
  <1>1. Types /\ OneOwner /\ Counted /\ Tallied
    BY Zenon DEF IInv
  <1>2. CASE kind = "file"
    <2>1. Cardinality(Taken) = Cardinality(Clients)
      BY Zenon, <1>1, <1>2 DEF Counted, Taken
    <2>2. Taken = Clients
      BY Zenon, <1>1, <2>1, TakenType, TakenFinite
    <2>3. c \notin Unconnected
      BY Zenon, <1>1, <2>2 DEF OneOwner, Apart, Taken
    <2> QED
      BY Zenon, <2>3 DEF Unconnected
  <1>3. CASE kind # "file"
    <2>1. count <= Cardinality(Finished) /\ Cardinality(Clients) <= count /\ count \in Nat
      BY Zenon, <1>1, <1>3 DEF Tallied, Types
    <2>2. Finished \subseteq Clients
      BY Zenon DEF Finished
    <2>3. /\ Cardinality(Finished) \in Nat /\ Cardinality(Clients) \in Nat
          /\ Cardinality(Finished) <= Cardinality(Clients)
          /\ Cardinality(Finished) = Cardinality(Clients) => Finished = Clients
      BY Zenon, <2>2, TakenFinite
    <2>4. Cardinality(Finished) = Cardinality(Clients)
      BY <2>1, <2>3
    <2>5. cpc[c] = "done"
      BY Zenon, <2>3, <2>4 DEF Finished
    <2> QED
      BY <2>5
  <1> QED
    BY Zenon, <1>2, <1>3

(***************************************************************************)
(* When every child has completed without a failure, all workers are done  *)
(* and hold nothing.  Then either every client has seen its echo, or, in   *)
(* echo_to_file, as many connections as there are clients have been taken, *)
(* which are all of them as the clients are finitely many.                 *)
(***************************************************************************)
LEMMA ServedInv == IInv => EveryClientServed
  <1> SUFFICES ASSUME IInv, Returned, failures = MaxFailures, NEW c \in Clients
               PROVE  data[c] = "served" /\ closes[c] = 1
    BY Zenon, NoneRefused DEF EveryClientServed
  <1>1. Types /\ Standing /\ Counted
    BY Zenon DEF IInv
  <1>2. /\ apc = "done" => ~listening
        /\ \A w \in Workers : wpc[w] # "failed"
        /\ \A b \in Clients : ClientOrder(b)
    BY Zenon, OrderlyParts DEF IInv, WorkerOrder
  <1>3. AtWorkers = {}
    <2>1. \A w \in Workers : wpc[w] = "done"
      BY ZenonT(60), <1>2 DEF Returned
    <2>2. \A w \in Workers : conn[w] = Nobody
      BY Zenon, <1>1, <2>1 DEF Standing
    <2> QED
      BY Zenon, <2>2 DEF AtWorkers, Holding
  <1>4. c \in Taken
    <2>1. CASE kind = "file"
      <3>1. count = Cardinality(Taken) /\ count = Cardinality(Clients)
        BY ZenonT(60), <1>1, <1>2, <2>1 DEF Counted, Taken, Returned
      <3>2. Taken = Clients
        BY Zenon, <1>1, <3>1, TakenType, TakenFinite
      <3> QED
        BY ZenonT(60), <3>2
    <2>2. CASE kind # "file"
      BY ZenonT(60), <1>2, <2>2 DEF Returned, ClientOrder
    <2> QED
      BY ZenonT(60), <2>1, <2>2
  <1>5. c \in Gone
    BY Zenon, <1>3, <1>4 DEF Taken
  <1>6. data[c] = "served"
    BY Zenon, <1>2, <1>5 DEF ClientOrder
  <1> QED
    BY <1>1, <1>5, <1>6 DEF Gone, Types

(***************************************************************************)
(* The shutdown of the listener comes late enough, however many clients    *)
(* there are: none of them finds it shut, whatever fails, and if nothing   *)
(* fails every client has been served and its connection closed when       *)
(* sync_wait returns.                                                      *)
(***************************************************************************)
THEOREM ClientsServed == Spec => []EveryClientServed
  BY Invariant, ServedInv, PTL
=============================================================================
