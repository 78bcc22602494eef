------------------------ MODULE FixedResourcesProofs -------------------------
(***************************************************************************)
(* Proofs about FixedResources, for any number of fibers, buffers and      *)
(* slots: nothing is lost or lent twice, the kernel reads only buffers     *)
(* that are held, and its table follows the handles.                       *)
(*                                                                         *)
(* The inductive invariant says of each pool that the free list and the    *)
(* handles split the indices between them: the ones pushed so far while    *)
(* the constructor runs, later all of them but the lost ones.              *)
(***************************************************************************)
EXTENDS FixedResources, TLAPS

(* Queue t is s with e pushed at its back, or with e popped from its front. *)
Pushed(s, t, e) ==
    /\ Len(s) \in Nat /\ Len(t) = Len(s) + 1
    /\ t[Len(s) + 1] = e /\ \A i \in 1..Len(s) : t[i] = s[i]
Popped(s, t, e) ==
    /\ Len(s) \in Nat \ {0} /\ Len(t) = Len(s) - 1
    /\ e = s[1] /\ \A i \in 1..Len(t) : t[i] = s[i + 1]

(* The elements of a queue have the type of the queue. *)
LEMMA Elements ==
    ASSUME NEW S, NEW s \in Seq(S)
    PROVE  /\ Len(s) \in Nat /\ DOMAIN s = 1..Len(s)
           /\ \A i \in 1..Len(s) : s[i] \in S
           /\ s # <<>> <=> Len(s) # 0
  OBVIOUS

(* Append pushes at the back. *)
LEMMA PushBack ==
    ASSUME NEW S, NEW s \in Seq(S), NEW e \in S
    PROVE  /\ Append(s, e) \in Seq(S) /\ Append(s, e) # <<>>
           /\ Pushed(s, Append(s, e), e)
  BY DEF Pushed

(* Head and Tail pop from the front. *)
LEMMA PopFront ==
    ASSUME NEW S, NEW s \in Seq(S), s # <<>>
    PROVE  /\ Head(s) \in S /\ Tail(s) \in Seq(S)
           /\ Tail(s) = <<>> <=> Len(s) = 1
           /\ Popped(s, Tail(s), Head(s))
  <1>1. Len(s) \in Nat \ {0} /\ Tail(s) \in Seq(S) /\ Len(Tail(s)) = Len(s) - 1
    OBVIOUS
  <1>2. Tail(s) = <<>> <=> Len(s) = 1
    <2>1. Tail(s) = <<>> <=> Len(Tail(s)) = 0
      BY <1>1, Elements
    <2> QED
      BY <1>1, <2>1
  <1>3. /\ Head(s) \in S /\ Head(s) = s[1]
        /\ \A i \in 1..Len(Tail(s)) : Tail(s)[i] = s[i + 1]
    OBVIOUS
  <1> QED
    BY <1>1, <1>2, <1>3 DEF Popped

-----------------------------------------------------------------------------
PCs == {"fn", "borrow", "acquire", "sending", "unwind", "done"}

Types ==
    /\ bufCount \in Nat /\ fdCount \in FdCounts /\ filled \in Nat
    /\ wpc \in {"buffers", "slots", "running", "exited", "terminated"}
    /\ free \in Seq(Nat) /\ slots \in Seq(Nat)
    /\ freeClosed \in BOOLEAN /\ slotsClosed \in BOOLEAN
    /\ table \in [Slots -> Fibers \cup {None}]
    /\ fpc \in [Fibers -> PCs] /\ result \in [Fibers -> {"ok", "error"}]
    /\ buf \in [Fibers -> Nat \cup {None}] /\ slot \in [Fibers -> Nat \cup {None}]
    /\ sends \subseteq [by : Fibers, buf : Nat \cup {None}, at : {"ring", "kernel", "notify"},
                        stale : BOOLEAN]

(* The free list and the handles share S among them, each of S in one place. *)
Split(list, handle, S) ==
    /\ \A i \in 1..Len(list) : list[i] \in S
    /\ \A i, j \in 1..Len(list) : list[i] = list[j] => i = j
    /\ \A f \in Fibers : handle[f] # None => handle[f] \in S
    /\ \A f, g \in Fibers : handle[f] # None /\ handle[f] = handle[g] => f = g
    /\ \A i \in 1..Len(list) : \A f \in Fibers : list[i] # handle[f]
    /\ \A b \in S : (\E i \in 1..Len(list) : list[i] = b) \/ (\E f \in Fibers : handle[f] = b)

(* The buffers and the slots that the constructors have got into the free lists. *)
BufsIn == IF wpc = "buffers" THEN filled ELSE bufCount
SlotsIn == IF wpc = "buffers" THEN 0 ELSE IF wpc = "slots" THEN filled ELSE fdCount

BufSplit == Split(free, buf, 0..(BufsIn - 1))
SlotSplit == Split(slots, slot, (0..(SlotsIn - 1)) \ lost) /\ lost \subseteq Slots

(* Before the constructors are done no fiber has run; worker() waits for all of them. *)
Phase ==
    /\ wpc \in {"buffers", "slots"} =>
          /\ lost = {} /\ sends = {} /\ ~slotsClosed
          /\ \A f \in Fibers : fpc[f] = "fn" /\ buf[f] = None /\ slot[f] = None
    /\ wpc = "slots" => Len(slots) = filled /\ filled < fdCount
    /\ wpc = "buffers" => slots = <<>>
    /\ wpc = "exited" => \A f \in Fibers : fpc[f] = "done"
    /\ wpc # "terminated" =>
          \A f \in Fibers : fpc[f] = "done" => buf[f] = None /\ slot[f] = None

(***************************************************************************)
(* A send is that of a fiber which waits and holds the buffer, one for     *)
(* each such fiber, or is left from a fiber that an exception has ended.   *)
(***************************************************************************)
SendsOwned ==
    wpc # "terminated" =>
        /\ \A s \in sends : ~s.stale => fpc[s.by] = "sending" /\ buf[s.by] = s.buf
        /\ \A s \in sends : s.stale => fpc[s.by] \in {"unwind", "done"}
        /\ \A r, s \in sends : ~r.stale /\ ~s.stale /\ r.by = s.by => r = s

TableOwned ==
    /\ \A f \in Fibers : slot[f] # None => table[slot[f]] = f
    /\ \A s \in Slots : table[s] # None => table[s] \in Fibers /\ slot[table[s]] = s

IInv == Types /\ BufSplit /\ SlotSplit /\ Phase /\ SendsOwned /\ TableOwned

-----------------------------------------------------------------------------
(* What the free list and the handles do to the split.                     *)

Handles == [Fibers -> Nat \cup {None}]

(* A constructor pushes a new index. *)
LEMMA SplitFill ==
    ASSUME NEW l, NEW m, NEW h \in Handles, NEW S, NEW e,
           Split(l, h, S), Pushed(l, m, e), e \notin S, e # None
    PROVE  Split(m, h, S \cup {e})
  <1>1. /\ Len(l) \in Nat /\ Len(m) = Len(l) + 1 /\ m[Len(l) + 1] = e
        /\ \A i \in 1..Len(l) : m[i] = l[i]
    BY Zenon DEF Pushed
  <1>2. /\ Len(l) + 1 \in 1..Len(m)
        /\ \A i \in 1..Len(l) : i \in 1..Len(m)
        /\ \A i \in 1..Len(m) : i \in 1..Len(l) \/ i = Len(l) + 1
    BY <1>1
  <1>3. \A i \in 1..Len(m) : \/ i \in 1..Len(l) /\ m[i] = l[i] /\ m[i] # e
                             \/ i = Len(l) + 1 /\ m[i] = e
    BY Zenon, <1>1, <1>2 DEF Split
  <1>4. \A i \in 1..Len(m) : m[i] \in S \cup {e}
    BY Zenon, <1>3 DEF Split
  <1>5. \A i, j \in 1..Len(m) : m[i] = m[j] => i = j
    BY Zenon, <1>3 DEF Split
  <1>6. \A f \in Fibers : h[f] # None => h[f] \in S \cup {e}
    BY Zenon DEF Split
  <1>7. ASSUME NEW i \in 1..Len(m), NEW f \in Fibers PROVE m[i] # h[f]
    <2>1. /\ \A j \in 1..Len(l) : l[j] # h[f]
          /\ h[f] # None => h[f] \in S
      BY Zenon DEF Split
    <2> QED
      BY Zenon, <1>3, <2>1
  <1>8. \A b \in S \cup {e} : (\E i \in 1..Len(m) : m[i] = b) \/ (\E f \in Fibers : h[f] = b)
    BY <1>1, <1>2 DEF Split
  <1> QED
    BY Zenon, <1>4, <1>5, <1>6, <1>7, <1>8 DEF Split

(* The front of the free list is popped. *)
LEMMA SplitPop ==
    ASSUME NEW l, NEW m, NEW h \in Handles, NEW S, NEW e, Split(l, h, S), Popped(l, m, e)
    PROVE  Split(m, h, S \ {e}) /\ e \in S
  <1>1. /\ Len(l) \in Nat \ {0} /\ Len(m) = Len(l) - 1 /\ l[1] = e
        /\ \A i \in 1..Len(m) : m[i] = l[i + 1]
    BY Zenon DEF Popped
  <1>2. /\ 1 \in 1..Len(l)
        /\ \A i \in 1..Len(m) : i + 1 \in 1..Len(l) /\ i + 1 # 1
        /\ \A i, j \in 1..Len(m) : i + 1 = j + 1 => i = j
        /\ \A i \in 1..Len(l) : i = 1 \/ \E j \in 1..Len(m) : i = j + 1
    <2>1. \A i \in 1..Len(l) : i = 1 \/ (i - 1 \in 1..Len(m) /\ i = i - 1 + 1)
      BY <1>1
    <2> QED
      BY <1>1, <2>1
  <1>3. e \in S /\ \A f \in Fibers : h[f] # e
    BY Zenon, <1>1, <1>2 DEF Split
  <1>4. \A i \in 1..Len(m) : m[i] \in S \ {e}
    BY <1>1, <1>2 DEF Split
  <1>5. \A i, j \in 1..Len(m) : m[i] = m[j] => i = j
    BY <1>1, <1>2 DEF Split
  <1>6. \A f \in Fibers : h[f] # None => h[f] \in S \ {e}
    BY Zenon, <1>3 DEF Split
  <1>7. ASSUME NEW i \in 1..Len(m), NEW f \in Fibers PROVE m[i] # h[f]
    <2>1. /\ \A j \in 1..Len(l) : l[j] # h[f]
          /\ h[f] # None => h[f] \in S
      BY Zenon DEF Split
    <2> QED
      BY ZenonT(60), <1>1, <1>2, <2>1
  <1>8. ASSUME NEW b \in S, b # e
        PROVE  (\E i \in 1..Len(m) : m[i] = b) \/ (\E f \in Fibers : h[f] = b)
    <2>1. ASSUME NEW i \in 1..Len(l), l[i] = b PROVE \E j \in 1..Len(m) : m[j] = b
      <3>1. i # 1
        BY Zenon, <1>1, <1>8, <2>1
      <3>2. PICK j \in 1..Len(m) : i = j + 1
        BY Zenon, <1>2, <3>1
      <3>3. m[j] = b
        BY Zenon, <1>1, <2>1, <3>2
      <3> QED
        BY Zenon, <3>3
    <2> QED
      BY Zenon, <2>1 DEF Split
  <1> QED
    BY Zenon, <1>3, <1>4, <1>5, <1>6, <1>7, <1>8 DEF Split

(* Fiber f, without a handle, gets a new one. *)
LEMMA SplitHold ==
    ASSUME NEW l, NEW h \in Handles, NEW S, NEW e, NEW f \in Fibers,
           Split(l, h, S), h[f] = None, None \notin S, e \notin S, e # None
    PROVE  Split(l, [h EXCEPT ![f] = e], S \cup {e})
  <1> DEFINE k == [h EXCEPT ![f] = e]
  <1>1. k[f] = e /\ \A g \in Fibers : g # f => k[g] = h[g] /\ h[g] # e
    BY Zenon DEF Split, Handles
  <1> HIDE DEF k
  <1>2. \A i \in 1..Len(l) : l[i] \in S \cup {e} /\ l[i] # e
    BY Zenon DEF Split
  <1>3. \A g \in Fibers : k[g] # None => k[g] \in S \cup {e}
    BY Zenon, <1>1 DEF Split
  <1>4. \A a, b \in Fibers : k[a] # None /\ k[a] = k[b] => a = b
    BY <1>1 DEF Split
  <1>5. ASSUME NEW i \in 1..Len(l), NEW g \in Fibers PROVE l[i] # k[g]
    <2>1. /\ \A j \in 1..Len(l) : l[j] # h[g]
          /\ h[g] # None => h[g] \in S
      BY Zenon DEF Split
    <2> QED
      BY Zenon, <1>1, <1>2, <2>1
  <1>6. ASSUME NEW b \in S \cup {e}
        PROVE  (\E i \in 1..Len(l) : l[i] = b) \/ (\E g \in Fibers : k[g] = b)
    <2>1. CASE b = e
      BY Zenon, <1>1, <2>1
    <2>2. CASE \E i \in 1..Len(l) : l[i] = b
      BY Zenon, <2>2
    <2>3. ASSUME NEW g \in Fibers, h[g] = b, b # e PROVE \E a \in Fibers : k[a] = b
      <3>1. g # f
        BY Zenon, <1>6, <2>3
      <3> QED
        BY Zenon, <1>1, <2>3, <3>1
    <2> QED
      BY Zenon, <1>6, <2>1, <2>2, <2>3 DEF Split
  <1> QED
    BY Zenon, <1>2, <1>3, <1>4, <1>5, <1>6 DEF Split, k

(* Fiber f gives up its handle. *)
LEMMA SplitDrop ==
    ASSUME NEW l, NEW h \in Handles, NEW S, NEW f \in Fibers,
           Split(l, h, S), h[f] # None, None \notin S
    PROVE  Split(l, [h EXCEPT ![f] = None], S \ {h[f]}) /\ h[f] \in S
  <1> DEFINE k == [h EXCEPT ![f] = None]
             e == h[f]
  <1>1. /\ k[f] = None /\ e \in S /\ e # None
        /\ \A g \in Fibers : g # f => k[g] = h[g] /\ h[g] # e
    BY Zenon DEF Split, Handles
  <1>2. \A g \in Fibers : k[g] # None => k[g] \in S \ {e}
    BY Zenon, <1>1 DEF Split
  <1>3. \A i \in 1..Len(l) : l[i] \in S \ {e}
    BY Zenon DEF Split
  <1> HIDE DEF k
  <1>4. \A a, b \in Fibers : k[a] # None /\ k[a] = k[b] => a = b
    BY <1>1 DEF Split
  <1>5. ASSUME NEW i \in 1..Len(l), NEW g \in Fibers PROVE l[i] # k[g]
    <2>1. /\ \A j \in 1..Len(l) : l[j] # h[g]
          /\ h[g] # None => h[g] \in S
      BY Zenon DEF Split
    <2> QED
      BY Zenon, <1>1, <1>3, <2>1
  <1>6. \A b \in S \ {e} : (\E i \in 1..Len(l) : l[i] = b) \/ (\E g \in Fibers : k[g] = b)
    BY <1>1 DEF Split
  <1> QED
    BY Zenon, <1>1, <1>2, <1>3, <1>4, <1>5, <1>6 DEF Split, k

(* Fiber f returns what it has. *)
LEMMA SplitReturn ==
    ASSUME NEW l, NEW m, NEW h \in Handles, NEW S, NEW f \in Fibers,
           Split(l, h, S), None \notin S, h[f] # None, Pushed(l, m, h[f])
    PROVE  Split(m, [h EXCEPT ![f] = None], S)
  <1> DEFINE k == [h EXCEPT ![f] = None]
             e == h[f]
             T == S \ {e}
  <1>1. Split(l, k, T) /\ e \in S
    BY Zenon, SplitDrop
  <1>2. k \in Handles /\ e \notin T /\ T \cup {e} = S /\ Pushed(l, m, e) /\ e # None
    BY <1>1 DEF Handles
  <1> HIDE DEF k, e, T
  <1>3. Split(m, k, T \cup {e})
    BY Zenon, <1>1, <1>2, SplitFill
  <1> QED
    BY Zenon, <1>2, <1>3 DEF k

(* Fiber f passes its handle on to g, which has none. *)
LEMMA SplitPass ==
    ASSUME NEW l, NEW h \in Handles, NEW S, NEW f \in Fibers, NEW g \in Fibers, f # g,
           Split(l, h, S), None \notin S, h[f] # None, h[g] = None
    PROVE  Split(l, [h EXCEPT ![g] = h[f], ![f] = None], S)
  <1> DEFINE k == [h EXCEPT ![f] = None]
             e == h[f]
             T == S \ {e}
  <1>1. Split(l, k, T) /\ e \in S
    BY Zenon, SplitDrop
  <1>2. /\ k \in Handles /\ k[g] = None /\ None \notin T /\ e \notin T /\ T \cup {e} = S
        /\ e # None
    BY <1>1 DEF Handles
  <1>3. [k EXCEPT ![g] = e] = [h EXCEPT ![g] = h[f], ![f] = None]
    BY DEF Handles
  <1> HIDE DEF k, e, T
  <1>4. Split(l, [k EXCEPT ![g] = e], T \cup {e})
    BY Zenon, <1>1, <1>2, SplitHold
  <1> QED
    BY Zenon, <1>2, <1>3, <1>4

(* Fiber f gets the front of the free list; it had no handle. *)
LEMMA SplitTake ==
    ASSUME NEW l, NEW m, NEW h \in Handles, NEW S, NEW e, NEW f \in Fibers,
           Split(l, h, S), None \notin S, h[f] = None, Popped(l, m, e)
    PROVE  Split(m, [h EXCEPT ![f] = e], S)
  <1> DEFINE T == S \ {e}
  <1>1. Split(m, h, T) /\ e \in S
    BY Zenon, SplitPop
  <1>2. None \notin T /\ e \notin T /\ T \cup {e} = S /\ e # None
    BY <1>1
  <1> HIDE DEF T
  <1>3. Split(m, [h EXCEPT ![f] = e], T \cup {e})
    BY Zenon, <1>1, <1>2, SplitHold
  <1> QED
    BY Zenon, <1>2, <1>3

(* borrow and acquire: a handle is assigned the front of the free list. *)
LEMMA SplitAssign ==
    ASSUME NEW l \in Seq(Nat), NEW h \in Handles, NEW S, NEW f \in Fibers,
           Split(l, h, S), None \notin S, l # <<>>
    PROVE  Split(Give(Tail(l), h[f]), [h EXCEPT ![f] = Head(l)], S)
  <1> DEFINE m == Tail(l)
             e == Head(l)
  <1>1. m \in Seq(Nat) /\ e \in Nat /\ Popped(l, m, e)
    BY Zenon, PopFront
  <1> HIDE DEF m, e
  <1>2. CASE h[f] = None
    <2>1. Split(m, [h EXCEPT ![f] = e], S)
      BY Zenon, <1>1, <1>2, SplitTake
    <2> QED
      BY Zenon, <1>2, <2>1 DEF Give, m, e
  <1>3. CASE h[f] # None
    <2> DEFINE T == S \ {e}
               k == [h EXCEPT ![f] = None]
               n == Append(m, h[f])
    <2>1. Split(m, h, T) /\ e \in S
      BY Zenon, <1>1, SplitPop
    <2>2. h[f] \in Nat
      BY Zenon, <1>3 DEF Handles
    <2>3. Pushed(m, n, h[f])
      BY Zenon, <1>1, <2>2, PushBack
    <2>4. /\ None \notin T /\ e \notin T /\ T \cup {e} = S /\ e # None
          /\ k \in Handles /\ k[f] = None /\ [k EXCEPT ![f] = e] = [h EXCEPT ![f] = e]
      BY <2>1 DEF Handles
    <2>5. n = Give(m, h[f])
      BY Zenon, <1>3 DEF Give
    <2> HIDE DEF T, k, n
    <2>6. Split(n, k, T)
      BY Zenon, <1>3, <2>1, <2>3, <2>4, SplitReturn DEF k
    <2>7. Split(n, [k EXCEPT ![f] = e], T \cup {e})
      BY Zenon, <2>4, <2>6, SplitHold
    <2> QED
      BY Zenon, <2>4, <2>5, <2>7 DEF m, e
  <1> QED
    BY Zenon, <1>2, <1>3

(* A handle is moved to another one, which first gives back what it has. *)
LEMMA SplitMove ==
    ASSUME NEW l \in Seq(Nat), NEW h \in Handles, NEW S, NEW f \in Fibers, NEW g \in Fibers,
           Split(l, h, S), None \notin S, f # g, h[f] # None
    PROVE  Split(Give(l, h[g]), [h EXCEPT ![g] = h[f], ![f] = None], S)
  <1>1. CASE h[g] = None
    BY Zenon, <1>1, SplitPass DEF Give
  <1>2. CASE h[g] # None
    <2> DEFINE k == [h EXCEPT ![g] = None]
               n == Append(l, h[g])
    <2>1. h[g] \in Nat
      BY Zenon, <1>2 DEF Handles
    <2>2. Pushed(l, n, h[g]) /\ n = Give(l, h[g])
      BY Zenon, <1>2, <2>1, PushBack DEF Give
    <2>3. Split(n, k, S)
      BY Zenon, <1>2, <2>2, SplitReturn
    <2>4. /\ k \in Handles /\ k[f] = h[f] /\ k[g] = None
          /\ [k EXCEPT ![g] = k[f], ![f] = None] = [h EXCEPT ![g] = h[f], ![f] = None]
      BY DEF Handles
    <2> HIDE DEF k, n
    <2>5. Split(n, [k EXCEPT ![g] = k[f], ![f] = None], S)
      BY Zenon, <2>3, <2>4, SplitPass
    <2> QED
      BY Zenon, <2>2, <2>4, <2>5
  <1> QED
    BY Zenon, <1>1, <1>2

-----------------------------------------------------------------------------
(* The counts are positive, and a channel of fdCount has room for fdCount. *)
LEMMA Counts ==
    ASSUME fdCount \in FdCounts
    PROVE  /\ fdCount \in Nat /\ fdCount >= 1
           /\ SlotList!Usable(fdCount) \in Nat /\ SlotList!Usable(fdCount) >= fdCount
  BY CountAssumption

(* The initial states. *)
LEMMA InitInv == ASSUME Init PROVE IInv
  <1>1. PICK n \in BufCounts : bufCount = BufCount(n)
    BY Zenon DEF Init
  <1>2. /\ fdCount \in FdCounts /\ wpc = "buffers" /\ filled = 0
        /\ free = <<>> /\ slots = <<>> /\ freeClosed = FALSE /\ slotsClosed = FALSE
        /\ table = [s \in Slots |-> None] /\ lost = {}
        /\ fpc = [f \in Fibers |-> "fn"] /\ result = [f \in Fibers |-> "ok"] /\ sends = {}
        /\ buf = [f \in Fibers |-> None] /\ slot = [f \in Fibers |-> None]
    BY Zenon DEF Init, FreeList!Init, SlotList!Init, Slots
  <1>3. bufCount \in Nat
    <2>1. n \in Nat /\ FreeList!BitCeil(n) \in Nat
      BY Zenon, <1>1, CountAssumption
    <2> QED
      BY <1>1, <2>1 DEF BufCount
  <1>4. Types
    <2>1. free \in Seq(Nat) /\ slots \in Seq(Nat) /\ filled \in Nat
      BY <1>2
    <2> QED
      BY Zenon, <1>2, <1>3, <2>1 DEF Types, PCs
  <1>5. Len(free) = 0 /\ Len(slots) = 0 /\ 0..(BufsIn - 1) = {} /\ 0..(SlotsIn - 1) = {}
    BY <1>2 DEF BufsIn, SlotsIn
  <1>6. 1..Len(free) = {} /\ 1..Len(slots) = {}
    BY <1>5
  <1>7. BufSplit /\ SlotSplit
    BY Zenon, <1>2, <1>5, <1>6 DEF BufSplit, SlotSplit, Split
  <1>8. Phase /\ SendsOwned /\ TableOwned
    BY Zenon, <1>2 DEF Phase, SendsOwned, TableOwned
  <1> QED
    BY Zenon, <1>4, <1>7, <1>8 DEF IInv

-----------------------------------------------------------------------------
(* The steps in which no fiber gets or gives back a resource. *)
Keeps == UNCHANGED <<bufCount, fdCount, free, slots, table, lost, buf, slot>>

(* Every step of a fiber in which its handles stay, the kernel's steps and Exit. *)
LEMMA Quiet ==
    ASSUME Next
    PROVE  \/ Keeps
           \/ Fill
           \/ \E f \in Fibers : \/ Borrow(f) \/ Return(f) \/ Acquire(f) \/ AcquireFails(f)
                                \/ Release(f) \/ \E g \in Fibers : Move(f, g)
  <1>1. CASE Exit \/ KernelStep
    BY Zenon, <1>1 DEF Exit, KernelStep, SubmitOther, SendCqe, NotifCqe, DestroyPools,
                  FreeList!Close, SlotList!Close, Keeps, workerVars, poolVars, tableVars
  <1>2. ASSUME NEW f \in Fibers,
               \/ Request(f) \/ UpdateFails(f) \/ ReleaseTerminates(f) \/ Finish(f)
               \/ SendZc(f) \/ SendZcThrows(f)
        PROVE  Keeps
    BY Zenon, <1>2 DEF Request, UpdateFails, ReleaseTerminates, Finish, SendZc, SendZcThrows,
                  Keeps, workerVars, poolVars, tableVars
  <1> QED
    BY Zenon, <1>1, <1>2 DEF Next, FiberStep

(* A worker's step fills a free list, or closes both. *)
LEMMA FillEffect ==
    ASSUME Types, Phase, Fill
    PROVE  /\ UNCHANGED <<bufCount, fdCount, table, lost, fpc, buf, slot, result, sends>>
           /\ filled' \in Nat /\ UNCHANGED <<freeClosed, slotsClosed>>
           /\ \/ /\ wpc = "buffers" /\ free' = Append(free, filled) /\ slots' = slots
                 /\ \/ wpc' = "buffers" /\ filled' = filled + 1
                    \/ wpc' = "slots" /\ filled' = 0 /\ filled + 1 = bufCount
              \/ /\ wpc = "slots" /\ slots' = Append(slots, filled) /\ free' = free
                 /\ filled' = filled + 1
                 /\ \/ wpc' = "slots" /\ filled + 1 # fdCount
                    \/ wpc' = "running" /\ filled + 1 = fdCount
  <1>1. filled \in Nat /\ fdCount \in FdCounts
    BY Zenon DEF Types
  <1>2. UNCHANGED <<bufCount, fdCount, table, lost, fpc, buf, slot, result, sends>>
    BY Zenon DEF Fill
  <1>3. CASE wpc = "buffers"
    <2>1. /\ FreeList!Push(bufCount, filled) /\ UNCHANGED <<slots, slotsClosed>>
          /\ \/ wpc' = "buffers" /\ filled' = filled + 1
             \/ wpc' = "slots" /\ filled' = 0 /\ filled + 1 = bufCount
      BY <1>3 DEF Fill, LastIndex
    <2>2. free' = Append(free, filled) /\ UNCHANGED freeClosed
      BY Zenon, <2>1 DEF FreeList!Push
    <2>3. filled' \in Nat
      BY <1>1, <2>1
    <2> QED
      BY Zenon, <1>2, <1>3, <2>1, <2>2, <2>3
  <1>4. CASE wpc = "slots"
    <2>1. /\ SlotList!TryPush(fdCount, filled) /\ UNCHANGED <<free, freeClosed>>
          /\ filled' = filled + 1
          /\ \/ wpc' = "slots" /\ filled + 1 # fdCount
             \/ wpc' = "running" /\ filled + 1 = fdCount
      BY <1>4 DEF Fill, LastIndex, poolVars
    <2>2. ~slotsClosed /\ Len(slots) = filled /\ filled < fdCount
      BY Zenon, <1>4 DEF Phase
    <2>3. Len(slots) < SlotList!Usable(fdCount)
      BY <1>1, <2>2, Counts
    <2>4. slots' = Append(slots, filled) /\ UNCHANGED slotsClosed
      BY Zenon, <2>1, <2>2, <2>3 DEF SlotList!TryPush, SlotList!HasRoom
    <2>5. filled' \in Nat
      BY <1>1, <2>1
    <2> QED
      BY Zenon, <1>2, <1>4, <2>1, <2>4, <2>5
  <1> QED
    BY Zenon, <1>3, <1>4 DEF Fill

(* What a fiber's step does to the two pools. *)
LEMMA Exchanges ==
    ASSUME Types, NEW f \in Fibers
    PROVE  /\ Borrow(f) => /\ free # <<>> /\ free' = Give(Tail(free), buf[f])
                           /\ buf' = [buf EXCEPT ![f] = Head(free)]
                           /\ fpc[f] = "borrow" /\ fpc' = [fpc EXCEPT ![f] = "fn"]
                           /\ UNCHANGED <<slots, table, lost, slot, sends>>
           /\ Return(f) => /\ buf[f] # None /\ free' = Append(free, buf[f])
                           /\ buf' = [buf EXCEPT ![f] = None] /\ fpc[f] \in {"fn", "unwind"}
                           /\ UNCHANGED <<slots, table, lost, slot, sends, fpc>>
           /\ Acquire(f) => /\ slots # <<>> /\ slots' = Give(Tail(slots), slot[f])
                            /\ slot' = [slot EXCEPT ![f] = Head(slots)]
                            /\ table' = [s \in Slots |->
                                  IF s = Head(slots) THEN f
                                  ELSE IF s = slot[f] THEN None ELSE table[s]]
                            /\ fpc[f] = "acquire" /\ fpc' = [fpc EXCEPT ![f] = "fn"]
                            /\ UNCHANGED <<free, buf, lost, sends>>
           /\ AcquireFails(f) => /\ slots # <<>> /\ slots' = Tail(slots)
                                 /\ lost' = lost \cup {Head(slots)}
                                 /\ fpc[f] = "acquire" /\ fpc' = [fpc EXCEPT ![f] = "unwind"]
                                 /\ UNCHANGED <<free, buf, slot, table, sends>>
           /\ Release(f) => /\ slot[f] # None /\ slots' = Append(slots, slot[f])
                            /\ slot' = [slot EXCEPT ![f] = None]
                            /\ table' = [table EXCEPT ![slot[f]] = None]
                            /\ fpc[f] \in {"fn", "unwind"}
                            /\ UNCHANGED <<free, buf, lost, sends, fpc>>
           /\ Borrow(f) \/ Return(f) \/ Acquire(f) \/ AcquireFails(f) \/ Release(f) =>
                 UNCHANGED <<bufCount, fdCount, wpc, filled, result>>
  <1>1. DOMAIN table = Slots
    BY Zenon DEF Types
  <1> QED
    BY Zenon, <1>1 DEF Borrow, Return, Acquire, AcquireFails, Release, Goto, Cleared,
           FreeList!Push, SlotList!Push, workerVars, poolVars, tableVars

(* worker() goes on only by Fill and Exit, or the program is terminated. *)
LEMMA Stage ==
    ASSUME Next, ~Fill
    PROVE  /\ UNCHANGED <<bufCount, fdCount, filled>>
           /\ wpc' = wpc \/ (wpc = "running" /\ wpc' \in {"exited", "terminated"})
  <1>1. CASE Exit \/ KernelStep
    BY Zenon, <1>1 DEF Exit, KernelStep, SubmitOther, SendCqe, NotifCqe, workerVars
  <1>2. ASSUME NEW f \in Fibers, FiberStep(f), ~ReleaseTerminates(f) PROVE UNCHANGED workerVars
    BY Zenon, <1>2 DEF FiberStep, Request, Borrow, Return, Acquire, AcquireFails, UpdateFails,
                  Release, Finish, SendZc, SendZcThrows, Move
  <1>3. ASSUME NEW f \in Fibers, ReleaseTerminates(f)
        PROVE  /\ UNCHANGED <<bufCount, fdCount, filled>>
               /\ wpc = "running" /\ wpc' = "terminated"
    BY Zenon, <1>3 DEF ReleaseTerminates
  <1> QED
    BY Zenon, <1>1, <1>2, <1>3 DEF Next, workerVars

(* What the move of a buffer does. *)
LEMMA Moves ==
    ASSUME NEW f \in Fibers, NEW g \in Fibers, Move(f, g)
    PROVE  /\ f # g /\ buf[f] # None /\ fpc[f] = "fn" /\ fpc[g] = "fn"
           /\ buf' = [buf EXCEPT ![g] = buf[f], ![f] = None] /\ free' = Give(free, buf[g])
           /\ UNCHANGED <<bufCount, fdCount, wpc, filled, slots, table, lost, fpc, slot, result,
                          sends>>
  BY Zenon DEF Move, Moved, workerVars, tableVars

(* A list of indices with a handle's index given back is one of indices. *)
LEMMA GiveType ==
    ASSUME NEW l \in Seq(Nat), NEW b \in Nat \cup {None}
    PROVE  Give(l, b) \in Seq(Nat)
  BY DEF Give

(* The fibers and the sends in the steps that leave the resources alone. *)
LEMMA ControlTypes ==
    ASSUME Types, Next, ~Fill
    PROVE  /\ fpc' \in [Fibers -> PCs] /\ result' \in [Fibers -> {"ok", "error"}]
           /\ sends' \subseteq [by : Fibers, buf : Nat \cup {None},
                                at : {"ring", "kernel", "notify"}, stale : BOOLEAN]
  <1> DEFINE Sends == [by : Fibers, buf : Nat \cup {None}, at : {"ring", "kernel", "notify"},
                       stale : BOOLEAN]
  <1>1. /\ fpc \in [Fibers -> PCs] /\ result \in [Fibers -> {"ok", "error"}]
        /\ sends \subseteq Sends
    BY Zenon DEF Types
  <1>2. Submitted \subseteq Sends
    BY <1>1 DEF Submitted
  <1>3. ASSUME NEW f \in Fibers, NEW l \in PCs
        PROVE  [fpc EXCEPT ![f] = l] \in [Fibers -> PCs]
    BY Zenon, <1>1
  <1>4. \A s \in Sends : s.by \in Fibers /\ [s EXCEPT !.at = "notify"] \in Sends
    OBVIOUS
  <1>5. \A f \in Fibers, at \in {"ring", "kernel"}, stale \in BOOLEAN : Zc(f, at, stale) \in Sends
    BY DEF Zc, Types
  <1> HIDE DEF Sends
  <1>6. ASSUME NEW s \in sends, NEW res \in {"ok", "error"}, Woken(s.by, res)
        PROVE  fpc' \in [Fibers -> PCs]
    BY <1>1, <1>3, <1>4, <1>6 DEF Woken, Goto, PCs
  <1>7. CASE Exit \/ SubmitOther
    BY Zenon, <1>1, <1>2, <1>7 DEF Exit, SubmitOther, Sends
  <1>8. ASSUME NEW s \in sends, SendCqe(s) \/ NotifCqe(s)
        PROVE  /\ fpc' \in [Fibers -> PCs] /\ result' \in [Fibers -> {"ok", "error"}]
               /\ sends' \subseteq Sends
    <2>1. CASE SendCqe(s)
      <3>1. PICK res \in {"ok", "error"}, more \in BOOLEAN :
               /\ sends' = (sends \ {s}) \cup (IF more THEN {[s EXCEPT !.at = "notify"]} ELSE {})
               /\ result' = [result EXCEPT ![s.by] = res] /\ OnSend(s, res, more)
        BY Zenon, <2>1 DEF SendCqe
      <3>2. sends' \subseteq Sends
        BY Zenon, <1>1, <1>4, <3>1
      <3>3. fpc' \in [Fibers -> PCs]
        BY Zenon, <1>1, <1>6, <3>1 DEF OnSend
      <3> QED
        BY Zenon, <1>1, <3>1, <3>2, <3>3
    <2>2. CASE NotifCqe(s)
      <3>1. sends' = sends \ {s} /\ Woken(s.by, result[s.by]) /\ result' = result
        BY Zenon, <2>2 DEF NotifCqe
      <3>2. result[s.by] \in {"ok", "error"}
        BY Zenon, <1>1, <1>4
      <3>3. fpc' \in [Fibers -> PCs]
        BY Zenon, <1>6, <3>1, <3>2
      <3> QED
        BY Zenon, <1>1, <3>1, <3>3
    <2> QED
      BY Zenon, <1>8, <2>1, <2>2
  <1>9. ASSUME NEW f \in Fibers, FiberStep(f)
        PROVE  /\ fpc' \in [Fibers -> PCs] /\ result' \in [Fibers -> {"ok", "error"}]
               /\ sends' \subseteq Sends
    <2>1. result' = result
      BY Zenon, <1>9 DEF FiberStep, Request, Borrow, Return, Acquire, AcquireFails, UpdateFails,
                    Release, ReleaseTerminates, Finish, SendZc, SendZcThrows, Move
    <2>2. fpc' = fpc \/ (\E l \in PCs : fpc' = [fpc EXCEPT ![f] = l])
          \/ fpc' = [g \in Fibers |-> "done"]
      BY Zenon, <1>9 DEF FiberStep, Request, Borrow, Return, Acquire, AcquireFails, UpdateFails,
                    Release, ReleaseTerminates, Finish, SendZc, SendZcThrows, Move, Goto, PCs
    <2>3. fpc' \in [Fibers -> PCs]
      BY Zenon, <1>1, <1>3, <2>2 DEF PCs
    <2>4. \/ sends' = sends \/ sends' = Submitted \cup {Zc(f, "kernel", FALSE)}
          \/ sends' = sends \cup {Zc(f, "ring", TRUE)}
      BY Zenon, <1>9 DEF FiberStep, Request, Borrow, Return, Acquire, AcquireFails, UpdateFails,
                    Release, ReleaseTerminates, Finish, SendZc, SendZcThrows, Move
    <2>5. Zc(f, "kernel", FALSE) \in Sends /\ Zc(f, "ring", TRUE) \in Sends
      BY Zenon, <1>5
    <2>6. sends' \subseteq Sends
      BY Zenon, <1>1, <1>2, <2>4, <2>5
    <2> QED
      BY Zenon, <1>1, <2>1, <2>3, <2>6
  <1> QED
    BY Zenon, <1>7, <1>8, <1>9 DEF Next, KernelStep, Sends

(* The type of the state is kept. *)
LEMMA TypesStep ==
    ASSUME Types, SlotSplit, Phase, [Next]_vars
    PROVE  Types'
  <1>1. /\ free \in Seq(Nat) /\ slots \in Seq(Nat) /\ filled \in Nat /\ fdCount \in FdCounts
        /\ buf \in Handles /\ slot \in Handles /\ bufCount \in Nat
        /\ wpc \in {"buffers", "slots", "running", "exited", "terminated"}
        /\ table \in [Slots -> Fibers \cup {None}]
        /\ freeClosed \in BOOLEAN /\ slotsClosed \in BOOLEAN
    BY Zenon DEF Types, Handles
  <1>2. CASE UNCHANGED vars
    <2>1. UNCHANGED <<bufCount, fdCount, wpc, filled, free, freeClosed, slots, slotsClosed, table,
                      fpc, buf, slot, result, sends>>
      BY Zenon, <1>2 DEF vars, workerVars, poolVars, tableVars
    <2> QED
      BY Zenon, <2>1 DEF Types, Slots
  <1>3. CASE Fill
    <2>1. Append(free, filled) \in Seq(Nat) /\ Append(slots, filled) \in Seq(Nat)
      BY Zenon, <1>1, PushBack
    <2>2. free' \in Seq(Nat) /\ slots' \in Seq(Nat)
      BY Zenon, <1>1, <1>3, <2>1, FillEffect
    <2>3. wpc' \in {"buffers", "slots", "running"}
      BY Zenon, <1>3, FillEffect
    <2>4. /\ UNCHANGED <<bufCount, fdCount, table, fpc, buf, slot, result, sends, freeClosed,
                         slotsClosed>>
          /\ filled' \in Nat
      BY Zenon, <1>3, FillEffect
    <2> QED
      BY Zenon, <1>1, <2>2, <2>3, <2>4 DEF Types, Slots
  <1>4. CASE Next /\ ~Fill
    <2>1. UNCHANGED <<bufCount, fdCount, filled>> /\ wpc' \in {wpc, "exited", "terminated"}
      BY Zenon, <1>4, Stage
    <2>2. freeClosed' \in BOOLEAN /\ slotsClosed' \in BOOLEAN
      BY ZenonT(60), <1>1, <1>4 DEF Next, Exit, KernelStep, SubmitOther, SendCqe, NotifCqe, FiberStep,
             Request, Borrow, Return, Acquire, AcquireFails, UpdateFails, Release,
             ReleaseTerminates, Finish, SendZc, SendZcThrows, Move, poolVars, tableVars,
             DestroyPools, FreeList!Close, SlotList!Close, FreeList!Push, SlotList!Push
    <2>3. \A f \in Fibers : buf[f] \in Nat \cup {None} /\ slot[f] \in Nat \cup {None}
      BY Zenon, <1>1 DEF Handles
    <2> DEFINE Goal == /\ free' \in Seq(Nat) /\ slots' \in Seq(Nat) /\ buf' \in Handles
                       /\ slot' \in Handles /\ table' \in [Slots -> Fibers \cup {None}]
    <2>4. ASSUME Keeps PROVE Goal
      BY Zenon, <1>1, <2>4 DEF Keeps
    <2>5. ASSUME NEW f \in Fibers, Borrow(f) \/ Return(f) PROVE Goal
      <3>1. UNCHANGED <<slots, table, slot>>
        BY Zenon, <2>5, Exchanges
      <3>2. CASE Borrow(f)
        <4>1. free # <<>> /\ free' = Give(Tail(free), buf[f])
              /\ buf' = [buf EXCEPT ![f] = Head(free)]
          BY Zenon, <3>2, Exchanges
        <4>2. Tail(free) \in Seq(Nat) /\ Head(free) \in Nat
          BY Zenon, <1>1, <4>1, PopFront
        <4> QED
          BY Zenon, <1>1, <2>3, <3>1, <4>1, <4>2, GiveType DEF Handles
      <3>3. CASE Return(f)
        <4>1. buf[f] # None /\ free' = Append(free, buf[f]) /\ buf' = [buf EXCEPT ![f] = None]
          BY Zenon, <3>3, Exchanges
        <4>2. free' \in Seq(Nat)
          BY Zenon, <1>1, <2>3, <4>1, PushBack
        <4> QED
          BY Zenon, <1>1, <3>1, <4>1, <4>2 DEF Handles
      <3> QED
        BY Zenon, <2>5, <3>2, <3>3
    <2>6. ASSUME NEW f \in Fibers, Acquire(f) \/ AcquireFails(f) PROVE Goal
      <3>1. /\ slots # <<>> /\ UNCHANGED <<free, buf>>
            /\ slots' = Tail(slots) \/ slots' = Give(Tail(slots), slot[f])
            /\ slot' = slot \/ slot' = [slot EXCEPT ![f] = Head(slots)]
        BY Zenon, <2>6, Exchanges
      <3>2. Tail(slots) \in Seq(Nat) /\ Head(slots) \in Nat
        BY Zenon, <1>1, <3>1, PopFront
      <3>3. slots' \in Seq(Nat) /\ slot' \in Handles
        BY Zenon, <1>1, <2>3, <3>1, <3>2, GiveType DEF Handles
      <3>4. \/ table' = table
            \/ table' = [s \in Slots |-> IF s = Head(slots) THEN f
                                         ELSE IF s = slot[f] THEN None ELSE table[s]]
        BY Zenon, <2>6, Exchanges
      <3>5. table' \in [Slots -> Fibers \cup {None}]
        BY <1>1, <3>4
      <3> QED
        BY Zenon, <1>1, <3>1, <3>3, <3>5
    <2>7. ASSUME NEW f \in Fibers, Release(f) PROVE Goal
      <3>1. /\ slot[f] # None /\ slots' = Append(slots, slot[f])
            /\ slot' = [slot EXCEPT ![f] = None] /\ UNCHANGED <<free, buf>>
            /\ table' = [table EXCEPT ![slot[f]] = None]
        BY Zenon, <2>7, Exchanges
      <3>2. slots' \in Seq(Nat)
        BY Zenon, <1>1, <2>3, <3>1, PushBack
      <3> QED
        BY Zenon, <1>1, <3>1, <3>2 DEF Handles
    <2>8. ASSUME NEW f \in Fibers, NEW g \in Fibers, Move(f, g) PROVE Goal
      <3>1. /\ buf' = [buf EXCEPT ![g] = buf[f], ![f] = None] /\ free' = Give(free, buf[g])
            /\ UNCHANGED <<slots, slot, table>>
        BY Zenon, <2>8, Moves
      <3>2. buf' \in Handles
        BY <1>1, <2>3, <3>1 DEF Handles
      <3> QED
        BY Zenon, <1>1, <2>3, <3>1, <3>2, GiveType
    <2>9. Goal
      BY Zenon, <1>4, <2>4, <2>5, <2>6, <2>7, <2>8, Quiet
    <2> QED
      BY Zenon, <1>1, <1>4, <2>1, <2>2, <2>9, ControlTypes DEF Types, Handles, Slots
  <1> QED
    BY Zenon, <1>2, <1>3, <1>4

-----------------------------------------------------------------------------
(* The bounds of the two pools move only while a constructor fills them. *)
LEMMA Bounds ==
    ASSUME Types, [Next]_vars, ~Fill
    PROVE  UNCHANGED <<BufsIn, SlotsIn, fdCount, Slots>>
  <1>1. CASE UNCHANGED vars
    BY Zenon, <1>1 DEF BufsIn, SlotsIn, Slots, vars, workerVars
  <1>2. CASE Next
    BY Zenon, <1>2, Stage DEF BufsIn, SlotsIn, Slots
  <1> QED
    BY Zenon, <1>1, <1>2

(* Every buffer stays in one place. *)
LEMMA BufSplitStep ==
    ASSUME Types, BufSplit, Phase, [Next]_vars
    PROVE  BufSplit'
  <1>1. /\ free \in Seq(Nat) /\ filled \in Nat /\ buf \in Handles
        /\ \A f \in Fibers : buf[f] # None => buf[f] \in Nat
    BY Zenon DEF Types, Handles
  <1>2. Split(free, buf, 0..(BufsIn - 1))
    BY Zenon DEF BufSplit
  <1>3. CASE Fill
    <2>1. CASE wpc = "buffers"
      <3>1. free' = Append(free, filled) /\ buf' = buf /\ BufsIn' = filled + 1 /\ BufsIn = filled
        BY <1>3, <2>1, FillEffect DEF BufsIn
      <3>2. Pushed(free, free', filled)
        BY Zenon, <1>1, <3>1, PushBack
      <3> DEFINE S == 0..(BufsIn - 1)
      <3>3. S \cup {filled} = 0..(BufsIn' - 1) /\ filled \notin S /\ filled # None
        BY <1>1, <3>1 DEF None
      <3> HIDE DEF S
      <3>4. Split(free', buf, S \cup {filled})
        BY Zenon, <1>1, <1>2, <3>2, <3>3, SplitFill DEF S
      <3> QED
        BY Zenon, <3>1, <3>3, <3>4 DEF BufSplit
    <2>2. CASE wpc # "buffers"
      BY Zenon, <1>2, <1>3, <2>2, FillEffect DEF BufSplit, BufsIn
    <2> QED
      BY Zenon, <2>1, <2>2
  <1>4. CASE ~Fill
    <2> DEFINE S == 0..(BufsIn - 1)
    <2>1. None \notin S
      BY DEF None
    <2>2. SUFFICES Split(free', buf', S)
      BY Zenon, <1>4, Bounds DEF BufSplit
    <2>3. Split(free, buf, S)
      BY Zenon, <1>2
    <2> HIDE DEF S
    <2>4. CASE UNCHANGED <<free, buf>>
      BY Zenon, <2>3, <2>4
    <2>5. ASSUME NEW f \in Fibers, Borrow(f) PROVE Split(free', buf', S)
      <3>1. /\ free # <<>> /\ free' = Give(Tail(free), buf[f])
            /\ buf' = [buf EXCEPT ![f] = Head(free)]
        BY Zenon, <2>5, Exchanges
      <3> QED
        BY Zenon, <1>1, <2>1, <2>3, <3>1, SplitAssign
    <2>6. ASSUME NEW f \in Fibers, Return(f) PROVE Split(free', buf', S)
      <3>1. buf[f] # None /\ free' = Append(free, buf[f]) /\ buf' = [buf EXCEPT ![f] = None]
        BY Zenon, <2>6, Exchanges
      <3>2. Pushed(free, free', buf[f])
        BY Zenon, <1>1, <3>1, PushBack
      <3> QED
        BY Zenon, <1>1, <2>1, <2>3, <3>1, <3>2, SplitReturn
    <2>7. ASSUME NEW f \in Fibers, NEW g \in Fibers, Move(f, g) PROVE Split(free', buf', S)
      <3>1. /\ f # g /\ buf[f] # None /\ free' = Give(free, buf[g])
            /\ buf' = [buf EXCEPT ![g] = buf[f], ![f] = None]
        BY Zenon, <2>7, Moves
      <3> QED
        BY Zenon, <1>1, <2>1, <2>3, <3>1, SplitMove
    <2>8. ASSUME NEW f \in Fibers, Acquire(f) \/ AcquireFails(f) \/ Release(f)
          PROVE  UNCHANGED <<free, buf>>
      BY Zenon, <2>8, Exchanges
    <2>9. CASE Keeps \/ UNCHANGED vars
      BY Zenon, <2>4, <2>9 DEF Keeps, vars, poolVars
    <2> QED
      BY Zenon, <1>4, <2>4, <2>5, <2>6, <2>7, <2>8, <2>9, Quiet
  <1> QED
    BY Zenon, <1>3, <1>4

(* So does every slot, but the one whose install throws. *)
LEMMA SlotSplitStep ==
    ASSUME Types, SlotSplit, Phase, [Next]_vars
    PROVE  SlotSplit'
  <1>1. /\ slots \in Seq(Nat) /\ filled \in Nat /\ slot \in Handles
        /\ \A f \in Fibers : slot[f] # None => slot[f] \in Nat
        /\ fdCount \in Nat /\ fdCount >= 1
    BY Zenon, Counts DEF Types, Handles
  <1>2. Split(slots, slot, (0..(SlotsIn - 1)) \ lost) /\ lost \subseteq Slots
    BY Zenon DEF SlotSplit
  <1>3. CASE Fill
    <2>1. CASE wpc = "buffers"
      <3>1. UNCHANGED <<slots, slot, lost, fdCount>> /\ wpc' \in {"buffers", "slots"}
        BY Zenon, <1>3, <2>1, FillEffect
      <3>2. SlotsIn' = 0 /\ SlotsIn = 0
        BY <1>3, <2>1, FillEffect DEF SlotsIn
      <3> QED
        BY Zenon, <1>2, <3>1, <3>2 DEF SlotSplit, Slots
    <2>2. CASE wpc = "slots"
      <3>1. /\ slots' = Append(slots, filled) /\ UNCHANGED <<slot, lost, fdCount>>
            /\ SlotsIn' = filled + 1 /\ SlotsIn = filled /\ lost = {}
        BY <1>3, <2>2, FillEffect DEF SlotsIn, Phase
      <3>2. Pushed(slots, slots', filled)
        BY Zenon, <1>1, <3>1, PushBack
      <3> DEFINE S == (0..(SlotsIn - 1)) \ lost
      <3>3. S \cup {filled} = (0..(SlotsIn' - 1)) \ lost' /\ filled \notin S /\ filled # None
        BY <1>1, <3>1 DEF None
      <3> HIDE DEF S
      <3>4. Split(slots', slot, S \cup {filled})
        BY Zenon, <1>1, <1>2, <3>2, <3>3, SplitFill DEF S
      <3> QED
        BY Zenon, <1>2, <3>1, <3>3, <3>4 DEF SlotSplit, Slots
    <2> QED
      BY Zenon, <1>3, <2>1, <2>2, FillEffect
  <1>4. CASE ~Fill
    <2> DEFINE S == (0..(SlotsIn - 1)) \ lost
    <2>1. None \notin S /\ UNCHANGED <<SlotsIn, Slots>>
      BY <1>4, Bounds DEF None
    <2>2. Split(slots, slot, S)
      BY Zenon, <1>2
    <2>3. ASSUME lost' = lost, Split(slots', slot', S) PROVE SlotSplit'
      BY Zenon, <1>2, <2>1, <2>3 DEF SlotSplit
    <2>4. CASE UNCHANGED <<slots, slot, lost>>
      BY Zenon, <2>2, <2>3, <2>4
    <2>5. ASSUME NEW f \in Fibers, AcquireFails(f) PROVE SlotSplit'
      <3> DEFINE e == Head(slots)
                 T == S \ {e}
      <3>1. slots # <<>> /\ slots' = Tail(slots) /\ lost' = lost \cup {e} /\ slot' = slot
        BY Zenon, <2>5, Exchanges
      <3>2. Popped(slots, slots', e)
        BY Zenon, <1>1, <3>1, PopFront
      <3>3. T = (0..(SlotsIn' - 1)) \ lost'
        BY <2>1, <3>1
      <3>4. wpc \notin {"buffers", "slots"}
        BY Zenon, <2>5 DEF AcquireFails, Phase
      <3>5. S \subseteq Slots
        BY <3>4 DEF SlotsIn, Slots
      <3> HIDE DEF S, e, T
      <3>6. Split(slots', slot, T) /\ e \in S
        BY Zenon, <1>1, <2>2, <3>2, SplitPop DEF T
      <3> QED
        BY Zenon, <1>2, <2>1, <3>1, <3>3, <3>5, <3>6 DEF SlotSplit
    <2> HIDE DEF S
    <2>6. ASSUME NEW f \in Fibers, Acquire(f) PROVE SlotSplit'
      <3>1. /\ slots # <<>> /\ slots' = Give(Tail(slots), slot[f])
            /\ slot' = [slot EXCEPT ![f] = Head(slots)] /\ lost' = lost
        BY Zenon, <2>6, Exchanges
      <3>2. Split(slots', slot', S)
        BY Zenon, <1>1, <2>1, <2>2, <3>1, SplitAssign
      <3> QED
        BY Zenon, <2>3, <3>1, <3>2
    <2>7. ASSUME NEW f \in Fibers, Release(f) PROVE SlotSplit'
      <3>1. /\ slot[f] # None /\ slots' = Append(slots, slot[f])
            /\ slot' = [slot EXCEPT ![f] = None] /\ lost' = lost
        BY Zenon, <2>7, Exchanges
      <3>2. Pushed(slots, slots', slot[f])
        BY Zenon, <1>1, <3>1, PushBack
      <3>3. Split(slots', slot', S)
        BY Zenon, <1>1, <2>1, <2>2, <3>1, <3>2, SplitReturn
      <3> QED
        BY Zenon, <2>3, <3>1, <3>3
    <2>8. ASSUME NEW f \in Fibers,
                 Borrow(f) \/ Return(f) \/ \E g \in Fibers : Move(f, g)
          PROVE  UNCHANGED <<slots, slot, lost>>
      BY Zenon, <2>8, Exchanges, Moves
    <2>9. CASE Keeps \/ UNCHANGED vars
      BY Zenon, <2>4, <2>9 DEF Keeps, vars, tableVars
    <2> QED
      BY Zenon, <1>4, <2>4, <2>5, <2>6, <2>7, <2>8, <2>9, Quiet
  <1> QED
    BY Zenon, <1>3, <1>4

-----------------------------------------------------------------------------
(* While the constructors run, nothing else can happen on the thread. *)
LEMMA OnlyFill ==
    ASSUME Phase, Next, wpc \in {"buffers", "slots"}
    PROVE  Fill
  <1>1. /\ sends = {} /\ wpc # "running"
        /\ \A f \in Fibers : fpc[f] = "fn" /\ buf[f] = None /\ slot[f] = None
    BY Zenon DEF Phase
  <1>2. ~Exit /\ ~KernelStep
    BY Zenon, <1>1 DEF Exit, KernelStep, SubmitOther
  <1>3. \A f \in Fibers : ~FiberStep(f)
    BY ZenonT(60), <1>1 DEF FiberStep, Request, Borrow, Return, Acquire, AcquireFails, UpdateFails,
                  Release, ReleaseTerminates, Finish, SendZc, SendZcThrows, Move
  <1> QED
    BY Zenon, <1>2, <1>3 DEF Next

(* A completion wakes a fiber only where it waits in a send. *)
LEMMA Wakes ==
    ASSUME Types, NEW s \in sends, SendCqe(s) \/ NotifCqe(s)
    PROVE  /\ s.by \in Fibers
           /\ fpc' = fpc \/ (fpc[s.by] = "sending" /\ \E l \in {"fn", "unwind"} :
                                fpc' = [fpc EXCEPT ![s.by] = l])
           /\ UNCHANGED <<wpc, buf, slot>>
  <1>1. s.by \in Fibers
    BY DEF Types
  <1>2. ASSUME NEW res, Woken(s.by, res)
        PROVE  fpc' = fpc \/ (fpc[s.by] = "sending" /\ \E l \in {"fn", "unwind"} :
                                fpc' = [fpc EXCEPT ![s.by] = l])
    BY Zenon, <1>2 DEF Woken, Goto
  <1>3. CASE SendCqe(s)
    BY Zenon, <1>1, <1>2, <1>3 DEF SendCqe, OnSend, workerVars
  <1>4. CASE NotifCqe(s)
    BY Zenon, <1>1, <1>2, <1>4 DEF NotifCqe, workerVars
  <1> QED
    BY Zenon, <1>3, <1>4

(* What a fiber's step leaves as it is in a fiber that waits in a send or has thrown. *)
Steady ==
    \A g \in Fibers :
        /\ fpc[g] = "sending" => fpc'[g] = "sending" /\ buf'[g] = buf[g]
        /\ fpc[g] \in {"unwind", "done"} => fpc'[g] \in {"unwind", "done"}
        /\ fpc[g] = "done" => fpc'[g] = "done" /\ buf'[g] = buf[g] /\ slot'[g] = slot[g]

(* A fiber's step moves only that fiber, and takes it to its end without handles. *)
LEMMA FiberEffect ==
    ASSUME Types, NEW f \in Fibers, FiberStep(f), ~ReleaseTerminates(f)
    PROVE  /\ Steady /\ wpc' = wpc /\ fpc[f] # "done"
           /\ \A g \in Fibers : fpc'[g] = "done" /\ fpc[g] # "done" =>
                 fpc' = [fpc EXCEPT ![f] = "done"] /\ g = f /\ buf'[g] = None /\ slot'[g] = None
  <1>1. fpc \in [Fibers -> PCs] /\ buf \in Handles /\ slot \in Handles
    BY Zenon DEF Types, Handles
  <1>2. wpc' = wpc
    BY Zenon DEF FiberStep, Request, Borrow, Return, Acquire, AcquireFails, UpdateFails,
                  Release, Finish, SendZc, SendZcThrows, Move, workerVars
  (* Who holds its handles through the step, and where the fiber goes. *)
  <1>3. ASSUME NEW l, fpc' = [fpc EXCEPT ![f] = l], l # "done",
               fpc[f] \in {"fn", "borrow", "acquire"},
               \A g \in Fibers : g # f => buf'[g] = buf[g] /\ slot'[g] = slot[g]
        PROVE  /\ Steady /\ fpc[f] # "done"
               /\ \A g \in Fibers : fpc'[g] = "done" => fpc[g] = "done"
    BY <1>1, <1>3 DEF Steady
  <1>4. CASE Request(f) \/ Borrow(f) \/ Acquire(f) \/ AcquireFails(f) \/ UpdateFails(f)
             \/ SendZc(f) \/ SendZcThrows(f)
    <2>1. /\ fpc[f] \in {"fn", "borrow", "acquire"}
          /\ \E l \in PCs \ {"done"} : fpc' = [fpc EXCEPT ![f] = l]
      BY <1>4 DEF Request, Borrow, Acquire, AcquireFails, UpdateFails, SendZc, SendZcThrows, Goto,
                  PCs
    <2>2. /\ buf' = buf \/ buf' = [buf EXCEPT ![f] = Head(free)]
          /\ slot' = slot \/ slot' = [slot EXCEPT ![f] = Head(slots)]
      BY Zenon, <1>4 DEF Request, Borrow, Acquire, AcquireFails, UpdateFails, SendZc, SendZcThrows
    <2>3. \A g \in Fibers : g # f => buf'[g] = buf[g] /\ slot'[g] = slot[g]
      BY Zenon, <1>1, <2>2 DEF Handles
    <2> QED
      BY Zenon, <1>2, <1>3, <2>1, <2>3
  <1>5. CASE Return(f) \/ Release(f)
    <2>1. /\ fpc[f] \in {"fn", "unwind"} /\ fpc' = fpc
          /\ buf' = buf \/ buf' = [buf EXCEPT ![f] = None]
          /\ slot' = slot \/ slot' = [slot EXCEPT ![f] = None]
      BY Zenon, <1>5 DEF Return, Release
    <2>2. \A g \in Fibers : g # f => buf'[g] = buf[g] /\ slot'[g] = slot[g]
      BY Zenon, <1>1, <2>1 DEF Handles
    <2> QED
      BY <1>1, <1>2, <2>1, <2>2 DEF Steady
  <1>6. CASE Finish(f)
    <2>1. /\ fpc[f] \in {"fn", "unwind"} /\ fpc' = [fpc EXCEPT ![f] = "done"]
          /\ buf[f] = None /\ slot[f] = None /\ UNCHANGED <<buf, slot>>
      BY Zenon, <1>6 DEF Finish, Goto
    <2> QED
      BY <1>1, <1>2, <2>1 DEF Steady
  <1>7. ASSUME NEW g \in Fibers, Move(f, g)
        PROVE  /\ Steady /\ fpc[f] # "done" /\ fpc' = fpc
    <2>1. /\ fpc[f] = "fn" /\ fpc[g] = "fn" /\ fpc' = fpc /\ slot' = slot
          /\ buf' = [buf EXCEPT ![g] = buf[f], ![f] = None]
      BY Zenon, <1>7, Moves
    <2>2. \A h \in Fibers : h # f /\ h # g => buf'[h] = buf[h]
      BY Zenon, <1>1, <2>1 DEF Handles
    <2> QED
      BY <2>1, <2>2 DEF Steady
  <1> QED
    BY Zenon, <1>2, <1>4, <1>5, <1>6, <1>7 DEF FiberStep

(* worker() starts the fibers when both pools are full, and ends after them. *)
LEMMA PhaseStep ==
    ASSUME Types, Phase, [Next]_vars
    PROVE  Phase'
  <1>1. fpc \in [Fibers -> PCs] /\ filled \in Nat /\ slots \in Seq(Nat)
    BY Zenon DEF Types
  <1>2. CASE UNCHANGED vars
    <2>1. UNCHANGED <<fdCount, wpc, filled, slots, slotsClosed, lost, fpc, buf, slot, sends>>
      BY Zenon, <1>2 DEF vars, workerVars, tableVars
    <2> QED
      BY Zenon, <2>1 DEF Phase
  <1>3. CASE Fill
    <2>1. /\ wpc \in {"buffers", "slots"} /\ wpc' \in {"buffers", "slots", "running"}
          /\ UNCHANGED <<fdCount, lost, fpc, buf, slot, sends, slotsClosed>>
      BY Zenon, <1>3, FillEffect
    <2>2. /\ lost = {} /\ sends = {} /\ ~slotsClosed
          /\ \A f \in Fibers : fpc[f] = "fn" /\ buf[f] = None /\ slot[f] = None
      BY Zenon, <2>1 DEF Phase
    <2>3. ASSUME wpc' = "slots" PROVE Len(slots') = filled' /\ filled' < fdCount
      <3>1. fdCount \in Nat /\ fdCount >= 1
        BY Zenon, Counts DEF Types
      <3>2. CASE wpc = "buffers"
        <4>1. slots' = <<>> /\ filled' = 0
          BY Zenon, <1>3, <2>3, <3>2, FillEffect DEF Phase
        <4> QED
          BY <3>1, <4>1
      <3>3. CASE wpc = "slots"
        <4>1. /\ slots' = Append(slots, filled) /\ filled' = filled + 1 /\ filled + 1 # fdCount
              /\ Len(slots) = filled /\ filled < fdCount
          BY Zenon, <1>3, <2>3, <3>3, FillEffect DEF Phase
        <4>2. Len(slots') = Len(slots) + 1
          BY <1>1, <4>1
        <4> QED
          BY <1>1, <3>1, <4>1, <4>2
      <3> QED
        BY Zenon, <2>1, <3>2, <3>3
    <2>4. wpc' = "buffers" => slots' = <<>>
      BY Zenon, <1>3, FillEffect DEF Phase
    <2> QED
      BY Zenon, <2>1, <2>2, <2>3, <2>4 DEF Phase
  <1>4. CASE Next /\ ~Fill
    <2>1. /\ wpc \notin {"buffers", "slots"} /\ wpc' \notin {"buffers", "slots"}
          /\ wpc = "terminated" => wpc' = "terminated"
      BY Zenon, <1>4, OnlyFill, Stage
    <2>2. SUFFICES /\ wpc' = "exited" => \A f \in Fibers : fpc'[f] = "done"
                   /\ wpc' # "terminated" =>
                         \A f \in Fibers : fpc'[f] = "done" => buf'[f] = None /\ slot'[f] = None
      BY Zenon, <2>1 DEF Phase
    <2>3. CASE wpc' = "terminated"
      BY Zenon, <2>3
    <2>4. CASE Exit \/ SubmitOther
      BY Zenon, <2>1, <2>4 DEF Exit, SubmitOther, Phase, workerVars
    <2>5. ASSUME NEW s \in sends, SendCqe(s) \/ NotifCqe(s)
          PROVE  /\ wpc' = "exited" => \A f \in Fibers : fpc'[f] = "done"
                 /\ wpc' # "terminated" =>
                       \A f \in Fibers : fpc'[f] = "done" => buf'[f] = None /\ slot'[f] = None
      <3>1. \A f \in Fibers : /\ fpc'[f] = "done" => fpc[f] = "done"
                              /\ fpc[f] = "done" => fpc'[f] = "done"
        BY <1>1, <2>5, Wakes
      <3>2. UNCHANGED <<wpc, buf, slot>>
        BY Zenon, <2>5, Wakes
      <3> QED
        BY Zenon, <3>1, <3>2 DEF Phase
    <2>6. ASSUME NEW f \in Fibers, FiberStep(f), ~ReleaseTerminates(f)
          PROVE  /\ wpc' = "exited" => \A g \in Fibers : fpc'[g] = "done"
                 /\ wpc' # "terminated" =>
                       \A g \in Fibers : fpc'[g] = "done" => buf'[g] = None /\ slot'[g] = None
      <3>1. /\ Steady /\ wpc' = wpc /\ fpc[f] # "done"
            /\ \A g \in Fibers : fpc'[g] = "done" /\ fpc[g] # "done" =>
                  buf'[g] = None /\ slot'[g] = None
        BY Zenon, <2>6, FiberEffect
      <3> QED
        BY Zenon, <3>1 DEF Steady, Phase
    <2>7. ASSUME NEW f \in Fibers, ReleaseTerminates(f) PROVE wpc' = "terminated"
      BY Zenon, <2>7 DEF ReleaseTerminates
    <2> QED
      BY Zenon, <1>4, <2>3, <2>4, <2>5, <2>6, <2>7 DEF Next, KernelStep
  <1> QED
    BY Zenon, <1>2, <1>3, <1>4

(* The sends keep their fibers. *)
LEMMA SendsStep ==
    ASSUME Types, Phase, SendsOwned, [Next]_vars
    PROVE  SendsOwned'
  <1>1. /\ fpc \in [Fibers -> PCs]
        /\ \A s \in sends : s.by \in Fibers /\ s.stale \in BOOLEAN
    BY DEF Types
  <1>2. CASE UNCHANGED vars
    <2>1. UNCHANGED <<wpc, fpc, buf, sends>>
      BY Zenon, <1>2 DEF vars, workerVars
    <2> QED
      BY Zenon, <2>1 DEF SendsOwned
  <1>3. CASE Fill
    <2>1. wpc \in {"buffers", "slots"} /\ sends' = sends
      BY Zenon, <1>3, FillEffect
    <2>2. sends' = {}
      BY Zenon, <2>1 DEF Phase
    <2> QED
      BY Zenon, <2>2 DEF SendsOwned
  <1>4. CASE wpc' = "terminated"
    BY Zenon, <1>4 DEF SendsOwned
  <1>5. CASE Next /\ ~Fill /\ wpc' # "terminated"
    <2>1. wpc # "terminated"
      BY Zenon, <1>5, Stage
    <2>2. /\ \A s \in sends : ~s.stale => fpc[s.by] = "sending" /\ buf[s.by] = s.buf
          /\ \A s \in sends : s.stale => fpc[s.by] \in {"unwind", "done"}
          /\ \A r, s \in sends : ~r.stale /\ ~s.stale /\ r.by = s.by => r = s
      BY Zenon, <2>1 DEF SendsOwned
    (* What submitting does: every send is one from before, elsewhere. *)
    <2>3. ASSUME NEW r \in Submitted
          PROVE  \E s \in sends : /\ r.by = s.by /\ r.buf = s.buf /\ r.stale = s.stale
                                  /\ r = [s EXCEPT !.at = IF @ = "ring" THEN "kernel" ELSE @]
      BY <2>3 DEF Submitted, Types
    <2>4. ASSUME NEW r \in Submitted
          PROVE  /\ ~r.stale => fpc[r.by] = "sending" /\ buf[r.by] = r.buf
                 /\ r.stale => fpc[r.by] \in {"unwind", "done"}
                 /\ r.by \in Fibers
      <3>1. PICK s \in sends : r.by = s.by /\ r.buf = s.buf /\ r.stale = s.stale
        BY Zenon, <2>3
      <3>2. fpc[r.by] = fpc[s.by] /\ buf[r.by] = buf[s.by]
        BY Zenon, <3>1
      <3> QED
        BY Zenon, <1>1, <2>2, <3>1, <3>2
    <2>5. ASSUME NEW q \in Submitted, NEW r \in Submitted, ~q.stale, ~r.stale, q.by = r.by
          PROVE  q = r
      <3>1. PICK s \in sends : /\ q.by = s.by /\ q.stale = s.stale
                               /\ q = [s EXCEPT !.at = IF @ = "ring" THEN "kernel" ELSE @]
        BY Zenon, <2>3
      <3>2. PICK t \in sends : /\ r.by = t.by /\ r.stale = t.stale
                               /\ r = [t EXCEPT !.at = IF @ = "ring" THEN "kernel" ELSE @]
        BY Zenon, <2>3
      <3>3. s = t
        BY Zenon, <2>2, <2>5, <3>1, <3>2
      <3> QED
        BY Zenon, <3>1, <3>2, <3>3
    <2>6. CASE Exit
      <3>1. UNCHANGED <<fpc, buf, sends>>
        BY Zenon, <2>6 DEF Exit
      <3> QED
        BY Zenon, <2>2, <3>1 DEF SendsOwned
    <2>7. CASE SubmitOther
      <3>1. sends' = Submitted /\ UNCHANGED <<fpc, buf>>
        BY Zenon, <2>7 DEF SubmitOther
      <3> QED
        BY Zenon, <2>4, <2>5, <3>1 DEF SendsOwned
    (* The last completion of a send wakes its fiber. *)
    <2>8. ASSUME NEW s \in sends, NEW res, sends' = sends \ {s}, Woken(s.by, res), buf' = buf
          PROVE  SendsOwned'
      <3>1. \A q \in sends' : fpc'[q.by] = fpc[q.by]
        <4>1. CASE fpc[s.by] = "sending"
          <5>1. ~s.stale /\ \E l : fpc' = [fpc EXCEPT ![s.by] = l]
            BY <2>2, <2>8, <4>1 DEF Woken, Goto
          <5>2. \A q \in sends' : ~q.stale => q.by # s.by
            BY Zenon, <2>2, <2>8, <5>1
          <5>3. \A q \in sends' : q.stale => q.by # s.by
            BY <2>2, <2>8, <4>1
          <5> QED
            BY Zenon, <1>1, <2>8, <5>1, <5>2, <5>3
        <4>2. CASE fpc[s.by] # "sending"
          BY Zenon, <2>8, <4>2 DEF Woken
        <4> QED
          BY Zenon, <4>1, <4>2
      <3> QED
        BY Zenon, <2>2, <2>8, <3>1 DEF SendsOwned
    (* The first of two leaves it waiting. *)
    <2>9. ASSUME NEW s \in sends, sends' = (sends \ {s}) \cup {[s EXCEPT !.at = "notify"]},
                 UNCHANGED <<fpc, buf>>
          PROVE  SendsOwned'
      <3> DEFINE r == [s EXCEPT !.at = "notify"]
      <3>1. r.by = s.by /\ r.buf = s.buf /\ r.stale = s.stale
        BY DEF Types
      <3>2. sends' = (sends \ {s}) \cup {r}
        BY Zenon, <2>9
      <3> HIDE DEF r
      <3>3. ASSUME NEW q \in sends', NEW p \in sends', ~q.stale, ~p.stale, q.by = p.by
            PROVE  q = p
        <4>1. CASE q = r /\ p = r
          BY Zenon, <4>1
        <4>2. CASE q = r /\ p # r
          <5>1. p \in sends /\ p # s /\ ~s.stale /\ s.by = p.by
            BY Zenon, <3>1, <3>2, <3>3, <4>2
          <5> QED
            BY Zenon, <2>2, <3>3, <5>1
        <4>3. CASE q # r /\ p = r
          <5>1. q \in sends /\ q # s /\ ~s.stale /\ s.by = q.by
            BY Zenon, <3>1, <3>2, <3>3, <4>3
          <5> QED
            BY Zenon, <2>2, <3>3, <5>1
        <4>4. CASE q # r /\ p # r
          BY Zenon, <2>2, <3>2, <3>3, <4>4
        <4> QED
          BY Zenon, <4>1, <4>2, <4>3, <4>4
      <3>4. \A q \in sends' : \E p \in sends : q.by = p.by /\ q.buf = p.buf /\ q.stale = p.stale
        BY Zenon, <3>1, <3>2
      <3>5. ASSUME NEW q \in sends'
            PROVE  /\ ~q.stale => fpc'[q.by] = "sending" /\ buf'[q.by] = q.buf
                   /\ q.stale => fpc'[q.by] \in {"unwind", "done"}
        <4>1. PICK p \in sends : q.by = p.by /\ q.buf = p.buf /\ q.stale = p.stale
          BY Zenon, <3>4
        <4>2. fpc'[q.by] = fpc[p.by] /\ buf'[q.by] = buf[p.by]
          BY Zenon, <2>9, <4>1
        <4> QED
          BY Zenon, <2>2, <4>1, <4>2
      <3> QED
        BY Zenon, <3>3, <3>5 DEF SendsOwned
    <2>10. ASSUME NEW s \in sends, SendCqe(s) \/ NotifCqe(s) PROVE SendsOwned'
      <3>1. CASE SendCqe(s)
        <4>1. PICK res \in {"ok", "error"}, more \in BOOLEAN :
                 /\ sends' = (sends \ {s}) \cup (IF more THEN {[s EXCEPT !.at = "notify"]} ELSE {})
                 /\ OnSend(s, res, more) /\ buf' = buf
          BY Zenon, <3>1 DEF SendCqe
        <4>2. CASE more
          <5>1. sends' = (sends \ {s}) \cup {[s EXCEPT !.at = "notify"]} /\ fpc' = fpc
            BY Zenon, <4>1, <4>2 DEF OnSend
          <5> QED
            BY Zenon, <2>9, <4>1, <5>1
        <4>3. CASE ~more
          <5>1. sends' = sends \ {s}
            BY <4>1, <4>3
          <5> QED
            BY Zenon, <2>8, <4>1, <4>3, <5>1 DEF OnSend
        <4> QED
          BY Zenon, <4>2, <4>3
      <3>2. CASE NotifCqe(s)
        BY Zenon, <2>8, <3>2 DEF NotifCqe
      <3> QED
        BY Zenon, <2>10, <3>1, <3>2
    (* A fiber's step does not touch the sends of the others. *)
    <2>11. ASSUME NEW f \in Fibers, FiberStep(f) PROVE SendsOwned'
      <3>1. ~ReleaseTerminates(f)
        BY Zenon, <1>5 DEF ReleaseTerminates
      <3>2. Steady
        BY Zenon, <2>11, <3>1, FiberEffect
      <3>3. CASE SendZc(f)
        <4> DEFINE r == Zc(f, "kernel", FALSE)
        <4>1. /\ fpc[f] = "fn" /\ fpc' = [fpc EXCEPT ![f] = "sending"] /\ buf' = buf
              /\ sends' = Submitted \cup {r}
          BY Zenon, <3>3 DEF SendZc, Goto
        <4>2. r.by = f /\ r.buf = buf[f] /\ r.stale = FALSE /\ fpc'[f] = "sending"
          BY <1>1, <4>1 DEF Zc
        <4> HIDE DEF r
        <4>3. \A s \in Submitted : s.by # f
          BY <2>4, <4>1
        <4>4. \A s \in Submitted : fpc'[s.by] = fpc[s.by]
          BY Zenon, <1>1, <2>4, <4>1, <4>3
        <4>5. \A s \in sends' : /\ ~s.stale => fpc'[s.by] = "sending" /\ buf'[s.by] = s.buf
                                /\ s.stale => fpc'[s.by] \in {"unwind", "done"}
          BY Zenon, <2>4, <4>1, <4>2, <4>4
        <4>6. ASSUME NEW q \in sends', NEW s \in sends', ~q.stale, ~s.stale, q.by = s.by
              PROVE  q = s
          <5>1. q \in Submitted \/ q = r
            BY Zenon, <4>1
          <5>2. s \in Submitted \/ s = r
            BY Zenon, <4>1
          <5> QED
            BY Zenon, <2>5, <4>2, <4>3, <4>6, <5>1, <5>2
        <4> QED
          BY Zenon, <4>5, <4>6 DEF SendsOwned
      <3>4. CASE SendZcThrows(f)
        <4> DEFINE r == Zc(f, "ring", TRUE)
        <4>1. /\ fpc[f] = "fn" /\ fpc' = [fpc EXCEPT ![f] = "unwind"] /\ buf' = buf
              /\ sends' = sends \/ sends' = sends \cup {r}
          BY Zenon, <3>4 DEF SendZcThrows, Goto
        <4>2. r.by = f /\ r.stale = TRUE /\ fpc'[f] = "unwind"
          BY <1>1, <4>1 DEF Zc
        <4> HIDE DEF r
        <4>3. \A s \in sends : s.by # f
          BY <1>1, <2>2, <4>1
        <4>4. \A s \in sends : fpc'[s.by] = fpc[s.by]
          BY Zenon, <1>1, <4>1, <4>3
        <4>5. \A s \in sends' : /\ ~s.stale => fpc'[s.by] = "sending" /\ buf'[s.by] = s.buf
                                /\ s.stale => fpc'[s.by] \in {"unwind", "done"}
          BY Zenon, <2>2, <4>1, <4>2, <4>4
        <4>6. \A q, s \in sends' : ~q.stale /\ ~s.stale /\ q.by = s.by => q = s
          BY Zenon, <2>2, <4>1, <4>2
        <4> QED
          BY Zenon, <4>5, <4>6 DEF SendsOwned
      <3>5. CASE ~SendZc(f) /\ ~SendZcThrows(f)
        <4>1. sends' = sends
          BY Zenon, <2>11, <3>1, <3>5 DEF FiberStep, Request, Borrow, Return, Acquire,
                 AcquireFails, UpdateFails, Release, Finish, Move
        <4> QED
          BY Zenon, <1>1, <2>2, <3>2, <4>1 DEF Steady, SendsOwned
      <3> QED
        BY Zenon, <3>3, <3>4, <3>5
    <2> QED
      BY Zenon, <1>5, <2>6, <2>7, <2>10, <2>11 DEF Next, KernelStep
  <1> QED
    BY Zenon, <1>2, <1>3, <1>4, <1>5

(* The kernel's table follows the handles. *)
LEMMA TableStep ==
    ASSUME Types, SlotSplit, Phase, TableOwned, [Next]_vars
    PROVE  TableOwned'
  <1>1. /\ slot \in Handles /\ table \in [Slots -> Fibers \cup {None}] /\ slots \in Seq(Nat)
        /\ fdCount \in Nat
    BY Zenon, Counts DEF Types, Handles
  <1>2. /\ \A f \in Fibers : slot[f] # None => table[slot[f]] = f
        /\ \A s \in Slots : table[s] # None => table[s] \in Fibers /\ slot[table[s]] = s
    BY Zenon DEF TableOwned
  <1>3. CASE UNCHANGED <<table, slot, fdCount>>
    BY Zenon, <1>2, <1>3 DEF TableOwned, Slots
  <1>4. CASE Fill \/ Keeps \/ UNCHANGED vars
    <2>1. UNCHANGED <<table, slot, fdCount>>
      BY Zenon, <1>4, FillEffect DEF Keeps, vars, workerVars, tableVars
    <2> QED
      BY Zenon, <1>3, <2>1
  <1>5. ASSUME NEW f \in Fibers,
               Borrow(f) \/ Return(f) \/ AcquireFails(f) \/ \E g \in Fibers : Move(f, g)
        PROVE  UNCHANGED <<table, slot, fdCount>>
    BY Zenon, <1>5, Exchanges, Moves
  <1>6. /\ \A f \in Fibers : slot[f] # None => slot[f] \in Slots
        /\ \A f, g \in Fibers : slot[f] # None /\ slot[f] = slot[g] => f = g
    <2>1. SlotsIn - 1 <= fdCount - 1 /\ SlotsIn \in Nat
      BY <1>1 DEF SlotsIn, Phase, Types
    <2>2. 0..(SlotsIn - 1) \subseteq Slots
      BY <1>1, <2>1 DEF Slots
    <2> QED
      BY Zenon, <2>2 DEF SlotSplit, Split
  <1>7. None \notin Slots
    BY DEF None, Slots
  <1>8. ASSUME NEW f \in Fibers, Release(f) PROVE TableOwned'
    <2>1. /\ slot[f] # None /\ slot' = [slot EXCEPT ![f] = None]
          /\ table' = [table EXCEPT ![slot[f]] = None] /\ Slots' = Slots
      BY Zenon, <1>8, Exchanges DEF Slots
    <2>2. /\ slot'[f] = None /\ table'[slot[f]] = None
          /\ \A g \in Fibers : g # f => slot'[g] = slot[g]
          /\ \A s \in Slots : s # slot[f] => table'[s] = table[s]
      BY Zenon, <1>1, <1>6, <2>1 DEF Handles
    <2>3. ASSUME NEW g \in Fibers, slot'[g] # None PROVE table'[slot'[g]] = g
      <3>1. g # f /\ slot'[g] = slot[g] /\ slot[g] \in Slots /\ slot[g] # slot[f]
        BY Zenon, <1>6, <2>1, <2>2, <2>3
      <3> QED
        BY Zenon, <1>2, <2>2, <2>3, <3>1
    <2>4. ASSUME NEW s \in Slots, table'[s] # None
          PROVE  table'[s] \in Fibers /\ slot'[table'[s]] = s
      <3>1. s # slot[f] /\ table'[s] = table[s]
        BY Zenon, <2>2, <2>4
      <3>2. table[s] \in Fibers /\ slot[table[s]] = s
        BY Zenon, <1>2, <2>4, <3>1
      <3>3. table[s] # f
        BY Zenon, <3>1, <3>2
      <3> QED
        BY Zenon, <2>2, <3>1, <3>2, <3>3
    <2> QED
      BY Zenon, <2>1, <2>3, <2>4 DEF TableOwned
  <1>9. ASSUME NEW f \in Fibers, Acquire(f) PROVE TableOwned'
    <2> DEFINE e == Head(slots)
    <2>1. /\ slots # <<>> /\ slot' = [slot EXCEPT ![f] = e] /\ Slots' = Slots
          /\ table' = [s \in Slots |-> IF s = e THEN f ELSE IF s = slot[f] THEN None ELSE table[s]]
          /\ fpc[f] = "acquire"
      BY Zenon, <1>9, Exchanges DEF Slots
    <2>2. e \in Slots /\ \A g \in Fibers : slot[g] # e
      <3>1. Popped(slots, Tail(slots), e)
        BY Zenon, <1>1, <2>1, PopFront
      <3>2. 1 \in 1..Len(slots) /\ e = slots[1]
        BY <3>1 DEF Popped
      <3>3. SlotsIn = fdCount
        BY <2>1 DEF SlotsIn, Phase
      <3>4. /\ \A i \in 1..Len(slots) : slots[i] \in (0..(SlotsIn - 1)) \ lost
            /\ \A i \in 1..Len(slots) : \A g \in Fibers : slots[i] # slot[g]
        BY Zenon DEF SlotSplit, Split
      <3> QED
        BY Zenon, <3>2, <3>3, <3>4 DEF Slots
    <2> HIDE DEF e
    <2>3. /\ slot'[f] = e /\ table'[e] = f
          /\ \A g \in Fibers : g # f => slot'[g] = slot[g]
          /\ \A s \in Slots : s # e /\ s # slot[f] => table'[s] = table[s]
          /\ \A s \in Slots : s # e /\ s = slot[f] => table'[s] = None
      BY Zenon, <1>1, <2>1, <2>2 DEF Handles
    <2>4. ASSUME NEW g \in Fibers, slot'[g] # None PROVE table'[slot'[g]] = g
      <3>1. CASE g = f
        BY Zenon, <2>3, <3>1
      <3>2. CASE g # f
        <4>1. slot'[g] = slot[g] /\ slot[g] \in Slots /\ slot[g] # e /\ slot[g] # slot[f]
          BY Zenon, <1>6, <2>2, <2>3, <2>4, <3>2
        <4> QED
          BY Zenon, <1>2, <2>3, <2>4, <4>1
      <3> QED
        BY Zenon, <3>1, <3>2
    <2>5. ASSUME NEW s \in Slots, table'[s] # None
          PROVE  table'[s] \in Fibers /\ slot'[table'[s]] = s
      <3>1. CASE s = e
        BY Zenon, <2>3, <3>1
      <3>2. CASE s # e
        <4>1. s # slot[f] /\ table'[s] = table[s]
          BY Zenon, <2>3, <2>5, <3>2
        <4>2. table[s] \in Fibers /\ slot[table[s]] = s
          BY Zenon, <1>2, <2>5, <4>1
        <4>3. table[s] # f
          BY Zenon, <4>1, <4>2
        <4> QED
          BY Zenon, <2>3, <4>1, <4>2, <4>3
      <3> QED
        BY Zenon, <3>1, <3>2
    <2> QED
      BY Zenon, <2>1, <2>4, <2>5 DEF TableOwned
  <1> QED
    BY Zenon, <1>3, <1>4, <1>5, <1>8, <1>9, Quiet

-----------------------------------------------------------------------------
(* The invariant is inductive. *)
LEMMA StepInv == ASSUME IInv, [Next]_vars PROVE IInv'
  <1>1. Types /\ BufSplit /\ SlotSplit /\ Phase /\ SendsOwned /\ TableOwned
    BY Zenon DEF IInv
  <1>2. Types' /\ BufSplit' /\ SlotSplit'
    BY Zenon, <1>1, TypesStep, BufSplitStep, SlotSplitStep
  <1>3. Phase' /\ SendsOwned' /\ TableOwned'
    BY Zenon, <1>1, PhaseStep, SendsStep, TableStep
  <1> QED
    BY Zenon, <1>2, <1>3 DEF IInv

(* The invariant holds in every state. *)
LEMMA Invariant == Spec => []IInv
  BY InitInv, StepInv, PTL DEF Spec

-----------------------------------------------------------------------------
(* What is split is in the free list or in a handle, once; nothing else is. *)
LEMMA SplitPlaces ==
    ASSUME NEW l \in Seq(Nat), NEW h \in Handles, NEW S, Split(l, h, S), NEW b, b # None
    PROVE  /\ b \in S => Single(Places(l, h, b))
           /\ b \notin S => Places(l, h, b) = {}
  <1> DEFINE I == {i \in DOMAIN l : l[i] = b}
             F == {f \in Fibers : h[f] = b}
  <1>1. DOMAIN l = 1..Len(l)
    BY Zenon, Elements
  <1>2. Places(l, h, b) = ({"free"} \X I) \cup ({"held"} \X F)
    BY Zenon DEF Places
  <1>3. ASSUME b \notin S PROVE Places(l, h, b) = {}
    <2>1. /\ \A i \in 1..Len(l) : l[i] \in S
          /\ \A f \in Fibers : h[f] # None => h[f] \in S
      BY Zenon DEF Split
    <2>2. I = {}
      BY Zenon, <1>1, <1>3, <2>1
    <2>3. F = {}
      BY Zenon, <1>3, <2>1
    <2> QED
      BY <1>2, <2>2, <2>3
  <1>4. ASSUME NEW i \in 1..Len(l), l[i] = b PROVE Places(l, h, b) = {<<"free", i>>}
    <2>1. I = {i}
      BY <1>1, <1>4 DEF Split
    <2>2. F = {}
      BY Zenon, <1>4 DEF Split
    <2> HIDE DEF I, F
    <2> QED
      BY <1>2, <2>1, <2>2
  <1>5. ASSUME NEW f \in Fibers, h[f] = b PROVE Places(l, h, b) = {<<"held", f>>}
    <2>1. F = {f}
      BY <1>5 DEF Split
    <2>2. I = {}
      BY Zenon, <1>1, <1>5 DEF Split
    <2> HIDE DEF I, F
    <2> QED
      BY <1>2, <2>1, <2>2
  <1>6. ASSUME b \in S PROVE Single(Places(l, h, b))
    <2>1. (\E i \in 1..Len(l) : l[i] = b) \/ (\E f \in Fibers : h[f] = b)
      BY Zenon, <1>6 DEF Split
    <2> QED
      BY Zenon, <1>4, <1>5, <2>1 DEF Single
  <1> QED
    BY Zenon, <1>3, <1>6

(* Without handles it is all in the free list. *)
LEMMA FullList ==
    ASSUME NEW l \in Seq(Nat), NEW h \in Handles, NEW S, Split(l, h, S), None \notin S,
           \A f \in Fibers : h[f] = None
    PROVE  Contents(l) = S
  <1>1. DOMAIN l = 1..Len(l)
    BY Zenon, Elements
  <1>2. /\ \A i \in 1..Len(l) : l[i] \in S
        /\ \A b \in S : \E i \in 1..Len(l) : l[i] = b
    BY Zenon DEF Split
  <1> QED
    BY Zenon, <1>1, <1>2 DEF Contents

(* The invariant implies that everything is in one place. *)
LEMMA ImpliesOnePlace == ASSUME IInv PROVE OnePlace
  <1>1. /\ free \in Seq(Nat) /\ slots \in Seq(Nat) /\ buf \in Handles /\ slot \in Handles
        /\ \A s \in sends : s.by \in Fibers /\ s.stale \in BOOLEAN
    <2>1. \A s \in sends : s.by \in Fibers /\ s.stale \in BOOLEAN
      BY DEF IInv, Types
    <2> QED
      BY Zenon, <2>1 DEF IInv, Types, Handles
  <1>2. ASSUME Started
        PROVE  /\ Split(free, buf, Buffers) /\ None \notin Buffers
               /\ Split(slots, slot, Slots \ lost) /\ None \notin Slots /\ lost \subseteq Slots
    <2>1. BufsIn = bufCount /\ SlotsIn = fdCount
      BY <1>2 DEF Started, BufsIn, SlotsIn
    <2>2. None \notin Buffers /\ None \notin Slots
      BY DEF None, Buffers, Slots
    <2> QED
      BY Zenon, <2>1, <2>2 DEF IInv, BufSplit, SlotSplit, Buffers, Slots
  <1>3. ASSUME Started, NEW b \in Buffers
        PROVE  Single(Places(free, buf, b))
    <2>1. b # None /\ Split(free, buf, Buffers) /\ free \in Seq(Nat) /\ buf \in Handles
      BY Zenon, <1>1, <1>2, <1>3
    <2>2. b \in Buffers => Single(Places(free, buf, b))
      BY <2>1, SplitPlaces
    <2> QED
      BY Zenon, <1>3, <2>2
  <1>4. ASSUME Started, NEW s \in Slots
        PROVE  /\ s \notin lost => Single(Places(slots, slot, s))
               /\ s \in lost => Places(slots, slot, s) = {}
    <2>1. s # None /\ (s \in Slots \ lost <=> s \notin lost)
      BY Zenon, <1>2, <1>4
    <2> DEFINE T == Slots \ lost
    <2>2. Split(slots, slot, T) /\ (s \in T <=> s \notin lost)
      BY Zenon, <1>2, <1>4, <2>1
    <2> HIDE DEF T
    <2> QED
      BY ZenonT(60), <1>1, <2>1, <2>2, SplitPlaces
  <1>5. ASSUME wpc = "exited"
        PROVE  /\ Contents(free) = Buffers /\ Contents(slots) = Slots \ lost
               /\ \A s \in sends : s.stale
    <2>1. /\ Started
          /\ \A f \in Fibers : fpc[f] = "done" /\ buf[f] = None /\ slot[f] = None
      BY <1>5 DEF Started, IInv, Phase
    <2>2. Contents(free) = Buffers
      BY Zenon, <1>1, <1>2, <2>1, FullList
    <2>3. Contents(slots) = Slots \ lost
      <3>1. None \notin Slots \ lost
        BY Zenon, <1>2, <2>1
      <3> QED
        BY Zenon, <1>1, <1>2, <2>1, <3>1, FullList
    <2>4. \A s \in sends : s.stale
      BY <1>1, <1>5, <2>1 DEF IInv, SendsOwned
    <2> QED
      BY Zenon, <2>2, <2>3, <2>4
  <1> QED
    BY Zenon, <1>2, <1>3, <1>4, <1>5 DEF OnePlace

(***************************************************************************)
(* Whatever is borrowed, moved, returned and whatever fails: each buffer   *)
(* is in the free list or in one handle, and each slot whose install did   *)
(* not throw; worker() closes full free lists.                             *)
(***************************************************************************)
THEOREM ResourcesInOnePlace == Spec => []OnePlace
  BY Invariant, ImpliesOnePlace, PTL

(***************************************************************************)
(* async_send_zc holds its fiber, and with it the buffer, until the kernel *)
(* has let go of it.                                                       *)
(***************************************************************************)
THEOREM SendsHoldBuffers == Spec => []KernelBufferIsHeld
  <1>1. IInv => KernelBufferIsHeld
    BY Zenon DEF IInv, SendsOwned, KernelBufferIsHeld
  <1> QED
    BY <1>1, Invariant, PTL

(* fd_slot puts a descriptor into the kernel's table and takes it out again. *)
THEOREM TableFollows == Spec => []TableFollowsHandles
  <1>1. ASSUME IInv PROVE TableFollowsHandles
    <2> SUFFICES ASSUME NEW s \in Slots
                 PROVE  LET owners == {f \in Fibers : slot[f] = s}
                        IN  IF owners = {} THEN table[s] = None ELSE table[s] \in owners
      BY Zenon DEF TableFollowsHandles
    <2>1. s # None
      BY DEF Slots, None
    <2>2. /\ \A f \in Fibers : slot[f] = s => table[s] = f
          /\ table[s] # None => table[s] \in Fibers /\ slot[table[s]] = s
      BY Zenon, <1>1, <2>1 DEF IInv, TableOwned
    <2> QED
      BY Zenon, <2>2
  <1> QED
    BY <1>1, Invariant, PTL
=============================================================================
