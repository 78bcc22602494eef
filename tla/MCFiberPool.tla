----------------------------- MODULE MCFiberPool -----------------------------
(* Instances of FiberPool for TLC. *)
EXTENDS FiberPool, TLC

CONSTANTS t1, t2, a, b, c

OneThread == {t1}
TwoThreads == {t1, t2}
TwoTasks == {a, b}
ThreeTasks == {a, b, c}
RootA == {a}
RootsAB == {a, b}

(* The threads are interchangeable, and so are the tasks of the clients. *)
PoolSymmetry == Permutations(Threads) \cup Permutations(Roots)
=============================================================================
