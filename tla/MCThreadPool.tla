---------------------------- MODULE MCThreadPool ----------------------------
(* Model-checking instances of ThreadPool: workers and the producers other   *)
(* than Main are interchangeable.                                            *)
EXTENDS ThreadPool, TLC
PoolSymmetry == Permutations(Worker) \cup Permutations(Producer)
=============================================================================
