-------------------------------- MODULE MCEtw --------------------------------
(* Small instances of EtwEngine: three processes and threads.              *)
EXTENDS EtwEngine, TLC

CONSTANTS p1, p2, p3, t1, t2, t3, c1, c2, k1

Symmetry == Permutations(Pids \ {Target}) \cup Permutations(Tids \ {Main})
=============================================================================
