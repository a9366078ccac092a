------------------------ MODULE MCBenchmarkRecorder ------------------------
(* BenchmarkRecorder on small instances.                                   *)
EXTENDS BenchmarkRecorder, TLC

CONSTANTS p1, p2, r1, r2

RunFiles  == [r \in RunId |-> IF r = 1 THEN r1 ELSE r2]
Entries   == [run : RunId, warmup : Warmups, iters : Iters,
              passes : 0..3, timed : SUBSET (0..2), rc : RC]
AnyWarmup == {-1, 0, 1}
AnyIters  == {0, 1, 2}
Symmetry  == Permutations(Proc)
=============================================================================
