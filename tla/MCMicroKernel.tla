---------------------------- MODULE MCMicroKernel ----------------------------
(* MicroKernel on tiles of one to four rows of blocks, one to five steps   *)
(* of K and one to eight columns, with one and two calls.                  *)
EXTENDS MicroKernel

SmallShapes == [rowA : {1, 2, 4}, colA : 1..5, colB : {1, 2, 4, 8}, calls : 1..2]
=============================================================================
