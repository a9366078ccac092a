---------------------------- MODULE MCWholeArray ----------------------------
(* WholeArray on small arrays.                                             *)
EXTENDS WholeArray

(* One column of two cores that share a stream of A; three steps of one    *)
(* block row, as with --c-col-maj, and two runs.                           *)
OneColumn == [rows |-> 2, cols |-> 1, depth |-> 2, blockRows |-> 3, kSteps |-> 2,
              colTiles |-> 2, stepRows |-> 1, prePack |-> FALSE, maxRuns |-> 2]

(* Four cores: rows share the tiles of A, columns those of B; fifos of one *)
(* buffer, so that everything waits for everything.                        *)
FourCores == [rows |-> 2, cols |-> 2, depth |-> 1, blockRows |-> 3, kSteps |-> 2,
              colTiles |-> 1, stepRows |-> 1, prePack |-> FALSE, maxRuns |-> 1]

(* Steps of two block rows, as without --c-col-maj.                        *)
TwoBlocks == [rows |-> 2, cols |-> 1, depth |-> 2, blockRows |-> 4, kSteps |-> 1,
              colTiles |-> 1, stepRows |-> 2, prePack |-> FALSE, maxRuns |-> 2]

(* Experiment 7, with a K of more steps than its fifos have buffers.       *)
Alone == SingleCore(4, 3)

(* More columns than rows, as the eight columns of the NPU have: not every *)
(* column has a stream of A of its own; each has several column tiles.     *)
Wide == [rows |-> 1, cols |-> 2, depth |-> 1, blockRows |-> 2, kSteps |-> 2,
         colTiles |-> 2, stepRows |-> 1, prePack |-> FALSE, maxRuns |-> 1]

(* A packed B whose pieces are the tiles: no column needs a second one.    *)
OnePiece == [rows |-> 1, cols |-> 2, depth |-> 2, blockRows |-> 1, kSteps |-> 1,
             colTiles |-> 1, stepRows |-> 1, prePack |-> TRUE, maxRuns |-> 2]

Plain == {OneColumn, FourCores, TwoBlocks, Alone, Wide, OnePiece}

(* B packed on the CPU: one tile of it for each block row.                 *)
Packed == {[OneColumn EXCEPT !.blockRows = 1, !.colTiles = 1,
                             !.prePack = TRUE, !.maxRuns = 1]}
=============================================================================
