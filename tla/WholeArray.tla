------------------------------ MODULE WholeArray ------------------------------
(***************************************************************************)
(* The runtime sequence of experiments 7, 9a and 10: the host orders the   *)
(* transfers of A, B and C in groups and waits for the tiles of C of a     *)
(* group before it goes on.  The kernel may be run several times on the    *)
(* same array, as run_iters does: the fifos and the cores are not reset.   *)
(***************************************************************************)
EXTENDS GemmArray

(* C is cut into taps of stepRows block rows; where B is pre-packed there  *)
(* is a tap for every fill, or the design is not built.                    *)
ASSUME SequenceAssumption == \A d \in Designs :
  /\ {d.stepRows, d.maxRuns} \subseteq Nat \ {0}
  /\ d.blockRows % d.stepRows = 0
  /\ d.prePack \in BOOLEAN
  /\ d.prePack => d.blockRows <= d.colTiles * d.kSteps

(* The design of experiment 7: one core, one tile of C, a single fill of   *)
(* each of A and B with all its steps of K, and run_iters on top.          *)
SingleCore(kSteps, iterations) ==
  [rows |-> 1, cols |-> 1, depth |-> 2, blockRows |-> 1, kSteps |-> kSteps, colTiles |-> 1,
   stepRows |-> 1, prePack |-> FALSE, maxRuns |-> iterations]

StepRows == design.stepRows  \* tb_n_rows: block rows of a ping or pong, 1 with c_col_maj, else 2
PrePack  == design.prePack   \* pre_pack: the tiles of B are packed on the CPU
MaxRuns  == design.maxRuns   \* bound: runs of the kernel

VARIABLES
  runs,  \* runs of the kernel begun
  step,  \* the ping or pong of this run that is ordered
  col,   \* the next column it orders
  tg     \* the task group

hostVars == <<runs, step, col, tg>>
vars     == <<design, toA, toB, fromC, l2A, l1A, l2B, l1B, core, l1C, l2C, result,
              runs, step, col, tg>>

Steps == BlockRows \div StepRows

-----------------------------------------------------------------------------
(* The taps: the objects of a transfer, in their order.                    *)

(* A_tiles[group]: the steps of K of a group of rows, once for each column *)
(* tile.                                                                   *)
BugOneMore == ColTiles + 1
Repeats    == ColTiles
ATap(group) ==
  [i \in 1 .. Repeats * KSteps |-> [group |-> group, k |-> (i - 1) % KSteps, tg |-> tg]]

(* _packed_B_taps: the packed B, where all of K of a column of blocks comes*)
(* before the next, is cut into pieces of the size of a tile.  KSteps of   *)
(* them make up a column tile, but only if that is one are they tiles.     *)
Piece(p) == [n |-> p \div KSteps, k |-> IF KSteps = 1 THEN 0 ELSE AllK, tg |-> tg]

(* B_tiles[c]: all the column tiles of column c; where B is packed, the    *)
(* next of the pieces that are counted off for column c.                   *)
BTap(c, fills) ==
  IF PrePack
  THEN <<Piece(c * (ColTiles * KSteps) + fills)>>
  ELSE [i \in 1 .. ColTiles * KSteps |->
          [n |-> c + Cols * ((i - 1) \div KSteps), k |-> (i - 1) % KSteps, tg |-> tg]]

(* C_tiles[index]: the block rows of a step, row by row.                   *)
CIndex(s, c) == s * Cols + c
CTap(index) ==
  [i \in 1 .. StepRows * ColTiles |->
     [block |-> ((index \div Cols) * StepRows) + ((i - 1) \div ColTiles),
      n |-> (index % Cols) + (Cols * ((i - 1) % ColTiles)), tg |-> tg]]

(* The group of rows that column c orders for a block row.                 *)
TileOffset(block, c)    == (block * NShimA + c) % (BlockRows * NShimA)

(* There are no more streams of A than rows.                               *)
BugOrdersA(c) == c < Rows - 1
OrdersA(c)    == c < Rows

(* The objects of fills of one length each, one fill after the other.      *)
Fills(taps) ==
  LET length == Len(taps[1])
  IN  [j \in 1 .. Len(taps) * length |->
         taps[1 + ((j - 1) \div length)][1 + ((j - 1) % length)]]

BlocksOf(s) == [i \in 1..StepRows |-> s * StepRows + i - 1]

-----------------------------------------------------------------------------
Init ==
  /\ ArrayInit
  /\ runs = 0 /\ step = Steps /\ col = 0 /\ tg = 0

Returned == step = Steps /\ col = 0

(* A run of the kernel: of this run, C holds nothing yet.                  *)
StartRun ==
  /\ Returned
  /\ runs < MaxRuns
  /\ runs' = runs + 1
  /\ step' = 0
  /\ result' = [p \in MTile \X NTile |-> {}]
  /\ UNCHANGED <<fifoVars, core, col, tg>>

(* The drain and the fills of one column of a step.                        *)
Order ==
  /\ step < Steps /\ col < Cols
  /\ fromC' = [fromC EXCEPT ![col] = @ \o CTap(CIndex(step, col))]
  /\ toA' = IF OrdersA(col)
            THEN [toA EXCEPT ![col] = @ \o
                    Fills([i \in 1..StepRows |-> ATap(TileOffset(BlocksOf(step)[i], col))])]
            ELSE toA
  /\ toB' = [toB EXCEPT ![col] = @ \o
               Fills([i \in 1..StepRows |-> BTap(col, BlocksOf(step)[i])])]
  /\ col' = col + 1
  /\ UNCHANGED <<l2A, l1A, l2B, l1B, core, l1C, l2C, result, runs, step, tg>>

(* finish_task_group waits for the drains of the group alone, and frees    *)
(* the descriptors of all its transfers.                                   *)
BugNotAwaited == TRUE
GroupDone     == \A c \in Col : \A i \in DOMAIN fromC[c] : fromC[c][i].tg # tg

BugFinishAtEnd == step = Steps - 1
FinishesGroup  == step > 0 \/ step = Steps - 1

(* The end of a step: no wait after the first, unless it is the last.      *)
EndStep ==
  /\ step < Steps /\ col = Cols
  /\ FinishesGroup => GroupDone
  /\ tg' = IF FinishesGroup THEN tg + 1 ELSE tg
  /\ step' = step + 1
  /\ col' = 0
  /\ UNCHANGED <<fifoVars, core, result, runs>>

Host == StartRun \/ Order \/ EndStep

(* The array and the host have nothing left to do.                         *)
Finished == Returned /\ runs = MaxRuns

(* The design is that of the xclbin: nothing reconfigures the array.       *)
Next ==
  \/ Host /\ UNCHANGED design
  \/ ArrayStep /\ UNCHANGED <<design, hostVars>>
  \/ Finished /\ UNCHANGED vars

Spec == Init /\ [][Next]_vars

(* The DMA engines, the cores and the host run on their own: while one of  *)
(* them can go on, one of them does.                                       *)
FairSpec == Spec /\ WF_vars(~Finished /\ Next)

-----------------------------------------------------------------------------
TypeOK ==
  /\ ArrayTypeOK
  /\ toA \in [Shim -> Seq([group : 0 .. BlockRows * NShimA - 1, k : KStep, tg : Nat])]
  /\ toB \in [Col -> Seq([n : NTile, k : KStep \cup {AllK}, tg : Nat])]
  /\ fromC \in [Col -> Seq([block : 0 .. BlockRows - 1, n : NTile, tg : Nat])]
  /\ runs \in 0..MaxRuns /\ step \in 0..Steps /\ col \in 0..Cols /\ tg \in Nat

(* What A x B is: the products of the tile <<m, n>> of C.                  *)
Products(m, n) == {[a |-> [m |-> m, k |-> k], b |-> [n |-> n, k |-> k]] : k \in KStep}

(* The pieces of a packed B are the tiles that the cores take them for.    *)
PiecesFit == PrePack => KSteps = 1 /\ (Cols = 1 \/ ColTiles = 1)

(* A tile of C in host memory is the sum of exactly its products, whatever *)
(* the order in which engines and cores run, in each run of the kernel;    *)
(* and when the runtime sequence returns every tile has been written.  Of  *)
(* a packed B that holds where its pieces are the tiles that are needed.   *)
ResultRight ==
  PiecesFit =>
    \A p \in MTile \X NTile :
      \/ result[p] = Products(p[1], p[2])
      \/ result[p] = {} /\ (Returned => runs = 0)

(* The descriptors of a finished group are free although only its drains   *)
(* were awaited: none of its transfers of A and B is still to be made.     *)
FreedTransfersDone ==
  /\ \A i \in Shim : \A j \in DOMAIN toA[i] : toA[i][j].tg >= tg
  /\ \A c \in Col : \A j \in DOMAIN toB[c] : toB[c][j].tg >= tg

(* A ping and a pong, at most, are on their way in a column at any time.     *)
PingPong == \A c \in Col : Len(fromC[c]) <= 2 * StepRows * ColTiles

(* A run leaves the array as it found it: when it has returned no tile is  *)
(* left in a fifo, and no core has begun to add up a tile of C.            *)
ArrayClean ==
  Returned =>
    /\ \A i \in Shim : toA[i] = <<>>
    /\ \A c \in Col : toB[c] = <<>> /\ l2B[c] = <<>>
    /\ \A r \in Row : l2A[r] = <<>>
    /\ \A r \in Row, c \in Col :
         /\ l1A[r][c] = <<>> /\ l1B[r][c] = <<>> /\ l1C[r][c] = <<>> /\ l2C[r][c] = <<>>
         /\ core[r][c].busy => core[r][c].k = 0

(* The program ends: neither the host nor an engine nor a core waits for   *)
(* ever.                                                                   *)
Completes == <>Finished
=============================================================================
