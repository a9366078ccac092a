------------------------------ MODULE GemmArray ------------------------------
(***************************************************************************)
(* The array of AIE cores that experiments 9a and 10 configure for a GEMM  *)
(* of C = A x B: a worker on each core, and the ObjectFifos that bring the *)
(* tiles of A and B from the host (L3) through the memory tiles (L2) to    *)
(* the cores (L1) and the tiles of C back.  A row of cores shares the      *)
(* tiles of A, a column those of B.                                        *)
(*                                                                         *)
(* A tile is known by its place in its matrix; what a core has accumulated *)
(* is the set of the pairs of tiles it has multiplied.  A fifo is the      *)
(* sequence of the tiles in its buffers.  What the host orders is in toA,  *)
(* toB and fromC; the module that EXTENDS this one says when it does.      *)
(***************************************************************************)
EXTENDS Integers, Sequences

CONSTANT Designs  \* the configurations of the array, and of what is run on it

ASSUME DesignAssumption == \A d \in Designs :
  /\ {d.rows, d.cols, d.depth, d.blockRows, d.kSteps, d.colTiles} \subseteq Nat \ {0}
  /\ d.cols < d.rows => d.rows % d.cols = 0

VARIABLE design  \* the configuration the array was built with

Rows      == design.rows       \* n_aie_rows
Cols      == design.cols       \* n_aie_cols
Depth     == design.depth      \* fifo_depth
BlockRows == design.blockRows  \* M // m // n_aie_rows
KSteps    == design.kSteps     \* K // k
ColTiles  == design.colTiles   \* N // n // n_aie_cols

Row   == 0 .. Rows - 1
Col   == 0 .. Cols - 1
MTile == 0 .. BlockRows * Rows - 1
NTile == 0 .. ColTiles * Cols - 1
KStep == 0 .. KSteps - 1

(* n_shim_mem_A streams of A, each with the tiles of n_A_tiles_per_shim    *)
(* rows of cores in one object.                                            *)
NShimA  == IF Cols > Rows THEN Rows ELSE Cols
PerShim == IF Cols < Rows THEN Rows \div Cols ELSE 1
Shim    == 0 .. NShimA - 1
RowsOf(i) == i * PerShim .. i * PerShim + PerShim - 1

(* A packed B can be cut into pieces of a column tile that hold some of its*)
(* columns for all of K: the step AllK stands for these, which are no tile.*)
AllK == -1

ATile   == [m : MTile, k : KStep]
BTile   == [n : NTile, k : KStep \cup {AllK}]
Product == [a : ATile, b : BTile]

VARIABLES
  toA,    \* toA[i]: objects of A that the host has ordered into stream i
  toB,    \* toB[c]: tiles of B that it has ordered into column c
  fromC,  \* fromC[c]: the places of C it has ordered to be written by column c
  l2A, l1A,  \* A_L3L2 and A_L2L1: l2A[r], l1A[r][c]
  l2B, l1B,  \* B_L3L2 and B_L2L1: l2B[c], l1B[r][c]
  core,      \* core[r][c]: the worker of the core
  l1C, l2C,  \* C_L1L2 and C_L2L3: l1C[r][c], l2C[r][c]
  result     \* result[<<m, n>>]: the products written to that tile of C in host memory

fifoVars  == <<toA, toB, fromC, l2A, l1A, l2B, l1B, l1C, l2C>>

Grid(x) == [r \in Row |-> [c \in Col |-> x]]

Waiting == [busy |-> FALSE, k |-> 0, acc |-> {}]

ArrayInit ==
  /\ design \in Designs
  /\ toA = [i \in Shim |-> <<>>]
  /\ toB = [c \in Col |-> <<>>]
  /\ fromC = [c \in Col |-> <<>>]
  /\ l2A = [r \in Row |-> <<>>] /\ l1A = Grid(<<>>)
  /\ l2B = [c \in Col |-> <<>>] /\ l1B = Grid(<<>>)
  /\ core = Grid(Waiting)
  /\ l1C = Grid(<<>>) /\ l2C = Grid(<<>>)
  /\ result = [p \in MTile \X NTile |-> {}]

BugRoomForOne(fifo) == Len(fifo) <= Depth
HasRoom(fifo)       == Len(fifo) < Depth

-----------------------------------------------------------------------------
(* The DMA engines.                                                        *)

(* An object of A is read from host memory and split over its rows.        *)
SendA(i) ==
  /\ toA[i] # <<>>
  /\ \A r \in RowsOf(i) : HasRoom(l2A[r])
  /\ LET obj == Head(toA[i])
     IN  l2A' = [r \in Row |->
           IF r \in RowsOf(i)
           THEN Append(l2A[r], [m |-> obj.group * PerShim + (r - i * PerShim), k |-> obj.k])
           ELSE l2A[r]]
  /\ toA' = [toA EXCEPT ![i] = Tail(@)]
  /\ UNCHANGED <<toB, fromC, l1A, l2B, l1B, core, l1C, l2C, result>>

(* The tile is broadcast to the cores of the row, all of which need room.  *)
ForwardA(r) ==
  /\ l2A[r] # <<>>
  /\ \A c \in Col : HasRoom(l1A[r][c])
  /\ l1A' = [l1A EXCEPT ![r] = [c \in Col |-> Append(@[c], Head(l2A[r]))]]
  /\ l2A' = [l2A EXCEPT ![r] = Tail(@)]
  /\ UNCHANGED <<toA, toB, fromC, l2B, l1B, core, l1C, l2C, result>>

SendB(c) ==
  /\ toB[c] # <<>>
  /\ HasRoom(l2B[c])
  /\ l2B' = [l2B EXCEPT ![c] = Append(@, [n |-> Head(toB[c]).n, k |-> Head(toB[c]).k])]
  /\ toB' = [toB EXCEPT ![c] = Tail(@)]
  /\ UNCHANGED <<toA, fromC, l2A, l1A, l1B, core, l1C, l2C, result>>

(* The tile is broadcast to the cores of the column.                       *)
ForwardB(c) ==
  /\ l2B[c] # <<>>
  /\ \A r \in Row : HasRoom(l1B[r][c])
  /\ l1B' = [r \in Row |-> [l1B[r] EXCEPT ![c] = Append(@, Head(l2B[c]))]]
  /\ l2B' = [l2B EXCEPT ![c] = Tail(@)]
  /\ UNCHANGED <<toA, toB, fromC, l2A, l1A, core, l1C, l2C, result>>

(* A tile of C joins its column in the part of its row.                    *)
ForwardC(r, c) ==
  /\ l1C[r][c] # <<>>
  /\ HasRoom(l2C[r][c])
  /\ l2C' = [l2C EXCEPT ![r][c] = Append(@, Head(l1C[r][c]))]
  /\ l1C' = [l1C EXCEPT ![r][c] = Tail(@)]
  /\ UNCHANGED <<toA, toB, fromC, l2A, l1A, l2B, l1B, core, result>>

(* An object of C, of one tile for each row, is written to host memory.    *)
WriteC(c) ==
  /\ fromC[c] # <<>>
  /\ \A r \in Row : l2C[r][c] # <<>>
  /\ LET at == Head(fromC[c])
     IN  result' = [p \in MTile \X NTile |->
           IF p[2] = at.n /\ p[1] \div Rows = at.block
           THEN Head(l2C[p[1] % Rows][c])
           ELSE result[p]]
  /\ l2C' = [r \in Row |-> [l2C[r] EXCEPT ![c] = Tail(@)]]
  /\ fromC' = [fromC EXCEPT ![c] = Tail(@)]
  /\ UNCHANGED <<toA, toB, l2A, l1A, l2B, l1B, core, l1C>>

-----------------------------------------------------------------------------
(* core_fn, which the worker calls again and again.                        *)

BugNotZeroed(worker) == [worker EXCEPT !.busy = TRUE, !.k = 0]
Zeroed(worker)       == [busy |-> TRUE, k |-> 0, acc |-> {}]

(* out_c.acquire(1), zero(elem_out)                                        *)
AcquireOut(r, c) ==
  /\ ~core[r][c].busy
  /\ HasRoom(l1C[r][c])
  /\ core' = [core EXCEPT ![r][c] = Zeroed(@)]
  /\ UNCHANGED <<fifoVars, result>>

(* Both operands are acquired, multiplied and released.                    *)
MatMul(r, c) ==
  /\ core[r][c].busy /\ core[r][c].k < KSteps
  /\ l1A[r][c] # <<>> /\ l1B[r][c] # <<>>
  /\ core' = [core EXCEPT
       ![r][c].k = @ + 1,
       ![r][c].acc = @ \cup {[a |-> Head(l1A[r][c]), b |-> Head(l1B[r][c])]}]
  /\ l1A' = [l1A EXCEPT ![r][c] = Tail(@)]
  /\ l1B' = [l1B EXCEPT ![r][c] = Tail(@)]
  /\ UNCHANGED <<toA, toB, fromC, l2A, l2B, l1C, l2C, result>>

ReleaseOut(r, c) ==
  /\ core[r][c].busy /\ core[r][c].k = KSteps
  /\ l1C' = [l1C EXCEPT ![r][c] = Append(@, core[r][c].acc)]
  /\ core' = [core EXCEPT ![r][c].busy = FALSE]
  /\ UNCHANGED <<toA, toB, fromC, l2A, l1A, l2B, l1B, l2C, result>>

ArrayStep ==
  \/ \E i \in Shim : SendA(i)
  \/ \E r \in Row : ForwardA(r)
  \/ \E c \in Col : SendB(c) \/ ForwardB(c) \/ WriteC(c)
  \/ \E r \in Row, c \in Col :
       ForwardC(r, c) \/ AcquireOut(r, c) \/ MatMul(r, c) \/ ReleaseOut(r, c)

-----------------------------------------------------------------------------
(* The tiles in the fifos are of the matrix the fifo is for, and no fifo   *)
(* holds more objects than it has buffers.                                 *)
ArrayTypeOK ==
  /\ design \in Designs
  /\ l2A \in [Row -> Seq(ATile)] /\ l2B \in [Col -> Seq(BTile)]
  /\ l1A \in [Row -> [Col -> Seq(ATile)]] /\ l1B \in [Row -> [Col -> Seq(BTile)]]
  /\ core \in [Row -> [Col -> [busy : BOOLEAN, k : 0..KSteps, acc : SUBSET Product]]]
  /\ l1C \in [Row -> [Col -> Seq(SUBSET Product)]]
  /\ l2C \in [Row -> [Col -> Seq(SUBSET Product)]]
  /\ result \in [MTile \X NTile -> SUBSET Product]
  /\ \A r \in Row, c \in Col :
       /\ Len(l2A[r]) <= Depth /\ Len(l1A[r][c]) <= Depth
       /\ Len(l2B[c]) <= Depth /\ Len(l1B[r][c]) <= Depth
       /\ Len(l2C[r][c]) <= Depth /\ Len(l1C[r][c]) <= Depth
=============================================================================
