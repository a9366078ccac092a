----------------------------- MODULE MicroKernel -----------------------------
(***************************************************************************)
(* What one core does with a tile of C: the zero and matmul kernels of     *)
(* experiments/kernel_gemm_*.cc, called as core_fn of experiments 9a and   *)
(* 10 calls them, on tiles that the DMA engines have put in the order of   *)
(* dims_to_stream or the host has packed (experiments/pack_bfp16.py), and  *)
(* the order in which the tile of C leaves.                                *)
(*                                                                         *)
(* A kernel sees a tile as a row of blocks (8 x 8 elements in the code,    *)
(* Edge x Edge here) and finds a block by its place in that row, so that   *)
(* the addresses of the kernel and the order of the DMA engine must agree. *)
(* A block is known by its place in its tile, a sum by the sequence of the *)
(* products added to it.  A block of B may arrive as rows of B or of its   *)
(* transpose; which of the two a mac wants is abstracted from.             *)
(***************************************************************************)
EXTENDS Integers, Sequences, FiniteSets

CONSTANTS
  Edge,   \* r = s = t
  Shapes  \* the tiles in blocks: rowA = m / r, colA = k / s, colB = n / t,
          \* and the calls of matmul for a tile of C: calls = K / k

ASSUME KernelAssumption ==
  /\ Edge \in Nat \ {0}
  /\ Shapes \subseteq [{"rowA", "colA", "colB", "calls"} -> Nat \ {0}]

(* The kernels: how many rows and columns of C a pass takes, how many      *)
(* steps of K an iteration of the loop makes, whether the loop is software-*)
(* pipelined, and whether a column of B is stored in one piece.            *)
Optimized == [rows |-> 2, cols |-> 2, unroll |-> 1, pipelined |-> FALSE, columns |-> FALSE]
Packed    == [rows |-> 2, cols |-> 2, unroll |-> 1, pipelined |-> FALSE, columns |-> TRUE]
Unroll2x  == [rows |-> 2, cols |-> 2, unroll |-> 2, pipelined |-> FALSE, columns |-> TRUE]
Swp       == [rows |-> 2, cols |-> 2, unroll |-> 1, pipelined |-> TRUE,  columns |-> TRUE]
EightAcc  == [rows |-> 2, cols |-> 4, unroll |-> 1, pipelined |-> TRUE,  columns |-> TRUE]
Vliw      == [rows |-> 2, cols |-> 2, unroll |-> 1, pipelined |-> FALSE, columns |-> TRUE]
Verify    == [rows |-> 1, cols |-> 1, unroll |-> 1, pipelined |-> FALSE, columns |-> TRUE]

(* Experiment 10 chooses its kernel by its options.                        *)
Selected(options) ==
  CASE "vliw" \in options      -> Vliw
    [] "acc8" \in options      -> EightAcc
    [] "swp" \in options       -> Swp
    [] "unroll_2x" \in options -> Unroll2x
    [] OTHER                   -> Packed

(* The designs: experiment 9a and experiment 10 with B as it is or stored  *)
(* by columns (b_col_maj), experiment 10 with B packed by the host, and    *)
(* the kernel in Python that checks the packing, where A and C are packed  *)
(* too.  b_col_maj changes what the DMA engine does, not the kernel.       *)
Designs ==
  {[kernel |-> Verify, b |-> "packed", host |-> TRUE]} \cup
  {[kernel |-> Optimized, b |-> b, host |-> FALSE] : b \in {"rows", "columns"}} \cup
  {[kernel |-> Selected(options), b |-> b, host |-> FALSE] :
     options \in SUBSET {"vliw", "acc8", "swp", "unroll_2x"},
     b \in {"rows", "columns", "packed"}}

(* The static_asserts of the typed entries, which do not ask that an       *)
(* unrolled loop make whole iterations.  With a packed B and K > k the     *)
(* cores starve before their second call (WholeArray).                     *)
Fits(d, s) ==
  /\ s.rowA % d.kernel.rows = 0
  /\ s.colB % d.kernel.cols = 0
  /\ d.b = "packed" => s.calls = 1

VARIABLES
  design, shape,  \* chosen once
  call,           \* the matmul call, 0 before zero has run
  step,           \* where the core is in it
  z, j, i,        \* the loops over rows, columns and K
  ptr,            \* the steps of K loaded in this pass
  held,           \* the operand registers, for each step of K held
  acc,            \* the accumulators of the pass
  c               \* the tile of C in L1, by address of the block

vars == <<design, shape, call, step, z, j, i, ptr, held, acc, c>>

-----------------------------------------------------------------------------
(* The DMA engines: dims is the list of four <<size, stride>>, outermost   *)
(* first; the e-th element that leaves is the one at this offset.          *)
Offset(dims, e) ==
  LET At(x, inner) == ((e \div inner) % dims[x][1]) * dims[x][2]
  IN  At(1, dims[2][1] * dims[3][1] * dims[4][1]) + At(2, dims[3][1] * dims[4][1])
        + At(3, dims[4][1]) + At(4, 1)

m == shape.rowA * Edge
k == shape.colA * Edge
n == shape.colB * Edge

DimsA == <<<<m \div Edge, Edge * k>>, <<k \div Edge, Edge>>, <<Edge, k>>, <<Edge, 1>>>>

BugDimsB ==
  IF design.b = "columns"
  THEN <<<<n \div Edge, Edge * k>>, <<k \div Edge, Edge>>, <<Edge, n>>, <<Edge, 1>>>>
  ELSE <<<<k \div Edge, Edge * n>>, <<n \div Edge, Edge>>, <<Edge, n>>, <<Edge, 1>>>>

DimsB ==
  IF design.b = "columns"
  THEN <<<<n \div Edge, Edge * k>>, <<k \div Edge, Edge>>, <<Edge, k>>, <<Edge, 1>>>>
  ELSE <<<<k \div Edge, Edge * n>>, <<n \div Edge, Edge>>, <<Edge, n>>, <<Edge, 1>>>>

DimsC == <<<<m \div Edge, Edge * n>>, <<Edge, Edge>>, <<n \div Edge, Edge * Edge>>, <<Edge, 1>>>>

(* An element of a row of blocks: its block, and its place in the block.   *)
Area    == Edge * Edge
InX(e)  == (e % Area) \div Edge
InY(e)  == e % Edge

(* pack_A_bfp16, pack_B_bfp16_colmaj and unpack_C_f32: the element of the  *)
(* matrix that is put at e, and the place of the element <<x, y>> of C.    *)
PackedA(e) ==
  LET b == e \div Area
  IN  ((b \div shape.colA) * Edge + InX(e)) * k + ((b % shape.colA) * Edge) + InY(e)

PackedB(e) ==
  LET b == e \div Area
  IN  ((b % shape.colA) * Edge + InX(e)) * n + (b \div shape.colA) * Edge + InY(e)

UnpackedC(x, y) ==
  ((x \div Edge) * shape.colB + (y \div Edge)) * Area + (x % Edge) * Edge + (y % Edge)

(* The tap of a packed tile, which is then forwarded as it is.             *)
PackedTap == <<<<n \div Edge, Edge * k>>, <<k \div Edge, Area>>, <<Edge, Edge>>, <<Edge, 1>>>>

ASource(e) == IF design.host THEN PackedA(e) ELSE Offset(DimsA, e)

BSource(e) ==
  IF design.b # "packed" THEN Offset(DimsB, e)
  ELSE PackedB(IF design.host THEN e ELSE Offset(PackedTap, e))

Beyond == <<-1, -1>>  \* what is no block of the tile

(* The block that has arrived at an address, given the element of the tile *)
(* at each of its places; the tile has rows of length elements.  It is a   *)
(* block only if all of it is there, row after row.                        *)
Arrived(elements, length) ==
  LET first == elements[0]
  IN  IF \A e \in DOMAIN elements :
           elements[e] = first + InX(e) * length + InY(e)
      THEN <<(first \div length) \div Edge, (first % length) \div Edge>>
      ELSE Beyond

ABlock(p) ==
  IF p >= shape.rowA * shape.colA THEN Beyond
  ELSE Arrived([e \in 0 .. Area - 1 |-> ASource(p * Area + e)], k)

(* Experiment 10 stores B as rows of its transpose.                        *)
BBlock(p) ==
  LET block == Arrived([e \in 0 .. Area - 1 |-> BSource(p * Area + e)],
                       IF design.b = "columns" THEN k ELSE n)
  IN  IF p >= shape.colA * shape.colB THEN Beyond
      ELSE IF design.b = "columns" THEN <<block[2], block[1]>>
      ELSE block

-----------------------------------------------------------------------------
(* The kernels.                                                            *)

Side  == 0 .. design.kernel.rows - 1  \* the rows of a pass
Width == 0 .. design.kernel.cols - 1  \* its columns

(* The addresses from which step x of K is loaded.                         *)
AAddress(row, x) == (z + row) * shape.colA + x

BugColumnsOnly(col, x) == (j + col) * shape.colA + x
BAddress(col, x) ==
  IF design.kernel.columns THEN (j + col) * shape.colA + x ELSE j + col + x * shape.colB

CAddress(row, col) == (z + row) * shape.colB + j + col

Operands(x) == [a |-> [row \in Side |-> ABlock(AAddress(row, x))],
                b |-> [col \in Width |-> BBlock(BAddress(col, x))]]

Load(steps) ==
  /\ held' = [x \in 1..steps |-> Operands(ptr + x - 1)]
  /\ ptr' = ptr + steps

BugLatestFirst(registers) == [x \in DOMAIN registers |-> registers[Len(registers) + 1 - x]]
Multiplied(registers)     == registers

(* Each accumulator takes its product of each step of K that is held.      *)
Mac(registers) ==
  acc' = [row \in Side |-> [col \in Width |->
            acc[row][col] \o [x \in 1..Len(Multiplied(registers)) |->
              [call |-> call, a |-> Multiplied(registers)[x].a[row],
                              b |-> Multiplied(registers)[x].b[col]]]]]

Partial(row, col) == c[CAddress(row, col)]

BugOneMore == i <= shape.colA
MoreK      == i < shape.colA

Leftover == <<[call |-> 0, a |-> Beyond, b |-> Beyond]>>

Init ==
  /\ shape \in Shapes
  /\ design \in {d \in Designs : Fits(d, shape)}
  /\ call = 0 /\ step = "zero"
  /\ z = 0 /\ j = 0 /\ i = 0 /\ ptr = 0
  /\ held = <<>> /\ acc = <<>>
  /\ c = [q \in 0 .. shape.rowA * shape.colB - 1 |-> Leftover]

(* zero(elem_out): the buffer holds an older tile of C.                    *)
Zero ==
  /\ step = "zero"
  /\ c' = [q \in DOMAIN c |-> <<>>]
  /\ call' = 1 /\ step' = "pass"
  /\ UNCHANGED <<design, shape, z, j, i, ptr, held, acc>>

(* A pass begins with the sums that are in C.                              *)
StartPass ==
  /\ step = "pass"
  /\ acc' = [row \in Side |-> [col \in Width |-> Partial(row, col)]]
  /\ ptr' = 0 /\ i' = 0 /\ held' = <<>>
  /\ step' = IF design.kernel.pipelined THEN "prologue" ELSE "loop"
  /\ UNCHANGED <<design, shape, call, z, j, c>>

(* An iteration of the plain and the unrolled loop.                        *)
LoadThenMac ==
  /\ step = "loop" /\ ~design.kernel.pipelined
  /\ MoreK
  /\ Load(design.kernel.unroll)
  /\ Mac(held')
  /\ i' = i + design.kernel.unroll
  /\ UNCHANGED <<design, shape, call, step, z, j, c>>

EndLoop ==
  /\ step = "loop" /\ ~design.kernel.pipelined
  /\ ~MoreK
  /\ step' = "store"
  /\ UNCHANGED <<design, shape, call, z, j, i, ptr, held, acc, c>>

(* The pipelined loop loads the first step of K, then multiplies what it   *)
(* holds before it loads the next, and multiplies the last at the end.     *)
Prologue ==
  /\ step = "prologue"
  /\ Load(1)
  /\ i' = 1 /\ step' = "loop"
  /\ UNCHANGED <<design, shape, call, z, j, acc, c>>

MacThenLoad ==
  /\ step = "loop" /\ design.kernel.pipelined
  /\ MoreK
  /\ Mac(held)
  /\ Load(1)
  /\ i' = i + 1
  /\ UNCHANGED <<design, shape, call, step, z, j, c>>

Epilogue ==
  /\ step = "loop" /\ design.kernel.pipelined
  /\ ~MoreK
  /\ Mac(held)
  /\ step' = "store"
  /\ UNCHANGED <<design, shape, call, z, j, i, ptr, held, c>>

(* The next pass of the two outer loops.                                   *)
NextPass ==
  IF j + design.kernel.cols < shape.colB
  THEN <<z, j + design.kernel.cols>>
  ELSE <<z + design.kernel.rows, 0>>

(* The sums are stored; the next pass, or the next call, follows.          *)
Store ==
  LET next == NextPass
      last == next[1] >= shape.rowA
  IN  /\ step = "store"
      /\ c' = [q \in DOMAIN c |->
                 IF \E row \in Side, col \in Width : CAddress(row, col) = q
                 THEN acc[(q \div shape.colB) - z][(q % shape.colB) - j]
                 ELSE c[q]]
      /\ z' = (IF last THEN 0 ELSE next[1]) /\ j' = next[2]
      /\ call' = IF last /\ call < shape.calls THEN call + 1 ELSE call
      /\ step' = IF last /\ call = shape.calls THEN "done" ELSE "pass"
      /\ UNCHANGED <<design, shape, i, ptr, held, acc>>

(* out_c.release(1)                                                        *)
Done == step = "done" /\ UNCHANGED vars

Next == Zero \/ StartPass \/ LoadThenMac \/ EndLoop \/ Prologue \/ MacThenLoad
        \/ Epilogue \/ Store \/ Done

Spec == Init /\ [][Next]_vars

-----------------------------------------------------------------------------
(* The element of the tile of C at the place where row x and column y of   *)
(* the result arrive in host memory: its block and its place in the block. *)
Departed(x, y) ==
  LET o == IF design.host THEN UnpackedC(x, y) ELSE Offset(DimsC, x * n + y)
  IN  [block |-> o \div Area, x |-> InX(o), y |-> InY(o)]

Products(row, col) ==
  [call : 1 .. shape.calls, a : {<<row, x>> : x \in 0 .. shape.colA - 1},
                    b : {<<x, col>> : x \in 0 .. shape.colA - 1}]

(* The steps of K that a pass makes: a loop makes whole iterations.        *)
Steps ==
  ((shape.colA + design.kernel.unroll - 1) \div design.kernel.unroll) * design.kernel.unroll

(* The kernel looks for the blocks of B in the order of their arrival.     *)
Agreed == shape.colA = 1 \/ (design.kernel.columns <=> design.b # "rows")

(* The loops over rows and columns stay within the tile, and the loop over *)
(* K passes its end only to make its last iteration whole.                 *)
TypeOK ==
  /\ shape \in Shapes /\ design \in Designs
  /\ call \in 0 .. shape.calls
  /\ step \in {"zero", "pass", "prologue", "loop", "store", "done"}
  /\ z \in 0 .. shape.rowA - 1 /\ j \in 0 .. shape.colB - 1
  /\ i \in 0 .. Steps /\ ptr \in 0 .. Steps
  /\ Len(held) \in 0 .. design.kernel.unroll

(* What the registers hold, in whatever order it was loaded.  For a step   *)
(* of K that there is: the block of A of its row, and of its column of B   *)
(* if the kernel agrees with the layout.  For the step after the last,     *)
(* which an unrolled loop makes of an odd number of them: the first block  *)
(* of the next row of A, and beyond the tile of A in its last row and of B *)
(* in its last column.  Nothing else is read beyond a tile, and no piece   *)
(* of two blocks.                                                          *)
OperandsArrived ==
  step \in {"loop", "store"} =>
    \A x \in 1..Len(held) :
      LET s == (ptr - Len(held)) + x - 1
      IN  /\ s \in 0 .. Steps - 1
          /\ \A row \in Side :
               held[x].a[row] = IF s < shape.colA THEN <<z + row, s>>
                                ELSE IF z + row + 1 < shape.rowA THEN <<z + row + 1, 0>>
                                ELSE Beyond
          /\ \A col \in Width :
               /\ held[x].b[col] = Beyond <=> s >= shape.colA /\ j + col + 1 = shape.colB
               /\ Agreed /\ s < shape.colA => held[x].b[col] = <<s, j + col>>

(* The block that leaves for a place in C holds the products of its row of *)
(* A and its column of B for every call, each exactly once, and nothing    *)
(* that was in the buffer before.                                          *)
ElementRight(x, y) ==
  LET from == Departed(x, y)
      want == {p \in Products(x \div Edge, y \div Edge) : p.a[2] = p.b[1]}
  IN  /\ <<from.x, from.y>> = <<x % Edge, y % Edge>>
      /\ {c[from.block][t] : t \in DOMAIN c[from.block]} = want
      /\ Len(c[from.block]) = Cardinality(want)

(* When the core releases a tile of C, each element of C is right, exactly *)
(* if the kernel agrees with the layout of B and the tile has as many      *)
(* steps of K as its loop makes: the other layouts, and an odd number of   *)
(* steps in the unrolled loop, give a wrong tile and no error.             *)
TileRight ==
  step = "done" =>
    ((\A x \in 0 .. m - 1, y \in 0 .. n - 1 : ElementRight(x, y))
       <=> Agreed /\ Steps = shape.colA)

(* Every kernel adds the products of a block of C in the order of K, so    *)
(* that the sum of the floats does not depend on the kernel that a design  *)
(* selects, nor on how its loop is unrolled or pipelined; a product of     *)
(* another row, for a step of K that is not there, is the last of its call.*)
SumOrder ==
  \A q \in DOMAIN c : step # "zero" =>
    \A x, y \in 1..Len(c[q]) : x < y =>
      LET first == c[q][x]
          later == c[q][y]
      IN  \/ first.call < later.call
          \/ /\ first.call = later.call
             /\ first.a[1] = q \div shape.colB
             /\ later.a[1] = q \div shape.colB => first.a[2] < later.a[2]
=============================================================================
