--------------------------- MODULE WholeArrayProofs ---------------------------
(***************************************************************************)
(* For every shape of the array and of the matrices, every fifo depth and  *)
(* every interleaving, the runtime sequence of experiments 7, 9a and 10    *)
(* computes C = A x B.                                                     *)
(*                                                                         *)
(* The argument: what the host orders makes up numbered streams of A, B    *)
(* and C, and through all that follows what lies in a fifo is a segment of *)
(* such a stream.  The counters that say where the segments begin follow   *)
(* from what was ordered and the lengths of the fifos, so that a core has  *)
(* used as many tiles of A as of B, KSteps of them for each tile of C it   *)
(* has released and k for the next.  The tiles it multiplies are then of   *)
(* the same step of K, the sums leave it in the order of C, and each is    *)
(* written where it belongs.  A core that has released its last tile has   *)
(* used all that was ordered, which is why waiting for C is enough.        *)
(***************************************************************************)
EXTENDS WholeArray, TLAPS

(***************************************************************************)
(* Arithmetic.                                                             *)
(***************************************************************************)
LEMMA ProductGrows ==
  ASSUME NEW a \in Nat, NEW b \in Nat, a < b, NEW d \in Nat
  PROVE  a * d + d <= b * d
<1>1. PICK e \in Nat : b = a + 1 + e
  <2>1. b - a - 1 \in Nat /\ b = a + 1 + (b - a - 1)
    OBVIOUS
  <2> QED  BY <2>1
<1>2. b * d = a * d + d + e * d
  BY <1>1
<1>3. e * d \in Nat /\ a * d \in Nat
  OBVIOUS
<1> QED  BY <1>2, <1>3

(* What / and % of the standard division are.                              *)
LEMMA DivMod ==
  ASSUME NEW x \in Nat, NEW d \in Nat \ {0}
  PROVE  /\ x \div d \in Nat /\ x % d \in 0 .. d - 1
         /\ x = ((x \div d) * d) + (x % d)
  OBVIOUS

(* The quotient and the remainder of a number, by name.                    *)
LEMMA Quotient ==
  ASSUME NEW x \in Nat, NEW d \in Nat \ {0}
  PROVE  \E q \in Nat, r \in 0 .. d - 1 : q = x \div d /\ r = x % d /\ x = (q * d) + r
  BY DivMod

(* A quotient and a remainder are those of one number.                     *)
LEMMA DivModUnique ==
  ASSUME NEW d \in Nat \ {0}, NEW q \in Nat, NEW r \in 0 .. d - 1
  PROVE  (q * d + r) \div d = q /\ (q * d + r) % d = r
<1> DEFINE x == q * d + r
<1>1. x \in Nat
  OBVIOUS
<1>2. PICK p \in Nat, s \in 0 .. d - 1 : p = x \div d /\ s = x % d /\ x = p * d + s
  <2> HIDE DEF x
  <2> QED  BY <1>1, DivMod
<1>3. p = q
  <2>1. ~(p < q)
    <3> SUFFICES ASSUME p < q PROVE FALSE
      OBVIOUS
    <3>1. p * d + d <= q * d
      BY ProductGrows
    <3>2. p * d \in Nat /\ q * d \in Nat /\ p * d + s = q * d + r
      BY <1>2
    <3> QED  BY <3>1, <3>2
  <2>2. ~(q < p)
    <3> SUFFICES ASSUME q < p PROVE FALSE
      OBVIOUS
    <3>1. q * d + d <= p * d
      BY ProductGrows
    <3>2. p * d \in Nat /\ q * d \in Nat /\ p * d + s = q * d + r
      BY <1>2
    <3> QED  BY <3>1, <3>2
  <2> QED  BY <2>1, <2>2
<1>4. s = r
  <2>1. q * d \in Nat /\ q * d + s = q * d + r
    BY <1>2, <1>3
  <2> QED  BY <2>1
<1> QED  BY <1>2, <1>3, <1>4

(* An entry of an n x d table has its number among the n * d.              *)
LEMMA ProductRange ==
  ASSUME NEW a \in Nat, NEW n \in Nat, a < n, NEW d \in Nat \ {0}, NEW r \in 0 .. d - 1
  PROVE  a * d + r \in 0 .. n * d - 1
<1>1. a * d + d <= n * d
  BY ProductGrows
<1>2. a * d \in Nat /\ n * d \in Nat
  OBVIOUS
<1> QED  BY <1>1, <1>2

(* Step k of the s steps of tile d, where a block has t tiles.              *)
IsStep(t, s, d, k) ==
  /\ (d * s + k) \div (t * s) = d \div t
  /\ ((d * s + k) % (t * s)) \div s = d % t
  /\ ((d * s + k) % (t * s)) % s = k

(* Blocks of tiles of steps: the levels of a number are found again.       *)
LEMMA ThreeLevels ==
  ASSUME NEW t \in Nat \ {0}, NEW s \in Nat \ {0}, NEW d \in Nat, NEW k \in 0 .. s - 1
  PROVE  IsStep(t, s, d, k)
<1>1. PICK q \in Nat, r \in 0 .. t - 1 : q = d \div t /\ r = d % t /\ d = q * t + r
  BY DivMod
<1>2. r * s + k \in 0 .. t * s - 1
  BY ProductRange
<1>3. t * s \in Nat \ {0}
  <2>1. t * s # 0
    OBVIOUS
  <2> QED  BY <2>1
<1>4. d * s + k = q * (t * s) + (r * s + k)
  <2>1. (q * t + r) * s = q * (t * s) + r * s
    OBVIOUS
  <2>2. d * s = q * (t * s) + r * s
    BY <1>1, <2>1
  <2>3. PICK x \in Nat, y \in Nat : x = q * (t * s) /\ y = r * s
    OBVIOUS
  <2>4. d * s = x + y
    BY <2>2, <2>3
  <2>5. d * s + k = x + (y + k)
    BY <2>4
  <2> QED  BY <2>3, <2>5
<1>5. (d * s + k) \div (t * s) = q /\ (d * s + k) % (t * s) = r * s + k
  <2>1. PICK w \in Nat \ {0}, y \in Nat : w = t * s /\ y = r * s + k /\ y \in 0 .. w - 1
    BY <1>2, <1>3
  <2>2. (q * w + y) \div w = q /\ (q * w + y) % w = y
    BY <2>1, DivModUnique
  <2> QED  BY <1>4, <2>1, <2>2
<1>6. (r * s + k) \div s = r /\ (r * s + k) % s = k
  BY DivModUnique
<1> QED  BY <1>1, <1>5, <1>6 DEF IsStep

(***************************************************************************)
(* The design.                                                             *)
(***************************************************************************)
PerBlock == ColTiles * KSteps   \* objects of A, or of B, for a block row

(* The assumptions on the constants, of the design that was chosen.        *)
LEMMA DesignFacts ==
  ASSUME design \in Designs
  PROVE  /\ Rows \in Nat \ {0} /\ Cols \in Nat \ {0} /\ Depth \in Nat \ {0}
         /\ BlockRows \in Nat \ {0} /\ KSteps \in Nat \ {0} /\ ColTiles \in Nat \ {0}
         /\ StepRows \in Nat \ {0} /\ MaxRuns \in Nat \ {0} /\ PrePack \in BOOLEAN
         /\ PerBlock \in Nat \ {0}
         /\ PrePack => BlockRows <= PerBlock
<1>1. /\ Rows \in Nat \ {0} /\ Cols \in Nat \ {0} /\ Depth \in Nat \ {0}
      /\ BlockRows \in Nat \ {0} /\ KSteps \in Nat \ {0} /\ ColTiles \in Nat \ {0}
  BY DesignAssumption DEF Rows, Cols, Depth, BlockRows, KSteps, ColTiles
<1>2. /\ StepRows \in Nat \ {0} /\ MaxRuns \in Nat \ {0} /\ PrePack \in BOOLEAN
      /\ PrePack => BlockRows <= PerBlock
  BY SequenceAssumption DEF StepRows, MaxRuns, PrePack, BlockRows, PerBlock, ColTiles, KSteps
<1>3. PerBlock \in Nat \ {0}
  <2>1. PICK t \in Nat \ {0}, s \in Nat \ {0} : t = ColTiles /\ s = KSteps
    BY <1>1
  <2>2. t * s \in Nat \ {0}
    OBVIOUS
  <2> QED  BY <2>1, <2>2 DEF PerBlock
<1> QED  BY <1>1, <1>2, <1>3

(* The steps of a run cover its block rows.                                *)
LEMMA StepFacts ==
  ASSUME design \in Designs
  PROVE  Steps \in Nat \ {0} /\ Steps * StepRows = BlockRows
<1>1. PICK b \in Nat \ {0}, s \in Nat \ {0} : b = BlockRows /\ s = StepRows
  BY DesignFacts
<1>2. b % s = 0
  BY <1>1, SequenceAssumption DEF BlockRows, StepRows
<1>3. b \div s \in Nat /\ b = (b \div s) * s
  <2>1. b \div s \in Nat /\ b = ((b \div s) * s) + (b % s)
    BY DivMod
  <2>2. (b \div s) * s \in Nat
    BY <2>1
  <2> QED  BY <1>2, <2>1, <2>2
<1>4. b \div s # 0
  <2>1. 0 * s = 0
    OBVIOUS
  <2> QED  BY <1>3, <2>1
<1> QED  BY <1>1, <1>3, <1>4 DEF Steps

(* The streams of A and the rows each of them feeds.                       *)
ShimOf(r) == r \div PerShim

(* The streams of A share the rows of the array out between them.          *)
LEMMA ShimFacts ==
  ASSUME design \in Designs
  PROVE  /\ NShimA \in Nat \ {0} /\ PerShim \in Nat \ {0} /\ NShimA * PerShim = Rows
         /\ \A c \in Col : OrdersA(c) <=> c \in Shim
         /\ Shim \subseteq Col
<1>1. Rows \in Nat \ {0} /\ Cols \in Nat \ {0}
  BY DesignFacts
<1>2. CASE Cols < Rows
  <2>1. PICK m \in Nat \ {0}, n \in Nat \ {0} : m = Rows /\ n = Cols /\ n < m
    BY <1>1, <1>2
  <2>2. m % n = 0
    BY <2>1, DesignAssumption DEF Rows, Cols
  <2>3. m \div n \in Nat /\ m = (m \div n) * n
    <3>1. m \div n \in Nat /\ m = ((m \div n) * n) + (m % n)
      BY DivMod
    <3>2. (m \div n) * n \in Nat
      BY <3>1
    <3> QED  BY <2>2, <3>1, <3>2
  <2>4. m \div n # 0
    <3>1. 0 * n = 0
      OBVIOUS
    <3> QED  BY <2>3, <3>1
  <2>5. n * (m \div n) = m
    BY <2>3
  <2>6. NShimA = n /\ PerShim = m \div n
    BY <2>1 DEF NShimA, PerShim
  <2>7. \A c \in Col : OrdersA(c) <=> c \in Shim
    BY <2>1, <2>6 DEF OrdersA, Shim, Col
  <2> QED  BY <2>1, <2>3, <2>4, <2>5, <2>6, <2>7 DEF Shim, Col
<1>3. CASE ~(Cols < Rows)
  <2>1. NShimA = Rows /\ PerShim = 1
    BY <1>1, <1>3 DEF NShimA, PerShim
  <2> QED  BY <1>1, <1>3, <2>1 DEF OrdersA, Shim, Col
<1> QED  BY <1>2, <1>3

(* Each row is fed by one stream, and each stream feeds some row.          *)
LEMMA RowFacts ==
  ASSUME design \in Designs
  PROVE  /\ \A r \in Row : ShimOf(r) \in Shim
         /\ \A i \in Shim, r \in Row : r \in RowsOf(i) <=> ShimOf(r) = i
         /\ \A i \in Shim : RowsOf(i) \subseteq Row /\ i * PerShim \in Row
                            /\ ShimOf(i * PerShim) = i
         /\ \A r \in Row, i \in Shim : r \in RowsOf(i) => r - i * PerShim \in 0 .. PerShim - 1
<1>1. PICK n \in Nat \ {0}, p \in Nat \ {0} : n = NShimA /\ p = PerShim /\ n * p = Rows
  BY ShimFacts
<1>2. /\ Shim = 0 .. n - 1 /\ Row = 0 .. n * p - 1
      /\ \A i : RowsOf(i) = i * p .. i * p + p - 1
      /\ \A r : ShimOf(r) = r \div p
  BY <1>1 DEF Shim, Row, RowsOf, ShimOf
<1>3. ASSUME NEW r \in Nat, r \in 0 .. n * p - 1 PROVE r \div p \in 0 .. n - 1
  <2>1. PICK q \in Nat, s \in 0 .. p - 1 : q = r \div p /\ r = q * p + s
    BY DivMod
  <2>2. ~(n <= q)
    <3> SUFFICES ASSUME n <= q PROVE FALSE
      OBVIOUS
    <3>1. n * p <= q * p
      <4>1. CASE n = q
        BY <4>1
      <4>2. CASE n # q
        <5>1. n * p + p <= q * p
          BY <4>2, ProductGrows
        <5>2. n * p \in Nat /\ q * p \in Nat
          OBVIOUS
        <5> QED  BY <5>1, <5>2
      <4> QED  BY <4>1, <4>2
    <3>2. n * p \in Nat /\ q * p \in Nat
      OBVIOUS
    <3> QED  BY <1>3, <2>1, <3>1, <3>2
  <2> QED  BY <2>1, <2>2
<1>4. ASSUME NEW i \in 0 .. n - 1, NEW s \in 0 .. p - 1
      PROVE  i * p + s \in 0 .. n * p - 1 /\ (i * p + s) \div p = i
  BY ProductRange, DivModUnique
<1>5. ASSUME NEW i \in 0 .. n - 1, NEW r \in i * p .. i * p + p - 1
      PROVE  /\ r \in 0 .. n * p - 1 /\ r \div p = i
             /\ r - i * p \in 0 .. p - 1
  <2>1. i * p \in Nat
    OBVIOUS
  <2>2. PICK s \in 0 .. p - 1 : r = i * p + s
    <3>1. r - i * p \in 0 .. p - 1 /\ r = i * p + (r - i * p)
      BY <2>1
    <3> QED  BY <3>1
  <2>3. r - i * p = s
    BY <2>1, <2>2
  <2> QED  BY <1>4, <2>2, <2>3
<1>6. ASSUME NEW i \in 0 .. n - 1, NEW r \in 0 .. n * p - 1, r \div p = i
      PROVE  r \in i * p .. i * p + p - 1
  <2>1. r \in Nat
    OBVIOUS
  <2>2. PICK s \in 0 .. p - 1 : r = i * p + s
    BY <1>6, <2>1, DivMod
  <2>3. i * p \in Nat
    OBVIOUS
  <2> QED  BY <2>2, <2>3
<1>7. \A r \in 0 .. n * p - 1 : r \in Nat
  OBVIOUS
<1>8. \A i \in 0 .. n - 1 : i * p \in i * p .. i * p + p - 1
  OBVIOUS
<1>9. \A r \in Row : ShimOf(r) \in Shim
  BY <1>2, <1>3, <1>7
<1>10. \A i \in Shim, r \in Row : r \in RowsOf(i) <=> ShimOf(r) = i
  BY <1>2, <1>5, <1>6
<1>11. \A i \in Shim : RowsOf(i) \subseteq Row
  BY <1>2, <1>5
<1>12. \A i \in Shim : i * PerShim \in Row /\ ShimOf(i * PerShim) = i
  BY <1>1, <1>2, <1>5, <1>8
<1>13. \A r \in Row, i \in Shim : r \in RowsOf(i) => r - i * PerShim \in 0 .. PerShim - 1
  BY <1>1, <1>2, <1>5
<1> QED  BY <1>9, <1>10, <1>11, <1>12, <1>13

(***************************************************************************)
(* What the host orders, in its order: the objects of a stream of A, of a  *)
(* column of B and of a column of C are numbered from 0 in each run.       *)
(***************************************************************************)
AObject(i, j) ==
  [group |-> ((j \div PerBlock) * NShimA) + i, k |-> (j % PerBlock) % KSteps, tg |-> tg]
(* What column c gets as step k of its column tile e.                      *)
BPlace(c, e, k) ==
  [n |-> IF PrePack THEN c * ColTiles + e ELSE c + Cols * e,
   k |-> IF PrePack /\ KSteps # 1 THEN AllK ELSE k]

BOf(c, j)     == BPlace(c, (j % PerBlock) \div KSteps, (j % PerBlock) % KSteps)
BObject(c, j) == [n |-> BOf(c, j).n, k |-> BOf(c, j).k, tg |-> tg]
CObject(c, j) ==
  [block |-> j \div ColTiles, n |-> c + Cols * (j % ColTiles), tg |-> tg]

AObjects == [group : 0 .. BlockRows * NShimA - 1, k : KStep, tg : Nat]
BObjects == [n : NTile, k : KStep \cup {AllK}, tg : Nat]
CObjects == [block : 0 .. BlockRows - 1, n : NTile, tg : Nat]

(* A quotient is below the number of its blocks.                           *)
LEMMA DivRange ==
  ASSUME NEW n \in Nat, NEW d \in Nat \ {0}, NEW x \in 0 .. n * d - 1
  PROVE  x \div d \in 0 .. n - 1
<1>1. x \in Nat
  OBVIOUS
<1>2. PICK q \in Nat, s \in 0 .. d - 1 : q = x \div d /\ x = (q * d) + s
  BY <1>1, DivMod
<1>3. ~(n <= q)
  <2> SUFFICES ASSUME n <= q PROVE FALSE
    OBVIOUS
  <2>1. n * d <= q * d
    <3>1. CASE n = q
      BY <3>1
    <3>2. CASE n # q
      <4>1. n * d + d <= q * d
        BY <3>2, ProductGrows
      <4>2. n * d \in Nat /\ q * d \in Nat
        OBVIOUS
      <4> QED  BY <4>1, <4>2
    <3> QED  BY <3>1, <3>2
  <2>2. n * d \in Nat /\ q * d \in Nat
    OBVIOUS
  <2> QED  BY <1>2, <2>1, <2>2
<1> QED  BY <1>2, <1>3

(* A tile of a column of tiles of C is one of C.                           *)
LEMMA TileRange ==
  ASSUME design \in Designs, NEW c \in Col, NEW t \in 0 .. ColTiles - 1
  PROVE  c + Cols * t \in NTile /\ c * ColTiles + t \in NTile
<1>1. PICK n \in Nat \ {0}, w \in Nat \ {0} : n = ColTiles /\ w = Cols
  BY DesignFacts
<1>2. t * w + c \in 0 .. n * w - 1
  BY <1>1, ProductRange DEF Col
<1>3. t * w + c = c + w * t
  <2>1. PICK x \in Nat : x = t * w
    BY <1>1
  <2>2. w * t = x
    BY <1>1, <2>1
  <2>3. c \in Nat
    BY <1>1 DEF Col
  <2> QED  BY <2>1, <2>2, <2>3
<1>4. c * n + t \in 0 .. w * n - 1
  BY <1>1, ProductRange DEF Col
<1>5. w * n = n * w
  OBVIOUS
<1> QED  BY <1>1, <1>2, <1>3, <1>4, <1>5 DEF NTile

(* A step of K of an object is one.                                        *)
LEMMA StepOfK ==
  ASSUME design \in Designs, NEW j \in Nat
  PROVE  /\ (j % PerBlock) % KSteps \in KStep
         /\ (j % PerBlock) \div KSteps \in 0 .. ColTiles - 1
<1>1. PICK n \in Nat \ {0}, s \in Nat \ {0} : n = ColTiles /\ s = KSteps /\ PerBlock = n * s
  BY DesignFacts DEF PerBlock
<1>2. PICK w \in Nat \ {0} : w = n * s
  BY <1>1, DesignFacts
<1>3. PICK y \in Nat : y = j % w /\ y \in 0 .. w - 1
  BY DivMod
<1>4. y \in 0 .. n * s - 1
  BY <1>2, <1>3
<1>5. y % s \in 0 .. s - 1 /\ y \div s \in 0 .. n - 1
  BY <1>4, DivMod, DivRange
<1> QED  BY <1>1, <1>2, <1>3, <1>5 DEF KStep

(* What is ordered lies in the matrices.                                   *)
LEMMA ObjectTypes ==
  ASSUME design \in Designs, tg \in Nat
  PROVE  /\ \A i \in Shim, j \in 0 .. BlockRows * PerBlock - 1 : AObject(i, j) \in AObjects
         /\ \A c \in Col, j \in Nat : BObject(c, j) \in BObjects
         /\ \A c \in Col, j \in 0 .. BlockRows * ColTiles - 1 : CObject(c, j) \in CObjects
<1>1. ASSUME NEW i \in Shim, NEW j \in 0 .. BlockRows * PerBlock - 1
      PROVE  AObject(i, j) \in AObjects
  <2>1. PICK b \in Nat \ {0}, p \in Nat \ {0}, n \in Nat \ {0} :
          b = BlockRows /\ p = PerBlock /\ n = NShimA
    BY DesignFacts, ShimFacts
  <2>2. j \div p \in 0 .. b - 1 /\ i \in 0 .. n - 1
    BY <2>1, DivRange DEF Shim
  <2>3. PICK q \in Nat : q = j \div p /\ q < b
    BY <2>2
  <2>4. q * n + i \in 0 .. b * n - 1
    BY <2>2, <2>3, ProductRange
  <2>5. j \in Nat
    BY <2>1
  <2>6. (j % PerBlock) % KSteps \in KStep
    BY <2>5, StepOfK
  <2> QED  BY <2>1, <2>3, <2>4, <2>6 DEF AObject, AObjects
<1>2. ASSUME NEW c \in Col, NEW j \in Nat PROVE BObject(c, j) \in BObjects
  <2>1. PICK e \in 0 .. ColTiles - 1, k \in KStep :
          e = (j % PerBlock) \div KSteps /\ k = (j % PerBlock) % KSteps
    BY StepOfK
  <2>2. c + Cols * e \in NTile /\ c * ColTiles + e \in NTile
    BY TileRange
  <2>3. BOf(c, j) = BPlace(c, e, k)
    BY <2>1 DEF BOf
  <2> QED  BY <2>2, <2>3 DEF BPlace, BObject, BObjects
<1>3. ASSUME NEW c \in Col, NEW j \in 0 .. BlockRows * ColTiles - 1 PROVE CObject(c, j) \in CObjects
  <2>1. PICK b \in Nat \ {0}, n \in Nat \ {0} : b = BlockRows /\ n = ColTiles
    BY DesignFacts
  <2>2. j \div n \in 0 .. b - 1
    BY <2>1, DivRange
  <2>3. j % n \in 0 .. n - 1
    BY <2>1, DivMod
  <2>4. c + Cols * (j % ColTiles) \in NTile
    BY <2>1, <2>3, TileRange
  <2> QED  BY <2>1, <2>2, <2>4 DEF CObject, CObjects
<1> QED  BY <1>1, <1>2, <1>3

(* The objects of s fills of n objects each.                               *)
LEMMA FillsOf ==
  ASSUME NEW taps, Len(taps[1]) \in Nat
  PROVE  Fills(taps) = [x \in 1 .. Len(taps) * Len(taps[1]) |-> Fills(taps)[x]]
  BY DEF Fills

(* The fills, object by object.                                            *)
LEMMA FillsAt ==
  ASSUME NEW taps, Len(taps) \in Nat \ {0}, Len(taps[1]) \in Nat \ {0},
         NEW x \in 1 .. Len(taps) * Len(taps[1])
  PROVE  \E q \in 0 .. Len(taps) - 1, y \in 0 .. Len(taps[1]) - 1 :
           x - 1 = q * Len(taps[1]) + y /\ Fills(taps)[x] = taps[1 + q][1 + y]
<1> DEFINE s == Len(taps)
           n == Len(taps[1])
<1>1. Fills(taps) = [z \in 1 .. s * n |-> taps[1 + ((z - 1) \div n)][1 + ((z - 1) % n)]]
  BY DEF Fills
<1> HIDE DEF s, n
<1>2. s \in Nat \ {0} /\ n \in Nat \ {0} /\ x \in 1 .. s * n
  BY DEF s, n
<1>3. PICK w \in Nat : w = s * n /\ x \in 1 .. w
  BY <1>2
<1>4. PICK z \in Nat : z = x - 1 /\ z \in 0 .. s * n - 1
  BY <1>3
<1>5. z \div n \in 0 .. s - 1
  BY <1>4, <1>2, DivRange
<1>6. z % n \in 0 .. n - 1 /\ z = ((z \div n) * n) + (z % n)
  BY <1>2, DivMod
<1>7. Fills(taps)[x] = taps[1 + (z \div n)][1 + (z % n)]
  BY <1>1, <1>4, <1>2
<1>8. PICK q \in 0 .. s - 1, y \in 0 .. n - 1 :
        z = q * n + y /\ Fills(taps)[x] = taps[1 + q][1 + y]
  BY <1>5, <1>6, <1>7
<1> QED  BY <1>4, <1>8 DEF s, n

(* In a run that has begun, the host orders for a step the objects that    *)
(* follow those of the steps before.                                       *)
LEMMA ATapsInOrder ==
  ASSUME design \in Designs, NEW s \in 0 .. Steps - 1, NEW c \in Shim,
         NEW taps, Len(taps) = StepRows,
         \A q \in 1..StepRows : taps[q] = ATap(TileOffset(BlocksOf(s)[q], c))
  PROVE  /\ Fills(taps) = [x \in 1 .. StepRows * PerBlock |-> Fills(taps)[x]]
         /\ \A x \in 1 .. StepRows * PerBlock :
              Fills(taps)[x] = AObject(c, s * (StepRows * PerBlock) + (x - 1))
<1>1. PICK h \in Nat \ {0}, p \in Nat \ {0}, n \in Nat \ {0}, b \in Nat \ {0} :
        h = StepRows /\ p = PerBlock /\ n = NShimA /\ b = BlockRows
  BY DesignFacts, ShimFacts
<1>2. /\ Steps \in Nat \ {0} /\ Steps * h = b /\ c \in 0 .. n - 1 /\ s \in Nat /\ s < Steps
      /\ p = Repeats * KSteps
  BY <1>1, StepFacts DEF Shim, PerBlock, Repeats
<1>3. \A q \in 1..h : taps[q] = ATap(TileOffset(s * h + q - 1, c))
  BY <1>1 DEF BlocksOf
<1>4. Len(taps) = h
  BY <1>1
<1>5. \A g : ATap(g) = [x \in 1..p |-> [group |-> g, k |-> (x - 1) % KSteps, tg |-> tg]]
  BY <1>2 DEF ATap
<1>6. Len(taps[1]) = p
  <2>1. taps[1] = ATap(TileOffset(s * h + 1 - 1, c))
    BY <1>3
  <2>2. PICK g : g = TileOffset(s * h + 1 - 1, c)
    OBVIOUS
  <2>3. taps[1] = [x \in 1..p |-> [group |-> g, k |-> (x - 1) % KSteps, tg |-> tg]]
    BY <1>5, <2>1, <2>2
  <2> QED  BY <2>3
<1>7. ASSUME NEW x \in 1 .. h * p
      PROVE  Fills(taps)[x] = AObject(c, s * (h * p) + (x - 1))
  <2>1. Len(taps) = h /\ Len(taps[1]) = p /\ x \in 1 .. Len(taps) * Len(taps[1])
    BY <1>4, <1>6
  <2>2. PICK q \in 0 .. h - 1, y \in 0 .. p - 1 :
          x - 1 = q * p + y /\ Fills(taps)[x] = taps[1 + q][1 + y]
    <3>1. \E q \in 0 .. Len(taps) - 1, y \in 0 .. Len(taps[1]) - 1 :
            x - 1 = q * Len(taps[1]) + y /\ Fills(taps)[x] = taps[1 + q][1 + y]
      BY <2>1, FillsAt
    <3> QED  BY <2>1, <3>1
  <2>3. PICK block \in Nat : block = s * h + q /\ block < b
    <3>1. s * h + q \in 0 .. Steps * h - 1
      BY <1>2, ProductRange
    <3> QED  BY <1>2, <3>1
  <2>4. TileOffset(block, c) = block * n + c
    <3>1. block * n + c \in 0 .. b * n - 1
      BY <1>2, <2>3, ProductRange
    <3>2. PICK z \in Nat, m \in Nat \ {0} : z = block * n + c /\ m = b * n /\ z < m
      BY <3>1
    <3>3. z % m = z
      BY <3>2
    <3> QED  BY <1>1, <3>2, <3>3 DEF TileOffset
  <2>5. taps[1 + q] = ATap(block * n + c)
    <3>1. 1 + q \in 1..h /\ s * h + (1 + q) - 1 = block
      BY <2>3
    <3> QED  BY <1>3, <2>4, <3>1
  <2>6. Fills(taps)[x] = [group |-> block * n + c, k |-> y % KSteps, tg |-> tg]
    <3>1. 1 + y \in 1..p /\ (1 + y) - 1 = y
      OBVIOUS
    <3> QED  BY <1>5, <2>2, <2>5, <3>1
  <2>7. s * (h * p) + (x - 1) = block * p + y
    <3>1. s * (h * p) + q * p = (s * h + q) * p
      BY <1>2
    <3>2. PICK u \in Nat, v \in Nat : u = s * (h * p) /\ v = q * p
      BY <1>2
    <3>3. u + v = block * p
      BY <2>3, <3>1, <3>2
    <3>4. u + (v + y) = block * p + y
      BY <3>3
    <3> QED  BY <2>2, <3>2, <3>4
  <2>8. (block * p + y) \div p = block /\ (block * p + y) % p = y
    BY DivModUnique
  <2> QED  BY <1>1, <2>6, <2>7, <2>8 DEF AObject
<1>8. Fills(taps) = [x \in 1 .. h * p |-> Fills(taps)[x]]
  BY <1>4, <1>6, FillsOf
<1> QED  BY <1>1, <1>7, <1>8

(* Fills of B for a block row: of a packed B only one tile.                *)
BPerBlock == IF PrePack THEN 1 ELSE PerBlock

(* Of B too, the fills of a step are the next objects of the stream.       *)
LEMMA BTapsInOrder ==
  ASSUME design \in Designs, NEW s \in 0 .. Steps - 1, NEW c \in Col,
         NEW taps, Len(taps) = StepRows,
         \A q \in 1..StepRows : taps[q] = BTap(c, BlocksOf(s)[q])
  PROVE  /\ Fills(taps) = [x \in 1 .. StepRows * BPerBlock |-> Fills(taps)[x]]
         /\ \A x \in 1 .. StepRows * BPerBlock :
              Fills(taps)[x] = BObject(c, s * (StepRows * BPerBlock) + (x - 1))
<1>1. PICK h \in Nat \ {0}, p \in Nat \ {0}, b \in Nat \ {0}, t \in Nat \ {0}, k \in Nat \ {0} :
        h = StepRows /\ p = PerBlock /\ b = BlockRows /\ t = ColTiles /\ k = KSteps
  BY DesignFacts
<1>2. /\ Steps \in Nat \ {0} /\ Steps * h = b /\ c \in Nat /\ s \in Nat /\ s < Steps
      /\ p = t * k /\ PrePack \in BOOLEAN /\ (PrePack => b <= p)
  BY <1>1, StepFacts, DesignFacts DEF Col, PerBlock
<1>3. \A q \in 1..h : taps[q] = BTap(c, s * h + q - 1)
  BY <1>1 DEF BlocksOf
<1>4. ASSUME NEW q \in 0 .. h - 1
      PROVE  s * h + q \in 0 .. b - 1 /\ s * h + (1 + q) - 1 = s * h + q /\ 1 + q \in 1..h
  <2>1. s * h + q \in 0 .. Steps * h - 1
    BY <1>2, ProductRange
  <2>2. s * h \in Nat
    BY <1>2
  <2> QED  BY <1>2, <2>1, <2>2
<1>5. CASE ~PrePack
  <2>1. \A g : BTap(c, g) = [x \in 1..p |-> [n |-> c + Cols * ((x - 1) \div k),
                                             k |-> (x - 1) % k, tg |-> tg]]
    BY <1>1, <1>2, <1>5 DEF BTap
  <2>2. Len(taps) = h /\ Len(taps[1]) = p
    <3>1. taps[1] = BTap(c, s * h + 1 - 1)
      BY <1>3
    <3> QED  BY <1>1, <2>1, <3>1
  <2>3. ASSUME NEW x \in 1 .. h * p
        PROVE  Fills(taps)[x] = BObject(c, s * (h * p) + (x - 1))
    <3>1. x \in 1 .. Len(taps) * Len(taps[1])
      BY <2>2
    <3>2. PICK q \in 0 .. h - 1, y \in 0 .. p - 1 :
            x - 1 = q * p + y /\ Fills(taps)[x] = taps[1 + q][1 + y]
      <4>1. \E q \in 0 .. Len(taps) - 1, y \in 0 .. Len(taps[1]) - 1 :
              x - 1 = q * Len(taps[1]) + y /\ Fills(taps)[x] = taps[1 + q][1 + y]
        BY <2>2, <3>1, FillsAt
      <4> QED  BY <2>2, <4>1
    <3>3. PICK block \in Nat : block = s * h + q /\ taps[1 + q] = BTap(c, block)
      <4>1. s * h + q \in Nat /\ s * h + (1 + q) - 1 = s * h + q /\ 1 + q \in 1..h
        BY <1>4
      <4>2. taps[1 + q] = BTap(c, s * h + (1 + q) - 1)
        BY <1>3, <4>1
      <4> QED  BY <4>1, <4>2
    <3>4. Fills(taps)[x] = [n |-> c + Cols * (y \div k), k |-> y % k, tg |-> tg]
      <4>1. PICK z \in 1..p : z = 1 + y /\ z - 1 = y
        OBVIOUS
      <4>2. BTap(c, block)[z] = [n |-> c + Cols * ((z - 1) \div k), k |-> (z - 1) % k, tg |-> tg]
        BY <2>1
      <4>3. Fills(taps)[x] = BTap(c, block)[z]
        BY <3>2, <3>3, <4>1
      <4> QED  BY <4>1, <4>2, <4>3
    <3>5. s * (h * p) + (x - 1) = block * p + y
      <4>1. s * (h * p) + q * p = (s * h + q) * p
        BY <1>2
      <4>2. PICK u \in Nat, v \in Nat : u = s * (h * p) /\ v = q * p
        BY <1>2
      <4>3. u + v = block * p
        BY <3>3, <4>1, <4>2
      <4>4. u + (v + y) = block * p + y
        BY <4>3
      <4> QED  BY <3>2, <4>2, <4>4
    <3>6. (block * p + y) % p = y
      BY DivModUnique
    <3>7. BObject(c, block * p + y) = [n |-> c + Cols * (y \div k), k |-> y % k, tg |-> tg]
      BY <1>1, <1>5, <3>6 DEF BObject, BOf, BPlace
    <3> QED  BY <3>4, <3>5, <3>7
  <2>4. Fills(taps) = [x \in 1 .. h * p |-> Fills(taps)[x]]
    BY <2>2, FillsOf
  <2> QED  BY <1>1, <1>5, <2>3, <2>4 DEF BPerBlock
<1>6. CASE PrePack
  <2>1. ASSUME NEW g \in 0 .. b - 1
        PROVE  BTap(c, g) = <<BObject(c, g)>>
    <3>1. g \in 0 .. p - 1 /\ g \in Nat /\ c \in Nat
      BY <1>2, <1>6
    <3>2. g % p = g
      BY <3>1
    <3>3. PICK e \in Nat, f \in 0 .. k - 1 : e = g \div k /\ f = g % k /\ g = (e * k) + f
      BY <3>1, Quotient
    <3>4. (c * p + g) \div k = c * t + e
      <4>1. (c * t + e) * k = c * (t * k) + e * k
        BY <3>1
      <4>2. PICK u \in Nat, v \in Nat, z \in Nat : u = c * p /\ v = e * k /\ z = c * t + e
        BY <3>1
      <4>3. z * k = u + v /\ g = v + f
        BY <1>2, <3>3, <4>1, <4>2
      <4>4. c * p + g = z * k + f
        BY <4>2, <4>3
      <4>5. (z * k + f) \div k = z
        BY DivModUnique
      <4> QED  BY <4>2, <4>4, <4>5
    <3>5. k = 1 => f = 0
      OBVIOUS
    <3>6. BTap(c, g) = <<[n |-> c * t + e, k |-> IF k = 1 THEN 0 ELSE AllK, tg |-> tg]>>
      BY <1>1, <1>2, <1>6, <3>4 DEF BTap, Piece
    <3>7. BObject(c, g) = [n |-> c * t + e, k |-> IF k # 1 THEN AllK ELSE f, tg |-> tg]
      BY <1>1, <1>6, <3>2, <3>3 DEF BObject, BOf, BPlace
    <3> QED  BY <3>5, <3>6, <3>7
  <2>2. Len(taps) = h /\ Len(taps[1]) = 1
    <3>1. taps[1] = BTap(c, s * h + 1 - 1) /\ s * h + 1 - 1 \in 0 .. b - 1
      <4>1. 0 \in 0 .. h - 1 /\ 1 \in 1..h
        OBVIOUS
      <4>2. s * h + 0 \in 0 .. b - 1
        BY <1>4, <4>1
      <4>3. s * h + 0 = s * h + 1 - 1
        <5>1. s * h \in Nat
          BY <1>2
        <5> QED  BY <5>1
      <4> QED  BY <1>3, <4>1, <4>2, <4>3
    <3> QED  BY <1>1, <2>1, <3>1
  <2>3. Len(taps) \in Nat \ {0} /\ Len(taps[1]) \in Nat \ {0}
    BY <2>2
  <2>4. ASSUME NEW x \in 1 .. h
        PROVE  Fills(taps)[x] = BObject(c, s * h + (x - 1))
    <3>1. x \in 1 .. Len(taps) * Len(taps[1])
      BY <2>2
    <3>2. PICK q \in 0 .. h - 1 : x - 1 = q /\ Fills(taps)[x] = taps[1 + q][1]
      <4>1. \E q \in 0 .. Len(taps) - 1, y \in 0 .. Len(taps[1]) - 1 :
              x - 1 = q * Len(taps[1]) + y /\ Fills(taps)[x] = taps[1 + q][1 + y]
        BY <2>3, <3>1, FillsAt
      <4> QED  BY <2>2, <4>1
    <3>3. PICK block \in 0 .. b - 1 : block = s * h + q /\ taps[1 + q] = BTap(c, block)
      <4>1. s * h + q \in 0 .. b - 1 /\ s * h + (1 + q) - 1 = s * h + q /\ 1 + q \in 1..h
        BY <1>4
      <4>2. taps[1 + q] = BTap(c, s * h + (1 + q) - 1)
        BY <1>3, <4>1
      <4> QED  BY <4>1, <4>2
    <3>4. taps[1 + q] = <<BObject(c, block)>>
      BY <2>1, <3>3
    <3> QED  BY <3>2, <3>3, <3>4
  <2>5. Fills(taps) = [x \in 1 .. h |-> Fills(taps)[x]]
    <3>1. Fills(taps) = [x \in 1 .. Len(taps) * Len(taps[1]) |-> Fills(taps)[x]]
      BY <2>3, FillsOf
    <3> QED  BY <2>2, <3>1
  <2>6. StepRows * BPerBlock = h
    BY <1>1, <1>6 DEF BPerBlock
  <2> QED  BY <2>4, <2>5, <2>6
<1> QED  BY <1>2, <1>5, <1>6

(* And the drain of a step of C are the next places.                       *)
LEMMA CTapInOrder ==
  ASSUME design \in Designs, NEW s \in 0 .. Steps - 1, NEW c \in Col
  PROVE  CTap(CIndex(s, c)) = [x \in 1 .. StepRows * ColTiles |->
                                 CObject(c, s * (StepRows * ColTiles) + (x - 1))]
<1>1. PICK h \in Nat \ {0}, t \in Nat \ {0}, w \in Nat \ {0} :
        h = StepRows /\ t = ColTiles /\ w = Cols
  BY DesignFacts
<1>2. s \in Nat /\ c \in 0 .. w - 1
  BY <1>1, StepFacts DEF Col
<1>3. CIndex(s, c) \div Cols = s /\ CIndex(s, c) % Cols = c
  BY <1>1, <1>2, DivModUnique DEF CIndex
<1>4. ASSUME NEW x \in 1 .. h * t
      PROVE  /\ (s * (h * t) + (x - 1)) \div t = s * h + ((x - 1) \div t)
             /\ (s * (h * t) + (x - 1)) % t = (x - 1) % t
  <2>1. PICK y \in Nat : y = x - 1
    <3>1. h * t \in Nat
      OBVIOUS
    <3> QED  BY <3>1
  <2>2. PICK q \in Nat, r \in 0 .. t - 1 : q = y \div t /\ r = y % t /\ y = q * t + r
    BY DivMod
  <2>3. PICK z \in Nat : z = s * h + q
    BY <1>2
  <2>4. s * (h * t) + y = z * t + r
    <3>1. s * (h * t) + q * t = (s * h + q) * t
      BY <1>2
    <3>2. PICK u \in Nat, v \in Nat : u = s * (h * t) /\ v = q * t
      BY <1>2
    <3>3. u + v = z * t
      BY <2>3, <3>1, <3>2
    <3>4. u + (v + r) = z * t + r
      BY <3>3
    <3> QED  BY <2>2, <3>2, <3>4
  <2>5. (z * t + r) \div t = z /\ (z * t + r) % t = r
    BY DivModUnique
  <2> QED  BY <2>1, <2>2, <2>3, <2>4, <2>5
<1>5. CTap(CIndex(s, c)) =
        [x \in 1 .. h * t |-> [block |-> s * h + ((x - 1) \div t),
                               n |-> c + Cols * ((x - 1) % t), tg |-> tg]]
  BY <1>1, <1>3 DEF CTap
<1>6. ASSUME NEW x \in 1 .. h * t
      PROVE  [block |-> s * h + ((x - 1) \div t), n |-> c + Cols * ((x - 1) % t), tg |-> tg]
             = CObject(c, s * (h * t) + (x - 1))
  BY <1>1, <1>4 DEF CObject
<1> QED  BY <1>1, <1>5, <1>6

(* The fifo holds what the stream F has from its number n on.              *)
Segment(fifo, F, n) == \A j \in 1..Len(fifo) : fifo[j] = F[n + j - 1]

(* The first of a fifo is the next of the stream, and is taken from it.    *)
LEMMA SegmentTail ==
  ASSUME NEW T, NEW fifo \in Seq(T), fifo # <<>>, NEW F, NEW n \in Nat, Segment(fifo, F, n)
  PROVE  /\ Head(fifo) = F[n] /\ Head(fifo) \in T
         /\ Tail(fifo) \in Seq(T) /\ Len(Tail(fifo)) = Len(fifo) - 1 /\ Len(fifo) \in Nat \ {0}
         /\ Segment(Tail(fifo), F, n + 1)
<1>1. /\ Len(fifo) \in Nat \ {0} /\ Head(fifo) = fifo[1] /\ Head(fifo) \in T
      /\ Tail(fifo) \in Seq(T) /\ Len(Tail(fifo)) = Len(fifo) - 1
      /\ \A j \in 1 .. Len(fifo) - 1 : Tail(fifo)[j] = fifo[j + 1]
  OBVIOUS
<1>2. Head(fifo) = F[n]
  <2>1. 1 \in 1..Len(fifo) /\ n + 1 - 1 = n
    BY <1>1
  <2> QED  BY <1>1, <2>1 DEF Segment
<1>3. ASSUME NEW j \in 1 .. Len(fifo) - 1
      PROVE  Tail(fifo)[j] = F[n + 1 + j - 1]
  <2>1. j + 1 \in 1..Len(fifo) /\ n + (j + 1) - 1 = n + 1 + j - 1
    BY <1>1
  <2>2. fifo[j + 1] = F[n + (j + 1) - 1]
    BY <2>1 DEF Segment
  <2> QED  BY <1>1, <2>1, <2>2
<1>4. Segment(Tail(fifo), F, n + 1)
  BY <1>1, <1>3 DEF Segment
<1> QED  BY <1>1, <1>2, <1>4

(* A fifo is extended by what comes next in the stream.                    *)
LEMMA SegmentConcat ==
  ASSUME NEW T, NEW fifo \in Seq(T), NEW F, NEW n \in Nat, Segment(fifo, F, n),
         NEW more \in Seq(T),
         \A x \in 1..Len(more) : more[x] = F[n + Len(fifo) + (x - 1)]
  PROVE  /\ fifo \o more \in Seq(T) /\ Len(fifo \o more) = Len(fifo) + Len(more)
         /\ Segment(fifo \o more, F, n)
<1> DEFINE m == Len(more)
<1>1. more \in Seq(T) /\ m \in Nat
  OBVIOUS
<1>2. /\ fifo \o more \in Seq(T) /\ Len(fifo \o more) = Len(fifo) + m /\ Len(fifo) \in Nat
      /\ \A j \in 1 .. Len(fifo) + m :
           (fifo \o more)[j] = IF j <= Len(fifo) THEN fifo[j] ELSE more[j - Len(fifo)]
  BY <1>1
<1>3. ASSUME NEW j \in 1 .. Len(fifo) + m
      PROVE  (fifo \o more)[j] = F[n + j - 1]
  <2>1. CASE j <= Len(fifo)
    <3>1. j \in 1..Len(fifo)
      BY <1>2, <2>1
    <3> QED  BY <1>2, <2>1, <3>1 DEF Segment
  <2>2. CASE ~(j <= Len(fifo))
    <3>1. j - Len(fifo) \in 1..m /\ n + Len(fifo) + ((j - Len(fifo)) - 1) = n + j - 1
      BY <1>2, <2>2
    <3>2. more[j - Len(fifo)] = F[n + Len(fifo) + ((j - Len(fifo)) - 1)]
      BY <3>1
    <3> QED  BY <1>2, <2>2, <3>1, <3>2
  <2> QED  BY <2>1, <2>2
<1> QED  BY <1>2, <1>3 DEF Segment

(* One object is put into a fifo when it is the next of the stream.        *)
LEMMA SegmentAppend ==
  ASSUME NEW T, NEW fifo \in Seq(T), NEW F, NEW n \in Nat, Segment(fifo, F, n),
         NEW x \in T, x = F[n + Len(fifo)]
  PROVE  /\ Append(fifo, x) \in Seq(T) /\ Len(Append(fifo, x)) = Len(fifo) + 1
         /\ Segment(Append(fifo, x), F, n)
<1>1. /\ Append(fifo, x) \in Seq(T) /\ Len(Append(fifo, x)) = Len(fifo) + 1 /\ Len(fifo) \in Nat
      /\ \A j \in 1 .. Len(fifo) + 1 :
           Append(fifo, x)[j] = IF j <= Len(fifo) THEN fifo[j] ELSE x
  OBVIOUS
<1>2. ASSUME NEW j \in 1 .. Len(fifo) + 1
      PROVE  Append(fifo, x)[j] = F[n + j - 1]
  <2>1. CASE j <= Len(fifo)
    <3>1. j \in 1..Len(fifo)
      BY <1>1, <2>1
    <3> QED  BY <1>1, <2>1, <3>1 DEF Segment
  <2>2. CASE ~(j <= Len(fifo))
    <3>1. n + Len(fifo) = n + j - 1
      BY <1>1, <2>2
    <3> QED  BY <1>1, <2>2, <3>1
  <2> QED  BY <2>1, <2>2
<1> QED  BY <1>1, <1>2 DEF Segment

(* An empty fifo is a segment of any stream, wherever that has got to.     *)
LEMMA SegmentEmpty == ASSUME NEW F, NEW n PROVE Segment(<<>>, F, n)
  BY DEF Segment

(***************************************************************************)
(* The streams: what is ordered, and the tiles that pass in each row of    *)
(* cores, each column, and out of each core, numbered from 0 in each run.  *)
(***************************************************************************)
AStream(i) == [j \in Nat |-> AObject(i, j)]
BStream(c) == [j \in Nat |-> BObject(c, j)]
CStream(c) == [j \in Nat |-> CObject(c, j)]

RowTile(r, d) == ((d \div ColTiles) * Rows) + r

RowStream(r) ==
  [j \in Nat |-> [m |-> ((j \div PerBlock) * Rows) + r, k |-> (j % PerBlock) % KSteps]]
ColStream(c) == [j \in Nat |-> BOf(c, j)]

(* What a core adds up in the first k steps of its tile d of C.            *)
Added(r, c, d, k) ==
  {[a |-> [m |-> RowTile(r, d), k |-> x], b |-> BPlace(c, d % ColTiles, x)] : x \in 0 .. k - 1}
SumStream(r, c) == [d \in Nat |-> Added(r, c, d, KSteps)]

(* What is added up for the tile <<m, n>> of C.                            *)
Multiplied(m, n) ==
  {[a |-> [m |-> m, k |-> k], b |-> BPlace(n % Cols, n \div Cols, k)] : k \in KStep}

(* The steps of a run for which the column c has been ordered, and how     *)
(* many objects that is.                                                   *)
Begun(c)    == IF runs = 0 THEN 0 ELSE IF c < col THEN step + 1 ELSE step
AOrdered(i) == Begun(i) * (StepRows * PerBlock)
BOrdered(c) == Begun(c) * (StepRows * BPerBlock)
COrdered(c) == Begun(c) * (StepRows * ColTiles)

(* How many objects have passed each place in this run: what was ordered   *)
(* without what is still before it; of C, what was written and what lies   *)
(* between.                                                                *)
ATaken(i)   == AOrdered(i) - Len(toA[i])
AInRow(r)   == ATaken(ShimOf(r)) - Len(l2A[r])
AUsed(r, c) == AInRow(r) - Len(l1A[r][c])
BTaken(c)   == BOrdered(c) - Len(toB[c])
BInCol(c)   == BTaken(c) - Len(l2B[c])
BUsed(r, c) == BInCol(c) - Len(l1B[r][c])
CWritten(c)     == COrdered(c) - Len(fromC[c])
CJoined(r, c)   == CWritten(c) + Len(l2C[r][c])
CReleased(r, c) == CJoined(r, c) + Len(l1C[r][c])

AInv ==
  /\ toA \in [Shim -> Seq(AObjects)]
  /\ l2A \in [Row -> Seq(ATile)] /\ l1A \in [Row -> [Col -> Seq(ATile)]]
  /\ \A r \in Row : Len(l2A[r]) <= Depth /\ \A c \in Col : Len(l1A[r][c]) <= Depth
  /\ \A i \in Shim : Segment(toA[i], AStream(i), ATaken(i))
  /\ \A r \in Row : Segment(l2A[r], RowStream(r), AInRow(r))
  /\ \A r \in Row, c \in Col : Segment(l1A[r][c], RowStream(r), AUsed(r, c))

BInv ==
  /\ toB \in [Col -> Seq(BObjects)]
  /\ l2B \in [Col -> Seq(BTile)] /\ l1B \in [Row -> [Col -> Seq(BTile)]]
  /\ \A c \in Col : Len(l2B[c]) <= Depth /\ \A r \in Row : Len(l1B[r][c]) <= Depth
  /\ \A c \in Col : Segment(toB[c], BStream(c), BTaken(c))
  /\ \A c \in Col : Segment(l2B[c], ColStream(c), BInCol(c))
  /\ \A r \in Row, c \in Col : Segment(l1B[r][c], ColStream(c), BUsed(r, c))

CInv ==
  /\ fromC \in [Col -> Seq(CObjects)]
  /\ l2C \in [Row -> [Col -> Seq(SUBSET Product)]]
  /\ l1C \in [Row -> [Col -> Seq(SUBSET Product)]]
  /\ \A r \in Row, c \in Col : Len(l2C[r][c]) <= Depth /\ Len(l1C[r][c]) <= Depth
  /\ \A c \in Col : CWritten(c) \in Nat /\ Segment(fromC[c], CStream(c), CWritten(c))
  /\ \A r \in Row, c \in Col :
       /\ Segment(l2C[r][c], SumStream(r, c), CWritten(c))
       /\ Segment(l1C[r][c], SumStream(r, c), CJoined(r, c))

(* A core has taken as much of A as of B: all of the tiles of C it has     *)
(* released and the steps of K it has added to the next, for which it has  *)
(* acquired a buffer.                                                      *)
Worker == [busy : BOOLEAN, k : 0..KSteps, acc : SUBSET Product]

CoreInv(r, c) ==
  LET d == CReleased(r, c)
      worker == core[r][c]
  IN  /\ AUsed(r, c) = d * KSteps + (IF worker.busy THEN worker.k ELSE 0)
      /\ BUsed(r, c) = AUsed(r, c)
      /\ worker.busy => /\ worker.acc = Added(r, c, d, worker.k)
                         /\ Len(l1C[r][c]) < Depth

ResultInv ==
  /\ result \in [MTile \X NTile -> SUBSET Product]
  /\ \A p \in MTile \X NTile :
       result[p] = IF ((p[1] \div Rows) * ColTiles) + (p[2] \div Cols) < CWritten(p[2] % Cols)
                   THEN Multiplied(p[1], p[2]) ELSE {}

(* From the third step on, and at the end, all steps before are written.   *)
HostInv ==
  /\ runs \in 0..MaxRuns /\ step \in 0..Steps /\ col \in 0..Cols /\ tg \in Nat
  /\ runs = 0 => step = Steps /\ col = 0
  /\ step = Steps => col = 0
  /\ runs > 0 /\ (step >= 2 \/ step = Steps) =>
       \A c \in Col : CWritten(c) >= step * (StepRows * ColTiles)

GemmInv ==
  /\ design \in Designs
  /\ AInv /\ BInv /\ CInv /\ HostInv /\ ResultInv
  /\ core \in [Row -> [Col -> Worker]]
  /\ \A r \in Row, c \in Col : CoreInv(r, c)

(* The invariant has the types in it.                                      *)
LEMMA GemmTypes == GemmInv => TypeOK
  BY DEF GemmInv, AInv, BInv, CInv, HostInv, ResultInv, Worker, AObjects, BObjects, CObjects,
         TypeOK, ArrayTypeOK

(* The types, fifo by fifo.                                                *)
LEMMA FifoTypes ==
  ASSUME GemmInv
  PROVE  /\ design \in Designs
         /\ \A i \in Shim : toA[i] \in Seq(AObjects) /\ Len(toA[i]) \in Nat
         /\ \A c \in Col : /\ toB[c] \in Seq(BObjects) /\ Len(toB[c]) \in Nat
                           /\ fromC[c] \in Seq(CObjects) /\ Len(fromC[c]) \in Nat
         /\ \A r \in Row : l2A[r] \in Seq(ATile) /\ Len(l2A[r]) \in Nat
         /\ \A c \in Col : l2B[c] \in Seq(BTile) /\ Len(l2B[c]) \in Nat
         /\ \A r \in Row, c \in Col :
              /\ l1A[r][c] \in Seq(ATile) /\ Len(l1A[r][c]) \in Nat
              /\ l1B[r][c] \in Seq(BTile) /\ Len(l1B[r][c]) \in Nat
              /\ l1C[r][c] \in Seq(SUBSET Product) /\ Len(l1C[r][c]) \in Nat
              /\ l2C[r][c] \in Seq(SUBSET Product) /\ Len(l2C[r][c]) \in Nat
              /\ core[r][c] \in Worker
<1>1. design \in Designs
  BY DEF GemmInv
<1>2. /\ \A i \in Shim : toA[i] \in Seq(AObjects)
      /\ \A c \in Col : toB[c] \in Seq(BObjects) /\ fromC[c] \in Seq(CObjects)
  BY DEF GemmInv, AInv, BInv, CInv
<1>3. /\ \A r \in Row : l2A[r] \in Seq(ATile)
      /\ \A c \in Col : l2B[c] \in Seq(BTile)
  BY DEF GemmInv, AInv, BInv
<1>4. \A r \in Row, c \in Col :
        /\ l1A[r][c] \in Seq(ATile) /\ l1B[r][c] \in Seq(BTile)
        /\ l1C[r][c] \in Seq(SUBSET Product) /\ l2C[r][c] \in Seq(SUBSET Product)
        /\ core[r][c] \in Worker
  BY DEF GemmInv, AInv, BInv, CInv
<1>5. \A T : \A fifo \in Seq(T) : Len(fifo) \in Nat
  OBVIOUS
<1> QED  BY <1>1, <1>2, <1>3, <1>4, <1>5

(* What was ordered is so many objects.                                    *)
LEMMA OrderedNat ==
  ASSUME design \in Designs, HostInv, NEW c \in Col
  PROVE  Begun(c) \in Nat /\ AOrdered(c) \in Nat /\ BOrdered(c) \in Nat /\ COrdered(c) \in Nat
<1>1. PICK h \in Nat \ {0}, p \in Nat \ {0}, q \in Nat \ {0}, t \in Nat \ {0} :
        h = StepRows /\ p = PerBlock /\ q = BPerBlock /\ t = ColTiles
  BY DesignFacts DEF BPerBlock
<1>2. step \in Nat /\ col \in Nat /\ c \in Nat
  BY DesignFacts, StepFacts DEF HostInv, Col
<1>3. PICK s \in Nat : s = Begun(c)
  BY <1>2 DEF Begun
<1>4. s * (h * p) \in Nat /\ s * (h * q) \in Nat /\ s * (h * t) \in Nat
  OBVIOUS
<1> QED  BY <1>1, <1>3, <1>4 DEF AOrdered, BOrdered, COrdered

(* All that is counted are numbers of objects.                             *)
LEMMA CountersNat ==
  ASSUME GemmInv
  PROVE  /\ \A i \in Shim : ATaken(i) \in Nat
         /\ \A r \in Row : AInRow(r) \in Nat
         /\ \A c \in Col : BTaken(c) \in Nat /\ BInCol(c) \in Nat /\ CWritten(c) \in Nat
         /\ \A r \in Row, c \in Col :
              /\ AUsed(r, c) \in Nat /\ BUsed(r, c) \in Nat
              /\ CJoined(r, c) \in Nat /\ CReleased(r, c) \in Nat
<1>1. design \in Designs /\ HostInv
  BY DEF GemmInv
<1>2. \A c \in Col : CWritten(c) \in Nat
  BY DEF GemmInv, CInv
<1>3. \A r \in Row, c \in Col : CJoined(r, c) \in Nat /\ CReleased(r, c) \in Nat
  <2> SUFFICES ASSUME NEW r \in Row, NEW c \in Col
               PROVE  CJoined(r, c) \in Nat /\ CReleased(r, c) \in Nat
    OBVIOUS
  <2>1. Len(l2C[r][c]) \in Nat /\ Len(l1C[r][c]) \in Nat
    BY <1>1, FifoTypes
  <2>2. CJoined(r, c) \in Nat
    BY <1>2, <2>1 DEF CJoined
  <2> QED  BY <2>1, <2>2 DEF CReleased
<1>4. ASSUME NEW r \in Row, NEW c \in Col
      PROVE  AUsed(r, c) \in Nat /\ BUsed(r, c) \in Nat
  <2>1. PICK d \in Nat, s \in Nat \ {0} : d = CReleased(r, c) /\ s = KSteps
    BY <1>1, <1>3, DesignFacts
  <2>2. core[r][c].k \in Nat
    BY <1>1, <2>1, FifoTypes DEF Worker
  <2>3. d * s \in Nat
    OBVIOUS
  <2>4. PICK k \in Nat : k = IF core[r][c].busy THEN core[r][c].k ELSE 0
    BY <2>2
  <2>5. AUsed(r, c) = d * s + k /\ BUsed(r, c) = AUsed(r, c)
    BY <2>1, <2>4 DEF GemmInv, CoreInv
  <2> QED  BY <2>3, <2>5
<1>5. 0 \in Row /\ 0 \in Col
  BY <1>1, DesignFacts DEF Row, Col
<1>6. \A r \in Row : ShimOf(r) \in Shim /\ ATaken(ShimOf(r)) \in Int
  <2>1. \A r \in Row : ShimOf(r) \in Shim
    BY <1>1, RowFacts
  <2>2. \A i \in Shim : i \in Col
    BY <1>1, ShimFacts
  <2>3. \A i \in Shim : ATaken(i) \in Int
    BY <1>1, <2>2, OrderedNat, FifoTypes DEF ATaken
  <2> QED  BY <2>1, <2>3
<1>7. \A r \in Row : AInRow(r) \in Nat
  <2> SUFFICES ASSUME NEW r \in Row PROVE AInRow(r) \in Nat
    OBVIOUS
  <2>1. AInRow(r) \in Int /\ Len(l1A[r][0]) \in Nat
    BY <1>1, <1>5, <1>6, FifoTypes DEF AInRow
  <2>2. AUsed(r, 0) \in Nat /\ AUsed(r, 0) = AInRow(r) - Len(l1A[r][0])
    BY <1>4, <1>5 DEF AUsed
  <2> QED  BY <2>1, <2>2
<1>8. \A i \in Shim : ATaken(i) \in Nat
  <2> SUFFICES ASSUME NEW i \in Shim PROVE ATaken(i) \in Nat
    OBVIOUS
  <2>1. PICK r \in Row : ShimOf(r) = i
    BY <1>1, RowFacts
  <2>2. ATaken(i) \in Int /\ AInRow(r) = ATaken(i) - Len(l2A[r]) /\ Len(l2A[r]) \in Nat
    BY <1>1, <1>6, <2>1, FifoTypes DEF AInRow
  <2> QED  BY <1>7, <2>2
<1>9. ASSUME NEW c \in Col
      PROVE  BTaken(c) \in Nat /\ BInCol(c) \in Nat
  <2>1. BTaken(c) \in Int /\ Len(l2B[c]) \in Nat /\ Len(l1B[0][c]) \in Nat
    BY <1>1, <1>5, OrderedNat, FifoTypes DEF BTaken
  <2>2. BUsed(0, c) \in Nat
    BY <1>4, <1>5
  <2> QED  BY <2>1, <2>2 DEF BUsed, BInCol
<1> QED  BY <1>2, <1>3, <1>4, <1>7, <1>8, <1>9

(* What does not change while the array runs.                              *)
LEMMA StaticDesign ==
  ASSUME UNCHANGED design
  PROVE  /\ Row' = Row /\ Col' = Col /\ Shim' = Shim /\ MTile' = MTile /\ NTile' = NTile
         /\ KStep' = KStep /\ Rows' = Rows /\ Cols' = Cols /\ Depth' = Depth /\ KSteps' = KSteps
         /\ ColTiles' = ColTiles /\ BlockRows' = BlockRows /\ StepRows' = StepRows
         /\ MaxRuns' = MaxRuns /\ Steps' = Steps /\ PerBlock' = PerBlock
         /\ BPerBlock' = BPerBlock /\ NShimA' = NShimA /\ PerShim' = PerShim
         /\ ATile' = ATile /\ BTile' = BTile /\ Product' = Product /\ PrePack' = PrePack
<1>1. /\ Rows' = Rows /\ Cols' = Cols /\ Depth' = Depth /\ KSteps' = KSteps
      /\ ColTiles' = ColTiles /\ BlockRows' = BlockRows /\ StepRows' = StepRows
      /\ MaxRuns' = MaxRuns /\ PrePack' = PrePack
  BY DEF Rows, Cols, Depth, KSteps, ColTiles, BlockRows, StepRows, MaxRuns, PrePack
<1>2. Row' = Row /\ Col' = Col /\ MTile' = MTile /\ NTile' = NTile /\ KStep' = KStep
  BY <1>1 DEF Row, Col, MTile, NTile, KStep
<1>3. NShimA' = NShimA /\ PerShim' = PerShim
  BY <1>1 DEF NShimA, PerShim
<1>4. Steps' = Steps /\ PerBlock' = PerBlock
  BY <1>1 DEF Steps, PerBlock
<1>5. BPerBlock' = BPerBlock
  BY <1>1, <1>4 DEF BPerBlock
<1>6. Shim' = Shim
  BY <1>3 DEF Shim
<1>7. ATile' = ATile /\ BTile' = BTile
  BY <1>2 DEF ATile, BTile
<1>8. Product' = Product
  BY <1>7 DEF Product
<1> QED  BY <1>1, <1>2, <1>3, <1>4, <1>5, <1>6, <1>7, <1>8

(* Nor do the streams change, but for the task group of what is ordered.   *)
LEMMA StaticStreams ==
  ASSUME UNCHANGED design
  PROVE  /\ \A r : RowStream(r)' = RowStream(r) /\ ShimOf(r)' = ShimOf(r)
         /\ \A c : ColStream(c)' = ColStream(c)
         /\ \A r, c : SumStream(r, c)' = SumStream(r, c)
         /\ \A r, d : RowTile(r, d)' = RowTile(r, d)
         /\ \A m, n : Multiplied(m, n)' = Multiplied(m, n)
         /\ \A r, c, d, k : Added(r, c, d, k)' = Added(r, c, d, k)
         /\ tg' = tg => /\ \A i : AStream(i)' = AStream(i)
                        /\ \A c : BStream(c)' = BStream(c) /\ CStream(c)' = CStream(c)
<1>1. \A r, d : RowTile(r, d)' = RowTile(r, d)
  BY StaticDesign DEF RowTile
<1>2. \A c, e, k : BPlace(c, e, k)' = BPlace(c, e, k)
  BY StaticDesign DEF BPlace
<1>9. \A c, j : BOf(c, j)' = BOf(c, j)
  BY <1>2, StaticDesign DEF BOf
<1>3. \A m, n : Multiplied(m, n)' = Multiplied(m, n)
  BY <1>2, StaticDesign DEF Multiplied
<1>4. \A r : RowStream(r)' = RowStream(r) /\ ShimOf(r)' = ShimOf(r)
  BY StaticDesign DEF RowStream, ShimOf
<1>5. \A c : ColStream(c)' = ColStream(c)
  BY <1>9 DEF ColStream
<1>6. \A r, c, d, k : Added(r, c, d, k)' = Added(r, c, d, k)
  BY <1>1, <1>2, StaticDesign DEF Added
<1>7. \A r, c : SumStream(r, c)' = SumStream(r, c)
  BY <1>6, StaticDesign DEF SumStream
<1>8. ASSUME tg' = tg
      PROVE  /\ \A i : AStream(i)' = AStream(i)
             /\ \A c : BStream(c)' = BStream(c) /\ CStream(c)' = CStream(c)
  <2>1. \A i, j : AObject(i, j)' = AObject(i, j)
    BY <1>8, StaticDesign DEF AObject
  <2>2. \A i, j : BObject(i, j)' = BObject(i, j)
    BY <1>8, <1>9 DEF BObject
  <2>3. \A i, j : CObject(i, j)' = CObject(i, j)
    BY <1>8, StaticDesign DEF CObject
  <2> QED  BY <2>1, <2>2, <2>3 DEF AStream, BStream, CStream
<1> QED  BY <1>1, <1>2, <1>3, <1>4, <1>5, <1>6, <1>7, <1>8

(* While the host stands still no more is ordered.                         *)
LEMMA StaticOrdered ==
  ASSUME UNCHANGED <<design, hostVars>>
  PROVE  \A c : AOrdered(c)' = AOrdered(c) /\ BOrdered(c)' = BOrdered(c)
                /\ COrdered(c)' = COrdered(c)
<1>1. \A c : Begun(c)' = Begun(c)
  BY DEF Begun, hostVars
<1> QED  BY <1>1, StaticDesign DEF AOrdered, BOrdered, COrdered

(* The three paths do not share anything but the cores.                    *)
LEMMA AFrame ==
  ASSUME AInv, UNCHANGED <<design, hostVars, toA, l2A, l1A>>
  PROVE  AInv' /\ \A r, c : AUsed(r, c)' = AUsed(r, c)
<1>1. \A i : ATaken(i)' = ATaken(i)
  BY StaticOrdered DEF ATaken
<1>2. \A r : AInRow(r)' = AInRow(r)
  BY <1>1, StaticStreams DEF AInRow
<1>3. \A r, c : AUsed(r, c)' = AUsed(r, c)
  BY <1>2 DEF AUsed
<1>4. AObjects' = AObjects
  BY StaticDesign DEF AObjects, hostVars
<1>5. (/\ toA \in [Shim -> Seq(AObjects)]
       /\ l2A \in [Row -> Seq(ATile)] /\ l1A \in [Row -> [Col -> Seq(ATile)]]
       /\ \A r \in Row : Len(l2A[r]) <= Depth /\ \A c \in Col : Len(l1A[r][c]) <= Depth)'
  BY <1>4, StaticDesign DEF AInv
<1>6. (\A i \in Shim : Segment(toA[i], AStream(i), ATaken(i)))'
  BY <1>1, <1>2, <1>3, StaticDesign, StaticStreams DEF AInv, hostVars, Segment
<1>7. (\A r \in Row : Segment(l2A[r], RowStream(r), AInRow(r)))'
  BY <1>1, <1>2, <1>3, StaticDesign, StaticStreams DEF AInv, hostVars, Segment
<1>8. (\A r \in Row, c \in Col : Segment(l1A[r][c], RowStream(r), AUsed(r, c)))'
  BY <1>1, <1>2, <1>3, StaticDesign, StaticStreams DEF AInv, hostVars, Segment
<1> QED  BY <1>3, <1>5, <1>6, <1>7, <1>8 DEF AInv

(* The same of B.                                                          *)
LEMMA BFrame ==
  ASSUME BInv, UNCHANGED <<design, hostVars, toB, l2B, l1B>>
  PROVE  BInv' /\ \A r, c : BUsed(r, c)' = BUsed(r, c)
<1>1. \A c : BTaken(c)' = BTaken(c)
  BY StaticOrdered DEF BTaken
<1>2. \A c : BInCol(c)' = BInCol(c)
  BY <1>1 DEF BInCol
<1>3. \A r, c : BUsed(r, c)' = BUsed(r, c)
  BY <1>2 DEF BUsed
<1>4. BObjects' = BObjects
  BY StaticDesign DEF BObjects, hostVars
<1>5. (/\ toB \in [Col -> Seq(BObjects)]
       /\ l2B \in [Col -> Seq(BTile)] /\ l1B \in [Row -> [Col -> Seq(BTile)]]
       /\ \A c \in Col : Len(l2B[c]) <= Depth /\ \A r \in Row : Len(l1B[r][c]) <= Depth)'
  BY <1>4, StaticDesign DEF BInv
<1>6. (\A c \in Col : Segment(toB[c], BStream(c), BTaken(c)))'
  BY <1>1, <1>2, <1>3, StaticDesign, StaticStreams DEF BInv, hostVars, Segment
<1>7. (\A c \in Col : Segment(l2B[c], ColStream(c), BInCol(c)))'
  BY <1>1, <1>2, <1>3, StaticDesign, StaticStreams DEF BInv, hostVars, Segment
<1>8. (\A r \in Row, c \in Col : Segment(l1B[r][c], ColStream(c), BUsed(r, c)))'
  BY <1>1, <1>2, <1>3, StaticDesign, StaticStreams DEF BInv, hostVars, Segment
<1> QED  BY <1>3, <1>5, <1>6, <1>7, <1>8 DEF BInv

(* The same of C.                                                          *)
LEMMA CFrame ==
  ASSUME CInv, UNCHANGED <<design, hostVars, fromC, l2C, l1C>>
  PROVE  CInv' /\ \A r, c : CReleased(r, c)' = CReleased(r, c)
<1>1. \A c : CWritten(c)' = CWritten(c)
  BY StaticOrdered DEF CWritten
<1>2. \A r, c : CJoined(r, c)' = CJoined(r, c)
  BY <1>1 DEF CJoined
<1>3. \A r, c : CReleased(r, c)' = CReleased(r, c)
  BY <1>2 DEF CReleased
<1>4. CObjects' = CObjects
  BY StaticDesign DEF CObjects, hostVars
<1>5. (/\ fromC \in [Col -> Seq(CObjects)]
       /\ l2C \in [Row -> [Col -> Seq(SUBSET Product)]]
       /\ l1C \in [Row -> [Col -> Seq(SUBSET Product)]]
       /\ \A r \in Row, c \in Col : Len(l2C[r][c]) <= Depth /\ Len(l1C[r][c]) <= Depth)'
  BY <1>4, StaticDesign DEF CInv
<1>6. (\A c \in Col : CWritten(c) \in Nat /\ Segment(fromC[c], CStream(c), CWritten(c)))'
  <2>1. \A c \in Col : CWritten(c)' \in Nat
    BY <1>1 DEF CInv
  <2>2. \A c \in Col : Segment(fromC[c], CStream(c), CWritten(c)')
    BY <1>1 DEF CInv
  <2> QED  BY <2>1, <2>2, StaticDesign, StaticStreams DEF hostVars, Segment
<1>7. (\A r \in Row, c \in Col : Segment(l2C[r][c], SumStream(r, c), CWritten(c)))'
  BY <1>1, <1>2, <1>3, StaticDesign, StaticStreams DEF CInv, hostVars, Segment
<1>8. (\A r \in Row, c \in Col : Segment(l1C[r][c], SumStream(r, c), CJoined(r, c)))'
  BY <1>1, <1>2, <1>3, StaticDesign, StaticStreams DEF CInv, hostVars, Segment
<1> QED  BY <1>3, <1>5, <1>6, <1>7, <1>8 DEF CInv

(* Where nothing is written to C, the result stays right.                  *)
LEMMA WrittenFrame ==
  ASSUME ResultInv, HostInv, UNCHANGED <<design, hostVars, fromC, result>>
  PROVE  ResultInv' /\ HostInv'
<1>1. \A c : CWritten(c)' = CWritten(c)
  BY StaticOrdered DEF CWritten
<1>2. ResultInv'
  BY <1>1, StaticDesign, StaticStreams DEF ResultInv
<1>3. HostInv'
  BY <1>1, StaticDesign DEF HostInv, hostVars
<1> QED  BY <1>2, <1>3

(* The cores are undisturbed by a step that does not change what they used *)
(* and released, and leaves a buffer for what they are adding up.          *)
LEMMA CoresFrame ==
  ASSUME GemmInv, UNCHANGED <<design, core>>,
         \A r \in Row, c \in Col :
           /\ AUsed(r, c)' = AUsed(r, c) /\ BUsed(r, c)' = BUsed(r, c)
           /\ CReleased(r, c)' = CReleased(r, c)
           /\ l1C'[r][c] = l1C[r][c] \/ Len(l1C'[r][c]) < Depth
  PROVE  (/\ core \in [Row -> [Col -> Worker]]
          /\ \A r \in Row, c \in Col : CoreInv(r, c))'
<1>1. core' \in [Row -> [Col -> Worker]] /\ Worker' = Worker
  BY StaticDesign DEF GemmInv, Worker
<1>2. ASSUME NEW r \in Row, NEW c \in Col PROVE CoreInv(r, c)'
  <2>1. CoreInv(r, c)
    BY DEF GemmInv
  <2> QED  BY <2>1, StaticDesign, StaticStreams DEF CoreInv
<1> QED  BY <1>1, <1>2, StaticDesign

(* An array step that leaves the host alone has to show three things.      *)
LEMMA ArrayStepInv ==
  ASSUME GemmInv, UNCHANGED <<design, hostVars>>, AInv', BInv', CInv', HostInv', ResultInv',
         (/\ core \in [Row -> [Col -> Worker]]
          /\ \A r \in Row, c \in Col : CoreInv(r, c))'
  PROVE  GemmInv'
  BY DEF GemmInv

(* The tile of an object of A for one of its rows.                         *)
LEMMA TileOfRow ==
  ASSUME design \in Designs, tg \in Nat, NEW i \in Shim, NEW r \in RowsOf(i), NEW j \in Nat,
         NEW obj \in AObjects, obj = AObject(i, j)
  PROVE  /\ [m |-> obj.group * PerShim + (r - i * PerShim), k |-> obj.k] = RowStream(r)[j]
         /\ [m |-> obj.group * PerShim + (r - i * PerShim), k |-> obj.k] \in ATile
<1>1. PICK n \in Nat \ {0}, p \in Nat \ {0}, b \in Nat \ {0}, w \in Nat \ {0} :
        n = NShimA /\ p = PerShim /\ b = BlockRows /\ w = Rows /\ n * p = w
  BY ShimFacts, DesignFacts
<1>2. i \in Nat /\ r \in Row /\ r - i * p \in 0 .. p - 1
  BY <1>1, RowFacts DEF Shim
<1>3. PICK q \in Nat : q = j \div PerBlock
  BY DesignFacts, DivMod
<1>4. obj.group = q * n + i /\ obj.k = (j % PerBlock) % KSteps
  BY <1>1, <1>3 DEF AObject
<1>5. obj.group \in 0 .. b * n - 1 /\ obj.k \in KStep
  BY <1>1 DEF AObjects
<1>6. obj.group * p + (r - i * p) = q * w + r
  <2>1. (q * n + i) * p = q * (n * p) + i * p
    BY <1>2
  <2>2. PICK u \in Nat, v \in Nat : u = q * w /\ v = i * p
    BY <1>2
  <2>3. obj.group * p = u + v
    BY <1>1, <1>4, <2>1, <2>2
  <2>4. r \in Nat
    BY <1>2, <1>1 DEF Row
  <2> QED  BY <2>2, <2>3, <2>4
<1>7. obj.group * p + (r - i * p) \in 0 .. (b * n) * p - 1
  <2>1. PICK g \in Nat, z \in Nat : g = obj.group /\ z = b * n /\ g < z
    BY <1>5
  <2>2. PICK y \in 0 .. p - 1 : y = r - i * p
    BY <1>2
  <2>3. g * p + y \in 0 .. z * p - 1
    BY <2>1, ProductRange
  <2> QED  BY <2>1, <2>2, <2>3
<1>8. (b * n) * p = b * w
  BY <1>1
<1>9. obj.group * p + (r - i * p) \in MTile
  BY <1>1, <1>7, <1>8 DEF MTile
<1>10. RowStream(r)[j] = [m |-> q * w + r, k |-> (j % PerBlock) % KSteps]
  BY <1>1, <1>3 DEF RowStream
<1> QED  BY <1>1, <1>4, <1>5, <1>6, <1>9, <1>10 DEF ATile

(* The object that leaves the stream is the next of each of its rows.      *)
LEMMA SendAStep ==
  ASSUME GemmInv, UNCHANGED <<design, hostVars>>, NEW i \in Shim, SendA(i)
  PROVE  GemmInv'
<1> DEFINE obj == Head(toA[i])
           j == ATaken(i)
           part(r) == [m |-> obj.group * PerShim + (r - i * PerShim), k |-> obj.k]
<1>1. HostInv /\ design \in Designs /\ tg \in Nat /\ AInv
  BY DEF GemmInv, HostInv
<1>2. j \in Nat /\ toA[i] \in Seq(AObjects) /\ toA[i] # <<>> /\ Segment(toA[i], AStream(i), j)
  BY <1>1, CountersNat, FifoTypes DEF SendA, AInv
<1>3. /\ obj \in AObjects /\ obj = AObject(i, j)
      /\ Tail(toA[i]) \in Seq(AObjects) /\ Len(Tail(toA[i])) = Len(toA[i]) - 1
      /\ Len(toA[i]) \in Nat
      /\ Segment(Tail(toA[i]), AStream(i), j + 1)
  <2>1. AStream(i)[j] = AObject(i, j)
    BY <1>2 DEF AStream
  <2> QED  BY <1>2, <2>1, SegmentTail
<1>4. /\ toA' = [toA EXCEPT ![i] = Tail(@)]
      /\ l2A' = [r \in Row |-> IF r \in RowsOf(i) THEN Append(l2A[r], part(r)) ELSE l2A[r]]
      /\ \A r \in RowsOf(i) : Len(l2A[r]) < Depth
      /\ UNCHANGED <<toB, fromC, l1A, l2B, l1B, core, l1C, l2C, result>>
  BY DEF SendA, HasRoom
<1>5. toA \in [Shim -> Seq(AObjects)] /\ l2A \in [Row -> Seq(ATile)]
  BY <1>1 DEF AInv
<1>6. toA' \in [Shim -> Seq(AObjects)] /\ toA'[i] = Tail(toA[i])
      /\ \A x \in Shim : x # i => toA'[x] = toA[x]
  BY <1>3, <1>4, <1>5
<1>7. ATaken(i)' = j + 1 /\ \A x \in Shim : x # i => ATaken(x)' = ATaken(x)
  <2>1. i \in Col
    BY <1>1, ShimFacts
  <2>2. AOrdered(i) \in Nat
    BY <1>1, <2>1, OrderedNat
  <2>3. ATaken(i)' = AOrdered(i) - Len(Tail(toA[i]))
    BY <1>6, StaticOrdered DEF ATaken
  <2>4. ATaken(i)' = j + 1
    BY <1>3, <2>2, <2>3 DEF ATaken
  <2>5. \A x \in Shim : x # i => ATaken(x)' = ATaken(x)
    BY <1>6, StaticOrdered DEF ATaken
  <2> QED  BY <2>4, <2>5
<1>8. ASSUME NEW r \in RowsOf(i)
      PROVE  /\ AInRow(r)' = AInRow(r)
             /\ l2A'[r] \in Seq(ATile) /\ Len(l2A'[r]) <= Depth
             /\ Segment(l2A'[r], RowStream(r), AInRow(r))
  <2>1. r \in Row /\ ShimOf(r) = i
    BY <1>1, RowFacts
  <2>2. /\ AInRow(r) \in Nat /\ l2A[r] \in Seq(ATile) /\ Len(l2A[r]) \in Nat
        /\ Segment(l2A[r], RowStream(r), AInRow(r))
    BY <1>1, <2>1, CountersNat, FifoTypes DEF AInv
  <2>3. AInRow(r) + Len(l2A[r]) = j
    BY <1>2, <2>1, <2>2 DEF AInRow
  <2>4. part(r) \in ATile /\ part(r) = RowStream(r)[AInRow(r) + Len(l2A[r])]
    BY <1>1, <1>2, <1>3, <2>3, TileOfRow
  <2>5. l2A'[r] = Append(l2A[r], part(r))
    BY <1>4, <2>1
  <2>6. /\ l2A'[r] \in Seq(ATile) /\ Len(l2A'[r]) = Len(l2A[r]) + 1
        /\ Segment(l2A'[r], RowStream(r), AInRow(r))
    <3> HIDE DEF part
    <3> QED  BY <2>2, <2>4, <2>5, SegmentAppend
  <2>7. Len(l2A'[r]) <= Depth
    BY <1>1, <1>4, <2>2, <2>6, DesignFacts
  <2>8. AInRow(r)' = (j + 1) - Len(l2A'[r])
    BY <1>7, <2>1, StaticStreams DEF AInRow
  <2> QED  BY <1>2, <2>2, <2>3, <2>6, <2>7, <2>8
<1>9. ASSUME NEW r \in Row, r \notin RowsOf(i)
      PROVE  AInRow(r)' = AInRow(r) /\ l2A'[r] = l2A[r]
  <2>1. ShimOf(r) \in Shim /\ ShimOf(r) # i
    BY <1>1, <1>9, RowFacts
  <2>2. l2A'[r] = l2A[r]
    BY <1>4, <1>9
  <2>3. ATaken(ShimOf(r))' = ATaken(ShimOf(r))
    BY <1>7, <2>1, StaticStreams
  <2> QED  BY <2>2, <2>3 DEF AInRow
<1>10. \A r \in Row : /\ AInRow(r)' = AInRow(r)
                      /\ l2A'[r] \in Seq(ATile) /\ Len(l2A'[r]) <= Depth
                      /\ Segment(l2A'[r], RowStream(r), AInRow(r))
  <2>1. \A r \in Row : l2A[r] \in Seq(ATile) /\ Len(l2A[r]) <= Depth
                       /\ Segment(l2A[r], RowStream(r), AInRow(r))
    BY <1>1, FifoTypes DEF AInv
  <2> QED  BY <1>8, <1>9, <2>1
<1>11. \A r, c : r \in Row /\ c \in Col => AUsed(r, c)' = AUsed(r, c)
  BY <1>4, <1>10 DEF AUsed
<1>12. AInv'
  <2>1. (\A x \in Shim : Segment(toA[x], AStream(x), ATaken(x)))'
    <3>1. \A x \in Shim : Segment(toA'[x], AStream(x), ATaken(x)')
      BY <1>1, <1>3, <1>6, <1>7 DEF AInv
    <3> QED  BY <3>1, StaticDesign, StaticStreams DEF hostVars, Segment
  <2>2. (\A r \in Row : Segment(l2A[r], RowStream(r), AInRow(r)))'
    BY <1>10, StaticDesign, StaticStreams DEF Segment
  <2>3. (\A r \in Row, c \in Col : Segment(l1A[r][c], RowStream(r), AUsed(r, c)))'
    <3>1. \A r \in Row, c \in Col : Segment(l1A'[r][c], RowStream(r), AUsed(r, c)')
      BY <1>1, <1>4, <1>11 DEF AInv
    <3> QED  BY <3>1, StaticDesign, StaticStreams DEF Segment
  <2>4. (/\ toA \in [Shim -> Seq(AObjects)]
         /\ l2A \in [Row -> Seq(ATile)] /\ l1A \in [Row -> [Col -> Seq(ATile)]]
         /\ \A r \in Row : Len(l2A[r]) <= Depth /\ \A c \in Col : Len(l1A[r][c]) <= Depth)'
    <3>1. AObjects' = AObjects
      BY StaticDesign DEF AObjects, hostVars
    <3>2. l2A' \in [Row -> Seq(ATile)]
      BY <1>4, <1>10
    <3>3. (toA \in [Shim -> Seq(AObjects)])'
      BY <1>6, <3>1, StaticDesign
    <3>4. (l2A \in [Row -> Seq(ATile)] /\ l1A \in [Row -> [Col -> Seq(ATile)]])'
      BY <1>1, <1>4, <3>2, StaticDesign DEF AInv
    <3>5. (\A r \in Row : Len(l2A[r]) <= Depth /\ \A c \in Col : Len(l1A[r][c]) <= Depth)'
      BY <1>1, <1>4, <1>10, StaticDesign DEF AInv
    <3> QED  BY <3>3, <3>4, <3>5
  <2> QED  BY <2>1, <2>2, <2>3, <2>4 DEF AInv
<1>13. BInv' /\ \A r, c : BUsed(r, c)' = BUsed(r, c)
  BY <1>4, BFrame DEF GemmInv
<1>14. CInv' /\ \A r, c : CReleased(r, c)' = CReleased(r, c)
  BY <1>4, CFrame DEF GemmInv
<1>15. ResultInv' /\ HostInv'
  BY <1>4, WrittenFrame DEF GemmInv
<1>16. (/\ core \in [Row -> [Col -> Worker]]
        /\ \A r \in Row, c \in Col : CoreInv(r, c))'
  BY <1>4, <1>11, <1>13, <1>14, CoresFrame
<1> QED  BY <1>12, <1>13, <1>14, <1>15, <1>16, ArrayStepInv

(* The tile that is broadcast is the next of each core of the row.         *)
LEMMA ForwardAStep ==
  ASSUME GemmInv, UNCHANGED <<design, hostVars>>, NEW r \in Row, ForwardA(r)
  PROVE  GemmInv'
<1> DEFINE tile == Head(l2A[r])
<1>1. HostInv /\ design \in Designs /\ AInv
  BY DEF GemmInv
<1>2. /\ AInRow(r) \in Nat /\ l2A[r] \in Seq(ATile) /\ l2A[r] # <<>>
      /\ Segment(l2A[r], RowStream(r), AInRow(r))
  BY <1>1, CountersNat, FifoTypes DEF ForwardA, AInv
<1>3. /\ tile \in ATile /\ tile = RowStream(r)[AInRow(r)]
      /\ Tail(l2A[r]) \in Seq(ATile) /\ Len(Tail(l2A[r])) = Len(l2A[r]) - 1
      /\ Len(l2A[r]) \in Nat
      /\ Segment(Tail(l2A[r]), RowStream(r), AInRow(r) + 1)
  BY <1>2, SegmentTail
<1>4. /\ l1A' = [l1A EXCEPT ![r] = [c \in Col |-> Append(@[c], tile)]]
      /\ l2A' = [l2A EXCEPT ![r] = Tail(@)]
      /\ \A c \in Col : Len(l1A[r][c]) < Depth
      /\ UNCHANGED <<toA, toB, fromC, l2B, l1B, core, l1C, l2C, result>>
  BY DEF ForwardA, HasRoom
<1>5. l2A \in [Row -> Seq(ATile)] /\ l1A \in [Row -> [Col -> Seq(ATile)]]
  BY <1>1 DEF AInv
<1> HIDE DEF tile
<1>6. /\ l2A' \in [Row -> Seq(ATile)] /\ l2A'[r] = Tail(l2A[r])
      /\ \A x \in Row : x # r => l2A'[x] = l2A[x]
  BY <1>3, <1>4, <1>5
<1>7. /\ l1A'[r] = [c \in Col |-> Append(l1A[r][c], tile)]
      /\ \A x \in Row : x # r => l1A'[x] = l1A[x]
      /\ l1A' = [x \in Row |-> l1A'[x]]
  BY <1>4, <1>5
<1>8. \A i : ATaken(i)' = ATaken(i)
  BY <1>4, StaticOrdered DEF ATaken
<1>9. AInRow(r)' = AInRow(r) + 1 /\ \A x \in Row : x # r => AInRow(x)' = AInRow(x)
  <2>1. \A x \in Row : AInRow(x)' = ATaken(ShimOf(x)) - Len(l2A'[x])
    BY <1>8, StaticStreams DEF AInRow
  <2>2. ATaken(ShimOf(r)) \in Nat
    BY <1>1, RowFacts, CountersNat
  <2>3. AInRow(r)' = AInRow(r) + 1
    BY <1>3, <1>6, <2>1, <2>2 DEF AInRow
  <2> QED  BY <1>6, <2>1, <2>3 DEF AInRow
<1>10. ASSUME NEW c \in Col
       PROVE  /\ AUsed(r, c)' = AUsed(r, c)
              /\ l1A'[r][c] \in Seq(ATile) /\ Len(l1A'[r][c]) <= Depth
              /\ Segment(l1A'[r][c], RowStream(r), AUsed(r, c))
  <2>1. /\ AUsed(r, c) \in Nat /\ l1A[r][c] \in Seq(ATile) /\ Len(l1A[r][c]) \in Nat
        /\ Segment(l1A[r][c], RowStream(r), AUsed(r, c))
    BY <1>1, CountersNat, FifoTypes DEF AInv
  <2>2. AUsed(r, c) + Len(l1A[r][c]) = AInRow(r)
    BY <1>2, <2>1 DEF AUsed
  <2>3. l1A'[r][c] = Append(l1A[r][c], tile) /\ tile = RowStream(r)[AUsed(r, c) + Len(l1A[r][c])]
    BY <1>3, <1>7, <2>2
  <2>4. /\ l1A'[r][c] \in Seq(ATile) /\ Len(l1A'[r][c]) = Len(l1A[r][c]) + 1
        /\ Segment(l1A'[r][c], RowStream(r), AUsed(r, c))
    BY <1>3, <2>1, <2>3, SegmentAppend
  <2>5. Len(l1A'[r][c]) <= Depth
    BY <1>1, <1>4, <2>1, <2>4, DesignFacts
  <2>6. AUsed(r, c)' = (AInRow(r) + 1) - Len(l1A'[r][c])
    BY <1>9 DEF AUsed
  <2> QED  BY <1>2, <2>1, <2>2, <2>4, <2>5, <2>6
<1>11. \A x \in Row, c \in Col :
         /\ AUsed(x, c)' = AUsed(x, c)
         /\ l1A'[x][c] \in Seq(ATile) /\ Len(l1A'[x][c]) <= Depth
         /\ Segment(l1A'[x][c], RowStream(x), AUsed(x, c))
  <2> SUFFICES ASSUME NEW x \in Row, x # r, NEW c \in Col
               PROVE  /\ AUsed(x, c)' = AUsed(x, c)
                      /\ l1A'[x][c] \in Seq(ATile) /\ Len(l1A'[x][c]) <= Depth
                      /\ Segment(l1A'[x][c], RowStream(x), AUsed(x, c))
    BY <1>10
  <2>1. l1A'[x][c] = l1A[x][c]
    BY <1>7
  <2>2. AUsed(x, c)' = AUsed(x, c)
    BY <1>9, <2>1 DEF AUsed
  <2>3. l1A[x][c] \in Seq(ATile) /\ Len(l1A[x][c]) <= Depth
        /\ Segment(l1A[x][c], RowStream(x), AUsed(x, c))
    BY <1>1, FifoTypes DEF AInv
  <2> QED  BY <2>1, <2>2, <2>3
<1>12. AInv'
  <2>1. (\A x \in Shim : Segment(toA[x], AStream(x), ATaken(x)))'
    <3>1. \A x \in Shim : Segment(toA'[x], AStream(x), ATaken(x)')
      BY <1>1, <1>4, <1>8 DEF AInv
    <3> QED  BY <3>1, StaticDesign, StaticStreams DEF hostVars, Segment
  <2>2. (\A x \in Row : Segment(l2A[x], RowStream(x), AInRow(x)))'
    <3>1. \A x \in Row : Segment(l2A'[x], RowStream(x), AInRow(x)')
      BY <1>1, <1>3, <1>6, <1>9 DEF AInv
    <3> QED  BY <3>1, StaticDesign, StaticStreams DEF Segment
  <2>3. (\A x \in Row, c \in Col : Segment(l1A[x][c], RowStream(x), AUsed(x, c)))'
    BY <1>11, StaticDesign, StaticStreams DEF Segment
  <2>4. (toA \in [Shim -> Seq(AObjects)])'
    <3>1. AObjects' = AObjects
      BY StaticDesign DEF AObjects, hostVars
    <3> QED  BY <1>1, <1>4, <3>1, StaticDesign DEF AInv
  <2>5. (l2A \in [Row -> Seq(ATile)])' /\ (\A x \in Row : Len(l2A[x]) <= Depth)'
    <3>1. (\A x \in Row : Len(l2A[x]) <= Depth) /\ Depth \in Nat
      BY <1>1, DesignFacts DEF AInv
    <3>2. Len(l2A'[r]) <= Depth
      BY <1>3, <1>6, <3>1
    <3>3. \A x \in Row : Len(l2A'[x]) <= Depth
      BY <1>6, <3>1, <3>2
    <3> QED  BY <1>6, <3>3, StaticDesign
  <2>6. (l1A \in [Row -> [Col -> Seq(ATile)]])'
    <3>1. \A x \in Row : l1A'[x] \in [Col -> Seq(ATile)]
      BY <1>5, <1>7, <1>11
    <3> QED  BY <1>7, <3>1, StaticDesign
  <2>7. (\A x \in Row, c \in Col : Len(l1A[x][c]) <= Depth)'
    BY <1>11, StaticDesign
  <2> QED  BY <2>1, <2>2, <2>3, <2>4, <2>5, <2>6, <2>7 DEF AInv
<1>13. BInv' /\ \A x, c : BUsed(x, c)' = BUsed(x, c)
  BY <1>4, BFrame DEF GemmInv
<1>14. CInv' /\ \A x, c : CReleased(x, c)' = CReleased(x, c)
  BY <1>4, CFrame DEF GemmInv
<1>15. ResultInv' /\ HostInv'
  BY <1>4, WrittenFrame DEF GemmInv
<1>16. (/\ core \in [Row -> [Col -> Worker]]
        /\ \A x \in Row, c \in Col : CoreInv(x, c))'
  BY <1>4, <1>11, <1>13, <1>14, CoresFrame
<1> QED  BY <1>12, <1>13, <1>14, <1>15, <1>16, ArrayStepInv

(* The object that leaves a column of B is the next of that column.        *)
LEMMA SendBStep ==
  ASSUME GemmInv, UNCHANGED <<design, hostVars>>, NEW c \in Col, SendB(c)
  PROVE  GemmInv'
<1> DEFINE obj == Head(toB[c])
           tile == [n |-> obj.n, k |-> obj.k]
<1>1. HostInv /\ design \in Designs /\ BInv
  BY DEF GemmInv
<1>2. /\ BTaken(c) \in Nat /\ toB[c] \in Seq(BObjects) /\ toB[c] # <<>>
      /\ Segment(toB[c], BStream(c), BTaken(c))
  BY <1>1, CountersNat, FifoTypes DEF SendB, BInv
<1>3. /\ obj \in BObjects /\ obj = BStream(c)[BTaken(c)]
      /\ Tail(toB[c]) \in Seq(BObjects) /\ Len(Tail(toB[c])) = Len(toB[c]) - 1
      /\ Len(toB[c]) \in Nat
      /\ Segment(Tail(toB[c]), BStream(c), BTaken(c) + 1)
  BY <1>2, SegmentTail
<1>4. tile \in BTile /\ tile = ColStream(c)[BTaken(c)]
  <2>1. obj = BObject(c, BTaken(c))
    BY <1>2, <1>3 DEF BStream
  <2>2. tile = ColStream(c)[BTaken(c)]
    <3>1. BOf(c, BTaken(c)) = [n |-> BOf(c, BTaken(c)).n, k |-> BOf(c, BTaken(c)).k]
      BY DEF BOf, BPlace
    <3> QED  BY <1>2, <2>1, <3>1 DEF BObject, ColStream
  <2> QED  BY <1>3, <2>2 DEF BObjects, BTile
<1>5. /\ l2B' = [l2B EXCEPT ![c] = Append(@, tile)]
      /\ toB' = [toB EXCEPT ![c] = Tail(@)]
      /\ Len(l2B[c]) < Depth
      /\ UNCHANGED <<toA, fromC, l2A, l1A, l1B, core, l1C, l2C, result>>
  BY DEF SendB, HasRoom
<1>6. toB \in [Col -> Seq(BObjects)] /\ l2B \in [Col -> Seq(BTile)]
  BY <1>1 DEF BInv
<1> HIDE DEF obj, tile
<1>7. /\ toB' \in [Col -> Seq(BObjects)] /\ toB'[c] = Tail(toB[c])
      /\ \A x \in Col : x # c => toB'[x] = toB[x]
  BY <1>3, <1>5, <1>6
<1>8. BTaken(c)' = BTaken(c) + 1 /\ \A x \in Col : x # c => BTaken(x)' = BTaken(x)
  <2>1. BOrdered(c) \in Nat
    BY <1>1, OrderedNat
  <2>2. BTaken(c)' = BOrdered(c) - Len(Tail(toB[c]))
    BY <1>7, StaticOrdered DEF BTaken
  <2>3. BTaken(c)' = BTaken(c) + 1
    BY <1>3, <2>1, <2>2 DEF BTaken
  <2> QED  BY <1>7, <2>3, StaticOrdered DEF BTaken
<1>9. /\ BInCol(c) \in Nat /\ l2B[c] \in Seq(BTile) /\ Len(l2B[c]) \in Nat
      /\ Segment(l2B[c], ColStream(c), BInCol(c))
      /\ BInCol(c) + Len(l2B[c]) = BTaken(c)
  <2>1. /\ BInCol(c) \in Nat /\ l2B[c] \in Seq(BTile) /\ Len(l2B[c]) \in Nat
        /\ Segment(l2B[c], ColStream(c), BInCol(c))
    BY <1>1, CountersNat, FifoTypes DEF BInv
  <2> QED  BY <1>2, <2>1 DEF BInCol
<1>10. /\ l2B'[c] \in Seq(BTile) /\ Len(l2B'[c]) = Len(l2B[c]) + 1
       /\ Segment(l2B'[c], ColStream(c), BInCol(c))
       /\ \A x \in Col : x # c => l2B'[x] = l2B[x]
       /\ l2B' = [x \in Col |-> l2B'[x]]
  <2>1. l2B'[c] = Append(l2B[c], tile) /\ tile = ColStream(c)[BInCol(c) + Len(l2B[c])]
    BY <1>4, <1>5, <1>6, <1>9
  <2>2. /\ l2B'[c] \in Seq(BTile) /\ Len(l2B'[c]) = Len(l2B[c]) + 1
        /\ Segment(l2B'[c], ColStream(c), BInCol(c))
    BY <1>4, <1>9, <2>1, SegmentAppend
  <2> QED  BY <1>5, <1>6, <2>2
<1>11. \A x \in Col : BInCol(x)' = BInCol(x)
  <2>1. BInCol(c)' = (BTaken(c) + 1) - Len(l2B'[c])
    BY <1>8 DEF BInCol
  <2>2. BInCol(c)' = BInCol(c)
    BY <1>2, <1>9, <1>10, <2>1
  <2> QED  BY <1>8, <1>10, <2>2 DEF BInCol
<1>12. \A r \in Row, x \in Col : BUsed(r, x)' = BUsed(r, x)
  BY <1>5, <1>11 DEF BUsed
<1>13. BInv'
  <2>1. (\A x \in Col : Segment(toB[x], BStream(x), BTaken(x)))'
    <3>1. \A x \in Col : Segment(toB'[x], BStream(x), BTaken(x)')
      BY <1>1, <1>3, <1>7, <1>8 DEF BInv
    <3> QED  BY <3>1, StaticDesign, StaticStreams DEF hostVars, Segment
  <2>2. (\A x \in Col : Segment(l2B[x], ColStream(x), BInCol(x)))'
    <3>1. \A x \in Col : Segment(l2B'[x], ColStream(x), BInCol(x))
      BY <1>1, <1>10 DEF BInv
    <3> QED  BY <1>11, <3>1, StaticDesign, StaticStreams DEF Segment
  <2>3. (\A r \in Row, x \in Col : Segment(l1B[r][x], ColStream(x), BUsed(r, x)))'
    <3>1. \A r \in Row, x \in Col : Segment(l1B'[r][x], ColStream(x), BUsed(r, x)')
      BY <1>1, <1>5, <1>12 DEF BInv
    <3> QED  BY <3>1, StaticDesign, StaticStreams DEF Segment
  <2>4. (toB \in [Col -> Seq(BObjects)])'
    <3>1. BObjects' = BObjects
      BY StaticDesign DEF BObjects, hostVars
    <3> QED  BY <1>7, <3>1, StaticDesign
  <2>5. (l2B \in [Col -> Seq(BTile)])'
    <3>1. \A x \in Col : l2B'[x] \in Seq(BTile)
      BY <1>6, <1>10
    <3> QED  BY <1>10, <3>1, StaticDesign
  <2>6. (\A x \in Col : Len(l2B[x]) <= Depth)'
    <3>1. (\A x \in Col : Len(l2B[x]) <= Depth) /\ Depth \in Nat
      BY <1>1, DesignFacts DEF BInv
    <3>2. Len(l2B'[c]) <= Depth
      BY <1>5, <1>9, <1>10, <3>1
    <3>3. \A x \in Col : Len(l2B'[x]) <= Depth
      BY <1>10, <3>1, <3>2
    <3> QED  BY <3>3, StaticDesign
  <2>7. (l1B \in [Row -> [Col -> Seq(BTile)]])'
        /\ (\A x \in Col, r \in Row : Len(l1B[r][x]) <= Depth)'
    BY <1>1, <1>5, StaticDesign DEF BInv
  <2> QED  BY <2>1, <2>2, <2>3, <2>4, <2>5, <2>6, <2>7 DEF BInv
<1>14. AInv' /\ \A r, x : AUsed(r, x)' = AUsed(r, x)
  BY <1>5, AFrame DEF GemmInv
<1>15. CInv' /\ \A r, x : CReleased(r, x)' = CReleased(r, x)
  BY <1>5, CFrame DEF GemmInv
<1>16. ResultInv' /\ HostInv'
  BY <1>5, WrittenFrame DEF GemmInv
<1>17. (/\ core \in [Row -> [Col -> Worker]]
        /\ \A r \in Row, x \in Col : CoreInv(r, x))'
  BY <1>5, <1>12, <1>14, <1>15, CoresFrame
<1> QED  BY <1>13, <1>14, <1>15, <1>16, <1>17, ArrayStepInv

(* The tile that is broadcast is the next of each core of the column.      *)
LEMMA ForwardBStep ==
  ASSUME GemmInv, UNCHANGED <<design, hostVars>>, NEW c \in Col, ForwardB(c)
  PROVE  GemmInv'
<1> DEFINE tile == Head(l2B[c])
<1>1. HostInv /\ design \in Designs /\ BInv
  BY DEF GemmInv
<1>2. /\ BInCol(c) \in Nat /\ l2B[c] \in Seq(BTile) /\ l2B[c] # <<>>
      /\ Segment(l2B[c], ColStream(c), BInCol(c))
  BY <1>1, CountersNat, FifoTypes DEF ForwardB, BInv
<1>3. /\ tile \in BTile /\ tile = ColStream(c)[BInCol(c)]
      /\ Tail(l2B[c]) \in Seq(BTile) /\ Len(Tail(l2B[c])) = Len(l2B[c]) - 1
      /\ Len(l2B[c]) \in Nat
      /\ Segment(Tail(l2B[c]), ColStream(c), BInCol(c) + 1)
  BY <1>2, SegmentTail
<1>4. /\ l1B' = [r \in Row |-> [l1B[r] EXCEPT ![c] = Append(@, tile)]]
      /\ l2B' = [l2B EXCEPT ![c] = Tail(@)]
      /\ \A r \in Row : Len(l1B[r][c]) < Depth
      /\ UNCHANGED <<toA, toB, fromC, l2A, l1A, core, l1C, l2C, result>>
  BY DEF ForwardB, HasRoom
<1>5. l2B \in [Col -> Seq(BTile)] /\ l1B \in [Row -> [Col -> Seq(BTile)]]
  BY <1>1 DEF BInv
<1> HIDE DEF tile
<1>6. /\ l2B' \in [Col -> Seq(BTile)] /\ l2B'[c] = Tail(l2B[c])
      /\ \A x \in Col : x # c => l2B'[x] = l2B[x]
  BY <1>3, <1>4, <1>5
<1>7. \A r \in Row : /\ l1B'[r][c] = Append(l1B[r][c], tile)
                     /\ \A x \in Col : x # c => l1B'[r][x] = l1B[r][x]
                     /\ l1B'[r] = [x \in Col |-> l1B'[r][x]]
  BY <1>4, <1>5
<1>8. \A x : BTaken(x)' = BTaken(x)
  BY <1>4, StaticOrdered DEF BTaken
<1>9. BInCol(c)' = BInCol(c) + 1 /\ \A x \in Col : x # c => BInCol(x)' = BInCol(x)
  <2>1. BTaken(c) \in Nat
    BY CountersNat
  <2>2. BInCol(c)' = BTaken(c) - Len(l2B'[c])
    BY <1>8 DEF BInCol
  <2>3. BInCol(c)' = BInCol(c) + 1
    BY <1>3, <1>6, <2>1, <2>2 DEF BInCol
  <2> QED  BY <1>6, <1>8, <2>3 DEF BInCol
<1>10. ASSUME NEW r \in Row
       PROVE  /\ BUsed(r, c)' = BUsed(r, c)
              /\ l1B'[r][c] \in Seq(BTile) /\ Len(l1B'[r][c]) <= Depth
              /\ Segment(l1B'[r][c], ColStream(c), BUsed(r, c))
  <2>1. /\ BUsed(r, c) \in Nat /\ l1B[r][c] \in Seq(BTile) /\ Len(l1B[r][c]) \in Nat
        /\ Segment(l1B[r][c], ColStream(c), BUsed(r, c))
    BY <1>1, CountersNat, FifoTypes DEF BInv
  <2>2. BUsed(r, c) + Len(l1B[r][c]) = BInCol(c)
    BY <1>2, <2>1 DEF BUsed
  <2>3. l1B'[r][c] = Append(l1B[r][c], tile) /\ tile = ColStream(c)[BUsed(r, c) + Len(l1B[r][c])]
    BY <1>3, <1>7, <2>2
  <2>4. /\ l1B'[r][c] \in Seq(BTile) /\ Len(l1B'[r][c]) = Len(l1B[r][c]) + 1
        /\ Segment(l1B'[r][c], ColStream(c), BUsed(r, c))
    BY <1>3, <2>1, <2>3, SegmentAppend
  <2>5. Len(l1B'[r][c]) <= Depth
    BY <1>1, <1>4, <2>1, <2>4, DesignFacts
  <2>6. BUsed(r, c)' = (BInCol(c) + 1) - Len(l1B'[r][c])
    BY <1>9 DEF BUsed
  <2> QED  BY <1>2, <2>1, <2>2, <2>4, <2>5, <2>6
<1>11. \A r \in Row, x \in Col :
         /\ BUsed(r, x)' = BUsed(r, x)
         /\ l1B'[r][x] \in Seq(BTile) /\ Len(l1B'[r][x]) <= Depth
         /\ Segment(l1B'[r][x], ColStream(x), BUsed(r, x))
  <2> SUFFICES ASSUME NEW r \in Row, NEW x \in Col, x # c
               PROVE  /\ BUsed(r, x)' = BUsed(r, x)
                      /\ l1B'[r][x] \in Seq(BTile) /\ Len(l1B'[r][x]) <= Depth
                      /\ Segment(l1B'[r][x], ColStream(x), BUsed(r, x))
    BY <1>10
  <2>1. l1B'[r][x] = l1B[r][x]
    BY <1>7
  <2>2. BUsed(r, x)' = BUsed(r, x)
    BY <1>9, <2>1 DEF BUsed
  <2>3. l1B[r][x] \in Seq(BTile) /\ Len(l1B[r][x]) <= Depth
        /\ Segment(l1B[r][x], ColStream(x), BUsed(r, x))
    BY <1>1, FifoTypes DEF BInv
  <2> QED  BY <2>1, <2>2, <2>3
<1>12. BInv'
  <2>1. (\A x \in Col : Segment(toB[x], BStream(x), BTaken(x)))'
    <3>1. \A x \in Col : Segment(toB'[x], BStream(x), BTaken(x)')
      BY <1>1, <1>4, <1>8 DEF BInv
    <3> QED  BY <3>1, StaticDesign, StaticStreams DEF hostVars, Segment
  <2>2. (\A x \in Col : Segment(l2B[x], ColStream(x), BInCol(x)))'
    <3>1. \A x \in Col : Segment(l2B'[x], ColStream(x), BInCol(x)')
      BY <1>1, <1>3, <1>6, <1>9 DEF BInv
    <3> QED  BY <3>1, StaticDesign, StaticStreams DEF Segment
  <2>3. (\A r \in Row, x \in Col : Segment(l1B[r][x], ColStream(x), BUsed(r, x)))'
    BY <1>11, StaticDesign, StaticStreams DEF Segment
  <2>4. (toB \in [Col -> Seq(BObjects)])'
    <3>1. BObjects' = BObjects
      BY StaticDesign DEF BObjects, hostVars
    <3> QED  BY <1>1, <1>4, <3>1, StaticDesign DEF BInv
  <2>5. (l2B \in [Col -> Seq(BTile)])' /\ (\A x \in Col : Len(l2B[x]) <= Depth)'
    <3>1. (\A x \in Col : Len(l2B[x]) <= Depth) /\ Depth \in Nat
      BY <1>1, DesignFacts DEF BInv
    <3>2. Len(l2B'[c]) <= Depth
      BY <1>3, <1>6, <3>1
    <3>3. \A x \in Col : Len(l2B'[x]) <= Depth
      BY <1>6, <3>1, <3>2
    <3> QED  BY <1>6, <3>3, StaticDesign
  <2>6. (l1B \in [Row -> [Col -> Seq(BTile)]])'
    <3>1. \A r \in Row : l1B'[r] \in [Col -> Seq(BTile)]
      BY <1>7, <1>11
    <3> QED  BY <1>4, <3>1, StaticDesign
  <2>7. (\A x \in Col, r \in Row : Len(l1B[r][x]) <= Depth)'
    BY <1>11, StaticDesign
  <2> QED  BY <2>1, <2>2, <2>3, <2>4, <2>5, <2>6, <2>7 DEF BInv
<1>13. AInv' /\ \A r, x : AUsed(r, x)' = AUsed(r, x)
  BY <1>4, AFrame DEF GemmInv
<1>14. CInv' /\ \A r, x : CReleased(r, x)' = CReleased(r, x)
  BY <1>4, CFrame DEF GemmInv
<1>15. ResultInv' /\ HostInv'
  BY <1>4, WrittenFrame DEF GemmInv
<1>16. (/\ core \in [Row -> [Col -> Worker]]
        /\ \A r \in Row, x \in Col : CoreInv(r, x))'
  BY <1>4, <1>11, <1>13, <1>14, CoresFrame
<1> QED  BY <1>12, <1>13, <1>14, <1>15, <1>16, ArrayStepInv

(* A tile of C that is joined was the oldest of its core.                  *)
LEMMA ForwardCStep ==
  ASSUME GemmInv, UNCHANGED <<design, hostVars>>, NEW r \in Row, NEW c \in Col, ForwardC(r, c)
  PROVE  GemmInv'
<1> DEFINE sum == Head(l1C[r][c])
<1>1. HostInv /\ design \in Designs /\ CInv
  BY DEF GemmInv
<1>2. /\ CJoined(r, c) \in Nat /\ CWritten(c) \in Nat /\ l1C[r][c] \in Seq(SUBSET Product)
      /\ l1C[r][c] # <<>> /\ Segment(l1C[r][c], SumStream(r, c), CJoined(r, c))
  BY <1>1, CountersNat, FifoTypes DEF ForwardC, CInv
<1>3. /\ sum \in SUBSET Product /\ sum = SumStream(r, c)[CJoined(r, c)]
      /\ Tail(l1C[r][c]) \in Seq(SUBSET Product) /\ Len(Tail(l1C[r][c])) = Len(l1C[r][c]) - 1
      /\ Len(l1C[r][c]) \in Nat
      /\ Segment(Tail(l1C[r][c]), SumStream(r, c), CJoined(r, c) + 1)
  <2> HIDE DEF Product
  <2> QED  BY <1>2, SegmentTail
<1>4. /\ l2C' = [l2C EXCEPT ![r][c] = Append(@, sum)]
      /\ l1C' = [l1C EXCEPT ![r][c] = Tail(@)]
      /\ Len(l2C[r][c]) < Depth
      /\ UNCHANGED <<toA, toB, fromC, l2A, l1A, l2B, l1B, core, result>>
  BY DEF ForwardC, HasRoom
<1>5. /\ l2C \in [Row -> [Col -> Seq(SUBSET Product)]]
      /\ l1C \in [Row -> [Col -> Seq(SUBSET Product)]]
  BY <1>1 DEF CInv
<1> HIDE DEF sum
<1>6. /\ l1C' \in [Row -> [Col -> Seq(SUBSET Product)]] /\ l1C'[r][c] = Tail(l1C[r][c])
      /\ \A x \in Row, y \in Col : x # r \/ y # c => l1C'[x][y] = l1C[x][y]
  BY <1>3, <1>4, <1>5
<1>7. /\ l2C[r][c] \in Seq(SUBSET Product) /\ Len(l2C[r][c]) \in Nat
      /\ Segment(l2C[r][c], SumStream(r, c), CWritten(c))
      /\ CWritten(c) + Len(l2C[r][c]) = CJoined(r, c)
  BY <1>1, FifoTypes DEF CInv, CJoined
<1>8. /\ Append(l2C[r][c], sum) \in Seq(SUBSET Product)
      /\ Len(Append(l2C[r][c], sum)) = Len(l2C[r][c]) + 1
      /\ Segment(Append(l2C[r][c], sum), SumStream(r, c), CWritten(c))
  <2>1. sum = SumStream(r, c)[CWritten(c) + Len(l2C[r][c])]
    BY <1>3, <1>7
  <2> QED  BY <1>2, <1>3, <1>7, <2>1, SegmentAppend
<1>9. /\ l2C' \in [Row -> [Col -> Seq(SUBSET Product)]] /\ l2C'[r][c] = Append(l2C[r][c], sum)
      /\ \A x \in Row, y \in Col : x # r \/ y # c => l2C'[x][y] = l2C[x][y]
  BY <1>4, <1>5, <1>8
<1>10. \A y : CWritten(y)' = CWritten(y)
  BY <1>4, StaticOrdered DEF CWritten
<1>11. /\ CJoined(r, c)' = CJoined(r, c) + 1
       /\ \A x \in Row, y \in Col : x # r \/ y # c => CJoined(x, y)' = CJoined(x, y)
  <2>1. CJoined(r, c)' = CWritten(c) + (Len(l2C[r][c]) + 1)
    BY <1>8, <1>9, <1>10 DEF CJoined
  <2>2. CJoined(r, c)' = CJoined(r, c) + 1
    BY <1>2, <1>7, <2>1
  <2> QED  BY <1>9, <1>10, <2>2 DEF CJoined
<1>12. \A x \in Row, y \in Col : CReleased(x, y)' = CReleased(x, y)
  <2>1. CReleased(r, c)' = (CJoined(r, c) + 1) + Len(l1C'[r][c])
    BY <1>11 DEF CReleased
  <2>2. CReleased(r, c)' = CReleased(r, c)
    <3>1. Len(l1C'[r][c]) = Len(l1C[r][c]) - 1
      BY <1>3, <1>6
    <3>2. PICK a \in Nat, l \in Nat : a = CJoined(r, c) /\ l = Len(l1C[r][c])
      BY <1>2, <1>3
    <3>3. (a + 1) + (l - 1) = a + l
      OBVIOUS
    <3> QED  BY <2>1, <3>1, <3>2, <3>3 DEF CReleased
  <2> QED  BY <1>6, <1>11, <2>2 DEF CReleased
<1>13. CInv'
  <2>1. (\A y \in Col : CWritten(y) \in Nat /\ Segment(fromC[y], CStream(y), CWritten(y)))'
    <3>1. \A y \in Col : CWritten(y)' \in Nat /\ Segment(fromC'[y], CStream(y), CWritten(y)')
      BY <1>1, <1>4, <1>10 DEF CInv
    <3> QED  BY <3>1, StaticDesign, StaticStreams DEF hostVars, Segment
  <2>2. (\A x \in Row, y \in Col : Segment(l2C[x][y], SumStream(x, y), CWritten(y)))'
    <3>1. \A x \in Row, y \in Col : Segment(l2C'[x][y], SumStream(x, y), CWritten(y))
      BY <1>1, <1>8, <1>9 DEF CInv
    <3> QED  BY <1>10, <3>1, StaticDesign, StaticStreams DEF Segment
  <2>3. (\A x \in Row, y \in Col : Segment(l1C[x][y], SumStream(x, y), CJoined(x, y)))'
    <3>1. \A x \in Row, y \in Col : Segment(l1C'[x][y], SumStream(x, y), CJoined(x, y)')
      BY <1>1, <1>3, <1>6, <1>11 DEF CInv
    <3> QED  BY <3>1, StaticDesign, StaticStreams DEF Segment
  <2>4. (fromC \in [Col -> Seq(CObjects)])'
    <3>1. CObjects' = CObjects
      BY StaticDesign DEF CObjects, hostVars
    <3> QED  BY <1>1, <1>4, <3>1, StaticDesign DEF CInv
  <2>5. (/\ l2C \in [Row -> [Col -> Seq(SUBSET Product)]]
         /\ l1C \in [Row -> [Col -> Seq(SUBSET Product)]])'
    BY <1>6, <1>9, StaticDesign
  <2>6. (\A x \in Row, y \in Col : Len(l2C[x][y]) <= Depth /\ Len(l1C[x][y]) <= Depth)'
    <3>1. /\ \A x \in Row, y \in Col : Len(l2C[x][y]) <= Depth /\ Len(l1C[x][y]) <= Depth
          /\ Depth \in Nat
      BY <1>1, DesignFacts DEF CInv
    <3>2. Len(l2C'[r][c]) <= Depth /\ Len(l1C'[r][c]) <= Depth
      BY <1>3, <1>4, <1>6, <1>7, <1>8, <1>9, <3>1
    <3>3. \A x \in Row, y \in Col : Len(l2C'[x][y]) <= Depth /\ Len(l1C'[x][y]) <= Depth
      BY <1>6, <1>9, <3>1, <3>2
    <3> QED  BY <3>3, StaticDesign
  <2> QED  BY <2>1, <2>2, <2>3, <2>4, <2>5, <2>6 DEF CInv
<1>14. AInv' /\ \A x, y : AUsed(x, y)' = AUsed(x, y)
  BY <1>4, AFrame DEF GemmInv
<1>15. BInv' /\ \A x, y : BUsed(x, y)' = BUsed(x, y)
  BY <1>4, BFrame DEF GemmInv
<1>16. ResultInv' /\ HostInv'
  BY <1>4, WrittenFrame DEF GemmInv
<1>17. Len(l1C'[r][c]) < Depth
  <2>1. Len(l1C[r][c]) <= Depth /\ Depth \in Nat
    BY <1>1, DesignFacts DEF CInv
  <2>2. Len(l1C'[r][c]) = Len(l1C[r][c]) - 1
    BY <1>3, <1>6
  <2> QED  BY <1>3, <2>1, <2>2
<1>18. (/\ core \in [Row -> [Col -> Worker]]
        /\ \A x \in Row, y \in Col : CoreInv(x, y))'
  BY <1>4, <1>6, <1>12, <1>14, <1>15, <1>17, CoresFrame
<1> QED  BY <1>13, <1>14, <1>15, <1>16, <1>18, ArrayStepInv

(* A step of the worker of one core.                                       *)
LEMMA OneCore ==
  ASSUME GemmInv, UNCHANGED design, NEW r \in Row, NEW c \in Col,
         core' \in [Row -> [Col -> Worker]], CoreInv(r, c)',
         \A x \in Row, y \in Col : x # r \/ y # c =>
           /\ core'[x][y] = core[x][y]
           /\ AUsed(x, y)' = AUsed(x, y) /\ BUsed(x, y)' = BUsed(x, y)
           /\ CReleased(x, y)' = CReleased(x, y)
           /\ l1C'[x][y] = l1C[x][y]
  PROVE  (/\ core \in [Row -> [Col -> Worker]]
          /\ \A x \in Row, y \in Col : CoreInv(x, y))'
<1>1. core' \in [Row -> [Col -> Worker]] /\ Worker' = Worker
  BY StaticDesign DEF GemmInv, Worker
<1>2. ASSUME NEW x \in Row, NEW y \in Col, x # r \/ y # c PROVE CoreInv(x, y)'
  <2>1. CoreInv(x, y)
    BY DEF GemmInv
  <2>2. /\ core'[x][y] = core[x][y]
        /\ AUsed(x, y)' = AUsed(x, y) /\ BUsed(x, y)' = BUsed(x, y)
        /\ CReleased(x, y)' = CReleased(x, y)
        /\ l1C'[x][y] = l1C[x][y]
    BY <1>2
  <2> QED  BY <2>1, <2>2, StaticDesign, StaticStreams DEF CoreInv
<1> QED  BY <1>1, <1>2, StaticDesign

(* A core begins its next tile of C with no products in it.                *)
LEMMA AcquireOutStep ==
  ASSUME GemmInv, UNCHANGED <<design, hostVars>>, NEW r \in Row, NEW c \in Col, AcquireOut(r, c)
  PROVE  GemmInv'
<1> DEFINE w == [busy |-> TRUE, k |-> 0, acc |-> {}]
<1>1. /\ ~core[r][c].busy /\ Len(l1C[r][c]) < Depth /\ core' = [core EXCEPT ![r][c] = w]
      /\ UNCHANGED <<toA, toB, fromC, l2A, l1A, l2B, l1B, l1C, l2C, result>>
  BY DEF AcquireOut, Zeroed, fifoVars, HasRoom
<1>2. design \in Designs /\ core \in [Row -> [Col -> Worker]] /\ CoreInv(r, c)
  BY DEF GemmInv
<1>3. w \in Worker
  BY <1>2, DesignFacts DEF Worker
<1>4. AInv' /\ \A x, y : AUsed(x, y)' = AUsed(x, y)
  BY <1>1, AFrame DEF GemmInv
<1>5. BInv' /\ \A x, y : BUsed(x, y)' = BUsed(x, y)
  BY <1>1, BFrame DEF GemmInv
<1>6. CInv' /\ \A x, y : CReleased(x, y)' = CReleased(x, y)
  BY <1>1, CFrame DEF GemmInv
<1>7. ResultInv' /\ HostInv'
  BY <1>1, WrittenFrame DEF GemmInv
<1>8. CoreInv(r, c)'
  <2>1. core'[r][c] = w
    BY <1>1, <1>2
  <2>2. Added(r, c, CReleased(r, c), 0) = {}
    BY DEF Added
  <2>3. /\ AUsed(r, c) = CReleased(r, c) * KSteps + 0
        /\ BUsed(r, c) = AUsed(r, c)
    BY <1>1, <1>2 DEF CoreInv
  <2>4. w.busy /\ w.k = 0 /\ w.acc = {} /\ Len(l1C'[r][c]) < Depth
    BY <1>1
  <2> HIDE DEF w
  <2> QED  BY <1>4, <1>5, <1>6, <2>1, <2>2, <2>3, <2>4, StaticDesign, StaticStreams DEF CoreInv
<1> HIDE DEF w
<1>9. /\ core' \in [Row -> [Col -> Worker]]
       /\ \A x \in Row, y \in Col : x # r \/ y # c => core'[x][y] = core[x][y]
  BY <1>1, <1>2, <1>3
<1>10. (/\ core \in [Row -> [Col -> Worker]]
       /\ \A x \in Row, y \in Col : CoreInv(x, y))'
  BY <1>1, <1>4, <1>5, <1>6, <1>8, <1>9, OneCore
<1> QED  BY <1>4, <1>5, <1>6, <1>7, <1>10, ArrayStepInv

(* The tiles of A and B that a core takes in step k of its tile d of C.    *)
LEMMA TilesOfSum ==
  ASSUME design \in Designs, NEW r, NEW c, NEW d \in Nat, NEW k \in 0 .. KSteps - 1
  PROVE  /\ RowStream(r)[d * KSteps + k] = [m |-> RowTile(r, d), k |-> k]
         /\ ColStream(c)[d * KSteps + k] = BPlace(c, d % ColTiles, k)
<1>1. PICK t \in Nat \ {0}, s \in Nat \ {0} : t = ColTiles /\ s = KSteps
  BY DesignFacts
<1>2. k \in 0 .. s - 1
  BY <1>1
<1>3. IsStep(t, s, d, k)
  BY <1>2, ThreeLevels
<1>4. PICK j \in Nat : j = d * s + k
  <2>1. d * s \in Nat /\ k \in Nat
    BY <1>2
  <2> QED  BY <2>1
<1>5. RowStream(r)[j] = [m |-> ((j \div PerBlock) * Rows) + r, k |-> (j % PerBlock) % KSteps]
  BY <1>4 DEF RowStream
<1>6. ColStream(c)[j] = BPlace(c, (j % PerBlock) \div KSteps, (j % PerBlock) % KSteps)
  BY <1>4 DEF ColStream, BOf
<1>7. /\ j \div PerBlock = d \div t
      /\ (j % PerBlock) \div KSteps = d % t /\ (j % PerBlock) % KSteps = k
  BY <1>1, <1>3, <1>4 DEF PerBlock, IsStep
<1> QED  BY <1>1, <1>4, <1>5, <1>6, <1>7 DEF RowTile

(* A core drops the tile of A that it has used.                            *)
LEMMA UseA ==
  ASSUME GemmInv, UNCHANGED <<design, hostVars, toA, l2A>>, NEW r \in Row, NEW c \in Col,
         l1A[r][c] # <<>>, l1A' = [l1A EXCEPT ![r][c] = Tail(@)]
  PROVE  /\ AInv'
         /\ Head(l1A[r][c]) \in ATile /\ Head(l1A[r][c]) = RowStream(r)[AUsed(r, c)]
         /\ AUsed(r, c)' = AUsed(r, c) + 1
         /\ \A x \in Row, y \in Col : x # r \/ y # c => AUsed(x, y)' = AUsed(x, y)
<1>1. HostInv /\ design \in Designs /\ AInv
  BY DEF GemmInv
<1>2. /\ AUsed(r, c) \in Nat /\ AInRow(r) \in Nat /\ l1A[r][c] \in Seq(ATile)
      /\ Segment(l1A[r][c], RowStream(r), AUsed(r, c))
  BY <1>1, CountersNat, FifoTypes DEF AInv
<1>3. /\ Head(l1A[r][c]) \in ATile /\ Head(l1A[r][c]) = RowStream(r)[AUsed(r, c)]
      /\ Tail(l1A[r][c]) \in Seq(ATile) /\ Len(Tail(l1A[r][c])) = Len(l1A[r][c]) - 1
      /\ Len(l1A[r][c]) \in Nat
      /\ Segment(Tail(l1A[r][c]), RowStream(r), AUsed(r, c) + 1)
  BY <1>2, SegmentTail
<1>4. l1A \in [Row -> [Col -> Seq(ATile)]]
  BY <1>1 DEF AInv
<1>5. /\ l1A' \in [Row -> [Col -> Seq(ATile)]] /\ l1A'[r][c] = Tail(l1A[r][c])
      /\ \A x \in Row, y \in Col : x # r \/ y # c => l1A'[x][y] = l1A[x][y]
  BY <1>3, <1>4
<1>6. \A i : ATaken(i)' = ATaken(i)
  BY StaticOrdered DEF ATaken
<1>7. \A x : AInRow(x)' = AInRow(x)
  BY <1>6, StaticStreams DEF AInRow
<1>8. /\ AUsed(r, c)' = AUsed(r, c) + 1
      /\ \A x \in Row, y \in Col : x # r \/ y # c => AUsed(x, y)' = AUsed(x, y)
  <2>1. AUsed(r, c)' = AInRow(r) - (Len(l1A[r][c]) - 1)
    BY <1>3, <1>5, <1>7 DEF AUsed
  <2>2. AUsed(r, c)' = AUsed(r, c) + 1
    BY <1>2, <1>3, <2>1 DEF AUsed
  <2> QED  BY <1>5, <1>7, <2>2 DEF AUsed
<1>9. AInv'
  <2>1. (\A i \in Shim : Segment(toA[i], AStream(i), ATaken(i)))'
    <3>1. \A i \in Shim : Segment(toA'[i], AStream(i), ATaken(i)')
      BY <1>1, <1>6 DEF AInv
    <3> QED  BY <3>1, StaticDesign, StaticStreams DEF hostVars, Segment
  <2>2. (\A x \in Row : Segment(l2A[x], RowStream(x), AInRow(x)))'
    <3>1. \A x \in Row : Segment(l2A'[x], RowStream(x), AInRow(x)')
      BY <1>1, <1>7 DEF AInv
    <3> QED  BY <3>1, StaticDesign, StaticStreams DEF Segment
  <2>3. (\A x \in Row, y \in Col : Segment(l1A[x][y], RowStream(x), AUsed(x, y)))'
    <3>1. \A x \in Row, y \in Col : Segment(l1A'[x][y], RowStream(x), AUsed(x, y)')
      BY <1>1, <1>3, <1>5, <1>8 DEF AInv
    <3> QED  BY <3>1, StaticDesign, StaticStreams DEF Segment
  <2>4. (toA \in [Shim -> Seq(AObjects)] /\ l2A \in [Row -> Seq(ATile)])'
    <3>1. AObjects' = AObjects
      BY StaticDesign DEF AObjects, hostVars
    <3> QED  BY <1>1, <3>1, StaticDesign DEF AInv
  <2>5. (l1A \in [Row -> [Col -> Seq(ATile)]])'
    BY <1>5, StaticDesign
  <2>6. (\A x \in Row : Len(l2A[x]) <= Depth /\ \A y \in Col : Len(l1A[x][y]) <= Depth)'
    <3>1. /\ \A x \in Row : Len(l2A[x]) <= Depth /\ \A y \in Col : Len(l1A[x][y]) <= Depth
          /\ Depth \in Nat
      BY <1>1, DesignFacts DEF AInv
    <3>2. Len(l1A'[r][c]) <= Depth
      BY <1>3, <1>5, <3>1
    <3>3. \A x \in Row : Len(l2A'[x]) <= Depth /\ \A y \in Col : Len(l1A'[x][y]) <= Depth
      BY <1>5, <3>1, <3>2
    <3> QED  BY <3>3, StaticDesign
  <2> QED  BY <2>1, <2>2, <2>3, <2>4, <2>5, <2>6 DEF AInv
<1> QED  BY <1>3, <1>8, <1>9

(* And the tile of B.                                                      *)
LEMMA UseB ==
  ASSUME GemmInv, UNCHANGED <<design, hostVars, toB, l2B>>, NEW r \in Row, NEW c \in Col,
         l1B[r][c] # <<>>, l1B' = [l1B EXCEPT ![r][c] = Tail(@)]
  PROVE  /\ BInv'
         /\ Head(l1B[r][c]) \in BTile /\ Head(l1B[r][c]) = ColStream(c)[BUsed(r, c)]
         /\ BUsed(r, c)' = BUsed(r, c) + 1
         /\ \A x \in Row, y \in Col : x # r \/ y # c => BUsed(x, y)' = BUsed(x, y)
<1>1. HostInv /\ design \in Designs /\ BInv
  BY DEF GemmInv
<1>2. /\ BUsed(r, c) \in Nat /\ BInCol(c) \in Nat /\ l1B[r][c] \in Seq(BTile)
      /\ Segment(l1B[r][c], ColStream(c), BUsed(r, c))
  BY <1>1, CountersNat, FifoTypes DEF BInv
<1>3. /\ Head(l1B[r][c]) \in BTile /\ Head(l1B[r][c]) = ColStream(c)[BUsed(r, c)]
      /\ Tail(l1B[r][c]) \in Seq(BTile) /\ Len(Tail(l1B[r][c])) = Len(l1B[r][c]) - 1
      /\ Len(l1B[r][c]) \in Nat
      /\ Segment(Tail(l1B[r][c]), ColStream(c), BUsed(r, c) + 1)
  BY <1>2, SegmentTail
<1>4. l1B \in [Row -> [Col -> Seq(BTile)]]
  BY <1>1 DEF BInv
<1>5. /\ l1B' \in [Row -> [Col -> Seq(BTile)]] /\ l1B'[r][c] = Tail(l1B[r][c])
      /\ \A x \in Row, y \in Col : x # r \/ y # c => l1B'[x][y] = l1B[x][y]
  BY <1>3, <1>4
<1>6. \A y : BTaken(y)' = BTaken(y)
  BY StaticOrdered DEF BTaken
<1>7. \A y : BInCol(y)' = BInCol(y)
  BY <1>6 DEF BInCol
<1>8. /\ BUsed(r, c)' = BUsed(r, c) + 1
      /\ \A x \in Row, y \in Col : x # r \/ y # c => BUsed(x, y)' = BUsed(x, y)
  <2>1. BUsed(r, c)' = BInCol(c) - (Len(l1B[r][c]) - 1)
    BY <1>3, <1>5, <1>7 DEF BUsed
  <2>2. BUsed(r, c)' = BUsed(r, c) + 1
    BY <1>2, <1>3, <2>1 DEF BUsed
  <2> QED  BY <1>5, <1>7, <2>2 DEF BUsed
<1>9. BInv'
  <2>1. (\A y \in Col : Segment(toB[y], BStream(y), BTaken(y)))'
    <3>1. \A y \in Col : Segment(toB'[y], BStream(y), BTaken(y)')
      BY <1>1, <1>6 DEF BInv
    <3> QED  BY <3>1, StaticDesign, StaticStreams DEF hostVars, Segment
  <2>2. (\A y \in Col : Segment(l2B[y], ColStream(y), BInCol(y)))'
    <3>1. \A y \in Col : Segment(l2B'[y], ColStream(y), BInCol(y)')
      BY <1>1, <1>7 DEF BInv
    <3> QED  BY <3>1, StaticDesign, StaticStreams DEF Segment
  <2>3. (\A x \in Row, y \in Col : Segment(l1B[x][y], ColStream(y), BUsed(x, y)))'
    <3>1. \A x \in Row, y \in Col : Segment(l1B'[x][y], ColStream(y), BUsed(x, y)')
      BY <1>1, <1>3, <1>5, <1>8 DEF BInv
    <3> QED  BY <3>1, StaticDesign, StaticStreams DEF Segment
  <2>4. (toB \in [Col -> Seq(BObjects)] /\ l2B \in [Col -> Seq(BTile)])'
    <3>1. BObjects' = BObjects
      BY StaticDesign DEF BObjects, hostVars
    <3> QED  BY <1>1, <3>1, StaticDesign DEF BInv
  <2>5. (l1B \in [Row -> [Col -> Seq(BTile)]])'
    BY <1>5, StaticDesign
  <2>6. (\A y \in Col : Len(l2B[y]) <= Depth /\ \A x \in Row : Len(l1B[x][y]) <= Depth)'
    <3>1. /\ \A y \in Col : Len(l2B[y]) <= Depth /\ \A x \in Row : Len(l1B[x][y]) <= Depth
          /\ Depth \in Nat
      BY <1>1, DesignFacts DEF BInv
    <3>2. Len(l1B'[r][c]) <= Depth
      BY <1>3, <1>5, <3>1
    <3>3. \A y \in Col : Len(l2B'[y]) <= Depth /\ \A x \in Row : Len(l1B'[x][y]) <= Depth
      BY <1>5, <3>1, <3>2
    <3> QED  BY <3>3, StaticDesign
  <2> QED  BY <2>1, <2>2, <2>3, <2>4, <2>5, <2>6 DEF BInv
<1> QED  BY <1>3, <1>8, <1>9

(* The two tiles that a core multiplies are of the same step of K, of the  *)
(* tile of C that it adds up: as many of A as of B have gone before.       *)
LEMMA MatMulStep ==
  ASSUME GemmInv, UNCHANGED <<design, hostVars>>, NEW r \in Row, NEW c \in Col, MatMul(r, c)
  PROVE  GemmInv'
<1> DEFINE a == Head(l1A[r][c])
           b == Head(l1B[r][c])
           worker == core[r][c]
           d == CReleased(r, c)
           w == [busy |-> worker.busy, k |-> worker.k + 1,
                 acc |-> worker.acc \cup {[a |-> a, b |-> b]}]
<1>1. design \in Designs /\ core \in [Row -> [Col -> Worker]] /\ CoreInv(r, c)
  BY DEF GemmInv
<1>2. /\ worker.busy /\ worker.k < KSteps
      /\ l1A[r][c] # <<>> /\ l1B[r][c] # <<>>
      /\ core' = [core EXCEPT ![r][c].k = @ + 1, ![r][c].acc = @ \cup {[a |-> a, b |-> b]}]
      /\ l1A' = [l1A EXCEPT ![r][c] = Tail(@)]
      /\ l1B' = [l1B EXCEPT ![r][c] = Tail(@)]
      /\ UNCHANGED <<toA, toB, fromC, l2A, l2B, l1C, l2C, result>>
  BY DEF MatMul
<1>3. /\ worker \in Worker /\ KSteps \in Nat \ {0}
      /\ worker.k \in 0 .. KSteps - 1 /\ worker.busy \in BOOLEAN /\ worker.acc \in SUBSET Product
  <2>1. worker \in Worker
    BY <1>1
  <2>2. KSteps \in Nat \ {0}
    BY <1>1, DesignFacts
  <2> QED  BY <1>2, <2>1, <2>2 DEF Worker
<1> HIDE DEF a, b, w
<1>4. /\ AInv' /\ a \in ATile /\ a = RowStream(r)[AUsed(r, c)]
      /\ AUsed(r, c)' = AUsed(r, c) + 1
      /\ \A x \in Row, y \in Col : x # r \/ y # c => AUsed(x, y)' = AUsed(x, y)
  BY <1>2, UseA DEF a
<1>5. /\ BInv' /\ b \in BTile /\ b = ColStream(c)[BUsed(r, c)]
      /\ BUsed(r, c)' = BUsed(r, c) + 1
      /\ \A x \in Row, y \in Col : x # r \/ y # c => BUsed(x, y)' = BUsed(x, y)
  BY <1>2, UseB DEF b
<1>6. CInv' /\ \A x, y : CReleased(x, y)' = CReleased(x, y)
  BY <1>2, CFrame DEF GemmInv
<1>7. ResultInv' /\ HostInv'
  BY <1>2, WrittenFrame DEF GemmInv
<1>8. /\ d \in Nat /\ AUsed(r, c) = d * KSteps + worker.k /\ BUsed(r, c) = AUsed(r, c)
      /\ worker.acc = Added(r, c, d, worker.k) /\ AUsed(r, c) \in Nat
  BY <1>1, <1>2, CountersNat DEF CoreInv
<1>9. a = [m |-> RowTile(r, d), k |-> worker.k] /\ b = BPlace(c, d % ColTiles, worker.k)
  <2> HIDE DEF d, worker
  <2> QED  BY <1>1, <1>3, <1>4, <1>5, <1>8, TilesOfSum
<1>10. /\ core' \in [Row -> [Col -> Worker]] /\ core'[r][c] = w
       /\ \A x \in Row, y \in Col : x # r \/ y # c => core'[x][y] = core[x][y]
  <2> DEFINE y == [a |-> a, b |-> b]
  <2>1. y \in Product
    BY <1>4, <1>5 DEF Product
  <2>2. worker = [busy |-> worker.busy, k |-> worker.k, acc |-> worker.acc]
    BY <1>3 DEF Worker
  <2>3. w \in Worker
    <3>1. worker.k + 1 \in 0..KSteps
      BY <1>3
    <3> QED  BY <1>3, <2>1, <3>1 DEF w, Worker
  <2>4. core' = [core EXCEPT ![r][c].k = @ + 1, ![r][c].acc = @ \cup {y}]
    BY <1>2
  <2> HIDE DEF y
  <2>5. \A x \in Row, z \in Col : x # r \/ z # c => core'[x][z] = core[x][z]
    BY <1>1, <2>4
  <2>6. core'[r][c] = [[worker EXCEPT !.k = @ + 1] EXCEPT !.acc = @ \cup {y}]
    BY <1>1, <2>4
  <2>7. core'[r][c] = w
    BY <2>2, <2>6 DEF w, y
  <2>8. core' = [x \in Row |-> core'[x]] /\ \A x \in Row : core'[x] = [z \in Col |-> core'[x][z]]
    BY <1>1, <2>4
  <2> HIDE DEF worker
  <2>9. \A x \in Row, z \in Col : core'[x][z] \in Worker
    BY <1>1, <2>3, <2>5, <2>7
  <2>10. ASSUME NEW x \in Row PROVE core'[x] \in [Col -> Worker]
    <3>1. core'[x] = [z \in Col |-> core'[x][z]]
      BY <2>8
    <3>2. \A z \in Col : core'[x][z] \in Worker
      BY <2>9
    <3> QED  BY ONLY <3>1, <3>2
  <2>11. core' = [x \in Row |-> core'[x]]
    BY <2>8
  <2>12. core' \in [Row -> [Col -> Worker]]
    BY ONLY <2>10, <2>11
  <2> QED  BY <2>5, <2>7, <2>12
<1>11. CoreInv(r, c)'
  <2>1. core'[r][c] = w
    BY <1>10
  <2>2. w.busy /\ w.k = worker.k + 1 /\ w.acc = worker.acc \cup {[a |-> a, b |-> b]}
    BY <1>2 DEF w
  <2>3. w.acc = Added(r, c, d, w.k)
    <3>1. 0 .. (worker.k + 1) - 1 = (0 .. worker.k - 1) \cup {worker.k}
      BY <1>3
    <3> DEFINE F(x) == [a |-> [m |-> RowTile(r, d), k |-> x], b |-> BPlace(c, d % ColTiles, x)]
    <3>2. [a |-> a, b |-> b] = F(worker.k)
      BY <1>9
    <3>3. Added(r, c, d, worker.k) = {F(x) : x \in 0 .. worker.k - 1}
      BY DEF Added
    <3>4. Added(r, c, d, w.k) = {F(x) : x \in 0 .. (worker.k + 1) - 1}
      BY <2>2 DEF Added
    <3> HIDE DEF F
    <3>5. {F(x) : x \in (0 .. worker.k - 1) \cup {worker.k}}
            = {F(x) : x \in 0 .. worker.k - 1} \cup {F(worker.k)}
      OBVIOUS
    <3> QED  BY <1>8, <2>2, <3>1, <3>2, <3>3, <3>4, <3>5
  <2>4. AUsed(r, c)' = d * KSteps + w.k
    <3>1. PICK z \in Nat : z = d * KSteps
      BY <1>3, <1>8
    <3> QED  BY <1>3, <1>4, <1>8, <2>2, <3>1
  <2>5. Len(l1C'[r][c]) < Depth
    BY <1>1, <1>2 DEF CoreInv
  <2>6. BUsed(r, c)' = AUsed(r, c)'
    BY <1>4, <1>5, <1>8
  <2> QED  BY <1>6, <2>1, <2>2, <2>3, <2>4, <2>6, <2>5, StaticDesign, StaticStreams DEF CoreInv
<1>12. l1C' = l1C
  BY <1>2
<1>13. (/\ core \in [Row -> [Col -> Worker]]
        /\ \A x \in Row, y \in Col : CoreInv(x, y))'
  BY <1>4, <1>5, <1>6, <1>10, <1>11, <1>12, OneCore
<1> QED  BY <1>4, <1>5, <1>6, <1>7, <1>13, ArrayStepInv

(* What a core releases is the sum of all the products of its tile.        *)
LEMMA ReleaseOutStep ==
  ASSUME GemmInv, UNCHANGED <<design, hostVars>>, NEW r \in Row, NEW c \in Col, ReleaseOut(r, c)
  PROVE  GemmInv'
<1> DEFINE sum == core[r][c].acc
           d == CReleased(r, c)
           w == [busy |-> FALSE, k |-> core[r][c].k, acc |-> sum]
<1>1. HostInv /\ design \in Designs /\ CInv /\ core \in [Row -> [Col -> Worker]] /\ CoreInv(r, c)
  BY DEF GemmInv
<1>2. /\ core[r][c].busy /\ core[r][c].k = KSteps
      /\ l1C' = [l1C EXCEPT ![r][c] = Append(@, sum)]
      /\ core' = [core EXCEPT ![r][c].busy = FALSE]
      /\ UNCHANGED <<toA, toB, fromC, l2A, l1A, l2B, l1B, l2C, result>>
  BY DEF ReleaseOut
<1>3. /\ CJoined(r, c) \in Nat /\ CWritten(c) \in Nat /\ l1C[r][c] \in Seq(SUBSET Product)
      /\ Len(l1C[r][c]) \in Nat /\ d \in Nat
      /\ Segment(l1C[r][c], SumStream(r, c), CJoined(r, c))
      /\ d = CJoined(r, c) + Len(l1C[r][c])
  BY <1>1, CountersNat, FifoTypes DEF CInv, CReleased
<1>4. core[r][c] \in Worker /\ KSteps \in Nat \ {0} /\ sum \in SUBSET Product
  BY <1>1, DesignFacts DEF Worker
<1>5. /\ AUsed(r, c) = d * KSteps + KSteps /\ BUsed(r, c) = AUsed(r, c)
      /\ sum = Added(r, c, d, KSteps) /\ Len(l1C[r][c]) < Depth
  BY <1>1, <1>2 DEF CoreInv
<1>6. sum = SumStream(r, c)[d]
  <2> HIDE DEF d
  <2>1. SumStream(r, c)[d] = Added(r, c, d, KSteps)
    BY <1>3 DEF SumStream
  <2> QED  BY <1>5, <2>1
<1>7. /\ core' \in [Row -> [Col -> Worker]] /\ core'[r][c] = w
      /\ \A x \in Row, y \in Col : x # r \/ y # c => core'[x][y] = core[x][y]
  <2>1. core[r][c] = [busy |-> core[r][c].busy, k |-> core[r][c].k, acc |-> core[r][c].acc]
    BY <1>4 DEF Worker
  <2>2. w \in Worker
    BY <1>4 DEF Worker
  <2>3. core'[r][c] = w
    BY <1>1, <1>2, <2>1
  <2>4. \A x \in Row, y \in Col : x # r \/ y # c => core'[x][y] = core[x][y]
    BY <1>1, <1>2
  <2>5. core' = [x \in Row |-> core'[x]] /\ \A x \in Row : core'[x] = [y \in Col |-> core'[x][y]]
    BY <1>1, <1>2
  <2> HIDE DEF w
  <2>6. \A x \in Row, y \in Col : core'[x][y] \in Worker
    BY <1>1, <2>2, <2>3, <2>4
  <2>7. ASSUME NEW x \in Row PROVE core'[x] \in [Col -> Worker]
    <3>1. core'[x] = [y \in Col |-> core'[x][y]]
      BY <2>5
    <3>2. \A y \in Col : core'[x][y] \in Worker
      BY <2>6
    <3> QED  BY ONLY <3>1, <3>2
  <2>8. core' = [x \in Row |-> core'[x]]
    BY <2>5
  <2>9. core' \in [Row -> [Col -> Worker]]
    BY ONLY <2>7, <2>8
  <2> QED  BY <2>3, <2>4, <2>9
<1>8. l1C \in [Row -> [Col -> Seq(SUBSET Product)]]
  BY <1>1 DEF CInv
<1> HIDE DEF sum, d, w
<1>9. /\ Append(l1C[r][c], sum) \in Seq(SUBSET Product)
      /\ Len(Append(l1C[r][c], sum)) = Len(l1C[r][c]) + 1
      /\ Segment(Append(l1C[r][c], sum), SumStream(r, c), CJoined(r, c))
  <2>1. sum = SumStream(r, c)[CJoined(r, c) + Len(l1C[r][c])]
    BY <1>3, <1>6
  <2> HIDE DEF Product
  <2> QED  BY <1>3, <1>4, <2>1, SegmentAppend
<1>10. /\ l1C' \in [Row -> [Col -> Seq(SUBSET Product)]] /\ l1C'[r][c] = Append(l1C[r][c], sum)
       /\ \A x \in Row, y \in Col : x # r \/ y # c => l1C'[x][y] = l1C[x][y]
  BY <1>2, <1>8, <1>9
<1>11. \A y : CWritten(y)' = CWritten(y)
  BY <1>2, StaticOrdered DEF CWritten
<1>12. \A x, y : CJoined(x, y)' = CJoined(x, y)
  BY <1>2, <1>11 DEF CJoined
<1>13. /\ CReleased(r, c)' = d + 1
       /\ \A x \in Row, y \in Col : x # r \/ y # c => CReleased(x, y)' = CReleased(x, y)
  <2>1. CReleased(r, c)' = CJoined(r, c) + (Len(l1C[r][c]) + 1)
    BY <1>9, <1>10, <1>12 DEF CReleased
  <2>2. CReleased(r, c)' = d + 1
    <3>1. PICK u \in Nat, v \in Nat : u = CJoined(r, c) /\ v = Len(l1C[r][c])
      BY <1>3
    <3>2. CReleased(r, c)' = u + (v + 1) /\ d = u + v
      BY <1>3, <2>1, <3>1
    <3> QED  BY <3>2
  <2> QED  BY <1>10, <1>12, <2>2 DEF CReleased
<1>14. CInv'
  <2>1. (\A y \in Col : CWritten(y) \in Nat /\ Segment(fromC[y], CStream(y), CWritten(y)))'
    <3>1. \A y \in Col : CWritten(y)' \in Nat /\ Segment(fromC'[y], CStream(y), CWritten(y)')
      BY <1>1, <1>2, <1>11 DEF CInv
    <3> QED  BY <3>1, StaticDesign, StaticStreams DEF hostVars, Segment
  <2>2. (\A x \in Row, y \in Col : Segment(l2C[x][y], SumStream(x, y), CWritten(y)))'
    <3>1. \A x \in Row, y \in Col : Segment(l2C'[x][y], SumStream(x, y), CWritten(y)')
      BY <1>1, <1>2, <1>11 DEF CInv
    <3> QED  BY <3>1, StaticDesign, StaticStreams DEF Segment
  <2>3. (\A x \in Row, y \in Col : Segment(l1C[x][y], SumStream(x, y), CJoined(x, y)))'
    <3>1. \A x \in Row, y \in Col : Segment(l1C'[x][y], SumStream(x, y), CJoined(x, y))
      BY <1>1, <1>9, <1>10 DEF CInv
    <3> QED  BY <1>12, <3>1, StaticDesign, StaticStreams DEF Segment
  <2>4. (fromC \in [Col -> Seq(CObjects)])'
    <3>1. CObjects' = CObjects
      BY StaticDesign DEF CObjects, hostVars
    <3> QED  BY <1>1, <1>2, <3>1, StaticDesign DEF CInv
  <2>5. (/\ l2C \in [Row -> [Col -> Seq(SUBSET Product)]]
         /\ l1C \in [Row -> [Col -> Seq(SUBSET Product)]])'
    BY <1>1, <1>2, <1>10, StaticDesign DEF CInv
  <2>6. (\A x \in Row, y \in Col : Len(l2C[x][y]) <= Depth /\ Len(l1C[x][y]) <= Depth)'
    <3>1. /\ \A x \in Row, y \in Col : Len(l2C[x][y]) <= Depth /\ Len(l1C[x][y]) <= Depth
          /\ Depth \in Nat
      BY <1>1, DesignFacts DEF CInv
    <3>2. Len(l1C'[r][c]) <= Depth
      BY <1>3, <1>5, <1>9, <1>10, <3>1
    <3>3. \A x \in Row, y \in Col : Len(l2C'[x][y]) <= Depth /\ Len(l1C'[x][y]) <= Depth
      BY <1>2, <1>10, <3>1, <3>2
    <3> QED  BY <3>3, StaticDesign
  <2> QED  BY <2>1, <2>2, <2>3, <2>4, <2>5, <2>6 DEF CInv
<1>15. AInv' /\ \A x, y : AUsed(x, y)' = AUsed(x, y)
  BY <1>2, AFrame DEF GemmInv
<1>16. BInv' /\ \A x, y : BUsed(x, y)' = BUsed(x, y)
  BY <1>2, BFrame DEF GemmInv
<1>17. ResultInv' /\ HostInv'
  BY <1>2, WrittenFrame DEF GemmInv
<1>18. CoreInv(r, c)'
  <2>1. ~core'[r][c].busy
    BY <1>7 DEF w
  <2>2. d * KSteps + KSteps = (d + 1) * KSteps + 0
    <3>1. PICK n \in Nat, s \in Nat : n = d /\ s = KSteps
      BY <1>3, <1>4
    <3>2. n * s + s = (n + 1) * s + 0
      OBVIOUS
    <3> QED  BY <3>1, <3>2
  <2> QED  BY <1>5, <1>13, <1>15, <1>16, <2>1, <2>2, StaticDesign DEF CoreInv
<1>19. (/\ core \in [Row -> [Col -> Worker]]
        /\ \A x \in Row, y \in Col : CoreInv(x, y))'
  BY <1>7, <1>10, <1>13, <1>15, <1>16, <1>18, OneCore
<1> QED  BY <1>14, <1>15, <1>16, <1>17, <1>19, ArrayStepInv

(* The object d that column c writes holds the tiles <<m, n>> of C of one  *)
(* column of tiles, and of one block row.                                  *)
LEMMA PlaceOf ==
  ASSUME design \in Designs, NEW m \in MTile, NEW n \in NTile, NEW c \in Col, NEW d \in Nat
  PROVE  /\ n = c + Cols * (d % ColTiles) /\ m \div Rows = d \div ColTiles
              <=> n % Cols = c /\ ((m \div Rows) * ColTiles) + (n \div Cols) = d
         /\ n = c + Cols * (d % ColTiles) /\ m \div Rows = d \div ColTiles
              => RowTile(m % Rows, d) = m /\ d % ColTiles = n \div Cols
<1>1. PICK t \in Nat \ {0}, w \in Nat \ {0}, h \in Nat \ {0} :
        t = ColTiles /\ w = Cols /\ h = Rows
  BY DesignFacts
<1>2. /\ m \in Nat /\ n \in 0 .. t * w - 1 /\ n \in Nat /\ c \in 0 .. w - 1
  BY <1>1, DesignFacts DEF MTile, NTile, Col
<1>3. PICK a \in Nat, r \in 0 .. h - 1 : a = m \div h /\ r = m % h /\ m = (a * h) + r
  BY <1>2, Quotient
<1>4. PICK b \in Nat, x \in 0 .. w - 1 : b = n \div w /\ x = n % w /\ n = (b * w) + x
  BY <1>2, Quotient
<1>5. b \in 0 .. t - 1
  BY <1>2, <1>4, DivRange
<1>6. PICK q \in Nat, e \in 0 .. t - 1 : q = d \div t /\ e = d % t /\ d = (q * t) + e
  BY Quotient
<1>7. c + w * e = (e * w) + c
  <2>1. PICK z \in Nat : z = e * w
    OBVIOUS
  <2>2. w * e = z
    BY <2>1
  <2>3. c \in Nat
    BY <1>2
  <2> QED  BY <2>1, <2>2, <2>3
<1>8. ASSUME n = c + w * e, a = q
      PROVE  x = c /\ (a * t) + b = d /\ (q * h) + r = m /\ e = b
  <2>1. (e * w + c) \div w = e /\ (e * w + c) % w = c
    <3>1. e \in Nat
      OBVIOUS
    <3> QED  BY <1>2, <3>1, DivModUnique
  <2>2. n = e * w + c
    BY <1>7, <1>8
  <2>3. b = e /\ x = c
    BY <1>4, <2>1, <2>2
  <2>4. (a * t) + b = d
    BY <1>6, <1>8, <2>3
  <2> QED  BY <1>3, <1>8, <2>3, <2>4
<1>9. ASSUME x = c, (a * t) + b = d
      PROVE  n = c + w * e /\ a = q
  <2>1. (a * t + b) \div t = a /\ (a * t + b) % t = b
    BY <1>5, DivModUnique
  <2>2. a = q /\ b = e
    BY <1>6, <1>9, <2>1
  <2> QED  BY <1>4, <1>7, <1>9, <2>2
<1>10. /\ n = c + w * e /\ a = q <=> x = c /\ (a * t) + b = d
       /\ n = c + w * e /\ a = q => (q * h) + r = m /\ e = b
  BY <1>8, <1>9
<1>11. /\ m \div Rows = a /\ m % Rows = r /\ n % Cols = x /\ n \div Cols = b
       /\ d \div ColTiles = q /\ d % ColTiles = e /\ Cols * e = w * e /\ a * ColTiles = a * t
       /\ RowTile(r, d) = (q * h) + r
  BY <1>1, <1>3, <1>4, <1>6 DEF RowTile
<1> QED  BY <1>10, <1>11

(* The object is written to the place it was computed for.                 *)
LEMMA WriteCStep ==
  ASSUME GemmInv, UNCHANGED <<design, hostVars>>, NEW c \in Col, WriteC(c)
  PROVE  GemmInv'
<1> DEFINE at == Head(fromC[c])
           w == CWritten(c)
<1>1. HostInv /\ design \in Designs /\ CInv /\ ResultInv
  BY DEF GemmInv
<1>2. /\ fromC[c] # <<>> /\ \A r \in Row : l2C[r][c] # <<>>
      /\ result' = [p \in MTile \X NTile |->
           IF p[2] = at.n /\ p[1] \div Rows = at.block
           THEN Head(l2C[p[1] % Rows][c]) ELSE result[p]]
      /\ l2C' = [r \in Row |-> [l2C[r] EXCEPT ![c] = Tail(@)]]
      /\ fromC' = [fromC EXCEPT ![c] = Tail(@)]
      /\ UNCHANGED <<toA, toB, l2A, l1A, l2B, l1B, core, l1C>>
  BY DEF WriteC
<1>3. /\ w \in Nat /\ fromC[c] \in Seq(CObjects) /\ Segment(fromC[c], CStream(c), w)
      /\ fromC \in [Col -> Seq(CObjects)]
      /\ l2C \in [Row -> [Col -> Seq(SUBSET Product)]]
  BY <1>1, FifoTypes DEF CInv
<1>4. /\ at = CStream(c)[w] /\ at \in CObjects
      /\ Tail(fromC[c]) \in Seq(CObjects) /\ Len(Tail(fromC[c])) = Len(fromC[c]) - 1
      /\ Len(fromC[c]) \in Nat \ {0}
      /\ Segment(Tail(fromC[c]), CStream(c), w + 1)
  BY <1>2, <1>3, SegmentTail
<1>5. at.n = c + Cols * (w % ColTiles) /\ at.block = w \div ColTiles
  <2>1. at = CObject(c, w)
    BY <1>3, <1>4 DEF CStream
  <2> QED  BY <2>1 DEF CObject
<1>6. ASSUME NEW r \in Row
      PROVE  /\ Head(l2C[r][c]) = SumStream(r, c)[w] /\ Head(l2C[r][c]) \in SUBSET Product
             /\ Tail(l2C[r][c]) \in Seq(SUBSET Product)
             /\ Len(Tail(l2C[r][c])) = Len(l2C[r][c]) - 1 /\ Len(l2C[r][c]) \in Nat \ {0}
             /\ Segment(Tail(l2C[r][c]), SumStream(r, c), w + 1)
  <2>1. /\ l2C[r][c] \in Seq(SUBSET Product) /\ l2C[r][c] # <<>>
        /\ Segment(l2C[r][c], SumStream(r, c), w)
    BY <1>1, <1>2, FifoTypes DEF CInv
  <2> HIDE DEF Product, w
  <2> QED  BY <1>3, <2>1, SegmentTail
<1>7. ASSUME NEW r \in Row
      PROVE  Head(l2C[r][c]) = Added(r, c, w, KSteps)
  <2>1. Head(l2C[r][c]) = SumStream(r, c)[w]
    BY <1>6
  <2> HIDE DEF w
  <2> QED  BY <1>3, <2>1 DEF SumStream
<1>8. /\ fromC' \in [Col -> Seq(CObjects)] /\ fromC'[c] = Tail(fromC[c])
      /\ \A y \in Col : y # c => fromC'[y] = fromC[y]
  BY <1>2, <1>3, <1>4
<1>9. /\ l2C' \in [Row -> [Col -> Seq(SUBSET Product)]]
      /\ \A x \in Row : l2C'[x][c] = Tail(l2C[x][c])
      /\ \A x \in Row, y \in Col : y # c => l2C'[x][y] = l2C[x][y]
  <2>1. \A x \in Row : l2C'[x] = [l2C[x] EXCEPT ![c] = Tail(@)]
    BY <1>2
  <2>2. \A x \in Row : l2C[x] \in [Col -> Seq(SUBSET Product)]
    BY <1>3
  <2>3. ASSUME NEW x \in Row PROVE l2C'[x] \in [Col -> Seq(SUBSET Product)]
    <3>1. Tail(l2C[x][c]) \in Seq(SUBSET Product)
      BY <1>6
    <3>2. PICK S, f, g : S = Seq(SUBSET Product) /\ f = l2C[x] /\ g = l2C'[x]
      OBVIOUS
    <3>3. f \in [Col -> S] /\ g = [f EXCEPT ![c] = Tail(f[c])] /\ Tail(f[c]) \in S
      BY <2>1, <2>2, <3>1, <3>2
    <3>4. g \in [Col -> S]
      BY ONLY <3>3
    <3> QED  BY <3>2, <3>4
  <2>4. l2C' = [x \in Row |-> l2C'[x]]
    BY <1>2
  <2>5. l2C' \in [Row -> [Col -> Seq(SUBSET Product)]]
    BY ONLY <2>3, <2>4
  <2> QED  BY <2>1, <2>2, <2>5
<1>10. /\ CWritten(c)' = w + 1
       /\ \A y \in Col : y # c => CWritten(y)' = CWritten(y)
  <2>1. CWritten(c)' = COrdered(c) - (Len(fromC[c]) - 1)
    BY <1>4, <1>8, StaticOrdered DEF CWritten
  <2>2. COrdered(c) \in Nat
    BY <1>1, OrderedNat
  <2>3. CWritten(c)' = w + 1
    <3>1. PICK u \in Nat, v \in Nat : u = COrdered(c) /\ v = Len(fromC[c])
      BY <1>4, <2>2
    <3>2. CWritten(c)' = u - (v - 1) /\ w = u - v
      BY <2>1, <3>1 DEF CWritten
    <3> QED  BY <3>2
  <2> QED  BY <1>8, <2>3, StaticOrdered DEF CWritten
<1> HIDE DEF at, w
<1>11. \A x \in Row, y \in Col : CJoined(x, y)' = CJoined(x, y)
  <2>1. ASSUME NEW x \in Row PROVE CJoined(x, c)' = CJoined(x, c)
    <3>1. PICK v \in Nat : v = Len(l2C[x][c])
      BY <1>6
    <3>2. CJoined(x, c)' = (w + 1) + (v - 1)
      BY <1>6, <1>9, <1>10, <3>1 DEF CJoined
    <3>3. CJoined(x, c) = w + v
      BY <3>1 DEF CJoined, w
    <3> QED  BY <1>3, <3>2, <3>3
  <2> QED  BY <1>9, <1>10, <2>1 DEF CJoined
<1>12. \A x \in Row, y \in Col : CReleased(x, y)' = CReleased(x, y)
  BY <1>2, <1>11 DEF CReleased
<1>13. CInv'
  <2>1. (\A y \in Col : CWritten(y) \in Nat /\ Segment(fromC[y], CStream(y), CWritten(y)))'
    <3>1. CWritten(c)' \in Nat /\ Segment(fromC'[c], CStream(c), CWritten(c)')
      BY <1>3, <1>4, <1>8, <1>10
    <3>2. \A y \in Col : CWritten(y)' \in Nat /\ Segment(fromC'[y], CStream(y), CWritten(y)')
      BY <1>1, <1>8, <1>10, <3>1 DEF CInv
    <3> QED  BY <3>2, StaticDesign, StaticStreams DEF hostVars, Segment
  <2>2. (\A x \in Row, y \in Col : Segment(l2C[x][y], SumStream(x, y), CWritten(y)))'
    <3>1. \A x \in Row : Segment(l2C'[x][c], SumStream(x, c), CWritten(c)')
      BY <1>6, <1>9, <1>10
    <3>2. \A x \in Row, y \in Col : Segment(l2C'[x][y], SumStream(x, y), CWritten(y)')
      BY <1>1, <1>9, <1>10, <3>1 DEF CInv
    <3> QED  BY <3>2, StaticDesign, StaticStreams DEF Segment
  <2>3. (\A x \in Row, y \in Col : Segment(l1C[x][y], SumStream(x, y), CJoined(x, y)))'
    <3>1. \A x \in Row, y \in Col : Segment(l1C'[x][y], SumStream(x, y), CJoined(x, y)')
      BY <1>1, <1>2, <1>11 DEF CInv
    <3> QED  BY <3>1, StaticDesign, StaticStreams DEF Segment
  <2>4. (fromC \in [Col -> Seq(CObjects)])'
    <3>1. CObjects' = CObjects
      BY StaticDesign DEF CObjects, hostVars
    <3> QED  BY <1>8, <3>1, StaticDesign
  <2>5. (/\ l2C \in [Row -> [Col -> Seq(SUBSET Product)]]
         /\ l1C \in [Row -> [Col -> Seq(SUBSET Product)]])'
    BY <1>1, <1>2, <1>9, StaticDesign DEF CInv
  <2>6. (\A x \in Row, y \in Col : Len(l2C[x][y]) <= Depth /\ Len(l1C[x][y]) <= Depth)'
    <3>1. /\ \A x \in Row, y \in Col : Len(l2C[x][y]) <= Depth /\ Len(l1C[x][y]) <= Depth
          /\ Depth \in Nat
      BY <1>1, DesignFacts DEF CInv
    <3>2. ASSUME NEW x \in Row PROVE Len(l2C'[x][c]) <= Depth
      <4>1. Len(l2C'[x][c]) = Len(l2C[x][c]) - 1 /\ Len(l2C[x][c]) \in Nat
        BY <1>6, <1>9
      <4>2. Len(l2C[x][c]) <= Depth /\ Depth \in Nat
        BY <3>1
      <4> QED  BY <4>1, <4>2
    <3>3. \A x \in Row, y \in Col : Len(l2C'[x][y]) <= Depth /\ Len(l1C'[x][y]) <= Depth
      BY <1>2, <1>9, <3>1, <3>2
    <3> QED  BY <3>3, StaticDesign
  <2> QED  BY <2>1, <2>2, <2>3, <2>4, <2>5, <2>6 DEF CInv
<1>14. AInv' /\ \A x, y : AUsed(x, y)' = AUsed(x, y)
  BY <1>2, AFrame DEF GemmInv
<1>15. BInv' /\ \A x, y : BUsed(x, y)' = BUsed(x, y)
  BY <1>2, BFrame DEF GemmInv
<1>16. HostInv'
  <2>1. \A y \in Col : CWritten(y) \in Nat /\ CWritten(y)' \in Nat /\ CWritten(y)' >= CWritten(y)
    <3>1. CWritten(c)' = CWritten(c) + 1 /\ CWritten(c) \in Nat
      BY <1>3, <1>10 DEF w
    <3>2. \A y \in Col : CWritten(y) \in Nat
      BY <1>1 DEF CInv
    <3>3. \A y \in Col : y # c => CWritten(y)' = CWritten(y)
      BY <1>10
    <3> QED  BY <3>1, <3>2, <3>3
  <2>2. PICK s \in Nat : s = step * (StepRows * ColTiles)
    <3>1. PICK a \in Nat, b \in Nat, e \in Nat : a = step /\ b = StepRows /\ e = ColTiles
      <4>1. step \in 0..Steps
        BY <1>1 DEF HostInv
      <4>2. step \in Nat /\ StepRows \in Nat /\ ColTiles \in Nat
        BY <1>1, <4>1, DesignFacts, StepFacts
      <4> QED  BY <4>2
    <3>2. a * (b * e) \in Nat
      OBVIOUS
    <3> QED  BY <3>1, <3>2
  <2>3. runs > 0 /\ (step >= 2 \/ step = Steps) => \A y \in Col : CWritten(y) >= s
    BY <1>1, <2>2 DEF HostInv
  <2>4. runs > 0 /\ (step >= 2 \/ step = Steps) => \A y \in Col : CWritten(y)' >= s
    BY <2>1, <2>3
  <2> QED  BY <1>1, <2>2, <2>4, StaticDesign DEF HostInv, hostVars
<1>17. ResultInv'
  <2>1. result \in [MTile \X NTile -> SUBSET Product] /\ Rows \in Nat \ {0}
    BY <1>1, DesignFacts DEF ResultInv
  <2>2. \A p \in MTile \X NTile : p[1] % Rows \in Row
    <3>1. \A m \in MTile : m % Rows \in Row
      BY <2>1 DEF MTile, Row
    <3> QED  BY <3>1
  <2>3. result' \in [MTile \X NTile -> SUBSET Product]
    <3>1. \A p \in MTile \X NTile : Head(l2C[p[1] % Rows][c]) \in SUBSET Product
      BY <1>6, <2>2
    <3> HIDE DEF Product
    <3> QED  BY <1>2, <2>1, <3>1
  <2>4. ASSUME NEW m \in MTile, NEW n \in NTile, NEW y \in Col, y = n % Cols
        PROVE  result'[<<m, n>>] =
                 IF ((m \div Rows) * ColTiles) + (n \div Cols) < CWritten(y)'
                 THEN Multiplied(m, n) ELSE {}
    <3> DEFINE place == ((m \div Rows) * ColTiles) + (n \div Cols)
    <3>1. /\ <<m, n>> \in MTile \X NTile /\ <<m, n>>[1] = m /\ <<m, n>>[2] = n
          /\ m % Rows \in Row
      BY <2>2
    <3>2. result'[<<m, n>>] = IF n = at.n /\ m \div Rows = at.block
                              THEN Head(l2C[m % Rows][c]) ELSE result[<<m, n>>]
      BY <1>2, <3>1
    <3>3. result[<<m, n>>] = IF place < CWritten(y) THEN Multiplied(m, n) ELSE {}
      BY <1>1, <2>4, <3>1 DEF ResultInv
    <3>4. place \in Nat
      <4>1. PICK a \in Nat, t \in Nat, b \in Nat :
              a = m \div Rows /\ t = ColTiles /\ b = n \div Cols
        <5>1. /\ m \in Nat /\ n \in Nat /\ Rows \in Nat \ {0} /\ Cols \in Nat \ {0}
              /\ ColTiles \in Nat
          BY <1>1, DesignFacts DEF MTile, NTile
        <5> QED  BY <5>1, DivMod
      <4>2. (a * t) + b \in Nat
        OBVIOUS
      <4> QED  BY <4>1, <4>2
    <3>5. /\ n = at.n /\ m \div Rows = at.block <=> y = c /\ place = w
          /\ n = at.n /\ m \div Rows = at.block => RowTile(m % Rows, w) = m /\ w % ColTiles = n \div Cols
      BY <1>1, <1>3, <1>5, <2>4, PlaceOf
    <3> HIDE DEF place
    <3>6. CASE y = c /\ place = w
      <4>1. result'[<<m, n>>] = Added(m % Rows, c, w, KSteps)
        BY <1>7, <3>1, <3>2, <3>5, <3>6
      <4>3. Added(m % Rows, c, w, KSteps) = Multiplied(m, n)
        BY <2>4, <3>5, <3>6 DEF Added, Multiplied, KStep
      <4>2. place < CWritten(y)'
        BY <1>3, <1>10, <3>6
      <4> QED  BY <4>1, <4>2, <4>3 DEF place
    <3>7. CASE ~(y = c /\ place = w)
      <4>1. result'[<<m, n>>] = result[<<m, n>>]
        BY <3>2, <3>5, <3>7
      <4>2. place < CWritten(y)' <=> place < CWritten(y)
        <5>1. CASE y = c
          <6>1. CWritten(y)' = CWritten(y) + 1 /\ CWritten(y) \in Nat /\ place # CWritten(y)
            BY <1>3, <1>10, <3>7, <5>1 DEF w
          <6> QED  BY <3>4, <6>1
        <5>2. CASE y # c
          BY <1>10, <5>2
        <5> QED  BY <5>1, <5>2
      <4> QED  BY <3>3, <4>1, <4>2 DEF place
    <3> QED  BY <3>6, <3>7
  <2>5. \A p \in MTile \X NTile :
          result'[p] = IF ((p[1] \div Rows) * ColTiles) + (p[2] \div Cols) < CWritten(p[2] % Cols)'
                       THEN Multiplied(p[1], p[2]) ELSE {}
    <3>1. \A m \in MTile, n \in NTile :
            /\ n % Cols \in Col
            /\ result'[<<m, n>>] =
                 IF ((m \div Rows) * ColTiles) + (n \div Cols) < CWritten(n % Cols)'
                 THEN Multiplied(m, n) ELSE {}
      <4>1. \A n \in NTile : n % Cols \in Col
        BY <1>1, DesignFacts DEF NTile, Col
      <4> QED  BY <2>4, <4>1, StaticDesign
    <3> QED  BY <3>1
  <2> QED  BY <2>3, <2>5, StaticDesign, StaticStreams DEF ResultInv
<1>18. (/\ core \in [Row -> [Col -> Worker]]
        /\ \A x \in Row, y \in Col : CoreInv(x, y))'
  BY <1>2, <1>12, <1>14, <1>15, CoresFrame
<1> QED  BY <1>13, <1>14, <1>15, <1>16, <1>17, <1>18, ArrayStepInv

(***************************************************************************)
(* When all that was ordered of C has been written, nothing is left.       *)
(***************************************************************************)
Drained ==
  /\ \A i \in Shim : toA[i] = <<>>
  /\ \A c \in Col : toB[c] = <<>> /\ l2B[c] = <<>> /\ fromC[c] = <<>>
  /\ \A r \in Row : l2A[r] = <<>>
  /\ \A r \in Row, c \in Col :
       /\ l1A[r][c] = <<>> /\ l1B[r][c] = <<>> /\ l1C[r][c] = <<>> /\ l2C[r][c] = <<>>
       /\ core[r][c].busy => core[r][c].k = 0

(* Of s tiles each, x more objects are at least x more tiles.              *)
LEMMA MoreTiles ==
  ASSUME NEW s \in Nat \ {0}, NEW w \in Nat, NEW x \in Nat
  PROVE  (w + x) * s >= w * s + x /\ (w + x) * s \in Nat /\ w * s \in Nat
<1>1. PICK e \in Nat : s = e + 1
  <2>1. s - 1 \in Nat /\ s = (s - 1) + 1
    OBVIOUS
  <2> QED  BY <2>1
<1>2. (w + x) * s = w * s + (x * e + x)
  BY <1>1
<1>3. w * s \in Nat /\ x * e \in Nat
  OBVIOUS
<1> QED  BY <1>2, <1>3

(* No more tiles of A were ordered than the tiles of C ordered need, and   *)
(* of B no more than of A.                                                 *)
LEMMA OrderedPerTile ==
  ASSUME design \in Designs, NEW i, NEW c, Begun(i) \in Nat, Begun(c) = Begun(i)
  PROVE  AOrdered(i) = COrdered(c) * KSteps /\ BOrdered(c) <= AOrdered(i)
<1>1. PICK h \in Nat \ {0}, t \in Nat \ {0}, s \in Nat \ {0}, p \in Nat \ {0}, b \in Nat :
        h = StepRows /\ t = ColTiles /\ s = KSteps /\ p = PerBlock /\ b = Begun(i)
  BY DesignFacts
<1>2. PICK q \in Nat \ {0} : q = BPerBlock /\ q <= p
  BY <1>1 DEF BPerBlock
<1>3. b * (h * (t * s)) = (b * (h * t)) * s
  OBVIOUS
<1>4. b * (h * q) <= b * (h * p)
  <2>1. PICK e \in Nat : p = q + e
    <3>1. p - q \in Nat /\ p = q + (p - q)
      BY <1>2
    <3> QED  BY <3>1
  <2>2. b * (h * (q + e)) = b * (h * q) + b * (h * e)
    OBVIOUS
  <2>3. b * (h * q) \in Nat /\ b * (h * e) \in Nat
    OBVIOUS
  <2> QED  BY <2>1, <2>2, <2>3
<1>5. p = t * s
  BY <1>1 DEF PerBlock
<1> QED  BY <1>1, <1>2, <1>3, <1>4, <1>5 DEF AOrdered, BOrdered, COrdered

(* Each core needed all that was ordered for the tiles it has released:    *)
(* nothing is left over in front of it.                                    *)
LEMMA DrainedWhenWritten ==
  ASSUME GemmInv, \A c \in Col : fromC[c] = <<>>, NEW b, \A c \in Col : Begun(c) = b
  PROVE  Drained
<1>1. design \in Designs /\ HostInv /\ Shim \subseteq Col
  BY ShimFacts DEF GemmInv
<1>2. ASSUME NEW r \in Row, NEW c \in Col
      PROVE  /\ toA[ShimOf(r)] = <<>> /\ l2A[r] = <<>> /\ l1A[r][c] = <<>>
             /\ toB[c] = <<>> /\ l2B[c] = <<>> /\ l1B[r][c] = <<>>
             /\ l1C[r][c] = <<>> /\ l2C[r][c] = <<>>
             /\ core[r][c].busy => core[r][c].k = 0
  <2> DEFINE i == ShimOf(r)
  <2>1. i \in Shim /\ i \in Col
    BY <1>1, RowFacts
  <2> HIDE DEF i
  <2>2. /\ Begun(i) = Begun(c) /\ Begun(i) \in Nat /\ AOrdered(i) \in Nat
        /\ BOrdered(c) \in Nat /\ COrdered(c) \in Nat
    BY <1>1, <2>1, OrderedNat
  <2>3. AOrdered(i) = COrdered(c) * KSteps /\ BOrdered(c) <= AOrdered(i)
    BY <1>1, <2>2, OrderedPerTile
  <2>4. PICK x1 \in Nat, x2 \in Nat, a1 \in Nat, a2 \in Nat, a3 \in Nat,
             b1 \in Nat, b2 \in Nat, b3 \in Nat :
          /\ x1 = Len(l1C[r][c]) /\ x2 = Len(l2C[r][c])
          /\ a1 = Len(toA[i]) /\ a2 = Len(l2A[r]) /\ a3 = Len(l1A[r][c])
          /\ b1 = Len(toB[c]) /\ b2 = Len(l2B[c]) /\ b3 = Len(l1B[r][c])
    BY <2>1, FifoTypes
  <2>5. PICK s \in Nat \ {0}, w \in Nat, a0 \in Nat, b0 \in Nat :
          s = KSteps /\ w = COrdered(c) /\ a0 = AOrdered(i) /\ b0 = BOrdered(c)
    BY <1>1, <2>2, DesignFacts
  <2>6. PICK k \in Nat : k = IF core[r][c].busy THEN core[r][c].k ELSE 0
    <3>1. core[r][c].k \in Nat
      <4>1. core[r][c] \in Worker /\ KSteps \in Nat
        BY <1>1, FifoTypes, DesignFacts
      <4> QED  BY <4>1 DEF Worker
    <3> QED  BY <3>1
  <2>7. CReleased(r, c) = (w + x2) + x1
    <3>1. fromC[c] = <<>> /\ Len(<<>>) = 0
      OBVIOUS
    <3>2. CWritten(c) = w
      BY <2>2, <2>5, <3>1 DEF CWritten
    <3> QED  BY <2>4, <3>2 DEF CReleased, CJoined
  <2>8. AUsed(r, c) = a0 - a1 - a2 - a3
    BY <2>4, <2>5 DEF AUsed, AInRow, ATaken, i
  <2>9. BUsed(r, c) = b0 - b1 - b2 - b3
    BY <2>4, <2>5 DEF BUsed, BInCol, BTaken
  <2>10. AUsed(r, c) = CReleased(r, c) * KSteps + k /\ BUsed(r, c) = AUsed(r, c)
    <3>1. CoreInv(r, c)
      BY DEF GemmInv
    <3> QED  BY <2>6, <3>1 DEF CoreInv
  <2>11. /\ a0 = w * s /\ b0 <= a0
         /\ a0 - a1 - a2 - a3 = ((w + x2) + x1) * s + k
         /\ b0 - b1 - b2 - b3 = a0 - a1 - a2 - a3
    BY <2>3, <2>5, <2>7, <2>8, <2>9, <2>10
  <2>12. /\ x1 = 0 /\ x2 = 0 /\ a1 = 0 /\ a2 = 0 /\ a3 = 0 /\ b1 = 0 /\ b2 = 0 /\ b3 = 0 /\ k = 0
    <3>1. PICK z \in Nat : z = x2 + x1
      OBVIOUS
    <3>2. PICK u \in Nat, v \in Nat : u = w * s /\ v = (w + z) * s /\ v >= u + z
      BY MoreTiles
    <3>3. (w + x2) + x1 = w + z
      BY <3>1
    <3>4. a0 = u /\ a0 - a1 - a2 - a3 = v + k
      BY <2>11, <3>2, <3>3
    <3> QED  BY <2>11, <3>1, <3>2, <3>4
  <2>13. \A T : \A fifo \in Seq(T) : Len(fifo) = 0 => fifo = <<>>
    OBVIOUS
  <2>14. /\ toA[i] \in Seq(AObjects) /\ toB[c] \in Seq(BObjects)
         /\ l2A[r] \in Seq(ATile) /\ l2B[c] \in Seq(BTile)
         /\ l1A[r][c] \in Seq(ATile) /\ l1B[r][c] \in Seq(BTile)
         /\ l1C[r][c] \in Seq(SUBSET Product) /\ l2C[r][c] \in Seq(SUBSET Product)
    BY <2>1, FifoTypes
  <2>15. toA[i] = <<>> /\ l2A[r] = <<>> /\ l1A[r][c] = <<>>
    BY <2>4, <2>12, <2>13, <2>14
  <2>16. toB[c] = <<>> /\ l2B[c] = <<>> /\ l1B[r][c] = <<>>
    BY <2>4, <2>12, <2>13, <2>14
  <2>17. l1C[r][c] = <<>> /\ l2C[r][c] = <<>>
    BY <2>4, <2>12, <2>13, <2>14
  <2> QED  BY <2>6, <2>12, <2>15, <2>16, <2>17 DEF i
<1>3. 0 \in Row /\ 0 \in Col
  BY <1>1, DesignFacts DEF Row, Col
<1>4. \A i \in Shim : \E r \in Row : ShimOf(r) = i
  BY <1>1, RowFacts
<1> QED  BY <1>2, <1>3, <1>4 DEF Drained

(* When the runtime sequence returns the array is empty.                   *)
LEMMA ReturnedDrained ==
  ASSUME GemmInv, Returned
  PROVE  Drained
<1>1. design \in Designs /\ HostInv
  BY DEF GemmInv
<1>2. step = Steps /\ col = 0 /\ runs \in Nat /\ step \in Nat
  <2>1. MaxRuns \in Nat /\ Steps \in Nat
    BY <1>1, DesignFacts, StepFacts
  <2>2. runs \in 0..MaxRuns
    BY <1>1 DEF HostInv
  <2> QED  BY <2>1, <2>2 DEF Returned
<1>3. \A c \in Col : Begun(c) = IF runs = 0 THEN 0 ELSE step
  BY <1>2 DEF Begun, Col
<1>4. ASSUME NEW c \in Col PROVE fromC[c] = <<>>
  <2>1. fromC[c] \in Seq(CObjects) /\ Len(fromC[c]) \in Nat /\ CWritten(c) \in Nat
    BY FifoTypes, CountersNat
  <2>2. COrdered(c) \in Nat
    BY <1>1, OrderedNat
  <2>3. CWritten(c) >= COrdered(c)
    <3>1. CASE runs = 0
      <4>1. 0 * (StepRows * ColTiles) = 0
        <5>1. PICK h \in Nat, t \in Nat : h = StepRows /\ t = ColTiles
          BY <1>1, DesignFacts
        <5>2. 0 * (h * t) = 0
          OBVIOUS
        <5> QED  BY <5>1, <5>2
      <4>2. COrdered(c) = 0
        BY <1>3, <3>1, <4>1 DEF COrdered
      <4> QED  BY <2>1, <4>2
    <3>2. CASE runs # 0
      <4>1. COrdered(c) = step * (StepRows * ColTiles)
        BY <1>3, <3>2 DEF COrdered
      <4>2. runs > 0
        BY <1>2, <3>2
      <4>3. CWritten(c) >= step * (StepRows * ColTiles)
        BY <1>1, <1>2, <4>2 DEF HostInv
      <4> QED  BY <4>1, <4>3
    <3> QED  BY <3>1, <3>2
  <2>4. Len(fromC[c]) = 0
    <3>1. CWritten(c) = COrdered(c) - Len(fromC[c])
      BY DEF CWritten
    <3> QED  BY <2>1, <2>2, <2>3, <3>1
  <2> QED  BY <2>1, <2>4
<1> QED  BY <1>3, <1>4, DrainedWhenWritten

(* A run begins where it would have begun on a fresh array.                *)
LEMMA StartRunStep ==
  ASSUME GemmInv, StartRun, UNCHANGED design
  PROVE  GemmInv'
<1>1. design \in Designs /\ HostInv /\ AInv /\ BInv /\ CInv
      /\ core \in [Row -> [Col -> Worker]] /\ \A r \in Row, c \in Col : CoreInv(r, c)
  BY DEF GemmInv
<1>2. /\ Returned /\ runs < MaxRuns
      /\ runs' = runs + 1 /\ step' = 0
      /\ result' = [p \in MTile \X NTile |-> {}]
      /\ UNCHANGED <<toA, toB, fromC, l2A, l1A, l2B, l1B, l1C, l2C, core, col, tg>>
  BY DEF StartRun, fifoVars
<1>3. Drained /\ col = 0
  BY <1>2, ReturnedDrained DEF Returned
<1>4. /\ runs \in Nat /\ Steps \in Nat \ {0} /\ MaxRuns \in Nat /\ runs' \in 1..MaxRuns
      /\ Cols \in Nat /\ KSteps \in Nat
  <2>1. MaxRuns \in Nat /\ Steps \in Nat \ {0} /\ Cols \in Nat /\ KSteps \in Nat
    BY <1>1, DesignFacts, StepFacts
  <2>2. runs \in 0..MaxRuns
    BY <1>1 DEF HostInv
  <2> QED  BY <1>2, <2>1, <2>2
<1>5. \A c \in Col : Begun(c)' = 0
  BY <1>2, <1>3, <1>4 DEF Begun, Col
<1>6. \A c \in Col : AOrdered(c)' = 0 /\ BOrdered(c)' = 0 /\ COrdered(c)' = 0
  <2>1. PICK h \in Nat, t \in Nat, p \in Nat, q \in Nat :
          h = StepRows /\ t = ColTiles /\ p = PerBlock /\ q = BPerBlock
    BY <1>1, DesignFacts DEF BPerBlock
  <2>2. 0 * (h * t) = 0 /\ 0 * (h * p) = 0 /\ 0 * (h * q) = 0
    OBVIOUS
  <2> QED  BY <1>5, <2>1, <2>2, StaticDesign DEF AOrdered, BOrdered, COrdered
<1>7. Len(<<>>) = 0
  OBVIOUS
<1>8. \A i \in Shim : i \in Col
  BY <1>1, ShimFacts
<1>9. \A r \in Row : ShimOf(r) \in Shim
  BY <1>1, RowFacts
<1>10. /\ \A i \in Shim : toA'[i] = <<>>
       /\ \A c \in Col : toB'[c] = <<>> /\ l2B'[c] = <<>> /\ fromC'[c] = <<>>
       /\ \A r \in Row : l2A'[r] = <<>>
       /\ \A r \in Row, c \in Col :
            /\ l1A'[r][c] = <<>> /\ l1B'[r][c] = <<>> /\ l1C'[r][c] = <<>> /\ l2C'[r][c] = <<>>
  BY <1>2, <1>3 DEF Drained
<1>11. /\ \A i \in Shim : ATaken(i)' = 0
       /\ \A c \in Col : BTaken(c)' = 0 /\ CWritten(c)' = 0
  BY <1>6, <1>7, <1>8, <1>10 DEF ATaken, BTaken, CWritten
<1>12. /\ \A r \in Row : AInRow(r)' = 0
       /\ \A c \in Col : BInCol(c)' = 0
       /\ \A r \in Row, c \in Col : CJoined(r, c)' = 0
  BY <1>7, <1>9, <1>10, <1>11, StaticStreams DEF AInRow, BInCol, CJoined
<1>13. \A r \in Row, c \in Col : AUsed(r, c)' = 0 /\ BUsed(r, c)' = 0 /\ CReleased(r, c)' = 0
  BY <1>7, <1>10, <1>12 DEF AUsed, BUsed, CReleased
<1>14. AInv'
  <2>1. (/\ toA \in [Shim -> Seq(AObjects)]
         /\ l2A \in [Row -> Seq(ATile)] /\ l1A \in [Row -> [Col -> Seq(ATile)]]
         /\ \A r \in Row : Len(l2A[r]) <= Depth /\ \A c \in Col : Len(l1A[r][c]) <= Depth)'
    <3>1. AObjects' = AObjects
      BY StaticDesign DEF AObjects
    <3> QED  BY <1>1, <1>2, <3>1, StaticDesign DEF AInv
  <2>2. (/\ \A i \in Shim : Segment(toA[i], AStream(i), ATaken(i))
         /\ \A r \in Row : Segment(l2A[r], RowStream(r), AInRow(r))
         /\ \A r \in Row, c \in Col : Segment(l1A[r][c], RowStream(r), AUsed(r, c)))'
    BY <1>10, SegmentEmpty, StaticDesign DEF Segment
  <2> QED  BY <2>1, <2>2 DEF AInv
<1>15. BInv'
  <2>1. (/\ toB \in [Col -> Seq(BObjects)]
         /\ l2B \in [Col -> Seq(BTile)] /\ l1B \in [Row -> [Col -> Seq(BTile)]]
         /\ \A c \in Col : Len(l2B[c]) <= Depth /\ \A r \in Row : Len(l1B[r][c]) <= Depth)'
    <3>1. BObjects' = BObjects
      BY StaticDesign DEF BObjects
    <3> QED  BY <1>1, <1>2, <3>1, StaticDesign DEF BInv
  <2>2. (/\ \A c \in Col : Segment(toB[c], BStream(c), BTaken(c))
         /\ \A c \in Col : Segment(l2B[c], ColStream(c), BInCol(c))
         /\ \A r \in Row, c \in Col : Segment(l1B[r][c], ColStream(c), BUsed(r, c)))'
    BY <1>10, SegmentEmpty, StaticDesign DEF Segment
  <2> QED  BY <2>1, <2>2 DEF BInv
<1>16. CInv'
  <2>1. (/\ fromC \in [Col -> Seq(CObjects)]
         /\ l2C \in [Row -> [Col -> Seq(SUBSET Product)]]
         /\ l1C \in [Row -> [Col -> Seq(SUBSET Product)]]
         /\ \A r \in Row, c \in Col : Len(l2C[r][c]) <= Depth /\ Len(l1C[r][c]) <= Depth)'
    <3>1. CObjects' = CObjects
      BY StaticDesign DEF CObjects
    <3> QED  BY <1>1, <1>2, <3>1, StaticDesign DEF CInv
  <2>2. (/\ \A c \in Col : CWritten(c) \in Nat /\ Segment(fromC[c], CStream(c), CWritten(c))
         /\ \A r \in Row, c \in Col :
              /\ Segment(l2C[r][c], SumStream(r, c), CWritten(c))
              /\ Segment(l1C[r][c], SumStream(r, c), CJoined(r, c)))'
    BY <1>10, <1>11, SegmentEmpty, StaticDesign DEF Segment
  <2> QED  BY <2>1, <2>2 DEF CInv
<1>17. HostInv'
  <2>1. /\ 0 \in 0..Steps /\ 0 \in 0..Cols /\ ~(0 >= 2) /\ 0 # Steps
        /\ runs' # 0 /\ runs' \in 0..MaxRuns
    BY <1>4
  <2>2. tg \in Nat
    BY <1>1 DEF HostInv
  <2>3. (/\ runs \in 0..MaxRuns /\ step \in 0..Steps /\ col \in 0..Cols /\ tg \in Nat
         /\ runs # 0 /\ step # Steps /\ ~(step >= 2))'
    <3>1. MaxRuns' = MaxRuns /\ Steps' = Steps /\ Cols' = Cols
      BY StaticDesign
    <3>2. step' = 0 /\ col' = col /\ col = 0 /\ tg' = tg
      BY <1>2, <1>3
    <3> QED  BY ONLY <2>1, <2>2, <3>1, <3>2
  <2> QED  BY <2>3 DEF HostInv
<1>18. ResultInv'
  <2>1. result' \in [MTile \X NTile -> SUBSET Product]
    BY <1>2
  <2>2. ASSUME NEW m \in MTile, NEW n \in NTile
        PROVE  ~(((m \div Rows) * ColTiles) + (n \div Cols) < CWritten(n % Cols)')
    <3>1. n % Cols \in Col /\ Cols' = Cols
      <4>1. Cols \in Nat \ {0} /\ ColTiles \in Nat
        BY <1>1, DesignFacts
      <4>2. n \in Nat
        BY <4>1 DEF NTile
      <4>3. n % Cols \in 0..Cols - 1
        BY <4>1, <4>2
      <4>4. Cols' = Cols
        BY StaticDesign
      <4> QED  BY <4>3, <4>4 DEF Col
    <3>2. PICK y \in Col : y = n % Cols
      BY <3>1
    <3>3. CWritten(y)' = 0
      BY <1>11
    <3>4. ((m \div Rows) * ColTiles) + (n \div Cols) \in Nat
      <4>1. PICK a \in Nat, t \in Nat, b \in Nat :
              a = m \div Rows /\ t = ColTiles /\ b = n \div Cols
        <5>1. /\ m \in Nat /\ n \in Nat /\ Rows \in Nat \ {0} /\ Cols \in Nat \ {0}
              /\ ColTiles \in Nat
          BY <1>1, DesignFacts DEF MTile, NTile
        <5> QED  BY <5>1, DivMod
      <4>2. (a * t) + b \in Nat
        OBVIOUS
      <4> QED  BY <4>1, <4>2
    <3>5. ~(((m \div Rows) * ColTiles) + (n \div Cols) < CWritten(y)')
      BY <3>3, <3>4
    <3> QED  BY <3>1, <3>2, <3>5
  <2>3. \A p \in MTile \X NTile :
          /\ ~(((p[1] \div Rows) * ColTiles) + (p[2] \div Cols) < CWritten(p[2] % Cols)')
          /\ result'[p] = {}
    BY <1>2, <2>2
  <2> QED  BY <2>1, <2>3, StaticDesign DEF ResultInv
<1>19. (core \in [Row -> [Col -> Worker]])'
  <2>1. Worker' = Worker
    BY StaticDesign DEF Worker
  <2> QED  BY <1>1, <1>2, <2>1, StaticDesign
<1>20. ASSUME NEW r \in Row, NEW c \in Col PROVE CoreInv(r, c)'
  <2>1. core[r][c].busy => core[r][c].k = 0 /\ core[r][c].acc = {} /\ Len(l1C[r][c]) < Depth
    <3>1. CoreInv(r, c) /\ (core[r][c].busy => core[r][c].k = 0)
      BY <1>1, <1>3 DEF Drained
    <3>2. Added(r, c, CReleased(r, c), 0) = {}
      BY DEF Added
    <3> QED  BY <3>1, <3>2 DEF CoreInv
  <2>2. Added(r, c, 0, 0)' = {}
    BY DEF Added
  <2>3. 0 = 0 * KSteps + 0
    BY <1>4
  <2>4. 0 = CReleased(r, c)' * KSteps' + (IF core'[r][c].busy THEN core'[r][c].k ELSE 0)
    BY <1>2, <1>13, <2>1, <2>3, StaticDesign
  <2>5. /\ core'[r][c].busy => core'[r][c].acc = Added(r, c, CReleased(r, c), core[r][c].k)'
        /\ core'[r][c].busy => Len(l1C'[r][c]) < Depth'
    BY <1>2, <1>13, <2>1, <2>2, StaticDesign DEF Added
  <2> QED  BY <1>13, <2>4, <2>5 DEF CoreInv
<1>21. (\A r \in Row, c \in Col : CoreInv(r, c))'
  BY <1>20, StaticDesign
<1> QED  BY <1>1, <1>14, <1>15, <1>16, <1>17, <1>18, <1>19, <1>21 DEF GemmInv

(* Column o is ordered for another step.                                   *)
LEMMA OrderedMore ==
  ASSUME GemmInv, Order, UNCHANGED design, NEW o, o = col
  PROVE  /\ o \in Col /\ runs # 0 /\ step \in 0 .. Steps - 1 /\ step \in Nat /\ tg \in Nat
         /\ AOrdered(o)' = AOrdered(o) + StepRows * PerBlock
         /\ BOrdered(o)' = BOrdered(o) + StepRows * BPerBlock
         /\ COrdered(o)' = COrdered(o) + StepRows * ColTiles
         /\ AOrdered(o) = step * (StepRows * PerBlock)
         /\ BOrdered(o) = step * (StepRows * BPerBlock)
         /\ COrdered(o) = step * (StepRows * ColTiles)
         /\ \A c \in Col : c # o => /\ AOrdered(c)' = AOrdered(c) /\ BOrdered(c)' = BOrdered(c)
                                    /\ COrdered(c)' = COrdered(c)
<1>1. design \in Designs /\ HostInv
  BY DEF GemmInv
<1>2. /\ step < Steps /\ col < Cols /\ col' = col + 1
      /\ UNCHANGED <<runs, step>>
  BY DEF Order
<1>3. /\ Steps \in Nat \ {0} /\ Cols \in Nat \ {0} /\ StepRows \in Nat \ {0}
      /\ ColTiles \in Nat \ {0} /\ PerBlock \in Nat \ {0} /\ BPerBlock \in Nat \ {0}
      /\ MaxRuns \in Nat
  BY <1>1, DesignFacts, StepFacts DEF BPerBlock
<1>4. /\ runs \in 0..MaxRuns /\ step \in 0..Steps /\ col \in 0..Cols /\ tg \in Nat
      /\ (runs = 0 => step = Steps /\ col = 0)
  BY <1>1 DEF HostInv
<1>5. runs # 0 /\ step \in 0 .. Steps - 1 /\ step \in Nat /\ o \in Col
  BY <1>2, <1>3, <1>4 DEF Col
<1>6. /\ Begun(o) = step /\ Begun(o)' = step + 1
      /\ \A c \in Col : c # o => Begun(c)' = Begun(c)
  <2>1. o \in Nat /\ o = col /\ ~(o < col) /\ o < col + 1 /\ \A c \in Col : c \in Nat
    BY <1>3, <1>5 DEF Col
  <2>2. \A c \in Col : c # o => (c < col <=> c < col + 1)
    BY <2>1
  <2> QED  BY <1>2, <1>5, <2>1, <2>2 DEF Begun
<1>7. PICK s \in Nat, h \in Nat, t \in Nat, p \in Nat, q \in Nat :
        s = step /\ h = StepRows /\ t = ColTiles /\ p = PerBlock /\ q = BPerBlock
  BY <1>3, <1>5
<1>8. /\ (s + 1) * (h * p) = s * (h * p) + h * p
      /\ (s + 1) * (h * q) = s * (h * q) + h * q
      /\ (s + 1) * (h * t) = s * (h * t) + h * t
  OBVIOUS
<1>9. /\ AOrdered(o)' = AOrdered(o) + StepRows * PerBlock
      /\ BOrdered(o)' = BOrdered(o) + StepRows * BPerBlock
      /\ COrdered(o)' = COrdered(o) + StepRows * ColTiles
  BY <1>6, <1>7, <1>8, StaticDesign DEF AOrdered, BOrdered, COrdered
<1>10. /\ AOrdered(o) = step * (StepRows * PerBlock)
       /\ BOrdered(o) = step * (StepRows * BPerBlock)
       /\ COrdered(o) = step * (StepRows * ColTiles)
  BY <1>6 DEF AOrdered, BOrdered, COrdered
<1>11. \A c \in Col : c # o => /\ AOrdered(c)' = AOrdered(c) /\ BOrdered(c)' = BOrdered(c)
                               /\ COrdered(c)' = COrdered(c)
  BY <1>6, StaticDesign DEF AOrdered, BOrdered, COrdered
<1> QED  BY <1>4, <1>5, <1>9, <1>10, <1>11

(* The numbers of the objects of a step are below those of the run.        *)
LEMMA NumberOfStep ==
  ASSUME design \in Designs, NEW s \in 0 .. Steps - 1, NEW p \in Nat \ {0},
         NEW x \in 1 .. StepRows * p
  PROVE  s * (StepRows * p) + (x - 1) \in 0 .. BlockRows * p - 1
<1>1. PICK h \in Nat \ {0}, n \in Nat \ {0}, z \in Nat :
        h = StepRows /\ n = Steps /\ z = s /\ z < n
  <2>1. StepRows \in Nat \ {0} /\ Steps \in Nat \ {0}
    BY DesignFacts, StepFacts
  <2> QED  BY <2>1
<1>2. PICK w \in Nat \ {0} : w = h * p
  <2>1. h * p \in Nat \ {0}
    OBVIOUS
  <2> QED  BY <2>1
<1>3. x - 1 \in 0 .. w - 1
  BY <1>1, <1>2
<1>4. z * w + (x - 1) \in 0 .. n * w - 1
  BY <1>1, <1>3, ProductRange
<1>5. BlockRows = n * h
  BY <1>1, StepFacts
<1>6. (n * h) * p = n * (h * p)
  OBVIOUS
<1> QED  BY <1>1, <1>2, <1>4, <1>5, <1>6

(* The fills of A continue its streams.                                    *)
LEMMA OrderA ==
  ASSUME GemmInv, Order, UNCHANGED design
  PROVE  AInv' /\ \A r \in Row, c \in Col : AUsed(r, c)' = AUsed(r, c)
<1>1. design \in Designs /\ AInv /\ HostInv
  BY DEF GemmInv
<1>2. PICK o : o = col
  OBVIOUS
<1>3. /\ o \in Col /\ step \in 0 .. Steps - 1 /\ step \in Nat /\ tg \in Nat
      /\ AOrdered(o)' = AOrdered(o) + StepRows * PerBlock
      /\ AOrdered(o) = step * (StepRows * PerBlock)
      /\ \A c \in Col : c # o => AOrdered(c)' = AOrdered(c)
  BY <1>2, OrderedMore
<1> DEFINE taps == [i \in 1..StepRows |-> ATap(TileOffset(BlocksOf(step)[i], o))]
           more == Fills(taps)
<1>4. /\ toA' = IF OrdersA(o) THEN [toA EXCEPT ![o] = @ \o more] ELSE toA
      /\ UNCHANGED <<l2A, l1A, tg>>
  BY <1>2 DEF Order
<1>5. PICK m \in Nat : m = StepRows * PerBlock
  <2>1. PICK h \in Nat, p \in Nat : h = StepRows /\ p = PerBlock
    BY <1>1, DesignFacts
  <2>2. h * p \in Nat
    OBVIOUS
  <2> QED  BY <2>1, <2>2
<1>6. ASSUME OrdersA(o)
      PROVE  /\ o \in Shim
             /\ toA[o] \o more \in Seq(AObjects)
             /\ Len(toA[o] \o more) = Len(toA[o]) + m
             /\ Segment(toA[o] \o more, AStream(o), ATaken(o))
  <2>1. o \in Shim
    BY <1>1, <1>3, <1>6, ShimFacts
  <2>2. Len(taps) = StepRows
        /\ \A q \in 1..StepRows : taps[q] = ATap(TileOffset(BlocksOf(step)[q], o))
    BY <1>1, DesignFacts
  <2> HIDE DEF taps
  <2>3. /\ Fills(taps) = [x \in 1 .. StepRows * PerBlock |-> Fills(taps)[x]]
        /\ \A x \in 1 .. StepRows * PerBlock :
             Fills(taps)[x] = AObject(o, step * (StepRows * PerBlock) + (x - 1))
    BY <1>1, <1>3, <2>1, <2>2, ATapsInOrder
  <2>4. /\ more = [x \in 1..m |-> more[x]]
        /\ \A x \in 1..m : more[x] = AObject(o, step * m + (x - 1))
    BY <1>5, <2>3
  <2> HIDE DEF more
  <2>5. /\ toA[o] \in Seq(AObjects) /\ Len(toA[o]) \in Nat /\ ATaken(o) \in Nat
        /\ Segment(toA[o], AStream(o), ATaken(o))
    BY <1>1, <2>1, FifoTypes, CountersNat DEF AInv
  <2>6. ATaken(o) + Len(toA[o]) = step * m
    <3>1. AOrdered(o) \in Nat
      BY <1>1, <1>3, OrderedNat
    <3>2. ATaken(o) + Len(toA[o]) = AOrdered(o)
      BY <2>5, <3>1 DEF ATaken
    <3> QED  BY <1>3, <1>5, <3>2
  <2>7. ASSUME NEW x \in 1..m
        PROVE  more[x] \in AObjects /\ more[x] = AStream(o)[step * m + (x - 1)]
    <3>1. PICK j : j = step * m + (x - 1) /\ j \in 0 .. BlockRows * PerBlock - 1
      <4>1. PerBlock \in Nat \ {0}
        BY <1>1, DesignFacts
      <4> QED  BY <1>1, <1>3, <1>5, <4>1, NumberOfStep
    <3>2. AObject(o, j) \in AObjects /\ j \in Nat
      BY <1>1, <1>3, <2>1, <3>1, ObjectTypes
    <3>3. AStream(o)[j] = AObject(o, j)
      BY <3>2 DEF AStream
    <3> QED  BY <2>4, <3>1, <3>2, <3>3
  <2>8. more \in Seq(AObjects) /\ Len(more) = m
    <3>1. more \in [1..m -> AObjects]
      BY <2>4, <2>7
    <3> QED  BY <3>1
  <2>9. \A x \in 1..Len(more) : more[x] = AStream(o)[ATaken(o) + Len(toA[o]) + (x - 1)]
    BY <2>6, <2>7, <2>8
  <2>10. /\ toA[o] \o more \in Seq(AObjects) /\ Len(toA[o] \o more) = Len(toA[o]) + Len(more)
         /\ Segment(toA[o] \o more, AStream(o), ATaken(o))
    BY <2>5, <2>8, <2>9, SegmentConcat
  <2> QED  BY <2>1, <2>8, <2>10
<1> HIDE DEF more, taps
<1>7. /\ toA' \in [Shim -> Seq(AObjects)]
      /\ \A i \in Shim : i # o => toA'[i] = toA[i]
      /\ OrdersA(o) => toA'[o] = toA[o] \o more
  <2>1. toA \in [Shim -> Seq(AObjects)]
    BY <1>1 DEF AInv
  <2>2. CASE OrdersA(o)
    BY <1>4, <1>6, <2>1, <2>2
  <2>3. CASE ~OrdersA(o)
    BY <1>4, <2>1, <2>3
  <2> QED  BY <2>2, <2>3
<1>8. \A i \in Shim : i = o => OrdersA(o)
  BY <1>1, <1>3, ShimFacts
<1>9. ASSUME NEW i \in Shim PROVE ATaken(i)' = ATaken(i)
  <2>1. CASE i = o
    <3>1. AOrdered(o) \in Nat /\ Len(toA[o]) \in Nat
      BY <1>1, <1>3, <2>1, OrderedNat, FifoTypes
    <3>2. Len(toA'[o]) = Len(toA[o]) + m
      BY <1>6, <1>7, <1>8, <2>1
    <3>3. ATaken(o)' = (AOrdered(o) + m) - (Len(toA[o]) + m)
      BY <1>3, <1>5, <3>2 DEF ATaken
    <3>4. ATaken(o)' = ATaken(o)
      BY <1>5, <3>1, <3>3 DEF ATaken
    <3> QED  BY <2>1, <3>4
  <2>2. CASE i # o
    <3>1. i \in Col
      BY <1>1, ShimFacts
    <3> QED  BY <1>3, <1>7, <2>2, <3>1 DEF ATaken
  <2> QED  BY <2>1, <2>2
<1>10. \A r \in Row : AInRow(r)' = AInRow(r)
  <2>1. \A r \in Row : ShimOf(r) \in Shim
    BY <1>1, RowFacts
  <2> QED  BY <1>4, <1>9, <2>1, StaticStreams DEF AInRow
<1>11. \A r \in Row, c \in Col : AUsed(r, c)' = AUsed(r, c)
  BY <1>4, <1>10 DEF AUsed
<1>12. AInv'
  <2>1. (\A i \in Shim : Segment(toA[i], AStream(i), ATaken(i)))'
    <3>1. \A i \in Shim : i = o => Segment(toA'[o], AStream(o), ATaken(o))
      BY <1>6, <1>7, <1>8
    <3>2. \A i \in Shim : i # o => Segment(toA'[i], AStream(i), ATaken(i))
      BY <1>1, <1>7 DEF AInv
    <3>3. \A i \in Shim : Segment(toA'[i], AStream(i), ATaken(i)')
      BY <1>9, <3>1, <3>2
    <3> QED  BY <1>4, <3>3, StaticDesign, StaticStreams DEF Segment
  <2>2. (\A r \in Row : Segment(l2A[r], RowStream(r), AInRow(r)))'
    <3>1. \A r \in Row : Segment(l2A'[r], RowStream(r), AInRow(r)')
      BY <1>1, <1>4, <1>10 DEF AInv
    <3> QED  BY <3>1, StaticDesign, StaticStreams DEF Segment
  <2>3. (\A r \in Row, c \in Col : Segment(l1A[r][c], RowStream(r), AUsed(r, c)))'
    <3>1. \A r \in Row, c \in Col : Segment(l1A'[r][c], RowStream(r), AUsed(r, c)')
      BY <1>1, <1>4, <1>11 DEF AInv
    <3> QED  BY <3>1, StaticDesign, StaticStreams DEF Segment
  <2>4. (toA \in [Shim -> Seq(AObjects)])'
    <3>1. AObjects' = AObjects
      BY StaticDesign DEF AObjects
    <3> QED  BY <1>7, <3>1, StaticDesign
  <2>5. (/\ l2A \in [Row -> Seq(ATile)] /\ l1A \in [Row -> [Col -> Seq(ATile)]]
         /\ \A r \in Row : Len(l2A[r]) <= Depth /\ \A c \in Col : Len(l1A[r][c]) <= Depth)'
    BY <1>1, <1>4, StaticDesign DEF AInv
  <2> QED  BY <2>1, <2>2, <2>3, <2>4, <2>5 DEF AInv
<1> QED  BY <1>11, <1>12

(* The fills of B continue its columns.                                    *)
LEMMA OrderB ==
  ASSUME GemmInv, Order, UNCHANGED design
  PROVE  BInv' /\ \A r \in Row, c \in Col : BUsed(r, c)' = BUsed(r, c)
<1>1. design \in Designs /\ BInv /\ HostInv
  BY DEF GemmInv
<1>2. PICK o : o = col
  OBVIOUS
<1>3. /\ o \in Col /\ step \in 0 .. Steps - 1 /\ step \in Nat /\ tg \in Nat
      /\ BOrdered(o)' = BOrdered(o) + StepRows * BPerBlock
      /\ BOrdered(o) = step * (StepRows * BPerBlock)
      /\ \A c \in Col : c # o => BOrdered(c)' = BOrdered(c)
  BY <1>2, OrderedMore
<1> DEFINE taps == [i \in 1..StepRows |-> BTap(o, BlocksOf(step)[i])]
           more == Fills(taps)
<1>4. /\ toB' = [toB EXCEPT ![o] = @ \o more]
      /\ UNCHANGED <<l2B, l1B, tg>>
  BY <1>2 DEF Order
<1>5. PICK m \in Nat : m = StepRows * BPerBlock
  <2>1. PICK h \in Nat, p \in Nat : h = StepRows /\ p = BPerBlock
    BY <1>1, DesignFacts DEF BPerBlock
  <2>2. h * p \in Nat
    OBVIOUS
  <2> QED  BY <2>1, <2>2
<1>6. /\ toB[o] \o more \in Seq(BObjects)
      /\ Len(toB[o] \o more) = Len(toB[o]) + m
      /\ Segment(toB[o] \o more, BStream(o), BTaken(o))
  <2>1. Len(taps) = StepRows
        /\ \A q \in 1..StepRows : taps[q] = BTap(o, BlocksOf(step)[q])
    BY <1>1, DesignFacts
  <2> HIDE DEF taps
  <2>2. /\ Fills(taps) = [x \in 1 .. StepRows * BPerBlock |-> Fills(taps)[x]]
        /\ \A x \in 1 .. StepRows * BPerBlock :
             Fills(taps)[x] = BObject(o, step * (StepRows * BPerBlock) + (x - 1))
    BY <1>1, <1>3, <2>1, BTapsInOrder
  <2>3. /\ more = [x \in 1..m |-> more[x]]
        /\ \A x \in 1..m : more[x] = BObject(o, step * m + (x - 1))
    BY <1>5, <2>2
  <2> HIDE DEF more
  <2>4. /\ toB[o] \in Seq(BObjects) /\ Len(toB[o]) \in Nat /\ BTaken(o) \in Nat
        /\ Segment(toB[o], BStream(o), BTaken(o))
    BY <1>1, <1>3, FifoTypes, CountersNat DEF BInv
  <2>5. BOrdered(o) \in Nat /\ BTaken(o) + Len(toB[o]) = step * m
    <3>1. BOrdered(o) \in Nat
      BY <1>1, <1>3, OrderedNat
    <3>2. BTaken(o) + Len(toB[o]) = BOrdered(o)
      BY <2>4, <3>1 DEF BTaken
    <3> QED  BY <1>3, <1>5, <3>1, <3>2
  <2>6. ASSUME NEW x \in 1..m
        PROVE  more[x] \in BObjects /\ more[x] = BStream(o)[step * m + (x - 1)]
    <3>1. PICK j \in Nat : j = step * m + (x - 1)
      <4>1. PICK z \in Nat : z = step * m
        BY <1>3, <1>5, <2>5
      <4>2. z + (x - 1) \in Nat
        OBVIOUS
      <4> QED  BY <4>1, <4>2
    <3>2. BObject(o, j) \in BObjects
      BY <1>1, <1>3, ObjectTypes
    <3>3. BStream(o)[j] = BObject(o, j)
      BY DEF BStream
    <3> QED  BY <2>3, <3>1, <3>2, <3>3
  <2>7. more \in Seq(BObjects) /\ Len(more) = m
    <3>1. more \in [1..m -> BObjects]
      BY <2>3, <2>6
    <3> QED  BY <3>1
  <2>8. \A x \in 1..Len(more) : more[x] = BStream(o)[BTaken(o) + Len(toB[o]) + (x - 1)]
    BY <2>5, <2>6, <2>7
  <2>9. /\ toB[o] \o more \in Seq(BObjects) /\ Len(toB[o] \o more) = Len(toB[o]) + Len(more)
        /\ Segment(toB[o] \o more, BStream(o), BTaken(o))
    BY <2>4, <2>7, <2>8, SegmentConcat
  <2> QED  BY <2>7, <2>9
<1> HIDE DEF more, taps
<1>7. /\ toB' \in [Col -> Seq(BObjects)]
      /\ \A c \in Col : c # o => toB'[c] = toB[c]
      /\ toB'[o] = toB[o] \o more
  <2>1. toB \in [Col -> Seq(BObjects)]
    BY <1>1 DEF BInv
  <2> QED  BY <1>3, <1>4, <1>6, <2>1
<1>8. BTaken(o)' = BTaken(o)
  <2>1. BOrdered(o) \in Nat /\ Len(toB[o]) \in Nat
    BY <1>1, <1>3, OrderedNat, FifoTypes
  <2>2. BTaken(o)' = (BOrdered(o) + m) - (Len(toB[o]) + m)
    BY <1>3, <1>5, <1>6, <1>7 DEF BTaken
  <2> QED  BY <1>5, <2>1, <2>2 DEF BTaken
<1>9. \A c \in Col : BTaken(c)' = BTaken(c)
  BY <1>3, <1>7, <1>8 DEF BTaken
<1>10. \A c \in Col : BInCol(c)' = BInCol(c)
  BY <1>4, <1>9 DEF BInCol
<1>11. \A r \in Row, c \in Col : BUsed(r, c)' = BUsed(r, c)
  BY <1>4, <1>10 DEF BUsed
<1>12. BInv'
  <2>1. (\A c \in Col : Segment(toB[c], BStream(c), BTaken(c)))'
    <3>1. \A c \in Col : Segment(toB'[c], BStream(c), BTaken(c)')
      BY <1>1, <1>6, <1>7, <1>9 DEF BInv
    <3> QED  BY <1>4, <3>1, StaticDesign, StaticStreams DEF Segment
  <2>2. (\A c \in Col : Segment(l2B[c], ColStream(c), BInCol(c)))'
    <3>1. \A c \in Col : Segment(l2B'[c], ColStream(c), BInCol(c)')
      BY <1>1, <1>4, <1>10 DEF BInv
    <3> QED  BY <3>1, StaticDesign, StaticStreams DEF Segment
  <2>3. (\A r \in Row, c \in Col : Segment(l1B[r][c], ColStream(c), BUsed(r, c)))'
    <3>1. \A r \in Row, c \in Col : Segment(l1B'[r][c], ColStream(c), BUsed(r, c)')
      BY <1>1, <1>4, <1>11 DEF BInv
    <3> QED  BY <3>1, StaticDesign, StaticStreams DEF Segment
  <2>4. (toB \in [Col -> Seq(BObjects)])'
    <3>1. BObjects' = BObjects
      BY StaticDesign DEF BObjects
    <3> QED  BY <1>7, <3>1, StaticDesign
  <2>5. (/\ l2B \in [Col -> Seq(BTile)] /\ l1B \in [Row -> [Col -> Seq(BTile)]]
         /\ \A c \in Col : Len(l2B[c]) <= Depth /\ \A r \in Row : Len(l1B[r][c]) <= Depth)'
    BY <1>1, <1>4, StaticDesign DEF BInv
  <2> QED  BY <2>1, <2>2, <2>3, <2>4, <2>5 DEF BInv
<1> QED  BY <1>11, <1>12

(* The drains of C continue its columns.                                   *)
LEMMA OrderC ==
  ASSUME GemmInv, Order, UNCHANGED design
  PROVE  /\ CInv'
         /\ \A c \in Col : CWritten(c)' = CWritten(c)
         /\ \A r \in Row, c \in Col : CReleased(r, c)' = CReleased(r, c)
<1>1. design \in Designs /\ CInv /\ HostInv
  BY DEF GemmInv
<1>2. PICK o : o = col
  OBVIOUS
<1>3. /\ o \in Col /\ step \in 0 .. Steps - 1 /\ step \in Nat /\ tg \in Nat
      /\ COrdered(o)' = COrdered(o) + StepRows * ColTiles
      /\ COrdered(o) = step * (StepRows * ColTiles)
      /\ \A c \in Col : c # o => COrdered(c)' = COrdered(c)
  BY <1>2, OrderedMore
<1> DEFINE more == CTap(CIndex(step, o))
<1>4. /\ fromC' = [fromC EXCEPT ![o] = @ \o more]
      /\ UNCHANGED <<l2C, l1C, tg>>
  BY <1>2 DEF Order
<1>5. PICK m \in Nat : m = StepRows * ColTiles
  <2>1. PICK h \in Nat, t \in Nat : h = StepRows /\ t = ColTiles
    BY <1>1, DesignFacts
  <2>2. h * t \in Nat
    OBVIOUS
  <2> QED  BY <2>1, <2>2
<1>6. /\ fromC[o] \o more \in Seq(CObjects)
      /\ Len(fromC[o] \o more) = Len(fromC[o]) + m
      /\ Segment(fromC[o] \o more, CStream(o), CWritten(o))
  <2>1. more = [x \in 1..m |-> CObject(o, step * m + (x - 1))]
    BY <1>1, <1>3, <1>5, CTapInOrder
  <2> HIDE DEF more
  <2>2. /\ fromC[o] \in Seq(CObjects) /\ Len(fromC[o]) \in Nat /\ CWritten(o) \in Nat
        /\ Segment(fromC[o], CStream(o), CWritten(o))
    BY <1>1, <1>3, FifoTypes DEF CInv
  <2>3. CWritten(o) + Len(fromC[o]) = step * m
    <3>1. COrdered(o) \in Nat
      BY <1>1, <1>3, OrderedNat
    <3>2. CWritten(o) + Len(fromC[o]) = COrdered(o)
      BY <2>2, <3>1 DEF CWritten
    <3> QED  BY <1>3, <1>5, <3>2
  <2>4. ASSUME NEW x \in 1..m
        PROVE  more[x] \in CObjects /\ more[x] = CStream(o)[step * m + (x - 1)]
    <3>1. PICK j : j = step * m + (x - 1) /\ j \in 0 .. BlockRows * ColTiles - 1
      <4>1. ColTiles \in Nat \ {0}
        BY <1>1, DesignFacts
      <4> QED  BY <1>1, <1>3, <1>5, <4>1, NumberOfStep
    <3>2. CObject(o, j) \in CObjects /\ j \in Nat
      BY <1>1, <1>3, <3>1, ObjectTypes
    <3>3. CStream(o)[j] = CObject(o, j)
      BY <3>2 DEF CStream
    <3> QED  BY <2>1, <3>1, <3>2, <3>3
  <2>5. more \in Seq(CObjects) /\ Len(more) = m
    <3>1. more \in [1..m -> CObjects]
      BY <2>1, <2>4
    <3> QED  BY <3>1
  <2>6. \A x \in 1..Len(more) : more[x] = CStream(o)[CWritten(o) + Len(fromC[o]) + (x - 1)]
    BY <2>3, <2>4, <2>5
  <2>7. /\ fromC[o] \o more \in Seq(CObjects)
        /\ Len(fromC[o] \o more) = Len(fromC[o]) + Len(more)
        /\ Segment(fromC[o] \o more, CStream(o), CWritten(o))
    <3>1. PICK fifo \in Seq(CObjects), tap \in Seq(CObjects), w \in Nat :
            fifo = fromC[o] /\ tap = more /\ w = CWritten(o)
      BY <2>2, <2>5
    <3>2. Segment(fifo, CStream(o), w)
      BY <2>2, <3>1
    <3>3. \A x \in 1..Len(tap) : tap[x] = CStream(o)[w + Len(fifo) + (x - 1)]
      BY <2>6, <3>1
    <3>4. /\ fifo \o tap \in Seq(CObjects) /\ Len(fifo \o tap) = Len(fifo) + Len(tap)
          /\ Segment(fifo \o tap, CStream(o), w)
      BY ONLY <3>2, <3>3, SegmentConcat
    <3> QED  BY <3>1, <3>4
  <2> QED  BY <2>5, <2>7
<1> HIDE DEF more
<1>7. /\ fromC' \in [Col -> Seq(CObjects)]
      /\ \A c \in Col : c # o => fromC'[c] = fromC[c]
      /\ fromC'[o] = fromC[o] \o more
  <2>1. fromC \in [Col -> Seq(CObjects)]
    BY <1>1 DEF CInv
  <2> QED  BY <1>3, <1>4, <1>6, <2>1
<1>8. CWritten(o)' = CWritten(o)
  <2>1. COrdered(o) \in Nat /\ Len(fromC[o]) \in Nat
    BY <1>1, <1>3, OrderedNat, FifoTypes
  <2>2. CWritten(o)' = (COrdered(o) + m) - (Len(fromC[o]) + m)
    BY <1>3, <1>5, <1>6, <1>7 DEF CWritten
  <2> QED  BY <1>5, <2>1, <2>2 DEF CWritten
<1>9. \A c \in Col : CWritten(c)' = CWritten(c)
  BY <1>3, <1>7, <1>8 DEF CWritten
<1>10. \A r \in Row, c \in Col : CJoined(r, c)' = CJoined(r, c)
  BY <1>4, <1>9 DEF CJoined
<1>11. \A r \in Row, c \in Col : CReleased(r, c)' = CReleased(r, c)
  BY <1>4, <1>10 DEF CReleased
<1>12. CInv'
  <2>1. (\A c \in Col : CWritten(c) \in Nat /\ Segment(fromC[c], CStream(c), CWritten(c)))'
    <3>1. \A c \in Col : CWritten(c)' \in Nat /\ Segment(fromC'[c], CStream(c), CWritten(c)')
      BY <1>1, <1>6, <1>7, <1>9 DEF CInv
    <3> QED  BY <1>4, <3>1, StaticDesign, StaticStreams DEF Segment
  <2>2. (\A r \in Row, c \in Col : Segment(l2C[r][c], SumStream(r, c), CWritten(c)))'
    <3>1. \A r \in Row, c \in Col : Segment(l2C'[r][c], SumStream(r, c), CWritten(c)')
      BY <1>1, <1>4, <1>9 DEF CInv
    <3> QED  BY <3>1, StaticDesign, StaticStreams DEF Segment
  <2>3. (\A r \in Row, c \in Col : Segment(l1C[r][c], SumStream(r, c), CJoined(r, c)))'
    <3>1. \A r \in Row, c \in Col : Segment(l1C'[r][c], SumStream(r, c), CJoined(r, c)')
      BY <1>1, <1>4, <1>10 DEF CInv
    <3> QED  BY <3>1, StaticDesign, StaticStreams DEF Segment
  <2>4. (fromC \in [Col -> Seq(CObjects)])'
    <3>1. CObjects' = CObjects
      BY StaticDesign DEF CObjects
    <3> QED  BY <1>7, <3>1, StaticDesign
  <2>5. (/\ l2C \in [Row -> [Col -> Seq(SUBSET Product)]]
         /\ l1C \in [Row -> [Col -> Seq(SUBSET Product)]]
         /\ \A r \in Row, c \in Col : Len(l2C[r][c]) <= Depth /\ Len(l1C[r][c]) <= Depth)'
    BY <1>1, <1>4, StaticDesign DEF CInv
  <2> QED  BY <2>1, <2>2, <2>3, <2>4, <2>5 DEF CInv
<1> QED  BY <1>9, <1>11, <1>12

(* What has been written does not change, neither does the result.         *)
LEMMA ResultFrame ==
  ASSUME ResultInv, UNCHANGED <<design, result>>, design \in Designs,
         \A c \in Col : CWritten(c)' = CWritten(c)
  PROVE  ResultInv'
<1>1. ASSUME NEW m \in MTile, NEW n \in NTile
      PROVE  n % Cols \in Col /\ CWritten(n % Cols)' = CWritten(n % Cols)
  <2>1. n % Cols \in Col /\ Cols' = Cols
    BY DesignFacts, StaticDesign DEF NTile, Col
  <2> QED  BY <2>1
<1>2. \A p \in MTile \X NTile : CWritten(p[2] % Cols)' = CWritten(p[2] % Cols)
  BY <1>1
<1> QED  BY <1>2, StaticDesign, StaticStreams DEF ResultInv

(* What the host orders for a column disturbs nothing that is on its way.  *)
LEMMA OrderStep ==
  ASSUME GemmInv, Order, UNCHANGED design
  PROVE  GemmInv'
<1>1. design \in Designs /\ HostInv /\ ResultInv
  BY DEF GemmInv
<1>2. /\ step < Steps /\ col < Cols /\ col' = col + 1
      /\ UNCHANGED <<core, l1C, result, runs, step, tg>>
  BY DEF Order
<1>3. AInv' /\ \A r \in Row, c \in Col : AUsed(r, c)' = AUsed(r, c)
  BY OrderA
<1>4. BInv' /\ \A r \in Row, c \in Col : BUsed(r, c)' = BUsed(r, c)
  BY OrderB
<1>5. /\ CInv' /\ \A c \in Col : CWritten(c)' = CWritten(c)
      /\ \A r \in Row, c \in Col : CReleased(r, c)' = CReleased(r, c)
  BY OrderC
<1>6. ResultInv'
  BY <1>1, <1>2, <1>5, ResultFrame
<1>7. HostInv'
  <2>1. /\ runs \in 0..MaxRuns /\ step \in 0..Steps /\ col \in 0..Cols /\ tg \in Nat
        /\ runs = 0 => step = Steps /\ col = 0
        /\ Steps \in Nat /\ Cols \in Nat
    BY <1>1, DesignFacts, StepFacts DEF HostInv
  <2>2. runs # 0 /\ step # Steps /\ col + 1 \in 0..Cols
    BY <1>2, <2>1
  <2>3. runs > 0 /\ (step >= 2 \/ step = Steps) =>
          \A c \in Col : CWritten(c) >= step * (StepRows * ColTiles)
    BY <1>1 DEF HostInv
  <2>4. (runs > 0 /\ (step >= 2 \/ step = Steps) =>
          \A c \in Col : CWritten(c) >= step * (StepRows * ColTiles))'
    BY <1>2, <1>5, <2>3, StaticDesign
  <2> QED  BY <1>2, <2>1, <2>2, <2>4, StaticDesign DEF HostInv
<1>8. (/\ core \in [Row -> [Col -> Worker]]
       /\ \A r \in Row, c \in Col : CoreInv(r, c))'
  BY <1>2, <1>3, <1>4, <1>5, CoresFrame
<1> QED  BY <1>1, <1>3, <1>4, <1>5, <1>6, <1>7, <1>8 DEF GemmInv

(* All that is still to be written is of the present task group, so that   *)
(* a group that is done leaves the array empty.                            *)
LEMMA GroupDrained ==
  ASSUME GemmInv, GroupDone, NEW b, \A c \in Col : Begun(c) = b
  PROVE  Drained
<1>1. ASSUME NEW c \in Col PROVE fromC[c] = <<>>
  <2>1. /\ fromC[c] \in Seq(CObjects) /\ Len(fromC[c]) \in Nat /\ CWritten(c) \in Nat
        /\ Segment(fromC[c], CStream(c), CWritten(c))
    BY FifoTypes DEF GemmInv, CInv
  <2>2. SUFFICES ASSUME Len(fromC[c]) # 0 PROVE FALSE
    BY <2>1
  <2>3. 1 \in 1..Len(fromC[c]) /\ 1 \in DOMAIN fromC[c]
    BY <2>1, <2>2
  <2>4. fromC[c][1] = CStream(c)[CWritten(c) + 1 - 1]
    BY <2>1, <2>3 DEF Segment
  <2>5. PICK j \in Nat : j = CWritten(c) + 1 - 1
    BY <2>1
  <2>6. fromC[c][1].tg = tg
    BY <2>4, <2>5 DEF CStream, CObject
  <2> QED  BY <2>3, <2>6 DEF GroupDone
<1> QED  BY <1>1, DrainedWhenWritten

(* The host goes on to the next step: to a new task group when the last    *)
(* one is done, and then nothing of the last one is left.                  *)
LEMMA EndStepStep ==
  ASSUME GemmInv, EndStep, UNCHANGED design
  PROVE  GemmInv'
<1>1. design \in Designs /\ HostInv /\ AInv /\ BInv /\ CInv /\ ResultInv
  BY DEF GemmInv
<1>2. /\ step < Steps /\ col = Cols
      /\ FinishesGroup => GroupDone
      /\ tg' = IF FinishesGroup THEN tg + 1 ELSE tg
      /\ step' = step + 1 /\ col' = 0
      /\ UNCHANGED <<toA, toB, fromC, l2A, l1A, l2B, l1B, l1C, l2C, core, result, runs>>
  BY DEF EndStep, fifoVars
<1>3. /\ Steps \in Nat \ {0} /\ Cols \in Nat \ {0} /\ MaxRuns \in Nat
      /\ \A c \in Col : c \in Nat /\ c < Cols
  BY <1>1, DesignFacts, StepFacts DEF Col
<1>4. /\ runs \in 0..MaxRuns /\ step \in 0..Steps /\ tg \in Nat /\ runs # 0
  BY <1>1, <1>2, <1>3 DEF HostInv
<1>5. step \in 0 .. Steps - 1 /\ step \in Nat
  BY <1>2, <1>3, <1>4
<1>6. \A c \in Col : Begun(c) = step + 1
  BY <1>2, <1>3, <1>4 DEF Begun
<1>7. \A c \in Col : Begun(c)' = step + 1
  <2>1. \A c \in Col : ~(c < 0)
    BY <1>3
  <2> QED  BY <1>2, <1>4, <2>1 DEF Begun
<1>8. \A c \in Col : AOrdered(c)' = AOrdered(c) /\ BOrdered(c)' = BOrdered(c)
                     /\ COrdered(c)' = COrdered(c)
  BY <1>6, <1>7, StaticDesign DEF AOrdered, BOrdered, COrdered
<1>9. FinishesGroup => Drained
  BY <1>2, <1>6, GroupDrained
<1>10. \A i \in Shim : i \in Col
  BY <1>1, ShimFacts
<1>11. \A r \in Row : ShimOf(r) \in Shim
  BY <1>1, RowFacts
<1>12. /\ \A i \in Shim : ATaken(i)' = ATaken(i)
       /\ \A c \in Col : BTaken(c)' = BTaken(c) /\ CWritten(c)' = CWritten(c)
  BY <1>2, <1>8, <1>10 DEF ATaken, BTaken, CWritten
<1>13. /\ \A r \in Row : AInRow(r)' = AInRow(r)
       /\ \A c \in Col : BInCol(c)' = BInCol(c)
       /\ \A r \in Row, c \in Col : CJoined(r, c)' = CJoined(r, c)
  BY <1>2, <1>11, <1>12, StaticStreams DEF AInRow, BInCol, CJoined
<1>14. \A r \in Row, c \in Col : /\ AUsed(r, c)' = AUsed(r, c) /\ BUsed(r, c)' = BUsed(r, c)
                                 /\ CReleased(r, c)' = CReleased(r, c)
  BY <1>2, <1>13 DEF AUsed, BUsed, CReleased
<1>15. AInv'
  <2>1. (/\ toA \in [Shim -> Seq(AObjects)]
         /\ l2A \in [Row -> Seq(ATile)] /\ l1A \in [Row -> [Col -> Seq(ATile)]]
         /\ \A r \in Row : Len(l2A[r]) <= Depth /\ \A c \in Col : Len(l1A[r][c]) <= Depth)'
    <3>1. AObjects' = AObjects
      BY StaticDesign DEF AObjects
    <3> QED  BY <1>1, <1>2, <3>1, StaticDesign DEF AInv
  <2>2. (\A i \in Shim : Segment(toA[i], AStream(i), ATaken(i)))'
    <3>1. CASE FinishesGroup
      <4>1. \A i \in Shim : toA'[i] = <<>>
        BY <1>2, <1>9, <3>1 DEF Drained
      <4> QED  BY <4>1, StaticDesign DEF Segment
    <3>2. CASE ~FinishesGroup
      <4>1. \A i \in Shim : Segment(toA'[i], AStream(i), ATaken(i)')
        BY <1>1, <1>2, <1>12 DEF AInv
      <4> QED  BY <1>2, <3>2, <4>1, StaticDesign, StaticStreams DEF Segment
    <3> QED  BY <3>1, <3>2
  <2>3. (\A r \in Row : Segment(l2A[r], RowStream(r), AInRow(r)))'
    <3>1. \A r \in Row : Segment(l2A'[r], RowStream(r), AInRow(r)')
      BY <1>1, <1>2, <1>13 DEF AInv
    <3> QED  BY <3>1, StaticDesign, StaticStreams DEF Segment
  <2>4. (\A r \in Row, c \in Col : Segment(l1A[r][c], RowStream(r), AUsed(r, c)))'
    <3>1. \A r \in Row, c \in Col : Segment(l1A'[r][c], RowStream(r), AUsed(r, c)')
      BY <1>1, <1>2, <1>14 DEF AInv
    <3> QED  BY <3>1, StaticDesign, StaticStreams DEF Segment
  <2> QED  BY <2>1, <2>2, <2>3, <2>4 DEF AInv
<1>16. BInv'
  <2>1. (/\ toB \in [Col -> Seq(BObjects)]
         /\ l2B \in [Col -> Seq(BTile)] /\ l1B \in [Row -> [Col -> Seq(BTile)]]
         /\ \A c \in Col : Len(l2B[c]) <= Depth /\ \A r \in Row : Len(l1B[r][c]) <= Depth)'
    <3>1. BObjects' = BObjects
      BY StaticDesign DEF BObjects
    <3> QED  BY <1>1, <1>2, <3>1, StaticDesign DEF BInv
  <2>2. (\A c \in Col : Segment(toB[c], BStream(c), BTaken(c)))'
    <3>1. CASE FinishesGroup
      <4>1. \A c \in Col : toB'[c] = <<>>
        BY <1>2, <1>9, <3>1 DEF Drained
      <4> QED  BY <4>1, StaticDesign DEF Segment
    <3>2. CASE ~FinishesGroup
      <4>1. \A c \in Col : Segment(toB'[c], BStream(c), BTaken(c)')
        BY <1>1, <1>2, <1>12 DEF BInv
      <4> QED  BY <1>2, <3>2, <4>1, StaticDesign, StaticStreams DEF Segment
    <3> QED  BY <3>1, <3>2
  <2>3. (\A c \in Col : Segment(l2B[c], ColStream(c), BInCol(c)))'
    <3>1. \A c \in Col : Segment(l2B'[c], ColStream(c), BInCol(c)')
      BY <1>1, <1>2, <1>13 DEF BInv
    <3> QED  BY <3>1, StaticDesign, StaticStreams DEF Segment
  <2>4. (\A r \in Row, c \in Col : Segment(l1B[r][c], ColStream(c), BUsed(r, c)))'
    <3>1. \A r \in Row, c \in Col : Segment(l1B'[r][c], ColStream(c), BUsed(r, c)')
      BY <1>1, <1>2, <1>14 DEF BInv
    <3> QED  BY <3>1, StaticDesign, StaticStreams DEF Segment
  <2> QED  BY <2>1, <2>2, <2>3, <2>4 DEF BInv
<1>17. CInv'
  <2>1. (/\ fromC \in [Col -> Seq(CObjects)]
         /\ l2C \in [Row -> [Col -> Seq(SUBSET Product)]]
         /\ l1C \in [Row -> [Col -> Seq(SUBSET Product)]]
         /\ \A r \in Row, c \in Col : Len(l2C[r][c]) <= Depth /\ Len(l1C[r][c]) <= Depth)'
    <3>1. CObjects' = CObjects
      BY StaticDesign DEF CObjects
    <3> QED  BY <1>1, <1>2, <3>1, StaticDesign DEF CInv
  <2>2. (\A c \in Col : CWritten(c) \in Nat /\ Segment(fromC[c], CStream(c), CWritten(c)))'
    <3>1. \A c \in Col : CWritten(c)' \in Nat
      BY <1>1, <1>12 DEF CInv
    <3>2. CASE FinishesGroup
      <4>1. \A c \in Col : fromC'[c] = <<>>
        BY <1>2, <1>9, <3>2 DEF Drained
      <4> QED  BY <3>1, <4>1, StaticDesign DEF Segment
    <3>3. CASE ~FinishesGroup
      <4>1. \A c \in Col : Segment(fromC'[c], CStream(c), CWritten(c)')
        BY <1>1, <1>2, <1>12 DEF CInv
      <4> QED  BY <1>2, <3>1, <3>3, <4>1, StaticDesign, StaticStreams DEF Segment
    <3> QED  BY <3>2, <3>3
  <2>3. (\A r \in Row, c \in Col : Segment(l2C[r][c], SumStream(r, c), CWritten(c)))'
    <3>1. \A r \in Row, c \in Col : Segment(l2C'[r][c], SumStream(r, c), CWritten(c)')
      BY <1>1, <1>2, <1>12 DEF CInv
    <3> QED  BY <3>1, StaticDesign, StaticStreams DEF Segment
  <2>4. (\A r \in Row, c \in Col : Segment(l1C[r][c], SumStream(r, c), CJoined(r, c)))'
    <3>1. \A r \in Row, c \in Col : Segment(l1C'[r][c], SumStream(r, c), CJoined(r, c)')
      BY <1>1, <1>2, <1>13 DEF CInv
    <3> QED  BY <3>1, StaticDesign, StaticStreams DEF Segment
  <2> QED  BY <2>1, <2>2, <2>3, <2>4 DEF CInv
<1>18. ResultInv'
  BY <1>1, <1>2, <1>12, ResultFrame
<1>19. HostInv'
  <2>1. FinishesGroup <=> step > 0 \/ step = Steps - 1
    BY DEF FinishesGroup
  <2>2. step + 1 >= 2 \/ step + 1 = Steps => FinishesGroup
    BY <1>3, <1>5, <2>1
  <2>3. ASSUME FinishesGroup, NEW c \in Col
        PROVE  CWritten(c)' >= (step + 1) * (StepRows * ColTiles)
    <3>1. fromC[c] = <<>> /\ Len(<<>>) = 0
      BY <1>9, <2>3 DEF Drained
    <3>2. COrdered(c) = (step + 1) * (StepRows * ColTiles) /\ COrdered(c) \in Nat
      BY <1>1, <1>6, OrderedNat DEF COrdered
    <3>3. CWritten(c) = COrdered(c)
      BY <3>1, <3>2 DEF CWritten
    <3> QED  BY <1>12, <3>2, <3>3
  <2>4. (runs > 0 /\ (step >= 2 \/ step = Steps) =>
          \A c \in Col : CWritten(c) >= step * (StepRows * ColTiles))'
    BY <1>2, <2>2, <2>3, StaticDesign
  <2>5. /\ runs' \in 0..MaxRuns /\ step + 1 \in 0..Steps /\ 0 \in 0..Cols
        /\ tg' \in Nat /\ runs' # 0
    <3>1. tg + 1 \in Nat
      BY <1>4
    <3>2. tg' \in Nat
      BY <1>2, <1>4, <3>1
    <3> QED  BY <1>2, <1>3, <1>4, <1>5, <3>2
  <2>6. (runs \in 0..MaxRuns /\ step \in 0..Steps /\ col \in 0..Cols /\ tg \in Nat /\ runs # 0
         /\ col = 0)'
    BY <1>2, <2>5, StaticDesign
  <2> QED  BY <2>4, <2>6 DEF HostInv
<1>20. (/\ core \in [Row -> [Col -> Worker]]
        /\ \A r \in Row, c \in Col : CoreInv(r, c))'
  BY <1>2, <1>14, CoresFrame
<1> QED  BY <1>1, <1>2, <1>15, <1>16, <1>17, <1>18, <1>19, <1>20 DEF GemmInv

(* Before the first run nothing has been ordered.                          *)
LEMMA GemmInit == Init => GemmInv
<1> SUFFICES ASSUME Init PROVE GemmInv
  OBVIOUS
<1>1. /\ design \in Designs /\ runs = 0 /\ step = Steps /\ col = 0 /\ tg = 0
      /\ toA = [i \in Shim |-> <<>>]
      /\ toB = [c \in Col |-> <<>>] /\ l2B = [c \in Col |-> <<>>]
      /\ fromC = [c \in Col |-> <<>>]
      /\ l2A = [r \in Row |-> <<>>]
      /\ l1A = [r \in Row |-> [c \in Col |-> <<>>]] /\ l1B = [r \in Row |-> [c \in Col |-> <<>>]]
      /\ l1C = [r \in Row |-> [c \in Col |-> <<>>]] /\ l2C = [r \in Row |-> [c \in Col |-> <<>>]]
      /\ core = [r \in Row |-> [c \in Col |-> Waiting]]
      /\ result = [p \in MTile \X NTile |-> {}]
  BY DEF Init, ArrayInit, Grid
<1>2. /\ Steps \in Nat \ {0} /\ MaxRuns \in Nat /\ Cols \in Nat \ {0} /\ KSteps \in Nat
      /\ Depth \in Nat /\ Rows \in Nat \ {0} /\ ColTiles \in Nat
  BY <1>1, DesignFacts, StepFacts
<1>3. \A T : <<>> \in Seq(T)
  OBVIOUS
<1>4. Len(<<>>) = 0
  OBVIOUS
<1>5. \A c : AOrdered(c) = 0 /\ BOrdered(c) = 0 /\ COrdered(c) = 0
  <2>1. PICK h \in Nat, t \in Nat, p \in Nat, q \in Nat :
          h = StepRows /\ t = ColTiles /\ p = PerBlock /\ q = BPerBlock
    BY <1>1, DesignFacts DEF BPerBlock
  <2>2. 0 * (h * t) = 0 /\ 0 * (h * p) = 0 /\ 0 * (h * q) = 0
    OBVIOUS
  <2>3. \A c : Begun(c) = 0
    BY <1>1 DEF Begun
  <2> QED  BY <2>1, <2>2, <2>3 DEF AOrdered, BOrdered, COrdered
<1>6. /\ \A i \in Shim : ATaken(i) = 0
      /\ \A c \in Col : BTaken(c) = 0 /\ CWritten(c) = 0
  BY <1>1, <1>4, <1>5 DEF ATaken, BTaken, CWritten
<1>7. /\ \A r \in Row : AInRow(r) = 0
      /\ \A c \in Col : BInCol(c) = 0
      /\ \A r \in Row, c \in Col : CJoined(r, c) = 0
  <2>1. \A r \in Row : ShimOf(r) \in Shim
    BY <1>1, RowFacts
  <2> QED  BY <1>1, <1>4, <1>6, <2>1 DEF AInRow, BInCol, CJoined
<1>8. \A r \in Row, c \in Col : AUsed(r, c) = 0 /\ BUsed(r, c) = 0 /\ CReleased(r, c) = 0
  BY <1>1, <1>4, <1>7 DEF AUsed, BUsed, CReleased
<1>9. AInv
  <2>1. toA \in [Shim -> Seq(AObjects)]
    BY <1>1, <1>3
  <2>2. l2A \in [Row -> Seq(ATile)] /\ l1A \in [Row -> [Col -> Seq(ATile)]]
    BY <1>1, <1>3
  <2>3. \A r \in Row : Len(l2A[r]) <= Depth /\ \A c \in Col : Len(l1A[r][c]) <= Depth
    BY <1>1, <1>2, <1>4
  <2>4. /\ \A i \in Shim : Segment(toA[i], AStream(i), ATaken(i))
        /\ \A r \in Row : Segment(l2A[r], RowStream(r), AInRow(r))
        /\ \A r \in Row, c \in Col : Segment(l1A[r][c], RowStream(r), AUsed(r, c))
    BY <1>1, SegmentEmpty
  <2> QED  BY <2>1, <2>2, <2>3, <2>4 DEF AInv
<1>10. BInv
  <2>1. toB \in [Col -> Seq(BObjects)]
    BY <1>1, <1>3
  <2>2. l2B \in [Col -> Seq(BTile)] /\ l1B \in [Row -> [Col -> Seq(BTile)]]
    BY <1>1, <1>3
  <2>3. \A c \in Col : Len(l2B[c]) <= Depth /\ \A r \in Row : Len(l1B[r][c]) <= Depth
    BY <1>1, <1>2, <1>4
  <2>4. /\ \A c \in Col : Segment(toB[c], BStream(c), BTaken(c))
        /\ \A c \in Col : Segment(l2B[c], ColStream(c), BInCol(c))
        /\ \A r \in Row, c \in Col : Segment(l1B[r][c], ColStream(c), BUsed(r, c))
    BY <1>1, SegmentEmpty
  <2> QED  BY <2>1, <2>2, <2>3, <2>4 DEF BInv
<1>11. CInv
  <2>1. fromC \in [Col -> Seq(CObjects)]
    BY <1>1, <1>3
  <2>2. /\ l2C \in [Row -> [Col -> Seq(SUBSET Product)]]
        /\ l1C \in [Row -> [Col -> Seq(SUBSET Product)]]
    BY <1>1, <1>3
  <2>3. \A r \in Row, c \in Col : Len(l2C[r][c]) <= Depth /\ Len(l1C[r][c]) <= Depth
    BY <1>1, <1>2, <1>4
  <2>4. /\ \A c \in Col : CWritten(c) \in Nat /\ Segment(fromC[c], CStream(c), CWritten(c))
        /\ \A r \in Row, c \in Col :
             /\ Segment(l2C[r][c], SumStream(r, c), CWritten(c))
             /\ Segment(l1C[r][c], SumStream(r, c), CJoined(r, c))
    BY <1>1, <1>6, SegmentEmpty
  <2> QED  BY <2>1, <2>2, <2>3, <2>4 DEF CInv
<1>12. HostInv
  BY <1>1, <1>2 DEF HostInv
<1>13. ResultInv
  <2>1. ASSUME NEW m \in MTile, NEW n \in NTile
        PROVE  ~(((m \div Rows) * ColTiles) + (n \div Cols) < CWritten(n % Cols))
    <3>1. m \in Nat /\ n \in Nat /\ n % Cols \in Col
      BY <1>2 DEF MTile, NTile, Col
    <3>2. CWritten(n % Cols) = 0
      BY <1>6, <3>1
    <3>3. PICK a \in Nat, t \in Nat, b \in Nat : a = m \div Rows /\ t = ColTiles /\ b = n \div Cols
      BY <1>2, <3>1, DivMod
    <3>4. (a * t) + b \in Nat
      OBVIOUS
    <3>5. ~((a * t) + b < CWritten(n % Cols))
      BY <3>2, <3>4
    <3> QED  BY <3>3, <3>5
  <2>2. \A p \in MTile \X NTile :
          /\ ~(((p[1] \div Rows) * ColTiles) + (p[2] \div Cols) < CWritten(p[2] % Cols))
          /\ result[p] = {}
    BY <1>1, <2>1
  <2>3. result \in [MTile \X NTile -> SUBSET Product]
    BY <1>1
  <2> QED  BY <2>2, <2>3 DEF ResultInv
<1>14. core \in [Row -> [Col -> Worker]]
  <2>1. Waiting \in Worker
    BY <1>2 DEF Waiting, Worker
  <2> QED  BY <1>1, <2>1
<1>15. ASSUME NEW r \in Row, NEW c \in Col PROVE CoreInv(r, c)
  <2>1. core[r][c] = [busy |-> FALSE, k |-> 0, acc |-> {}]
    BY <1>1 DEF Waiting
  <2>2. 0 = 0 * KSteps + 0
    BY <1>2
  <2> QED  BY <1>8, <2>1, <2>2 DEF CoreInv
<1> QED  BY <1>1, <1>9, <1>10, <1>11, <1>12, <1>13, <1>14, <1>15 DEF GemmInv

(* A step that changes nothing.                                            *)
LEMMA GemmStutter ==
  ASSUME GemmInv, UNCHANGED vars
  PROVE  GemmInv'
<1>1. AInv /\ BInv /\ CInv /\ HostInv /\ ResultInv
  BY DEF GemmInv
<1>2. UNCHANGED <<design, hostVars, toA, toB, fromC, l2A, l1A, l2B, l1B, core, l1C, l2C, result>>
  BY DEF vars, hostVars
<1>3. AInv' /\ \A r, c : AUsed(r, c)' = AUsed(r, c)
  BY <1>1, <1>2, AFrame
<1>4. BInv' /\ \A r, c : BUsed(r, c)' = BUsed(r, c)
  BY <1>1, <1>2, BFrame
<1>5. CInv' /\ \A r, c : CReleased(r, c)' = CReleased(r, c)
  BY <1>1, <1>2, CFrame
<1>6. ResultInv' /\ HostInv'
  BY <1>1, <1>2, WrittenFrame
<1>7. (/\ core \in [Row -> [Col -> Worker]]
       /\ \A r \in Row, c \in Col : CoreInv(r, c))'
  BY <1>2, <1>3, <1>4, <1>5, CoresFrame
<1> QED  BY <1>2, <1>3, <1>4, <1>5, <1>6, <1>7, ArrayStepInv

(* The invariant is inductive.                                             *)
LEMMA GemmNext == GemmInv /\ [Next]_vars => GemmInv'
<1> SUFFICES ASSUME GemmInv, [Next]_vars PROVE GemmInv'
  OBVIOUS
<1>1. CASE StartRun /\ UNCHANGED design
  BY <1>1, StartRunStep
<1>2. CASE Order /\ UNCHANGED design
  BY <1>2, OrderStep
<1>3. CASE EndStep /\ UNCHANGED design
  BY <1>3, EndStepStep
<1>4. CASE ArrayStep /\ UNCHANGED <<design, hostVars>>
  <2>1. ASSUME NEW i \in Shim, SendA(i) PROVE GemmInv'
    BY <1>4, <2>1, SendAStep
  <2>2. ASSUME NEW r \in Row, ForwardA(r) PROVE GemmInv'
    BY <1>4, <2>2, ForwardAStep
  <2>3. ASSUME NEW c \in Col, SendB(c) PROVE GemmInv'
    BY <1>4, <2>3, SendBStep
  <2>4. ASSUME NEW c \in Col, ForwardB(c) PROVE GemmInv'
    BY <1>4, <2>4, ForwardBStep
  <2>5. ASSUME NEW c \in Col, WriteC(c) PROVE GemmInv'
    BY <1>4, <2>5, WriteCStep
  <2>6. ASSUME NEW r \in Row, NEW c \in Col, ForwardC(r, c) PROVE GemmInv'
    BY <1>4, <2>6, ForwardCStep
  <2>7. ASSUME NEW r \in Row, NEW c \in Col, AcquireOut(r, c) PROVE GemmInv'
    BY <1>4, <2>7, AcquireOutStep
  <2>8. ASSUME NEW r \in Row, NEW c \in Col, MatMul(r, c) PROVE GemmInv'
    BY <1>4, <2>8, MatMulStep
  <2>9. ASSUME NEW r \in Row, NEW c \in Col, ReleaseOut(r, c) PROVE GemmInv'
    BY <1>4, <2>9, ReleaseOutStep
  <2> QED  BY <1>4, <2>1, <2>2, <2>3, <2>4, <2>5, <2>6, <2>7, <2>8, <2>9 DEF ArrayStep
<1>5. CASE UNCHANGED vars
  BY <1>5, GemmStutter
<1> QED  BY <1>1, <1>2, <1>3, <1>4, <1>5 DEF Next, Host

(* The invariant: what lies in a fifo is what is due there, in the order   *)
(* in which it was ordered.                                                *)
THEOREM ArrayInOrder == Spec => []GemmInv
  BY GemmInit, GemmNext, PTL DEF Spec

(* Each fifo holds tiles of its matrix, and never more than its buffers.   *)
THEOREM TypesCorrect == Spec => []TypeOK
  BY ArrayInOrder, GemmTypes, PTL

(* All tiles of C have been written when the runtime sequence returns.     *)
LEMMA ReturnedWritten ==
  ASSUME GemmInv, Returned, runs # 0, NEW m \in MTile, NEW n \in NTile
  PROVE  ((m \div Rows) * ColTiles) + (n \div Cols) < CWritten(n % Cols)
<1>1. design \in Designs /\ HostInv
  BY DEF GemmInv
<1>2. PICK w \in Nat \ {0}, b \in Nat \ {0}, t \in Nat \ {0}, y \in Nat \ {0}, h \in Nat \ {0},
           s \in Nat \ {0} :
        /\ w = Rows /\ b = BlockRows /\ t = ColTiles /\ y = Cols /\ h = StepRows /\ s = Steps
        /\ s * h = b
  BY <1>1, DesignFacts, StepFacts
<1>3. m \in 0 .. b * w - 1 /\ n \in 0 .. t * y - 1
  BY <1>2 DEF MTile, NTile
<1>4. PICK q \in Nat, x \in Nat : q = m \div w /\ x = n \div y /\ q < b /\ x < t
  <2>1. m \div w \in 0 .. b - 1 /\ n \div y \in 0 .. t - 1
    BY <1>3, DivRange
  <2>2. \A z \in Nat \ {0} : \A e \in 0 .. z - 1 : e \in Nat /\ e < z
    OBVIOUS
  <2> QED  BY <2>1, <2>2
<1>5. q * t + x \in 0 .. b * t - 1
  BY <1>4, ProductRange
<1>6. s * (h * t) = b * t
  BY <1>2
<1>7. n % y \in Col
  BY <1>2, <1>3 DEF Col
<1>8. CWritten(n % y) >= s * (h * t)
  <2>1. runs > 0 /\ step = s
    BY <1>1, <1>2, DesignFacts DEF HostInv, Returned
  <2> QED  BY <1>1, <1>2, <1>7, <2>1 DEF HostInv
<1>9. CWritten(n % y) \in Nat
  BY <1>7, CountersNat
<1>10. q * t + x < CWritten(n % y)
  BY <1>5, <1>6, <1>8, <1>9
<1> QED  BY <1>2, <1>4, <1>10

(* Where the pieces of a packed B are the tiles that are needed, what is   *)
(* added up for a tile of C are its products.                              *)
LEMMA MultipliedProducts ==
  ASSUME design \in Designs, PiecesFit, NEW m \in MTile, NEW n \in NTile
  PROVE  Multiplied(m, n) = Products(m, n)
<1>1. PICK t \in Nat \ {0}, w \in Nat \ {0} :
        t = ColTiles /\ w = Cols /\ n \in 0 .. t * w - 1 /\ n \in Nat
  BY DesignFacts DEF NTile
<1>2. PICK b \in Nat, x \in 0 .. w - 1 : b = n \div w /\ x = n % w /\ n = (b * w) + x
  BY <1>1, Quotient
<1>3. ASSUME NEW k \in KStep PROVE BPlace(n % Cols, n \div Cols, k) = [n |-> n, k |-> k]
  <2>1. CASE ~PrePack
    <3>1. x + w * b = n
      BY <1>2
    <3> QED  BY <1>1, <1>2, <2>1, <3>1 DEF BPlace
  <2>2. CASE PrePack
    <3>1. KSteps = 1 /\ (w = 1 \/ t = 1)
      BY <1>1, <2>2 DEF PiecesFit
    <3>2. x * t + b = n
      <4>1. CASE w = 1
        BY <1>2, <4>1
      <4>2. CASE t = 1
        <5>1. n \in 0 .. w - 1
          BY <1>1, <4>2
        <5>2. n \div w = 0 /\ n % w = n
          BY <5>1
        <5> QED  BY <1>2, <4>2, <5>2
      <4> QED  BY <3>1, <4>1, <4>2
    <3> QED  BY <1>1, <1>2, <2>2, <3>1, <3>2 DEF BPlace
  <2> QED  BY <2>1, <2>2
<1> DEFINE Made(k) == [a |-> [m |-> m, k |-> k], b |-> BPlace(n % Cols, n \div Cols, k)]
           Due(k)  == [a |-> [m |-> m, k |-> k], b |-> [n |-> n, k |-> k]]
<1>4. ASSUME NEW k \in KStep PROVE Made(k) = Due(k)
  BY <1>3
<1>5. Multiplied(m, n) = {Made(k) : k \in KStep}
  BY Zenon DEF Multiplied
<1>6. Products(m, n) = {Due(k) : k \in KStep}
  BY Zenon DEF Products
<1> HIDE DEF Made, Due
<1> QED  BY <1>4, <1>5, <1>6, Zenon

(* A tile of C in host memory is the sum of exactly its products, in each  *)
(* run of the kernel, and all are there when the sequence returns: for     *)
(* every B that is not packed, and for a packed one where its pieces are   *)
(* the tiles that are needed.                                              *)
THEOREM ResultsRight == Spec => []ResultRight
<1>1. GemmInv => ResultRight
  <2> SUFFICES ASSUME GemmInv, PiecesFit, NEW p \in MTile \X NTile
               PROVE  \/ result[p] = Products(p[1], p[2])
                      \/ result[p] = {} /\ (Returned => runs = 0)
    BY DEF ResultRight
  <2>1. PICK m \in MTile, n \in NTile : p[1] = m /\ p[2] = n
    OBVIOUS
  <2>2. result[p] = IF ((m \div Rows) * ColTiles) + (n \div Cols) < CWritten(n % Cols)
                    THEN Multiplied(m, n) ELSE {}
    BY <2>1 DEF GemmInv, ResultInv
  <2>3. Returned /\ runs # 0 => ((m \div Rows) * ColTiles) + (n \div Cols) < CWritten(n % Cols)
    BY ReturnedWritten
  <2>4. Multiplied(m, n) = Products(m, n)
    BY MultipliedProducts DEF GemmInv
  <2> QED  BY <2>1, <2>2, <2>3, <2>4
<1> QED  BY <1>1, ArrayInOrder, PTL

(* The group that is waited for through its drains alone has no transfer   *)
(* of A or B left: the descriptors that finish_task_group frees are unused.*)
THEOREM FreedDone == Spec => []FreedTransfersDone
<1>1. GemmInv => FreedTransfersDone
  <2> SUFFICES ASSUME GemmInv PROVE FreedTransfersDone
    OBVIOUS
  <2>1. tg \in Nat
    BY DEF GemmInv, HostInv
  <2>2. ASSUME NEW i \in Shim, NEW j \in DOMAIN toA[i] PROVE toA[i][j].tg = tg
    <3>1. /\ toA[i] \in Seq(AObjects) /\ ATaken(i) \in Nat
          /\ Segment(toA[i], AStream(i), ATaken(i))
      BY FifoTypes, CountersNat DEF GemmInv, AInv
    <3>2. j \in 1..Len(toA[i]) /\ j \in Nat /\ j >= 1
      BY <3>1
    <3>3. PICK x \in Nat : x = ATaken(i) + j - 1
      BY <3>1, <3>2
    <3>4. toA[i][j] = AObject(i, x)
      BY <3>1, <3>2, <3>3 DEF Segment, AStream
    <3> QED  BY <3>4 DEF AObject
  <2>3. ASSUME NEW c \in Col, NEW j \in DOMAIN toB[c] PROVE toB[c][j].tg = tg
    <3>1. /\ toB[c] \in Seq(BObjects) /\ BTaken(c) \in Nat
          /\ Segment(toB[c], BStream(c), BTaken(c))
      BY FifoTypes, CountersNat DEF GemmInv, BInv
    <3>2. j \in 1..Len(toB[c]) /\ j \in Nat /\ j >= 1
      BY <3>1
    <3>3. PICK x \in Nat : x = BTaken(c) + j - 1
      BY <3>1, <3>2
    <3>4. toB[c][j] = BObject(c, x)
      BY <3>1, <3>2, <3>3 DEF Segment, BStream
    <3> QED  BY <3>4 DEF BObject
  <2> QED  BY <2>1, <2>2, <2>3 DEF FreedTransfersDone
<1> QED  BY <1>1, ArrayInOrder, PTL

(* Never more than a ping and a pong are on their way in a column.         *)
THEOREM TwoInFlight == Spec => []PingPong
<1>1. GemmInv => PingPong
  <2> SUFFICES ASSUME GemmInv, NEW c \in Col PROVE Len(fromC[c]) <= 2 * StepRows * ColTiles
    BY DEF PingPong
  <2>1. design \in Designs /\ HostInv
    BY DEF GemmInv
  <2>2. PICK h \in Nat \ {0}, t \in Nat \ {0}, s \in Nat \ {0}, l \in Nat, w \in Nat, b \in Nat :
          /\ h = StepRows /\ t = ColTiles /\ s = Steps /\ l = Len(fromC[c]) /\ w = CWritten(c)
          /\ b = Begun(c)
    BY <2>1, DesignFacts, StepFacts, FifoTypes, CountersNat, OrderedNat
  <2>3. PICK x \in Nat : x = h * t
    OBVIOUS
  <2>4. b * x \in Nat /\ l = b * x - w
    <3>1. COrdered(c) = b * x
      BY <2>2, <2>3 DEF COrdered
    <3>2. b * x \in Nat
      OBVIOUS
    <3>3. PICK z \in Nat : z = b * x
      BY <3>2
    <3>4. w = z - l
      BY <2>2, <3>1, <3>3 DEF CWritten
    <3> QED  BY <3>3, <3>4
  <2>5. step \in 0..s /\ runs \in Nat
    BY <2>1, <2>2, DesignFacts DEF HostInv
  <2>6. b <= step + 1
    BY <2>2, <2>5 DEF Begun
  <2>7. CASE b <= 2
    <3>1. b = 0 \/ b = 1 \/ b = 2
      BY <2>7
    <3>2. b * x <= 2 * x
      BY <3>1
    <3> QED  BY <2>2, <2>3, <2>4, <3>2
  <2>8. CASE ~(b <= 2)
    <3>1. PICK z \in Nat : z = step /\ z >= 2 /\ runs > 0
      BY <2>2, <2>5, <2>6, <2>8 DEF Begun
    <3>2. w >= z * x
      BY <2>1, <2>2, <2>3, <3>1 DEF HostInv
    <3>3. b = z \/ b = z + 1
      BY <2>2, <3>1 DEF Begun
    <3>4. (z + 1) * x = z * x + x /\ z * x \in Nat
      OBVIOUS
    <3>5. b * x <= z * x + x
      BY <3>3, <3>4
    <3>6. l <= x
      BY <2>4, <3>2, <3>4, <3>5
    <3> QED  BY <2>2, <2>3, <3>6
  <2> QED  BY <2>7, <2>8
<1> QED  BY <1>1, ArrayInOrder, PTL

(* What a run leaves behind is what the next one needs: empty fifos, and no*)
(* core that has begun a tile of C.                                        *)
THEOREM LeavesArrayClean == Spec => []ArrayClean
<1>1. GemmInv => ArrayClean
  BY ReturnedDrained DEF ArrayClean, Drained
<1> QED  BY <1>1, ArrayInOrder, PTL
===============================================================================
