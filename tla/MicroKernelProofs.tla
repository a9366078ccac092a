---------------------------- MODULE MicroKernelProofs ----------------------------
(***************************************************************************)
(* For every tile in blocks, every number of calls, every layout of B and  *)
(* every kernel that a design may select: what the core loads, in which    *)
(* order it adds, and for which designs its tile of C is right.            *)
(*                                                                         *)
(* The argument: an address of the kernel, written in the digits of the    *)
(* four dimensions of a DMA engine, is a row of blocks and a place in it,  *)
(* so that the block a kernel loads for step s of K is <<row, s>> of A     *)
(* and, where it agrees with the layout, <<s, column>> of B; for the step  *)
(* after the last it is that of the next row or beyond the tile (AIs, BIs).*)
(* The products of a block of C are numbered, call after call and step     *)
(* after step as the loop makes them, and a sum is their first so many.    *)
(* An accumulator holds the sum of the calls before and of the steps added *)
(* so far, which the pipelined loop adds one step after it has loaded      *)
(* them; a block of C that a pass of this call has stored holds the sum up *)
(* to this call, the others that of the calls before.  The passes cover    *)
(* the tile once in each call (PassesInOrder), so that in the end every    *)
(* block holds the sum of all calls (none of this depends on the layout,   *)
(* nor on how many steps the loop makes).  That sum is the product that is *)
(* wanted if its steps are those of K and its blocks of B those of the     *)
(* column; otherwise the first block of C has too many products, or a      *)
(* wrong second one.  The digits of DimsC say where a block leaves from.   *)
(***************************************************************************)
EXTENDS MicroKernel, FiniteSetTheorems, TLAPS

(***************************************************************************)
(* Arithmetic.                                                             *)
(***************************************************************************)
(* Rows of d below one another.                                            *)
LEMMA ProductGrows ==
  ASSUME NEW a \in Nat, NEW b \in Nat, a < b, NEW d \in Nat
  PROVE  a * d + d <= b * d
<1>1. PICK e \in Nat : b = a + 1 + e
  <2>1. b - a - 1 \in Nat /\ b = a + 1 + (b - a - 1)
    OBVIOUS
  <2> QED  BY <2>1
<1>2. b * d = a * d + d + e * d
  BY <1>1
<1>3. e * d \in Nat /\ a * d \in Nat
  OBVIOUS
<1> QED  BY <1>2, <1>3

(* What the quotient and the remainder are.                                *)
LEMMA DivMod ==
  ASSUME NEW x \in Nat, NEW d \in Nat \ {0}
  PROVE  /\ x \div d \in Nat /\ x % d \in 0 .. d - 1
         /\ x = ((x \div d) * d) + (x % d)
  OBVIOUS

(* The quotient and the remainder of a number, by name.                    *)
LEMMA Quotient ==
  ASSUME NEW x \in Nat, NEW d \in Nat \ {0}
  PROVE  \E q \in Nat, r \in 0 .. d - 1 : q = x \div d /\ r = x % d /\ x = (q * d) + r
  BY DivMod

(* A quotient and a remainder are those of one number.                     *)
LEMMA DivModUnique ==
  ASSUME NEW d \in Nat \ {0}, NEW q \in Nat, NEW r \in 0 .. d - 1
  PROVE  (q * d + r) \div d = q /\ (q * d + r) % d = r
<1> DEFINE x == q * d + r
<1>1. x \in Nat
  OBVIOUS
<1>2. PICK p \in Nat, s \in 0 .. d - 1 : p = x \div d /\ s = x % d /\ x = p * d + s
  <2> HIDE DEF x
  <2> QED  BY <1>1, DivMod
<1>3. p = q
  <2>1. ~(p < q)
    <3> SUFFICES ASSUME p < q PROVE FALSE
      OBVIOUS
    <3>1. p * d + d <= q * d
      BY ProductGrows
    <3>2. p * d \in Nat /\ q * d \in Nat /\ p * d + s = q * d + r
      BY <1>2
    <3> QED  BY <3>1, <3>2
  <2>2. ~(q < p)
    <3> SUFFICES ASSUME q < p PROVE FALSE
      OBVIOUS
    <3>1. q * d + d <= p * d
      BY ProductGrows
    <3>2. p * d \in Nat /\ q * d \in Nat /\ p * d + s = q * d + r
      BY <1>2
    <3> QED  BY <3>1, <3>2
  <2> QED  BY <2>1, <2>2
<1>4. s = r
  <2>1. q * d \in Nat /\ q * d + s = q * d + r
    BY <1>2, <1>3
  <2> QED  BY <2>1
<1> QED  BY <1>2, <1>3, <1>4

(* A place in the last row of u rows of d is a place in the rows.          *)
LEMMA ProductRange ==
  ASSUME NEW a \in Nat, NEW u \in Nat, a < u, NEW d \in Nat \ {0}, NEW r \in 0 .. d - 1
  PROVE  a * d + r \in 0 .. u * d - 1
<1>1. a * d + d <= u * d
  BY ProductGrows
<1>2. a * d \in Nat /\ u * d \in Nat
  OBVIOUS
<1> QED  BY <1>1, <1>2

(* The row of a place is one of the rows.                                  *)
LEMMA DivRange ==
  ASSUME NEW u \in Nat, NEW d \in Nat \ {0}, NEW x \in 0 .. u * d - 1
  PROVE  x \div d \in 0 .. u - 1
<1>1. x \in Nat
  OBVIOUS
<1>2. PICK q \in Nat, s \in 0 .. d - 1 : q = x \div d /\ x = (q * d) + s
  BY <1>1, DivMod
<1>3. ~(u <= q)
  <2> SUFFICES ASSUME u <= q PROVE FALSE
    OBVIOUS
  <2>1. u * d <= q * d
    <3>1. CASE u = q
      BY <3>1
    <3>2. CASE u # q
      <4>1. u * d + d <= q * d
        BY <3>2, ProductGrows
      <4>2. u * d \in Nat /\ q * d \in Nat
        OBVIOUS
      <4> QED  BY <4>1, <4>2
    <3> QED  BY <3>1, <3>2
  <2>2. u * d \in Nat /\ q * d \in Nat
    OBVIOUS
  <2> QED  BY <1>2, <2>1, <2>2
<1> QED  BY <1>2, <1>3

(* e has the digits x1 to x4, of which the last three are below b, w and d.*)
Digits(e, b, w, d, x1, x2, x3, x4) ==
  /\ e \div (b * w * d) = x1
  /\ (e \div (w * d)) % b = x2
  /\ (e \div d) % w = x3
  /\ e % d = x4

(* A number made of four digits has these digits.                          *)
LEMMA FourDigits ==
  ASSUME NEW b \in Nat \ {0}, NEW w \in Nat \ {0}, NEW d \in Nat \ {0},
         NEW x1 \in Nat, NEW x2 \in 0 .. b - 1, NEW x3 \in 0 .. w - 1, NEW x4 \in 0 .. d - 1
  PROVE  Digits(((x1 * b + x2) * w + x3) * d + x4, b, w, d, x1, x2, x3, x4)
<1> DEFINE e == ((x1 * b + x2) * w + x3) * d + x4
<1>1. PICK h \in Nat, g \in Nat : h = x1 * b + x2 /\ g = h * w + x3
  OBVIOUS
<1>2. e = g * d + x4
  BY <1>1
<1>3. e \div d = g /\ e % d = x4
  BY <1>2, DivModUnique
<1>4. g % w = x3 /\ g \div w = h
  BY <1>1, DivModUnique
<1>5. h % b = x2 /\ h \div b = x1
  BY <1>1, DivModUnique
<1>6. e \div (w * d) = h
  <2>1. PICK v \in Nat \ {0}, y \in Nat : v = w * d /\ y = x3 * d + x4 /\ y \in 0 .. v - 1
    <3>1. x3 * d + x4 \in 0 .. w * d - 1
      BY ProductRange
    <3>2. w * d \in Nat \ {0}
      OBVIOUS
    <3> QED  BY <3>1, <3>2
  <2>2. e = h * v + y
    <3>1. (h * w + x3) * d = h * (w * d) + x3 * d
      OBVIOUS
    <3>2. PICK f1 \in Nat, f2 \in Nat : f1 = h * v /\ f2 = x3 * d
      OBVIOUS
    <3>3. g * d = f1 + f2
      BY <1>1, <2>1, <3>1, <3>2
    <3> QED  BY <1>2, <2>1, <3>2, <3>3
  <2>3. (h * v + y) \div v = h
    BY <2>1, DivModUnique
  <2> QED  BY <2>1, <2>2, <2>3
<1>7. e \div (b * w * d) = x1
  <2>1. x2 * w + x3 \in 0 .. b * w - 1
    BY ProductRange
  <2>2. PICK y2 \in Nat, v2 \in Nat \ {0} : y2 = x2 * w + x3 /\ v2 = b * w /\ y2 \in 0 .. v2 - 1
    <3>1. b * w \in Nat \ {0}
      OBVIOUS
    <3> QED  BY <2>1, <3>1
  <2>3. PICK v \in Nat \ {0}, y \in Nat : v = v2 * d /\ y = y2 * d + x4 /\ y \in 0 .. v - 1
    <3>1. y2 * d + x4 \in 0 .. v2 * d - 1
      BY <2>2, ProductRange
    <3>2. v2 * d \in Nat \ {0}
      OBVIOUS
    <3> QED  BY <3>1, <3>2
  <2>4. g = x1 * v2 + y2
    <3>1. (x1 * b + x2) * w = x1 * (b * w) + x2 * w
      OBVIOUS
    <3>2. PICK f1 \in Nat, f2 \in Nat : f1 = x1 * v2 /\ f2 = x2 * w
      OBVIOUS
    <3>3. h * w = f1 + f2
      BY <1>1, <2>2, <3>1, <3>2
    <3> QED  BY <1>1, <2>2, <3>2, <3>3
  <2>5. e = x1 * v + y
    <3>1. (x1 * v2 + y2) * d = x1 * (v2 * d) + y2 * d
      OBVIOUS
    <3>2. PICK f1 \in Nat, f2 \in Nat : f1 = x1 * v /\ f2 = y2 * d
      OBVIOUS
    <3>3. g * d = f1 + f2
      BY <2>3, <2>4, <3>1, <3>2
    <3> QED  BY <1>2, <2>3, <3>2, <3>3
  <2>6. (x1 * v + y) \div v = x1
    BY <2>3, DivModUnique
  <2> QED  BY <2>2, <2>3, <2>5, <2>6
<1> HIDE DEF e
<1>8. Digits(e, b, w, d, x1, x2, x3, x4)
  BY <1>3, <1>4, <1>6, <1>7, <1>5 DEF Digits
<1> QED  BY <1>8 DEF e

(* Where a DMA engine finds its elements.                                  *)
LEMMA OffsetOf ==
  ASSUME NEW dims, NEW e \in Int, NEW x1 \in Nat, NEW x2 \in Nat, NEW x3 \in Nat, NEW x4 \in Nat,
         x1 < dims[1][1], dims \in [1..4 -> Nat \X Nat],
         Digits(e, dims[2][1], dims[3][1], dims[4][1], x1, x2, x3, x4)
  PROVE  Offset(dims, e)
           = x1 * dims[1][2] + x2 * dims[2][2] + x3 * dims[3][2] + x4 * dims[4][2]
<1>1. x1 % dims[1][1] = x1 /\ e \div 1 = e
  <2>1. dims[1] \in Nat \X Nat
    OBVIOUS
  <2>2. dims[1][1] \in Nat
    BY <2>1
  <2> QED  BY <2>2
<1>2. Offset(dims, e)
       = ((e \div (dims[2][1] * dims[3][1] * dims[4][1])) % dims[1][1]) * dims[1][2]
           + ((e \div (dims[3][1] * dims[4][1])) % dims[2][1]) * dims[2][2]
           + ((e \div dims[4][1]) % dims[3][1]) * dims[3][2]
           + ((e \div 1) % dims[4][1]) * dims[4][2]
  BY DEF Offset
<1> QED  BY <1>1, <1>2 DEF Digits

(***************************************************************************)
(* The order in which the tiles arrive.                                    *)
(***************************************************************************)

(* The sizes of a tile, in blocks and in elements.                         *)
LEMMA ShapeFacts ==
  ASSUME shape \in Shapes
  PROVE  /\ shape.rowA \in Nat \ {0} /\ shape.colA \in Nat \ {0} /\ shape.colB \in Nat \ {0}
         /\ shape.calls \in Nat \ {0} /\ Edge \in Nat \ {0} /\ Area \in Nat \ {0}
         /\ m \div Edge = shape.rowA /\ k \div Edge = shape.colA /\ n \div Edge = shape.colB
<1>1. /\ shape.rowA \in Nat \ {0} /\ shape.colA \in Nat \ {0} /\ shape.colB \in Nat \ {0}
      /\ shape.calls \in Nat \ {0} /\ Edge \in Nat \ {0}
  BY KernelAssumption
<1>2. Area \in Nat \ {0}
  <2>1. PICK d \in Nat \ {0} : d = Edge
    BY <1>1
  <2>2. d * d \in Nat \ {0}
    OBVIOUS
  <2> QED  BY <2>1, <2>2 DEF Area
<1>3. ASSUME NEW x \in Nat PROVE (x * Edge) \div Edge = x
  <2>1. (x * Edge + 0) \div Edge = x
    BY <1>1, DivModUnique
  <2> QED  BY <1>1, <2>1
<1> QED  BY <1>1, <1>2, <1>3 DEF m, k, n

(* An element of the block p of a row of blocks.                           *)
LEMMA PlaceInBlock ==
  ASSUME shape \in Shapes, NEW p \in Nat, NEW e \in 0 .. Area - 1
  PROVE  /\ InX(e) \in 0 .. Edge - 1 /\ InY(e) \in 0 .. Edge - 1
         /\ InX(p * Area + e) = InX(e) /\ InY(p * Area + e) = InY(e)
         /\ (p * Area + e) \div Area = p
         /\ p * Area + e = (p * Edge + InX(e)) * Edge + InY(e)
         /\ e = InX(e) * Edge + InY(e)
<1>1. PICK d \in Nat \ {0} : d = Edge
  BY ShapeFacts
<1>2. PICK a \in Nat \ {0} : a = Area /\ a = d * d
  BY <1>1, ShapeFacts DEF Area
<1>3. e \in Nat /\ e \in 0 .. a - 1
  BY <1>2
<1>4. PICK x \in Nat, y \in 0 .. d - 1 : x = e \div d /\ y = e % d /\ e = (x * d) + y
  BY <1>3, Quotient
<1>5. x \in 0 .. d - 1
  BY <1>2, <1>3, <1>4, DivRange
<1>6. e % a = e /\ (p * a + e) % a = e /\ (p * a + e) \div a = p
  <2>1. (0 * a + e) % a = e
    BY <1>3, DivModUnique
  <2> QED  BY <1>3, <2>1, DivModUnique
<1>7. p * a + e = (p * d + x) * d + y
  <2>1. (p * d + x) * d = p * (d * d) + x * d
    OBVIOUS
  <2>2. PICK f1 \in Nat, f2 \in Nat : f1 = p * (d * d) /\ f2 = x * d
    OBVIOUS
  <2> QED  BY <1>2, <1>4, <2>1, <2>2
<1>8. (p * a + e) % d = y
  <2>1. PICK g \in Nat : g = p * d + x
    OBVIOUS
  <2>2. (g * d + y) % d = y
    BY DivModUnique
  <2> QED  BY <1>7, <2>1, <2>2
<1> QED  BY <1>1, <1>2, <1>4, <1>5, <1>6, <1>7, <1>8 DEF InX, InY

(* A block has arrived when its elements have, row after row.              *)
LEMMA BlockArrived ==
  ASSUME shape \in Shapes, NEW r1 \in Nat, NEW c1 \in Nat, NEW w \in Nat, c1 < w,
         NEW elements, DOMAIN elements = 0 .. Area - 1,
         \A e \in 0 .. Area - 1 :
           elements[e] = (r1 * Edge + InX(e)) * (w * Edge) + c1 * Edge + InY(e)
  PROVE  Arrived(elements, w * Edge) = <<r1, c1>>
<1>1. PICK d \in Nat \ {0} : d = Edge
  BY ShapeFacts
<1>2. PICK u \in Nat \ {0} : u = w * d
  <2>1. w * d \in Nat \ {0}
    OBVIOUS
  <2> QED  BY <2>1
<1>3. /\ 0 \in 0 .. Area - 1 /\ InX(0) = 0 /\ InY(0) = 0
  <2>1. 0 \in 0 .. Area - 1 /\ Area \in Nat \ {0}
    BY ShapeFacts
  <2>2. PICK a \in Nat \ {0} : a = Area
    BY <2>1
  <2>3. (0 * a + 0) % a = 0 /\ (0 * d + 0) \div d = 0 /\ (0 * d + 0) % d = 0
    BY DivModUnique
  <2>4. 0 * a + 0 = 0 /\ 0 * d + 0 = 0
    OBVIOUS
  <2> QED  BY <1>1, <2>1, <2>2, <2>3, <2>4 DEF InX, InY
<1>4. PICK f1 \in Nat, f2 \in Nat, f3 \in Nat : f1 = r1 * d /\ f2 = c1 * d /\ f3 = f1 * u
  OBVIOUS
<1>5. elements[0] = f3 + f2
  <2>1. elements[0] = (f1 + 0) * u + f2 + 0
    BY <1>1, <1>2, <1>3, <1>4
  <2> QED  BY <1>4, <2>1
<1>6. ASSUME NEW e \in 0 .. Area - 1
      PROVE  elements[e] = elements[0] + InX(e) * u + InY(e)
  <2>1. PICK x \in Nat, y \in Nat : x = InX(e) /\ y = InY(e)
    BY PlaceInBlock
  <2>2. elements[e] = (f1 + x) * u + f2 + y
    BY <1>1, <1>2, <1>4, <2>1
  <2>3. (f1 + x) * u = f3 + x * u
    BY <1>4
  <2>4. PICK g \in Nat : g = x * u
    OBVIOUS
  <2>5. elements[e] = (f3 + g) + f2 + y
    BY <2>2, <2>3, <2>4
  <2>6. elements[e] = elements[0] + g + y
    BY <1>4, <1>5, <2>5
  <2> QED  BY <2>1, <2>4, <2>6
<1>7. /\ (elements[0] \div u) \div Edge = r1 /\ (elements[0] % u) \div Edge = c1
  <2>1. f2 \in 0 .. u - 1
    <3>1. c1 * d + 0 \in 0 .. w * d - 1
      BY ProductRange
    <3> QED  BY <1>2, <1>4, <3>1
  <2>2. (f1 * u + f2) \div u = f1 /\ (f1 * u + f2) % u = f2
    BY <2>1, DivModUnique
  <2>3. (r1 * d + 0) \div d = r1 /\ (c1 * d + 0) \div d = c1
    BY DivModUnique
  <2> QED  BY <1>1, <1>4, <1>5, <2>2, <2>3
<1>8. w * Edge = u
  BY <1>1, <1>2
<1> HIDE DEF InX, InY
<1>9. \A e \in DOMAIN elements : elements[e] = elements[0] + InX(e) * (w * Edge) + InY(e)
  BY <1>6, <1>8
<1> QED  BY <1>7, <1>8, <1>9 DEF Arrived

(* The tiles of A and of B that come by columns, through the DMA engine:   *)
(* Edge rows at a time, block after block, of a matrix with u * v blocks.  *)
LEMMA BlocksOfRows ==
  ASSUME shape \in Shapes, NEW u \in Nat \ {0}, NEW v \in Nat \ {0},
         NEW p \in 0 .. u * v - 1, NEW e \in 0 .. Area - 1
  PROVE  Offset(<< <<u, Edge * (v * Edge)>>, <<v, Edge>>, <<Edge, v * Edge>>, <<Edge, 1>> >>,
                p * Area + e)
           = ((p \div v) * Edge + InX(e)) * (v * Edge) + (p % v) * Edge + InY(e)
<1>1. PICK d \in Nat \ {0} : d = Edge
  BY ShapeFacts
<1>2. p \in Nat
  <2>1. PICK w \in Nat : w = u * v
    OBVIOUS
  <2> QED  BY <2>1
<1>3. PICK x1 \in Nat, x2 \in 0 .. v - 1 : x1 = p \div v /\ x2 = p % v /\ p = (x1 * v) + x2
  BY <1>2, Quotient
<1>4. x1 \in 0 .. u - 1
  BY <1>3, DivRange
<1>5. PICK x3 \in 0 .. d - 1, x4 \in 0 .. d - 1 : x3 = InX(e) /\ x4 = InY(e)
  BY <1>1, <1>2, PlaceInBlock
<1>6. p * Area + e = ((x1 * v + x2) * d + x3) * d + x4
  <2>1. p * Area + e = (p * Edge + InX(e)) * Edge + InY(e)
    BY <1>2, PlaceInBlock
  <2> QED  BY <1>1, <1>3, <1>5, <2>1
<1>7. PICK w \in Nat, s \in Nat : w = v * d /\ s = d * w
  OBVIOUS
<1>8. PICK f \in Int : f = p * Area + e
  BY <1>2, ShapeFacts
<1>9. Offset(<< <<u, s>>, <<v, d>>, <<d, w>>, <<d, 1>> >>, f) = x1 * s + x2 * d + x3 * w + x4 * 1
  <2>1. Digits(f, v, d, d, x1, x2, x3, x4)
    <3>1. Digits(((x1 * v + x2) * d + x3) * d + x4, v, d, d, x1, x2, x3, x4)
      BY FourDigits
    <3> QED  BY <1>6, <1>8, <3>1
  <2>2. PICK dims : dims = << <<u, s>>, <<v, d>>, <<d, w>>, <<d, 1>> >>
    OBVIOUS
  <2>3. /\ dims[1][1] = u /\ dims[1][2] = s /\ dims[2][1] = v /\ dims[2][2] = d
        /\ dims[3][1] = d /\ dims[3][2] = w /\ dims[4][1] = d /\ dims[4][2] = 1
    BY <2>2
  <2>4. /\ Digits(f, dims[2][1], dims[3][1], dims[4][1], x1, x2, x3, x4)
        /\ x1 < dims[1][1] /\ x2 \in Nat /\ x3 \in Nat /\ x4 \in Nat
    BY <1>4, <2>1, <2>3
  <2>5. dims \in [1..4 -> Nat \X Nat]
    BY <2>2
  <2>6. Offset(dims, f)
           = x1 * dims[1][2] + x2 * dims[2][2] + x3 * dims[3][2] + x4 * dims[4][2]
    BY ONLY <2>4, <2>5, OffsetOf
  <2> QED  BY <2>2, <2>3, <2>6
<1>10. x1 * s + x2 * d + x3 * w + x4 * 1 = (x1 * d + x3) * w + x2 * d + x4
  <2>1. (x1 * d + x3) * w = x1 * (d * w) + x3 * w
    OBVIOUS
  <2>2. PICK f1 \in Nat, f2 \in Nat, f3 \in Nat : f1 = x1 * s /\ f2 = x3 * w /\ f3 = x2 * d
    OBVIOUS
  <2> QED  BY <1>7, <2>1, <2>2
<1> HIDE DEF InX, InY
<1> QED  BY <1>1, <1>3, <1>5, <1>7, <1>8, <1>9, <1>10

(* The block of A at an address, in either order of its arrival: a row of  *)
(* blocks after another.                                                   *)
LEMMA ABlockIs ==
  ASSUME shape \in Shapes, NEW p \in 0 .. shape.rowA * shape.colA - 1
  PROVE  ABlock(p) = <<p \div shape.colA, p % shape.colA>>
<1>1. PICK u \in Nat \ {0}, v \in Nat \ {0} : u = shape.rowA /\ v = shape.colA
  BY ShapeFacts
<1>2. p \in Nat /\ ~(p >= u * v)
  <2>1. PICK w \in Nat : w = u * v
    OBVIOUS
  <2> QED  BY <1>1, <2>1
<1>3. PICK x1 \in Nat, x2 \in 0 .. v - 1 : x1 = p \div v /\ x2 = p % v
  BY <1>2, Quotient
<1> DEFINE elements == [e \in 0 .. Area - 1 |-> ASource(p * Area + e)]
<1>4. ASSUME NEW e \in 0 .. Area - 1
      PROVE  ASource(p * Area + e) = (x1 * Edge + InX(e)) * (v * Edge) + x2 * Edge + InY(e)
  <2>1. CASE design.host
    <3>1. /\ InX(p * Area + e) = InX(e) /\ InY(p * Area + e) = InY(e)
          /\ (p * Area + e) \div Area = p
      BY <1>2, PlaceInBlock
    <3> HIDE DEF InX, InY, Area
    <3>2. PackedA(p * Area + e) = (x1 * Edge + InX(e)) * k + (x2 * Edge) + InY(e)
      BY <1>1, <1>3, <3>1 DEF PackedA
    <3> QED  BY <1>1, <2>1, <3>2 DEF ASource, k
  <2>2. CASE ~design.host
    <3>1. DimsA = << <<u, Edge * (v * Edge)>>, <<v, Edge>>, <<Edge, v * Edge>>, <<Edge, 1>> >>
      BY <1>1, ShapeFacts DEF DimsA, k
    <3>2. Offset(DimsA, p * Area + e)
            = (x1 * Edge + InX(e)) * (v * Edge) + x2 * Edge + InY(e)
      <4>1. p \in 0 .. u * v - 1
        BY <1>1
      <4>2. Offset(DimsA, p * Area + e)
              = ((p \div v) * Edge + InX(e)) * (v * Edge) + (p % v) * Edge + InY(e)
        BY ONLY <3>1, <4>1, BlocksOfRows, shape \in Shapes, u \in Nat \ {0}, v \in Nat \ {0},
                e \in 0 .. Area - 1
      <4> HIDE DEF InX, InY, Area
      <4> QED  BY ONLY <1>3, <4>2
    <3> QED  BY <2>2, <3>2 DEF ASource
  <2> QED  BY <2>1, <2>2
<1>5. Arrived(elements, v * Edge) = <<x1, x2>>
  <2>1. DOMAIN elements = 0 .. Area - 1 /\ x2 < v /\ x2 \in Nat
    OBVIOUS
  <2>2. \A e \in 0 .. Area - 1 :
           elements[e] = (x1 * Edge + InX(e)) * (v * Edge) + x2 * Edge + InY(e)
    BY <1>4
  <2> HIDE DEF elements
  <2> QED  BY <2>1, <2>2, BlockArrived
<1>6. k = v * Edge
  BY <1>1 DEF k
<1> QED  BY <1>1, <1>2, <1>3, <1>5, <1>6 DEF ABlock

(* The tap of a packed tile leaves its elements in their order.            *)
LEMMA PackedTapIs ==
  ASSUME shape \in Shapes, NEW p \in 0 .. shape.colB * shape.colA - 1, NEW e \in 0 .. Area - 1
  PROVE  Offset(PackedTap, p * Area + e) = p * Area + e
<1>1. PICK d \in Nat \ {0}, u \in Nat \ {0}, v \in Nat \ {0} :
        d = Edge /\ u = shape.colB /\ v = shape.colA
  BY ShapeFacts
<1>2. p \in Nat /\ p \in 0 .. u * v - 1
  <2>1. PICK w \in Nat : w = u * v
    OBVIOUS
  <2> QED  BY <1>1, <2>1
<1>3. PICK x1 \in Nat, x2 \in 0 .. v - 1 : x1 = p \div v /\ x2 = p % v /\ p = (x1 * v) + x2
  BY <1>2, Quotient
<1>4. x1 \in 0 .. u - 1
  BY <1>2, <1>3, DivRange
<1>5. PICK x3 \in 0 .. d - 1, x4 \in 0 .. d - 1 : x3 = InX(e) /\ x4 = InY(e)
  BY <1>1, <1>2, PlaceInBlock
<1>6. p * Area + e = ((x1 * v + x2) * d + x3) * d + x4 /\ e = x3 * d + x4
  <2>1. p * Area + e = (p * Edge + InX(e)) * Edge + InY(e) /\ e = InX(e) * Edge + InY(e)
    BY <1>2, PlaceInBlock
  <2> QED  BY <1>1, <1>3, <1>5, <2>1
<1>7. PICK a \in Nat, w \in Nat, s \in Nat : a = d * d /\ w = v * d /\ s = d * w
  OBVIOUS
<1>8. PICK f \in Int : f = p * Area + e
  BY <1>2, ShapeFacts
<1>9. Offset(<< <<u, s>>, <<v, a>>, <<d, d>>, <<d, 1>> >>, f) = x1 * s + x2 * a + x3 * d + x4 * 1
  <2>1. Digits(f, v, d, d, x1, x2, x3, x4)
    <3>1. Digits(((x1 * v + x2) * d + x3) * d + x4, v, d, d, x1, x2, x3, x4)
      BY FourDigits
    <3> QED  BY <1>6, <1>8, <3>1
  <2>2. PICK dims : dims = << <<u, s>>, <<v, a>>, <<d, d>>, <<d, 1>> >>
    OBVIOUS
  <2>3. /\ dims[1][1] = u /\ dims[1][2] = s /\ dims[2][1] = v /\ dims[2][2] = a
        /\ dims[3][1] = d /\ dims[3][2] = d /\ dims[4][1] = d /\ dims[4][2] = 1
    BY <2>2
  <2>4. /\ Digits(f, dims[2][1], dims[3][1], dims[4][1], x1, x2, x3, x4)
        /\ x1 < dims[1][1] /\ x2 \in Nat /\ x3 \in Nat /\ x4 \in Nat
    BY <1>4, <2>1, <2>3
  <2>5. dims \in [1..4 -> Nat \X Nat]
    BY <2>2
  <2>6. Offset(dims, f)
           = x1 * dims[1][2] + x2 * dims[2][2] + x3 * dims[3][2] + x4 * dims[4][2]
    BY ONLY <2>4, <2>5, OffsetOf
  <2> QED  BY <2>2, <2>3, <2>6
<1>10. x1 * s + x2 * a + x3 * d + x4 * 1 = p * a + e
  <2>1. (x1 * v + x2) * (d * d) = x1 * (d * (v * d)) + x2 * (d * d)
    OBVIOUS
  <2>2. PICK f1 \in Nat, f2 \in Nat, f3 \in Nat : f1 = x1 * s /\ f2 = x2 * a /\ f3 = x3 * d
    OBVIOUS
  <2>3. p * a = f1 + f2
    BY <1>3, <1>7, <2>1, <2>2
  <2> QED  BY <1>6, <2>2, <2>3
<1>11. PackedTap = << <<u, s>>, <<v, a>>, <<d, d>>, <<d, 1>> >>
  BY <1>1, <1>7, ShapeFacts DEF PackedTap, Area, k
<1>12. Area = a
  BY <1>1, <1>7 DEF Area
<1> QED  BY <1>8, <1>9, <1>10, <1>11, <1>12

(* What the kernel of a design is.                                         *)
KernelShape(d) ==
  /\ d.b \in {"rows", "columns", "packed"} /\ d.host \in BOOLEAN
  /\ d.kernel.columns \in BOOLEAN
  /\ d.kernel.rows \in {1, 2} /\ d.kernel.cols \in {1, 2, 4} /\ d.kernel.unroll \in {1, 2}
  /\ d.kernel.pipelined \in BOOLEAN /\ (d.kernel.pipelined => d.kernel.unroll = 1)
  /\ d.kernel.unroll = 2 => d.kernel.columns
  /\ d.kernel.cols = 1 => d.kernel.columns /\ d.b # "rows"

(* The kernel of every design is such a kernel.                            *)
LEMMA KernelShapes == ASSUME NEW d \in Designs PROVE KernelShape(d)
<1>1. ASSUME NEW b \in {"rows", "columns"}, d = [kernel |-> Optimized, b |-> b, host |-> FALSE]
      PROVE  KernelShape(d)
  <2>1. d.kernel = Optimized /\ d.b = b /\ d.host = FALSE
    BY <1>1
  <2>2. PICK f : f = Optimized
    OBVIOUS
  <2>3. /\ f.rows = 2 /\ f.cols = 2 /\ f.unroll = 1
        /\ f.columns = FALSE /\ f.pipelined = FALSE
    BY <2>2 DEF Optimized
  <2>4. f.rows \in {1, 2} /\ f.cols \in {1, 2, 4} /\ f.unroll \in {1, 2}
    BY <2>3
  <2>5. f.cols # 1 /\ f.unroll # 2
    BY <2>3
  <2>6. f.columns \in BOOLEAN /\ f.pipelined \in BOOLEAN /\ ~f.pipelined
    BY <2>3, Zenon
  <2>7. d.b \in {"rows", "columns", "packed"} /\ d.host \in BOOLEAN
    BY <2>1
  <2>8. d.kernel = f
    BY <2>1, <2>2
  <2> QED  BY ONLY <2>4, <2>5, <2>6, <2>7, <2>8, Zenon DEF KernelShape
<1>2. CASE d = [kernel |-> Verify, b |-> "packed", host |-> TRUE]
  BY <1>2 DEF KernelShape, Verify
<1>3. ASSUME NEW options \in SUBSET {"vliw", "acc8", "swp", "unroll_2x"},
             NEW b \in {"rows", "columns", "packed"},
             d = [kernel |-> Selected(options), b |-> b, host |-> FALSE]
      PROVE  KernelShape(d)
  <2>1. PICK f : f = Selected(options) /\ f \in {Vliw, EightAcc, Swp, Unroll2x, Packed}
    BY DEF Selected
  <2>2. d.kernel = f /\ d.b = b /\ d.host = FALSE
    BY <1>3, <2>1
  <2>3. /\ f.columns = TRUE /\ f.rows = 2 /\ f.cols \in {2, 4} /\ f.unroll \in {1, 2}
        /\ \/ f.pipelined = FALSE
           \/ f.pipelined = TRUE /\ f.unroll = 1
    <3>1. CASE f \in {Vliw, Packed}
      BY <3>1 DEF Vliw, Packed
    <3>2. CASE f \in {EightAcc, Swp}
      BY <3>2 DEF EightAcc, Swp
    <3>3. CASE f = Unroll2x
      BY <3>3 DEF Unroll2x
    <3> QED  BY <2>1, <3>1, <3>2, <3>3
  <2>4. f.rows \in {1, 2} /\ f.cols \in {1, 2, 4} /\ f.unroll \in {1, 2}
    BY <2>3
  <2>5. f.cols # 1
    BY <2>3
  <2>6. /\ f.columns \in BOOLEAN /\ f.columns /\ f.pipelined \in BOOLEAN
        /\ f.pipelined => f.unroll = 1
    BY <2>3, Zenon
  <2>7. d.b \in {"rows", "columns", "packed"} /\ d.host \in BOOLEAN
    BY <2>2
  <2>8. d.kernel = f
    BY <2>2
  <2> QED  BY ONLY <2>4, <2>5, <2>6, <2>7, <2>8, Zenon DEF KernelShape
<1> QED  BY <1>1, <1>2, <1>3 DEF Designs

(* The tile of B: the block <<x, y>> of its colA x colB blocks is where    *)
(* the kernel looks for it.                                                *)
LEMMA BBlockIs ==
  ASSUME shape \in Shapes, design \in Designs, NEW p \in 0 .. shape.colB * shape.colA - 1
  PROVE  BBlock(p) = IF design.b = "rows" THEN <<p \div shape.colB, p % shape.colB>>
                                          ELSE <<p % shape.colA, p \div shape.colA>>
<1>1. PICK u \in Nat \ {0}, v \in Nat \ {0} : u = shape.colB /\ v = shape.colA
  BY ShapeFacts
<1>2. p \in Nat /\ ~(p >= v * u) /\ p \in 0 .. u * v - 1 /\ p \in 0 .. v * u - 1
  <2>1. PICK w \in Nat : w = u * v /\ w = v * u
    OBVIOUS
  <2> QED  BY <1>1, <2>1
<1>3. k = v * Edge /\ n = u * Edge
  BY <1>1 DEF k, n
<1> DEFINE elements == [e \in 0 .. Area - 1 |-> BSource(p * Area + e)]
<1>4. CASE design.b = "columns"
  <2>1. PICK x1 \in Nat, x2 \in 0 .. v - 1 : x1 = p \div v /\ x2 = p % v
    BY <1>2, Quotient
  <2>2. DimsB = << <<u, Edge * (v * Edge)>>, <<v, Edge>>, <<Edge, v * Edge>>, <<Edge, 1>> >>
    BY <1>1, <1>4, ShapeFacts DEF DimsB, k
  <2>3. ASSUME NEW e \in 0 .. Area - 1
        PROVE  BSource(p * Area + e) = (x1 * Edge + InX(e)) * (v * Edge) + x2 * Edge + InY(e)
    <3>1. Offset(DimsB, p * Area + e)
            = (x1 * Edge + InX(e)) * (v * Edge) + x2 * Edge + InY(e)
      BY <1>2, <2>1, <2>2, BlocksOfRows
    <3> QED  BY <1>4, <3>1 DEF BSource
  <2>4. Arrived(elements, v * Edge) = <<x1, x2>>
    <3>1. DOMAIN elements = 0 .. Area - 1 /\ x2 < v /\ x2 \in Nat
      OBVIOUS
    <3>2. \A e \in 0 .. Area - 1 :
             elements[e] = (x1 * Edge + InX(e)) * (v * Edge) + x2 * Edge + InY(e)
      BY <2>3
    <3> HIDE DEF elements
    <3> QED  BY <3>1, <3>2, BlockArrived
  <2> QED  BY <1>1, <1>2, <1>3, <1>4, <2>1, <2>4 DEF BBlock
<1>5. CASE design.b = "rows"
  <2>1. PICK x1 \in Nat, x2 \in 0 .. u - 1 : x1 = p \div u /\ x2 = p % u
    BY <1>2, Quotient
  <2>2. DimsB = << <<v, Edge * (u * Edge)>>, <<u, Edge>>, <<Edge, u * Edge>>, <<Edge, 1>> >>
    BY <1>1, <1>5, ShapeFacts DEF DimsB, n
  <2>3. ASSUME NEW e \in 0 .. Area - 1
        PROVE  BSource(p * Area + e) = (x1 * Edge + InX(e)) * (u * Edge) + x2 * Edge + InY(e)
    <3>1. Offset(DimsB, p * Area + e)
            = (x1 * Edge + InX(e)) * (u * Edge) + x2 * Edge + InY(e)
      BY <1>2, <2>1, <2>2, BlocksOfRows
    <3> QED  BY <1>5, <3>1 DEF BSource
  <2>4. Arrived(elements, u * Edge) = <<x1, x2>>
    <3>1. DOMAIN elements = 0 .. Area - 1 /\ x2 < u /\ x2 \in Nat
      OBVIOUS
    <3>2. \A e \in 0 .. Area - 1 :
             elements[e] = (x1 * Edge + InX(e)) * (u * Edge) + x2 * Edge + InY(e)
      BY <2>3
    <3> HIDE DEF elements
    <3> QED  BY <3>1, <3>2, BlockArrived
  <2> QED  BY <1>1, <1>2, <1>3, <1>5, <2>1, <2>4 DEF BBlock
<1>6. CASE design.b = "packed"
  <2>1. PICK x1 \in Nat, x2 \in 0 .. v - 1 : x1 = p \div v /\ x2 = p % v
    BY <1>2, Quotient
  <2>2. x1 \in 0 .. u - 1
    BY <1>2, <2>1, DivRange
  <2>3. ASSUME NEW e \in 0 .. Area - 1
        PROVE  BSource(p * Area + e) = (x2 * Edge + InX(e)) * (u * Edge) + x1 * Edge + InY(e)
    <3>1. BSource(p * Area + e) = PackedB(p * Area + e)
      BY <1>6, PackedTapIs DEF BSource
    <3>2. /\ InX(p * Area + e) = InX(e) /\ InY(p * Area + e) = InY(e)
          /\ (p * Area + e) \div Area = p
      BY <1>2, PlaceInBlock
    <3> HIDE DEF InX, InY, Area
    <3>3. PackedB(p * Area + e) = (x2 * Edge + InX(e)) * n + x1 * Edge + InY(e)
      BY <1>1, <2>1, <3>2 DEF PackedB
    <3> QED  BY <1>3, <3>1, <3>3
  <2>4. Arrived(elements, u * Edge) = <<x2, x1>>
    <3>1. DOMAIN elements = 0 .. Area - 1 /\ x1 < u /\ x2 \in Nat
      BY <2>2
    <3>2. \A e \in 0 .. Area - 1 :
             elements[e] = (x2 * Edge + InX(e)) * (u * Edge) + x1 * Edge + InY(e)
      BY <2>3
    <3> HIDE DEF elements
    <3> QED  BY <3>1, <3>2, BlockArrived
  <2> QED  BY <1>1, <1>2, <1>3, <1>6, <2>1, <2>4 DEF BBlock
<1> QED  BY <1>4, <1>5, <1>6, KernelShapes DEF KernelShape

(***************************************************************************)
(* The invariant.                                                          *)
(***************************************************************************)

Blocks == 0 .. shape.rowA * shape.colB - 1  \* the tile of C, by address

(* The blocks that a kernel loads for step s of K of a row of A and of a   *)
(* column of B.                                                            *)
AOf(row, s) == ABlock(row * shape.colA + s)
BOf(col, s) == BBlock(IF design.kernel.columns THEN col * shape.colA + s
                                               ELSE col + s * shape.colB)

(* The t-th product of a block of C, and the sum of the first of them.     *)
Product(row, col, t) ==
  [call |-> 1 + ((t - 1) \div Steps),
   a |-> AOf(row, (t - 1) % Steps), b |-> BOf(col, (t - 1) % Steps)]
Sum(row, col, len) == [t \in 1..len |-> Product(row, col, t)]

(* What the registers hold of a step of K, and of v steps from step u on.  *)
Registers(x) == [a |-> [row \in Side |-> AOf(z + row, x)],
                 b |-> [col \in Width |-> BOf(j + col, x)]]
Held(u, v)   == [x \in 1..v |-> Registers((u + x) - 1)]

(* Which blocks have been stored in this call: the passes before this one. *)
Stored(q) == \/ q \div shape.colB < z
             \/ q \div shape.colB < z + design.kernel.rows /\ q % shape.colB < j

Before == (call - 1) * Steps  \* the products of the calls before this one

(* The products of this call that the accumulators have got.               *)
Macs == IF step = "store" THEN Steps
        ELSE IF step = "prologue" THEN 0
        ELSE IF design.kernel.pipelined THEN i - 1 ELSE i

(* The parts of the invariant: the choice of the design, the call, the     *)
(* pass, the loop over K, the accumulators, and the tile of C.             *)
Chosen == shape \in Shapes /\ design \in Designs /\ Fits(design, shape)

InPass == step \in {"prologue", "loop", "store"}

CallInv ==
  /\ step \in {"zero", "pass", "prologue", "loop", "store", "done"}
  /\ call \in 0 .. shape.calls
  /\ IF step = "zero" THEN call = 0 ELSE call # 0
  /\ step = "done" => call = shape.calls

PassInv ==
  /\ z \in Nat /\ z % design.kernel.rows = 0 /\ z + design.kernel.rows <= shape.rowA
  /\ j \in Nat /\ j % design.kernel.cols = 0 /\ j + design.kernel.cols <= shape.colB
  /\ step = "zero" => z = 0 /\ j = 0

LoopInv ==
  /\ i \in 0 .. Steps /\ ptr \in 0 .. Steps
  /\ Len(held) \in Nat /\ Len(held) <= design.kernel.unroll
  /\ step \in {"prologue", "loop"} => ptr = i
  /\ step = "prologue" => i = 0 /\ design.kernel.pipelined
  /\ step = "loop" /\ design.kernel.pipelined => i # 0 /\ Len(held) = 1
  /\ step = "loop" /\ ~design.kernel.pipelined => i % design.kernel.unroll = 0

HeldInv ==
  step \in {"loop", "store"} => Len(held) <= ptr /\ held = Held(ptr - Len(held), Len(held))

AccInv ==
  InPass => acc = [row \in Side |-> [col \in Width |-> Sum(z + row, j + col, Before + Macs)]]

BlockInv(q) ==
  /\ InPass \/ step = "pass" =>
       c[q] = Sum(q \div shape.colB, q % shape.colB,
                  IF Stored(q) THEN call * Steps ELSE Before)
  /\ step = "done" => c[q] = Sum(q \div shape.colB, q % shape.colB, shape.calls * Steps)

TileInv == DOMAIN c = Blocks /\ \A q \in Blocks : BlockInv(q)

KernelInv == Chosen /\ CallInv /\ PassInv /\ LoopInv /\ HeldInv /\ AccInv /\ TileInv

(* A function on 1 .. u is a sequence of length u.                         *)
LEMMA FunctionIsSeq ==
  ASSUME NEW T, NEW u \in Nat, NEW f \in [1..u -> T]
  PROVE  f \in Seq(T) /\ Len(f) = u /\ DOMAIN f = 1..u
  OBVIOUS

(* A sum is a sequence.                                                    *)
LEMMA SumIsSeq ==
  ASSUME NEW row, NEW col, NEW u \in Nat
  PROVE  /\ DOMAIN Sum(row, col, u) = 1..u /\ Len(Sum(row, col, u)) = u
         /\ Sum(row, col, u) \in Seq({Product(row, col, t) : t \in Nat})
<1> DEFINE T == {Product(row, col, t) : t \in Nat}
<1>1. \A t \in 1..u : Product(row, col, t) \in T
  OBVIOUS
<1> HIDE DEF T
<1>2. Sum(row, col, u) \in [1..u -> T]
  BY <1>1 DEF Sum
<1>3. Sum(row, col, u) \in Seq(T) /\ Len(Sum(row, col, u)) = u /\ DOMAIN Sum(row, col, u) = 1..u
  BY <1>2, FunctionIsSeq
<1> QED  BY <1>3 DEF T

(* The products that follow make the longer sum.                           *)
Follow(more, row, col, u, v) == more = [x \in 1..v |-> Product(row, col, u + x)]

(* A sum and the products that follow it.                                  *)
LEMMA SumExtended ==
  ASSUME NEW row, NEW col, NEW u \in Nat, NEW v \in Nat,
         NEW more, Follow(more, row, col, u, v)
  PROVE  Sum(row, col, u) \o more = Sum(row, col, u + v)
<1> DEFINE T == {Product(row, col, t) : t \in Nat}
           s == Sum(row, col, u)
<1>1. s \in Seq(T) /\ Len(s) = u
  BY SumIsSeq
<1>2. more \in Seq(T) /\ Len(more) = v
  <2>1. \A x \in 1..v : Product(row, col, u + x) \in T
    OBVIOUS
  <2> HIDE DEF T
  <2>2. more \in [1..v -> T]
    BY <2>1 DEF Follow
  <2> QED  BY <2>2, FunctionIsSeq
<1>3. /\ \A t \in 1..u : s[t] = Product(row, col, t)
      /\ \A x \in 1..v : more[x] = Product(row, col, u + x)
  BY DEF Sum, Follow
<1> HIDE DEF T, s
<1>4. /\ s \o more \in Seq(T) /\ Len(s \o more) = u + v
      /\ \A t \in 1 .. u + v : (s \o more)[t] = IF t <= u THEN s[t] ELSE more[t - u]
  <2>1. /\ s \o more \in Seq(T) /\ Len(s \o more) = Len(s) + Len(more)
        /\ \A t \in 1 .. Len(s) + Len(more) :
             (s \o more)[t] = IF t <= Len(s) THEN s[t] ELSE more[t - Len(s)]
    BY ONLY <1>1, <1>2
  <2> QED  BY ONLY <1>1, <1>2, <2>1
<1>5. ASSUME NEW t \in 1 .. u + v PROVE (s \o more)[t] = Product(row, col, t)
  <2>1. CASE t <= u
    <3>1. t \in 1..u
      BY <2>1
    <3> QED  BY <1>3, <1>4, <2>1, <3>1
  <2>2. CASE ~(t <= u)
    <3>1. t - u \in 1..v /\ u + (t - u) = t
      BY <2>2
    <3>2. more[t - u] = Product(row, col, u + (t - u))
      BY <1>3, <3>1
    <3> QED  BY <1>4, <2>2, <3>1, <3>2
  <2> QED  BY <2>1, <2>2
<1>6. s \o more = [t \in 1 .. u + v |-> (s \o more)[t]]
  <2>1. PICK f \in Seq(T) : f = s \o more
    BY <1>4
  <2>2. f \in [1 .. Len(f) -> T]
    OBVIOUS
  <2>3. f = [t \in 1 .. Len(f) |-> f[t]]
    BY ONLY <2>2
  <2> QED  BY <1>4, <2>1, <2>3
<1> QED  BY <1>5, <1>6 DEF Sum, s

(* The sizes of a pass.                                                    *)
LEMMA PassFacts ==
  ASSUME Chosen, PassInv
  PROVE  /\ KernelShape(design)
         /\ \A row \in Side : row \in Nat /\ z + row \in 0 .. shape.rowA - 1
         /\ \A col \in Width : col \in Nat /\ j + col \in 0 .. shape.colB - 1
<1>1. KernelShape(design) /\ shape.rowA \in Nat /\ shape.colB \in Nat
  BY KernelShapes, ShapeFacts DEF Chosen
<1>2. PICK u \in Nat, v \in Nat : u = design.kernel.rows /\ v = design.kernel.cols
  BY <1>1 DEF KernelShape
<1>3. /\ z \in Nat /\ z + u <= shape.rowA /\ j \in Nat /\ j + v <= shape.colB
  BY <1>2 DEF PassInv
<1> QED  BY <1>1, <1>2, <1>3 DEF Side, Width

(* The steps that the loop over K makes: those of K, and one more if the   *)
(* loop is unrolled and their number is odd.                               *)
LEMMA StepsFacts ==
  ASSUME Chosen
  PROVE  /\ KernelShape(design) /\ shape.colA \in Nat \ {0} /\ Steps \in Nat \ {0}
         /\ shape.colA <= Steps /\ Steps <= shape.colA + 1
         /\ Steps % design.kernel.unroll = 0
         /\ design.kernel.unroll = 1 => Steps = shape.colA
         /\ Steps < shape.colA + design.kernel.unroll
<1>1. KernelShape(design)
  BY KernelShapes DEF Chosen
<1>2. PICK a \in Nat \ {0}, u \in {1, 2} : a = shape.colA /\ u = design.kernel.unroll
  BY <1>1, ShapeFacts DEF Chosen, KernelShape
<1>3. PICK w : w = (((a + u) - 1) \div u) * u
  OBVIOUS
<1>4. Steps = w
  BY <1>2, <1>3 DEF Steps
<1>5. /\ w \in Nat \ {0} /\ a <= w /\ w <= a + 1 /\ w % u = 0
      /\ u = 1 => w = a
      /\ w < a + u
  <2>1. CASE u = 1
    BY <1>3, <2>1
  <2>2. CASE u = 2
    BY <1>3, <2>2
  <2> QED  BY <2>1, <2>2
<1> QED  BY <1>1, <1>2, <1>4, <1>5

(* The block of A that is loaded.                                          *)
LEMMA AIs ==
  ASSUME Chosen, NEW row \in 0 .. shape.rowA - 1, NEW s \in 0 .. Steps - 1
  PROVE  AOf(row, s) = IF s < shape.colA THEN <<row, s>>
                       ELSE IF row + 1 < shape.rowA THEN <<row + 1, 0>>
                       ELSE Beyond
<1>1. PICK u \in Nat \ {0}, v \in Nat \ {0} : u = shape.rowA /\ v = shape.colA
  BY ShapeFacts DEF Chosen
<1>2. row \in Nat /\ row < u /\ s \in Nat /\ s <= v
  BY <1>1, StepsFacts
<1>3. ASSUME NEW y \in 0 .. u - 1, NEW x \in 0 .. v - 1
      PROVE  ABlock(y * v + x) = <<y, x>>
  <2>1. y * v + x \in 0 .. shape.rowA * shape.colA - 1
    <3>1. y * v + x \in 0 .. u * v - 1
      BY ProductRange
    <3> QED  BY <1>1, <3>1
  <2>2. (y * v + x) \div v = y /\ (y * v + x) % v = x
    BY DivModUnique
  <2>3. ABlock(y * v + x) = <<(y * v + x) \div shape.colA, (y * v + x) % shape.colA>>
    BY <2>1, ABlockIs DEF Chosen
  <2> QED  BY <1>1, <2>2, <2>3
<1>4. AOf(row, s) = ABlock(row * v + s)
  BY <1>1 DEF AOf
<1>5. CASE s < v
  <2>1. row \in 0 .. u - 1 /\ s \in 0 .. v - 1
    BY <1>2, <1>5
  <2>2. ABlock(row * v + s) = <<row, s>>
    BY <1>3, <2>1
  <2> QED  BY <1>1, <1>4, <1>5, <2>2
<1>6. CASE ~(s < v)
  <2>1. s = v /\ row * v + s = (row + 1) * v + 0
    <3>1. s = v
      BY <1>2, <1>6
    <3>2. row * v + v = (row + 1) * v + 0
      BY <1>2
    <3> QED  BY <3>1, <3>2
  <2>2. CASE row + 1 < u
    <3>1. row + 1 \in 0 .. u - 1 /\ 0 \in 0 .. v - 1
      BY <1>2, <2>2
    <3>2. ABlock((row + 1) * v + 0) = <<row + 1, 0>>
      BY <1>3, <3>1
    <3> QED  BY <1>1, <1>4, <1>6, <2>1, <2>2, <3>2
  <2>3. CASE ~(row + 1 < u)
    <3>1. row + 1 = u
      BY <1>2, <2>3
    <3>2. PICK f \in Nat : f = u * v
      OBVIOUS
    <3>3. row * v + s = f /\ f = shape.rowA * shape.colA
      BY <1>1, <2>1, <3>1, <3>2
    <3>4. ABlock(f) = Beyond
      BY <3>3 DEF ABlock
    <3> QED  BY <1>1, <1>4, <1>6, <2>3, <3>3, <3>4
  <2> QED  BY <2>2, <2>3
<1> QED  BY <1>5, <1>6

(* Where B is looked for: an address within the tile, unless it is that of *)
(* the step after the last in the last column.                             *)
LEMMA BPlaceIs ==
  ASSUME Chosen, NEW col \in 0 .. shape.colB - 1, NEW s \in 0 .. Steps - 1,
         NEW p, p = IF design.kernel.columns THEN col * shape.colA + s ELSE col + s * shape.colB
  PROVE  IF s >= shape.colA /\ col + 1 = shape.colB THEN p = shape.colA * shape.colB
         ELSE p \in 0 .. shape.colB * shape.colA - 1
<1>1. PICK w \in Nat \ {0}, v \in Nat \ {0} : w = shape.colB /\ v = shape.colA
  BY ShapeFacts DEF Chosen
<1>2. col \in Nat /\ col < w /\ s \in Nat /\ s <= v
  BY <1>1, StepsFacts
<1>3. v * w = w * v /\ v * w \in Nat
  OBVIOUS
<1>4. CASE s < v
  <2>1. CASE design.kernel.columns
    <3>1. col * v + s \in 0 .. w * v - 1
      BY <1>2, <1>4, ProductRange
    <3> QED  BY <1>1, <1>2, <1>4, <2>1, <3>1
  <2>2. CASE ~design.kernel.columns
    <3>1. s * w + col \in 0 .. v * w - 1
      BY <1>2, <1>4, ProductRange
    <3>2. col + s * w = s * w + col
      BY <1>2
    <3>3. p \in 0 .. w * v - 1
      BY <1>1, <1>3, <2>2, <3>1, <3>2
    <3> QED  BY <1>1, <1>2, <1>4, <3>3
  <2> QED  BY <2>1, <2>2
<1>5. CASE ~(s < v)
  <2>1. s = v /\ s >= v /\ design.kernel.columns
    <3>1. s = v /\ s >= v
      BY <1>2, <1>5
    <3>2. design.kernel.unroll # 1
      BY <1>1, <3>1, StepsFacts
    <3> QED  BY <3>1, <3>2, StepsFacts DEF KernelShape
  <2>2. p = (col + 1) * v
    <3>1. col * v + v = (col + 1) * v
      BY <1>2
    <3> QED  BY <1>1, <2>1, <3>1
  <2>3. CASE col + 1 = w
    BY <1>1, <1>3, <2>1, <2>2, <2>3
  <2>4. CASE col + 1 # w
    <3>1. col + 1 \in Nat /\ col + 1 < w
      BY <1>2, <2>4
    <3>2. (col + 1) * v + 0 \in 0 .. w * v - 1
      BY <3>1, ProductRange
    <3>3. (col + 1) * v + 0 = (col + 1) * v
      BY <1>2
    <3> QED  BY <1>1, <2>2, <2>4, <3>2, <3>3
  <2> QED  BY <2>3, <2>4
<1> QED  BY <1>4, <1>5

(* The block of B that is loaded.                                          *)
LEMMA BIs ==
  ASSUME Chosen, NEW col \in 0 .. shape.colB - 1, NEW s \in 0 .. Steps - 1
  PROVE  /\ BOf(col, s) = Beyond <=> s >= shape.colA /\ col + 1 = shape.colB
         /\ Agreed /\ s < shape.colA => BOf(col, s) = <<s, col>>
<1>1. PICK w \in Nat \ {0}, v \in Nat \ {0} : w = shape.colB /\ v = shape.colA
  BY ShapeFacts DEF Chosen
<1>2. col \in Nat /\ col \in 0 .. w - 1 /\ s \in Nat /\ s <= v
  BY <1>1, StepsFacts
<1>3. PICK p : p = IF design.kernel.columns THEN col * shape.colA + s ELSE col + s * shape.colB
  OBVIOUS
<1>4. BOf(col, s) = BBlock(p)
  BY <1>3 DEF BOf
<1>5. IF s >= shape.colA /\ col + 1 = shape.colB THEN p = shape.colA * shape.colB
      ELSE p \in 0 .. shape.colB * shape.colA - 1
  BY <1>3, BPlaceIs
<1>6. CASE s >= v /\ col + 1 = w
  <2>1. PICK f \in Nat : f = v * w
    OBVIOUS
  <2>2. p = f /\ p >= shape.colA * shape.colB
    BY <1>1, <1>5, <1>6, <2>1
  <2>3. BBlock(p) = Beyond
    BY <2>2 DEF BBlock
  <2>4. ~(s < v)
    BY <1>2, <1>6
  <2> QED  BY <1>1, <1>4, <1>6, <2>3, <2>4
<1>7. CASE ~(s >= v /\ col + 1 = w)
  <2>1. p \in 0 .. shape.colB * shape.colA - 1
    BY <1>1, <1>5, <1>7
  <2>2. BBlock(p) = IF design.b = "rows" THEN <<p \div shape.colB, p % shape.colB>>
                                         ELSE <<p % shape.colA, p \div shape.colA>>
    BY <2>1, BBlockIs DEF Chosen
  <2>3. BBlock(p) # Beyond
    <3>1. p \in Nat
      <4>1. PICK f \in Nat : f = w * v
        OBVIOUS
      <4> QED  BY <1>1, <2>1, <4>1
    <3>2. p \div w \in Nat /\ p % v \in Nat
      <4>1. p \div w \in Nat
        BY <3>1, DivMod
      <4>2. p % v \in 0 .. v - 1
        BY <3>1, DivMod
      <4> QED  BY <4>1, <4>2
    <3>3. p \div w # -1 /\ p % v # -1
      BY <3>2
    <3> QED  BY <1>1, <2>2, <3>3 DEF Beyond
  <2>4. ASSUME Agreed, s < v PROVE BBlock(p) = <<s, col>>
    <3>1. CASE design.kernel.columns
      <4>1. p = col * v + s /\ s \in 0 .. v - 1
        BY <1>1, <1>2, <1>3, <2>4, <3>1
      <4>2. p \div v = col /\ p % v = s
        BY <1>2, <4>1, DivModUnique
      <4>3. CASE design.b # "rows"
        BY <1>1, <2>2, <4>2, <4>3
      <4>4. CASE design.b = "rows"
        <5>1. v = 1 /\ s = 0 /\ p = col
          <6>1. v = 1
            BY <1>1, <2>4, <3>1, <4>4 DEF Agreed
          <6> QED  BY <1>2, <2>4, <4>1, <6>1
        <5>2. p \div w = 0 /\ p % w = col
          <6>1. (0 * w + col) \div w = 0 /\ (0 * w + col) % w = col
            BY <1>2, DivModUnique
          <6>2. 0 * w + col = col
            BY <1>2
          <6> QED  BY <5>1, <6>1, <6>2
        <5> QED  BY <1>1, <2>2, <4>4, <5>1, <5>2
      <4> QED  BY <4>3, <4>4
    <3>2. CASE ~design.kernel.columns
      <4>1. p = s * w + col
        <5>1. col + s * w = s * w + col
          BY <1>2
        <5> QED  BY <1>1, <1>3, <3>2, <5>1
      <4>2. p \div w = s /\ p % w = col
        BY <1>2, <4>1, DivModUnique
      <4>3. CASE design.b = "rows"
        BY <1>1, <2>2, <4>2, <4>3
      <4>4. CASE design.b # "rows"
        <5>1. v = 1 /\ s = 0 /\ p = col
          <6>1. v = 1
            BY <1>1, <2>4, <3>2, <4>4, StepsFacts DEF Agreed, KernelShape
          <6> QED  BY <1>2, <2>4, <4>1, <6>1
        <5>2. p % 1 = 0 /\ p \div 1 = col
          BY <1>2, <5>1
        <5> QED  BY <1>1, <2>2, <4>4, <5>1, <5>2
      <4> QED  BY <4>3, <4>4
    <3> QED  BY <3>1, <3>2
  <2> QED  BY <1>1, <1>4, <1>7, <2>3, <2>4
<1> QED  BY <1>6, <1>7

(* What is found at the addresses of a step of K.                          *)
LEMMA OperandsAre == \A x : Operands(x) = Registers(x)
  BY DEF Operands, Registers, AOf, BOf, AAddress, BAddress

(***************************************************************************)
(* The steps.                                                              *)
(***************************************************************************)

(* Before any step.                                                        *)
LEMMA InitKernel == Init => KernelInv
<1> SUFFICES ASSUME Init PROVE KernelInv
  OBVIOUS
<1>1. Chosen
  BY DEF Init, Chosen
<1>2. /\ KernelShape(design) /\ shape.rowA \in Nat \ {0} /\ shape.colA \in Nat \ {0}
      /\ shape.colB \in Nat \ {0} /\ shape.calls \in Nat \ {0}
  BY <1>1, KernelShapes, ShapeFacts DEF Chosen
<1>3. /\ design.kernel.rows <= shape.rowA /\ design.kernel.cols <= shape.colB
      /\ 0 % design.kernel.rows = 0 /\ 0 % design.kernel.cols = 0
  <2>1. PICK u \in {1, 2}, v \in {1, 2, 4}, u1 \in Nat \ {0}, v1 \in Nat \ {0} :
          u = design.kernel.rows /\ v = design.kernel.cols /\ u1 = shape.rowA /\ v1 = shape.colB
    BY <1>2 DEF KernelShape
  <2>2. u1 % u = 0 /\ v1 % v = 0
    BY <1>1, <2>1 DEF Chosen, Fits
  <2>3. u <= u1 /\ v <= v1 /\ 0 % u = 0 /\ 0 % v = 0
    BY <2>2
  <2> QED  BY <2>1, <2>3
<1>4. PassInv
  BY <1>2, <1>3 DEF Init, PassInv, KernelShape
<1>5. CallInv
  BY <1>2 DEF Init, CallInv
<1>6. LoopInv
  BY <1>1, <1>2, StepsFacts DEF Init, LoopInv, KernelShape
<1>7. HeldInv /\ AccInv /\ TileInv
  BY DEF Init, HeldInv, AccInv, InPass, TileInv, Blocks, BlockInv
<1> QED  BY <1>1, <1>4, <1>5, <1>6, <1>7 DEF KernelInv

(* What a step leaves alone of the blocks and of the sums, as long as it   *)
(* leaves the choice of the design alone.                                  *)
LEMMA StaticBlocks ==
  ASSUME UNCHANGED <<design, shape>>
  PROVE  /\ Steps' = Steps /\ Blocks' = Blocks
         /\ \A row, s : AOf(row, s)' = AOf(row, s)
         /\ \A col, s : BOf(col, s)' = BOf(col, s)
         /\ \A row, col, u : Sum(row, col, u)' = Sum(row, col, u)
<1>1. Steps' = Steps /\ Blocks' = Blocks
  BY DEF Steps, Blocks
<1>2. ASSUME NEW e PROVE ASource(e)' = ASource(e)
  BY DEF ASource, PackedA, Offset, DimsA, m, k
<1>3. ASSUME NEW e PROVE BSource(e)' = BSource(e)
  <2>1. PackedB(e)' = PackedB(e) /\ Offset(DimsB, e)' = Offset(DimsB, e)
    BY DEF PackedB, Offset, DimsB, k, n
  <2>2. PackedB(Offset(PackedTap, e))' = PackedB(Offset(PackedTap, e))
    BY DEF PackedB, Offset, PackedTap, k, n
  <2> QED  BY <2>1, <2>2 DEF BSource
<1>4. ASSUME NEW p PROVE ABlock(p)' = ABlock(p)
  BY <1>2 DEF ABlock, k
<1>5. ASSUME NEW p PROVE BBlock(p)' = BBlock(p)
  BY <1>3 DEF BBlock, k, n
<1>6. ASSUME NEW row, NEW s PROVE AOf(row, s)' = AOf(row, s)
  BY <1>4 DEF AOf
<1>7. ASSUME NEW col, NEW s PROVE BOf(col, s)' = BOf(col, s)
  BY <1>5 DEF BOf
<1>8. ASSUME NEW row, NEW col, NEW u PROVE Sum(row, col, u)' = Sum(row, col, u)
  BY <1>1, <1>6, <1>7 DEF Sum, Product
<1> QED  BY <1>1, <1>6, <1>7, <1>8

(* What a step leaves alone of the pass and of the choice of the design.   *)
LEMMA StaticPass ==
  ASSUME KernelInv, UNCHANGED <<design, shape, z, j>>, step' # "zero"
  PROVE  Chosen' /\ PassInv'
<1>1. Chosen'
  BY DEF KernelInv, Chosen
<1>2. PassInv'
  BY DEF KernelInv, PassInv
<1> QED  BY <1>1, <1>2

(* What a step within a pass leaves alone of the tile of C.                *)
LEMMA StaticTile ==
  ASSUME KernelInv, UNCHANGED <<design, shape, call, z, j, c>>, InPass \/ step = "pass", InPass'
  PROVE  TileInv'
<1>1. ASSUME NEW q \in Blocks PROVE BlockInv(q)'
  <2>1. Stored(q)' <=> Stored(q)
    BY DEF Stored
  <2>2. Before' = Before /\ Steps' = Steps
    BY StaticBlocks DEF Before
  <2>3. BlockInv(q)
    BY DEF KernelInv, TileInv
  <2>4. step' # "done"
    BY DEF InPass
  <2>5. ASSUME NEW u
        PROVE  Sum(q \div shape.colB, q % shape.colB, u)'
                 = Sum(q \div shape.colB, q % shape.colB, u)
    BY StaticBlocks
  <2> QED  BY <2>1, <2>2, <2>3, <2>4, <2>5 DEF BlockInv
<1> QED  BY <1>1 DEF TileInv, Blocks, KernelInv

(* The product of a step of K of this call follows those before it.        *)
LEMMA NextProduct ==
  ASSUME Chosen, CallInv, call # 0, NEW x \in 0 .. Steps - 1, NEW row, NEW col
  PROVE  /\ Before \in Nat
         /\ Product(row, col, Before + (x + 1))
              = [call |-> call, a |-> AOf(row, x), b |-> BOf(col, x)]
<1>1. PICK d \in Nat \ {0}, u \in Nat : d = Steps /\ u = call - 1
  BY StepsFacts, ShapeFacts DEF Chosen, CallInv
<1>2. PICK f \in Nat : f = u * d
  BY <1>1
<1>3. Before = f /\ x \in 0 .. d - 1 /\ x \in Nat
  BY <1>1, <1>2 DEF Before
<1>4. (f + x) \div d = u /\ (f + x) % d = x
  BY <1>1, <1>2, <1>3, DivModUnique
<1>5. (f + (x + 1)) - 1 = f + x /\ 1 + u = call
  BY <1>1, <1>3, ShapeFacts DEF Chosen, CallInv
<1> QED  BY <1>1, <1>3, <1>4, <1>5 DEF Product

(* What the accumulators become when they take the products of registers.  *)
Added(registers) ==
  [row \in Side |-> [col \in Width |->
     acc[row][col] \o [x \in 1..Len(registers) |->
       [call |-> call, a |-> registers[x].a[row], b |-> registers[x].b[col]]]]]

(* The accumulators of the pass with so many products of this call, and    *)
(* what is found at the addresses of v steps of K from step u on.          *)
Accumulated(u) == [row \in Side |-> [col \in Width |-> Sum(z + row, j + col, Before + u)]]
Loaded(u, v)   == [x \in 1..v |-> Operands((u + x) - 1)]

(* An accumulator that has got the products of these steps of K.           *)
LEMMA AddedSum ==
  ASSUME Chosen, PassInv, CallInv, call # 0, NEW u \in Nat, NEW v \in Nat, u + v <= Steps,
         acc = Accumulated(u), NEW registers, registers = Held(u, v)
  PROVE  Added(registers) = Accumulated(u + v)
<1>1. Steps \in Nat \ {0}
  BY StepsFacts
<1>2. Before \in Nat
  <2>1. 0 \in 0 .. Steps - 1
    BY <1>1
  <2> QED  BY <2>1, NextProduct
<1>3. ASSUME NEW x \in 1..v PROVE (u + x) - 1 \in 0 .. Steps - 1
  BY <1>1
<1>4. Len(registers) = v
  <2>1. registers \in [1..v -> {registers[x] : x \in 1..v}]
    BY DEF Held
  <2> QED  BY <2>1, FunctionIsSeq
<1>5. ASSUME NEW row \in Side, NEW col \in Width
      PROVE  acc[row][col] \o [x \in 1..v |->
                [call |-> call, a |-> registers[x].a[row], b |-> registers[x].b[col]]]
              = Sum(z + row, j + col, Before + (u + v))
  <2> DEFINE more == [x \in 1..v |->
                [call |-> call, a |-> registers[x].a[row], b |-> registers[x].b[col]]]
  <2>1. ASSUME NEW x \in 1..v
        PROVE  [call |-> call, a |-> registers[x].a[row], b |-> registers[x].b[col]]
                 = Product(z + row, j + col, (Before + u) + x)
    <3>1. PICK y \in 0 .. Steps - 1 : y = (u + x) - 1
      BY <1>3
    <3>2. registers[x] = Registers(y)
      BY <3>1 DEF Held
    <3>3. registers[x].a[row] = AOf(z + row, y) /\ registers[x].b[col] = BOf(j + col, y)
      BY <3>2 DEF Registers
    <3>4. Before + (y + 1) = (Before + u) + x
      BY <1>2, <3>1
    <3>5. Product(z + row, j + col, Before + (y + 1))
            = [call |-> call, a |-> AOf(z + row, y), b |-> BOf(j + col, y)]
      BY NextProduct
    <3> QED  BY <3>3, <3>4, <3>5
  <2>2. PICK w \in Nat : w = Before + u
    BY <1>2
  <2>3. acc[row][col] = Sum(z + row, j + col, w)
    BY <2>2 DEF Accumulated
  <2>4. Sum(z + row, j + col, w) \o more = Sum(z + row, j + col, w + v)
    <3>1. Follow(more, z + row, j + col, w, v)
      BY <2>1, <2>2 DEF Follow
    <3> HIDE DEF more
    <3> QED  BY <3>1, SumExtended
  <2> HIDE DEF more
  <2>5. w + v = Before + (u + v)
    BY <1>2, <2>2
  <2>6. acc[row][col] \o more = Sum(z + row, j + col, Before + (u + v))
    BY <2>3, <2>4, <2>5
  <2> QED  BY <2>6 DEF more
<1> QED  BY <1>4, <1>5 DEF Added, Accumulated

(* The calls before this one.                                              *)
LEMMA BeforeNat == ASSUME Chosen, CallInv, call # 0 PROVE Before \in Nat
<1>1. 0 \in 0 .. Steps - 1
  BY StepsFacts
<1> QED  BY <1>1, NextProduct

(* A block of C, by its row and its column.                                *)
LEMMA BlockPlace ==
  ASSUME Chosen, NEW q \in Blocks
  PROVE  /\ q \div shape.colB \in 0 .. shape.rowA - 1 /\ q % shape.colB \in 0 .. shape.colB - 1
         /\ q = (q \div shape.colB) * shape.colB + (q % shape.colB)
<1>1. PICK d \in Nat \ {0}, u \in Nat : d = shape.colB /\ u = shape.rowA
  BY ShapeFacts DEF Chosen
<1>2. q \in 0 .. u * d - 1 /\ q \in Nat
  <2>1. q \in 0 .. u * d - 1
    BY <1>1 DEF Blocks
  <2>2. PICK w \in Nat : w = u * d
    OBVIOUS
  <2> QED  BY <2>1, <2>2
<1>3. q \div d \in 0 .. u - 1
  BY <1>2, DivRange
<1>4. q % d \in 0 .. d - 1 /\ q = ((q \div d) * d) + (q % d)
  BY <1>2, DivMod
<1> QED  BY <1>1, <1>3, <1>4

(* The block of C at a row and a column.                                   *)
LEMMA PlaceBlock ==
  ASSUME Chosen, NEW row \in 0 .. shape.rowA - 1, NEW col \in 0 .. shape.colB - 1
  PROVE  /\ row * shape.colB + col \in Blocks
         /\ (row * shape.colB + col) \div shape.colB = row
         /\ (row * shape.colB + col) % shape.colB = col
<1>1. PICK d \in Nat \ {0}, u \in Nat : d = shape.colB /\ u = shape.rowA
  BY ShapeFacts DEF Chosen
<1>2. row \in Nat /\ row < u /\ col \in 0 .. d - 1
  BY <1>1
<1>3. row * d + col \in 0 .. u * d - 1
  BY <1>2, ProductRange
<1>4. (row * d + col) \div d = row /\ (row * d + col) % d = col
  BY <1>2, DivModUnique
<1> QED  BY <1>1, <1>3, <1>4 DEF Blocks

(* After zero every block of C is the empty sum.                           *)
LEMMA ZeroStep == ASSUME KernelInv, Zero PROVE KernelInv'
<1>1. /\ UNCHANGED <<design, shape, z, j>> /\ step = "zero" /\ step' = "pass" /\ call' = 1
      /\ c' = [q \in DOMAIN c |-> <<>>] /\ UNCHANGED <<i, ptr, held, acc>>
  BY DEF Zero
<1>2. Chosen' /\ PassInv'
  BY <1>1, StaticPass
<1>3. z = 0 /\ j = 0 /\ DOMAIN c = Blocks
  BY <1>1 DEF KernelInv, PassInv, TileInv
<1>4. CallInv'
  BY <1>1, ShapeFacts DEF KernelInv, Chosen, CallInv
<1>5. LoopInv' /\ HeldInv' /\ AccInv'
  BY <1>1, StaticBlocks DEF KernelInv, LoopInv, HeldInv, AccInv, InPass
<1>6. ASSUME NEW q \in Blocks PROVE BlockInv(q)'
  <2>1. PICK u \in Nat, v \in Nat : u = q \div shape.colB /\ v = q % shape.colB
    BY BlockPlace DEF KernelInv
  <2>2. ~Stored(q)'
    <3>1. ~(u < 0) /\ ~(v < 0)
      OBVIOUS
    <3> QED  BY <1>1, <1>3, <2>1, <3>1 DEF Stored
  <2>3. Before' = 0
    <3>1. PICK d \in Nat : d = Steps
      BY StepsFacts DEF KernelInv
    <3>2. (1 - 1) * d = 0
      OBVIOUS
    <3>3. Steps' = d
      BY <1>1, <3>1, StaticBlocks
    <3> QED  BY <1>1, <3>2, <3>3 DEF Before
  <2>4. Sum(u, v, 0)' = <<>>
    BY DEF Sum
  <2>5. c'[q] = <<>>
    BY <1>1, <1>3
  <2>6. Sum(q \div shape.colB, q % shape.colB, IF Stored(q) THEN call * Steps ELSE Before)'
          = Sum(u, v, 0)'
    BY <1>1, <2>1, <2>2, <2>3
  <2>7. step' # "done"
    BY <1>1
  <2> QED  BY <2>4, <2>5, <2>6, <2>7 DEF BlockInv
<1>7. TileInv'
  BY <1>1, <1>3, <1>6 DEF TileInv, Blocks
<1> QED  BY <1>2, <1>4, <1>5, <1>7 DEF KernelInv

(* The accumulators begin with what the calls before have summed.          *)
LEMMA StartPassStep == ASSUME KernelInv, StartPass PROVE KernelInv'
<1>1. /\ UNCHANGED <<design, shape, z, j, call, c>> /\ step = "pass"
      /\ acc' = [row \in Side |-> [col \in Width |-> Partial(row, col)]]
      /\ ptr' = 0 /\ i' = 0 /\ held' = <<>>
      /\ step' = IF design.kernel.pipelined THEN "prologue" ELSE "loop"
  BY DEF StartPass
<1>2. step' \in {"prologue", "loop"} /\ InPass'
  BY <1>1 DEF InPass
<1>3. Chosen' /\ PassInv'
  BY <1>1, <1>2, StaticPass
<1>4. CallInv' /\ call # 0
  BY <1>1, <1>2 DEF KernelInv, CallInv
<1>5. TileInv'
  BY <1>1, <1>2, StaticTile
<1>6. LoopInv'
  <2>1. Steps \in Nat /\ KernelShape(design) /\ Steps' = Steps
    BY <1>1, StepsFacts, StaticBlocks DEF KernelInv
  <2>2. 0 \in 0 .. Steps /\ 0 <= design.kernel.unroll /\ 0 % design.kernel.unroll = 0
    BY <2>1 DEF KernelShape
  <2>3. Len(<<>>) = 0
    OBVIOUS
  <2> QED  BY <1>1, <1>2, <2>1, <2>2, <2>3 DEF LoopInv
<1>7. AccInv'
  <2>1. Before' = Before /\ Before \in Nat
    BY <1>1, <1>4, BeforeNat, StaticBlocks DEF Before, KernelInv
  <2>2. Macs' = 0
    BY <1>1, <1>2 DEF Macs
  <2>3. ASSUME NEW row \in Side, NEW col \in Width
        PROVE  Partial(row, col) = Sum(z + row, j + col, Before)
    <3>1. PICK x \in 0 .. shape.rowA - 1, y \in 0 .. shape.colB - 1 :
            x = z + row /\ y = j + col /\ row \in Nat /\ col \in Nat
      BY PassFacts DEF KernelInv
    <3>2. PICK q \in Blocks : q = x * shape.colB + y
      BY PlaceBlock DEF KernelInv
    <3>3. q \div shape.colB = x /\ q % shape.colB = y
      BY <3>2, PlaceBlock DEF KernelInv
    <3>4. CAddress(row, col) = q
      <4>1. PICK d \in Nat, f \in Nat : d = shape.colB /\ f = x * d
        BY ShapeFacts DEF KernelInv, Chosen
      <4>2. j \in Nat
        BY DEF KernelInv, PassInv
      <4> QED  BY <3>1, <3>2, <4>1, <4>2 DEF CAddress
    <3>5. ~Stored(q)
      <4>1. z \in Nat /\ j \in Nat
        BY DEF KernelInv, PassInv
      <4> QED  BY <3>1, <3>3, <4>1 DEF Stored
    <3>6. c[q] = Sum(x, y, Before)
      BY <1>1, <3>3, <3>5 DEF KernelInv, TileInv, BlockInv
    <3> QED  BY <3>1, <3>4, <3>6 DEF Partial
  <2>4. acc' = [row \in Side |-> [col \in Width |-> Sum(z + row, j + col, Before)]]
    BY <1>1, <2>3
  <2>5. (Before + Macs)' = Before
    BY <2>1, <2>2
  <2>6. [row \in Side |-> [col \in Width |-> Sum(z + row, j + col, Before + Macs)]]'
          = [row \in Side |-> [col \in Width |-> Sum(z + row, j + col, Before)]]
    BY <1>1, <2>5, StaticBlocks DEF Side, Width
  <2> QED  BY <2>4, <2>6 DEF AccInv
<1>8. HeldInv'
  <2>1. Held(0, 0)' = <<>>
    BY DEF Held
  <2>2. PICK h : h = held' /\ h = <<>> /\ Len(h) = 0
    BY <1>1
  <2>3. 0 - 0 = 0
    OBVIOUS
  <2> QED  BY <1>1, <2>1, <2>2, <2>3 DEF HeldInv
<1> QED  BY <1>3, <1>4, <1>5, <1>6, <1>7, <1>8 DEF KernelInv

(* What is loaded from step u of K on, of so many steps.                   *)
LEMMA LoadedIs ==
  ASSUME NEW u \in Nat, NEW v \in Nat
  PROVE  Loaded(u, v) = Held(u, v) /\ Len(Held(u, v)) = v
<1>1. Loaded(u, v) = Held(u, v)
  BY OperandsAre DEF Loaded, Held
<1>2. Held(u, v) \in [1..v -> {Registers((u + x) - 1) : x \in 1..v}]
  BY DEF Held
<1> QED  BY <1>1, <1>2, FunctionIsSeq

(* What a step that is no Store leaves alone of the registers.             *)
LEMMA StaticRegisters ==
  ASSUME UNCHANGED <<design, shape, call, z, j>>
  PROVE  /\ Before' = Before /\ Steps' = Steps
         /\ \A u, v : Held(u, v)' = Held(u, v)
         /\ \A u : Accumulated(u)' = Accumulated(u)
<1>1. Side' = Side /\ Width' = Width /\ Steps' = Steps
  BY StaticBlocks DEF Side, Width
<1>2. Before' = Before
  BY <1>1 DEF Before
<1>3. ASSUME NEW x PROVE Registers(x)' = Registers(x)
  BY <1>1, StaticBlocks DEF Registers
<1>4. ASSUME NEW u, NEW v PROVE Held(u, v)' = Held(u, v)
  BY <1>3 DEF Held
<1>5. ASSUME NEW u PROVE Accumulated(u)' = Accumulated(u)
  BY <1>1, <1>2, StaticBlocks DEF Accumulated
<1> QED  BY <1>1, <1>2, <1>4, <1>5

(* The sizes of the loop of a kernel.                                      *)
LEMMA LoopFacts ==
  ASSUME KernelInv
  PROVE  /\ shape.colA \in Nat \ {0} /\ Steps \in Nat \ {0} /\ i \in Nat /\ i <= Steps
         /\ ptr \in Nat /\ ptr <= Steps
         /\ KernelShape(design)
         /\ design.kernel.unroll \in {1, 2} /\ design.kernel.pipelined \in BOOLEAN
<1>1. shape.colA \in Nat \ {0} /\ Steps \in Nat \ {0} /\ KernelShape(design)
  BY StepsFacts DEF KernelInv
<1>2. i \in 0 .. Steps /\ ptr \in 0 .. Steps
  BY DEF KernelInv, LoopInv
<1> QED  BY <1>1, <1>2 DEF KernelShape

(* The registers after steps u to u + v - 1 of K have been loaded.         *)
LEMMA HeldLoaded ==
  ASSUME UNCHANGED <<design, shape, call, z, j>>, NEW u \in Nat, NEW v \in Nat,
         ptr' = u + v, held' = Held(u, v)
  PROVE  HeldInv' /\ Len(held)' = v
<1>1. PICK h : h = held' /\ h = Held(u, v) /\ Len(h) = v
  BY LoadedIs
<1>2. PICK p \in Nat : p = ptr' /\ p = u + v
  OBVIOUS
<1>3. v <= p /\ p - v = u
  BY <1>2
<1>4. Held(u, v)' = Held(u, v)
  BY StaticRegisters
<1> QED  BY <1>1, <1>2, <1>3, <1>4 DEF HeldInv

(* The plain and the unrolled loop add the steps of K they load.           *)
LEMMA LoadThenMacStep == ASSUME KernelInv, LoadThenMac PROVE KernelInv'
<1>1. /\ UNCHANGED <<design, shape, z, j, call, c>> /\ step = "loop" /\ step' = "loop"
      /\ ~design.kernel.pipelined /\ i < shape.colA /\ i' = i + design.kernel.unroll
      /\ ptr' = ptr + design.kernel.unroll
  BY DEF LoadThenMac, MoreK, Load
<1>2. held' = [x \in 1..design.kernel.unroll |-> Operands(ptr + x - 1)]
  <2>1. Load(design.kernel.unroll)
    BY DEF LoadThenMac
  <2> QED  BY ONLY <2>1 DEF Load
<1>3. acc' = Added(held')
  BY DEF LoadThenMac, Mac, Multiplied, Added
<1>4. InPass /\ InPass'
  BY <1>1 DEF InPass
<1>5. Chosen' /\ PassInv'
  BY <1>1, StaticPass
<1>6. TileInv'
  BY <1>1, <1>4, StaticTile
<1>7. CallInv' /\ call # 0
  BY <1>1 DEF KernelInv, CallInv
<1>8. PICK u \in Nat, v \in {1, 2} : u = i /\ v = design.kernel.unroll
  BY LoopFacts
<1>9. ptr = u /\ u + v <= Steps /\ (u + v) % v = 0
  <2>1. i % v = 0 /\ ptr = i
    BY <1>1, <1>8 DEF KernelInv, LoopInv
  <2>2. PICK w \in Nat, y \in Nat : w = Steps /\ y = shape.colA /\ w % v = 0 /\ y <= w /\ u < y
    BY <1>1, <1>8, StepsFacts DEF KernelInv
  <2>3. u % v = 0
    BY <1>8, <2>1
  <2>4. u + v <= w /\ (u + v) % v = 0
    BY <2>2, <2>3
  <2> QED  BY <1>8, <2>1, <2>2, <2>4
<1>10. PICK h : h = held'
  OBVIOUS
<1>11. h = Held(u, v) /\ v \in Nat
  <2>1. h = Loaded(u, v)
    BY <1>2, <1>8, <1>9, <1>10 DEF Loaded
  <2>2. v \in Nat
    OBVIOUS
  <2> QED  BY <2>1, <2>2, LoadedIs
<1>12. HeldInv' /\ Len(held)' = v
  BY <1>1, <1>8, <1>9, <1>10, <1>11, HeldLoaded
<1>13. LoopInv'
  <2>1. /\ i' \in 0 .. Steps /\ ptr' = i' /\ i' % v = 0 /\ Steps' = Steps
    BY <1>1, <1>8, <1>9, LoopFacts, StaticRegisters
  <2> QED  BY <1>1, <1>8, <1>11, <1>12, <2>1 DEF LoopInv
<1>14. AccInv'
  <2>1. acc = Accumulated(u)
    <3>1. Macs = u
      BY <1>1, <1>8 DEF Macs
    <3> QED  BY <1>4, <3>1 DEF KernelInv, AccInv, Accumulated
  <2>2. Added(h) = Accumulated(u + v)
    BY <1>7, <1>9, <1>11, <2>1, AddedSum DEF KernelInv
  <2>3. acc' = Accumulated(u + v)
    BY <1>3, <1>10, <2>2
  <2>4. Macs' = u + v
    BY <1>1, <1>8 DEF Macs
  <2>5. acc' = Accumulated(u + v)'
    BY <1>1, <2>3, StaticRegisters
  <2> QED  BY <2>4, <2>5 DEF AccInv, Accumulated
<1> QED  BY <1>5, <1>6, <1>7, <1>12, <1>13, <1>14 DEF KernelInv

(* A loop that ends has made all its steps of this call.                   *)
LEMMA EndLoopStep == ASSUME KernelInv, EndLoop PROVE KernelInv'
<1>1. /\ UNCHANGED <<design, shape, z, j, call, c, i, ptr, held, acc>>
      /\ step = "loop" /\ step' = "store" /\ ~design.kernel.pipelined /\ ~(i < shape.colA)
  BY DEF EndLoop, MoreK
<1>2. InPass /\ InPass'
  BY <1>1 DEF InPass
<1>3. Chosen' /\ PassInv'
  BY <1>1, StaticPass
<1>4. TileInv'
  BY <1>1, <1>2, StaticTile
<1>5. CallInv'
  BY <1>1 DEF KernelInv, CallInv
<1>6. LoopInv' /\ HeldInv'
  <2>1. Held(ptr - Len(held), Len(held))' = Held(ptr - Len(held), Len(held))
    <3>1. PICK u, v : u = ptr - Len(held) /\ v = Len(held)
      OBVIOUS
    <3>2. Held(u, v)' = Held(u, v)
      BY <1>1, StaticRegisters
    <3>3. (ptr - Len(held))' = u /\ Len(held)' = v
      BY <1>1, <3>1
    <3> QED  BY <3>1, <3>2, <3>3
  <2>2. Steps' = Steps
    BY <1>1, StaticRegisters
  <2>3. Len(held) <= ptr /\ held = Held(ptr - Len(held), Len(held))
    BY <1>1 DEF KernelInv, HeldInv
  <2>4. HeldInv'
    BY <1>1, <2>1, <2>3 DEF HeldInv
  <2> QED  BY <1>1, <2>2, <2>4 DEF KernelInv, LoopInv
<1>7. AccInv'
  <2>1. i = Steps
    <3>1. PICK u \in {1, 2}, x \in Nat, y \in Nat, w \in Nat :
            u = design.kernel.unroll /\ x = i /\ y = shape.colA /\ w = Steps
      BY LoopFacts
    <3>2. /\ x % u = 0 /\ w % u = 0 /\ x <= w /\ w < y + u /\ ~(x < y)
      BY <1>1, <3>1, LoopFacts, StepsFacts DEF KernelInv, LoopInv
    <3>3. x = w
      BY <3>2
    <3> QED  BY <3>1, <3>3
  <2>2. Macs = i /\ Macs' = i
    BY <1>1, <2>1, StaticRegisters DEF Macs
  <2>3. acc = Accumulated(i)
    BY <1>2, <2>2 DEF KernelInv, AccInv, Accumulated
  <2>4. PICK u : u = i
    OBVIOUS
  <2>5. acc' = Accumulated(u)'
    BY <1>1, <2>3, <2>4, StaticRegisters
  <2>6. Macs' = u
    BY <2>2, <2>4
  <2> QED  BY <2>5, <2>6 DEF AccInv, Accumulated
<1> QED  BY <1>3, <1>4, <1>5, <1>6, <1>7 DEF KernelInv

(* The pipelined loop holds the first step of K.                           *)
LEMMA PrologueStep == ASSUME KernelInv, Prologue PROVE KernelInv'
<1>1. /\ UNCHANGED <<design, shape, z, j, call, c, acc>> /\ step = "prologue" /\ step' = "loop"
      /\ i' = 1 /\ ptr' = ptr + 1
  BY DEF Prologue, Load
<1>2. held' = [x \in 1..1 |-> Operands(ptr + x - 1)]
  BY DEF Prologue, Load
<1>3. InPass /\ InPass'
  BY <1>1 DEF InPass
<1>4. Chosen' /\ PassInv'
  BY <1>1, StaticPass
<1>5. TileInv'
  BY <1>1, <1>3, StaticTile
<1>6. CallInv'
  BY <1>1 DEF KernelInv, CallInv
<1>7. ptr = 0 /\ design.kernel.pipelined
  BY <1>1 DEF KernelInv, LoopInv
<1>8. PICK h : h = held'
  OBVIOUS
<1>9. PICK u \in Nat : u = 0 /\ h = Held(u, 1)
  <2>1. PICK u \in Nat : u = 0
    OBVIOUS
  <2>2. h = Loaded(u, 1)
    BY <1>2, <1>7, <1>8, <2>1 DEF Loaded
  <2> QED  BY <2>1, <2>2, LoadedIs
<1>10. HeldInv' /\ Len(held)' = 1
  <2>1. ptr' = u + 1 /\ 1 \in Nat
    BY <1>1, <1>7, <1>9
  <2> QED  BY <1>1, <1>8, <1>9, <2>1, HeldLoaded
<1>11. LoopInv'
  <2>1. i' \in 0 .. Steps /\ ptr' = i' /\ i' # 0 /\ Steps' = Steps
    BY <1>1, <1>7, LoopFacts, StaticRegisters
  <2>2. 1 <= design.kernel.unroll
    BY LoopFacts
  <2> QED  BY <1>1, <1>7, <1>10, <2>1, <2>2 DEF LoopInv
<1>12. AccInv'
  <2>1. Macs = 0 /\ Macs' = 0
    BY <1>1, <1>7 DEF Macs
  <2>2. acc = Accumulated(0)
    BY <1>3, <2>1 DEF KernelInv, AccInv, Accumulated
  <2>3. acc' = Accumulated(0)'
    BY <1>1, <2>2, StaticRegisters
  <2> QED  BY <2>1, <2>3 DEF AccInv, Accumulated
<1> QED  BY <1>4, <1>5, <1>6, <1>10, <1>11, <1>12 DEF KernelInv

(* The step of K that is held is multiplied.                               *)
LEMMA MacHeld ==
  ASSUME KernelInv, step = "loop", design.kernel.pipelined, Mac(held)
  PROVE  i \in Nat \ {0} /\ acc' = Accumulated(i)
<1>1. PICK u \in Nat : i = u + 1 /\ u + 1 <= Steps
  <2>1. i \in Nat /\ i # 0 /\ i <= Steps
    BY LoopFacts DEF KernelInv, LoopInv
  <2>2. i - 1 \in Nat /\ i = (i - 1) + 1
    BY <2>1
  <2> QED  BY <2>1, <2>2
<1>2. acc = Accumulated(u)
  <2>1. Macs = u
    BY <1>1 DEF Macs
  <2> QED  BY <2>1 DEF KernelInv, AccInv, InPass, Accumulated
<1>3. held = Held(u, 1)
  <2>1. Len(held) = 1 /\ ptr = i
    BY DEF KernelInv, LoopInv
  <2>2. i - 1 = u
    BY <1>1
  <2> QED  BY <2>1, <2>2 DEF KernelInv, HeldInv
<1>4. Added(held) = Accumulated(u + 1)
  <2>1. call # 0
    BY DEF KernelInv, CallInv
  <2> QED  BY <1>1, <1>2, <1>3, <2>1, AddedSum DEF KernelInv
<1>5. acc' = Added(held)
  BY DEF Mac, Multiplied, Added
<1> QED  BY <1>1, <1>4, <1>5

(* The pipelined loop adds the step it holds and then holds the next.      *)
LEMMA MacThenLoadStep == ASSUME KernelInv, MacThenLoad PROVE KernelInv'
<1>1. /\ UNCHANGED <<design, shape, z, j, call, c>> /\ step = "loop" /\ step' = "loop"
      /\ design.kernel.pipelined /\ i < shape.colA /\ i' = i + 1 /\ ptr' = ptr + 1
      /\ Mac(held)
  BY DEF MacThenLoad, MoreK, Load
<1>2. held' = [x \in 1..1 |-> Operands(ptr + x - 1)]
  BY DEF MacThenLoad, Load
<1>3. InPass /\ InPass'
  BY <1>1 DEF InPass
<1>4. Chosen' /\ PassInv'
  BY <1>1, StaticPass
<1>5. TileInv'
  BY <1>1, <1>3, StaticTile
<1>6. CallInv'
  BY <1>1 DEF KernelInv, CallInv
<1>7. PICK u \in Nat : u = i
  BY LoopFacts
<1>8. ptr = u /\ u + 1 <= Steps
  <2>1. ptr = i
    BY <1>1 DEF KernelInv, LoopInv
  <2> QED  BY <1>1, <1>7, <2>1, LoopFacts, StepsFacts DEF KernelInv
<1>9. PICK h : h = held'
  OBVIOUS
<1>10. h = Held(u, 1)
  <2>1. h = Loaded(u, 1)
    BY <1>2, <1>8, <1>9 DEF Loaded
  <2> QED  BY <2>1, LoadedIs
<1>11. HeldInv' /\ Len(held)' = 1
  <2>1. ptr' = u + 1 /\ 1 \in Nat
    BY <1>1, <1>8
  <2> QED  BY <1>1, <1>9, <1>10, <2>1, HeldLoaded
<1>12. LoopInv'
  <2>1. i' \in 0 .. Steps /\ ptr' = i' /\ i' # 0 /\ Steps' = Steps
    BY <1>1, <1>7, <1>8, LoopFacts, StaticRegisters
  <2>2. 1 <= design.kernel.unroll
    BY LoopFacts
  <2> QED  BY <1>1, <1>11, <2>1, <2>2 DEF LoopInv
<1>13. AccInv'
  <2>1. acc' = Accumulated(u)
    BY <1>1, <1>7, MacHeld
  <2>2. acc' = Accumulated(u)'
    BY <1>1, <2>1, StaticRegisters
  <2>3. Macs' = u
    BY <1>1, <1>7 DEF Macs
  <2> QED  BY <2>2, <2>3 DEF AccInv, Accumulated
<1> QED  BY <1>4, <1>5, <1>6, <1>11, <1>12, <1>13 DEF KernelInv

(* The last step of K that is held is added.                               *)
LEMMA EpilogueStep == ASSUME KernelInv, Epilogue PROVE KernelInv'
<1>1. /\ UNCHANGED <<design, shape, z, j, call, c, i, ptr, held>> /\ step = "loop"
      /\ step' = "store" /\ design.kernel.pipelined /\ ~(i < shape.colA) /\ Mac(held)
  BY DEF Epilogue, MoreK
<1>2. InPass /\ InPass'
  BY <1>1 DEF InPass
<1>3. Chosen' /\ PassInv'
  BY <1>1, StaticPass
<1>4. TileInv'
  BY <1>1, <1>2, StaticTile
<1>5. CallInv'
  BY <1>1 DEF KernelInv, CallInv
<1>6. LoopInv' /\ HeldInv'
  <2>1. Held(ptr - Len(held), Len(held))' = Held(ptr - Len(held), Len(held))
    <3>1. PICK u, v : u = ptr - Len(held) /\ v = Len(held)
      OBVIOUS
    <3>2. Held(u, v)' = Held(u, v)
      BY <1>1, StaticRegisters
    <3>3. (ptr - Len(held))' = u /\ Len(held)' = v
      BY <1>1, <3>1
    <3> QED  BY <3>1, <3>2, <3>3
  <2>2. Steps' = Steps
    BY <1>1, StaticRegisters
  <2>3. Len(held) <= ptr /\ held = Held(ptr - Len(held), Len(held))
    BY <1>1 DEF KernelInv, HeldInv
  <2>4. HeldInv'
    BY <1>1, <2>1, <2>3 DEF HeldInv
  <2> QED  BY <1>1, <2>2, <2>4 DEF KernelInv, LoopInv
<1>7. AccInv'
  <2>1. PICK u : u = i /\ u = Steps
    <3>1. Steps = shape.colA
      BY <1>1, LoopFacts, StepsFacts DEF KernelInv, KernelShape
    <3> QED  BY <1>1, <3>1, LoopFacts
  <2>2. acc' = Accumulated(u)
    BY <1>1, <2>1, MacHeld
  <2>3. acc' = Accumulated(u)'
    BY <1>1, <2>2, StaticRegisters
  <2>4. Macs' = u
    BY <1>1, <2>1, StaticRegisters DEF Macs
  <2> QED  BY <2>3, <2>4 DEF AccInv, Accumulated
<1> QED  BY <1>3, <1>4, <1>5, <1>6, <1>7 DEF KernelInv

(* The blocks that a pass adds up, by address.                             *)
OfPass(q) == \E row \in Side, col \in Width : CAddress(row, col) = q

(* A block is of a pass when its row and its column are.                   *)
LEMMA OfPassIs ==
  ASSUME KernelInv, NEW q \in Blocks
  PROVE  /\ OfPass(q) <=> /\ (q \div shape.colB) - z \in Side
                          /\ (q % shape.colB) - j \in Width
         /\ (q \div shape.colB) \in Nat /\ (q % shape.colB) \in Nat
<1>1. PICK x \in 0 .. shape.rowA - 1, y \in 0 .. shape.colB - 1 :
        x = q \div shape.colB /\ y = q % shape.colB /\ q = x * shape.colB + y
  BY BlockPlace DEF KernelInv
<1>2. PICK d \in Nat \ {0}, z0 \in Nat, j0 \in Nat : d = shape.colB /\ z0 = z /\ j0 = j
  BY ShapeFacts DEF KernelInv, Chosen, PassInv
<1>3. x \in Nat /\ y \in Nat
  BY <1>1, ShapeFacts DEF KernelInv, Chosen
<1>4. ASSUME NEW row \in Side, NEW col \in Width
      PROVE  CAddress(row, col) = q <=> row = x - z0 /\ col = y - j0
  <2>1. PICK u \in 0 .. shape.rowA - 1, v \in 0 .. shape.colB - 1 :
          u = z0 + row /\ v = j0 + col /\ row \in Nat /\ col \in Nat
    BY <1>2, PassFacts DEF KernelInv
  <2>2. u \in Nat /\ v \in Nat
    BY <2>1
  <2>3. CAddress(row, col) = u * d + v
    <3>1. PICK f \in Nat : f = u * d
      BY <2>2
    <3> QED  BY <1>2, <2>1, <3>1 DEF CAddress
  <2>4. (u * d + v) \div d = u /\ (u * d + v) % d = v
    BY <1>2, <2>1, PlaceBlock DEF KernelInv
  <2>5. u * d + v = q <=> u = x /\ v = y
    BY <1>1, <1>2, <2>4
  <2>6. u = x /\ v = y <=> row = x - z0 /\ col = y - j0
    BY <1>3, <2>1, <2>2
  <2> QED  BY <2>3, <2>5, <2>6
<1>5. OfPass(q) <=> x - z0 \in Side /\ y - j0 \in Width
  BY <1>4 DEF OfPass
<1> QED  BY <1>1, <1>2, <1>3, <1>5

(* The blocks that have been stored once the pass is: those of the passes  *)
(* before the next one.                                                    *)
StoredNow(q) == Stored(q) \/ OfPass(q)

(* What Store does, case by case: the next pass of a row, the first of the *)
(* next rows, or the end of the call.                                      *)
LEMMA StoreFacts ==
  ASSUME KernelInv, Store
  PROVE  /\ UNCHANGED <<design, shape, i, ptr, held, acc>> /\ step = "store" /\ call # 0
         /\ c' = [q \in DOMAIN c |-> IF OfPass(q)
                                     THEN acc[(q \div shape.colB) - z][(q % shape.colB) - j]
                                     ELSE c[q]]
         /\ \/ /\ z' = z /\ j' = j + design.kernel.cols /\ j + design.kernel.cols < shape.colB
               /\ call' = call /\ step' = "pass"
            \/ /\ z' = z + design.kernel.rows /\ j' = 0 /\ ~(j + design.kernel.cols < shape.colB)
               /\ z + design.kernel.rows < shape.rowA
               /\ call' = call /\ step' = "pass"
            \/ /\ z' = 0 /\ j' = 0 /\ ~(j + design.kernel.cols < shape.colB)
               /\ ~(z + design.kernel.rows < shape.rowA)
               /\ \/ call < shape.calls /\ call' = call + 1 /\ step' = "pass"
                  \/ call = shape.calls /\ call' = call /\ step' = "done"
<1>1. /\ UNCHANGED <<design, shape, i, ptr, held, acc>> /\ step = "store"
      /\ c' = [q \in DOMAIN c |-> IF \E row \in Side, col \in Width : CAddress(row, col) = q
                                  THEN acc[(q \div shape.colB) - z][(q % shape.colB) - j]
                                  ELSE c[q]]
      /\ z' = (IF NextPass[1] >= shape.rowA THEN 0 ELSE NextPass[1]) /\ j' = NextPass[2]
      /\ call' = IF NextPass[1] >= shape.rowA /\ call < shape.calls THEN call + 1 ELSE call
      /\ step' = IF NextPass[1] >= shape.rowA /\ call = shape.calls THEN "done" ELSE "pass"
  BY DEF Store
<1>2. /\ z \in Nat /\ z + design.kernel.rows <= shape.rowA
      /\ j \in Nat /\ call \in 0 .. shape.calls
  BY DEF KernelInv, PassInv, CallInv
<1>3. PICK u \in {1, 2}, v \in {1, 2, 4}, w \in Nat, y \in Nat, x \in Nat :
        /\ u = design.kernel.rows /\ v = design.kernel.cols
        /\ w = shape.rowA /\ y = shape.colB /\ x = shape.calls
  BY PassFacts, ShapeFacts DEF KernelInv, Chosen, KernelShape
<1>4. call # 0
  BY <1>1 DEF KernelInv, CallInv
<1>5. CASE j + v < y
  <2>1. NextPass[1] = z /\ NextPass[2] = j + v
    BY <1>3, <1>5 DEF NextPass
  <2>2. ~(z >= w)
    BY <1>2, <1>3
  <2> QED  BY <1>1, <1>3, <1>4, <1>5, <2>1, <2>2 DEF OfPass
<1>6. CASE ~(j + v < y)
  <2>1. NextPass[1] = z + u /\ NextPass[2] = 0
    BY <1>3, <1>6 DEF NextPass
  <2>2. CASE z + u < w
    <3>1. ~(z + u >= w)
      BY <1>2, <2>2
    <3> QED  BY <1>1, <1>3, <1>4, <1>6, <2>1, <2>2, <3>1 DEF OfPass
  <2>3. CASE ~(z + u < w)
    <3>1. z + u >= w /\ (call < x \/ call = x)
      BY <1>2, <1>3, <2>3
    <3>2. z' = 0 /\ j' = 0
      BY <1>1, <1>3, <2>1, <3>1
    <3>3. CASE call < x
      <4>1. call # x
        BY <1>2, <1>3, <3>3
      <4>2. call' = call + 1 /\ step' = "pass"
        BY <1>1, <1>3, <2>1, <3>1, <3>3, <4>1
      <4> QED  BY <1>1, <1>3, <1>4, <1>6, <2>3, <3>2, <3>3, <4>2 DEF OfPass
    <3>4. CASE call = x
      <4>1. ~(call < x)
        BY <1>2, <1>3, <3>4
      <4>2. call' = call /\ step' = "done"
        BY <1>1, <1>3, <2>1, <3>1, <3>4, <4>1
      <4> QED  BY <1>1, <1>3, <1>4, <1>6, <2>3, <3>2, <3>4, <4>2 DEF OfPass
    <3> QED  BY <3>1, <3>3, <3>4
  <2> QED  BY <2>2, <2>3
<1> QED  BY <1>5, <1>6

(* What is in the tile of C when a pass has been stored.                   *)
LEMMA StoredBlocks ==
  ASSUME KernelInv, Store, NEW q \in Blocks
  PROVE  c'[q] = Sum(q \div shape.colB, q % shape.colB,
                     IF StoredNow(q) THEN call * Steps ELSE Before)
<1>1. PICK x \in Nat, y \in Nat : x = q \div shape.colB /\ y = q % shape.colB
  BY OfPassIs
<1>2. c'[q] = IF OfPass(q) THEN acc[x - z][y - j] ELSE c[q]
  <2>1. q \in DOMAIN c
    BY DEF KernelInv, TileInv
  <2> QED  BY <1>1, <2>1, StoreFacts
<1>3. c[q] = Sum(x, y, IF Stored(q) THEN call * Steps ELSE Before)
  <2>1. BlockInv(q) /\ InPass
    BY StoreFacts DEF KernelInv, TileInv, InPass
  <2> QED  BY <1>1, <2>1 DEF BlockInv
<1>4. CASE OfPass(q)
  <2>1. x - z \in Side /\ y - j \in Width
    BY <1>1, <1>4, OfPassIs
  <2>2. Macs = Steps /\ InPass
    BY StoreFacts DEF Macs, InPass
  <2>3. acc = Accumulated(Steps)
    BY <2>2 DEF KernelInv, AccInv, Accumulated
  <2>4. acc[x - z][y - j] = Sum(z + (x - z), j + (y - j), Before + Steps)
    BY <2>1, <2>3 DEF Accumulated
  <2>5. z + (x - z) = x /\ j + (y - j) = y
    <3>1. z \in Nat /\ j \in Nat
      BY DEF KernelInv, PassInv
    <3> QED  BY <3>1
  <2>6. Before + Steps = call * Steps
    <3>1. PICK u \in Nat, v \in Nat : u = call /\ v = Steps
      BY StepsFacts, ShapeFacts DEF KernelInv, Chosen, CallInv
    <3>2. (u - 1) * v + v = u * v
      OBVIOUS
    <3> QED  BY <3>1, <3>2 DEF Before
  <2>7. StoredNow(q)
    BY <1>4 DEF StoredNow
  <2> QED  BY <1>1, <1>2, <1>4, <2>4, <2>5, <2>6, <2>7
<1>5. CASE ~OfPass(q)
  <2>1. StoredNow(q) <=> Stored(q)
    BY <1>5 DEF StoredNow
  <2> QED  BY <1>1, <1>2, <1>3, <1>5, <2>1
<1> QED  BY <1>4, <1>5

(* The passes cover the tile, and none is made twice in a call.            *)
LEMMA PassesInOrder ==
  ASSUME KernelInv, Store, NEW q \in Blocks
  PROVE  /\ j + design.kernel.cols < shape.colB \/ z + design.kernel.rows < shape.rowA =>
              (Stored(q)' <=> StoredNow(q))
         /\ ~(j + design.kernel.cols < shape.colB) /\ ~(z + design.kernel.rows < shape.rowA) =>
              StoredNow(q) /\ ~Stored(q)'
<1>1. PICK u \in {1, 2}, v \in {1, 2, 4}, w1 \in Nat, w2 \in Nat, z0 \in Nat, j0 \in Nat :
        /\ u = design.kernel.rows /\ v = design.kernel.cols
        /\ w1 = shape.rowA /\ w2 = shape.colB /\ z0 = z /\ j0 = j
  BY PassFacts, ShapeFacts DEF KernelInv, Chosen, KernelShape, PassInv
<1>2. PICK x \in Nat, y \in Nat : x = q \div shape.colB /\ y = q % shape.colB /\ x < w1 /\ y < w2
  BY <1>1, BlockPlace DEF KernelInv
<1>3. z0 + u <= w1 /\ j0 + v <= w2
  BY <1>1 DEF KernelInv, PassInv
<1>4. OfPass(q) <=> /\ z0 <= x /\ x < z0 + u /\ j0 <= y /\ y < j0 + v
  <2>1. OfPass(q) <=> x - z0 \in 0 .. u - 1 /\ y - j0 \in 0 .. v - 1
    BY <1>1, <1>2, OfPassIs DEF Side, Width
  <2>2. /\ x - z0 \in 0 .. u - 1 <=> z0 <= x /\ x < z0 + u
        /\ y - j0 \in 0 .. v - 1 <=> j0 <= y /\ y < j0 + v
    OBVIOUS
  <2> QED  BY <2>1, <2>2
<1>5. Stored(q) <=> x < z0 \/ (x < z0 + u /\ y < j0)
  BY <1>1, <1>2 DEF Stored
<1>6. Stored(q)' <=> x < z' \/ (x < z' + u /\ y < j')
  BY <1>1, <1>2, StoreFacts DEF Stored
<1>7. CASE j0 + v < w2
  <2>1. z' = z0 /\ j' = j0 + v
    BY <1>1, <1>7, StoreFacts
  <2>2. (x < z0 \/ (x < z0 + u /\ y < j0 + v))
          <=> (x < z0 \/ (x < z0 + u /\ y < j0))
               \/ (z0 <= x /\ x < z0 + u /\ j0 <= y /\ y < j0 + v)
    OBVIOUS
  <2>3. Stored(q)' <=> StoredNow(q)
    BY <1>4, <1>5, <1>6, <2>1, <2>2 DEF StoredNow
  <2> QED  BY <1>1, <1>7, <2>3
<1>8. CASE ~(j0 + v < w2)
  <2>1. y < j0 + v
    BY <1>2, <1>3, <1>8
  <2>2. StoredNow(q) <=> x < z0 + u
    <3>1. (x < z0 \/ (x < z0 + u /\ y < j0))
               \/ (z0 <= x /\ x < z0 + u /\ j0 <= y /\ y < j0 + v)
            <=> x < z0 + u
      BY <2>1
    <3> QED  BY <1>4, <1>5, <3>1 DEF StoredNow
  <2>3. CASE z0 + u < w1
    <3>1. z' = z0 + u /\ j' = 0
      BY <1>1, <1>8, <2>3, StoreFacts
    <3>2. (x < z0 + u \/ (x < (z0 + u) + u /\ y < 0)) <=> x < z0 + u
      BY <1>2
    <3> QED  BY <1>1, <1>6, <2>2, <2>3, <3>1, <3>2
  <2>4. CASE ~(z0 + u < w1)
    <3>1. z' = 0 /\ j' = 0
      BY <1>1, <1>8, <2>4, StoreFacts
    <3>2. ~(x < 0) /\ ~(y < 0) /\ x < z0 + u
      BY <1>2, <1>3, <2>4
    <3> QED  BY <1>1, <1>6, <1>8, <2>2, <2>4, <3>1, <3>2
  <2> QED  BY <2>3, <2>4
<1> QED  BY <1>7, <1>8

(* A pass stores its sums and leaves the other blocks alone.               *)
LEMMA StoreStep == ASSUME KernelInv, Store PROVE KernelInv'
<1>1. UNCHANGED <<design, shape, i, ptr, held, acc>> /\ step = "store" /\ call # 0
  BY StoreFacts
<1>2. step' \in {"pass", "done"} /\ ~InPass'
  BY StoreFacts DEF InPass
<1>3. Chosen'
  BY <1>1 DEF KernelInv, Chosen
<1>4. CallInv'
  <2>1. call \in 0 .. shape.calls /\ shape.calls \in Nat
    BY ShapeFacts DEF KernelInv, CallInv, Chosen
  <2>2. /\ call' \in 0 .. shape.calls /\ call' # 0
        /\ step' = "done" => call' = shape.calls
    BY <1>1, <2>1, StoreFacts
  <2> QED  BY <1>1, <1>2, <2>2 DEF CallInv
<1>5. PassInv'
  <2>1. PICK u \in {1, 2}, v \in {1, 2, 4}, w1 \in Nat, w2 \in Nat, z0 \in Nat, j0 \in Nat :
          /\ u = design.kernel.rows /\ v = design.kernel.cols
          /\ w1 = shape.rowA /\ w2 = shape.colB /\ z0 = z /\ j0 = j
    BY PassFacts, ShapeFacts DEF KernelInv, Chosen, KernelShape, PassInv
  <2>2. /\ z0 % u = 0 /\ z0 + u <= w1 /\ j0 % v = 0 /\ j0 + v <= w2
    BY <2>1 DEF KernelInv, PassInv
  <2>3. w1 % u = 0 /\ w2 % v = 0
    BY <2>1 DEF KernelInv, Chosen, Fits
  <2>4. 0 % u = 0 /\ 0 % v = 0 /\ 0 + u <= w1 /\ 0 + v <= w2
    BY <2>2
  <2>5. j0 + v < w2 => (j0 + v) % v = 0 /\ (j0 + v) + v <= w2
    BY <2>2, <2>3
  <2>6. z0 + u < w1 => (z0 + u) % u = 0 /\ (z0 + u) + u <= w1
    BY <2>2, <2>3
  <2>7. /\ z' \in Nat /\ z' % u = 0 /\ z' + u <= w1
        /\ j' \in Nat /\ j' % v = 0 /\ j' + v <= w2
    <3>1. PICK z1 : z1 = z' /\ (z1 = 0 \/ z1 = z0 \/ (z1 = z0 + u /\ z0 + u < w1))
      BY <2>1, StoreFacts
    <3>2. PICK j1 : j1 = j' /\ (j1 = 0 \/ (j1 = j0 + v /\ j0 + v < w2))
      BY <2>1, StoreFacts
    <3>3. z1 \in Nat /\ z1 % u = 0 /\ z1 + u <= w1
      BY <2>2, <2>4, <2>6, <3>1
    <3>4. j1 \in Nat /\ j1 % v = 0 /\ j1 + v <= w2
      BY <2>4, <2>5, <3>2
    <3> QED  BY <3>1, <3>2, <3>3, <3>4
  <2> QED  BY <1>1, <1>2, <2>1, <2>7 DEF PassInv
<1>6. LoopInv' /\ HeldInv'
  BY <1>1, <1>2, StaticBlocks DEF KernelInv, LoopInv, HeldInv
<1>7. AccInv'
  BY <1>2 DEF AccInv
<1>8. ASSUME NEW q \in Blocks PROVE BlockInv(q)'
  <2>1. PICK x, y : x = q \div shape.colB /\ y = q % shape.colB
    OBVIOUS
  <2>2. ASSUME NEW u PROVE Sum(q \div shape.colB, q % shape.colB, u)' = Sum(x, y, u)
    BY <1>1, <2>1, StaticBlocks
  <2>3. c'[q] = Sum(x, y, IF StoredNow(q) THEN call * Steps ELSE Before)
    BY <2>1, StoredBlocks
  <2>4. CASE j + design.kernel.cols < shape.colB \/ z + design.kernel.rows < shape.rowA
    <3>1. Stored(q)' <=> StoredNow(q)
      BY <2>4, PassesInOrder
    <3>2. call' = call /\ step' = "pass"
      BY <2>4, StoreFacts
    <3>3. Before' = Before /\ (call * Steps)' = call * Steps
      BY <1>1, <3>2, StaticBlocks DEF Before
    <3> QED  BY <2>2, <2>3, <3>1, <3>2, <3>3 DEF BlockInv
  <2>5. CASE ~(j + design.kernel.cols < shape.colB) /\ ~(z + design.kernel.rows < shape.rowA)
    <3>1. StoredNow(q) /\ ~Stored(q)'
      BY <2>5, PassesInOrder
    <3>2. c'[q] = Sum(x, y, call * Steps)
      BY <2>3, <3>1
    <3>3. CASE call < shape.calls /\ call' = call + 1 /\ step' = "pass"
      <4>1. Before' = call * Steps
        <5>1. call \in Nat
          BY ShapeFacts DEF KernelInv, CallInv, Chosen
        <5>2. (call + 1) - 1 = call
          BY <5>1
        <5> QED  BY <1>1, <3>3, <5>2, StaticBlocks DEF Before
      <4> QED  BY <2>2, <3>1, <3>2, <3>3, <4>1 DEF BlockInv
    <3>4. CASE call = shape.calls /\ call' = call /\ step' = "done"
      <4>1. (shape.calls * Steps)' = call * Steps
        BY <1>1, <3>4, StaticBlocks
      <4> QED  BY <1>2, <2>2, <3>2, <3>4, <4>1 DEF BlockInv
    <3> QED  BY <2>5, <3>3, <3>4, StoreFacts
  <2> QED  BY <2>4, <2>5
<1>9. TileInv'
  <2>1. DOMAIN c' = Blocks /\ Blocks' = Blocks
    BY <1>1, StoreFacts, StaticBlocks DEF KernelInv, TileInv
  <2> QED  BY <1>8, <2>1 DEF TileInv
<1> QED  BY <1>3, <1>4, <1>5, <1>6, <1>7, <1>9 DEF KernelInv

(***************************************************************************)
(* The theorems.                                                           *)
(***************************************************************************)

(* Every step of the core keeps the invariant.                             *)
LEMMA KernelNext == KernelInv /\ [Next]_vars => KernelInv'
<1> SUFFICES ASSUME KernelInv, [Next]_vars PROVE KernelInv'
  OBVIOUS
<1>1. CASE Zero
  BY <1>1, ZeroStep
<1>2. CASE StartPass
  BY <1>2, StartPassStep
<1>3. CASE LoadThenMac
  BY <1>3, LoadThenMacStep
<1>4. CASE EndLoop
  BY <1>4, EndLoopStep
<1>5. CASE Prologue
  BY <1>5, PrologueStep
<1>6. CASE MacThenLoad
  BY <1>6, MacThenLoadStep
<1>7. CASE Epilogue
  BY <1>7, EpilogueStep
<1>8. CASE Store
  BY <1>8, StoreStep
<1>9. CASE UNCHANGED vars
  <2>1. /\ Chosen' = Chosen /\ CallInv' = CallInv /\ PassInv' = PassInv /\ InPass' = InPass
    BY <1>9 DEF vars, Chosen, CallInv, PassInv, InPass
  <2> USE <1>9 DEF vars
  <2>5. /\ Steps' = Steps /\ Blocks' = Blocks /\ Before' = Before /\ Macs' = Macs
        /\ \A u, v : Held(u, v)' = Held(u, v)
        /\ \A u : Accumulated(u)' = Accumulated(u)
        /\ \A row, col, u : Sum(row, col, u)' = Sum(row, col, u)
    BY StaticBlocks, StaticRegisters DEF Macs
  <2>2. LoopInv' /\ HeldInv'
    <3>1. LoopInv' = LoopInv
      BY <2>5 DEF LoopInv
    <3>2. PICK u, v, h, p, q : u = ptr - Len(held) /\ v = Len(held) /\ h = held /\ p = ptr /\ q = step
      OBVIOUS
    <3>3. Held(u, v)' = Held(u, v)
      BY <2>5
    <3>4. q \in {"loop", "store"} => v <= p /\ h = Held(u, v)
      BY <3>2 DEF KernelInv, HeldInv
    <3>5. q \in {"loop", "store"} => v <= p /\ h = Held(u, v)'
      BY <3>3, <3>4
    <3>6. (ptr - Len(held))' = u /\ Len(held)' = v /\ held' = h /\ ptr' = p /\ step' = q
      BY <3>2
    <3>7. HeldInv'
      BY ONLY <3>5, <3>6 DEF HeldInv
    <3> QED  BY <3>1, <3>7 DEF KernelInv
  <2>3. AccInv'
    <3>1. PICK u : u = Macs
      OBVIOUS
    <3>2. InPass => acc = Accumulated(u)
      BY <3>1 DEF KernelInv, AccInv, Accumulated
    <3>3. InPass' => acc' = Accumulated(u)' /\ Macs' = u
      BY <2>1, <2>5, <3>1, <3>2
    <3> QED  BY <3>3 DEF AccInv, Accumulated
  <2>4. TileInv'
    <3>1. ASSUME NEW q \in Blocks PROVE BlockInv(q)'
      <4>1. Stored(q)' <=> Stored(q)
        BY DEF Stored
      <4>2. BlockInv(q)
        BY DEF KernelInv, TileInv
      <4>3. ASSUME NEW u
            PROVE  Sum(q \div shape.colB, q % shape.colB, u)'
                     = Sum(q \div shape.colB, q % shape.colB, u)
        BY <2>5
      <4> QED  BY <2>1, <2>5, <4>1, <4>2, <4>3 DEF BlockInv
    <3> QED  BY <2>5, <3>1 DEF KernelInv, TileInv
  <2> QED  BY <2>1, <2>2, <2>3, <2>4 DEF KernelInv
<1>10. CASE Done
  BY <1>9, <1>10 DEF Done
<1> QED  BY <1>1, <1>2, <1>3, <1>4, <1>5, <1>6, <1>7, <1>8, <1>9, <1>10 DEF Next

(* The invariant holds in every state, whatever the tiles, the calls, the  *)
(* layout of B and the kernel that the design selects.                     *)
THEOREM KernelInvariant == Spec => []KernelInv
  BY InitKernel, KernelNext, PTL DEF Spec

(* The loops of every kernel stay within the tile; the loop over K passes  *)
(* its end only to make its last iteration whole.                          *)
THEOREM KernelTypes == Spec => []TypeOK
<1>1. KernelInv => TypeOK
  <2> SUFFICES ASSUME KernelInv PROVE TypeOK
    OBVIOUS
  <2>1. shape \in Shapes /\ design \in Designs
    BY DEF KernelInv, Chosen
  <2>2. /\ call \in 0 .. shape.calls
        /\ step \in {"zero", "pass", "prologue", "loop", "store", "done"}
    BY DEF KernelInv, CallInv
  <2>3. z \in 0 .. shape.rowA - 1 /\ j \in 0 .. shape.colB - 1
    <3>1. PICK u \in {1, 2}, v \in {1, 2, 4}, w1 \in Nat, w2 \in Nat, z0 \in Nat, j0 \in Nat :
            /\ u = design.kernel.rows /\ v = design.kernel.cols
            /\ w1 = shape.rowA /\ w2 = shape.colB /\ z0 = z /\ j0 = j
      BY PassFacts, ShapeFacts DEF KernelInv, Chosen, KernelShape, PassInv
    <3>2. z0 + u <= w1 /\ j0 + v <= w2
      BY <3>1 DEF KernelInv, PassInv
    <3>3. z0 \in 0 .. w1 - 1 /\ j0 \in 0 .. w2 - 1
      BY <3>2
    <3> QED  BY <3>1, <3>3
  <2>4. i \in 0 .. Steps /\ ptr \in 0 .. Steps
    BY DEF KernelInv, LoopInv
  <2>5. Len(held) \in 0 .. design.kernel.unroll
    <3>1. PICK u \in Nat : u = design.kernel.unroll
      BY LoopFacts
    <3>2. PICK w \in Nat : w = Len(held) /\ w <= u
      BY <3>1 DEF KernelInv, LoopInv
    <3> QED  BY <3>1, <3>2
  <2> QED  BY <2>1, <2>2, <2>3, <2>4, <2>5 DEF TypeOK
<1> QED  BY <1>1, KernelInvariant, PTL

(* What the registers hold for every layout of B and every number of       *)
(* steps: a step of K that there is finds its block of A, and its block of *)
(* B if the kernel agrees with the layout; a tile is read beyond its end   *)
(* by the step that an unrolled loop makes too many, in the last row of A  *)
(* and the last column of B, and by nothing else.                          *)
THEOREM KernelOperands == Spec => []OperandsArrived
<1>1. KernelInv => OperandsArrived
  <2> SUFFICES ASSUME KernelInv, step \in {"loop", "store"}, NEW x \in 1..Len(held),
                      NEW s, s = (ptr - Len(held)) + x - 1
               PROVE  /\ s \in 0 .. Steps - 1
                      /\ \A row \in Side :
                           held[x].a[row] = IF s < shape.colA THEN <<z + row, s>>
                                            ELSE IF z + row + 1 < shape.rowA
                                            THEN <<z + row + 1, 0>>
                                            ELSE Beyond
                      /\ \A col \in Width :
                           /\ held[x].b[col] = Beyond
                                <=> s >= shape.colA /\ j + col + 1 = shape.colB
                           /\ Agreed /\ s < shape.colA => held[x].b[col] = <<s, j + col>>
    BY DEF OperandsArrived
  <2>1. PICK v \in Nat, p \in Nat, w \in Nat :
          v = Len(held) /\ p = ptr /\ w = Steps /\ v <= p /\ p <= w
    BY LoopFacts DEF KernelInv, LoopInv, HeldInv
  <2>2. x \in 1..v /\ s = ((p - v) + x) - 1 /\ s \in 0 .. w - 1
    BY <2>1
  <2>3. held[x] = Registers(s)
    <3>1. held = Held(p - v, v)
      BY <2>1 DEF KernelInv, HeldInv
    <3> QED  BY <2>2, <3>1 DEF Held
  <2>4. ASSUME NEW row \in Side
        PROVE  held[x].a[row] = IF s < shape.colA THEN <<z + row, s>>
                                ELSE IF z + row + 1 < shape.rowA THEN <<z + row + 1, 0>>
                                ELSE Beyond
    <3>1. PICK y \in 0 .. shape.rowA - 1 : y = z + row
      BY PassFacts DEF KernelInv
    <3>2. held[x].a[row] = AOf(y, s)
      BY <2>3, <3>1 DEF Registers
    <3>3. s \in 0 .. Steps - 1
      BY <2>1, <2>2
    <3> QED  BY <3>1, <3>2, <3>3, AIs DEF KernelInv
  <2>5. ASSUME NEW col \in Width
        PROVE  /\ held[x].b[col] = Beyond <=> s >= shape.colA /\ j + col + 1 = shape.colB
               /\ Agreed /\ s < shape.colA => held[x].b[col] = <<s, j + col>>
    <3>1. PICK y \in 0 .. shape.colB - 1 : y = j + col
      BY PassFacts DEF KernelInv
    <3>2. held[x].b[col] = BOf(y, s)
      BY <2>3, <3>1 DEF Registers
    <3>3. s \in 0 .. Steps - 1
      BY <2>1, <2>2
    <3> QED  BY <3>1, <3>2, <3>3, BIs DEF KernelInv
  <2> QED  BY <2>1, <2>2, <2>4, <2>5
<1> QED  BY <1>1, KernelInvariant, PTL

(* The place of a product in a sum tells its call and its step of K.       *)
IsProduct(t, u, v) ==
  /\ t = (u * Steps) + (v + 1)
  /\ \A row, col : Product(row, col, t) = [call |-> 1 + u, a |-> AOf(row, v), b |-> BOf(col, v)]

(* Every product of a sum is that of one call and one step of K.           *)
LEMMA ProductPlace ==
  ASSUME Chosen, NEW t \in Nat \ {0}
  PROVE  \E u \in Nat, v \in 0 .. Steps - 1 : IsProduct(t, u, v)
<1>1. PICK d \in Nat \ {0} : d = Steps
  BY StepsFacts
<1>2. PICK u \in Nat, v \in 0 .. d - 1 :
        u = (t - 1) \div d /\ v = (t - 1) % d /\ t - 1 = (u * d) + v
  <2>1. t - 1 \in Nat
    OBVIOUS
  <2> QED  BY <2>1, Quotient
<1>3. t = (u * d) + (v + 1)
  <2>1. PICK f \in Nat : f = u * d
    OBVIOUS
  <2> QED  BY <1>2, <2>1
<1>4. IsProduct(t, u, v)
  BY <1>1, <1>2, <1>3 DEF IsProduct, Product
<1> QED  BY <1>1, <1>4

(* The later of two products of a row is of a later call, or of a later    *)
(* step of K, which may be the one after the last.                         *)
Ordered(row, first, later) ==
  \/ first.call < later.call
  \/ /\ first.call = later.call
     /\ first.a[1] = row
     /\ later.a[1] = row => first.a[2] < later.a[2]

LEMMA SumInOrder ==
  ASSUME Chosen, NEW x \in Nat \ {0}, NEW y \in Nat \ {0}, x < y,
         NEW row \in 0 .. shape.rowA - 1, NEW col
  PROVE  Ordered(row, Product(row, col, x), Product(row, col, y))
<1>1. PICK d \in Nat \ {0}, a \in Nat : d = Steps /\ a = shape.colA /\ d <= a + 1
  BY StepsFacts
<1>2. PICK u1 \in Nat, v1 \in 0 .. d - 1 :
        /\ x = (u1 * d) + (v1 + 1)
        /\ Product(row, col, x) = [call |-> 1 + u1, a |-> AOf(row, v1), b |-> BOf(col, v1)]
  <2>1. PICK u \in Nat, v \in 0 .. d - 1 : IsProduct(x, u, v)
    BY <1>1, ProductPlace
  <2> QED  BY <1>1, <2>1 DEF IsProduct
<1>3. PICK u2 \in Nat, v2 \in 0 .. d - 1 :
        /\ y = (u2 * d) + (v2 + 1)
        /\ Product(row, col, y) = [call |-> 1 + u2, a |-> AOf(row, v2), b |-> BOf(col, v2)]
  <2>1. PICK u \in Nat, v \in 0 .. d - 1 : IsProduct(y, u, v)
    BY <1>1, ProductPlace
  <2> QED  BY <1>1, <2>1 DEF IsProduct
<1>4. ~(u2 < u1)
  <2> SUFFICES ASSUME u2 < u1 PROVE FALSE
    OBVIOUS
  <2>1. PICK f1 \in Nat, f2 \in Nat : f1 = u1 * d /\ f2 = u2 * d /\ f2 + d <= f1
    BY ProductGrows
  <2> QED  BY <1>2, <1>3, <2>1
<1>5. u1 = u2 => v1 < v2
  <2>1. PICK f1 \in Nat, f2 \in Nat : f1 = u1 * d /\ f2 = u2 * d
    OBVIOUS
  <2> QED  BY <1>2, <1>3, <2>1
<1>6. CASE u1 = u2
  <2>1. v1 < v2 /\ v1 < a /\ v2 <= a
    BY <1>1, <1>5, <1>6
  <2>2. AOf(row, v1) = <<row, v1>>
    BY <1>1, <2>1, AIs
  <2>3. AOf(row, v2)[1] = row => AOf(row, v2)[2] = v2
    <3>1. AOf(row, v2) = IF v2 < a THEN <<row, v2>>
                         ELSE IF row + 1 < shape.rowA THEN <<row + 1, 0>> ELSE Beyond
      BY <1>1, AIs
    <3>2. row \in Nat
      BY ShapeFacts DEF Chosen
    <3>3. row # row + 1 /\ row # -1
      BY <3>2
    <3> QED  BY <3>1, <3>3 DEF Beyond
  <2> QED  BY <1>2, <1>3, <1>6, <2>1, <2>2, <2>3 DEF Ordered
<1>7. CASE u1 # u2
  <2>1. 1 + u1 < 1 + u2
    BY <1>4, <1>7
  <2> QED  BY <1>2, <1>3, <2>1 DEF Ordered
<1> QED  BY <1>6, <1>7

(* Every kernel adds the products of a block of C in the order of K,       *)
(* however its loop is unrolled or pipelined, and a product of another     *)
(* row last in its call.                                                   *)
THEOREM KernelSumOrder == Spec => []SumOrder
<1>1. KernelInv => SumOrder
  <2> SUFFICES ASSUME KernelInv, NEW q \in DOMAIN c, step # "zero",
                      NEW x \in 1..Len(c[q]), NEW y \in 1..Len(c[q]), x < y
               PROVE  Ordered(q \div shape.colB, c[q][x], c[q][y])
    BY DEF SumOrder, Ordered
  <2>1. PICK u \in Nat : c[q] = Sum(q \div shape.colB, q % shape.colB, u)
    <3>1. /\ Before \in Nat /\ call * Steps \in Nat /\ shape.calls * Steps \in Nat
      <4>1. call # 0
        BY DEF KernelInv, CallInv
      <4>2. call \in Nat /\ shape.calls \in Nat /\ Steps \in Nat
        BY StepsFacts, ShapeFacts DEF KernelInv, Chosen, CallInv
      <4>3. Before \in Nat
        BY <4>1, BeforeNat DEF KernelInv
      <4> QED  BY <4>2, <4>3
    <3>2. BlockInv(q) /\ (step = "done" \/ step = "pass" \/ InPass)
      BY DEF KernelInv, TileInv, CallInv, InPass
    <3>3. CASE step = "done"
      BY <3>1, <3>2, <3>3 DEF BlockInv
    <3>4. CASE step = "pass" \/ InPass
      BY <3>1, <3>2, <3>4 DEF BlockInv
    <3> QED  BY <3>2, <3>3, <3>4
  <2>2. PICK row \in 0 .. shape.rowA - 1, col \in 0 .. shape.colB - 1 :
          row = q \div shape.colB /\ col = q % shape.colB
    BY BlockPlace DEF KernelInv, TileInv
  <2>3. c[q] = Sum(row, col, u) /\ Len(c[q]) = u
    BY <2>1, <2>2, SumIsSeq
  <2>4. c[q][x] = Product(row, col, x) /\ c[q][y] = Product(row, col, y)
    BY <2>3 DEF Sum
  <2>5. x \in Nat \ {0} /\ y \in Nat \ {0}
    BY <2>3
  <2>6. Ordered(row, Product(row, col, x), Product(row, col, y))
    BY <2>5, SumInOrder DEF KernelInv
  <2> QED  BY <2>2, <2>4, <2>6
<1> QED  BY <1>1, KernelInvariant, PTL

(* Where the elements of a tile of C leave from.                           *)
LEMMA DepartedIs ==
  ASSUME shape \in Shapes, NEW x \in 0 .. m - 1, NEW y \in 0 .. n - 1
  PROVE  /\ x \div Edge \in 0 .. shape.rowA - 1 /\ y \div Edge \in 0 .. shape.colB - 1
         /\ Departed(x, y) = [block |-> ((x \div Edge) * shape.colB) + (y \div Edge),
                              x |-> x % Edge, y |-> y % Edge]
<1>1. PICK d \in Nat \ {0}, u \in Nat \ {0}, v \in Nat \ {0}, a \in Nat \ {0} :
        d = Edge /\ u = shape.rowA /\ v = shape.colB /\ a = Area
  BY ShapeFacts
<1>2. x \in Nat /\ y \in Nat /\ x \in 0 .. u * d - 1 /\ y \in 0 .. v * d - 1
  <2>1. PICK f1 \in Nat, f2 \in Nat : f1 = u * d /\ f2 = v * d
    OBVIOUS
  <2>2. x \in 0 .. f1 - 1 /\ y \in 0 .. f2 - 1
    BY <1>1, <2>1 DEF m, n
  <2> QED  BY <2>1, <2>2
<1>3. PICK x1 \in Nat, x2 \in 0 .. d - 1 : x1 = x \div d /\ x2 = x % d /\ x = (x1 * d) + x2
  BY <1>2, Quotient
<1>4. PICK y1 \in Nat, y2 \in 0 .. d - 1 : y1 = y \div d /\ y2 = y % d /\ y = (y1 * d) + y2
  BY <1>2, Quotient
<1>5. x1 \in 0 .. u - 1 /\ y1 \in 0 .. v - 1
  BY <1>2, <1>3, <1>4, DivRange
<1>6. PICK p \in Nat, e \in Nat : p = (x1 * v) + y1 /\ e = (x2 * d) + y2
  OBVIOUS
<1>7. /\ e \in 0 .. Area - 1 /\ InX(e) = x2 /\ InY(e) = y2
  <2>1. e \in 0 .. a - 1
    <3>1. x2 * d + y2 \in 0 .. d * d - 1
      BY ProductRange
    <3> QED  BY <1>1, <1>6, <3>1 DEF Area
  <2>2. e % a = e
    BY <2>1
  <2>3. e \div d = x2 /\ e % d = y2
    BY <1>6, DivModUnique
  <2> QED  BY <1>1, <2>1, <2>2, <2>3 DEF InX, InY
<1>8. PICK o \in Int : o = p * Area + e
  BY <1>1
<1>9. (IF design.host THEN UnpackedC(x, y) ELSE Offset(DimsC, x * n + y)) = o
  <2>1. PICK f1 \in Nat, f2 \in Nat : f1 = p * a /\ f2 = x2 * d
    OBVIOUS
  <2>2. CASE design.host
    <3>1. UnpackedC(x, y) = p * a + x2 * d + y2
      BY <1>1, <1>3, <1>4, <1>6 DEF UnpackedC
    <3> QED  BY <1>1, <1>6, <1>8, <2>1, <2>2, <3>1
  <2>3. CASE ~design.host
    <3>1. PICK w \in Nat, s \in Nat, b \in Nat : w = v * d /\ s = d * w /\ b = d * d
      OBVIOUS
    <3>2. x * n + y = ((x1 * d + x2) * v + y1) * d + y2
      <4>1. x * (v * d) + y1 * d = (x * v + y1) * d
        OBVIOUS
      <4>2. PICK g1 \in Nat, g2 \in Nat, g3 \in Nat :
              g1 = x * (v * d) /\ g2 = y1 * d /\ g3 = (x * v + y1) * d
        BY <1>2
      <4>3. x * n + y = g3 + y2
        BY <1>1, <1>4, <4>1, <4>2 DEF n
      <4> QED  BY <1>3, <4>2, <4>3
    <3>3. PICK f \in Int : f = x * n + y
      <4>1. n \in Int
        BY <1>1 DEF n
      <4> QED  BY <1>2, <4>1
    <3>4. Digits(f, d, v, d, x1, x2, y1, y2)
      <4>1. Digits(((x1 * d + x2) * v + y1) * d + y2, d, v, d, x1, x2, y1, y2)
        BY <1>5, FourDigits
      <4> QED  BY <3>2, <3>3, <4>1
    <3>5. PICK dims : dims = << <<u, s>>, <<d, d>>, <<v, b>>, <<d, 1>> >>
      OBVIOUS
    <3>6. /\ dims[1][1] = u /\ dims[1][2] = s /\ dims[2][1] = d /\ dims[2][2] = d
          /\ dims[3][1] = v /\ dims[3][2] = b /\ dims[4][1] = d /\ dims[4][2] = 1
      BY <3>5
    <3>7. /\ Digits(f, dims[2][1], dims[3][1], dims[4][1], x1, x2, y1, y2)
          /\ x1 < dims[1][1] /\ x2 \in Nat /\ y1 \in Nat /\ y2 \in Nat
      BY <1>5, <3>4, <3>6
    <3>8. dims \in [1..4 -> Nat \X Nat]
      BY <3>5
    <3>9. Offset(dims, f)
             = x1 * dims[1][2] + x2 * dims[2][2] + y1 * dims[3][2] + y2 * dims[4][2]
      BY ONLY <3>7, <3>8, OffsetOf, SMTT(30)
    <3>10. Offset(dims, f) = x1 * s + x2 * d + y1 * b + y2
      BY <3>6, <3>9
    <3>11. DimsC = dims
      BY <1>1, <3>1, <3>5, ShapeFacts DEF DimsC, n
    <3>12. x1 * s + x2 * d + y1 * b + y2 = p * a + e
      <4>1. (x1 * v + y1) * (d * d) = x1 * (d * (v * d)) + y1 * (d * d)
        OBVIOUS
      <4>2. a = b
        BY <1>1, <3>1 DEF Area
      <4>3. PICK g1 \in Nat, g2 \in Nat : g1 = x1 * s /\ g2 = y1 * b
        OBVIOUS
      <4>4. f1 = g1 + g2
        BY <1>6, <2>1, <3>1, <4>1, <4>2, <4>3
      <4> QED  BY <1>6, <2>1, <4>3, <4>4
    <3> QED  BY <1>1, <1>8, <2>3, <3>3, <3>10, <3>11, <3>12
  <2> QED  BY <2>2, <2>3
<1>10. o \div Area = p /\ InX(o) = x2 /\ InY(o) = y2
  BY <1>7, <1>8, PlaceInBlock
<1>11. Departed(x, y) = [block |-> p, x |-> x2, y |-> y2]
  BY <1>9, <1>10 DEF Departed
<1> QED  BY <1>1, <1>3, <1>4, <1>5, <1>6, <1>11

(* The products a block of C is made of.                                   *)
Want(row, col) == {p \in Products(row, col) : p.a[2] = p.b[1]}

(* They are numbered as the products of a sum are, with the steps of K in  *)
(* the place of those of the loop.                                         *)
Wanted(row, col, t) ==
  [call |-> 1 + ((t - 1) \div shape.colA),
   a |-> <<row, (t - 1) % shape.colA>>, b |-> <<(t - 1) % shape.colA, col>>]

LEMMA WantedPlace ==
  ASSUME Chosen, NEW x \in Nat, NEW y \in 0 .. shape.colA - 1, NEW row, NEW col
  PROVE  Wanted(row, col, (x * shape.colA) + (y + 1))
           = [call |-> 1 + x, a |-> <<row, y>>, b |-> <<y, col>>]
<1>1. PICK d \in Nat \ {0}, f \in Nat : d = shape.colA /\ f = x * d
  BY ShapeFacts DEF Chosen
<1>2. y \in 0 .. d - 1 /\ (f + (y + 1)) - 1 = f + y
  <2>1. y \in 0 .. d - 1
    BY <1>1
  <2>2. ASSUME NEW e \in Nat, NEW h \in Nat PROVE (e + (h + 1)) - 1 = e + h
    OBVIOUS
  <2> QED  BY <2>1, <2>2
<1>3. (f + y) \div d = x /\ (f + y) % d = y
  BY <1>1, <1>2, DivModUnique
<1> QED  BY <1>1, <1>2, <1>3 DEF Wanted

(* Numbering them has each of them exactly once.                           *)
LEMMA WholeSum ==
  ASSUME Chosen, NEW row, NEW col, NEW u \in Nat, u = shape.calls * shape.colA
  PROVE  /\ {Wanted(row, col, t) : t \in 1..u} = Want(row, col)
         /\ Cardinality(Want(row, col)) = u
<1>1. PICK d \in Nat \ {0}, w \in Nat \ {0} : d = shape.colA /\ w = shape.calls
  BY ShapeFacts DEF Chosen
<1>2. PICK s : s = [t \in 1..u |-> Wanted(row, col, t)]
  OBVIOUS
<1>3. \A t \in 1..u : s[t] = Wanted(row, col, t)
  BY <1>2
<1>4. ASSUME NEW t \in 1..u
      PROVE  \E x \in 0 .. w - 1, y \in 0 .. d - 1 :
               /\ t = (x * d) + (y + 1)
               /\ s[t] = [call |-> 1 + x, a |-> <<row, y>>, b |-> <<y, col>>]
  <2>1. PICK x \in Nat, y \in 0 .. d - 1 : t - 1 = (x * d) + y
    <3>1. t - 1 \in Nat
      OBVIOUS
    <3> QED  BY <3>1, Quotient
  <2>2. t = (x * d) + (y + 1)
    <3>1. PICK f \in Nat : f = x * d
      OBVIOUS
    <3> QED  BY <2>1, <3>1
  <2>3. s[t] = [call |-> 1 + x, a |-> <<row, y>>, b |-> <<y, col>>]
    BY <1>1, <1>3, <2>2, WantedPlace
  <2>4. ~(w <= x)
    <3> SUFFICES ASSUME w <= x PROVE FALSE
      OBVIOUS
    <3>1. PICK f1 \in Nat, f2 \in Nat : f1 = w * d /\ f2 = x * d
      OBVIOUS
    <3>2. f1 <= f2
      <4>1. w = x => f1 = f2
        BY <3>1
      <4>2. w < x => f1 + d <= f2
        BY <3>1, ProductGrows
      <4> QED  BY <3>1, <4>1, <4>2
    <3> QED  BY <1>1, <2>2, <3>1, <3>2
  <2>5. x \in 0 .. w - 1
    BY <2>4
  <2> QED  BY <2>2, <2>3, <2>5
<1>5. ASSUME NEW t \in 1..u PROVE s[t] \in Want(row, col)
  <2>1. PICK x \in 0 .. w - 1, y \in 0 .. d - 1 :
          s[t] = [call |-> 1 + x, a |-> <<row, y>>, b |-> <<y, col>>]
    BY <1>4
  <2>2. 1 + x \in 1 .. shape.calls /\ y \in 0 .. shape.colA - 1
    BY <1>1
  <2>3. s[t] \in Products(row, col)
    BY <2>1, <2>2 DEF Products
  <2> QED  BY <2>1, <2>3 DEF Want
<1>6. ASSUME NEW p \in Want(row, col) PROVE \E t \in 1..u : s[t] = p
  <2>1. PICK x \in 1 .. w, y \in 0 .. d - 1 : p = [call |-> x, a |-> <<row, y>>, b |-> <<y, col>>]
    <3>1. p \in Products(row, col) /\ p.a[2] = p.b[1]
      BY DEF Want
    <3>2. PICK x \in 1 .. w, y \in 0 .. d - 1, v \in 0 .. d - 1 :
            p = [call |-> x, a |-> <<row, y>>, b |-> <<v, col>>]
      BY <1>1, <3>1 DEF Products
    <3> QED  BY <3>1, <3>2
  <2>2. PICK e \in Nat, h \in Nat : h = x - 1 /\ e = h * d + y /\ e + 1 \in 1..u
    <3>1. (x - 1) * d + y \in 0 .. w * d - 1
      <4>1. x - 1 \in Nat /\ x - 1 < w
        OBVIOUS
      <4> QED  BY <4>1, ProductRange
    <3> QED  BY <1>1, <3>1
  <2>3. e + 1 = (h * d) + (y + 1) /\ 1 + h = x
    <3>1. PICK f \in Nat : f = h * d
      OBVIOUS
    <3> QED  BY <2>2, <3>1
  <2>4. Wanted(row, col, e + 1) = [call |-> x, a |-> <<row, y>>, b |-> <<y, col>>]
    BY <1>1, <2>3, WantedPlace
  <2> QED  BY <1>3, <2>1, <2>2, <2>4
<1>7. ASSUME NEW t1 \in 1..u, NEW t2 \in 1..u, s[t1] = s[t2] PROVE t1 = t2
  <2>1. PICK x1 \in 0 .. w - 1, y1 \in 0 .. d - 1 :
          /\ t1 = (x1 * d) + (y1 + 1)
          /\ s[t1] = [call |-> 1 + x1, a |-> <<row, y1>>, b |-> <<y1, col>>]
    BY <1>4
  <2>2. PICK x2 \in 0 .. w - 1, y2 \in 0 .. d - 1 :
          /\ t2 = (x2 * d) + (y2 + 1)
          /\ s[t2] = [call |-> 1 + x2, a |-> <<row, y2>>, b |-> <<y2, col>>]
    BY <1>4
  <2>3. 1 + x1 = 1 + x2 /\ <<row, y1>> = <<row, y2>>
    BY <1>7, <2>1, <2>2
  <2>4. x1 = x2 /\ y1 = y2
    BY <2>3
  <2> QED  BY <2>1, <2>2, <2>4
<1>8. {Wanted(row, col, t) : t \in 1..u} = Want(row, col)
  BY <1>3, <1>5, <1>6
<1>9. Cardinality(Want(row, col)) = u
  <2>1. s \in [1..u -> Want(row, col)]
    BY <1>2, <1>5
  <2>2. s \in Bijection(1..u, Want(row, col))
    BY <1>6, <1>7, <2>1 DEF Bijection, Injection, Surjection, IsInjective
  <2>3. ExistsBijection(1..u, Want(row, col))
    BY <2>2 DEF ExistsBijection
  <2> QED  BY <2>3, FS_CountingElements
<1> QED  BY <1>8, <1>9

(* The sum of a block is what is wanted of it.                             *)
SumRight(row, col) ==
  LET s == Sum(row, col, shape.calls * Steps)
  IN  {s[t] : t \in DOMAIN s} = Want(row, col) /\ Len(s) = Cardinality(Want(row, col))

(* With the layout the kernel wants and whole iterations, the products of  *)
(* a sum are those that are wanted.                                        *)
LEMMA AgreedSum ==
  ASSUME Chosen, Agreed, Steps = shape.colA,
         NEW row \in 0 .. shape.rowA - 1, NEW col \in 0 .. shape.colB - 1
  PROVE  SumRight(row, col)
<1>1. PICK u \in Nat : u = shape.calls * Steps /\ u = shape.calls * shape.colA
  BY ShapeFacts DEF Chosen
<1>2. PICK s : s = Sum(row, col, u)
  OBVIOUS
<1>3. ASSUME NEW t \in 1..u PROVE s[t] = Wanted(row, col, t)
  <2>1. PICK x \in Nat, y \in 0 .. Steps - 1 : IsProduct(t, x, y)
    BY ProductPlace
  <2>2. s[t] = [call |-> 1 + x, a |-> AOf(row, y), b |-> BOf(col, y)]
    BY <1>2, <2>1 DEF Sum, IsProduct
  <2>3. y < shape.colA /\ y \in 0 .. shape.colA - 1
    BY StepsFacts
  <2>4. AOf(row, y) = <<row, y>> /\ BOf(col, y) = <<y, col>>
    BY <2>3, AIs, BIs
  <2>5. Wanted(row, col, (x * shape.colA) + (y + 1))
          = [call |-> 1 + x, a |-> <<row, y>>, b |-> <<y, col>>]
    BY <2>3, WantedPlace
  <2>6. t = (x * shape.colA) + (y + 1)
    BY <2>1 DEF IsProduct
  <2> QED  BY <2>2, <2>4, <2>5, <2>6
<1>4. DOMAIN s = 1..u /\ Len(s) = u
  BY <1>2, SumIsSeq
<1>5. {s[t] : t \in DOMAIN s} = {Wanted(row, col, t) : t \in 1..u}
  BY <1>3, <1>4
<1>6. {Wanted(row, col, t) : t \in 1..u} = Want(row, col) /\ Cardinality(Want(row, col)) = u
  BY <1>1, WholeSum
<1> QED  BY <1>1, <1>2, <1>4, <1>5, <1>6 DEF SumRight

(* Otherwise the first block of C has too many products, or the block of B *)
(* of its second product is not that of step 1.                            *)
LEMMA OtherSum ==
  ASSUME Chosen, ~(Agreed /\ Steps = shape.colA), 0 < shape.colB, PassInv
  PROVE  ~SumRight(0, 0)
<1> SUFFICES ASSUME SumRight(0, 0) PROVE FALSE
  OBVIOUS
<1>1. PICK a \in Nat \ {0}, d \in Nat \ {0}, w \in Nat \ {0}, y \in Nat \ {0} :
        a = shape.colA /\ d = Steps /\ w = shape.calls /\ y = shape.colB
  BY StepsFacts, ShapeFacts DEF Chosen
<1>2. PICK u \in Nat, v \in Nat : u = w * d /\ v = w * a
  OBVIOUS
<1>3. PICK s : s = Sum(0, 0, u)
  OBVIOUS
<1>4. /\ {s[t] : t \in DOMAIN s} = Want(0, 0) /\ Len(s) = Cardinality(Want(0, 0))
      /\ DOMAIN s = 1..u /\ Len(s) = u
  <2>1. s = Sum(0, 0, shape.calls * Steps)
    BY <1>1, <1>2, <1>3
  <2>2. {s[t] : t \in DOMAIN s} = Want(0, 0) /\ Len(s) = Cardinality(Want(0, 0))
    BY <2>1 DEF SumRight
  <2>3. DOMAIN s = 1..u /\ Len(s) = u
    BY <1>3, SumIsSeq
  <2> QED  BY <2>2, <2>3
<1>5. Cardinality(Want(0, 0)) = v
  BY <1>1, <1>2, WholeSum
<1>6. d = a
  <2>1. a <= d /\ w * a = w * d
    BY <1>1, <1>2, <1>4, <1>5, StepsFacts
  <2>2. ~(a < d)
    <3> SUFFICES ASSUME a < d PROVE FALSE
      OBVIOUS
    <3>1. a * w + w <= d * w
      BY ProductGrows
    <3>2. a * w = w * a /\ d * w = w * d /\ a * w \in Nat
      OBVIOUS
    <3> QED  BY <2>1, <3>1, <3>2
  <2> QED  BY <2>1, <2>2
<1>7. /\ a # 1 /\ ~(design.kernel.columns <=> design.b # "rows")
  BY <1>1, <1>6 DEF Agreed
<1>8. y # 1
  <2>1. PICK q \in {1, 2, 4} : q = design.kernel.cols
    BY StepsFacts DEF KernelShape
  <2>2. q # 1
    BY <1>7, <2>1, StepsFacts DEF KernelShape
  <2>3. y % q = 0
    BY <1>1, <2>1 DEF Chosen, Fits
  <2> QED  BY <2>2, <2>3
<1>9. 2 \in 1..u /\ s[2] = [call |-> 1, a |-> AOf(0, 1), b |-> BOf(0, 1)]
  <2>1. u >= 2
    <3>1. 1 * d <= w * d
      <4>1. w = 1 => 1 * d = w * d
        OBVIOUS
      <4>2. 1 < w => 1 * d + d <= w * d
        BY ProductGrows
      <4> QED  BY <4>1, <4>2
    <3> QED  BY <1>2, <1>6, <1>7, <3>1
  <2>2. (0 * d + 1) \div d = 0 /\ (0 * d + 1) % d = 1
    <3>1. 1 \in 0 .. d - 1
      BY <1>6, <1>7
    <3> QED  BY <3>1, DivModUnique
  <2>3. 0 * d + 1 = 2 - 1 /\ 1 + 0 = 1
    OBVIOUS
  <2>4. Product(0, 0, 2) = [call |-> 1, a |-> AOf(0, 1), b |-> BOf(0, 1)]
    BY <1>1, <2>2, <2>3 DEF Product
  <2>5. s[2] = Product(0, 0, 2)
    BY <1>3, <2>1 DEF Sum
  <2> QED  BY <2>1, <2>4, <2>5
<1>10. AOf(0, 1) = <<0, 1>>
  <2>1. 0 \in 0 .. shape.rowA - 1 /\ 1 \in 0 .. Steps - 1 /\ 1 < shape.colA
    BY <1>1, <1>6, <1>7, ShapeFacts DEF Chosen
  <2> QED  BY <2>1, AIs
<1>11. BOf(0, 1) = <<1, 0>>
  <2>1. s[2] \in Want(0, 0)
    BY <1>4, <1>9
  <2>2. s[2] \in Products(0, 0) /\ s[2].a[2] = s[2].b[1]
    BY <2>1 DEF Want
  <2>3. s[2].b \in {<<x, 0>> : x \in 0 .. shape.colA - 1}
    BY <2>2 DEF Products
  <2>4. PICK x : s[2].b = <<x, 0>>
    BY <2>3
  <2>5. s[2].a = <<0, 1>> /\ s[2].b = BOf(0, 1)
    BY <1>9, <1>10
  <2>6. x = 1
    BY <2>2, <2>4, <2>5
  <2> QED  BY <2>4, <2>5, <2>6
<1>12. BOf(0, 1) # <<1, 0>>
  <2>1. PICK p \in Nat : p = IF design.kernel.columns THEN 1 ELSE y
    OBVIOUS
  <2>2. BOf(0, 1) = BBlock(p)
    <3>1. 0 * shape.colA + 1 = 1 /\ 0 + 1 * shape.colB = y
      BY <1>1
    <3> QED  BY <2>1, <3>1 DEF BOf
  <2>3. p \in 0 .. shape.colB * shape.colA - 1
    <3>1. 0 * a + 1 \in 0 .. y * a - 1
      <4>1. 1 \in 0 .. a - 1 /\ 0 < y
        BY <1>7
      <4> QED  BY <4>1, ProductRange
    <3>2. 1 * y + 0 \in 0 .. a * y - 1
      <4>1. 0 \in 0 .. y - 1 /\ 1 < a
        BY <1>7
      <4> QED  BY <4>1, ProductRange
    <3>3. a * y = y * a /\ 0 * a + 1 = 1 /\ 1 * y + 0 = y
      OBVIOUS
    <3> QED  BY <1>1, <2>1, <3>1, <3>2, <3>3
  <2>4. BBlock(p) = IF design.b = "rows" THEN <<p \div y, p % y>> ELSE <<p % a, p \div a>>
    BY <1>1, <2>3, BBlockIs DEF Chosen
  <2>5. CASE design.kernel.columns
    <3>1. p = 1 /\ design.b = "rows"
      BY <1>7, <2>1, <2>5
    <3>2. p % y = 1
      BY <1>8, <3>1
    <3> QED  BY <2>2, <2>4, <3>1, <3>2
  <2>6. CASE ~design.kernel.columns
    <3>1. p = y /\ design.b # "rows"
      BY <1>7, <2>1, <2>6, StepsFacts DEF KernelShape
    <3>2. ~(p % a = 1 /\ p \div a = 0)
      <4> SUFFICES ASSUME p % a = 1, p \div a = 0 PROVE FALSE
        OBVIOUS
      <4>1. p = ((p \div a) * a) + (p % a)
        BY DivMod
      <4>2. p = 1
        BY <4>1
      <4> QED  BY <1>8, <3>1, <4>2
    <3> QED  BY <2>2, <2>4, <3>1, <3>2
  <2> QED  BY <2>5, <2>6
<1> QED  BY <1>11, <1>12

(* A tile of C that the core releases is the product of its tiles of A and *)
(* B, each product in it exactly once and nothing of an older tile, and    *)
(* each element leaves for its own place in C, if and only if the kernel   *)
(* agrees with the layout of B and its loop makes as many steps as K has.  *)
THEOREM KernelTileRight == Spec => []TileRight
<1>1. KernelInv => TileRight
  <2> SUFFICES ASSUME KernelInv, step = "done"
               PROVE  (\A x \in 0 .. m - 1, y \in 0 .. n - 1 : ElementRight(x, y))
                        <=> Agreed /\ Steps = shape.colA
    BY DEF TileRight
  <2>1. ASSUME NEW x \in 0 .. m - 1, NEW y \in 0 .. n - 1
        PROVE  /\ x \div Edge \in 0 .. shape.rowA - 1 /\ y \div Edge \in 0 .. shape.colB - 1
               /\ ElementRight(x, y) <=> SumRight(x \div Edge, y \div Edge)
    <3>1. PICK row \in 0 .. shape.rowA - 1, col \in 0 .. shape.colB - 1 :
            /\ row = x \div Edge /\ col = y \div Edge
            /\ Departed(x, y)
                 = [block |-> (row * shape.colB) + col, x |-> x % Edge, y |-> y % Edge]
      BY DepartedIs DEF KernelInv, Chosen
    <3>2. PICK q \in Blocks : /\ q = (row * shape.colB) + col
                              /\ q \div shape.colB = row /\ q % shape.colB = col
      BY PlaceBlock DEF KernelInv
    <3>3. c[q] = Sum(row, col, shape.calls * Steps)
      BY <3>2 DEF KernelInv, TileInv, BlockInv
    <3>4. PICK from : from = Departed(x, y)
      OBVIOUS
    <3>5. from.block = q /\ <<from.x, from.y>> = <<x % Edge, y % Edge>>
      BY <3>1, <3>2, <3>4
    <3>6. Want(row, col) = {p \in Products(x \div Edge, y \div Edge) : p.a[2] = p.b[1]}
      BY <3>1 DEF Want
    <3> HIDE DEF Want
    <3>7. ElementRight(x, y) <=> /\ {c[q][t] : t \in DOMAIN c[q]} = Want(row, col)
                                 /\ Len(c[q]) = Cardinality(Want(row, col))
      BY <3>4, <3>5, <3>6 DEF ElementRight
    <3>8. ElementRight(x, y) <=> SumRight(row, col)
      BY <3>3, <3>7 DEF SumRight
    <3> QED  BY <3>1, <3>8
  <2>2. ASSUME Agreed, Steps = shape.colA, NEW x \in 0 .. m - 1, NEW y \in 0 .. n - 1
        PROVE  ElementRight(x, y)
    BY <2>1, <2>2, AgreedSum DEF KernelInv
  <2>3. ASSUME ~(Agreed /\ Steps = shape.colA)
        PROVE  \E x \in 0 .. m - 1, y \in 0 .. n - 1 : ~ElementRight(x, y)
    <3>1. PICK d \in Nat \ {0}, u \in Nat \ {0}, v \in Nat \ {0} :
            d = Edge /\ u = shape.rowA /\ v = shape.colB
      BY ShapeFacts DEF KernelInv, Chosen
    <3>2. 0 \in 0 .. m - 1 /\ 0 \in 0 .. n - 1
      <4>1. 0 * d + 0 \in 0 .. u * d - 1 /\ 0 * d + 0 \in 0 .. v * d - 1
        BY ProductRange
      <4>2. 0 * d + 0 = 0
        OBVIOUS
      <4> QED  BY <3>1, <4>1, <4>2 DEF m, n
    <3>3. 0 \div Edge = 0
      BY <3>1
    <3>4. ~SumRight(0, 0)
      BY <2>3, <3>1, OtherSum DEF KernelInv
    <3>5. ~ElementRight(0, 0)
      BY <2>1, <3>2, <3>3, <3>4
    <3> QED  BY <3>2, <3>5
  <2> QED  BY <2>2, <2>3
<1> QED  BY <1>1, KernelInvariant, PTL
=============================================================================
