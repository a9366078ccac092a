------------------------- MODULE BankAllocatorProofs -------------------------
(***************************************************************************)
(* Whatever the sizes of the banks, the tiles and the alignments, and      *)
(* however calls follow each other, the buffers of BankAllocator share no  *)
(* byte, lie within their banks and begin where their alignment asks; a    *)
(* layout that is returned has its operands, and on empty banks those of a *)
(* pair in different banks and fits in L1.  The search of TilePlanner      *)
(* keeps all of this.  On the four banks of the code a layout it tries is  *)
(* refused only where there is no room, the two allocators agree, the best *)
(* tile is refused for one operand only, and the alternatives returned are *)
(* the best of those that can be laid out.                                 *)
(***************************************************************************)
EXTENDS TilePlanner, FiniteSetTheorems, WellFoundedInduction, TLAPS

Tile == Nat \X Nat \X Nat

(* Every buffer ends below the first free byte of its bank: what makes a   *)
(* new buffer, which begins at that byte, disjoint from the others.        *)
Covered == \A p \in live : EndOffset(p) <= bank_next[p.bank]

(* A layout_gemm call that runs has an allocation to make.                 *)
RunningHasTodo == outcome = "running" => todo # <<>>

BankInv == TypeOK /\ Covered /\ NoOverlap /\ RunningHasTodo

(* The products and the rounding of sizes stay natural numbers.            *)
LEMMA TimesNat == ASSUME NEW m \in Nat, NEW n \in Nat PROVE m * n \in Nat
  OBVIOUS

(* A rounded size is a natural number, zero only for an empty buffer.      *)
LEMMA AlignUpNat ==
  ASSUME NEW size \in Nat, NEW align \in Nat \ {0}
  PROVE  AlignUp(size, align) \in Nat
<1>1. (size + align - 1) \div align \in Nat
  OBVIOUS
<1> QED  BY <1>1, TimesNat DEF AlignUp

(* The requests of layout_gemm, one by one.                                *)
IsReq(r, class, size) == r.class = class /\ r.size = size /\ r.align = Alignment

LEMMA SizesNat ==
  ASSUME NEW tile \in Tile
  PROVE  /\ tile[1] * tile[2] * InBytes \in Nat
         /\ tile[2] * tile[3] * InBytes \in Nat
         /\ tile[1] * tile[3] * OutBytes \in Nat
<1>1. tile[1] \in Nat /\ tile[2] \in Nat /\ tile[3] \in Nat
  BY DEF Tile
<1> QED  BY <1>1, TimesNat, BankAssumption

LEMMA RequestsAre ==
  ASSUME NEW tile \in Tile, NEW db \in BOOLEAN, NEW s, s = Requests(tile, db),
         NEW a \in Nat, NEW b \in Nat, NEW c \in Nat,
         a = tile[1] * tile[2] * InBytes, b = tile[2] * tile[3] * InBytes,
         c = tile[1] * tile[3] * OutBytes
  PROVE  /\ s \in Seq(Request)
         /\ IsReq(s[1], "A", a) /\ IsReq(s[2], "B", b) /\ IsReq(s[3], "C", c)
         /\ db => /\ Len(s) = 6 /\ IsReq(s[4], "A2", a) /\ IsReq(s[5], "B2", b)
                  /\ IsReq(s[6], "stack", StackBytes)
         /\ ~db => Len(s) = 4 /\ IsReq(s[4], "stack", StackBytes)
<1>1. \A class \in Class, n \in Nat :
        Req(class, n) \in Request /\ IsReq(Req(class, n), class, n)
  BY BankAssumption DEF Req, Request, IsReq
<1>2. PICK ra \in Request : ra = Req("A", a) /\ IsReq(ra, "A", a)
  BY <1>1 DEF Class
<1>3. PICK rb \in Request : rb = Req("B", b) /\ IsReq(rb, "B", b)
  BY <1>1 DEF Class
<1>4. PICK rc \in Request : rc = Req("C", c) /\ IsReq(rc, "C", c)
  BY <1>1 DEF Class
<1>5. PICK rd \in Request : rd = Req("A2", a) /\ IsReq(rd, "A2", a)
  BY <1>1 DEF Class
<1>6. PICK re \in Request : re = Req("B2", b) /\ IsReq(re, "B2", b)
  BY <1>1 DEF Class
<1>7. PICK rs \in Request : rs = Req("stack", StackBytes) /\ IsReq(rs, "stack", StackBytes)
  BY <1>1, BankAssumption DEF Class
<1>8. s = <<ra, rb, rc>> \o (IF db THEN <<rd, re>> ELSE <<>>) \o <<rs>>
  BY <1>2, <1>3, <1>4, <1>5, <1>6, <1>7, Zenon DEF Requests
<1>9. CASE db
  <2>1. s = <<ra, rb, rc>> \o <<rd, re>> \o <<rs>>
    BY <1>8, <1>9
  <2>2. /\ s \in Seq(Request) /\ Len(s) = 6 /\ s[1] = ra /\ s[2] = rb /\ s[3] = rc
        /\ s[4] = rd /\ s[5] = re /\ s[6] = rs
    BY <2>1
  <2> QED  BY <1>2, <1>3, <1>4, <1>5, <1>6, <1>7, <1>9, <2>2
<1>10. CASE ~db
  <2>1. s = <<ra, rb, rc>> \o <<>> \o <<rs>>
    BY <1>8, <1>10
  <2>2. /\ s \in Seq(Request) /\ Len(s) = 4 /\ s[1] = ra /\ s[2] = rb /\ s[3] = rc
        /\ s[4] = rs
    BY <2>1
  <2> QED  BY <1>2, <1>3, <1>4, <1>7, <1>10, <2>2
<1> QED  BY <1>9, <1>10

(* The requests of layout_gemm are well formed.                            *)
LEMMA RequestsType ==
  ASSUME NEW tile \in Tile, NEW db \in BOOLEAN
  PROVE  Requests(tile, db) \in Seq(Request) /\ Requests(tile, db) # <<>>
<1>1. PICK s : s = Requests(tile, db)
  OBVIOUS
<1>2. PICK a, b, c \in Nat :
        /\ a = tile[1] * tile[2] * InBytes
        /\ b = tile[2] * tile[3] * InBytes
        /\ c = tile[1] * tile[3] * OutBytes
  BY SizesNat
<1>3. /\ s \in Seq(Request)
      /\ db => Len(s) = 6
      /\ ~db => Len(s) = 4
  BY <1>1, <1>2, RequestsAre
<1>4. Len(s) # 0
  <2>1. Len(s) = 6 \/ Len(s) = 4
    BY <1>3, Zenon
  <2> QED  BY <2>1
<1>5. s # <<>>
  BY <1>3, <1>4
<1> QED  BY <1>1, <1>3, <1>5

(* What an allocation does to the buffers that are there: the new one lies *)
(* above all those of its bank, and within the bank.                       *)
LEMMA AllocateSound ==
  ASSUME BankInv, NEW req \in Request, NEW b \in Bank, Allocate(req, b)
  PROVE  /\ bank_next' \in [Bank -> 0..BankBytes]
         /\ live' \subseteq PlacementType
         /\ Placement(req, b) \in PlacementType
         /\ Covered' /\ NoOverlap'
<1> DEFINE size == AlignUp(req.size, req.align)
           new  == Placement(req, b)
<1>1. size \in Nat
  BY AlignUpNat DEF Request
<1>2. bank_next[b] \in Nat /\ BankBytes \in Nat /\ bank_next[b] + size <= BankBytes
  BY <1>1, BankAssumption DEF Allocate, ChosenBanks, HasRoom, BankInv, TypeOK
<1>3. bank_next' = [bank_next EXCEPT ![b] = bank_next[b] + size] /\ live' = live \cup {new}
  BY DEF Allocate, NextFree
<1>4. bank_next' \in [Bank -> 0..BankBytes]
  BY <1>1, <1>2, <1>3 DEF BankInv, TypeOK
<1>5. /\ new \in PlacementType
      /\ new.bank = b /\ new.offset = bank_next[b] /\ new.size = size
  BY <1>1, <1>2 DEF Placement, PlacementType, Request
<1>6. live' \subseteq PlacementType
  BY <1>3, <1>5 DEF BankInv, TypeOK
<1>7. \A c \in Bank : bank_next[c] \in Nat /\ bank_next'[c] \in Nat /\ bank_next[c] <= bank_next'[c]
  BY <1>1, <1>2, <1>3, BankAssumption DEF BankInv, TypeOK
<1>8. \A p \in live : p.bank \in Bank /\ p.offset \in Nat /\ p.size \in Nat
  BY DEF BankInv, TypeOK, PlacementType
<1>9. Covered'
  <2>1. EndOffset(new) <= bank_next'[b]
    BY <1>1, <1>2, <1>3, <1>5 DEF EndOffset, BankInv, TypeOK
  <2>2. \A p \in live : EndOffset(p) <= bank_next'[p.bank]
    BY <1>7, <1>8 DEF BankInv, Covered, EndOffset
  <2> QED  BY <1>3, <1>5, <2>1, <2>2 DEF Covered
<1>10. NoOverlap'
  <2>1. \A p \in live : ~Overlap(p, new) /\ ~Overlap(new, p)
    BY <1>2, <1>5, <1>8 DEF Overlap, BankInv, Covered, EndOffset
  <2> QED  BY <1>3, <2>1 DEF NoOverlap, BankInv
<1> QED  BY <1>4, <1>5, <1>6, <1>9, <1>10

LEMMA BankInit == Init => BankInv
<1> SUFFICES ASSUME Init PROVE BankInv
  OBVIOUS
<1>1. bank_next \in [Bank -> 0..BankBytes]
  BY BankAssumption DEF Init
<1>2. layout \in Seq(PlacementType) /\ todo \in Seq(Request)
  BY DEF Init
<1>3. live = {} /\ missed = {} /\ outcome = "none" /\ fresh = FALSE /\ calls = 0
  BY DEF Init
<1>4. TypeOK
  BY <1>1, <1>2, <1>3 DEF TypeOK
<1> QED  BY <1>3, <1>4 DEF BankInv, Covered, NoOverlap, RunningHasTodo

(* A call of allocate, outside of layout_gemm.                             *)
LEMMA AllocateCallInv == BankInv /\ AllocateCall => BankInv'
<1> SUFFICES ASSUME BankInv, AllocateCall PROVE BankInv'
  OBVIOUS
<1> USE DEF BankInv
<1>1. PICK req \in Direct :
        \/ \E b \in Bank : Allocate(req, b)
        \/ OutOfMemory(req) /\ UNCHANGED <<bank_next, live>>
  BY DEF AllocateCall
<1>2. req \in Request
  BY BankAssumption
<1>3. UNCHANGED <<layout, todo, missed, outcome, fresh>> /\ calls' \in Nat
  BY DEF AllocateCall, TypeOK
<1>4. CASE \E b \in Bank : Allocate(req, b)
  BY <1>2, <1>3, <1>4, AllocateSound DEF TypeOK, RunningHasTodo
<1>5. CASE UNCHANGED <<bank_next, live>>
  BY <1>3, <1>5 DEF TypeOK, Covered, NoOverlap, RunningHasTodo
<1> QED  BY <1>1, <1>4, <1>5

(* layout_gemm begins, on the banks as they are or after a reset, for      *)
(* whatever tile.                                                          *)
Restart ==
  \/ UNCHANGED <<bank_next, live>>
  \/ bank_next' = [b \in Bank |-> 0] /\ live' = {}

LEMMA StartInv ==
  ASSUME NEW tile \in Tile, NEW db \in BOOLEAN, BankInv, StartLayout(tile, db), Restart,
         fresh' \in BOOLEAN, calls' \in Nat
  PROVE  BankInv'
<1>1. /\ todo' \in Seq(Request) /\ todo' # <<>>
      /\ layout' = <<>> /\ missed' = {} /\ outcome' = "running"
  BY RequestsType DEF StartLayout
<1>2. layout' \in Seq(PlacementType)
  BY <1>1
<1>3. /\ bank_next' \in [Bank -> 0..BankBytes] /\ live' \subseteq PlacementType
      /\ Covered' /\ NoOverlap'
  BY BankAssumption DEF Restart, BankInv, TypeOK, Covered, NoOverlap
<1> QED  BY <1>1, <1>2, <1>3 DEF BankInv, TypeOK, RunningHasTodo

(* What is left to do after the next allocation of layout_gemm.            *)
LEMMA TodoStep ==
  ASSUME BankInv, LayoutStep
  PROVE  /\ outcome = "running" /\ Head(todo) \in Request /\ Head(todo) = todo[1]
         /\ todo' \in Seq(Request) /\ Len(todo') = Len(todo) - 1 /\ Len(todo) \in Nat \ {0}
         /\ \A i \in 1..Len(todo') : todo'[i] = todo[i + 1]
         /\ outcome' = Outcome(missed', todo') /\ UNCHANGED <<fresh, calls>>
<1>1. outcome = "running" /\ todo \in Seq(Request) /\ todo # <<>>
  BY DEF LayoutStep, BankInv, TypeOK, RunningHasTodo
<1>2. /\ todo' = Tail(todo) /\ outcome' = Outcome(missed', Tail(todo))
      /\ UNCHANGED <<fresh, calls>>
  BY DEF LayoutStep
<1> QED  BY <1>1, <1>2

LEMMA LayoutStepInv == BankInv /\ LayoutStep => BankInv'
<1> SUFFICES ASSUME BankInv, LayoutStep PROVE BankInv'
  OBVIOUS
<1> USE DEF BankInv
<1> DEFINE req == Head(todo)
<1>1. /\ req \in Request /\ todo' \in Seq(Request)
      /\ outcome' = Outcome(missed', todo') /\ UNCHANGED <<fresh, calls>>
  BY TodoStep
<1>2. /\ outcome' \in {"none", "running", "returned", "raised"}
      /\ RunningHasTodo'
  BY <1>1 DEF Outcome, RunningHasTodo
<1>3. CASE \E b \in Bank : /\ Allocate(req, b)
                          /\ layout' = Append(layout, Placement(req, b))
                          /\ UNCHANGED missed
  <2>1. PICK b \in Bank : /\ Allocate(req, b)
                          /\ layout' = Append(layout, Placement(req, b))
                          /\ UNCHANGED missed
    BY <1>3
  <2>2. /\ bank_next' \in [Bank -> 0..BankBytes] /\ live' \subseteq PlacementType
        /\ Placement(req, b) \in PlacementType /\ Covered' /\ NoOverlap'
    BY <1>1, <2>1, AllocateSound
  <2>3. layout' \in Seq(PlacementType)
    BY <2>1, <2>2 DEF TypeOK
  <2> QED  BY <1>1, <1>2, <2>1, <2>2, <2>3 DEF TypeOK
<1>4. CASE missed' = missed \cup {req.class} /\ UNCHANGED <<bank_next, live, layout>>
  <2>1. missed' \subseteq Class
    BY <1>1, <1>4 DEF TypeOK, Request
  <2> QED  BY <1>1, <1>2, <1>4, <2>1 DEF TypeOK, Covered, NoOverlap
<1> QED  BY <1>3, <1>4 DEF LayoutStep

(* The actions of the allocator as beginnings of layout_gemm.              *)
LEMMA StartsOf ==
  ASSUME BankInv, LayoutGemm \/ OptimizeGemmLayout
  PROVE  /\ \E tile \in Tile, db \in BOOLEAN : StartLayout(tile, db)
         /\ Restart /\ fresh' \in BOOLEAN /\ calls' \in Nat
         /\ fresh' => bank_next' = [b \in Bank |-> 0] /\ live' = {}
<1>1. Tiles \subseteq Tile
  BY BankAssumption DEF Tile
<1>2. \E tile \in Tile, db \in BOOLEAN : StartLayout(tile, db)
  BY <1>1 DEF LayoutGemm, OptimizeGemmLayout
<1>3. CASE LayoutGemm
  <2>1. fresh' = FALSE /\ calls' = calls + 1 /\ UNCHANGED <<bank_next, live>>
    BY <1>3 DEF LayoutGemm
  <2>2. calls' \in Nat
    BY <2>1 DEF BankInv, TypeOK
  <2> QED  BY <1>2, <2>1, <2>2 DEF Restart
<1>4. CASE OptimizeGemmLayout
  BY <1>2, <1>4 DEF OptimizeGemmLayout, Restart
<1> QED  BY <1>3, <1>4

LEMMA BankStep == BankInv /\ [Next]_vars => BankInv'
<1> SUFFICES ASSUME BankInv, [Next]_vars PROVE BankInv'
  OBVIOUS
<1>1. CASE UNCHANGED vars
  BY <1>1 DEF BankInv, vars, TypeOK, Covered, NoOverlap, RunningHasTodo
<1>2. CASE LayoutGemm \/ OptimizeGemmLayout
  BY <1>2, StartsOf, StartInv
<1> QED  BY <1>1, <1>2, AllocateCallInv, LayoutStepInv DEF Next

LEMMA BankAlways == Spec => []BankInv
  BY BankInit, BankStep, PTL DEF Spec

(* The state of the allocator is always of its types; no bank is filled    *)
(* beyond its size.                                                        *)
THEOREM TypeCorrect == Spec => []TypeOK
<1>1. BankInv => TypeOK
  BY DEF BankInv
<1> QED  BY <1>1, BankAlways, PTL

(* Two buffers allocated since the last reset share no byte.               *)
THEOREM BuffersDisjoint == Spec => []NoOverlap
<1>1. BankInv => NoOverlap
  BY DEF BankInv
<1> QED  BY <1>1, BankAlways, PTL

LEMMA BankInvWithin == BankInv => WithinBank
<1> SUFFICES ASSUME BankInv, NEW p \in live PROVE EndOffset(p) <= BankBytes
  BY DEF WithinBank
<1>1. /\ EndOffset(p) <= bank_next[p.bank] /\ EndOffset(p) \in Nat
      /\ bank_next[p.bank] \in 0..BankBytes
  BY DEF BankInv, Covered, TypeOK, PlacementType, EndOffset
<1> QED  BY <1>1, BankAssumption

(* Every buffer lies within its bank: it ends below the first free byte of *)
(* the bank, and that byte is no further than the end of the bank.         *)
THEOREM BuffersWithin == Spec => []WithinBank
  BY BankInvWithin, BankAlways, PTL

-----------------------------------------------------------------------------
(* The first free byte of a bank is a multiple of whatever all buffers     *)
(* below it were aligned to.                                               *)
NextAligned ==
  \A b \in Bank, a \in Nat \ {0} :
    (\A q \in live : q.bank = b /\ q.offset < bank_next[b] => q.alignment % a = 0)
    => bank_next[b] % a = 0

SizesRounded == \A q \in live : q.size % q.alignment = 0

AlignInv == NextAligned /\ SizesRounded /\ OffsetsAligned

(* The order in which layout_gemm allocates the classes.                   *)
Turn(class) ==
  CASE class = "A"  -> 1 [] class = "B"  -> 2 [] class = "C"     -> 3
    [] class = "A2" -> 4 [] class = "B2" -> 5 [] class = "stack" -> 6

Waits(class)  == \E i \in 1..Len(todo) : todo[i].class = class
Placed(class) == \E i \in 1..Len(layout) : layout[i].class = class
Done          == {layout[i].class : i \in 1..Len(layout)} \cup missed

(* Every class is allocated once, in its turn; A, B and C are placed or    *)
(* still to be; the second operands are judged together.                   *)
InTurn ==
  /\ \A i, j \in 1..Len(todo) : i < j => Turn(todo[i].class) < Turn(todo[j].class)
  /\ \A class \in Done, j \in 1..Len(todo) : Turn(class) < Turn(todo[j].class)
  /\ \A i \in 1..Len(layout) : layout[i].class \notin missed
  /\ \A i, j \in 1..Len(layout) : layout[i].class = layout[j].class => i = j

Judged ==
  /\ \A class \in {"A", "B", "C"} : Placed(class) \/ Waits(class)
  /\ Waits("A2") \/ "A2" \in Done <=> Waits("B2") \/ "B2" \in Done
  /\ Len(todo) <= 1 => missed \cap {"A2", "B2"} = {}

LayoutInv ==
  /\ outcome \in {"running", "returned"} => InTurn /\ Judged
  /\ outcome = "returned" => todo = <<>>

(* On empty banks each class has its preferred bank while it waits; the    *)
(* second A is as large as the first.                                      *)
Waiting ==
  /\ \A class \in {"A", "B", "C", "A2"} : Waits(class) => bank_next[PreferredBank(class)] = 0
  /\ \A i \in 1..Len(todo) : todo[i].align = Alignment
  /\ \A i, j \in 1..Len(todo) :
       todo[i].class = "A" /\ todo[j].class = "A2" => todo[i].size = todo[j].size
  /\ \A j \in 1..Len(todo) : todo[j].class = "A2" /\ ~Waits("A") =>
       AlignUp(todo[j].size, Alignment) = bank_next[0]
  /\ Waits("B2") /\ ~Waits("A2") => bank_next[3] = bank_next[0]

HomeBanks ==
  \A i \in 1..Len(layout) :
    /\ layout[i].class \in {"A", "B", "C", "A2"} =>
         layout[i].bank = PreferredBank(layout[i].class) /\ layout[i].offset = 0
    /\ layout[i].class = "B2" => layout[i].bank # 3

FreshInv == fresh => HomeBanks /\ (outcome = "running" => Waiting)

-----------------------------------------------------------------------------
(* Multiples.                                                              *)
LEMMA TimesMod == ASSUME NEW k \in Nat, NEW a \in Nat \ {0} PROVE (k * a) % a = 0
  OBVIOUS

LEMMA ModTimes ==
  ASSUME NEW x \in Nat, NEW a \in Nat \ {0}, x % a = 0
  PROVE  \E k \in Nat : x = k * a
<1>1. x \div a \in Nat
  OBVIOUS
<1>2. x = (x \div a) * a + (x % a)
  OBVIOUS
<1>3. x = (x \div a) * a
  BY <1>1, <1>2
<1> QED  BY <1>1, <1>3

LEMMA ModSum ==
  ASSUME NEW x \in Nat, NEW y \in Nat, NEW a \in Nat \ {0}, x % a = 0, y % a = 0
  PROVE  (x + y) % a = 0
<1>1. PICK j \in Nat : x = j * a
  BY ModTimes
<1>2. PICK k \in Nat : y = k * a
  BY ModTimes
<1>3. j * a + k * a = (j + k) * a
  OBVIOUS
<1>4. x + y = (j + k) * a /\ j + k \in Nat
  BY <1>1, <1>2, <1>3
<1> QED  BY <1>4, TimesMod

LEMMA ModTrans ==
  ASSUME NEW x \in Nat, NEW m \in Nat \ {0}, NEW a \in Nat \ {0}, x % m = 0, m % a = 0
  PROVE  x % a = 0
<1>1. PICK j \in Nat : x = j * m
  BY ModTimes
<1>2. PICK k \in Nat : m = k * a
  BY ModTimes
<1>3. j * (k * a) = (j * k) * a /\ j * k \in Nat
  OBVIOUS
<1>4. x = (j * k) * a
  BY <1>1, <1>2, <1>3
<1> QED  BY <1>3, <1>4, TimesMod

LEMMA AlignUpMultiple ==
  ASSUME NEW size \in Nat, NEW align \in Nat \ {0}
  PROVE  AlignUp(size, align) % align = 0
<1>1. (size + align - 1) \div align \in Nat
  OBVIOUS
<1> QED  BY <1>1, TimesMod DEF AlignUp

(* An allocation keeps the alignments.                                     *)
LEMMA AllocateAligned ==
  ASSUME BankInv, AlignInv, NEW req \in Request, NEW b \in Bank, Allocate(req, b)
  PROVE  AlignInv'
<1>1. PICK size \in Nat : size = AlignUp(req.size, req.align)
  BY AlignUpNat DEF Request
<1>2. PICK new : new = Placement(req, b)
  OBVIOUS
<1>3. /\ req.align \in Nat \ {0} /\ size % req.align = 0
  BY <1>1, AlignUpMultiple DEF Request
<1>4. /\ new.bank = b /\ new.offset = bank_next[b] /\ new.size = size
      /\ new.alignment = req.align
  BY <1>1, <1>2 DEF Placement
<1>5. /\ bank_next' = [bank_next EXCEPT ![b] = bank_next[b] + size]
      /\ live' = live \cup {new}
  BY <1>1, <1>2 DEF Allocate, NextFree
<1>6. /\ \A c \in Bank : bank_next[c] \in Nat
      /\ \A c \in Bank \ {b} : bank_next'[c] = bank_next[c]
      /\ bank_next'[b] = bank_next[b] + size
  BY <1>5, BankAssumption DEF BankInv, TypeOK
<1>7. \A p \in live : /\ p.bank \in Bank /\ p.offset \in Nat /\ p.size \in Nat
                      /\ p.alignment \in Nat \ {0} /\ p.offset <= bank_next[p.bank]
  <2> SUFFICES ASSUME NEW p \in live
               PROVE  /\ p.bank \in Bank /\ p.offset \in Nat /\ p.size \in Nat
                      /\ p.alignment \in Nat \ {0} /\ p.offset <= bank_next[p.bank]
    OBVIOUS
  <2>1. /\ p.bank \in Bank /\ p.offset \in Nat /\ p.size \in Nat
        /\ p.alignment \in Nat \ {0} /\ p.offset + p.size <= bank_next[p.bank]
    BY DEF BankInv, TypeOK, PlacementType, Covered, EndOffset
  <2> QED  BY <1>6, <2>1
<1>8. NextAligned'
  <2> SUFFICES ASSUME NEW c \in Bank, NEW a \in Nat \ {0},
                      \A q \in live' : q.bank = c /\ q.offset < bank_next'[c] =>
                        q.alignment % a = 0
               PROVE  bank_next'[c] % a = 0
    BY DEF NextAligned
  <2>1. \A q \in live : q.bank = c /\ q.offset < bank_next[c] => q.alignment % a = 0
    BY <1>1, <1>5, <1>6, <1>7
  <2>2. bank_next[c] % a = 0
    BY <2>1 DEF AlignInv, NextAligned
  <2>3. CASE c # b
    BY <1>6, <2>2, <2>3
  <2>4. CASE c = b /\ size = 0
    BY <1>6, <2>2, <2>4
  <2>5. CASE c = b /\ size # 0
    <3>1. new \in live' /\ new.offset < bank_next'[c] /\ new.bank = c
      BY <1>1, <1>4, <1>5, <1>6, <2>5
    <3>2. req.align % a = 0
      BY <1>4, <3>1
    <3>3. size % a = 0
      BY <1>3, <3>2, ModTrans
    <3>4. (bank_next[c] + size) % a = 0
      BY <1>6, <2>2, <3>3, ModSum
    <3> QED  BY <1>6, <2>5, <3>4
  <2> QED  BY <2>3, <2>4, <2>5
<1>9. SizesRounded'
  BY <1>3, <1>4, <1>5 DEF AlignInv, SizesRounded
<1>10. OffsetsAligned'
  <2> SUFFICES ASSUME NEW p \in live',
                      \A q \in live' : q.bank = p.bank /\ q.offset < p.offset =>
                        q.alignment % p.alignment = 0
               PROVE  p.offset % p.alignment = 0
    BY DEF OffsetsAligned
  <2>1. CASE p \in live
    BY <1>5, <2>1 DEF AlignInv, OffsetsAligned
  <2>2. CASE p = new
    <3>1. \A q \in live : q.bank = b /\ q.offset < bank_next[b] =>
            q.alignment % req.align = 0
      BY <1>4, <1>5, <2>2
    <3>2. bank_next[b] % req.align = 0
      BY <1>3, <3>1 DEF AlignInv, NextAligned
    <3> QED  BY <1>4, <2>2, <3>2
  <2> QED  BY <1>5, <2>1, <2>2
<1> QED  BY <1>8, <1>9, <1>10 DEF AlignInv

LEMMA AlignSame == AlignInv /\ UNCHANGED <<bank_next, live>> => AlignInv'
  BY DEF AlignInv, NextAligned, SizesRounded, OffsetsAligned

LEMMA AlignReset ==
  ASSUME bank_next' = [b \in Bank |-> 0], live' = {}
  PROVE  AlignInv'
<1>1. \A a \in Nat \ {0} : 0 % a = 0
  OBVIOUS
<1> QED  BY <1>1 DEF AlignInv, NextAligned, SizesRounded, OffsetsAligned

LEMMA AlignStart == AlignInv /\ Restart => AlignInv'
  BY AlignSame, AlignReset DEF Restart

LEMMA AlignCall ==
  ASSUME BankInv, AlignInv, AllocateCall \/ LayoutStep
  PROVE  AlignInv'
<1>1. CASE UNCHANGED <<bank_next, live>>
  BY <1>1, AlignSame
<1>2. CASE \E req \in Request, b \in Bank : Allocate(req, b)
  BY <1>2, AllocateAligned
<1>3. CASE AllocateCall
  <2>1. Direct \subseteq Request
    BY BankAssumption
  <2> QED  BY <1>1, <1>2, <1>3, <2>1 DEF AllocateCall
<1>4. CASE LayoutStep
  <2>1. Head(todo) \in Request
    BY <1>4, TodoStep
  <2> QED  BY <1>1, <1>2, <1>4, <2>1 DEF LayoutStep
<1> QED  BY <1>3, <1>4

LEMMA AlignInit == Init => AlignInv
<1> SUFFICES ASSUME Init PROVE AlignInv
  OBVIOUS
<1>1. \A a \in Nat \ {0} : 0 % a = 0
  OBVIOUS
<1> QED  BY <1>1 DEF Init, AlignInv, NextAligned, SizesRounded, OffsetsAligned

LEMMA AlignStep == BankInv /\ AlignInv /\ [Next]_vars => AlignInv'
<1> SUFFICES ASSUME BankInv, AlignInv, [Next]_vars PROVE AlignInv'
  OBVIOUS
<1>1. CASE UNCHANGED vars
  BY <1>1, AlignSame DEF vars
<1>2. CASE LayoutGemm \/ OptimizeGemmLayout
  BY <1>2, StartsOf, AlignStart
<1> QED  BY <1>1, <1>2, AlignCall DEF Next

(* A buffer begins at a multiple of its alignment wherever all buffers     *)
(* below it were allocated with multiples of that alignment: the rounded   *)
(* sizes add up to it.                                                     *)
THEOREM BuffersAligned == Spec => []OffsetsAligned
<1>1. AlignInv => OffsetsAligned
  BY DEF AlignInv
<1> QED  BY <1>1, AlignInit, AlignStep, BankAlways, PTL DEF Spec

(* A layout that begins: nothing placed, nothing missed, everything still  *)
(* to come in its turn; on empty banks every preferred bank is free.       *)
LEMMA LayoutStart ==
  ASSUME NEW tile \in Tile, NEW db \in BOOLEAN, StartLayout(tile, db),
         fresh' => bank_next' = [b \in Bank |-> 0]
  PROVE  LayoutInv' /\ FreshInv'
<1>1. PICK s : s = Requests(tile, db)
  OBVIOUS
<1>2. PICK a, b, c \in Nat :
         /\ a = tile[1] * tile[2] * InBytes
         /\ b = tile[2] * tile[3] * InBytes
         /\ c = tile[1] * tile[3] * OutBytes
  BY SizesNat
<1>3. /\ s \in Seq(Request)
      /\ IsReq(s[1], "A", a) /\ IsReq(s[2], "B", b) /\ IsReq(s[3], "C", c)
      /\ db => /\ Len(s) = 6 /\ IsReq(s[4], "A2", a) /\ IsReq(s[5], "B2", b)
               /\ IsReq(s[6], "stack", StackBytes)
      /\ ~db => Len(s) = 4 /\ IsReq(s[4], "stack", StackBytes)
  BY <1>1, <1>2, RequestsAre
<1>4. todo' = s /\ layout' = <<>> /\ missed' = {} /\ outcome' = "running"
  BY <1>1 DEF StartLayout
<1>5. Len(layout') = 0 /\ Done' = {}
  BY <1>4 DEF Done
<1>6. /\ s[1].class = "A" /\ s[2].class = "B" /\ s[3].class = "C"
      /\ db => s[4].class = "A2" /\ s[5].class = "B2" /\ s[6].class = "stack"
      /\ ~db => s[4].class = "stack"
  BY <1>3, Zenon DEF IsReq
<1>7. 1..6 = {1, 2, 3, 4, 5, 6} /\ 1..4 = {1, 2, 3, 4}
  OBVIOUS
<1>8. /\ db => 1..Len(s) = {1, 2, 3, 4, 5, 6}
      /\ ~db => 1..Len(s) = {1, 2, 3, 4}
  BY <1>3, <1>7, Zenon
<1>9. 1 \in 1..Len(s) /\ 2 \in 1..Len(s) /\ 3 \in 1..Len(s)
  BY <1>8
<1>10. InTurn'
  <2>1. \A i, j \in 1..Len(s) : i < j => Turn(s[i].class) < Turn(s[j].class)
    <3>1. Turn(s[1].class) = 1 /\ Turn(s[2].class) = 2 /\ Turn(s[3].class) = 3
      BY <1>6 DEF Turn
    <3>2. CASE db
      <4>1. Turn(s[4].class) = 4 /\ Turn(s[5].class) = 5 /\ Turn(s[6].class) = 6
        BY <1>6, <3>2 DEF Turn
      <4>2. \A i \in 1..Len(s) : Turn(s[i].class) = i
        <5>1. 1..Len(s) = {1, 2, 3, 4, 5, 6}
          BY <1>8, <3>2
        <5> QED  BY <3>1, <4>1, <5>1
      <4> QED  BY <4>2
    <3>3. CASE ~db
      <4>1. Turn(s[4].class) = 6
        BY <1>6, <3>3 DEF Turn
      <4>2. 1..Len(s) = {1, 2, 3, 4}
        BY <1>8, <3>3
      <4> QED  BY <3>1, <4>1, <4>2
    <3> QED  BY <3>2, <3>3
  <2> QED  BY <1>4, <1>5, <2>1 DEF InTurn
<1>11. Judged'
  <2>1. \A class \in {"A", "B", "C"} : Waits(class)'
    BY <1>4, <1>6, <1>9 DEF Waits
  <2>2. Waits("A2")' <=> Waits("B2")'
    <3>1. CASE db
      BY <1>4, <1>6, <1>8, <3>1 DEF Waits
    <3>2. CASE ~db
      <4>1. 1..Len(s) = {1, 2, 3, 4}
        BY <1>8, <3>2
      <4> QED  BY <1>4, <1>6, <3>2, <4>1 DEF Waits
    <3> QED  BY <3>1, <3>2
  <2> QED  BY <1>4, <1>5, <2>1, <2>2 DEF Judged
<1>12. FreshInv'
  <2> SUFFICES ASSUME fresh' PROVE Waiting' /\ HomeBanks'
    BY DEF FreshInv
  <2>1. \A x \in Bank : bank_next'[x] = 0
    OBVIOUS
  <2>2. 0 \in Bank /\ 1 \in Bank /\ 2 \in Bank /\ 3 \in Bank
    BY BankAssumption DEF Bank
  <2>3. \A class \in {"A", "B", "C", "A2"} : bank_next'[PreferredBank(class)] = 0
    BY <2>1, <2>2 DEF PreferredBank
  <2>4. \A i \in 1..Len(s) : s[i].align = Alignment
    <3>1. CASE db
      <4>1. 1..Len(s) = {1, 2, 3, 4, 5, 6}
        BY <1>8, <3>1
      <4> QED  BY <1>3, <3>1, <4>1 DEF IsReq
    <3>2. CASE ~db
      <4>1. 1..Len(s) = {1, 2, 3, 4}
        BY <1>8, <3>2
      <4> QED  BY <1>3, <3>2, <4>1 DEF IsReq
    <3> QED  BY <3>1, <3>2
  <2>5. \A i, j \in 1..Len(s) : s[i].class = "A" /\ s[j].class = "A2" => s[i].size = s[j].size
    <3>1. CASE db
      <4>1. 1..Len(s) = {1, 2, 3, 4, 5, 6}
        BY <1>8, <3>1
      <4> QED  BY <1>3, <3>1, <4>1 DEF IsReq
    <3>2. CASE ~db
      <4>1. 1..Len(s) = {1, 2, 3, 4}
        BY <1>8, <3>2
      <4> QED  BY <1>3, <3>2, <4>1 DEF IsReq
    <3> QED  BY <3>1, <3>2
  <2>6. Waits("A")' /\ bank_next'[3] = bank_next'[0]
    BY <1>4, <1>6, <1>9, <2>1, <2>2 DEF Waits
  <2>7. Waiting'
    BY <1>4, <2>3, <2>4, <2>5, <2>6 DEF Waiting
  <2>8. HomeBanks'
    BY <1>5 DEF HomeBanks
  <2> QED  BY <2>7, <2>8
<1> QED  BY <1>4, <1>10, <1>11, <1>12 DEF LayoutInv

-----------------------------------------------------------------------------
(* The next allocation of layout_gemm, seen through the elements of its    *)
(* sequences: the class is placed in one of its banks, or missed.          *)
Puts(b) ==
  /\ b \in ChosenBanks(bank_next, todo[1].class, AlignUp(todo[1].size, todo[1].align))
  /\ bank_next' = [bank_next EXCEPT ![b] = @ + AlignUp(todo[1].size, todo[1].align)]
  /\ Len(layout') = Len(layout) + 1
  /\ \A i \in 1..Len(layout) : layout'[i] = layout[i]
  /\ layout'[Len(layout) + 1].class = todo[1].class
  /\ layout'[Len(layout) + 1].bank = b
  /\ layout'[Len(layout) + 1].offset = bank_next[b]
  /\ layout'[Len(layout) + 1].size = AlignUp(todo[1].size, todo[1].align)
  /\ missed' = missed

Misses ==
  /\ OutOfMemory(todo[1])
  /\ bank_next' = bank_next /\ layout' = layout
  /\ missed' = missed \cup {todo[1].class}

LEMMA Appended ==
  ASSUME NEW S, NEW s \in Seq(S), NEW e \in S, NEW t, t = Append(s, e)
  PROVE  /\ Len(t) = Len(s) + 1 /\ t[Len(s) + 1] = e
         /\ \A i \in 1..Len(s) : t[i] = s[i]
  OBVIOUS

LEMMA PutsOrMisses ==
  ASSUME BankInv, LayoutStep
  PROVE  (\E b \in Bank : Puts(b)) \/ Misses
<1>1. Head(todo) = todo[1] /\ todo[1] \in Request
  BY TodoStep
<1>2. CASE \E b \in Bank : /\ Allocate(Head(todo), b)
                          /\ layout' = Append(layout, Placement(Head(todo), b))
                          /\ UNCHANGED missed
  <2>1. PICK b \in Bank : /\ Allocate(todo[1], b)
                          /\ layout' = Append(layout, Placement(todo[1], b))
                          /\ UNCHANGED missed
    BY <1>1, <1>2
  <2>2. Placement(todo[1], b) \in PlacementType
    BY <1>1, <2>1, AllocateSound
  <2>3. layout \in Seq(PlacementType)
    BY DEF BankInv, TypeOK
  <2>4. PICK new \in PlacementType : new = Placement(todo[1], b)
    BY <2>2
  <2>5. /\ new.class = todo[1].class /\ new.bank = b /\ new.offset = bank_next[b]
        /\ new.size = AlignUp(todo[1].size, todo[1].align)
    BY <2>4 DEF Placement
  <2>6. /\ Len(layout') = Len(layout) + 1 /\ layout'[Len(layout) + 1] = new
        /\ \A i \in 1..Len(layout) : layout'[i] = layout[i]
    BY <2>1, <2>3, <2>4, Appended
  <2>7. Puts(b)
    BY <2>1, <2>5, <2>6 DEF Puts, Allocate, NextFree
  <2> QED  BY <2>7
<1>3. CASE /\ OutOfMemory(Head(todo)) /\ missed' = missed \cup {Head(todo).class}
           /\ UNCHANGED <<bank_next, live, layout>>
  BY <1>1, <1>3 DEF Misses
<1> QED  BY <1>2, <1>3 DEF LayoutStep

LEMMA TurnNat == ASSUME NEW class \in Class PROVE Turn(class) \in Nat
  BY DEF Class, Turn

(* The first of the waiting classes becomes a class that is done.          *)
LEMMA StepDone ==
  ASSUME BankInv, LayoutStep
  PROVE  /\ Done' = Done \cup {todo[1].class}
         /\ \A class : Waits(class) <=> class = todo[1].class \/ Waits(class)'
<1>1. /\ Len(todo') = Len(todo) - 1 /\ Len(todo) \in Nat \ {0}
      /\ \A i \in 1..Len(todo') : todo'[i] = todo[i + 1]
  BY TodoStep
<1>2. \A class : Waits(class) <=> class = todo[1].class \/ Waits(class)'
  <2> SUFFICES ASSUME NEW class PROVE Waits(class) <=> class = todo[1].class \/ Waits(class)'
    OBVIOUS
  <2>1. ASSUME Waits(class), class # todo[1].class PROVE Waits(class)'
    <3>1. PICK i \in 1..Len(todo) : todo[i].class = class
      BY <2>1 DEF Waits
    <3>2. i # 1
      BY <2>1, <3>1
    <3>3. i - 1 \in 1..Len(todo') /\ (i - 1) + 1 = i
      BY <1>1, <3>2
    <3>4. todo'[i - 1].class = class
      BY <1>1, <3>1, <3>3
    <3> QED  BY <3>3, <3>4 DEF Waits
  <2>2. ASSUME Waits(class)' PROVE Waits(class)
    <3>1. PICK i \in 1..Len(todo') : todo'[i].class = class
      BY <2>2 DEF Waits
    <3>2. i + 1 \in 1..Len(todo) /\ todo[i + 1].class = class
      BY <1>1, <3>1
    <3> QED  BY <3>2 DEF Waits
  <2>3. ASSUME class = todo[1].class PROVE Waits(class)
    BY <1>1, <2>3 DEF Waits
  <2> QED  BY <2>1, <2>2, <2>3
<1>3. Len(layout) \in Nat
  BY DEF BankInv, TypeOK
<1>4. Done' = Done \cup {todo[1].class}
  <2>1. CASE \E b \in Bank : Puts(b)
    <3>1. /\ Len(layout') = Len(layout) + 1 /\ missed' = missed
          /\ \A i \in 1..Len(layout) : layout'[i] = layout[i]
          /\ layout'[Len(layout) + 1].class = todo[1].class
      BY <2>1 DEF Puts
    <3>2. \A i : i \in 1..Len(layout') <=> i \in 1..Len(layout) \/ i = Len(layout) + 1
      BY <1>3, <3>1
    <3>3. \A class : (\E i \in 1..Len(layout') : layout'[i].class = class) <=>
                     (\E i \in 1..Len(layout) : layout[i].class = class) \/ class = todo[1].class
      BY <3>1, <3>2
    <3> QED  BY <3>1, <3>3 DEF Done
  <2>2. CASE Misses
    BY <2>2 DEF Misses, Done
  <2> QED  BY <2>1, <2>2, PutsOrMisses
<1> QED  BY <1>2, <1>4

LEMMA InTurnStep ==
  ASSUME BankInv, InTurn, LayoutStep
  PROVE  InTurn' /\ todo[1].class \notin Done
<1>1. /\ Len(todo') = Len(todo) - 1 /\ Len(todo) \in Nat \ {0}
      /\ \A i \in 1..Len(todo') : todo'[i] = todo[i + 1]
      /\ todo[1] \in Request
  BY TodoStep
<1>2. Done' = Done \cup {todo[1].class}
  BY StepDone
<1>3. \A i \in 1..Len(todo') : i + 1 \in 1..Len(todo) /\ 1 < i + 1
  BY <1>1
<1>4. todo[1].class \notin Done
  <2>1. Turn(todo[1].class) \in Nat
    BY <1>1, TurnNat DEF Request
  <2>2. 1 \in 1..Len(todo)
    BY <1>1
  <2> QED  BY <2>1, <2>2 DEF InTurn
<1>5. \A i, j \in 1..Len(todo') : i < j => Turn(todo'[i].class) < Turn(todo'[j].class)
  <2> SUFFICES ASSUME NEW i \in 1..Len(todo'), NEW j \in 1..Len(todo'), i < j
               PROVE  Turn(todo'[i].class) < Turn(todo'[j].class)
    OBVIOUS
  <2>1. i + 1 \in 1..Len(todo) /\ j + 1 \in 1..Len(todo) /\ i + 1 < j + 1
    BY <1>1
  <2>2. Turn(todo[i + 1].class) < Turn(todo[j + 1].class)
    BY <2>1 DEF InTurn
  <2> QED  BY <1>1, <2>2
<1>6. \A class \in Done', j \in 1..Len(todo') : Turn(class) < Turn(todo'[j].class)
  <2> SUFFICES ASSUME NEW class \in Done', NEW j \in 1..Len(todo')
               PROVE  Turn(class) < Turn(todo'[j].class)
    OBVIOUS
  <2>1. 1 \in 1..Len(todo) /\ j + 1 \in 1..Len(todo) /\ 1 < j + 1 /\ todo'[j] = todo[j + 1]
    BY <1>1, <1>3
  <2>2. CASE class \in Done
    BY <2>1, <2>2 DEF InTurn
  <2>3. CASE class = todo[1].class
    BY <2>1, <2>3 DEF InTurn
  <2> QED  BY <1>2, <2>2, <2>3
<1>7. Len(layout) \in Nat
  BY DEF BankInv, TypeOK
<1>8. \A i \in 1..Len(layout) : layout[i].class \in Done
  BY DEF Done
<1>9. /\ \A i \in 1..Len(layout') : layout'[i].class \notin missed'
      /\ \A i, j \in 1..Len(layout') : layout'[i].class = layout'[j].class => i = j
  <2>1. CASE \E b \in Bank : Puts(b)
    <3>1. /\ Len(layout') = Len(layout) + 1 /\ missed' = missed
          /\ \A i \in 1..Len(layout) : layout'[i] = layout[i]
          /\ layout'[Len(layout) + 1].class = todo[1].class
      BY <2>1 DEF Puts
    <3>2. \A i : i \in 1..Len(layout') <=> i \in 1..Len(layout) \/ i = Len(layout) + 1
      BY <1>7, <3>1
    <3>3. todo[1].class \notin missed
      BY <1>4 DEF Done
    <3>4. \A i \in 1..Len(layout) : layout'[i].class # todo[1].class
      BY <1>4, <1>8, <3>1
    <3>5. \A i \in 1..Len(layout') : layout'[i].class \notin missed'
      BY <3>1, <3>2, <3>3 DEF InTurn
    <3>6. \A i, j \in 1..Len(layout') : layout'[i].class = layout'[j].class => i = j
      BY <3>1, <3>2, <3>4 DEF InTurn
    <3> QED  BY <3>5, <3>6
  <2>2. CASE Misses
    BY <1>4, <1>8, <2>2 DEF Misses, InTurn
  <2> QED  BY <2>1, <2>2, PutsOrMisses
<1> QED  BY <1>4, <1>5, <1>6, <1>9 DEF InTurn

LEMMA LayoutStepLayout ==
  ASSUME BankInv, LayoutInv, LayoutStep
  PROVE  LayoutInv'
<1>1. /\ outcome = "running" /\ outcome' = Outcome(missed', todo')
      /\ todo' \in Seq(Request)
  BY TodoStep
<1>2. InTurn /\ Judged
  BY <1>1 DEF LayoutInv
<1>3. InTurn'
  BY <1>2, InTurnStep
<1>4. /\ Done' = Done \cup {todo[1].class}
      /\ \A class : Waits(class) <=> class = todo[1].class \/ Waits(class)'
  BY StepDone
<1>5. outcome' = "returned" => todo' = <<>>
  BY <1>1 DEF Outcome
<1>6. ASSUME outcome' \in {"running", "returned"} PROVE Judged'
  <2>1. /\ missed' \cap {"A", "B", "C"} = {}
        /\ Len(todo') <= 1 => missed' \cap {"A2", "B2"} = {}
    BY <1>1, <1>6 DEF Outcome
  <2>2. \A class \in {"A", "B", "C"} : Placed(class)' \/ Waits(class)'
    <3> SUFFICES ASSUME NEW class \in {"A", "B", "C"}, ~Waits(class)'
                 PROVE  Placed(class)'
      OBVIOUS
    <3>1. Placed(class) \/ class = todo[1].class
      BY <1>2, <1>4 DEF Judged
    <3>2. Len(layout) \in Nat
      BY DEF BankInv, TypeOK
    <3>3. CASE \E b \in Bank : Puts(b)
      <4>1. /\ Len(layout') = Len(layout) + 1
            /\ \A i \in 1..Len(layout) : layout'[i] = layout[i]
            /\ layout'[Len(layout) + 1].class = todo[1].class
        BY <3>3 DEF Puts
      <4>2. \A i : i \in 1..Len(layout') <=> i \in 1..Len(layout) \/ i = Len(layout) + 1
        BY <3>2, <4>1
      <4> QED  BY <3>1, <4>1, <4>2 DEF Placed
    <3>4. CASE Misses
      BY <2>1, <3>1, <3>4 DEF Misses, Placed
    <3> QED  BY <3>3, <3>4, PutsOrMisses
  <2>3. \A class : Waits(class) \/ class \in Done <=> Waits(class)' \/ class \in Done'
    BY <1>4
  <2>4. (Waits("A2")' \/ "A2" \in Done' <=> Waits("B2")' \/ "B2" \in Done')
    BY <1>2, <2>3 DEF Judged
  <2> QED  BY <2>1, <2>2, <2>4 DEF Judged
<1> QED  BY <1>3, <1>5, <1>6 DEF LayoutInv

(* What still waits after the step has its turn after the class of the     *)
(* step.                                                                   *)
LEMMA StillAhead ==
  ASSUME BankInv, InTurn, LayoutStep, NEW class, Waits(class)'
  PROVE  Turn(todo[1].class) < Turn(class) /\ Waits(class)
<1>1. /\ Len(todo') = Len(todo) - 1 /\ Len(todo) \in Nat \ {0}
      /\ \A i \in 1..Len(todo') : todo'[i] = todo[i + 1]
  BY TodoStep
<1>2. PICK j \in 1..Len(todo') : todo'[j].class = class
  BY DEF Waits
<1>3. 1 \in 1..Len(todo) /\ j + 1 \in 1..Len(todo) /\ 1 < j + 1 /\ todo[j + 1].class = class
  BY <1>1, <1>2
<1> QED  BY <1>3 DEF InTurn, Waits

LEMMA TurnsAre ==
  /\ Turn("A") = 1 /\ Turn("B") = 2 /\ Turn("C") = 3
  /\ Turn("A2") = 4 /\ Turn("B2") = 5 /\ Turn("stack") = 6
  BY DEF Turn

LEMMA PreferredAre ==
  /\ PreferredBank("A") = 0 /\ PreferredBank("B") = 1 /\ PreferredBank("C") = 2
  /\ PreferredBank("A2") = 3 /\ PreferredBank("B2") = 0
  /\ {0, 1, 2, 3} \subseteq Bank
  BY BankAssumption DEF PreferredBank, Bank

(* A buffer whose preferred bank is empty is placed there.                 *)
LEMMA PutHome ==
  ASSUME BankInv, LayoutStep, NEW b \in Bank, Puts(b),
         PreferredBank(todo[1].class) \in Bank,
         bank_next[PreferredBank(todo[1].class)] = 0
  PROVE  b = PreferredBank(todo[1].class)
<1>1. todo[1] \in Request
  BY TodoStep
<1>2. PICK size \in Nat : size = AlignUp(todo[1].size, todo[1].align)
  BY <1>1, AlignUpNat DEF Request
<1>3. PICK home \in Bank : home = PreferredBank(todo[1].class)
  OBVIOUS
<1>4. b \in ChosenBanks(bank_next, todo[1].class, size)
  BY <1>2 DEF Puts
<1>5. HasRoom(bank_next, b, size)
  BY <1>4 DEF ChosenBanks
<1>6. bank_next[b] \in Nat /\ BankBytes \in Nat
  BY BankAssumption DEF BankInv, TypeOK
<1>7. size <= BankBytes
  BY <1>5, <1>6 DEF HasRoom
<1>8. HasRoom(bank_next, home, size)
  BY <1>3, <1>7 DEF HasRoom
<1>9. ChosenBanks(bank_next, todo[1].class, size) = {home}
  BY <1>3, <1>8 DEF ChosenBanks
<1> QED  BY <1>3, <1>4, <1>9

(* The second B does not go where the second A went, as long as the banks  *)
(* of the two A are equally full: what has room in one has room in the     *)
(* other, which it prefers.                                                *)
LEMMA PutSecondB ==
  ASSUME BankInv, LayoutStep, NEW b \in Bank, Puts(b), todo[1].class = "B2",
         bank_next[3] = bank_next[0]
  PROVE  b # 3
<1>1. PICK size : size = AlignUp(todo[1].size, todo[1].align)
  OBVIOUS
<1>2. b \in ChosenBanks(bank_next, "B2", size)
  BY <1>1 DEF Puts
<1>3. HasRoom(bank_next, b, size)
  BY <1>2 DEF ChosenBanks
<1>4. ASSUME b = 3 PROVE FALSE
  <2>1. HasRoom(bank_next, 0, size)
    BY <1>3, <1>4 DEF HasRoom
  <2>2. ChosenBanks(bank_next, "B2", size) = {0}
    BY <2>1, PreferredAre DEF ChosenBanks
  <2> QED  BY <1>2, <1>4, <2>2
<1> QED  BY <1>4

(* What waits with its preferred bank empty and precedes the second A is   *)
(* put at home.                                                            *)
LEMMA HomeStep ==
  ASSUME BankInv, LayoutInv, Waiting, LayoutStep, NEW b \in Bank, Puts(b)
  PROVE  /\ todo[1].class \in {"A", "B", "C", "A2"} =>
              b = PreferredBank(todo[1].class) /\ bank_next[b] = 0
         /\ todo[1].class = "B2" => b # 3
<1>1. Waits(todo[1].class) /\ outcome = "running"
  BY StepDone, TodoStep
<1>2. ASSUME todo[1].class \in {"A", "B", "C", "A2"}
      PROVE  b = PreferredBank(todo[1].class) /\ bank_next[b] = 0
  <2>1. bank_next[PreferredBank(todo[1].class)] = 0
    BY <1>1, <1>2 DEF Waiting
  <2>2. PreferredBank(todo[1].class) \in Bank
    BY <1>2, PreferredAre
  <2> QED  BY <2>1, <2>2, PutHome
<1>3. ASSUME todo[1].class = "B2" PROVE b # 3
  <2>1. ~Waits("A2")
    <3> SUFFICES ASSUME Waits("A2") PROVE FALSE
      OBVIOUS
    <3>1. Waits("A2")'
      BY <1>3, StepDone
    <3>2. Turn("B2") < Turn("A2")
      BY <1>1, <1>3, <3>1, StillAhead DEF LayoutInv
    <3> QED  BY <3>2, TurnsAre
  <2>2. bank_next[3] = bank_next[0]
    BY <1>1, <1>3, <2>1 DEF Waiting
  <2> QED  BY <1>3, <2>2, PutSecondB
<1> QED  BY <1>2, <1>3

LEMMA HomeBanksStep ==
  ASSUME BankInv, LayoutInv, Waiting, HomeBanks, LayoutStep
  PROVE  HomeBanks'
<1>1. CASE Misses
  BY <1>1 DEF Misses, HomeBanks
<1>2. CASE \E b \in Bank : Puts(b)
  <2>1. PICK b \in Bank : Puts(b)
    BY <1>2
  <2>2. /\ Len(layout') = Len(layout) + 1
        /\ \A i \in 1..Len(layout) : layout'[i] = layout[i]
        /\ layout'[Len(layout) + 1].class = todo[1].class
        /\ layout'[Len(layout) + 1].bank = b
        /\ layout'[Len(layout) + 1].offset = bank_next[b]
    BY <2>1 DEF Puts
  <2>3. Len(layout) \in Nat
    BY DEF BankInv, TypeOK
  <2>4. \A i \in 1..Len(layout') : i \in 1..Len(layout) \/ i = Len(layout) + 1
    BY <2>2, <2>3
  <2>5. /\ todo[1].class \in {"A", "B", "C", "A2"} =>
             b = PreferredBank(todo[1].class) /\ bank_next[b] = 0
        /\ todo[1].class = "B2" => b # 3
    BY <2>1, HomeStep
  <2> SUFFICES ASSUME NEW i \in 1..Len(layout')
               PROVE  /\ layout'[i].class \in {"A", "B", "C", "A2"} =>
                           /\ layout'[i].bank = PreferredBank(layout'[i].class)
                           /\ layout'[i].offset = 0
                      /\ layout'[i].class = "B2" => layout'[i].bank # 3
    BY DEF HomeBanks
  <2>6. CASE i \in 1..Len(layout)
    BY <2>2, <2>6 DEF HomeBanks
  <2>7. CASE i = Len(layout) + 1
    BY <2>2, <2>5, <2>7
  <2> QED  BY <2>4, <2>6, <2>7
<1> QED  BY <1>1, <1>2, PutsOrMisses

LEMMA WaitingStep ==
  ASSUME BankInv, LayoutInv, Waiting, LayoutStep, outcome' = "running"
  PROVE  Waiting'
<1> DEFINE cls == todo[1].class
<1>1. /\ Len(todo') = Len(todo) - 1 /\ Len(todo) \in Nat \ {0}
      /\ \A i \in 1..Len(todo') : todo'[i] = todo[i + 1]
      /\ todo[1] \in Request /\ outcome' = Outcome(missed', todo')
      /\ outcome = "running"
  BY TodoStep
<1>2. InTurn /\ Judged /\ cls \in Class
  BY <1>1 DEF LayoutInv, Request
<1>3. \A class : Waits(class)' => Turn(cls) < Turn(class) /\ Waits(class)
  BY <1>2, StillAhead
<1>4. Waits(cls) /\ \A class : Waits(class) => class = cls \/ Waits(class)'
  BY StepDone
<1>5. \A i \in 1..Len(todo') : i + 1 \in 1..Len(todo)
  BY <1>1
<1>6. missed' \cap {"A", "B", "C"} = {}
  BY <1>1 DEF Outcome
<1>7. \A b \in Bank : bank_next[b] \in Nat /\ bank_next[b] <= BankBytes
  BY BankAssumption DEF BankInv, TypeOK
<1>8. PICK size \in Nat : size = AlignUp(todo[1].size, Alignment)
  BY <1>1, AlignUpNat, BankAssumption DEF Request
<1>9. todo[1].align = Alignment
  BY <1>1 DEF Waiting
<1>10. \A b \in Bank : Puts(b) => /\ bank_next' = [bank_next EXCEPT ![b] = @ + size]
                                  /\ cls \in {"A", "B", "C", "A2"} => b = PreferredBank(cls)
  BY <1>8, <1>9, HomeStep DEF Puts
<1>11. \A b, c \in Bank : Puts(b) =>
         bank_next'[c] = IF c = b THEN bank_next[c] + size ELSE bank_next[c]
  BY <1>10 DEF BankInv, TypeOK
<1>12. Misses => bank_next' = bank_next /\ cls \in missed'
  BY DEF Misses
<1>13. \A class \in {"A", "B", "C", "A2"} : Waits(class)' => bank_next'[PreferredBank(class)] = 0
  <2> SUFFICES ASSUME NEW class \in {"A", "B", "C", "A2"}, Waits(class)'
               PROVE  bank_next'[PreferredBank(class)] = 0
    OBVIOUS
  <2>1. bank_next[PreferredBank(class)] = 0 /\ Turn(cls) < Turn(class)
    BY <1>3 DEF Waiting
  <2>2. cls \in {"A", "B", "C", "A2"} /\ cls # class
    BY <1>2, <2>1, TurnsAre DEF Class
  <2>3. PreferredBank(cls) # PreferredBank(class) /\ PreferredBank(class) \in Bank
    BY <2>2, PreferredAre
  <2>4. CASE \E b \in Bank : Puts(b)
    BY <1>10, <1>11, <2>1, <2>2, <2>3, <2>4
  <2> QED  BY <1>12, <2>1, <2>4, PutsOrMisses
<1>14. /\ \A i \in 1..Len(todo') : todo'[i].align = Alignment
       /\ \A i, j \in 1..Len(todo') :
            todo'[i].class = "A" /\ todo'[j].class = "A2" => todo'[i].size = todo'[j].size
  <2>1. \A i \in 1..Len(todo') : todo'[i].align = Alignment
    BY <1>1, <1>5 DEF Waiting
  <2>2. \A i, j \in 1..Len(todo) :
          todo[i].class = "A" /\ todo[j].class = "A2" => todo[i].size = todo[j].size
    BY DEF Waiting
  <2>3. \A i, j \in 1..Len(todo') :
          todo'[i].class = "A" /\ todo'[j].class = "A2" => todo'[i].size = todo'[j].size
    <3> SUFFICES ASSUME NEW i \in 1..Len(todo'), NEW j \in 1..Len(todo'),
                        todo'[i].class = "A", todo'[j].class = "A2"
                 PROVE  todo'[i].size = todo'[j].size
      OBVIOUS
    <3>1. /\ i + 1 \in 1..Len(todo) /\ todo'[i] = todo[i + 1]
          /\ j + 1 \in 1..Len(todo) /\ todo'[j] = todo[j + 1]
      BY <1>1, <1>5
    <3> QED  BY <2>2, <3>1
  <2> QED  BY <2>1, <2>3
<1>15. \A j \in 1..Len(todo') : todo'[j].class = "A2" /\ ~Waits("A")' =>
         AlignUp(todo'[j].size, Alignment) = bank_next'[0]
  <2> SUFFICES ASSUME NEW j \in 1..Len(todo'), todo'[j].class = "A2", ~Waits("A")'
               PROVE  AlignUp(todo'[j].size, Alignment) = bank_next'[0]
    OBVIOUS
  <2>1. j + 1 \in 1..Len(todo) /\ todo'[j] = todo[j + 1]
    BY <1>1, <1>5
  <2>2. Waits("A2")' /\ Turn(cls) < Turn("A2")
    BY <1>3 DEF Waits
  <2>3. cls \in {"A", "B", "C"}
    BY <1>2, <2>2, TurnsAre DEF Class
  <2>4. PICK b \in Bank : Puts(b)
    BY <1>6, <1>12, <2>3, PutsOrMisses
  <2>5. b = PreferredBank(cls)
    BY <1>10, <2>3, <2>4
  <2>6. CASE cls = "A"
    <3>1. b = 0 /\ bank_next[0] = 0
      BY <1>4, <2>5, <2>6, PreferredAre DEF Waiting
    <3>2. bank_next'[0] = size
      BY <1>8, <1>11, <2>4, <3>1
    <3>3. todo[1].size = todo[j + 1].size
      BY <1>1, <2>1, <2>6 DEF Waiting
    <3> QED  BY <1>8, <2>1, <3>2, <3>3
  <2>7. CASE cls # "A"
    <3>1. ~Waits("A")
      BY <1>4, <2>7
    <3>2. b # 0 /\ 0 \in Bank
      BY <2>3, <2>5, <2>7, PreferredAre
    <3>3. bank_next'[0] = bank_next[0]
      BY <1>11, <2>4, <3>2
    <3> QED  BY <2>1, <3>1, <3>3 DEF Waiting
  <2> QED  BY <2>6, <2>7
<1>16. Waits("B2")' /\ ~Waits("A2")' => bank_next'[3] = bank_next'[0]
  <2> SUFFICES ASSUME Waits("B2")', ~Waits("A2")' PROVE bank_next'[3] = bank_next'[0]
    OBVIOUS
  <2>1. Turn(cls) < Turn("B2") /\ Waits("B2")
    BY <1>3
  <2>2. Waits("A2")
    <3> SUFFICES ASSUME ~Waits("A2") PROVE FALSE
      OBVIOUS
    <3>1. "A2" \in Done
      BY <1>2, <2>1 DEF Judged
    <3>2. 1 \in 1..Len(todo)
      BY <1>1
    <3>3. Turn("A2") < Turn(cls)
      BY <1>2, <3>1, <3>2 DEF InTurn
    <3>4. Turn(cls) \in Nat
      BY <1>2, TurnNat
    <3> QED  BY <2>1, <3>3, <3>4, TurnsAre
  <2>3. cls = "A2"
    BY <1>4, <2>2
  <2>4. ~Waits("A")
    <3> SUFFICES ASSUME Waits("A") PROVE FALSE
      OBVIOUS
    <3>1. Turn("A2") < Turn("A")
      BY <1>3, <1>4, <2>3
    <3> QED  BY <3>1, TurnsAre
  <2>5. size = bank_next[0]
    BY <1>1, <1>8, <2>3, <2>4 DEF Waiting
  <2>6. bank_next[3] = 0 /\ 0 \in Bank /\ 3 \in Bank
    BY <2>2, PreferredAre DEF Waiting
  <2>7. ~Misses
    <3>1. HasRoom(bank_next, 3, size)
      BY <1>7, <2>5, <2>6 DEF HasRoom
    <3>2. ChosenBanks(bank_next, "A2", size) = {3}
      BY <2>6, <3>1, PreferredAre DEF ChosenBanks
    <3> QED  BY <1>8, <1>9, <2>3, <3>2 DEF Misses, OutOfMemory
  <2>8. PICK b \in Bank : Puts(b)
    BY <2>7, PutsOrMisses
  <2>9. b = 3
    BY <1>10, <2>3, <2>8, PreferredAre
  <2>10. bank_next'[3] = bank_next[3] + size /\ bank_next'[0] = bank_next[0]
    BY <1>11, <2>6, <2>8, <2>9
  <2> QED  BY <1>7, <2>5, <2>6, <2>10
<1> QED  BY <1>13, <1>14, <1>15, <1>16 DEF Waiting

LEMMA LayoutStepFresh ==
  ASSUME BankInv, LayoutInv, FreshInv, LayoutStep
  PROVE  FreshInv'
<1> SUFFICES ASSUME fresh'
             PROVE  /\ outcome' = "running" => Waiting'
                    /\ HomeBanks'
  BY DEF FreshInv
<1>1. fresh /\ outcome = "running"
  BY TodoStep
<1>2. Waiting /\ HomeBanks
  BY <1>1 DEF FreshInv
<1> QED  BY <1>2, HomeBanksStep, WaitingStep

(* The other steps leave the layout alone or begin a new one.              *)
LayoutState == BankInv /\ LayoutInv /\ FreshInv

LEMMA LayoutSame ==
  ASSUME LayoutInv, FreshInv, UNCHANGED <<layout, todo, missed, outcome, fresh>>,
         outcome = "running" => UNCHANGED bank_next
  PROVE  LayoutInv' /\ FreshInv'
<1>1. /\ Done' = Done
      /\ \A class : (Waits(class)' <=> Waits(class)) /\ (Placed(class)' <=> Placed(class))
  BY DEF Done, Waits, Placed
<1>2. (InTurn' <=> InTurn) /\ (Judged' <=> Judged) /\ (HomeBanks' <=> HomeBanks)
  BY <1>1 DEF InTurn, Judged, HomeBanks
<1>3. outcome = "running" => (Waiting' <=> Waiting)
  BY <1>1 DEF Waiting
<1> QED  BY <1>2, <1>3 DEF LayoutInv, FreshInv

LEMMA LayoutInit == Init => LayoutInv /\ FreshInv
  BY DEF Init, LayoutInv, FreshInv

LEMMA LayoutNext == LayoutState /\ [Next]_vars => LayoutInv' /\ FreshInv'
<1> SUFFICES ASSUME LayoutState, [Next]_vars PROVE LayoutInv' /\ FreshInv'
  OBVIOUS
<1>1. BankInv /\ LayoutInv /\ FreshInv
  BY DEF LayoutState
<1>2. CASE UNCHANGED vars \/ AllocateCall
  BY <1>1, <1>2, LayoutSame DEF vars, AllocateCall
<1>3. CASE LayoutGemm \/ OptimizeGemmLayout
  BY <1>1, <1>3, StartsOf, LayoutStart
<1>4. CASE LayoutStep
  BY <1>1, <1>4, LayoutStepLayout, LayoutStepFresh
<1> QED  BY <1>2, <1>3, <1>4 DEF Next

LEMMA LayoutAlways == Spec => []LayoutState
<1>1. Init => LayoutState
  BY BankInit, LayoutInit DEF LayoutState
<1>2. LayoutState /\ [Next]_vars => LayoutState'
  BY BankStep, LayoutNext DEF LayoutState
<1> QED  BY <1>1, <1>2, PTL DEF Spec

(* The banks of a class: that of its one placement, or none.               *)
LEMMA OneBank ==
  ASSUME LayoutState, outcome = "returned", NEW class
  PROVE  /\ Placed(class) => \E b : BanksOf(class) = {b}
         /\ ~Placed(class) => BanksOf(class) = {}
<1>1. InTurn
  BY DEF LayoutState, LayoutInv
<1>2. ASSUME Placed(class) PROVE \E b : BanksOf(class) = {b}
  <2>1. PICK i \in 1..Len(layout) : layout[i].class = class
    BY <1>2 DEF Placed
  <2>2. \A j \in 1..Len(layout) : layout[j].class = class => j = i
    BY <1>1, <2>1 DEF InTurn
  <2>3. BanksOf(class) = {layout[i].bank}
    BY <2>1, <2>2 DEF BanksOf
  <2> QED  BY <2>3
<1>3. ASSUME ~Placed(class) PROVE BanksOf(class) = {}
  BY <1>3 DEF Placed, BanksOf
<1> QED  BY <1>2, <1>3

LEMMA CompleteLayout == LayoutState => OperandsPlaced
<1> SUFFICES ASSUME LayoutState, outcome = "returned"
             PROVE  /\ \A class \in {"A", "B", "C"} : Cardinality(BanksOf(class)) = 1
                    /\ Cardinality(BanksOf("A2")) = Cardinality(BanksOf("B2"))
  BY DEF OperandsPlaced
<1>1. InTurn /\ Judged /\ todo = <<>>
  BY DEF LayoutState, LayoutInv
<1>2. Len(todo) = 0 /\ \A class : ~Waits(class)
  BY <1>1 DEF Waits
<1>3. \A b : Cardinality({b}) = 1
  BY FS_Singleton
<1>4. \A class \in {"A", "B", "C"} : Cardinality(BanksOf(class)) = 1
  <2> SUFFICES ASSUME NEW class \in {"A", "B", "C"}
               PROVE  Cardinality(BanksOf(class)) = 1
    OBVIOUS
  <2>1. Placed(class)
    BY <1>1, <1>2 DEF Judged
  <2> QED  BY <1>3, <2>1, OneBank
<1>5. Placed("A2") <=> Placed("B2")
  <2>1. "A2" \notin missed /\ "B2" \notin missed
    BY <1>1, <1>2 DEF Judged
  <2>2. "A2" \in Done <=> "B2" \in Done
    BY <1>1, <1>2 DEF Judged
  <2>3. \A class : class \in Done <=> Placed(class) \/ class \in missed
    BY DEF Done, Placed
  <2> QED  BY <2>1, <2>2, <2>3
<1>6. Cardinality(BanksOf("A2")) = Cardinality(BanksOf("B2"))
  <2>1. CASE Placed("A2")
    BY <1>3, <1>5, <2>1, OneBank
  <2>2. CASE ~Placed("A2")
    <3>1. BanksOf("A2") = {} /\ BanksOf("B2") = {}
      BY <1>5, <2>2, OneBank
    <3> QED  BY <3>1
  <2> QED  BY <2>1, <2>2
<1> QED  BY <1>4, <1>6

(* A layout that is returned has one buffer for each of A, B and C, and    *)
(* both second operands or neither: the class that found no room was       *)
(* judged before the end.                                                  *)
THEOREM LayoutComplete == Spec => []OperandsPlaced
  BY CompleteLayout, LayoutAlways, PTL

LEMMA DualLayout == LayoutState => DualLoadSafe
<1> SUFFICES ASSUME LayoutState, outcome = "returned", fresh
             PROVE  /\ BanksOf("A") \cap BanksOf("B") = {}
                    /\ BanksOf("A2") \cap BanksOf("B2") = {}
  BY DEF DualLoadSafe
<1>1. HomeBanks
  BY DEF LayoutState, FreshInv
<1>2. \A x \in BanksOf("A") : x = 0
  BY <1>1, PreferredAre DEF HomeBanks, BanksOf
<1>3. \A x \in BanksOf("B") : x = 1
  BY <1>1, PreferredAre DEF HomeBanks, BanksOf
<1>4. \A x \in BanksOf("A2") : x = 3
  BY <1>1, PreferredAre DEF HomeBanks, BanksOf
<1>5. \A x \in BanksOf("B2") : x # 3
  BY <1>1 DEF HomeBanks, BanksOf
<1>6. BanksOf("A") \cap BanksOf("B") = {}
  BY <1>2, <1>3
<1>7. BanksOf("A2") \cap BanksOf("B2") = {}
  BY <1>4, <1>5
<1> QED  BY <1>6, <1>7

(* After a reset the two operands of either pair are in different banks,   *)
(* whatever the tile and the bank sizes: A, B and the second A are in the  *)
(* banks they prefer, and the second B is not in that of the second A.     *)
THEOREM DualLoads == Spec => []DualLoadSafe
  BY DualLayout, LayoutAlways, PTL

-----------------------------------------------------------------------------
(* The search for a tile: what it lays out are tiles.                      *)
LEMMA MaxPair ==
  ASSUME NEW m \in Int, NEW n \in Int
  PROVE  Max({m, n}) \in {m, n} /\ Max({m, n}) >= m /\ Max({m, n}) >= n
<1>1. \E x \in {m, n} : \A y \in {m, n} : x >= y
  OBVIOUS
<1> QED  BY <1>1 DEF Max

LEMMA MinPair ==
  ASSUME NEW m \in Int, NEW n \in Int
  PROVE  Min({m, n}) \in {m, n}
<1>1. \E x \in {m, n} : \A y \in {m, n} : x <= y
  OBVIOUS
<1> QED  BY <1>1 DEF Min

LEMMA FirstNat == ASSUME NEW x \in Nat PROVE First(x) \in Nat
<1>1. 8 \in Int /\ x - 16 \in Int
  OBVIOUS
<1>2. Max({8, x - 16}) \in {8, x - 16} /\ Max({8, x - 16}) >= 8
  BY <1>1, MaxPair
<1> QED  BY <1>2 DEF First

LEMMA CountNat == ASSUME NEW x \in Nat, NEW cap \in Nat PROVE Count(x, cap) \in Nat
<1>1. Min({cap, x + 24}) \in {cap, x + 24}
  BY MinPair
<1>2. PICK m \in Int : m = (Min({cap, x + 24}) - First(x) + 7) \div 8
  BY <1>1, FirstNat, SMTT(20)
<1>3. Max({0, m}) \in {0, m} /\ Max({0, m}) >= 0
  BY MaxPair
<1> QED  BY <1>2, <1>3 DEF Count

LEMMA CandidateTile ==
  ASSUME NEW t \in Tile, NEW i \in Nat, i < Searched(t)
  PROVE  Candidate(t, i) \in Tile
<1>1. t[1] \in Nat /\ t[2] \in Nat /\ t[3] \in Nat
  BY DEF Tile
<1>2. PICK cm \in Nat : cm = Count(t[1], 128)
  BY <1>1, CountNat
<1>3. PICK ck \in Nat : ck = Count(t[2], 128)
  BY <1>1, CountNat
<1>4. PICK cn \in Nat : cn = Count(t[3], 64)
  BY <1>1, CountNat
<1>5. cm * ck * cn # 0
  BY <1>2, <1>3, <1>4 DEF Searched
<1>6. ck # 0 /\ cn # 0
  BY <1>5
<1>7. PICK kn \in Nat : kn = ck * cn
  BY TimesNat
<1>8. kn # 0
  <2>1. cm * ck * cn = cm * kn
    BY <1>7
  <2> QED  BY <1>5, <2>1
<1>9. i \div kn \in Nat /\ i % kn \in Nat
  BY <1>8
<1>10. (i % kn) \div cn \in Nat /\ i % cn \in Nat
  <2>1. PICK r \in Nat : r = i % kn
    BY <1>9
  <2>2. r \div cn \in Nat /\ i % cn \in Nat
    BY <1>6
  <2> QED  BY <2>1, <2>2
<1>11. \A x \in Nat, n \in Nat : First(x) + 8 * n \in Nat
  BY FirstNat
<1>12. Candidate(t, i) = <<First(t[1]) + 8 * (i \div kn),
                          First(t[2]) + 8 * ((i % kn) \div cn),
                          First(t[3]) + 8 * (i % cn)>>
  BY <1>3, <1>4, <1>7 DEF Candidate
<1>13. /\ First(t[1]) + 8 * (i \div kn) \in Nat
       /\ First(t[2]) + 8 * ((i % kn) \div cn) \in Nat
       /\ First(t[3]) + 8 * (i % cn) \in Nat
  BY <1>1, <1>9, <1>10, <1>11
<1> QED  BY <1>12, <1>13 DEF Tile

LEMMA PlannedTile ==
  ASSUME NEW of \in BestTiles \cup ({<<>>} \X Asked)
  PROVE  of[2] \in Tile
<1>1. ASSUME NEW p, NEW t \in FittingTiles(p) PROVE t \in Tile
  <2>1. \A d, cap : Factors(d, cap) \subseteq Nat
    BY DEF Factors
  <2> QED  BY <2>1 DEF FittingTiles, Tile
<1>2. CASE of \in BestTiles
  <2>1. PICK p \in Problems : \E t \in FittingTiles(p) : of = <<p, t>>
    BY <1>2 DEF BestTiles
  <2> QED  BY <1>1, <2>1
<1>3. CASE of \in {<<>>} \X Asked
  BY <1>3, PlannerAssumption DEF Tile
<1> QED  BY <1>2, <1>3

(* The state of the search between its steps.                              *)
PlanState ==
  /\ phase = "idle" => current = <<>>
  /\ phase # "idle" => asked.tile \in Tile
  /\ asked.double \in BOOLEAN
  /\ tried \in Nat
  /\ current # <<>> => current \in Tile

LEMMA PlanStateInit == PlanInit => PlanState
  BY DEF PlanInit, PlanState, NotAsked

LEMMA PlanStateStep == PlanState /\ [PlanNext]_planSpecVars => PlanState'
<1> SUFFICES ASSUME PlanState, [PlanNext]_planSpecVars PROVE PlanState'
  OBVIOUS
<1>1. CASE UNCHANGED planVars
  BY <1>1 DEF PlanState, planVars
<1>2. CASE Plan
  <2>1. PICK of \in BestTiles \cup ({<<>>} \X Asked), double \in BOOLEAN :
          /\ current' = of[2]
          /\ asked' = [tile |-> of[2], double |-> double]
    BY <1>2 DEF Plan, ResetAndLayout
  <2>2. phase' = "planned" /\ tried' = tried
    BY <1>2 DEF Plan
  <2> QED  BY <2>1, <2>2, PlannedTile DEF PlanState
<1>3. CASE AllocateGemmBuffers \/ SuggestAlternativeTiles \/ SkipAsked
  BY <1>3 DEF AllocateGemmBuffers, SuggestAlternativeTiles, SkipAsked, PlanState
<1>4. CASE TryTile
  BY <1>4, CandidateTile DEF TryTile, ResetAndLayout, PlanState
<1>5. CASE TileDone \/ Rank
  BY <1>5 DEF TileDone, Rank, PlanState
<1>6. CASE Leave
  <2>1. phase' = "idle" /\ current' = <<>> /\ tried' = 0 /\ asked' = NotAsked
    BY <1>6 DEF Leave
  <2>2. asked'.double = FALSE
    BY <2>1 DEF NotAsked
  <2> QED  BY <2>1, <2>2 DEF PlanState
<1> QED  BY <1>1, <1>2, <1>3, <1>4, <1>5, <1>6 DEF PlanNext, planSpecVars

(* What a step of the search is to the allocator.                          *)
LEMMA PlanSteps ==
  ASSUME PlanState, [PlanNext]_planSpecVars
  PROVE  \/ (AllocateCall \/ LayoutGemm \/ LayoutStep) /\ UNCHANGED planVars
         \/ UNCHANGED bankVars
         \/ \E tile \in Tile, double \in BOOLEAN :
              ResetAndLayout(tile, double) /\ asked'.double = double
<1>1. CASE Plan
  <2>1. PICK of \in BestTiles \cup ({<<>>} \X Asked), double \in BOOLEAN :
          /\ ResetAndLayout(of[2], double)
          /\ asked' = [tile |-> of[2], double |-> double]
    BY <1>1 DEF Plan
  <2> QED  BY <2>1, PlannedTile
<1>2. CASE TryTile
  <2>1. phase # "idle" /\ tried < Searched(asked.tile)
    BY <1>2 DEF TryTile
  <2>2. /\ ResetAndLayout(Candidate(asked.tile, tried), asked.double)
        /\ asked' = asked
    BY <1>2 DEF TryTile
  <2>3. Candidate(asked.tile, tried) \in Tile /\ asked.double \in BOOLEAN
    BY <2>1, CandidateTile DEF PlanState
  <2> QED  BY <2>2, <2>3
<1>3. CASE AllocateGemmBuffers \/ SuggestAlternativeTiles \/ SkipAsked \/ TileDone \/ Rank \/ Leave
  BY <1>3 DEF AllocateGemmBuffers, SuggestAlternativeTiles, SkipAsked, TileDone, Rank, Leave
<1> QED  BY <1>1, <1>2, <1>3 DEF PlanNext, planSpecVars

(* What a step of the search is to the tile that is being laid out.        *)
LEMMA PlanCases ==
  ASSUME PlanState, [PlanNext]_planSpecVars
  PROVE  \/ UNCHANGED <<bankVars, current, asked>>
         \/ current' = <<>>
         \/ \E tile \in Tile, double \in BOOLEAN :
              ResetAndLayout(tile, double) /\ asked'.double = double
         \/ LayoutStep /\ UNCHANGED planVars
<1>1. CASE UNCHANGED planSpecVars
  BY <1>1 DEF planSpecVars, planVars
<1>2. CASE phase = "idle" /\ UNCHANGED planVars
  BY <1>2 DEF PlanState, planVars
<1>3. CASE AllocateGemmBuffers \/ SuggestAlternativeTiles \/ SkipAsked \/ TileDone \/ Rank \/ Leave
  BY <1>3 DEF AllocateGemmBuffers, SuggestAlternativeTiles, SkipAsked, TileDone, Rank, Leave
<1>4. CASE Plan \/ TryTile
  <2>1. outcome # "running" /\ outcome' = "running"
    BY <1>4 DEF Plan, TryTile, ResetAndLayout, StartLayout
  <2>2. ~UNCHANGED bankVars
    BY <2>1 DEF bankVars, vars
  <2>3. ~UNCHANGED planVars
    BY <1>4 DEF Plan, TryTile, planVars, PlanState
  <2> QED  BY <2>2, <2>3, PlanSteps
<1> QED  BY <1>1, <1>2, <1>3, <1>4 DEF PlanNext

(* The search keeps every invariant of the allocator.                      *)
PlanInv == LayoutState /\ AlignInv /\ PlanState

LEMMA PlanInvInit == PlanInit => PlanInv
  BY BankInit, LayoutInit, AlignInit, PlanStateInit DEF PlanInit, PlanInv, LayoutState

LEMMA PlanInvStep == PlanInv /\ [PlanNext]_planSpecVars => PlanInv'
<1> SUFFICES ASSUME PlanInv, [PlanNext]_planSpecVars PROVE PlanInv'
  OBVIOUS
<1>1. BankInv /\ LayoutState /\ AlignInv /\ PlanState
  BY DEF PlanInv, LayoutState
<1>2. PlanState'
  BY <1>1, PlanStateStep
<1>3. CASE [Next]_vars
  <2>1. BankInv' /\ AlignInv'
    BY <1>1, <1>3, BankStep, AlignStep
  <2>2. LayoutInv' /\ FreshInv'
    BY <1>1, <1>3, LayoutNext
  <2> QED  BY <1>2, <2>1, <2>2 DEF PlanInv, LayoutState
<1>4. CASE \E tile \in Tile, double \in BOOLEAN : ResetAndLayout(tile, double)
  <2>1. PICK tile \in Tile, double \in BOOLEAN : ResetAndLayout(tile, double)
    BY <1>4
  <2>2. /\ StartLayout(tile, double) /\ live' = {} /\ fresh' = TRUE /\ calls' = 1
        /\ bank_next' = [b \in Bank |-> 0]
    BY <2>1 DEF ResetAndLayout, EmptyBanks
  <2>3. BankInv'
    BY <1>1, <2>2, StartInv DEF Restart
  <2>4. AlignInv'
    BY <2>2, AlignReset
  <2>5. LayoutInv' /\ FreshInv'
    BY <2>2, LayoutStart
  <2> QED  BY <1>2, <2>3, <2>4, <2>5 DEF PlanInv, LayoutState
<1>5. [Next]_vars \/ \E tile \in Tile, double \in BOOLEAN : ResetAndLayout(tile, double)
  BY <1>1, PlanSteps DEF Next, bankVars
<1> QED  BY <1>3, <1>4, <1>5

LEMMA PlanAlways == PlanSpec => []PlanInv
  BY PlanInvInit, PlanInvStep, PTL DEF PlanSpec

-----------------------------------------------------------------------------
(* What the layouts of the search find room for.                           *)
LEMMA AlignUpSame ==
  ASSUME NEW size \in Nat, NEW align \in Nat \ {0}, size % align = 0
  PROVE  AlignUp(size, align) = size
<1>1. PICK k \in Nat : size = k * align
  BY ModTimes
<1>2. PICK x \in Nat : x = size + align - 1
  OBVIOUS
<1>3. PICK q \in Nat : q = x \div align
  <2>1. x \div align \in Nat
    OBVIOUS
  <2> QED  BY <2>1
<1>4. x = q * align + (x % align) /\ x % align \in 0..align - 1
  BY <1>3
<1>5. q * align \in Nat /\ k * align \in Nat
  OBVIOUS
<1>6. k * align <= x /\ x < k * align + align
  BY <1>1, <1>2
<1>7. ~ q < k
  <2> SUFFICES ASSUME q < k PROVE FALSE
    OBVIOUS
  <2>1. PICK d \in Nat : k = q + 1 + d
    <3>1. k - q - 1 \in Nat /\ k = q + 1 + (k - q - 1)
      OBVIOUS
    <3> QED  BY <3>1
  <2>2. k * align = q * align + align + d * align /\ d * align \in Nat
    BY <2>1
  <2> QED  BY <1>4, <1>5, <1>6, <2>2
<1>8. ~ k < q
  <2> SUFFICES ASSUME k < q PROVE FALSE
    OBVIOUS
  <2>1. PICK d \in Nat : q = k + 1 + d
    <3>1. q - k - 1 \in Nat /\ q = k + 1 + (q - k - 1)
      OBVIOUS
    <3> QED  BY <3>1
  <2>2. q * align = k * align + align + d * align /\ d * align \in Nat
    BY <2>1
  <2> QED  BY <1>4, <1>5, <1>6, <2>2
<1>9. q = k
  BY <1>7, <1>8
<1> QED  BY <1>1, <1>2, <1>3, <1>9 DEF AlignUp

(* How far the layout of a tile has come: the allocations that are left    *)
(* are the last of its requests, none was missed, and the banks hold one   *)
(* buffer each until the second B finds a place.                           *)
Progress(a, b, c, double) ==
  LET rs == Requests(current, double)
      done == Len(rs) - Len(todo)
  IN  /\ done \in 0..Len(rs) - 1
      /\ \A i \in 1..Len(todo) : todo[i] = rs[done + i]
      /\ missed = {}
      /\ done >= 1 => a <= BankBytes
      /\ done >= 2 => b <= BankBytes
      /\ done >= 3 => c <= BankBytes
      /\ done < 5 => /\ bank_next[0] = IF done >= 1 THEN a ELSE 0
                     /\ bank_next[1] = IF done >= 2 THEN b ELSE 0
                     /\ bank_next[2] = IF done >= 3 THEN c ELSE 0
                     /\ bank_next[3] = IF done >= 4 THEN a ELSE 0
      /\ done = 5 => Placeable(current, double)

RefuseInv ==
  current # <<>> =>
    /\ outcome \in {"running", "returned", "raised"}
    /\ outcome = "running" =>
         Progress(Rounded(current, "A"), Rounded(current, "B"), Rounded(current, "C"),
                  asked.double)
    /\ outcome = "returned" => Placeable(current, asked.double)
    /\ outcome = "raised" => ~Placeable(current, asked.double)

(* An allocation whose preferred bank is empty fails only if the buffer is *)
(* larger than a bank.                                                     *)
LEMMA HomeOrMissed ==
  ASSUME BankInv, LayoutStep, NEW home \in Bank, home = PreferredBank(todo[1].class),
         bank_next[home] = 0, NEW size \in Nat,
         size = AlignUp(todo[1].size, todo[1].align)
  PROVE  \/ /\ size <= BankBytes /\ missed' = missed
            /\ bank_next' = [bank_next EXCEPT ![home] = size]
         \/ /\ ~(size <= BankBytes) /\ missed' = missed \cup {todo[1].class}
            /\ bank_next' = bank_next
<1>1. CASE \E b \in Bank : Puts(b)
  <2>1. PICK b \in Bank : Puts(b)
    BY <1>1
  <2>2. b = home
    BY <2>1, PutHome
  <2>3. bank_next' = [bank_next EXCEPT ![b] = @ + size] /\ missed' = missed
    BY <2>1 DEF Puts
  <2>4. HasRoom(bank_next, b, size)
    BY <2>1 DEF Puts, ChosenBanks
  <2>5. size <= BankBytes
    BY <2>2, <2>4, BankAssumption DEF HasRoom
  <2>6. bank_next' = [bank_next EXCEPT ![home] = size]
    <3>1. bank_next[home] + size = size
      OBVIOUS
    <3>2. bank_next' = [bank_next EXCEPT ![home] = bank_next[home] + size]
      BY <2>2, <2>3
    <3> QED  BY <3>1, <3>2, Zenon
  <2> QED  BY <2>3, <2>5, <2>6
<1>2. CASE Misses
  <2>1. ChosenBanks(bank_next, todo[1].class, size) = {}
    BY <1>2 DEF Misses, OutOfMemory
  <2>2. ~HasRoom(bank_next, home, size)
    BY <2>1 DEF ChosenBanks
  <2>3. ~(size <= BankBytes)
    BY <2>2, BankAssumption DEF HasRoom
  <2> QED  BY <1>2, <2>3 DEF Misses
<1> QED  BY <1>1, <1>2, PutsOrMisses

(* The second B, with four banks that hold one operand each: it is placed  *)
(* exactly if one of them has room for it.                                 *)
LEMMA SecondBFits ==
  ASSUME BankInv, LayoutStep, NumBanks = 4, todo[1].class = "B2", NEW size \in Nat,
         size = AlignUp(todo[1].size, todo[1].align)
  PROVE  \/ missed' = missed /\ \E b \in 0..3 : bank_next[b] + size <= BankBytes
         \/ /\ missed' = missed \cup {"B2"}
            /\ \A b \in 0..3 : ~(bank_next[b] + size <= BankBytes)
<1>1. Bank = 0..3
  BY DEF Bank
<1>2. \A b \in Bank : bank_next[b] \in Nat
  BY BankAssumption DEF BankInv, TypeOK
<1>3. CASE \E b \in Bank : Puts(b)
  BY <1>1, <1>3 DEF Puts, ChosenBanks, HasRoom
<1>4. CASE Misses
  <2>1. ChosenBanks(bank_next, "B2", size) = {}
    BY <1>4 DEF Misses, OutOfMemory
  <2>2. PICK roomy : roomy = {b \in Bank : HasRoom(bank_next, b, size)}
    OBVIOUS
  <2>3. 0 \notin roomy
    BY <2>1, <2>2, PreferredAre DEF ChosenBanks
  <2>4. {b \in roomy : \A c \in roomy :
           bank_next[b] < bank_next[c] \/ (bank_next[b] = bank_next[c] /\ b <= c)} = {}
    BY <2>1, <2>2, <2>3, PreferredAre DEF ChosenBanks
  <2>5. roomy \subseteq {1, 2, 3}
    BY <1>1, <2>2, <2>3
  <2>6. bank_next[1] \in Nat /\ bank_next[2] \in Nat /\ bank_next[3] \in Nat
    BY <1>1, <1>2
  <2>7. \A b \in {1, 2, 3} : b \in roomy => \E c \in {1, 2, 3} :
          c \in roomy /\ (bank_next[c] < bank_next[b] \/ (bank_next[c] = bank_next[b] /\ c < b))
    <3> SUFFICES ASSUME NEW b \in {1, 2, 3}, b \in roomy
                 PROVE  \E c \in {1, 2, 3} :
          c \in roomy /\ (bank_next[c] < bank_next[b] \/ (bank_next[c] = bank_next[b] /\ c < b))
      OBVIOUS
    <3>1. PICK c \in roomy :
            ~(bank_next[b] < bank_next[c] \/ (bank_next[b] = bank_next[c] /\ b <= c))
      BY <2>4
    <3>2. c \in {1, 2, 3}
      BY <2>5
    <3> QED  BY <2>6, <3>1, <3>2
  <2>8. roomy = {}
    <3>1. 1 \notin roomy \/ 2 \notin roomy \/ 3 \notin roomy
      BY <2>6, <2>7
    <3> QED  BY <2>5, <2>6, <2>7, <3>1
  <2>9. \A b \in Bank : ~HasRoom(bank_next, b, size)
    BY <2>2, <2>8
  <2> QED  BY <1>1, <1>4, <2>9 DEF Misses, HasRoom
<1> QED  BY <1>3, <1>4, PutsOrMisses

LEMMA SizesAre ==
  ASSUME NEW tile \in Tile
  PROVE  /\ Size(tile, "A") = tile[1] * tile[2] * InBytes /\ Size(tile, "A") \in Nat
         /\ Size(tile, "B") = tile[2] * tile[3] * InBytes /\ Size(tile, "B") \in Nat
         /\ Size(tile, "C") = tile[1] * tile[3] * OutBytes /\ Size(tile, "C") \in Nat
  BY SizesNat DEF Size

LEMMA RoundedNat ==
  ASSUME NEW tile \in Tile
  PROVE  /\ Rounded(tile, "A") \in Nat /\ Rounded(tile, "B") \in Nat
         /\ Rounded(tile, "C") \in Nat
<1>1. Size(tile, "A") \in Nat /\ Size(tile, "B") \in Nat /\ Size(tile, "C") \in Nat
  BY SizesAre
<1>2. Alignment \in Nat \ {0}
  BY BankAssumption
<1> QED  BY <1>1, <1>2, AlignUpNat DEF Rounded

(* A search lays a tile out on empty banks.                                *)
LEMMA RefuseStart ==
  ASSUME NEW tile \in Tile, NEW double \in BOOLEAN, ResetAndLayout(tile, double),
         asked'.double = double
  PROVE  RefuseInv'
<1>1. /\ current' = tile /\ outcome' = "running" /\ todo' = Requests(tile, double)
      /\ missed' = {} /\ bank_next' = [x \in Bank |-> 0]
  BY DEF ResetAndLayout, StartLayout, EmptyBanks
<1>2. bank_next'[0] = 0 /\ bank_next'[1] = 0 /\ bank_next'[2] = 0 /\ bank_next'[3] = 0
  BY <1>1, PreferredAre
<1>3. PICK n \in Nat \ {0} : n = Len(todo')
  <2>1. todo' \in Seq(Request) /\ todo' # <<>>
    BY <1>1, RequestsType
  <2> QED  BY <2>1
<1>4. n - n = 0 /\ 0 \in 0..n - 1 /\ \A i \in 1..n : 0 + i = i
  OBVIOUS
<1>5. \A a, b, c : Progress(a, b, c, double)'
  <2> SUFFICES ASSUME NEW a, NEW b, NEW c PROVE Progress(a, b, c, double)'
    OBVIOUS
  <2>1. Requests(current', double) = todo'
    BY <1>1
  <2>2. PICK done : done = Len(todo') - Len(todo')
    OBVIOUS
  <2>3. done = 0 /\ ~(done >= 1) /\ ~(done >= 2) /\ ~(done >= 3) /\ ~(done >= 4) /\ ~(done = 5)
    BY <1>3, <1>4, <2>2
  <2>4. done \in 0..Len(todo') - 1
    BY <1>3, <1>4, <2>3
  <2>5. \A i \in 1..Len(todo') : todo'[i] = todo'[done + i]
    BY <1>3, <1>4, <2>3
  <2> QED  BY <1>1, <1>2, <2>1, <2>2, <2>3, <2>4, <2>5 DEF Progress
<1> QED  BY <1>1, <1>5 DEF RefuseInv

(* The next allocation: at most one class finds no room, and then there is *)
(* none for the tile.                                                      *)
LEMMA RefuseLayout ==
  ASSUME NumBanks = 4, PlanInv, RefuseInv, LayoutStep, UNCHANGED planVars
  PROVE  RefuseInv'
<1> SUFFICES ASSUME current # <<>> PROVE RefuseInv'
  BY DEF RefuseInv, planVars
<1>1. BankInv /\ current \in Tile /\ asked.double \in BOOLEAN
  BY DEF PlanInv, LayoutState, PlanState
<1>2. /\ outcome = "running" /\ outcome' = Outcome(missed', todo')
      /\ todo' \in Seq(Request) /\ Len(todo') = Len(todo) - 1 /\ Len(todo) \in Nat \ {0}
      /\ \A i \in 1..Len(todo') : todo'[i] = todo[i + 1]
  BY <1>1, TodoStep
<1>3. PICK a, b, c \in Nat :
        a = Rounded(current, "A") /\ b = Rounded(current, "B") /\ c = Rounded(current, "C")
  BY <1>1, RoundedNat
<1>15. PICK sa, sb, sc \in Nat :
         /\ sa = Size(current, "A") /\ AlignUp(sa, Alignment) = a
         /\ sb = Size(current, "B") /\ AlignUp(sb, Alignment) = b
         /\ sc = Size(current, "C") /\ AlignUp(sc, Alignment) = c
  BY <1>1, <1>3, SizesAre DEF Rounded
<1>4. PICK double \in BOOLEAN : double = asked.double
  BY <1>1
<1>5. PICK rs : rs = Requests(current, double)
  OBVIOUS
<1>6. /\ IsReq(rs[1], "A", sa) /\ IsReq(rs[2], "B", sb) /\ IsReq(rs[3], "C", sc)
      /\ double => /\ Len(rs) = 6 /\ IsReq(rs[4], "A2", sa) /\ IsReq(rs[5], "B2", sb)
                   /\ IsReq(rs[6], "stack", StackBytes)
      /\ ~double => Len(rs) = 4 /\ IsReq(rs[4], "stack", StackBytes)
  <2>1. /\ sa = current[1] * current[2] * InBytes
        /\ sb = current[2] * current[3] * InBytes
        /\ sc = current[1] * current[3] * OutBytes
    BY <1>1, <1>15, SizesAre
  <2> QED  BY <1>1, <1>5, <2>1, RequestsAre
<1>7. Len(rs) = 6 \/ Len(rs) = 4
  BY <1>6, Zenon
<1>8. PICK n \in Nat : n = Len(rs) /\ (n = 6 \/ n = 4)
  BY <1>7
<1>9. (n = 6 => double = TRUE) /\ (n = 4 => double = FALSE)
  <2>1. 4 # 6
    OBVIOUS
  <2> QED  BY <1>4, <1>6, <1>8, <2>1, Zenon
<1>10. PICK done \in Nat : done = n - Len(todo) /\ done \in 0..n - 1
  <2>1. Progress(a, b, c, double)
    BY <1>2, <1>3, <1>4 DEF RefuseInv
  <2>2. n - Len(todo) \in 0..n - 1
    BY <1>5, <1>8, <2>1 DEF Progress
  <2>3. n - Len(todo) \in Nat
    BY <1>2, <1>8, <2>2
  <2> QED  BY <2>2, <2>3
<1>11. /\ \A i \in 1..Len(todo) : todo[i] = rs[done + i]
       /\ missed = {}
       /\ done >= 1 => a <= BankBytes
       /\ done >= 2 => b <= BankBytes
       /\ done >= 3 => c <= BankBytes
       /\ done < 5 => /\ bank_next[0] = IF done >= 1 THEN a ELSE 0
                      /\ bank_next[1] = IF done >= 2 THEN b ELSE 0
                      /\ bank_next[2] = IF done >= 3 THEN c ELSE 0
                      /\ bank_next[3] = IF done >= 4 THEN a ELSE 0
       /\ done = 5 => Placeable(current, double)
  BY <1>2, <1>3, <1>4, <1>5, <1>8, <1>10 DEF RefuseInv, Progress
<1>12. (n = 6 \/ n = 4) /\ done < n
  <2>1. n = 6 \/ n = 4
    BY <1>8
  <2>2. done < n
    BY <1>10
  <2> QED  BY <2>1, <2>2
<1>13. n - Len(todo') = done + 1 /\ \A i \in 1..Len(todo') : todo'[i] = rs[done + 1 + i]
  <2>1. n - Len(todo') = done + 1
    BY <1>2, <1>8, <1>10
  <2>2. \A i \in 1..Len(todo') : i + 1 \in 1..Len(todo) /\ done + (i + 1) = done + 1 + i
    BY <1>2, <1>10
  <2> QED  BY <1>2, <1>11, <2>1, <2>2
<1>14. todo[1] = rs[done + 1]
  BY <1>2, <1>11
<1>16. /\ Bank = 0..3 /\ BankBytes \in Nat /\ bank_next \in [Bank -> 0..BankBytes]
  BY <1>1, BankAssumption DEF Bank, BankInv, TypeOK
<1>17. /\ Placeable(current, FALSE) <=> a <= BankBytes /\ b <= BankBytes /\ c <= BankBytes
       /\ Placeable(current, TRUE) <=>
            /\ a <= BankBytes /\ b <= BankBytes /\ c <= BankBytes
            /\ a + b <= BankBytes \/ b + b <= BankBytes \/ c + b <= BankBytes
  BY <1>3, <1>16 DEF Placeable, Operands
<1>18. /\ Placeable(current, double) => a <= BankBytes /\ b <= BankBytes /\ c <= BankBytes
       /\ double /\ Placeable(current, double) =>
            a + b <= BankBytes \/ b + b <= BankBytes \/ c + b <= BankBytes
  BY <1>17
<1>19. ASSUME outcome' \in {"running", "returned", "raised"},
              outcome' = "running" => Progress(a, b, c, double)',
              outcome' = "returned" => Placeable(current, double),
              outcome' = "raised" => ~Placeable(current, double)
       PROVE  RefuseInv'
  <2>1. current' = current /\ asked' = asked
    BY DEF planVars
  <2>2. /\ Rounded(current, "A")' = a /\ Rounded(current, "B")' = b
        /\ Rounded(current, "C")' = c
        /\ Placeable(current, asked.double)' <=> Placeable(current, double)
    BY <1>3, <1>4, <2>1
  <2>3. outcome' = "running" => Progress(Rounded(current, "A"), Rounded(current, "B"),
                                          Rounded(current, "C"), asked.double)'
    BY <1>3, <1>4, <1>19, <2>1
  <2> QED  BY <1>19, <2>2, <2>3 DEF RefuseInv
<1>20. ASSUME missed' = {}, done + 1 < n,
              done + 1 >= 1 => a <= BankBytes,
              done + 1 >= 2 => b <= BankBytes,
              done + 1 >= 3 => c <= BankBytes,
              done + 1 < 5 => /\ bank_next'[0] = IF done + 1 >= 1 THEN a ELSE 0
                              /\ bank_next'[1] = IF done + 1 >= 2 THEN b ELSE 0
                              /\ bank_next'[2] = IF done + 1 >= 3 THEN c ELSE 0
                              /\ bank_next'[3] = IF done + 1 >= 4 THEN a ELSE 0,
              done + 1 = 5 => Placeable(current, double)
       PROVE  RefuseInv'
  <2>1. Len(todo') # 0
    <3>1. done + 1 < n
      BY <1>20
    <3>2. n - Len(todo') = done + 1
      BY <1>13
    <3> QED  BY <3>1, <3>2
  <2>2. outcome' = "running"
    <3>1. todo' # <<>>
      BY <2>1
    <3> QED  BY <1>2, <1>20, <3>1 DEF Outcome
  <2>3. current' = current
    BY DEF planVars
  <2>4. done + 1 \in 0..n - 1
    BY <1>8, <1>20
  <2>5. PICK next : next = done + 1
    OBVIOUS
  <2>6. Progress(a, b, c, double)'
    BY <1>5, <1>8, <1>13, <1>20, <2>3, <2>4 DEF Progress
  <2> QED  BY <1>19, <2>2, <2>6
<1>21. ASSUME todo[1].class \in {"A", "B", "C"}, missed' = missed \cup {todo[1].class},
              ~Placeable(current, double)
       PROVE  RefuseInv'
  <2>1. outcome' = "raised"
    BY <1>2, <1>21 DEF Outcome
  <2> QED  BY <1>19, <1>21, <2>1
<1>22. CASE done = 0
  <2>1. todo[1].class = "A" /\ AlignUp(todo[1].size, todo[1].align) = a
    BY <1>6, <1>14, <1>15, <1>22 DEF IsReq
  <2>2. bank_next[0] = 0 /\ bank_next[1] = 0 /\ bank_next[2] = 0 /\ bank_next[3] = 0
    BY <1>11, <1>22
  <2>3. \/ a <= BankBytes /\ missed' = missed /\ bank_next' = [bank_next EXCEPT ![0] = a]
        \/ ~(a <= BankBytes) /\ missed' = missed \cup {todo[1].class}
    BY <1>1, <2>1, <2>2, PreferredAre, HomeOrMissed
  <2>4. CASE a <= BankBytes /\ missed' = missed /\ bank_next' = [bank_next EXCEPT ![0] = a]
    <3>1. /\ bank_next'[0] = a /\ bank_next'[1] = 0 /\ bank_next'[2] = 0
          /\ bank_next'[3] = 0
      BY <1>16, <2>2, <2>4
    <3> QED  BY <1>11, <1>20, <1>12, <1>22, <2>4, <3>1
  <2> QED  BY <1>18, <1>21, <2>1, <2>3, <2>4
<1>23. CASE done = 1
  <2>1. todo[1].class = "B" /\ AlignUp(todo[1].size, todo[1].align) = b
    BY <1>6, <1>14, <1>15, <1>23 DEF IsReq
  <2>2. bank_next[0] = a /\ bank_next[1] = 0 /\ bank_next[2] = 0 /\ bank_next[3] = 0
    BY <1>11, <1>23
  <2>3. \/ b <= BankBytes /\ missed' = missed /\ bank_next' = [bank_next EXCEPT ![1] = b]
        \/ ~(b <= BankBytes) /\ missed' = missed \cup {todo[1].class}
    BY <1>1, <2>1, <2>2, PreferredAre, HomeOrMissed
  <2>4. CASE b <= BankBytes /\ missed' = missed /\ bank_next' = [bank_next EXCEPT ![1] = b]
    <3>1. /\ bank_next'[0] = a /\ bank_next'[1] = b /\ bank_next'[2] = 0
          /\ bank_next'[3] = 0
      BY <1>16, <2>2, <2>4
    <3> QED  BY <1>11, <1>20, <1>12, <1>23, <2>4, <3>1
  <2> QED  BY <1>18, <1>21, <2>1, <2>3, <2>4
<1>24. CASE done = 2
  <2>1. todo[1].class = "C" /\ AlignUp(todo[1].size, todo[1].align) = c
    BY <1>6, <1>14, <1>15, <1>24 DEF IsReq
  <2>2. bank_next[0] = a /\ bank_next[1] = b /\ bank_next[2] = 0 /\ bank_next[3] = 0
    BY <1>11, <1>24
  <2>3. \/ c <= BankBytes /\ missed' = missed /\ bank_next' = [bank_next EXCEPT ![2] = c]
        \/ ~(c <= BankBytes) /\ missed' = missed \cup {todo[1].class}
    BY <1>1, <2>1, <2>2, PreferredAre, HomeOrMissed
  <2>4. CASE c <= BankBytes /\ missed' = missed /\ bank_next' = [bank_next EXCEPT ![2] = c]
    <3>1. /\ bank_next'[0] = a /\ bank_next'[1] = b /\ bank_next'[2] = c
          /\ bank_next'[3] = 0
      BY <1>16, <2>2, <2>4
    <3> QED  BY <1>11, <1>20, <1>12, <1>24, <2>4, <3>1
  <2> QED  BY <1>18, <1>21, <2>1, <2>3, <2>4
<1>25. CASE done = 3 /\ n = 6
  <2>1. todo[1].class = "A2" /\ AlignUp(todo[1].size, todo[1].align) = a
    BY <1>6, <1>14, <1>15, <1>25, <1>9 DEF IsReq
  <2>2. bank_next[0] = a /\ bank_next[1] = b /\ bank_next[2] = c /\ bank_next[3] = 0
    BY <1>11, <1>25
  <2>3. a <= BankBytes /\ b <= BankBytes /\ c <= BankBytes
    BY <1>11, <1>25
  <2>4. missed' = missed /\ bank_next' = [bank_next EXCEPT ![3] = a]
    BY <1>1, <2>1, <2>2, <2>3, PreferredAre, HomeOrMissed
  <2>5. bank_next'[0] = a /\ bank_next'[1] = b /\ bank_next'[2] = c /\ bank_next'[3] = a
    BY <1>16, <2>2, <2>4
  <2> QED  BY <1>11, <1>20, <1>12, <1>25, <2>3, <2>4, <2>5
<1>26. CASE done = 4 /\ n = 6
  <2>1. todo[1].class = "B2" /\ AlignUp(todo[1].size, todo[1].align) = b
    BY <1>6, <1>14, <1>15, <1>26, <1>9 DEF IsReq
  <2>2. bank_next[0] = a /\ bank_next[1] = b /\ bank_next[2] = c /\ bank_next[3] = a
    BY <1>11, <1>26
  <2>3. a <= BankBytes /\ b <= BankBytes /\ c <= BankBytes
    BY <1>11, <1>26
  <2>4. \/ missed' = missed /\ \E x \in 0..3 : bank_next[x] + b <= BankBytes
        \/ /\ missed' = missed \cup {"B2"}
           /\ \A x \in 0..3 : ~(bank_next[x] + b <= BankBytes)
    BY <1>1, <2>1, SecondBFits
  <2>5. 0..3 = {0, 1, 2, 3}
    OBVIOUS
  <2>6. CASE missed' = missed /\ \E x \in 0..3 : bank_next[x] + b <= BankBytes
    <3>1. a + b <= BankBytes \/ b + b <= BankBytes \/ c + b <= BankBytes
      BY <2>2, <2>5, <2>6
    <3>2. Placeable(current, double)
      BY <1>17, <1>26, <1>9, <2>3, <3>1
    <3> QED  BY <1>11, <1>20, <1>12, <1>26, <2>3, <2>6, <3>2
  <2>7. CASE /\ missed' = missed \cup {"B2"}
             /\ \A x \in 0..3 : ~(bank_next[x] + b <= BankBytes)
    <3>1. ~Placeable(current, double)
      BY <1>17, <1>26, <1>9, <2>2, <2>5, <2>7
    <3>2. Len(todo') <= 1
      BY <1>2, <1>8, <1>13, <1>26
    <3>3. outcome' = "raised"
      BY <1>2, <2>7, <3>2 DEF Outcome
    <3> QED  BY <1>19, <3>1, <3>3
  <2> QED  BY <2>4, <2>6, <2>7
<1>27. CASE done + 1 = n
  <2>1. todo[1].class = "stack"
    BY <1>6, <1>8, <1>14, <1>27, <1>9 DEF IsReq
  <2>2. missed' \subseteq {"stack"}
    BY <1>1, <1>11, <2>1, PutsOrMisses DEF Puts, Misses
  <2>3. Len(todo') = 0
    BY <1>2, <1>8, <1>13, <1>27
  <2>4. todo' = <<>>
    BY <1>2, <2>3
  <2>5. outcome' = "returned"
    BY <1>2, <2>2, <2>4 DEF Outcome
  <2>6. Placeable(current, double)
    <3>1. CASE n = 6
      BY <1>11, <1>27, <3>1
    <3>2. CASE n = 4
      <4>1. a <= BankBytes /\ b <= BankBytes /\ c <= BankBytes
        BY <1>11, <1>27, <3>2
      <4>2. double = FALSE
        BY <1>9, <3>2
      <4> QED  BY <1>17, <4>1, <4>2, Zenon
    <3> QED  BY <1>8, <3>1, <3>2
  <2> QED  BY <1>19, <2>5, <2>6
<1>28. \/ done = 0 \/ done = 1 \/ done = 2 \/ done + 1 = n
       \/ (done = 3 /\ n = 6)
       \/ (done = 4 /\ n = 6)
  BY <1>12
<1> QED  BY <1>22, <1>23, <1>24, <1>25, <1>26, <1>27, <1>28

LEMMA RefuseStep ==
  ASSUME NumBanks = 4, PlanInv, RefuseInv, [PlanNext]_planSpecVars
  PROVE  RefuseInv'
<1>1. PlanState /\ BankInv
  BY DEF PlanInv, LayoutState
<1>2. CASE UNCHANGED <<bankVars, current, asked>>
  BY <1>2 DEF RefuseInv, Progress, bankVars, vars
<1>3. CASE current' = <<>>
  BY <1>3 DEF RefuseInv
<1>4. CASE \E tile \in Tile, double \in BOOLEAN :
             ResetAndLayout(tile, double) /\ asked'.double = double
  BY <1>4, RefuseStart
<1>5. CASE LayoutStep /\ UNCHANGED planVars
  BY <1>5, RefuseLayout
<1> QED  BY <1>1, <1>2, <1>3, <1>4, <1>5, PlanCases

LEMMA RefuseInit == PlanInit => RefuseInv
  BY DEF PlanInit, RefuseInv

-----------------------------------------------------------------------------
(* The search for a tile, step by step, leaves the buffers of the          *)
(* allocator as the direct calls do: disjoint, within their banks, aligned.*)
THEOREM SearchedBuffersSound ==
  PlanSpec => []NoOverlap /\ []WithinBank /\ []OffsetsAligned
<1>1. PlanInv => NoOverlap /\ OffsetsAligned
  BY DEF PlanInv, LayoutState, BankInv, AlignInv
<1>2. PlanInv => WithinBank
  BY BankInvWithin DEF PlanInv, LayoutState
<1> QED  BY <1>1, <1>2, PlanAlways, PTL

(* The layout of every tile that the search tries has its operand buffers, *)
(* the two of each pair in different banks.                                *)
THEOREM SearchedLayoutsSound == PlanSpec => []OperandsPlaced /\ []DualLoadSafe
<1>1. PlanInv => OperandsPlaced /\ DualLoadSafe
  BY CompleteLayout, DualLayout DEF PlanInv
<1> QED  BY <1>1, PlanAlways, PTL

(* On the four banks of the code, whatever their size, the layout of a     *)
(* tile on empty banks is refused exactly when an operand, rounded up to   *)
(* the alignment, is larger than a bank or the second B fits with no       *)
(* operand of the first pair: the order of the banks loses no tile. With   *)
(* more banks the second B would have another place.                       *)
THEOREM RefusedExactly == ASSUME NumBanks = 4 PROVE PlanSpec => []RefusedOnlyWhenFull
<1>1. RefuseInv => RefusedOnlyWhenFull
  BY DEF RefuseInv, RefusedOnlyWhenFull
<1>2. PlanInv /\ RefuseInv /\ [PlanNext]_planSpecVars => RefuseInv'
  BY RefuseStep
<1> QED  BY <1>1, <1>2, RefuseInit, PlanAlways, PTL DEF PlanSpec

-----------------------------------------------------------------------------
(* A layout fits in L1.                                                    *)

(* A layout is made of buffers that are still allocated.                   *)
LayoutLive == \A i \in 1..Len(layout) : layout[i] \in live

(* Nothing is freed while a layout is held: only a reset, which begins     *)
(* another layout, forgets the buffers.                                    *)
LEMMA LayoutLiveStep == BankInv /\ LayoutLive /\ [Next]_vars => LayoutLive'
<1> SUFFICES ASSUME BankInv, LayoutLive, [Next]_vars PROVE LayoutLive'
  OBVIOUS
<1>1. CASE UNCHANGED layout /\ live \subseteq live'
  BY <1>1 DEF LayoutLive
<1>2. CASE AllocateCall
  <2>1. live \subseteq live' /\ UNCHANGED layout
    BY <1>2 DEF AllocateCall, Allocate
  <2> QED  BY <1>1, <2>1
<1>3. CASE LayoutGemm \/ OptimizeGemmLayout
  <2>1. layout' = <<>>
    BY <1>3 DEF LayoutGemm, OptimizeGemmLayout, StartLayout
  <2> QED  BY <2>1 DEF LayoutLive
<1>4. CASE LayoutStep
  <2>1. Head(todo) \in Request
    BY <1>4, TodoStep
  <2>2. CASE UNCHANGED <<live, layout>>
    BY <1>1, <2>2
  <2>3. CASE \E b \in Bank : /\ Allocate(Head(todo), b)
                             /\ layout' = Append(layout, Placement(Head(todo), b))
    <3>1. PICK b \in Bank : /\ Allocate(Head(todo), b)
                            /\ layout' = Append(layout, Placement(Head(todo), b))
      BY <2>3
    <3>2. PICK new \in PlacementType : new = Placement(Head(todo), b)
      BY <2>1, <3>1, AllocateSound
    <3>3. layout \in Seq(PlacementType)
      BY DEF BankInv, TypeOK
    <3>4. /\ Len(layout') = Len(layout) + 1 /\ layout'[Len(layout) + 1] = new
          /\ \A i \in 1..Len(layout) : layout'[i] = layout[i]
      BY <3>1, <3>2, <3>3, Appended
    <3>5. live' = live \cup {new}
      BY <3>1, <3>2 DEF Allocate
    <3>6. Len(layout) \in Nat
      BY <3>3
    <3>7. ASSUME NEW i \in 1..Len(layout') PROVE layout'[i] \in live'
      <4>1. i \in 1..Len(layout) \/ i = Len(layout) + 1
        BY <3>4, <3>6
      <4> QED  BY <3>4, <3>5, <4>1 DEF LayoutLive
    <3> QED  BY <3>7 DEF LayoutLive
  <2> QED  BY <1>4, <2>2, <2>3 DEF LayoutStep
<1>5. CASE UNCHANGED vars
  BY <1>1, <1>5 DEF vars
<1> QED  BY <1>2, <1>3, <1>4, <1>5 DEF Next

(* The least element that the induction over the banks needs.              *)
LEMMA LeastNatural ==
  ASSUME NEW T \in SUBSET Nat, T # {}
  PROVE  \E x \in T : \A y \in T : x <= y
<1>1. PICK x \in T : \A y \in T : ~ (<<y, x>> \in OpToRel(<, Nat))
  BY WFMin, NatLessThanWellFounded
<1>2. \A y \in T : ~ (y < x)
  BY <1>1 DEF OpToRel
<1> QED  BY <1>2

(* The greatest of a set of numbers below a bound.                         *)
LEMMA GreatestNatural ==
  ASSUME NEW T \in SUBSET Nat, T # {}, NEW bound \in Nat, \A t \in T : t <= bound
  PROVE  Max(T) \in T
<1> DEFINE rest == {x \in 0..bound : bound - x \in T}
<1>1. rest \in SUBSET Nat /\ rest # {}
  <2>1. PICK t \in T : TRUE
    OBVIOUS
  <2>2. bound - t \in 0..bound /\ bound - (bound - t) = t
    OBVIOUS
  <2>3. bound - t \in rest
    BY <2>2
  <2>4. rest \subseteq Nat
    OBVIOUS
  <2> HIDE DEF rest
  <2> QED  BY <2>3, <2>4
<1>2. PICK x \in rest : \A y \in rest : x <= y
  BY <1>1, LeastNatural
<1>3. \A t \in T : bound - x >= t
  <2> SUFFICES ASSUME NEW t \in T PROVE bound - x >= t
    OBVIOUS
  <2>1. bound - t \in 0..bound /\ bound - (bound - t) = t
    OBVIOUS
  <2>2. x <= bound - t /\ x \in 0..bound
    BY <1>2, <2>1
  <2> QED  BY <2>2
<1>4. bound - x \in T
  OBVIOUS
<1> QED  BY <1>3, <1>4 DEF Max

(* What the layout takes of a bank lies within the bank.                   *)
LEMMA UsageWithin ==
  ASSUME BankInv, LayoutLive, NEW b \in Bank
  PROVE  BankUsage(b) \in 0..BankBytes
<1> DEFINE ends == {EndOffset(layout[i]) : i \in {j \in 1..Len(layout) : layout[j].bank = b}}
<1>1. \A p \in live : EndOffset(p) \in Nat /\ EndOffset(p) <= BankBytes
  BY BankInvWithin DEF WithinBank, BankInv, TypeOK, PlacementType, EndOffset
<1>2. \A e \in {0} \cup ends : e \in Nat /\ e <= BankBytes
  BY <1>1, BankAssumption DEF LayoutLive
<1>3. Max({0} \cup ends) \in {0} \cup ends
  BY <1>2, BankAssumption, GreatestNatural
<1>4. PICK e : e = Max({0} \cup ends)
  OBVIOUS
<1> HIDE DEF ends
<1>5. e \in Nat /\ e <= BankBytes
  BY <1>2, <1>3, <1>4
<1>6. e \in 0..BankBytes
  BY <1>5, BankAssumption
<1> QED  BY <1>4, <1>6 DEF BankUsage, ends

(* The sums that TotalBytes is made of exist: each is had from the one     *)
(* before it.                                                              *)
Sums(f, n) == \A m \in 0..n : f[m] = IF m = 0 THEN 0 ELSE f[m - 1] + BankUsage(m - 1)

LEMMA SumsExist == \E f : Sums(f, NumBanks)
<1> DEFINE T == {n \in Nat : ~\E f : Sums(f, n)}
<1>1. ASSUME NEW n \in T, \A m \in T : n <= m PROVE FALSE
  <2>1. CASE n = 0
    <3>1. Sums([m \in {0} |-> 0], n)
      BY <2>1 DEF Sums
    <3> QED  BY <3>1
  <2>2. CASE n # 0
    <3>1. n - 1 \in Nat /\ n - 1 \notin T
      BY <1>1, <2>2
    <3>2. PICK f : Sums(f, n - 1)
      BY <3>1
    <3>3. PICK g : g = [m \in 0..n |-> IF m = n THEN f[n - 1] + BankUsage(n - 1) ELSE f[m]]
      OBVIOUS
    <3>4. g[n] = g[n - 1] + BankUsage(n - 1)
      <4>1. n - 1 \in 0..n /\ n \in 0..n /\ n - 1 # n
        BY <3>1
      <4> QED  BY <3>3, <4>1
    <3>5. \A m \in 0..(n - 1) : g[m] = f[m]
      <4>1. \A m \in 0..(n - 1) : m \in 0..n /\ m # n
        OBVIOUS
      <4> QED  BY <3>3, <4>1
    <3>6. \A m \in 0..(n - 1) : m # 0 => m - 1 \in 0..(n - 1)
      OBVIOUS
    <3>7. ASSUME NEW m \in 0..n
          PROVE  g[m] = IF m = 0 THEN 0 ELSE g[m - 1] + BankUsage(m - 1)
      <4>1. CASE m = n
        BY <2>2, <3>4, <4>1
      <4>2. CASE m # n
        <5>1. m \in 0..(n - 1)
          BY <4>2
        <5> QED  BY <3>2, <3>5, <3>6, <5>1 DEF Sums
      <4> QED  BY <4>1, <4>2
    <3>8. Sums(g, n)
      BY <3>7 DEF Sums
    <3> QED  BY <3>8
  <2> QED  BY <2>1, <2>2
<1>2. T = {}
  BY <1>1, LeastNatural
<1> QED  BY <1>2, BankAssumption

(* BytesBelow is such a function.                                          *)
LEMMA BelowIs == Sums(BytesBelow, NumBanks)
<1>1. PICK f : Sums(f, NumBanks)
  BY SumsExist
<1>2. PICK g : g = [n \in 0..NumBanks |-> f[n]]
  OBVIOUS
<1>3. g = [n \in 0..NumBanks |-> IF n = 0 THEN 0 ELSE g[n - 1] + BankUsage(n - 1)]
  <2>1. \A n \in 0..NumBanks : n # 0 => n - 1 \in 0..NumBanks
    BY BankAssumption
  <2>2. \A n \in 0..NumBanks : g[n] = IF n = 0 THEN 0 ELSE g[n - 1] + BankUsage(n - 1)
    BY <1>1, <1>2, <2>1 DEF Sums
  <2> QED  BY ONLY <1>2, <2>2
<1>4. BytesBelow = [n \in 0..NumBanks |->
                      IF n = 0 THEN 0 ELSE BytesBelow[n - 1] + BankUsage(n - 1)]
  BY <1>3 DEF BytesBelow
<1> QED  BY <1>4 DEF Sums

(* All the layouts that are made fit in the memory of the tile.            *)
LEMMA LayoutFits == BankInv /\ LayoutLive => FitsInL1
<1> SUFFICES ASSUME BankInv, LayoutLive PROVE FitsInL1
  OBVIOUS
<1>1. \A b \in Bank : BankUsage(b) \in 0..BankBytes
  BY UsageWithin
<1> DEFINE T == {n \in 0..NumBanks : ~(BytesBelow[n] \in Nat /\ BytesBelow[n] <= n * BankBytes)}
<1>2. NumBanks \in Nat /\ BankBytes \in Nat
  BY BankAssumption
<1>3. ASSUME NEW n \in T, \A m \in T : n <= m PROVE FALSE
  <2>1. CASE n = 0
    BY <1>2, <1>3, <2>1, BelowIs DEF Sums
  <2>2. CASE n # 0
    <3>1. n - 1 \in 0..NumBanks /\ n - 1 \notin T /\ n - 1 \in Bank /\ n \in Nat
      BY <1>2, <1>3, <2>2 DEF Bank
    <3>2. PICK low \in Nat : low = BytesBelow[n - 1] /\ low <= (n - 1) * BankBytes
      BY <3>1
    <3>3. PICK here \in 0..BankBytes : here = BankUsage(n - 1)
      BY <1>1, <3>1
    <3>4. BytesBelow[n] = low + here
      BY <2>2, <3>2, <3>3, BelowIs DEF Sums
    <3>5. (n - 1) * BankBytes + BankBytes = n * BankBytes
      BY <1>2, <3>1
    <3>6. (n - 1) * BankBytes \in Int /\ n * BankBytes \in Int
      BY <1>2, <3>1
    <3>7. low + here \in Nat /\ low + here <= n * BankBytes
      BY <1>2, <3>2, <3>3, <3>5, <3>6
    <3> QED  BY <3>4, <3>7
  <2> QED  BY <2>1, <2>2
<1>4. T = {}
  <2>1. T \in SUBSET Nat
    BY <1>2
  <2> QED  BY <1>3, <2>1, LeastNatural
<1>5. NumBanks \in 0..NumBanks
  BY <1>2
<1>6. TotalBytes \in Nat /\ TotalBytes <= NumBanks * BankBytes
  BY <1>4, <1>5 DEF TotalBytes
<1>7. TotalBytes <= L1Bytes
  <2>1. NumBanks * BankBytes \in Nat /\ L1Bytes \in Nat /\ NumBanks * BankBytes <= L1Bytes
    BY <1>2, BankAssumption
  <2> QED  BY <1>6, <2>1
<1> QED  BY <1>1, <1>2, <1>7 DEF FitsInL1

(* A layout that is returned fits in L1, whatever was allocated before it: *)
(* a class takes of a bank only bytes that lie in the bank, and the banks  *)
(* together are no more than L1.                                           *)
THEOREM ReturnedInL1 == Spec => []ReturnedFits
<1>1. Init => LayoutLive
  BY DEF Init, LayoutLive
<1>2. BankInv /\ LayoutLive => ReturnedFits
  BY LayoutFits DEF ReturnedFits
<1> QED  BY <1>1, <1>2, LayoutLiveStep, BankAlways, PTL DEF Spec

(* The same under the search for a tile.                                   *)
LEMMA LayoutLivePlan ==
  ASSUME PlanInv, LayoutLive, [PlanNext]_planSpecVars
  PROVE  LayoutLive'
<1>1. BankInv /\ PlanState
  BY DEF PlanInv, LayoutState
<1>2. CASE [Next]_vars
  BY <1>1, <1>2, LayoutLiveStep
<1>3. CASE \E tile \in Tile, double \in BOOLEAN : ResetAndLayout(tile, double)
  <2>1. layout' = <<>>
    BY <1>3 DEF ResetAndLayout, StartLayout
  <2> QED  BY <2>1 DEF LayoutLive
<1> QED  BY <1>1, <1>2, <1>3, PlanSteps DEF Next, bankVars

(* The same of every layout that the search makes.                         *)
THEOREM SearchedInL1 == PlanSpec => []ReturnedFits
<1>1. PlanInit => LayoutLive
  BY DEF PlanInit, Init, LayoutLive
<1>2. PlanInv /\ LayoutLive => ReturnedFits
  BY LayoutFits DEF ReturnedFits, PlanInv, LayoutState
<1>3. PlanInv /\ LayoutLive /\ [PlanNext]_planSpecVars => LayoutLive'
  BY LayoutLivePlan
<1> QED  BY <1>1, <1>2, <1>3, PlanAlways, PTL DEF PlanSpec

(* What is known of the tile asked for and of the second allocator's       *)
(* answer while the caller looks at the layout.                            *)
PlannedInv ==
  /\ phase = "idle" => model = NoModel
  /\ phase = "planned" =>
       /\ current = asked.tile
       /\ problem # <<>> => <<problem, asked.tile>> \in BestTiles
       /\ model # NoModel => outcome # "running" /\ model = GemmBuffers(asked.tile)
  /\ current # <<>> => fresh = TRUE

LEMMA PlannedInit == PlanInit => PlannedInv
  BY DEF PlanInit, PlannedInv

LEMMA PlannedStep ==
  ASSUME PlanState, PlannedInv, [PlanNext]_planSpecVars
  PROVE  PlannedInv'
<1>1. CASE UNCHANGED <<phase, current, asked, problem, model>> /\ phase = "idle"
  BY <1>1 DEF PlannedInv, PlanState
<1>2. CASE phase = "idle" /\ (AllocateCall \/ LayoutGemm) /\ UNCHANGED planVars
  BY <1>1, <1>2 DEF planVars
<1>3. CASE (LayoutStep \/ UNCHANGED bankVars) /\ UNCHANGED planVars
  BY <1>3 DEF planVars, LayoutStep, bankVars, vars, PlannedInv
<1>4. CASE Plan
  <2>1. PICK of \in BestTiles \cup ({<<>>} \X Asked), double \in BOOLEAN :
          /\ ResetAndLayout(of[2], double)
          /\ problem' = of[1]
          /\ asked' = [tile |-> of[2], double |-> double]
    BY <1>4 DEF Plan
  <2>2. /\ phase = "idle" /\ phase' = "planned" /\ model' = model
        /\ current' = of[2] /\ fresh' = TRUE /\ asked'.tile = of[2]
    BY <1>4, <2>1 DEF Plan, ResetAndLayout
  <2>3. of[1] # <<>> => <<of[1], of[2]>> \in BestTiles
    BY DEF BestTiles
  <2> QED  BY <2>1, <2>2, <2>3 DEF PlannedInv, BestTiles
<1>5. CASE AllocateGemmBuffers
  BY <1>5 DEF AllocateGemmBuffers, PlannedInv, bankVars, vars
<1>6. CASE SuggestAlternativeTiles \/ SkipAsked \/ TryTile \/ TileDone \/ Rank \/ Leave
  BY <1>6 DEF SuggestAlternativeTiles, SkipAsked, TryTile, TileDone, Rank, Leave,
     ResetAndLayout, PlannedInv, bankVars, vars
<1> QED  BY <1>2, <1>3, <1>4, <1>5, <1>6 DEF PlanNext, planSpecVars

(* The empty sequence, which marks the absence of a tile, is none.         *)
LEMMA TileNotEmpty == ASSUME NEW tile \in Tile PROVE tile # <<>>
<1>1. PICK x, y, z \in Nat : tile = <<x, y, z>>
  BY DEF Tile
<1>2. Len(<<x, y, z>>) = 3 /\ Len(<<>>) = 0
  OBVIOUS
<1> QED  BY <1>1, <1>2

(* A multiple of an operand of 8 x 8 elements has the alignment of the     *)
(* allocator, if that divides 64.                                          *)
Eights(tile) == tile \in Tile /\ tile[1] % 8 = 0 /\ tile[2] % 8 = 0 /\ tile[3] % 8 = 0

LEMMA EightTimes ==
  ASSUME NEW x \in Nat, NEW y \in Nat, NEW bytes \in Nat, x % 8 = 0, y % 8 = 0,
         64 % Alignment = 0
  PROVE  (x * y * bytes) % Alignment = 0
<1>1. Alignment \in Nat \ {0}
  BY BankAssumption
<1>2. PICK q \in Nat : 64 = q * Alignment
  BY <1>1, ModTimes
<1>3. PICK i \in Nat : x = i * 8
  BY ModTimes
<1>4. PICK j \in Nat : y = j * 8
  BY ModTimes
<1>5. x * y = (i * j) * 64
  BY <1>3, <1>4
<1>6. PICK n \in Nat : n = i * j
  BY TimesNat
<1>7. PICK m \in Nat : m = (n * bytes) * q
  BY TimesNat
<1>8. x * y * bytes = m * Alignment
  <2>1. x * y * bytes = (n * (q * Alignment)) * bytes
    BY <1>2, <1>5, <1>6
  <2>2. (n * (q * Alignment)) * bytes = ((n * bytes) * q) * Alignment
    BY <1>1
  <2> QED  BY <1>7, <2>1, <2>2
<1> QED  BY <1>1, <1>8, TimesMod

(* So the allocator takes the operands of such a tile as they are.         *)
LEMMA EightsRounded ==
  ASSUME NEW tile, Eights(tile), 64 % Alignment = 0, NEW class \in Operands
  PROVE  Rounded(tile, class) = Size(tile, class)
<1>1. tile \in Tile /\ tile[1] \in Nat /\ tile[2] \in Nat /\ tile[3] \in Nat
  BY DEF Eights, Tile
<1>2. InBytes \in Nat /\ OutBytes \in Nat /\ Alignment \in Nat \ {0}
  BY BankAssumption
<1>3. Size(tile, class) \in Nat /\ Size(tile, class) % Alignment = 0
  <2>1. PICK x, y, z \in Nat : x = tile[1] /\ y = tile[2] /\ z = tile[3]
    BY <1>1
  <2>2. x % 8 = 0 /\ y % 8 = 0 /\ z % 8 = 0
    BY <2>1 DEF Eights
  <2>3. /\ (x * y * InBytes) % Alignment = 0 /\ (y * z * InBytes) % Alignment = 0
        /\ (x * z * OutBytes) % Alignment = 0
    BY <1>2, <2>2, EightTimes
  <2>4. /\ Size(tile, "A") = x * y * InBytes /\ Size(tile, "B") = y * z * InBytes
        /\ Size(tile, "C") = x * z * OutBytes
    BY <1>1, <2>1, SizesAre
  <2>5. Size(tile, "A") \in Nat /\ Size(tile, "B") \in Nat /\ Size(tile, "C") \in Nat
    BY <1>1, SizesAre
  <2>6. /\ Size(tile, "A") % Alignment = 0 /\ Size(tile, "B") % Alignment = 0
        /\ Size(tile, "C") % Alignment = 0
    BY <2>3, <2>4
  <2>7. class = "A" \/ class = "B" \/ class = "C"
    BY DEF Operands
  <2> QED  BY <2>5, <2>6, <2>7
<1> QED  BY <1>2, <1>3, AlignUpSame DEF Rounded

(* The sides of what find_optimal_tile returns are multiples of 8, and its *)
(* bytes fit in L1 twice.                                                  *)
LEMMA BestIs ==
  ASSUME NEW p, NEW tile, <<p, tile>> \in BestTiles
  PROVE  Eights(tile) /\ L1Usage(tile) <= L1Bytes
<1>1. PICK q \in Problems : tile \in FittingTiles(q)
  BY DEF BestTiles
<1>2. /\ tile \in Factors(q[1], 256) \X Factors(q[2], 128) \X Factors(q[3], 128)
      /\ L1Usage(tile) <= L1Bytes
  BY <1>1 DEF FittingTiles
<1>3. ASSUME NEW d, NEW cap, NEW x \in Factors(d, cap) PROVE x \in Nat /\ x % 8 = 0
  <2>1. x \in 1..Min({cap, d}) /\ x % 8 = 0
    BY DEF Factors
  <2> QED  BY <2>1
<1> QED  BY <1>2, <1>3 DEF Eights, Tile

(* A tile that the optimizer accepts and the banks do not take.            *)
LEMMA LargeOperand ==
  ASSUME L1Bytes = 4 * BankBytes, 64 % Alignment = 0, NEW tile, Eights(tile),
         L1Usage(tile) <= L1Bytes, NEW double \in BOOLEAN, ~Placeable(tile, double),
         NEW large, large = {class \in Operands : Size(tile, class) > BankBytes}
  PROVE  \/ \E class \in Operands : large = {class}
         \/ large = {} /\ double /\ 2 * Size(tile, "B") > BankBytes
<1>1. BankBytes \in Nat
  BY BankAssumption
<1>2. PICK a, b, c \in Nat :
        a = Size(tile, "A") /\ b = Size(tile, "B") /\ c = Size(tile, "C")
  BY SizesAre DEF Eights
<1>3. a = Rounded(tile, "A") /\ b = Rounded(tile, "B") /\ c = Rounded(tile, "C")
  BY <1>2, EightsRounded DEF Operands
<1>4. 2 * (a + b + c) <= 4 * BankBytes
  BY <1>2 DEF L1Usage
<1>5. /\ "A" \in large <=> a > BankBytes
      /\ "B" \in large <=> b > BankBytes
      /\ "C" \in large <=> c > BankBytes
      /\ large \subseteq {"A", "B", "C"}
  BY <1>2 DEF Operands
<1>6. CASE a > BankBytes
  <2>1. ~(b > BankBytes) /\ ~(c > BankBytes)
    BY <1>1, <1>4, <1>6
  <2>2. large = {"A"}
    BY <1>5, <1>6, <2>1
  <2> QED  BY <2>2 DEF Operands
<1>7. CASE b > BankBytes
  <2>1. ~(a > BankBytes) /\ ~(c > BankBytes)
    BY <1>1, <1>4, <1>7
  <2>2. large = {"B"}
    BY <1>5, <1>7, <2>1
  <2> QED  BY <2>2 DEF Operands
<1>8. CASE c > BankBytes
  <2>1. ~(a > BankBytes) /\ ~(b > BankBytes)
    BY <1>1, <1>4, <1>8
  <2>2. large = {"C"}
    BY <1>5, <1>8, <2>1
  <2> QED  BY <2>2 DEF Operands
<1>9. CASE ~(a > BankBytes) /\ ~(b > BankBytes) /\ ~(c > BankBytes)
  <2>1. large = {}
    BY <1>5, <1>9
  <2>2. \A class \in Operands : Rounded(tile, class) <= BankBytes
    BY <1>1, <1>3, <1>9 DEF Operands
  <2>3. double /\ ~(b + b <= BankBytes)
    BY <1>3, <2>2 DEF Placeable, Operands
  <2>4. 2 * b > BankBytes
    BY <1>1, <2>3
  <2> QED  BY <1>2, <2>1, <2>3, <2>4
<1> QED  BY <1>6, <1>7, <1>8, <1>9

(* Of the tiles that find_optimal_tile puts first, the allocator of the    *)
(* four banks of L1 refuses none but those with exactly one operand larger *)
(* than a bank, and, double-buffered, those whose B takes more than half a *)
(* bank: two operands of more than a bank each do not pass the test of the *)
(* bytes.                                                                  *)
THEOREM BestTilePlaced ==
  ASSUME NumBanks = 4, L1Bytes = 4 * BankBytes, 64 % Alignment = 0
  PROVE  PlanSpec => []BestPlaced
<1>1. PlanInv /\ RefuseInv /\ PlannedInv => BestPlaced
  <2> SUFFICES ASSUME PlanInv, RefuseInv, PlannedInv, phase = "planned", problem # <<>>,
                      outcome = "raised",
                      NEW large, large = {class \in Operands : Size(asked.tile, class) > BankBytes}
               PROVE  \/ \E class \in Operands : large = {class}
                      \/ large = {} /\ asked.double /\ 2 * Size(asked.tile, "B") > BankBytes
    BY DEF BestPlaced
  <2>1. current = asked.tile /\ <<problem, asked.tile>> \in BestTiles
    BY DEF PlannedInv
  <2>2. asked.tile \in Tile /\ asked.double \in BOOLEAN
    BY DEF PlanInv, PlanState
  <2>3. asked.tile # <<>>
    BY <2>2, TileNotEmpty
  <2>4. ~Placeable(asked.tile, asked.double)
    BY <2>1, <2>3 DEF RefuseInv
  <2>5. Eights(asked.tile) /\ L1Usage(asked.tile) <= L1Bytes
    BY <2>1, BestIs
  <2> QED  BY <2>2, <2>4, <2>5, LargeOperand
<1>2. PlanInv /\ RefuseInv /\ PlannedInv /\ [PlanNext]_planSpecVars => RefuseInv' /\ PlannedInv'
  BY RefuseStep, PlannedStep DEF PlanInv
<1> QED  BY <1>1, <1>2, RefuseInit, PlannedInit, PlanAlways, PTL DEF PlanSpec

-----------------------------------------------------------------------------
(* The second allocator beside the first.                                  *)

(* The bank used least, the first of them if there are several, exists.    *)
LEMMA LeastUsedBank ==
  ASSUME NEW banks \in [Bank -> Nat]
  PROVE  LeastUsed(banks) \in Bank
<1> DEFINE levels == {banks[b] : b \in Bank}
<1>1. 0 \in Bank /\ Bank \subseteq Nat
  BY BankAssumption DEF Bank
<1>2. PICK low \in levels : \A v \in levels : low <= v
  <2>1. levels \in SUBSET Nat /\ levels # {}
    BY <1>1
  <2> HIDE DEF levels
  <2> QED  BY <2>1, LeastNatural
<1>3. PICK b \in {c \in Bank : banks[c] = low} : \A c \in {c \in Bank : banks[c] = low} : b <= c
  <2>1. {c \in Bank : banks[c] = low} \in SUBSET Nat /\ {c \in Bank : banks[c] = low} # {}
    BY <1>1, <1>2
  <2> QED  BY <2>1, LeastNatural
<1>4. b \in Bank /\ banks[b] = low
  BY <1>3
<1>5. \A c \in Bank : banks[b] < banks[c] \/ (banks[b] = banks[c] /\ b <= c)
  <2> SUFFICES ASSUME NEW c \in Bank
               PROVE  banks[b] < banks[c] \/ (banks[b] = banks[c] /\ b <= c)
    OBVIOUS
  <2>1. low <= banks[c] /\ low \in Nat /\ banks[c] \in Nat
    BY <1>2
  <2>2. banks[c] = low => b <= c
    BY <1>3
  <2> QED  BY <1>4, <2>1, <2>2
<1> HIDE DEF levels
<1>6. \E x \in Bank : \A c \in Bank : banks[x] < banks[c] \/ (banks[x] = banks[c] /\ x <= c)
  BY <1>4, <1>5
<1> QED  BY <1>6 DEF LeastUsed

(* The bank that machine_model.py takes for a buffer whose preferred bank  *)
(* is empty: this one, and none if the buffer is larger than a bank.       *)
LEMMA ModelRoom ==
  ASSUME NEW banks \in [Bank -> Nat], NEW home \in Bank, banks[home] = 0, NEW size \in Nat
  PROVE  /\ size <= BankBytes => BankFor(banks, size, home) = home /\ HasRoom(banks, home, size)
         /\ ~(size <= BankBytes) => ~HasRoom(banks, BankFor(banks, size, home), size)
<1>1. BankBytes \in Nat /\ \A b \in Bank : banks[b] \in Nat
  BY BankAssumption
<1>2. HasRoom(banks, home, size) <=> size <= BankBytes
  BY <1>1 DEF HasRoom
<1>3. BankFor(banks, size, home) \in Bank
  BY LeastUsedBank DEF BankFor
<1>4. \A b \in Bank : HasRoom(banks, b, size) => size <= BankBytes
  <2> SUFFICES ASSUME NEW b \in Bank, banks[b] + size <= BankBytes PROVE size <= BankBytes
    BY DEF HasRoom
  <2> QED  BY <1>1
<1> QED  BY <1>2, <1>3, <1>4 DEF BankFor

(* The place machine_model.py gives an operand.                            *)
Slot(size, b) == IF size <= BankBytes THEN <<b, 0>> ELSE <<>>

(* What one call of allocate_buffer does for an operand whose bank is      *)
(* empty.                                                                  *)
LEMMA ModelPuts ==
  ASSUME NEW m, m.banks \in [Bank -> Nat], NEW tile, NEW class \in Operands,
         m.at = [other \in Operands |-> m.at[other]], m.at[class] = <<>>,
         NEW home \in Bank, home = PreferredBank(class), m.banks[home] = 0,
         NEW size \in Nat, size = Size(tile, class),
         NEW r, r = AllocateBuffer(m, tile, class)
  PROVE  /\ r.banks \in [Bank -> Nat]
         /\ \A b \in Bank : b # home => r.banks[b] = m.banks[b]
         /\ r.at = [other \in Operands |-> r.at[other]]
         /\ r.at[class] = Slot(size, home)
         /\ \A other \in Operands : other # class => r.at[other] = m.at[other]
<1>1. CASE size <= BankBytes
  <2>1. BankFor(m.banks, size, home) = home /\ HasRoom(m.banks, home, size)
    BY <1>1, ModelRoom
  <2>2. r = [banks |-> [m.banks EXCEPT ![home] = @ + size],
             at    |-> [m.at EXCEPT ![class] = <<home, m.banks[home]>>]]
    BY <2>1 DEF AllocateBuffer
  <2>3. /\ r.banks = [m.banks EXCEPT ![home] = m.banks[home] + size]
        /\ r.at = [m.at EXCEPT ![class] = <<home, 0>>]
    BY <2>2
  <2>4. m.banks[home] + size \in Nat
    OBVIOUS
  <2>5. r.banks \in [Bank -> Nat] /\ \A b \in Bank : b # home => r.banks[b] = m.banks[b]
    BY <2>3, <2>4
  <2>6. /\ r.at = [other \in Operands |-> r.at[other]]
        /\ r.at[class] = <<home, 0>>
        /\ \A other \in Operands : other # class => r.at[other] = m.at[other]
    BY <2>3
  <2> QED  BY <1>1, <2>5, <2>6 DEF Slot
<1>2. CASE ~(size <= BankBytes)
  <2>1. ~HasRoom(m.banks, BankFor(m.banks, size, home), size)
    BY <1>2, ModelRoom
  <2>2. r = m
    BY <2>1 DEF AllocateBuffer
  <2> QED  BY <1>2, <2>2 DEF Slot
<1> QED  BY <1>1, <1>2

(* What allocate_gemm_buffers returns.                                     *)
LEMMA ModelIs ==
  ASSUME NEW tile \in Tile
  PROVE  \A class \in Operands :
           GemmBuffers(tile)[class] = Slot(Size(tile, class), PreferredBank(class))
<1>1. PICK a, b, c \in Nat :
        a = Size(tile, "A") /\ b = Size(tile, "B") /\ c = Size(tile, "C")
  BY SizesAre
<1>2. /\ 0 \in Bank /\ 1 \in Bank /\ 2 \in Bank
      /\ PreferredBank("A") = 0 /\ PreferredBank("B") = 1 /\ PreferredBank("C") = 2
  BY PreferredAre
<1>3. "A" \in Operands /\ "B" \in Operands /\ "C" \in Operands
  BY DEF Operands
<1>4. PICK m : m = EmptyModel
  OBVIOUS
<1>5. /\ m.banks \in [Bank -> Nat] /\ m.at = [other \in Operands |-> m.at[other]]
      /\ m.banks[0] = 0 /\ m.banks[1] = 0 /\ m.banks[2] = 0
      /\ m.at["A"] = <<>> /\ m.at["B"] = <<>> /\ m.at["C"] = <<>>
  BY <1>2, <1>3, <1>4 DEF EmptyModel
<1>6. PICK ma : ma = AllocateBuffer(m, tile, "A")
  OBVIOUS
<1>7. /\ ma.banks \in [Bank -> Nat] /\ ma.at = [other \in Operands |-> ma.at[other]]
      /\ ma.banks[1] = 0 /\ ma.banks[2] = 0
      /\ ma.at["A"] = Slot(a, 0) /\ ma.at["B"] = <<>> /\ ma.at["C"] = <<>>
  <2>1. /\ ma.banks \in [Bank -> Nat] /\ ma.at = [other \in Operands |-> ma.at[other]]
        /\ \A x \in Bank : x # 0 => ma.banks[x] = m.banks[x]
        /\ ma.at["A"] = Slot(a, 0)
        /\ \A other \in Operands : other # "A" => ma.at[other] = m.at[other]
    <3>1. "A" \in Operands /\ 0 \in Bank /\ 0 = PreferredBank("A") /\ a = Size(tile, "A")
      BY <1>1, <1>2, <1>3
    <3> QED  BY <1>5, <1>6, <3>1, ModelPuts, SMTT(20)
  <2> QED  BY <1>2, <1>3, <1>5, <2>1
<1>8. PICK mb : mb = AllocateBuffer(ma, tile, "B")
  OBVIOUS
<1>9. /\ mb.banks \in [Bank -> Nat] /\ mb.at = [other \in Operands |-> mb.at[other]]
      /\ mb.banks[2] = 0
      /\ mb.at["A"] = Slot(a, 0) /\ mb.at["B"] = Slot(b, 1) /\ mb.at["C"] = <<>>
  <2>1. /\ mb.banks \in [Bank -> Nat] /\ mb.at = [other \in Operands |-> mb.at[other]]
        /\ \A x \in Bank : x # 1 => mb.banks[x] = ma.banks[x]
        /\ mb.at["B"] = Slot(b, 1)
        /\ \A other \in Operands : other # "B" => mb.at[other] = ma.at[other]
    <3>1. /\ ma.banks \in [Bank -> Nat] /\ ma.at = [other \in Operands |-> ma.at[other]]
          /\ ma.banks[1] = 0 /\ ma.at["B"] = <<>>
      BY <1>7
    <3>2. "B" \in Operands /\ 1 \in Bank /\ 1 = PreferredBank("B") /\ b = Size(tile, "B")
      BY <1>1, <1>2, <1>3
    <3> QED  BY <1>8, <3>1, <3>2, ModelPuts, SMTT(20)
  <2> QED  BY <1>2, <1>3, <1>7, <2>1
<1>10. PICK mc : mc = AllocateBuffer(mb, tile, "C")
  OBVIOUS
<1>11. mc.at["A"] = Slot(a, 0) /\ mc.at["B"] = Slot(b, 1) /\ mc.at["C"] = Slot(c, 2)
  <2>1. /\ mc.banks \in [Bank -> Nat] /\ mc.at = [other \in Operands |-> mc.at[other]]
        /\ \A x \in Bank : x # 2 => mc.banks[x] = mb.banks[x]
        /\ mc.at["C"] = Slot(c, 2)
        /\ \A other \in Operands : other # "C" => mc.at[other] = mb.at[other]
    <3>1. /\ mb.banks \in [Bank -> Nat] /\ mb.at = [other \in Operands |-> mb.at[other]]
          /\ mb.banks[2] = 0 /\ mb.at["C"] = <<>>
      BY <1>9
    <3>2. "C" \in Operands /\ 2 \in Bank /\ 2 = PreferredBank("C") /\ c = Size(tile, "C")
      BY <1>1, <1>2, <1>3
    <3> QED  BY <1>10, <3>1, <3>2, ModelPuts, SMTT(20)
  <2> QED  BY <1>3, <1>9, <2>1
<1>12. GemmBuffers(tile) = mc.at
  BY <1>4, <1>6, <1>8, <1>10 DEF GemmBuffers
<1> QED  BY <1>1, <1>2, <1>11, <1>12 DEF Operands

(* The operands of a layout have the sizes of the tile.                    *)
SizesKept ==
  current # <<>> =>
    /\ \A i \in 1..Len(todo) : todo[i].class \in Operands =>
         todo[i].size = Size(current, todo[i].class) /\ todo[i].align = Alignment
    /\ \A i \in 1..Len(layout) : layout[i].class \in Operands =>
         layout[i].size = Rounded(current, layout[i].class)

(* The requests of a new layout.                                           *)
LEMMA SizesStart ==
  ASSUME NEW tile \in Tile, NEW double \in BOOLEAN, ResetAndLayout(tile, double)
  PROVE  SizesKept'
<1>1. current' = tile /\ layout' = <<>> /\ todo' = Requests(tile, double)
  BY DEF ResetAndLayout, StartLayout
<1>2. PICK a, b, c \in Nat :
        a = Size(tile, "A") /\ b = Size(tile, "B") /\ c = Size(tile, "C")
  BY SizesAre
<1>3. PICK s : s = Requests(tile, double)
  OBVIOUS
<1>4. /\ IsReq(s[1], "A", a) /\ IsReq(s[2], "B", b) /\ IsReq(s[3], "C", c)
      /\ double => /\ Len(s) = 6 /\ IsReq(s[4], "A2", a) /\ IsReq(s[5], "B2", b)
                   /\ IsReq(s[6], "stack", StackBytes)
      /\ ~double => Len(s) = 4 /\ IsReq(s[4], "stack", StackBytes)
  <2>1. /\ a = tile[1] * tile[2] * InBytes
        /\ b = tile[2] * tile[3] * InBytes
        /\ c = tile[1] * tile[3] * OutBytes
    BY <1>2, SizesAre
  <2> QED  BY <1>3, <2>1, RequestsAre
<1>5. ASSUME NEW i \in 1..Len(s), s[i].class \in Operands
      PROVE  s[i].size = Size(tile, s[i].class) /\ s[i].align = Alignment
  <2>1. i = 1 \/ i = 2 \/ i = 3
    <3>1. CASE double = TRUE
      <4>1. /\ Len(s) = 6
            /\ s[4].class = "A2" /\ s[5].class = "B2" /\ s[6].class = "stack"
        BY <1>4, <3>1 DEF IsReq
      <4>2. i \in 1..6
        BY <4>1
      <4>3. i # 4 /\ i # 5 /\ i # 6
        BY <1>5, <4>1 DEF Operands
      <4> QED  BY <4>2, <4>3
    <3>2. CASE double = FALSE
      <4>1. Len(s) = 4 /\ s[4].class = "stack"
        BY <1>4, <3>2 DEF IsReq
      <4>2. i \in 1..4
        BY <4>1
      <4>3. i # 4
        BY <1>5, <4>1 DEF Operands
      <4> QED  BY <4>2, <4>3
    <3> QED  BY <3>1, <3>2
  <2> QED  BY <1>2, <1>4, <2>1 DEF IsReq
<1> QED  BY <1>1, <1>3, <1>5 DEF SizesKept

LEMMA SizesLayout ==
  ASSUME BankInv, SizesKept, LayoutStep, UNCHANGED planVars
  PROVE  SizesKept'
<1> SUFFICES ASSUME current # <<>> PROVE SizesKept'
  BY DEF SizesKept, planVars
<1>1. current' = current
  BY DEF planVars
<1>2. /\ Len(todo') = Len(todo) - 1 /\ Len(todo) \in Nat \ {0}
      /\ \A i \in 1..Len(todo') : todo'[i] = todo[i + 1]
  BY TodoStep
<1>3. \A i \in 1..Len(todo') : todo'[i].class \in Operands =>
        todo'[i].size = Size(current, todo'[i].class) /\ todo'[i].align = Alignment
  <2>1. \A i \in 1..Len(todo') : i + 1 \in 1..Len(todo)
    BY <1>2
  <2> QED  BY <1>2, <2>1 DEF SizesKept
<1>4. \A i \in 1..Len(layout') : layout'[i].class \in Operands =>
        layout'[i].size = Rounded(current, layout'[i].class)
  <2>1. CASE Misses
    BY <2>1 DEF Misses, SizesKept
  <2>2. CASE \E b \in Bank : Puts(b)
    <3>1. /\ Len(layout') = Len(layout) + 1
          /\ \A i \in 1..Len(layout) : layout'[i] = layout[i]
          /\ layout'[Len(layout) + 1].class = todo[1].class
          /\ layout'[Len(layout) + 1].size = AlignUp(todo[1].size, todo[1].align)
      BY <2>2 DEF Puts
    <3>2. Len(layout) \in Nat
      BY DEF BankInv, TypeOK
    <3>3. todo[1].class \in Operands =>
            AlignUp(todo[1].size, todo[1].align) = Rounded(current, todo[1].class)
      <4>1. 1 \in 1..Len(todo)
        BY <1>2
      <4> QED  BY <4>1 DEF SizesKept, Rounded
    <3> SUFFICES ASSUME NEW i \in 1..Len(layout'), layout'[i].class \in Operands
                 PROVE  layout'[i].size = Rounded(current, layout'[i].class)
      OBVIOUS
    <3>4. i \in 1..Len(layout) \/ i = Len(layout) + 1
      BY <3>1, <3>2
    <3>5. CASE i \in 1..Len(layout)
      BY <3>1, <3>5 DEF SizesKept
    <3>6. CASE i = Len(layout) + 1
      BY <3>1, <3>3, <3>6
    <3> QED  BY <3>4, <3>5, <3>6
  <2> QED  BY <2>1, <2>2, PutsOrMisses
<1>5. \A class : Size(current, class)' = Size(current, class)
                  /\ Rounded(current, class)' = Rounded(current, class)
  BY <1>1
<1> QED  BY <1>1, <1>3, <1>4 DEF SizesKept

LEMMA SizesInit == PlanInit => SizesKept
  BY DEF PlanInit, SizesKept

LEMMA SizesStep ==
  ASSUME PlanInv, SizesKept, [PlanNext]_planSpecVars
  PROVE  SizesKept'
<1>1. PlanState /\ BankInv
  BY DEF PlanInv, LayoutState
<1>2. CASE UNCHANGED <<bankVars, current, asked>>
  BY <1>2 DEF SizesKept, bankVars, vars
<1>3. CASE current' = <<>>
  BY <1>3 DEF SizesKept
<1>4. CASE LayoutStep /\ UNCHANGED planVars
  BY <1>1, <1>4, SizesLayout
<1> QED  BY <1>1, <1>2, <1>3, <1>4, PlanCases, SizesStart

(* Rounding up does not carry a size over a multiple of the alignment.     *)
LEMMA RoundedFits ==
  ASSUME NEW size \in Nat, NEW align \in Nat \ {0}, NEW room \in Nat, room % align = 0
  PROVE  AlignUp(size, align) <= room <=> size <= room
<1>1. PICK q \in Nat : room = q * align
  BY ModTimes
<1>2. PICK d \in Nat : d = (size + align - 1) \div align
  OBVIOUS
<1>3. d * align <= size + align - 1 /\ size + align - 1 < d * align + align
  BY <1>2
<1>4. d * align \in Nat
  BY TimesNat
<1>5. size <= d * align
  BY <1>3, <1>4
<1>6. ASSUME size <= room PROVE d * align <= room
  <2>1. ASSUME d > q PROVE FALSE
    <3>1. PICK e \in Nat : d = q + 1 + e
      BY <2>1
    <3>2. d * align = room + align + e * align
      BY <1>1, <3>1
    <3>3. e * align \in Nat
      BY TimesNat
    <3> QED  BY <1>3, <1>6, <3>2, <3>3
  <2>2. PICK e \in Nat : q = d + e
    BY <2>1
  <2>3. room = d * align + e * align
    BY <1>1, <2>2
  <2>4. e * align \in Nat
    BY TimesNat
  <2> QED  BY <1>4, <2>3, <2>4
<1>7. AlignUp(size, align) = d * align
  BY <1>2 DEF AlignUp
<1> QED  BY <1>4, <1>5, <1>6, <1>7

(* So an operand fits in a bank rounded up exactly if it fits as it is.    *)
LEMMA TileFits ==
  ASSUME BankBytes % Alignment = 0, NEW tile \in Tile
  PROVE  /\ \A class \in Operands :
              Rounded(tile, class) <= BankBytes <=> Size(tile, class) <= BankBytes
         /\ Placeable(tile, FALSE) <=> \A class \in Operands : Size(tile, class) <= BankBytes
<1>1. \A class \in Operands : Size(tile, class) \in Nat
  BY SizesAre DEF Operands
<1>2. BankBytes \in Nat /\ Alignment \in Nat \ {0}
  BY BankAssumption
<1>3. \A class \in Operands : Rounded(tile, class) <= BankBytes <=> Size(tile, class) <= BankBytes
  BY <1>1, <1>2, RoundedFits DEF Rounded
<1> QED  BY <1>3 DEF Placeable

(* What fits in a bank needs no second one.                                *)
LEMMA NoShare ==
  ASSUME NumBanks = 4, NEW tile \in Tile,
         Size(tile, "A") <= BankBytes, Size(tile, "B") <= BankBytes
  PROVE  ~ShareBanks(tile)
<1>1. PICK a, b \in Nat : a = Size(tile, "A") /\ b = Size(tile, "B")
  BY SizesAre
<1>2. BankBytes \in Nat \ {0}
  BY BankAssumption
<1>3. ASSUME NEW n \in Nat, n <= BankBytes PROVE BanksNeeded(n) \in 0..1
  <2>1. (n + BankBytes - 1) \div BankBytes \in 0..1
    BY <1>2, <1>3
  <2> QED  BY <2>1 DEF BanksNeeded
<1>4. BanksNeeded(a) \in 0..1 /\ BanksNeeded(b) \in 0..1
  BY <1>1, <1>3
<1> QED  BY <1>1, <1>4 DEF ShareBanks

LEMMA SlotIs ==
  ASSUME NEW size \in Nat, NEW b
  PROVE  /\ Slot(size, b) # <<>> <=> size <= BankBytes
         /\ size <= BankBytes => Slot(size, b) = <<b, 0>>
<1>1. <<b, 0>> # <<>>
  <2>1. Len(<<b, 0>>) = 2 /\ Len(<<>>) = 0
    OBVIOUS
  <2> QED  BY <2>1
<1> QED  BY <1>1 DEF Slot

(* The two allocators side by side: the first by the invariants of the     *)
(* layout, the second by what its three calls do.                          *)
LEMMA Agree ==
  ASSUME NumBanks = 4, BankBytes % Alignment = 0,
         PlanInv, LayoutLive, RefuseInv, PlannedInv, SizesKept
  PROVE  AllocatorsAgree
<1> SUFFICES ASSUME model # NoModel, phase = "planned", ~asked.double
             PROVE  /\ outcome = "returned" <=> \A class \in Operands : model[class] # <<>>
                    /\ \A i \in 1..Len(layout) : layout[i].class \in Operands =>
                         model[layout[i].class] = <<layout[i].bank, layout[i].offset>>
                    /\ outcome = "returned" => ~ShareBanks(asked.tile)
  BY DEF AllocatorsAgree
<1>1. BankInv /\ PlanState /\ FreshInv
  BY DEF PlanInv, LayoutState
<1>2. PICK tile \in Tile : tile = asked.tile /\ tile = current
  BY <1>1 DEF PlannedInv, PlanState
<1>3. tile # <<>> /\ asked.double = FALSE
  BY <1>1, TileNotEmpty DEF PlanState
<1>4. fresh = TRUE /\ outcome # "running" /\ model = GemmBuffers(tile)
  BY <1>2, <1>3 DEF PlannedInv
<1>5. \A class \in Operands : Size(tile, class) \in Nat
  BY SizesAre DEF Operands
<1>6. outcome = "returned" <=> \A class \in Operands : Size(tile, class) <= BankBytes
  <2>1. outcome = "returned" <=> Placeable(tile, FALSE)
    BY <1>2, <1>3, <1>4 DEF RefuseInv
  <2> QED  BY <2>1, TileFits
<1>7. \A class \in Operands : model[class] = Slot(Size(tile, class), PreferredBank(class))
  BY <1>4, ModelIs
<1>8. \A class \in Operands :
        /\ model[class] # <<>> <=> Size(tile, class) <= BankBytes
        /\ Size(tile, class) <= BankBytes => model[class] = <<PreferredBank(class), 0>>
  BY <1>5, <1>7, SlotIs
<1>9. ASSUME NEW i \in 1..Len(layout), layout[i].class \in Operands
      PROVE  model[layout[i].class] = <<layout[i].bank, layout[i].offset>>
  <2>1. PICK p \in live : p = layout[i]
    BY DEF LayoutLive
  <2>2. p.bank = PreferredBank(p.class) /\ p.offset = 0
    BY <1>1, <1>4, <1>9, <2>1 DEF FreshInv, HomeBanks, Operands
  <2>3. p.size = Rounded(tile, p.class)
    BY <1>2, <1>3, <1>9, <2>1 DEF SizesKept
  <2>4. EndOffset(p) <= BankBytes /\ p.size \in Nat
    BY <1>1, <2>1, BankInvWithin DEF WithinBank, BankInv, TypeOK, PlacementType
  <2>5. p.size <= BankBytes
    BY <2>2, <2>4 DEF EndOffset
  <2>6. Size(tile, p.class) <= BankBytes
    BY <1>9, <2>1, <2>3, <2>5, TileFits
  <2> QED  BY <1>8, <1>9, <2>1, <2>2, <2>6
<1>10. outcome = "returned" => ~ShareBanks(tile)
  BY <1>6, NoShare DEF Operands
<1> QED  BY <1>2, <1>6, <1>8, <1>9, <1>10

(* Of a single-buffered tile, both allocators find room for all three      *)
(* operands or the first refuses it and the second leaves one out; they    *)
(* give them the same banks and offsets, and the test of shared banks      *)
(* finds none.                                                             *)
THEOREM TwoAllocators ==
  ASSUME NumBanks = 4, BankBytes % Alignment = 0
  PROVE  PlanSpec => []AllocatorsAgree
<1>1. /\ PlanInv /\ LayoutLive /\ RefuseInv /\ PlannedInv /\ SizesKept /\ [PlanNext]_planSpecVars
         => LayoutLive' /\ RefuseInv' /\ PlannedInv' /\ SizesKept'
      /\ PlanInit => LayoutLive
  BY LayoutLivePlan, RefuseStep, PlannedStep, SizesStep DEF PlanInv, PlanInit, Init, LayoutLive
<1>2. PlanInv /\ LayoutLive /\ RefuseInv /\ PlannedInv /\ SizesKept => AllocatorsAgree
  BY Agree
<1> QED  BY <1>1, <1>2, RefuseInit, PlannedInit, SizesInit, PlanAlways, PTL DEF PlanSpec

-----------------------------------------------------------------------------
(* The alternatives: a sorted list and its beginning.                      *)

(* A strict order of the elements 1..n of a list; what is before one.      *)
StrictOrder(R, n) ==
  /\ \A i \in 1..n : <<i, i>> \notin R
  /\ \A i, j \in 1..n : i # j => <<i, j>> \in R \/ <<j, i>> \in R
  /\ \A i, j, k \in 1..n : <<i, j>> \in R /\ <<j, k>> \in R => <<i, k>> \in R

Before(R, n, j) == {h \in 1..n : <<h, j>> \in R}
Leading(R, n, top) == {j \in 1..n : Cardinality(Before(R, n, j)) < top}

(* An element has fewer than n before it, and more than each of those.     *)
LEMMA BeforeCount ==
  ASSUME NEW R, NEW n \in Nat, StrictOrder(R, n), NEW j \in 1..n
  PROVE  /\ IsFiniteSet(Before(R, n, j)) /\ Cardinality(Before(R, n, j)) \in 0..n - 1
         /\ \A h \in 1..n : <<h, j>> \in R =>
              Cardinality(Before(R, n, h)) < Cardinality(Before(R, n, j))
<1>1. IsFiniteSet(1..n) /\ Cardinality(1..n) = n
  <2>1. 1 \in Int /\ n \in Int /\ (IF 1 > n THEN 0 ELSE n - 1 + 1) = n
    OBVIOUS
  <2> QED  BY <2>1, FS_Interval
<1>2. \A h \in 1..n : IsFiniteSet(Before(R, n, h)) /\ Cardinality(Before(R, n, h)) \in Nat
  <2> SUFFICES ASSUME NEW h \in 1..n
               PROVE  IsFiniteSet(Before(R, n, h)) /\ Cardinality(Before(R, n, h)) \in Nat
    OBVIOUS
  <2>1. Before(R, n, h) \in SUBSET (1..n)
    BY DEF Before
  <2> QED  BY <1>1, <2>1, FS_Subset, FS_CardinalityType
<1>3. Cardinality(Before(R, n, j)) <= n - 1
  <2>1. IsFiniteSet((1..n) \ {j}) /\ Cardinality((1..n) \ {j}) = n - 1
    BY <1>1, FS_RemoveElement
  <2>2. Before(R, n, j) \in SUBSET ((1..n) \ {j})
    BY DEF Before, StrictOrder
  <2> QED  BY <2>1, <2>2, FS_Subset
<1>4. ASSUME NEW h \in 1..n, <<h, j>> \in R
      PROVE  Cardinality(Before(R, n, h)) < Cardinality(Before(R, n, j))
  <2>1. h \notin Before(R, n, h)
    BY DEF Before, StrictOrder
  <2>2. Cardinality(Before(R, n, h) \cup {h}) = Cardinality(Before(R, n, h)) + 1
    BY <1>2, <2>1, FS_AddElement
  <2>3. Before(R, n, h) \cup {h} \in SUBSET Before(R, n, j)
    BY <1>4 DEF Before, StrictOrder
  <2>4. Cardinality(Before(R, n, h) \cup {h}) <= Cardinality(Before(R, n, j))
    BY <1>2, <2>3, FS_Subset
  <2> QED  BY <1>2, <2>2, <2>4
<1>5. n - 1 \in Int /\ Cardinality(Before(R, n, j)) \in Nat
  BY <1>2
<1> QED  BY <1>2, <1>3, <1>4, <1>5

(* Exactly top elements lead, unless there are fewer; what leads is before *)
(* what does not.                                                          *)
LEMMA LeadingCount ==
  ASSUME NEW R, NEW n \in Nat, StrictOrder(R, n), NEW top \in Nat
  PROVE  /\ IsFiniteSet(Leading(R, n, top)) /\ Cardinality(Leading(R, n, top)) <= top
         /\ Leading(R, n, top) # 1..n => Cardinality(Leading(R, n, top)) = top
         /\ \A h \in Leading(R, n, top), j \in (1..n) \ Leading(R, n, top) : <<h, j>> \in R
<1> DEFINE rank == [j \in 1..n |-> Cardinality(Before(R, n, j))]
<1>1. \A j \in 1..n : rank[j] \in 0..n - 1
  BY BeforeCount
<1>2. \A h, j \in 1..n : <<h, j>> \in R => rank[h] < rank[j]
  BY BeforeCount
<1>3. \A h, j \in 1..n : h # j => <<h, j>> \in R \/ <<j, h>> \in R
  BY DEF StrictOrder
<1>4. Leading(R, n, top) = {j \in 1..n : rank[j] < top}
  BY DEF Leading
<1>5. rank \in [1..n -> 0..n - 1]
  BY <1>1
<1>6. PICK r \in [1..n -> 0..n - 1] : r = rank
  BY <1>5
<1> HIDE DEF rank
<1>7. \A h, j \in 1..n : r[h] = r[j] => h = j
  <2> SUFFICES ASSUME NEW h \in 1..n, NEW j \in 1..n, r[h] = r[j] PROVE h = j
    OBVIOUS
  <2>1. r[h] \in Int /\ r[j] \in Int
    OBVIOUS
  <2>2. ~(r[h] < r[j]) /\ ~(r[j] < r[h])
    BY <2>1
  <2> QED  BY <1>2, <1>3, <1>6, <2>2
<1>8. /\ IsFiniteSet(1..n) /\ Cardinality(1..n) = n
      /\ IsFiniteSet(0..n - 1) /\ Cardinality(0..n - 1) = n
  <2>1. 1 \in Int /\ n \in Int /\ 0 \in Int /\ n - 1 \in Int
        /\ (IF 1 > n THEN 0 ELSE n - 1 + 1) = n
        /\ (IF 0 > n - 1 THEN 0 ELSE (n - 1) - 0 + 1) = n
    OBVIOUS
  <2> QED  BY <2>1, FS_Interval
<1>9. \A v \in 0..n - 1 : \E j \in 1..n : r[j] = v
  <2>1. r \in Injection(1..n, 0..n - 1)
    BY <1>7 DEF Injection, IsInjective
  <2>2. r \in Surjection(1..n, 0..n - 1)
    BY <1>8, <2>1, FS_Injection
  <2> QED  BY <2>2 DEF Surjection
<1>10. PICK lead : lead = Leading(R, n, top)
  OBVIOUS
<1>11. lead = {j \in 1..n : r[j] < top}
  BY <1>4, <1>6, <1>10
<1>12. IsFiniteSet(lead)
  <2>1. lead \in SUBSET (1..n)
    BY <1>11
  <2> QED  BY <1>8, <2>1, FS_Subset
<1>13. Cardinality(lead) <= top /\ (lead # 1..n => Cardinality(lead) = top)
  <2>1. PICK m \in Nat : m = (IF top < n THEN top ELSE n)
    OBVIOUS
  <2>2. [j \in lead |-> r[j]] \in Bijection(lead, 0..m - 1)
    <3>1. PICK f : f = [j \in lead |-> r[j]]
      OBVIOUS
    <3>2. \A j \in lead : f[j] = r[j] /\ r[j] \in 0..m - 1
      BY <1>11, <2>1, <3>1
    <3>3. f \in [lead -> 0..m - 1]
      BY <3>1, <3>2
    <3>4. \A h, j \in lead : f[h] = f[j] => h = j
      BY <1>7, <1>11, <3>2
    <3>5. \A v \in 0..m - 1 : \E j \in lead : f[j] = v
      <4> SUFFICES ASSUME NEW v \in 0..m - 1 PROVE \E j \in lead : f[j] = v
        OBVIOUS
      <4>1. v \in 0..n - 1 /\ v < top
        BY <2>1
      <4>2. PICK j \in 1..n : r[j] = v
        BY <1>9, <4>1
      <4>3. j \in lead
        BY <1>11, <4>1, <4>2
      <4> QED  BY <3>2, <4>2, <4>3
    <3> QED  BY <3>1, <3>3, <3>4, <3>5 DEF Bijection, Injection, Surjection, IsInjective
  <2>3. Cardinality(0..m - 1) = Cardinality(lead)
    BY <1>12, <2>2, FS_Bijection DEF ExistsBijection
  <2>4. Cardinality(0..m - 1) = m
    <3>1. 0 \in Int /\ m - 1 \in Int /\ (IF 0 > m - 1 THEN 0 ELSE (m - 1) - 0 + 1) = m
      OBVIOUS
    <3> QED  BY <3>1, FS_Interval
  <2>5. lead # 1..n => top < n
    <3>1. ASSUME ~(top < n) PROVE lead = 1..n
      <4>1. \A j \in 1..n : r[j] < top
        BY <3>1
      <4> QED  BY <1>11, <4>1
    <3> QED  BY <3>1
  <2> QED  BY <2>1, <2>3, <2>4, <2>5
<1>14. \A h \in lead, j \in (1..n) \ lead : <<h, j>> \in R
  <2> SUFFICES ASSUME NEW h \in lead, NEW j \in (1..n) \ lead PROVE <<h, j>> \in R
    OBVIOUS
  <2>1. h \in 1..n /\ r[h] < top /\ ~(r[j] < top)
    BY <1>11
  <2>2. r[h] < r[j] /\ r[h] \in Int /\ r[j] \in Int
    BY <2>1
  <2>3. h # j /\ ~(r[j] < r[h])
    BY <2>2
  <2> QED  BY <1>2, <1>3, <1>6, <2>1, <2>3
<1> QED  BY <1>10, <1>12, <1>13, <1>14

(* Numbers are told apart by quotient and remainder.                       *)
LEMMA DivUnique ==
  ASSUME NEW d \in Nat \ {0}, NEW w \in Nat, NEW x \in Nat, NEW u \in 0..d - 1, NEW v \in 0..d - 1,
         w * d + u = x * d + v
  PROVE  w = x /\ u = v
<1>1. ASSUME NEW m \in Nat, NEW n \in Nat, NEW e \in 0..d - 1, NEW f \in 0..d - 1, m > n,
             m * d + e = n * d + f
      PROVE  FALSE
  <2>1. PICK k \in Nat : m = n + 1 + k
    BY <1>1
  <2>2. m * d = n * d + d + k * d
    BY <2>1
  <2>3. k * d \in Nat /\ n * d \in Nat
    BY TimesNat
  <2> QED  BY <1>1, <2>2, <2>3
<1>2. ~(w > x) /\ ~(x > w)
  BY <1>1
<1>3. w = x
  BY <1>2
<1>4. w * d \in Nat
  BY TimesNat
<1> QED  BY <1>3, <1>4

(* A number is made of its quotient and its remainder.                     *)
LEMMA DivMod ==
  ASSUME NEW i \in Nat, NEW d \in Nat \ {0}
  PROVE  i \div d \in Nat /\ i % d \in 0..d - 1 /\ i = (i \div d) * d + (i % d)
  OBVIOUS

(* A number is made of its digits in a mixed base.                         *)
LEMMA Digits ==
  ASSUME NEW i \in Nat, NEW ck \in Nat \ {0}, NEW cn \in Nat \ {0}
  PROVE  /\ i \div (ck * cn) \in Nat /\ (i % (ck * cn)) \div cn \in Nat /\ i % cn \in Nat
         /\ i = (i \div (ck * cn)) * (ck * cn) + ((i % (ck * cn)) \div cn) * cn + (i % cn)
<1>1. PICK kn \in Nat \ {0} : kn = ck * cn
  BY TimesNat
<1>2. PICK q, r \in Nat : q = i \div kn /\ r = i % kn /\ i = q * kn + r
  BY <1>1, DivMod
<1>3. PICK u \in Nat, v \in 0..cn - 1 : u = r \div cn /\ v = r % cn /\ r = u * cn + v
  BY DivMod
<1>4. PICK x \in Nat, y \in 0..cn - 1 : y = i % cn /\ i = x * cn + y
  <2>1. i \div cn \in Nat /\ i % cn \in 0..cn - 1 /\ i = (i \div cn) * cn + (i % cn)
    BY DivMod
  <2> QED  BY <2>1, Zenon
<1>5. PICK w \in Nat : w = q * ck + u
  <2>1. q * ck \in Nat
    BY TimesNat
  <2> QED  BY <2>1
<1>6. w * cn + v = x * cn + y
  <2>1. q * kn = (q * ck) * cn
    BY <1>1
  <2>2. (q * ck + u) * cn = (q * ck) * cn + u * cn
    <3>1. PICK p \in Nat : p = q * ck
      BY TimesNat
    <3>2. (p + u) * cn = p * cn + u * cn
      OBVIOUS
    <3> QED  BY <3>1, <3>2
  <2>3. (q * ck) * cn \in Int /\ u * cn \in Int
    OBVIOUS
  <2>4. w * cn = (q * ck) * cn + u * cn
    BY <1>5, <2>2
  <2>5. i = (q * ck) * cn + (u * cn + v)
    BY <1>2, <1>3, <2>1
  <2>6. PICK a, b \in Int : a = (q * ck) * cn /\ b = u * cn
    BY <2>3
  <2>7. i = a + (b + v) /\ w * cn = a + b
    BY <2>4, <2>5, <2>6
  <2>8. PICK e \in Int : e = x * cn
    OBVIOUS
  <2>9. i = e + y
    BY <1>4, <2>8
  <2>10. a + b + v = e + y
    BY <2>7, <2>9
  <2> QED  BY <2>7, <2>8, <2>10
<1>7. v = y
  BY <1>6, DivUnique
<1>8. i = q * kn + u * cn + v
  <2>1. PICK a, b \in Int : a = q * kn /\ b = u * cn
    OBVIOUS
  <2>2. i = a + r /\ r = b + v
    BY <1>2, <1>3, <2>1
  <2> QED  BY <2>1, <2>2
<1>9. u = (i % kn) \div cn /\ v = i % cn
  BY <1>2, <1>3, <1>4, <1>7
<1>10. u \in Nat /\ v \in Nat
  BY <1>3
<1>11. /\ i \div kn \in Nat /\ (i % kn) \div cn \in Nat /\ i % cn \in Nat
       /\ i = (i \div kn) * kn + ((i % kn) \div cn) * cn + (i % cn)
  BY <1>2, <1>8, <1>9, <1>10, Zenon
<1> QED  BY <1>1, <1>11, Zenon

(* The search tries no tile twice.                                         *)
LEMMA CandidatesDiffer ==
  ASSUME NEW t \in Tile, NEW i \in Nat, NEW j \in Nat, i < Searched(t), j < Searched(t),
         Candidate(t, i) = Candidate(t, j)
  PROVE  i = j
<1>1. t[1] \in Nat /\ t[2] \in Nat /\ t[3] \in Nat
  BY DEF Tile
<1>2. PICK cm, ck, cn \in Nat :
        cm = Count(t[1], 128) /\ ck = Count(t[2], 128) /\ cn = Count(t[3], 64)
  BY <1>1, CountNat
<1>3. ck # 0 /\ cn # 0
  <2>1. cm * ck * cn # 0
    BY <1>2 DEF Searched
  <2> QED  BY <2>1
<1>4. PICK q, u, v \in Nat :
        /\ q = i \div (ck * cn) /\ u = (i % (ck * cn)) \div cn /\ v = i % cn
        /\ i = q * (ck * cn) + u * cn + v
  <2>1. /\ i \div (ck * cn) \in Nat /\ (i % (ck * cn)) \div cn \in Nat /\ i % cn \in Nat
        /\ i = (i \div (ck * cn)) * (ck * cn) + ((i % (ck * cn)) \div cn) * cn + (i % cn)
    BY <1>3, Digits
  <2>2. \A q1, u1, v1 \in Nat :
          q1 = i \div (ck * cn) /\ u1 = (i % (ck * cn)) \div cn /\ v1 = i % cn =>
            i = q1 * (ck * cn) + u1 * cn + v1
    BY <2>1
  <2> QED  BY <2>1, <2>2
<1>5. PICK qj, uj, vj \in Nat :
        /\ qj = j \div (ck * cn) /\ uj = (j % (ck * cn)) \div cn /\ vj = j % cn
        /\ j = qj * (ck * cn) + uj * cn + vj
  <2>1. /\ j \div (ck * cn) \in Nat /\ (j % (ck * cn)) \div cn \in Nat /\ j % cn \in Nat
        /\ j = (j \div (ck * cn)) * (ck * cn) + ((j % (ck * cn)) \div cn) * cn + (j % cn)
    BY <1>3, Digits
  <2>2. \A q1, u1, v1 \in Nat :
          q1 = j \div (ck * cn) /\ u1 = (j % (ck * cn)) \div cn /\ v1 = j % cn =>
            j = q1 * (ck * cn) + u1 * cn + v1
    BY <2>1
  <2> QED  BY <2>1, <2>2
<1>6. PICK f, g, h \in Nat : f = First(t[1]) /\ g = First(t[2]) /\ h = First(t[3])
  BY <1>1, FirstNat
<1>7. Candidate(t, i) = <<f + 8 * q, g + 8 * u, h + 8 * v>>
  BY <1>2, <1>4, <1>6, SMTT(20) DEF Candidate
<1>8. Candidate(t, j) = <<f + 8 * qj, g + 8 * uj, h + 8 * vj>>
  BY <1>2, <1>5, <1>6, SMTT(20) DEF Candidate
<1>9. f + 8 * q = f + 8 * qj /\ g + 8 * u = g + 8 * uj /\ h + 8 * v = h + 8 * vj
  <2>1. PICK x, y, z : x = f + 8 * q /\ y = g + 8 * u /\ z = h + 8 * v
    OBVIOUS
  <2>2. PICK xj, yj, zj : xj = f + 8 * qj /\ yj = g + 8 * uj /\ zj = h + 8 * vj
    OBVIOUS
  <2>3. <<x, y, z>> = <<xj, yj, zj>>
    BY <1>7, <1>8, <2>1, <2>2
  <2>4. x = xj /\ y = yj /\ z = zj
    BY <2>3
  <2> QED  BY <2>1, <2>2, <2>4
<1>10. q = qj /\ u = uj /\ v = vj
  BY <1>9
<1> QED  BY <1>4, <1>5, <1>10

(* The number of tiles the search tries is one.                            *)
LEMMA SearchedNat == ASSUME NEW t \in Tile PROVE Searched(t) \in Nat
<1>1. t[1] \in Nat /\ t[2] \in Nat /\ t[3] \in Nat
  BY DEF Tile
<1>2. PICK cm, ck, cn \in Nat :
        cm = Count(t[1], 128) /\ ck = Count(t[2], 128) /\ cn = Count(t[3], 64)
  BY <1>1, CountNat
<1>3. cm * ck \in Nat
  BY TimesNat
<1>4. cm * ck * cn \in Nat
  BY <1>3, TimesNat
<1> QED  BY <1>2, <1>4 DEF Searched

Entry == [tile : Tile, score : Int, safe : BOOLEAN]

(* The list has the first n tiles of the search that can be laid out, each *)
(* once, and nothing else.                                                 *)
Wanted(t, double, i) == Candidate(t, i) # t /\ Placeable(Candidate(t, i), double)

Listed(list, t, double, n) ==
  /\ \A j \in 1..Len(list) :
       /\ \E i \in 0..n - 1 : list[j].tile = Candidate(t, i) /\ Wanted(t, double, i)
       /\ list[j].safe = TRUE /\ list[j].score = Worth(list[j].tile)
  /\ \A i \in 0..n - 1 : Wanted(t, double, i) =>
       \E j \in 1..Len(list) : list[j].tile = Candidate(t, i)
  /\ \A h, j \in 1..Len(list) : list[h].tile = list[j].tile => h = j

(* A tile that is not wanted is passed over.                               *)
LEMMA ListedSkip ==
  ASSUME NEW list, NEW t, NEW double, NEW n \in Nat, Listed(list, t, double, n),
         ~Wanted(t, double, n)
  PROVE  Listed(list, t, double, n + 1)
<1>1. \A i : i \in 0..(n + 1) - 1 <=> i \in 0..n - 1 \/ i = n
  OBVIOUS
<1> QED  BY <1>1 DEF Listed

(* A tile that is wanted is appended; it is not in the list yet.           *)
LEMMA ListedMore ==
  ASSUME NEW t \in Tile, NEW double, NEW n \in Nat, n < Searched(t), NEW list \in Seq(Entry),
         Listed(list, t, double, n), Wanted(t, double, n), NEW e \in Entry,
         e.tile = Candidate(t, n), e.score = Worth(e.tile), e.safe = TRUE,
         NEW more, more = Append(list, e)
  PROVE  Listed(more, t, double, n + 1)
<1>1. \A i : i \in 0..(n + 1) - 1 <=> i \in 0..n - 1 \/ i = n
  OBVIOUS
<1>2. /\ Len(more) = Len(list) + 1 /\ more[Len(list) + 1] = e
      /\ \A j \in 1..Len(list) : more[j] = list[j]
  BY Appended
<1>3. PICK len \in Nat : len = Len(list)
  OBVIOUS
<1>4. \A j : j \in 1..Len(more) <=> j \in 1..len \/ j = len + 1
  BY <1>2, <1>3
<1>5. \A j \in 1..len : more[j].tile # e.tile
  <2> SUFFICES ASSUME NEW j \in 1..len, more[j].tile = e.tile PROVE FALSE
    OBVIOUS
  <2>1. PICK i \in 0..n - 1 : list[j].tile = Candidate(t, i)
    BY <1>3 DEF Listed
  <2>2. Candidate(t, i) = Candidate(t, n)
    BY <1>2, <1>3, <2>1
  <2>3. i \in Nat /\ i < n
    OBVIOUS
  <2>4. Searched(t) \in Nat
    BY SearchedNat
  <2>5. i < Searched(t)
    BY <2>3, <2>4
  <2>6. i = n
    BY <2>2, <2>3, <2>5, CandidatesDiffer
  <2> QED  BY <2>3, <2>6
<1>6. \A j \in 1..Len(more) :
        /\ \E i \in 0..(n + 1) - 1 : more[j].tile = Candidate(t, i) /\ Wanted(t, double, i)
        /\ more[j].safe = TRUE /\ more[j].score = Worth(more[j].tile)
  <2> SUFFICES ASSUME NEW j \in 1..Len(more)
               PROVE  /\ \E i \in 0..(n + 1) - 1 :
                           more[j].tile = Candidate(t, i) /\ Wanted(t, double, i)
                      /\ more[j].safe = TRUE /\ more[j].score = Worth(more[j].tile)
    OBVIOUS
  <2>1. CASE j \in 1..len
    BY <1>1, <1>2, <1>3, <2>1 DEF Listed
  <2>2. CASE j = len + 1
    BY <1>1, <1>2, <1>3, <2>2
  <2> QED  BY <1>4, <2>1, <2>2
<1>7. \A i \in 0..(n + 1) - 1 : Wanted(t, double, i) =>
        \E j \in 1..Len(more) : more[j].tile = Candidate(t, i)
  <2> SUFFICES ASSUME NEW i \in 0..(n + 1) - 1, Wanted(t, double, i)
               PROVE  \E j \in 1..Len(more) : more[j].tile = Candidate(t, i)
    OBVIOUS
  <2>1. CASE i \in 0..n - 1
    <3>1. PICK j \in 1..len : list[j].tile = Candidate(t, i)
      BY <1>3, <2>1 DEF Listed
    <3> QED  BY <1>2, <1>3, <1>4, <3>1
  <2>2. CASE i = n
    BY <1>2, <1>3, <1>4, <2>2
  <2> QED  BY <1>1, <2>1, <2>2
<1>8. \A h, j \in 1..Len(more) : more[h].tile = more[j].tile => h = j
  <2> SUFFICES ASSUME NEW h \in 1..Len(more), NEW j \in 1..Len(more),
                      more[h].tile = more[j].tile
               PROVE  h = j
    OBVIOUS
  <2>1. CASE h \in 1..len /\ j \in 1..len
    BY <1>2, <1>3, <2>1 DEF Listed
  <2>2. CASE h = len + 1 \/ j = len + 1
    BY <1>2, <1>3, <1>4, <1>5, <2>2
  <2> QED  BY <1>4, <2>1, <2>2
<1> QED  BY <1>6, <1>7, <1>8 DEF Listed

LEMMA WorthInt == ASSUME NEW tile \in Tile PROVE Volume(tile) \in Nat /\ Worth(tile) \in Int
<1>1. tile[1] \in Nat /\ tile[2] \in Nat /\ tile[3] \in Nat
  BY DEF Tile
<1>2. tile[1] * tile[2] \in Nat
  BY <1>1, TimesNat
<1>3. Volume(tile) \in Nat
  BY <1>1, <1>2, TimesNat DEF Volume
<1> QED  BY <1>3 DEF Worth

(* The search, once it runs: the tiles before the current one are in the   *)
(* list if they are wanted.                                                *)
Settled == IF current = <<>> THEN tried ELSE tried - 1

FoundInv ==
  phase \in {"suggesting", "ranked"} =>
    /\ tried <= Searched(asked.tile)
    /\ phase = "ranked" => tried = Searched(asked.tile) /\ current = <<>>
    /\ current # <<>> => /\ tried >= 1 /\ current = Candidate(asked.tile, tried - 1)
                         /\ current # asked.tile
    /\ found \in Seq(Entry)
    /\ Listed(found, asked.tile, asked.double, Settled)

(* At the end of a layout the tile is taken into the list exactly if it    *)
(* can be laid out: it then fits in L1, and A and B are in different       *)
(* banks, so that its score is its worth.                                  *)
LEMMA TileDoneFound ==
  ASSUME NumBanks = 4, PlanInv, LayoutLive, RefuseInv, PlannedInv, FoundInv, TileDone
  PROVE  FoundInv'
<1>1. PICK t \in Tile, double \in BOOLEAN : t = asked.tile /\ double = asked.double
  BY DEF PlanInv, PlanState, TileDone
<1>2. /\ phase' = phase /\ asked' = asked /\ tried' = tried /\ current' = <<>>
      /\ phase = "suggesting" /\ current # <<>> /\ outcome # "running"
  BY DEF TileDone
<1>3. PICK n \in Nat : n = tried - 1 /\ tried = n + 1
  <2>1. tried \in Nat /\ tried >= 1
    BY <1>2 DEF FoundInv, PlanInv, PlanState
  <2> QED  BY <2>1
<1>4. /\ tried <= Searched(t) /\ current = Candidate(t, n) /\ current # t
      /\ found \in Seq(Entry) /\ Listed(found, t, double, n)
  BY <1>1, <1>2, <1>3 DEF FoundInv, Settled
<1>5. n < Searched(t) /\ current \in Tile
  BY <1>2, <1>3, <1>4, SearchedNat DEF PlanInv, PlanState
<1>6. outcome = "returned" <=> Placeable(current, double)
  BY <1>1, <1>2 DEF RefuseInv
<1>7. Wanted(t, double, n) <=> outcome = "returned"
  BY <1>4, <1>6 DEF Wanted
<1>8. CASE outcome = "returned"
  <2>1. FitsInL1
    BY LayoutFits DEF PlanInv, LayoutState
  <2>2. ~DualLoadConflict
    <3>1. fresh
      BY <1>2 DEF PlannedInv
    <3>2. DualLoadSafe
      BY DualLayout DEF PlanInv
    <3> QED  BY <1>8, <3>1, <3>2 DEF DualLoadSafe, DualLoadConflict
  <2>3. Score(current) = Worth(current)
    <3>1. Score(current) = Volume(current) - 0 - (IF Pathological(current[1]) THEN 5 ELSE 0)
      BY <2>2 DEF Score, Volume
    <3> QED  BY <1>5, <3>1, WorthInt DEF Worth
  <2>4. PICK e \in Entry : /\ e = [tile |-> current, score |-> Worth(current), safe |-> TRUE]
                           /\ e.tile = current /\ e.score = Worth(current) /\ e.safe = TRUE
    <3>1. [tile |-> current, score |-> Worth(current), safe |-> TRUE] \in Entry
      BY <1>5, WorthInt DEF Entry
    <3> QED  BY <3>1
  <2>5. found' = Append(found, e)
    <3>1. found' = Append(found, [tile |-> current, score |-> Score(current),
                                  safe |-> ~DualLoadConflict])
      BY <1>8, <2>1 DEF TileDone
    <3>2. (~DualLoadConflict) = TRUE
      BY <2>2
    <3> QED  BY <2>3, <2>4, <3>1, <3>2
  <2>6. found' \in Seq(Entry)
    BY <1>4, <2>5
  <2>7. Listed(found', t, double, n + 1)
    BY <1>4, <1>5, <1>7, <1>8, <2>4, <2>5, ListedMore
  <2> QED  BY <1>1, <1>2, <1>3, <1>4, <2>6, <2>7 DEF FoundInv, Settled
<1>9. CASE outcome # "returned"
  <2>1. found' = found
    BY <1>9 DEF TileDone
  <2>2. Listed(found, t, double, n + 1)
    BY <1>4, <1>7, <1>9, ListedSkip
  <2> QED  BY <1>1, <1>2, <1>3, <1>4, <2>1, <2>2 DEF FoundInv, Settled
<1> QED  BY <1>8, <1>9

LEMMA FoundStep ==
  ASSUME NumBanks = 4, PlanInv, LayoutLive, RefuseInv, PlannedInv, FoundInv,
         [PlanNext]_planSpecVars
  PROVE  FoundInv'
<1>1. CASE UNCHANGED <<phase, asked, tried, current, found>>
  BY <1>1 DEF FoundInv, Settled
<1>2. CASE phase' \in {"idle", "planned"}
  BY <1>2 DEF FoundInv
<1>3. CASE UNCHANGED planVars
  BY <1>1, <1>3 DEF planVars
<1>4. CASE Plan \/ Leave
  BY <1>2, <1>4 DEF Plan, Leave
<1>5. CASE AllocateGemmBuffers
  BY <1>1, <1>5 DEF AllocateGemmBuffers
<1>6. ASSUME SuggestAlternativeTiles \/ SkipAsked \/ TryTile \/ Rank
      PROVE  asked.tile \in Tile /\ asked' = asked
  BY <1>6 DEF SuggestAlternativeTiles, SkipAsked, TryTile, Rank, PlanInv, PlanState
<1>7. CASE SuggestAlternativeTiles
  <2>1. /\ phase' = "suggesting" /\ tried' = 0 /\ current' = <<>> /\ found' = <<>>
    BY <1>7 DEF SuggestAlternativeTiles
  <2>2. 0 <= Searched(asked.tile)
    BY <1>6, <1>7, SearchedNat
  <2>3. Listed(<<>>, asked.tile, asked.double, 0)
    BY DEF Listed
  <2> QED  BY <1>6, <1>7, <2>1, <2>2, <2>3 DEF FoundInv, Settled
<1>8. CASE SkipAsked
  <2>1. /\ phase' = phase /\ tried' = tried + 1 /\ current' = <<>> /\ current = <<>>
        /\ found' = found /\ phase = "suggesting"
        /\ tried < Searched(asked.tile) /\ Candidate(asked.tile, tried) = asked.tile
    BY <1>8 DEF SkipAsked
  <2>2. tried + 1 <= Searched(asked.tile) /\ tried \in Nat
    BY <1>6, <1>8, <2>1, SearchedNat DEF PlanInv, PlanState
  <2>3. found \in Seq(Entry) /\ Listed(found, asked.tile, asked.double, tried)
    BY <2>1 DEF FoundInv, Settled
  <2>4. Listed(found, asked.tile, asked.double, tried + 1)
    BY <2>1, <2>2, <2>3, ListedSkip DEF Wanted
  <2> QED  BY <1>6, <1>8, <2>1, <2>2, <2>3, <2>4 DEF FoundInv, Settled
<1>9. CASE TryTile
  <2>1. /\ phase' = phase /\ tried' = tried + 1 /\ current = <<>>
        /\ current' = Candidate(asked.tile, tried)
        /\ found' = found /\ phase = "suggesting"
        /\ tried < Searched(asked.tile) /\ Candidate(asked.tile, tried) # asked.tile
    BY <1>9 DEF TryTile, ResetAndLayout
  <2>2. tried + 1 <= Searched(asked.tile) /\ tried \in Nat /\ tried + 1 - 1 = tried
        /\ tried + 1 >= 1
    BY <1>6, <1>9, <2>1, SearchedNat DEF PlanInv, PlanState
  <2>3. found \in Seq(Entry) /\ Listed(found, asked.tile, asked.double, tried)
    BY <2>1 DEF FoundInv, Settled
  <2>4. current' # <<>>
    BY <1>6, <1>9, <2>1, <2>2, CandidateTile, TileNotEmpty
  <2>5. Settled' = tried
    BY <2>1, <2>2, <2>4 DEF Settled
  <2> QED  BY <1>6, <1>9, <2>1, <2>2, <2>3, <2>4, <2>5 DEF FoundInv
<1>10. CASE Rank
  <2>1. /\ phase' = "ranked" /\ tried' = tried /\ current' = <<>> /\ current = <<>>
        /\ found' = found /\ phase = "suggesting" /\ tried >= Searched(asked.tile)
    BY <1>10 DEF Rank
  <2>2. tried \in Nat /\ Searched(asked.tile) \in Nat /\ tried <= Searched(asked.tile)
    BY <1>6, <1>10, <2>1, SearchedNat DEF PlanInv, PlanState, FoundInv
  <2>3. tried = Searched(asked.tile)
    BY <2>1, <2>2
  <2>4. found \in Seq(Entry) /\ Listed(found, asked.tile, asked.double, tried)
    BY <2>1 DEF FoundInv, Settled
  <2> QED  BY <1>6, <1>10, <2>1, <2>2, <2>3, <2>4 DEF FoundInv, Settled
<1> QED  BY <1>3, <1>4, <1>5, <1>7, <1>8, <1>9, <1>10, TileDoneFound DEF PlanNext, planSpecVars

LEMMA FoundInit == PlanInit => FoundInv
  BY DEF PlanInit, FoundInv

(* The order in which the list is sorted.                                  *)
AheadPairs == {p \in (1..Len(found)) \X (1..Len(found)) : Ahead(p[1], p[2])}

LEMMA AheadOrder ==
  ASSUME found \in Seq(Entry)
  PROVE  /\ \A h, j \in 1..Len(found) : <<h, j>> \in AheadPairs <=> Ahead(h, j)
         /\ StrictOrder(AheadPairs, Len(found))
<1>1. \A h, j \in 1..Len(found) : <<h, j>> \in AheadPairs <=> Ahead(h, j)
  BY DEF AheadPairs
<1>2. \A j \in 1..Len(found) : found[j].score \in Int /\ j \in Int
  <2>1. \A j \in 1..Len(found) : found[j] \in Entry /\ j \in Int
    OBVIOUS
  <2>2. \A e \in Entry : e.score \in Int
    BY DEF Entry
  <2> QED  BY <2>1, <2>2
<1>3. \A i \in 1..Len(found) : ~Ahead(i, i)
  BY <1>2 DEF Ahead
<1>4. \A i, j \in 1..Len(found) : i # j => Ahead(i, j) \/ Ahead(j, i)
  BY <1>2 DEF Ahead
<1>5. \A i, j, k \in 1..Len(found) : Ahead(i, j) /\ Ahead(j, k) => Ahead(i, k)
  <2> SUFFICES ASSUME NEW i \in 1..Len(found), NEW j \in 1..Len(found),
                      NEW k \in 1..Len(found), Ahead(i, j), Ahead(j, k)
               PROVE  Ahead(i, k)
    OBVIOUS
  <2>1. PICK a, b, c \in Int : a = found[i].score /\ b = found[j].score /\ c = found[k].score
    BY <1>2
  <2> QED  BY <1>2, <2>1 DEF Ahead
<1> QED  BY <1>1, <1>3, <1>4, <1>5 DEF StrictOrder

(* AlternativesRight, of the tile and the buffering asked for.              *)
RankedWell(t, double) ==
  LET tiles == {s.tile : s \in Suggested}
      all == {Candidate(t, i) : i \in 0 .. Searched(t) - 1}
  IN  /\ tiles \subseteq {u \in all \ {t} : Placeable(u, double)}
      /\ \A s \in Suggested : s.safe
      /\ Cardinality(tiles) <= TopCount
      /\ \A u \in all \ ({t} \cup tiles) : Placeable(u, double) =>
           /\ Cardinality(tiles) = TopCount
           /\ \A s \in tiles : Worth(u) <= Worth(s)

(* The first of the sorted list are those of most worth.                   *)
LEMMA RankedRight ==
  ASSUME NEW t \in Tile, NEW double \in BOOLEAN,
         found \in Seq(Entry), Listed(found, t, double, Searched(t))
  PROVE  RankedWell(t, double)
<1> DEFINE tiles == {s.tile : s \in Suggested}
           all == {Candidate(t, i) : i \in 0 .. Searched(t) - 1}
<1>0. \A u \in all : \E i \in 0 .. Searched(t) - 1 : u = Candidate(t, i)
  OBVIOUS
<1>1. PICK n \in Nat : n = Len(found)
  OBVIOUS
<1>2. PICK R : R = AheadPairs
  OBVIOUS
<1>3. StrictOrder(R, n) /\ \A h, j \in 1..n : <<h, j>> \in R <=> Ahead(h, j)
  BY <1>1, <1>2, AheadOrder
<1>4. PICK lead : lead = Leading(R, n, TopCount)
  OBVIOUS
<1>5. /\ IsFiniteSet(lead) /\ Cardinality(lead) <= TopCount /\ Cardinality(lead) \in Nat
      /\ lead # 1..n => Cardinality(lead) = TopCount
      /\ \A h \in lead, j \in (1..n) \ lead : <<h, j>> \in R
      /\ lead \subseteq 1..n
  <2>1. TopCount \in Nat
    BY PlannerAssumption
  <2>2. lead \subseteq 1..n
    BY <1>4 DEF Leading
  <2> QED  BY <1>3, <1>4, <2>1, <2>2, LeadingCount, FS_CardinalityType
<1>6. Suggested = {found[j] : j \in lead}
  <2>1. ASSUME NEW j \in 1..n
        PROVE  {h \in 1..n : h # j /\ Ahead(h, j)} = Before(R, n, j)
    <3>1. \A h \in 1..n : h # j /\ Ahead(h, j) <=> <<h, j>> \in R
      BY <1>3 DEF StrictOrder
    <3> QED  BY <3>1 DEF Before
  <2>2. {j \in 1..n : Cardinality({h \in 1..n : h # j /\ Ahead(h, j)}) < TopCount} = lead
    BY <1>4, <2>1 DEF Leading
  <2> QED  BY <1>1, <2>2 DEF Suggested
<1>7. tiles = {found[j].tile : j \in lead}
  BY <1>6
<1>8a. \A i \in 0 .. Searched(t) - 1 : Candidate(t, i) \in all
  OBVIOUS
<1> HIDE DEF tiles, all
<1>8. \A j \in lead :
        /\ found[j].tile \in {u \in all \ {t} : Placeable(u, double)} /\ found[j].safe
  BY <1>1, <1>5, <1>8a DEF Listed, Wanted
<1>9. Cardinality(tiles) = Cardinality(lead)
  <2>1. PICK f : f = [j \in lead |-> found[j].tile]
    OBVIOUS
  <2>2. \A j \in lead : f[j] = found[j].tile /\ f[j] \in tiles
    BY <1>7, <2>1
  <2>3. f \in [lead -> tiles]
    BY <2>1, <2>2
  <2>4. \A h, j \in lead : f[h] = f[j] => h = j
    BY <1>1, <1>5, <2>2 DEF Listed
  <2>5. \A v \in tiles : \E j \in lead : f[j] = v
    BY <1>7, <2>2
  <2>6. f \in Bijection(lead, tiles)
    BY <2>3, <2>4, <2>5 DEF Bijection, Injection, Surjection, IsInjective
  <2> QED  BY <1>5, <2>6, FS_Bijection DEF ExistsBijection
<1>10. ASSUME NEW u \in all \ ({t} \cup tiles), Placeable(u, double)
       PROVE  /\ Cardinality(tiles) = TopCount
              /\ \A s \in tiles : Worth(u) <= Worth(s)
  <2>1. PICK i \in 0 .. Searched(t) - 1 : u = Candidate(t, i)
    BY <1>0, <1>10
  <2>2. PICK j \in 1..n : found[j].tile = u
    BY <1>1, <1>10, <2>1 DEF Listed, Wanted
  <2>3. j \notin lead
    BY <1>7, <1>10, <2>2
  <2>4. lead # 1..n
    BY <2>3
  <2>5. ASSUME NEW s \in tiles PROVE Worth(u) <= Worth(s)
    <3>1. PICK h \in lead : s = found[h].tile
      BY <1>7
    <3>2. Ahead(h, j)
      BY <1>3, <1>5, <2>3
    <3>3. found[h].score = Worth(s) /\ found[j].score = Worth(u)
      BY <1>1, <1>5, <2>2, <3>1 DEF Listed
    <3>4. found[h].score \in Int /\ found[j].score \in Int
      <4>1. found[h] \in Entry /\ found[j] \in Entry
        BY <1>1, <1>5
      <4> QED  BY <4>1 DEF Entry
    <3> QED  BY <3>2, <3>3, <3>4 DEF Ahead
  <2> QED  BY <1>5, <1>9, <2>4, <2>5
<1>11. /\ tiles \subseteq {u \in all \ {t} : Placeable(u, double)}
       /\ \A s \in Suggested : s.safe
       /\ Cardinality(tiles) <= TopCount
       /\ \A u \in all \ ({t} \cup tiles) : Placeable(u, double) =>
            /\ Cardinality(tiles) = TopCount
            /\ \A s \in tiles : Worth(u) <= Worth(s)
  BY <1>5, <1>6, <1>7, <1>8, <1>9, <1>10
<1> QED  BY <1>11 DEF RankedWell, tiles, all

(* With four banks of any size, the alternatives that are suggested are    *)
(* other tiles of the neighbourhood that can be laid out, A and B in       *)
(* different banks, no more than asked for; and any other such tile is     *)
(* worth no more than each of them.                                        *)
THEOREM BestAlternatives == ASSUME NumBanks = 4 PROVE PlanSpec => []AlternativesRight
<1>1. /\ PlanInv /\ LayoutLive /\ RefuseInv /\ PlannedInv /\ FoundInv /\ [PlanNext]_planSpecVars
         => LayoutLive' /\ RefuseInv' /\ PlannedInv' /\ FoundInv'
      /\ PlanInit => LayoutLive
  BY LayoutLivePlan, RefuseStep, PlannedStep, FoundStep DEF PlanInv, PlanInit, Init, LayoutLive
<1>2. PlanInv /\ FoundInv => AlternativesRight
  <2> SUFFICES ASSUME PlanInv, FoundInv, phase = "ranked" PROVE AlternativesRight
    BY DEF AlternativesRight
  <2>1. PICK t \in Tile, double \in BOOLEAN : t = asked.tile /\ double = asked.double
    BY DEF PlanInv, PlanState
  <2>2. found \in Seq(Entry) /\ Listed(found, t, double, Searched(t))
    BY <2>1 DEF FoundInv, Settled
  <2>3. RankedWell(t, double)
    BY <2>2, RankedRight
  <2>4. RankedWell(asked.tile, asked.double)
    BY <2>1, <2>3, Zenon
  <2> QED  BY <2>4 DEF RankedWell, AlternativesRight
<1> QED  BY <1>1, <1>2, RefuseInit, PlannedInit, FoundInit, PlanAlways, PTL DEF PlanSpec
=============================================================================
