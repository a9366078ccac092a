---------------------------- MODULE BankAllocator ----------------------------
(***************************************************************************)
(* npu_control_plane/compiler/bank_allocator.py: the allocator of buffers  *)
(* in the four banks of the data memory of a compute tile.  Each bank is   *)
(* filled from its bottom; nothing is freed but by reset().  layout_gemm   *)
(* is a sequence of allocations, of which a later one may fail.            *)
(***************************************************************************)
EXTENDS Integers, Sequences, FiniteSets, FiniteSetsExt

CONSTANTS
  NumBanks, BankBytes, L1Bytes,
  Tiles,        \* the <<m_tile, k_tile, n_tile>> given to layout_gemm
  InBytes, OutBytes,  \* dtype_in_bytes, dtype_out_bytes
  StackBytes,
  Alignment,    \* the default alignment of allocate
  Direct,       \* direct calls of allocate: [class, size, align]
  MaxCalls      \* bound: calls between two resets

Bank  == 0 .. NumBanks - 1
Class == {"A", "B", "C", "A2", "B2", "stack"}
Request == [class : Class, size : Nat, align : Nat \ {0}]

ASSUME BankAssumption ==
  /\ NumBanks \in Nat /\ NumBanks >= 4
  /\ BankBytes \in Nat \ {0} /\ L1Bytes \in Nat /\ NumBanks * BankBytes <= L1Bytes
  /\ InBytes \in Nat /\ OutBytes \in Nat /\ StackBytes \in Nat
  /\ Alignment \in Nat \ {0}
  /\ Tiles \subseteq Nat \X Nat \X Nat
  /\ Direct \subseteq Request
  /\ MaxCalls \in Nat

VARIABLES
  bank_next,  \* bank_next[b]: the first free byte of bank b
  live,       \* the placements made since the last reset
  layout,     \* the placements of the layout_gemm call, in order
  todo,       \* the allocations layout_gemm has still to make
  missed,     \* the classes of its allocations that have failed
  outcome,    \* layout_gemm: not called, running, returned, MemoryError
  fresh,      \* history: the layout_gemm call followed a reset
  calls

vars == <<bank_next, live, layout, todo, missed, outcome, fresh, calls>>

-----------------------------------------------------------------------------
(* allocate                                                                *)

BugSizeAsGiven(size, align) == size
AlignUp(size, align) == ((size + align - 1) \div align) * align

BugShareThree(class) ==
  CASE class = "A" -> 0 [] class = "B" -> 1 [] class = "C" -> 2 [] OTHER -> 3
PreferredBank(class) ==
  CASE class = "A"  -> 0 [] class = "B"  -> 1 [] class = "C"     -> 2
    [] class = "A2" -> 3 [] class = "B2" -> 0 [] class = "stack" -> 3

BugRoomIfStarted(next, b, size) == next[b] <= BankBytes
HasRoom(next, b, size) == next[b] + size <= BankBytes

(* The bank of a buffer of the class: the preferred one, or else, of those *)
(* with room, the one used least, the first of them if there are several.  *)
ChosenBanks(next, class, size) ==
  LET roomy == {b \in Bank : HasRoom(next, b, size)}
  IN  IF PreferredBank(class) \in roomy
      THEN {PreferredBank(class)}
      ELSE {b \in roomy : \A c \in roomy :
              next[b] < next[c] \/ (next[b] = next[c] /\ b <= c)}

Placement(req, b) ==
  [class |-> req.class, bank |-> b, offset |-> bank_next[b],
   size |-> AlignUp(req.size, req.align), alignment |-> req.align]
EndOffset(pl) == pl.offset + pl.size

BugNextFree(offset, size) == offset
NextFree(offset, size)    == offset + size

(* What allocate changes when it places the buffer in bank b.              *)
Allocate(req, b) ==
  /\ b \in ChosenBanks(bank_next, req.class, AlignUp(req.size, req.align))
  /\ bank_next' = [bank_next EXCEPT ![b] = NextFree(@, AlignUp(req.size, req.align))]
  /\ live' = live \cup {Placement(req, b)}

OutOfMemory(req) ==
  ChosenBanks(bank_next, req.class, AlignUp(req.size, req.align)) = {}

-----------------------------------------------------------------------------
Req(class, size) == [class |-> class, size |-> size, align |-> Alignment]

(* The allocations of layout_gemm, in their order.                         *)
Requests(tile, double_buffered) ==
  LET a == tile[1] * tile[2] * InBytes
      b == tile[2] * tile[3] * InBytes
      c == tile[1] * tile[3] * OutBytes
  IN  <<Req("A", a), Req("B", b), Req("C", c)>>
        \o (IF double_buffered THEN <<Req("A2", a), Req("B2", b)>> ELSE <<>>)
        \o <<Req("stack", StackBytes)>>

Init ==
  /\ bank_next = [b \in Bank |-> 0]
  /\ live = {}
  /\ layout = <<>> /\ todo = <<>> /\ missed = {}
  /\ outcome = "none"
  /\ fresh = FALSE
  /\ calls = 0

(* A call of allocate by a user of the class.                              *)
AllocateCall ==
  /\ outcome # "running"
  /\ calls < MaxCalls
  /\ \E req \in Direct :
       \/ \E b \in Bank : Allocate(req, b)
       \/ OutOfMemory(req) /\ UNCHANGED <<bank_next, live>>
  /\ calls' = calls + 1
  /\ UNCHANGED <<layout, todo, missed, outcome, fresh>>

(* The beginning of layout_gemm on the banks as they are.                  *)
StartLayout(tile, double_buffered) ==
  /\ layout' = <<>>
  /\ todo' = Requests(tile, double_buffered)
  /\ missed' = {}
  /\ outcome' = "running"

LayoutGemm ==
  /\ outcome # "running"
  /\ calls < MaxCalls
  /\ \E tile \in Tiles, double_buffered \in BOOLEAN : StartLayout(tile, double_buffered)
  /\ fresh' = FALSE
  /\ calls' = calls + 1
  /\ UNCHANGED <<bank_next, live>>

(* optimize_gemm_layout, and each candidate of suggest_alternative_tiles:  *)
(* reset(), then layout_gemm.                                              *)
OptimizeGemmLayout ==
  /\ outcome # "running"
  /\ \E tile \in Tiles, double_buffered \in BOOLEAN : StartLayout(tile, double_buffered)
  /\ bank_next' = [b \in Bank |-> 0]
  /\ live' = {}
  /\ fresh' = TRUE
  /\ calls' = 1

(* The outcome of layout_gemm once the classes in m could not be placed,   *)
(* with rest still to be allocated: A2 and B2 are judged together and the  *)
(* stack is left out where there is no room for it.                        *)
BugJudgeSecond(m, rest) ==
  IF m \cap {"A", "B", "C"} # {} \/ (m \cap {"B2"} # {} /\ Len(rest) <= 1)
  THEN "raised"
  ELSE IF rest = <<>> THEN "returned" ELSE "running"

Outcome(m, rest) ==
  IF m \cap {"A", "B", "C"} # {} \/ (m \cap {"A2", "B2"} # {} /\ Len(rest) <= 1)
  THEN "raised"
  ELSE IF rest = <<>> THEN "returned" ELSE "running"

(* The next allocation of layout_gemm.                                     *)
LayoutStep ==
  /\ outcome = "running"
  /\ LET req == Head(todo)
     IN  /\ \/ \E b \in Bank :
                  /\ Allocate(req, b)
                  /\ layout' = Append(layout, Placement(req, b))
                  /\ UNCHANGED missed
            \/ /\ OutOfMemory(req)
               /\ missed' = missed \cup {req.class}
               /\ UNCHANGED <<bank_next, live, layout>>
         /\ todo' = Tail(todo)
         /\ outcome' = Outcome(missed', Tail(todo))
  /\ UNCHANGED <<fresh, calls>>

Next == AllocateCall \/ LayoutGemm \/ OptimizeGemmLayout \/ LayoutStep

Spec == Init /\ [][Next]_vars

-----------------------------------------------------------------------------
(* BankLayout.bank_usage and fits_in_l1                                    *)
BankUsage(b) ==
  Max({0} \cup {EndOffset(layout[i]) : i \in {j \in 1..Len(layout) : layout[j].bank = b}})
BytesBelow[n \in 0..NumBanks] ==
  IF n = 0 THEN 0 ELSE BytesBelow[n - 1] + BankUsage(n - 1)
TotalBytes == BytesBelow[NumBanks]
FitsInL1   == TotalBytes <= L1Bytes /\ \A b \in Bank : BankUsage(b) <= BankBytes

PlacementType ==
  [class : Class, bank : Bank, offset : Nat, size : Nat, alignment : Nat \ {0}]

TypeOK ==
  /\ bank_next \in [Bank -> 0..BankBytes]
  /\ live \subseteq PlacementType
  /\ layout \in Seq(PlacementType)
  /\ todo \in Seq(Request)
  /\ missed \subseteq Class
  /\ outcome \in {"none", "running", "returned", "raised"}
  /\ fresh \in BOOLEAN
  /\ calls \in Nat

Overlap(p, q) ==
  p.bank = q.bank /\ p.offset < EndOffset(q) /\ q.offset < EndOffset(p)

(* Two buffers allocated since the last reset share no byte, whatever      *)
(* calls were made, whichever of them failed.                              *)
NoOverlap == \A p, q \in live : Overlap(p, q) => p = q

(* Every buffer lies within its bank.                                      *)
WithinBank == \A p \in live : EndOffset(p) <= BankBytes

(* A layout that layout_gemm returns fits in L1, even one that was made on *)
(* top of earlier allocations.                                             *)
ReturnedFits == outcome = "returned" => FitsInL1

BanksOf(class) == {layout[i].bank : i \in {j \in 1..Len(layout) : layout[j].class = class}}

(* A layout made after a reset lets the kernel load A and B in one cycle,  *)
(* from either pair of buffers: A and B are in different banks, and so are *)
(* the second A and the second B, wherever there was room for these.       *)
DualLoadSafe ==
  outcome = "returned" /\ fresh =>
    BanksOf("A") \cap BanksOf("B") = {} /\ BanksOf("A2") \cap BanksOf("B2") = {}

(* Every layout that is returned has its operand buffers: one of each of   *)
(* A, B and C, and both of the second pair or neither of them.             *)
OperandsPlaced ==
  outcome = "returned" =>
    /\ \A class \in {"A", "B", "C"} : Cardinality(BanksOf(class)) = 1
    /\ Cardinality(BanksOf("A2")) = Cardinality(BanksOf("B2"))

(* Address alignment: a buffer begins at a multiple of the alignment it    *)
(* was allocated with, provided every buffer below it in the bank was      *)
(* allocated with a multiple of that alignment: allocate rounds up the     *)
(* sizes and takes the offsets as they come.                               *)
OffsetsAligned ==
  \A p \in live :
    (\A q \in live : q.bank = p.bank /\ q.offset < p.offset =>
        q.alignment % p.alignment = 0)
    => p.offset % p.alignment = 0
=============================================================================
