----------------------------- MODULE TilePlanner -----------------------------
(***************************************************************************)
(* The search for the tile of a GEMM in npu_control_plane/compiler: the    *)
(* ranking of gemm_optimizer.py, the layout and the alternatives of        *)
(* bank_allocator.py, and the second allocator, of machine_model.py.  All  *)
(* layouts are made by one BankAllocator, step by step, as callers of its  *)
(* other methods find it.                                                  *)
(***************************************************************************)
EXTENDS BankAllocator

CONSTANTS
  Problems,     \* the <<M, K, N>> given to find_optimal_tile
  Asked,        \* other tiles given to optimize_gemm_layout
  MaxCores,     \* max_tiles
  UKernelTime, ByteTime, StartupTime,  \* of the estimate, in one unit of time
  TopCount      \* the number of alternatives returned

ASSUME PlannerAssumption ==
  /\ Problems \subseteq Nat \X Nat \X Nat /\ Asked \subseteq Nat \X Nat \X Nat
  /\ {MaxCores, UKernelTime, ByteTime, StartupTime, TopCount} \subseteq Nat

VARIABLES
  phase,    \* idle, planned, suggesting, ranked
  problem,  \* the problem whose best tile was asked for; <<>>: another tile
  asked,    \* the tile and the buffering asked for
  tried,    \* alternatives begun so far
  current,  \* the tile that is being laid out
  found,    \* the alternatives that could be laid out, in the order of the search
  model     \* what allocate_gemm_buffers returned for the tile asked for

bankVars == vars
planVars == <<phase, problem, asked, tried, current, found, model>>
planSpecVars == <<bankVars, planVars>>

NotAsked == [tile |-> <<>>, double |-> FALSE]
NoModel  == [class \in {} |-> <<>>]

Operands == {"A", "B", "C"}
Size(tile, class) ==
  CASE class = "A" -> tile[1] * tile[2] * InBytes
    [] class = "B" -> tile[2] * tile[3] * InBytes
    [] class = "C" -> tile[1] * tile[3] * OutBytes

-----------------------------------------------------------------------------
(* gemm_optimizer.py: the tiles that divide the problem and pass the test  *)
(* of the size, ranked by the estimated speed.                             *)

BugNoB(tile)  == 2 * (Size(tile, "A") + Size(tile, "C"))
L1Usage(tile) == 2 * (Size(tile, "A") + Size(tile, "B") + Size(tile, "C"))

Factors(d, cap) == {x \in 1 .. Min({cap, d}) : x % 8 = 0 /\ d % x = 0}
FittingTiles(p) ==
  {tile \in Factors(p[1], 256) \X Factors(p[2], 128) \X Factors(p[3], 128) :
     L1Usage(tile) <= L1Bytes}

UKernels(tile) == (tile[1] \div 8) * (tile[3] \div 8)
StepTime(tile) ==
  Max({UKernels(tile) * UKernelTime, (Size(tile, "A") + Size(tile, "B")) * ByteTime})
TotalTime(p, tile) == StepTime(tile) * (p[2] \div tile[2]) + StartupTime
CoresUsed(p, tile) == Min({(p[1] \div tile[1]) * (p[3] \div tile[3]), MaxCores})

Faster(p, t, u) ==
  UKernels(t) * CoresUsed(p, t) * TotalTime(p, u)
    > UKernels(u) * CoresUsed(p, u) * TotalTime(p, t)

(* The tiles that may be first: which of equals is, rounding decides.      *)
BestTiles ==
  UNION {LET fitting == FittingTiles(p)
         IN  {<<p, t>> : t \in {t \in fitting : \A u \in fitting : ~Faster(p, u, t)}} :
           p \in Problems}

(* analyze_bank_conflicts: a tile whose A and B do not fit in the banks.   *)
BanksNeeded(bytes) == (bytes + BankBytes - 1) \div BankBytes
ShareBanks(tile) ==
  BanksNeeded(Size(tile, "A")) + BanksNeeded(Size(tile, "B")) > NumBanks

-----------------------------------------------------------------------------
(* machine_model.py: an allocator of its own, for A, B and C.              *)
LeastUsed(banks) ==
  CHOOSE b \in Bank : \A c \in Bank :
    banks[b] < banks[c] \/ (banks[b] = banks[c] /\ b <= c)

BugFirstFit(banks, size, preferred) ==
  CHOOSE b \in Bank : HasRoom(banks, b, size) \/ b = NumBanks - 1
BankFor(banks, size, preferred) ==
  IF HasRoom(banks, preferred, size) THEN preferred ELSE LeastUsed(banks)

AllocateBuffer(m, tile, class) ==
  LET size == Size(tile, class)
      b == BankFor(m.banks, size, PreferredBank(class))
  IN  IF HasRoom(m.banks, b, size)
      THEN [banks |-> [m.banks EXCEPT ![b] = @ + size],
            at    |-> [m.at EXCEPT ![class] = <<b, m.banks[b]>>]]
      ELSE m

(* A function of the tile: it begins with banks of its own, emptied.       *)
EmptyModel == [banks |-> [b \in Bank |-> 0], at |-> [class \in Operands |-> <<>>]]
GemmBuffers(tile) ==
  LET a == AllocateBuffer(EmptyModel, tile, "A")
      b == AllocateBuffer(a, tile, "B")
  IN  AllocateBuffer(b, tile, "C").at

-----------------------------------------------------------------------------
(* bank_allocator.py: suggest_alternative_tiles                            *)
BugKeepBanks(next) == next
EmptyBanks(next) == [b \in Bank |-> 0]

First(x) == Max({8, x - 16})
Count(x, cap) == Max({0, (Min({cap, x + 24}) - First(x) + 7) \div 8})
Searched(t) == Count(t[1], 128) * Count(t[2], 128) * Count(t[3], 64)
Candidate(t, i) ==
  LET kn == Count(t[2], 128) * Count(t[3], 64)
  IN  <<First(t[1]) + 8 * (i \div kn),
        First(t[2]) + 8 * ((i % kn) \div Count(t[3], 64)),
        First(t[3]) + 8 * (i % Count(t[3], 64))>>

Pathological(rows) == (rows * InBytes) % (NumBanks * 4) = 0
DualLoadConflict == BanksOf("A") \cap BanksOf("B") # {}
Score(tile) ==
  tile[1] * tile[2] * tile[3]
    - (IF DualLoadConflict THEN 10 ELSE 0) - (IF Pathological(tile[1]) THEN 5 ELSE 0)

BugSmallestFirst(i, j) == found[i].score < found[j].score
Ahead(i, j) ==
  found[i].score > found[j].score \/ (found[i].score = found[j].score /\ i < j)

(* The alternatives returned: the first ten of the sorted list.            *)
Suggested ==
  {found[i] : i \in {j \in 1..Len(found) :
                       Cardinality({h \in 1..Len(found) : h # j /\ Ahead(h, j)}) < TopCount}}

-----------------------------------------------------------------------------
PlanInit ==
  /\ Init
  /\ phase = "idle" /\ problem = <<>> /\ asked = NotAsked /\ tried = 0
  /\ current = <<>> /\ found = <<>> /\ model = NoModel

ResetAndLayout(tile, double) ==
  /\ outcome # "running"
  /\ StartLayout(tile, double)
  /\ bank_next' = EmptyBanks(bank_next)
  /\ live' = {}
  /\ fresh' = TRUE
  /\ calls' = 1
  /\ current' = tile

(* optimize_gemm_layout, for the best tile of a problem or another tile.   *)
Plan ==
  /\ phase = "idle"
  /\ \E of \in BestTiles \cup ({<<>>} \X Asked), double \in BOOLEAN :
       /\ ResetAndLayout(of[2], double)
       /\ problem' = of[1]
       /\ asked' = [tile |-> of[2], double |-> double]
  /\ phase' = "planned"
  /\ UNCHANGED <<tried, found, model>>

AllocateGemmBuffers ==
  /\ phase = "planned" /\ outcome # "running" /\ model = NoModel
  /\ model' = GemmBuffers(asked.tile)
  /\ UNCHANGED <<bankVars, phase, problem, asked, tried, current, found>>

SuggestAlternativeTiles ==
  /\ phase = "planned" /\ outcome # "running" /\ model # NoModel
  /\ phase' = "suggesting"
  /\ tried' = 0 /\ current' = <<>> /\ found' = <<>>
  /\ UNCHANGED <<bankVars, problem, asked, model>>

(* The next round of the loop: the tile asked for is passed over.          *)
SkipAsked ==
  /\ phase = "suggesting" /\ current = <<>>
  /\ tried < Searched(asked.tile) /\ Candidate(asked.tile, tried) = asked.tile
  /\ tried' = tried + 1
  /\ UNCHANGED <<bankVars, phase, problem, asked, current, found, model>>

TryTile ==
  /\ phase = "suggesting" /\ current = <<>>
  /\ tried < Searched(asked.tile) /\ Candidate(asked.tile, tried) # asked.tile
  /\ ResetAndLayout(Candidate(asked.tile, tried), asked.double)
  /\ tried' = tried + 1
  /\ UNCHANGED <<phase, problem, asked, found, model>>

TileDone ==
  /\ phase = "suggesting" /\ current # <<>> /\ outcome # "running"
  /\ found' = IF outcome = "returned" /\ FitsInL1
              THEN Append(found, [tile |-> current, score |-> Score(current),
                                  safe |-> ~DualLoadConflict])
              ELSE found
  /\ current' = <<>>
  /\ UNCHANGED <<bankVars, phase, problem, asked, tried, model>>

Rank ==
  /\ phase = "suggesting" /\ current = <<>> /\ tried >= Searched(asked.tile)
  /\ phase' = "ranked"
  /\ UNCHANGED <<bankVars, problem, asked, tried, current, found, model>>

(* The caller drops what it was told and goes on with the allocator.       *)
Leave ==
  /\ phase \in {"planned", "ranked"} /\ outcome # "running"
  /\ phase' = "idle" /\ problem' = <<>> /\ asked' = NotAsked /\ tried' = 0
  /\ current' = <<>> /\ found' = <<>> /\ model' = NoModel
  /\ UNCHANGED bankVars

PlanNext ==
  \/ phase = "idle" /\ (AllocateCall \/ LayoutGemm) /\ UNCHANGED planVars
  \/ LayoutStep /\ UNCHANGED planVars
  \/ Plan \/ AllocateGemmBuffers \/ SuggestAlternativeTiles
  \/ SkipAsked \/ TryTile \/ TileDone \/ Rank \/ Leave

PlanSpec == PlanInit /\ [][PlanNext]_planSpecVars

-----------------------------------------------------------------------------
Rounded(tile, class) == AlignUp(Size(tile, class), Alignment)

(* What there has to be room for: each operand in a bank, and the second B *)
(* beside an operand of the first pair, or beside C.                       *)
Placeable(tile, double) ==
  /\ \A class \in Operands : Rounded(tile, class) <= BankBytes
  /\ double => \E class \in Operands : Rounded(tile, class) + Rounded(tile, "B") <= BankBytes

(* A layout on empty banks is refused exactly when an operand is larger    *)
(* than a bank or the second B fits with none of A, B and C: the order in  *)
(* which layout_gemm tries the banks costs no other tile.                  *)
RefusedOnlyWhenFull ==
  current # <<>> /\ outcome # "running" =>
      (outcome = "returned" <=> Placeable(current, asked.double))

(* The two allocators, of bank_allocator.py and of machine_model.py, agree *)
(* on a single-buffered tile: both find room or neither does, and A, B and *)
(* C get the same banks and offsets, though only the first rounds up the   *)
(* sizes.  analyze_bank_conflicts is of one mind with them: it finds no    *)
(* shared banks in a tile they can place.                                  *)
AllocatorsAgree ==
  model # NoModel /\ phase = "planned" /\ ~asked.double =>
    /\ outcome = "returned" <=> \A class \in Operands : model[class] # <<>>
    /\ \A i \in 1..Len(layout) : layout[i].class \in Operands =>
         model[layout[i].class] = <<layout[i].bank, layout[i].offset>>
    /\ outcome = "returned" => ~ShareBanks(asked.tile)

(* The optimizer adds up bytes and knows nothing of banks.  Of the tiles   *)
(* that find_optimal_tile puts first, the allocator refuses none but those *)
(* of which one operand, and only one, is larger than a bank, and, with    *)
(* double buffers, those whose B is larger than half a bank.               *)
BestPlaced ==
  phase = "planned" /\ problem # <<>> /\ outcome = "raised" =>
    LET large == {class \in Operands : Size(asked.tile, class) > BankBytes}
    IN  \/ \E class \in Operands : large = {class}
        \/ large = {} /\ asked.double /\ 2 * Size(asked.tile, "B") > BankBytes

Volume(tile) == tile[1] * tile[2] * tile[3]
Worth(tile)  == Volume(tile) - (IF Pathological(tile[1]) THEN 5 ELSE 0)

(* The alternatives are other tiles that can be laid out, with A and B in  *)
(* different banks; any other tile of the neighbourhood that can be laid   *)
(* out is worth no more than each of ten that are suggested.               *)
AlternativesRight ==
  phase = "ranked" =>
    LET tiles == {s.tile : s \in Suggested}
        all == {Candidate(asked.tile, i) : i \in 0 .. Searched(asked.tile) - 1}
    IN  /\ tiles \subseteq {t \in all \ {asked.tile} : Placeable(t, asked.double)}
        /\ \A s \in Suggested : s.safe
        /\ Cardinality(tiles) <= TopCount
        /\ \A t \in all \ ({asked.tile} \cup tiles) : Placeable(t, asked.double) =>
             /\ Cardinality(tiles) = TopCount
             /\ \A s \in tiles : Worth(t) <= Worth(s)
=============================================================================
