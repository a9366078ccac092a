--------------------------- MODULE ModuloScheduler ---------------------------
(***************************************************************************)
(* npu_control_plane/compiler/scheduler.py: the software pipelining of a   *)
(* loop body for the seven-way VLIW core.  schedule_sms tries increasing   *)
(* initiation intervals; for each it computes the windows of the nodes by  *)
(* passes up to a fixed point and then places the nodes one by one, each   *)
(* in the first cycle of its window that has a free unit and respects the  *)
(* dependences.  A node is known by its index in the body.                 *)
(***************************************************************************)
EXTENDS Integers, Sequences, FiniteSets, Functions, FiniteSetsExt

CONSTANTS
  Reg,
  Bodies,       \* the loop bodies given to schedule_sms, without nops
  Interleaves,  \* values of interleave
  Targets,      \* values of target_ii; 0 stands for None
  MaxII         \* max_ii

Slot == {"LOAD_0", "LOAD_1", "STORE", "VECTOR", "SCALAR", "MOVE_0", "MOVE_1"}
Load == {"LOAD_0", "LOAD_1"}
Instr == [slot : Slot, latency : Nat, reads : SUBSET Reg, writes : SUBSET Reg]

ASSUME SchedulerAssumption ==
  /\ Bodies \subseteq Seq(Instr)
  /\ Interleaves \subseteq Nat \ {0}
  /\ Targets \subseteq Nat
  /\ MaxII \in Nat

VARIABLES
  body,        \* the instructions of the loop
  edges,       \* the dependence graph that is built of them
  interleave,
  ii,          \* the initiation interval that is tried
  phase,       \* what schedule_sms is doing
  asap, alap, height,
  cycle,       \* cycle[n]: the cycle of node n, -1 while it is not placed
  slot,        \* slot[n]: the unit of node n, reassigned by _find_slot
  trial        \* cycles of the window of the current node that have failed

vars == <<body, edges, interleave, ii, phase, asap, alap, height, cycle, slot, trial>>

Node == 1..Len(body)

-----------------------------------------------------------------------------
(* The instructions of the GEMM loop.  A register is a name and the place  *)
(* ki of the micro kernel, but for the accumulator c.                      *)

I(s, lat, reads, writes) == [slot |-> s, latency |-> lat, reads |-> reads, writes |-> writes]

GemmInnerLoop(c, ki) ==
  LET va == <<"va", ki>>  vb == <<"vb", ki>>  va_acc == <<"va_acc", ki>>  vb_tr == <<"vb_tr", ki>>
  IN  <<I("LOAD_0", 7, {}, {va}), I("LOAD_1", 7, {}, {vb}), I("VECTOR", 2, {va}, {va_acc}),
        I("VECTOR", 4, {vb}, {vb_tr}), I("VECTOR", 8, {va_acc, vb_tr, c}, {c})>>

GemmStore(c, ki) ==
  <<I("VECTOR", 2, {c}, {<<"packed", ki>>}), I("STORE", 4, {<<"packed", ki>>}, {})>>

-----------------------------------------------------------------------------
(* DepGraphBuilder.build                                                   *)

Edge(i, j, lat, dist, type, r) ==
  [src |-> i, dst |-> j, latency |-> lat, distance |-> dist, type |-> type, reg |-> r]

Pairs(b)   == {p \in (1..Len(b)) \X (1..Len(b)) : p[1] # p[2]}
Forward(b) == {p \in Pairs(b) : p[1] < p[2]}

RawEdges(b) == UNION {{Edge(p[1], p[2], b[p[1]].latency, IF p[2] <= p[1] THEN 1 ELSE 0, "RAW", r) :
                         r \in b[p[1]].writes \cap b[p[2]].reads} : p \in Pairs(b)}
WawEdges(b) == UNION {{Edge(p[1], p[2], 0, 0, "WAW", r) :
                         r \in b[p[1]].writes \cap b[p[2]].writes} : p \in Forward(b)}
WarEdges(b) == UNION {{Edge(p[1], p[2], 0, 0, "WAR", r) :
                         r \in b[p[1]].reads \cap b[p[2]].writes} : p \in Forward(b)}
Edges(b)    == RawEdges(b) \cup WawEdges(b) \cup WarEdges(b)

In(n)  == {e \in edges : e.dst = n}
Out(n) == {e \in edges : e.src = n}

(* The successors of a node include the virtual sink if there is no other. *)
SuccessorCount(n) == Max({1, Cardinality(Out(n))})

-----------------------------------------------------------------------------
(* compute_res_mii, compute_rec_mii and the first II of schedule_sms       *)
CeilDiv(m, n) == (m + n - 1) \div n

Using(b, slots) == Cardinality({n \in 1..Len(b) : b[n].slot \in slots})

ResMII(b) == Max({1, CeilDiv(Using(b, Load), 2), Using(b, {"STORE"}), Using(b, {"VECTOR"}),
                  Using(b, {"SCALAR", "MOVE_0", "MOVE_1"})})
RecMII(b) ==
  Max({1} \cup {CeilDiv(e.latency, e.distance) : e \in {d \in Edges(b) : d.distance > 0}})
FirstII(b, il, target) == Max({ResMII(b), CeilDiv(RecMII(b), il), target})

-----------------------------------------------------------------------------
Init ==
  /\ body = <<>> /\ edges = {} /\ interleave = 1 /\ ii = 1
  /\ phase = "idle"
  /\ asap = <<>> /\ alap = <<>> /\ height = <<>>
  /\ cycle = <<>> /\ slot = <<>> /\ trial = 0

Idle == phase \in {"idle", "pipelined", "serial"}

(* The call of schedule_sms; an empty body has an empty schedule.          *)
ScheduleSms(b, il, target) ==
  LET first == FirstII(b, il, target)
  IN  /\ Idle
      /\ body' = b
      /\ edges' = Edges(b)
      /\ interleave' = il
      /\ asap' = [n \in 1..Len(b) |-> -1]
      /\ alap' = [n \in 1..Len(b) |-> -1]
      /\ height' = [n \in 1..Len(b) |-> 0]
      /\ cycle' = [n \in 1..Len(b) |-> -1]
      /\ slot' = [n \in 1..Len(b) |-> b[n].slot]
      /\ trial' = 0
      /\ IF b # <<>> /\ first \in 1..MaxII
         THEN ii' = first /\ phase' = "asap"
         ELSE ii' = 1 /\ phase' = IF b = <<>> THEN "pipelined" ELSE "fallback"

(* _compute_asap_alap.  The passes over the nodes are taken in parallel:   *)
(* the fixed point does not depend on the order in which nodes are visited.*)
EarliestAt(i, n) ==
  Max({0} \cup {asap[e.src] + e.latency - e.distance * i :
                  e \in {d \in In(n) : asap[d.src] >= 0}})
Earliest(n) == EarliestAt(ii, n)

BugAtLeast(n) == Earliest(n) >= asap[n]
Later(n)      == Earliest(n) > asap[n]

BugLastAsap == asap[Len(body)]
MaxAsap     == Max({asap[n] : n \in Node})

AsapPass ==
  /\ phase = "asap"
  /\ IF \E n \in Node : Later(n)
     THEN /\ asap' = [n \in Node |-> Max({asap[n], Earliest(n)})]
          /\ UNCHANGED <<phase, alap>>
     ELSE /\ alap' = [n \in Node |-> MaxAsap]
          /\ phase' = "alap"
          /\ UNCHANGED asap
  /\ UNCHANGED <<body, edges, interleave, ii, height, cycle, slot, trial>>

Latest(n) ==
  Min({alap[n]} \cup {alap[e.dst] - e.latency + e.distance * ii :
                        e \in {d \in Out(n) : alap[d.dst] >= 0}})

AlapPass ==
  /\ phase = "alap"
  /\ IF \E n \in Node : Latest(n) < alap[n]
     THEN /\ alap' = [n \in Node |-> Latest(n)]
          /\ UNCHANGED <<phase, height>>
     ELSE /\ height' = [n \in Node |-> 0]
          /\ phase' = "height"
          /\ UNCHANGED alap
  /\ UNCHANGED <<body, edges, interleave, ii, asap, cycle, slot, trial>>

Raised(n) == Max({height[n]} \cup {height[e.src] + 1 : e \in In(n)})

HeightPass ==
  /\ phase = "height"
  /\ IF \E n \in Node : Raised(n) > height[n]
     THEN /\ height' = [n \in Node |-> Raised(n)]
          /\ UNCHANGED phase
     ELSE /\ phase' = "place"
          /\ UNCHANGED height
  /\ UNCHANGED <<body, edges, interleave, ii, asap, alap, cycle, slot, trial>>

-----------------------------------------------------------------------------
(* The placement of the nodes.                                             *)
Placed   == {n \in Node : cycle[n] >= 0}
Unplaced == Node \ Placed

(* _node_priority: m is placed before n.  The sort is stable.              *)
Before(m, n) ==
  LET key(k) == <<-height[k], alap[k] - asap[k], -SuccessorCount(k)>>
  IN  \/ key(m)[1] < key(n)[1]
      \/ key(m)[1] = key(n)[1] /\ key(m)[2] < key(n)[2]
      \/ key(m)[1] = key(n)[1] /\ key(m)[2] = key(n)[2] /\ key(m)[3] < key(n)[3]
      \/ key(m) = key(n) /\ m < n

IsNext(n) == n \in Unplaced /\ \A m \in Unplaced \ {n} : Before(n, m)

(* _get_cycle_range                                                        *)
EStart(n) == Max({0, asap[n]})
LStart(n) == Min({IF alap[n] < 0 THEN ii - 1 ELSE alap[n], ii * 2 - 1})

(* _find_slot                                                              *)
At(c)       == {m \in Placed : cycle[m] % ii = c % ii}
Taken(s, c) == \E m \in At(c) : slot[m] = s

BugLoadsFree(n, c) == slot[n] \in Load \/ ~Taken(slot[n], c)
UnitFree(n, c) ==
  IF slot[n] \in Load THEN ~Taken("LOAD_0", c) \/ ~Taken("LOAD_1", c)
  ELSE ~Taken(slot[n], c)

BugAnyUnit(n, c) ==
  IF At(c) # {} /\ UnitFree(n, c)
  THEN IF Taken("LOAD_0", c) THEN "LOAD_1" ELSE "LOAD_0"
  ELSE slot[n]

(* The unit of n after the test of cycle c: a load takes the free load     *)
(* unit, and keeps it even where the dependences then rule out the cycle.  *)
Unit(n, c) ==
  IF slot[n] \in Load /\ At(c) # {} /\ UnitFree(n, c)
  THEN IF Taken("LOAD_0", c) THEN "LOAD_1" ELSE "LOAD_0"
  ELSE slot[n]

(* _check_dependences                                                      *)
BugForward(n, c) ==
  \A e \in In(n) : e.src \in Placed =>
    c >= cycle[e.src] + e.latency - e.distance * ii
DependencesMet(n, c) ==
  /\ \A e \in In(n) : e.src \in Placed =>
       c >= cycle[e.src] + e.latency - e.distance * ii
  /\ \A e \in Out(n) : e.dst \in Placed =>
       c <= cycle[e.dst] + e.distance * ii - e.latency

(* One cycle of the window of the node n is tried.                         *)
TryCycle(n) ==
  /\ phase = "place"
  /\ IsNext(n)
  /\ \E c \in 0 .. 2 * ii - 1 :
       /\ c = EStart(n) + trial /\ c <= LStart(n)
       /\ slot' = [slot EXCEPT ![n] = Unit(n, c)]
       /\ IF UnitFree(n, c) /\ DependencesMet(n, c)
          THEN cycle' = [cycle EXCEPT ![n] = c] /\ trial' = 0
          ELSE trial' = trial + 1 /\ UNCHANGED cycle
  /\ UNCHANGED <<body, edges, interleave, ii, phase, asap, alap, height>>

(* No cycle of the window will do: the next II is tried, with the asap of  *)
(* this one left in the nodes, or there is none left and the loop is not   *)
(* pipelined.                                                              *)
NextII(n) ==
  /\ phase = "place"
  /\ IsNext(n)
  /\ EStart(n) + trial > LStart(n)
  /\ trial' = 0
  /\ IF ii < MaxII
     THEN /\ ii' = ii + 1
          /\ phase' = "asap"
          /\ cycle' = [m \in Node |-> -1]
     ELSE /\ phase' = "fallback"
          /\ UNCHANGED <<ii, cycle>>
  /\ UNCHANGED <<body, edges, interleave, asap, alap, height, slot>>

(* All nodes are placed: _generate_pipeline.                               *)
Success ==
  /\ phase = "place"
  /\ Unplaced = {}
  /\ phase' = "pipelined"
  /\ UNCHANGED <<body, edges, interleave, ii, asap, alap, height, cycle, slot, trial>>

(* _fallback_schedule: one instruction in each cycle, in program order, as *)
(* a kernel without stages; nothing waits for a latency.                   *)
SerialUnit(s) ==
  IF s \in Load THEN "LOAD_0" ELSE IF s \in {"STORE", "VECTOR"} THEN s ELSE "SCALAR"

FallbackSchedule ==
  /\ phase = "fallback"
  /\ ii' = Len(body)
  /\ cycle' = [n \in Node |-> n - 1]
  /\ slot' = [n \in Node |-> SerialUnit(body[n].slot)]
  /\ phase' = "serial"
  /\ UNCHANGED <<body, edges, interleave, asap, alap, height, trial>>

Schedule ==
  \/ AsapPass \/ AlapPass \/ HeightPass \/ Success \/ FallbackSchedule
  \/ \E n \in Node : TryCycle(n) \/ NextII(n)

Next ==
  \/ \E b \in Bodies, il \in Interleaves, target \in Targets : ScheduleSms(b, il, target)
  \/ Schedule

Spec == Init /\ [][Next]_vars

(* schedule_sms runs to its end.                                           *)
FairSpec == Spec /\ WF_vars(Schedule)

-----------------------------------------------------------------------------
(* _generate_pipeline: the nodes that end up in the unit u of a bundle.    *)
(* _place_in_bundle writes the nodes in order, each over what is there.    *)
Stage(n)  == cycle[n] \div ii
MaxStage  == Max({0} \cup {Stage(n) : n \in Node})
BundleUnit(s) == IF s = "LOAD_1" THEN "LOAD_0" ELSE s

Kernel(c, u) == {n \in Node : cycle[n] % ii = c /\ slot[n] = u}

LastOf(ns, u) ==
  LET us == {n \in ns : BundleUnit(slot[n]) = u}
  IN  IF us = {} THEN {} ELSE {Max(us)}
Prologue(stage, c, u) == LastOf({n \in Node : Stage(n) <= stage /\ cycle[n] % ii = c}, u)
BugDrainEarly(stage, c, u) == LastOf({n \in Node : Stage(n) > stage /\ cycle[n] % ii = c}, u)
Epilogue(stage, c, u) == LastOf({n \in Node : Stage(n) >= stage /\ cycle[n] % ii = c}, u)

(* How often n is issued by the prologue, one pass of the kernel and the   *)
(* epilogue together.                                                      *)
Issues(n) ==
  LET c == cycle[n] % ii
      u == BundleUnit(slot[n])
  IN  Cardinality({stage \in 0 .. MaxStage - 1 : n \in Prologue(stage, c, u)})
        + (IF Kernel(c, slot[n]) = {n} THEN 1 ELSE 0)
        + Cardinality({stage \in 1 .. MaxStage : n \in Epilogue(stage, c, u)})

-----------------------------------------------------------------------------
TypeOK ==
  /\ body \in Seq(Instr) /\ edges = Edges(body)
  /\ interleave \in Nat \ {0}
  /\ ii \in Nat \ {0}
  /\ phase \in {"idle", "asap", "alap", "height", "place", "pipelined", "fallback", "serial"}
  /\ asap \in [Node -> Int] /\ alap \in [Node -> Int] /\ height \in [Node -> Nat]
  /\ \A n \in Node : cycle[n] \in -1 .. 2 * ii - 1
  /\ slot \in [Node -> Slot]
  /\ \A n \in Node :
       \/ slot[n] = body[n].slot \/ {slot[n], body[n].slot} \subseteq Load
       \/ phase = "serial" /\ slot[n] = SerialUnit(body[n].slot)
  /\ trial \in Nat

(* A schedule respects every dependence of the graph, also when iterations *)
(* overlap: the consumer, distance iterations later, starts no earlier     *)
(* than the producer has its result.  It holds of each partial schedule;   *)
(* the serial fallback leaves the latencies to the hardware.               *)
DependencesHold ==
  phase # "serial" =>
    \A e \in edges : {e.src, e.dst} \subseteq Placed =>
      cycle[e.dst] + e.distance * ii >= cycle[e.src] + e.latency

(* No two instructions of the steady state, where cycles wrap around at    *)
(* ii, use one unit in one cycle, although loads move between the units    *)
(* while they are placed.                                                  *)
UnitsExclusive ==
  \A m, n \in Placed :
    cycle[m] % ii = cycle[n] % ii /\ slot[m] = slot[n] => m = n

(* When placement begins, the window of a node that it searches is closed  *)
(* only if the node begins later than two IIs, whatever an earlier II has  *)
(* left in asap; asap and alap respect every dependence at this II, but    *)
(* asap is still the one of the first II that was tried.                   *)
WindowsOpen ==
  phase \in {"height", "place"} =>
    /\ \A n \in Node : EStart(n) <= LStart(n) <=> asap[n] < 2 * ii
    /\ \A e \in edges : /\ asap[e.dst] + e.distance * ii >= asap[e.src] + e.latency
                        /\ alap[e.dst] + e.distance * ii >= alap[e.src] + e.latency
    /\ \E target \in Targets :
         LET first == FirstII(body, interleave, target)
         IN  first \in 1..ii /\ \A n \in Node : asap[n] = EarliestAt(first, n)

(* Every instruction is issued for as many iterations as every other, from *)
(* the ramp-up to the drain, unless two loads share a cycle of the kernel. *)
IssuedEvenly ==
  phase \in {"pipelined", "serial"} =>
    \A n \in Node :
      \/ Issues(n) = MaxStage + 1
      \/ slot[n] \in Load /\ \E m \in At(cycle[n]) \ {n} : slot[m] \in Load

(* schedule_sms ends, for bodies without a cycle of dependences.           *)
SchedulingEnds == ~Idle ~> Idle
=============================================================================
