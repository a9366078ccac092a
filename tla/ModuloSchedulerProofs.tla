------------------------ MODULE ModuloSchedulerProofs ------------------------
(***************************************************************************)
(* Whatever the loop body, the interleave and the limits on the II, the    *)
(* nodes that ModuloScheduler has placed respect the dependences of the    *)
(* graph and share no unit in a cycle of the steady state.  The windows    *)
(* play no part in that: the argument holds for any cycle that is tried.   *)
(* The second part is about the passes: how far they leave the windows     *)
(* open, and that asap stays the one of the first II.  The last is about   *)
(* the bundles, which issue the instructions evenly because a node shares  *)
(* its unit in the kernel with no other.                                   *)
(***************************************************************************)
EXTENDS ModuloScheduler, FiniteSetTheorems, WellFoundedInduction, TLAPS

EdgeType == [src : Node, dst : Node, latency : Nat, distance : {0, 1},
             type : {"RAW", "WAW", "WAR"}, reg : Reg]

(* The part of the state that placement reads and writes.                  *)
PlaceType ==
  /\ body \in Seq(Instr)
  /\ edges \subseteq EdgeType /\ \A e \in edges : e.src # e.dst
  /\ ii \in Nat \ {0}
  /\ cycle \in [Node -> Int]
  /\ slot \in [Node -> Slot]
  /\ phase = "fallback" => Len(body) > 0

SchedInv == PlaceType /\ DependencesHold /\ UnitsExclusive

(* The graph has edges between two different nodes of the body.            *)
LEMMA EdgesType ==
  ASSUME NEW b \in Seq(Instr)
  PROVE  \A e \in Edges(b) :
           /\ e \in [src : 1..Len(b), dst : 1..Len(b), latency : Nat, distance : {0, 1},
                     type : {"RAW", "WAW", "WAR"}, reg : Reg]
           /\ e.src # e.dst
<1> DEFINE ET == [src : 1..Len(b), dst : 1..Len(b), latency : Nat, distance : {0, 1},
                  type : {"RAW", "WAW", "WAR"}, reg : Reg]
<1>1. \A n \in 1..Len(b) : b[n] \in Instr
  OBVIOUS
<1>2. \A n \in 1..Len(b) :
        b[n].latency \in Nat /\ b[n].reads \subseteq Reg /\ b[n].writes \subseteq Reg
  BY <1>1 DEF Instr
<1>3. \A p \in Pairs(b) : p[1] \in 1..Len(b) /\ p[2] \in 1..Len(b) /\ p[1] # p[2]
  BY DEF Pairs
<1>4. ASSUME NEW e \in RawEdges(b) PROVE e \in ET /\ e.src # e.dst
  <2>1. PICK p \in Pairs(b) :
          e \in {Edge(p[1], p[2], b[p[1]].latency, IF p[2] <= p[1] THEN 1 ELSE 0, "RAW", r) :
                   r \in b[p[1]].writes \cap b[p[2]].reads}
    BY <1>4 DEF RawEdges
  <2>2. PICK r \in b[p[1]].writes :
          e = Edge(p[1], p[2], b[p[1]].latency, IF p[2] <= p[1] THEN 1 ELSE 0, "RAW", r)
    BY <2>1
  <2> QED  BY <1>2, <1>3, <2>2 DEF Edge
<1>5. ASSUME NEW e \in WawEdges(b) PROVE e \in ET /\ e.src # e.dst
  <2>1. PICK p \in Forward(b) :
          e \in {Edge(p[1], p[2], 0, 0, "WAW", r) : r \in b[p[1]].writes \cap b[p[2]].writes}
    BY <1>5 DEF WawEdges
  <2>2. PICK r \in b[p[1]].writes : e = Edge(p[1], p[2], 0, 0, "WAW", r)
    BY <2>1
  <2>3. p \in Pairs(b)
    BY DEF Forward
  <2> QED  BY <1>2, <1>3, <2>2, <2>3 DEF Edge
<1>6. ASSUME NEW e \in WarEdges(b) PROVE e \in ET /\ e.src # e.dst
  <2>1. PICK p \in Forward(b) :
          e \in {Edge(p[1], p[2], 0, 0, "WAR", r) : r \in b[p[1]].reads \cap b[p[2]].writes}
    BY <1>6 DEF WarEdges
  <2>2. PICK r \in b[p[1]].reads : e = Edge(p[1], p[2], 0, 0, "WAR", r)
    BY <2>1
  <2>3. p \in Pairs(b)
    BY DEF Forward
  <2> QED  BY <1>2, <1>3, <2>2, <2>3 DEF Edge
<1> QED  BY <1>4, <1>5, <1>6 DEF Edges

LEMMA SchedInit == Init => SchedInv
<1> SUFFICES ASSUME Init PROVE SchedInv
  OBVIOUS
<1>1. body \in Seq(Instr) /\ Node = {} /\ edges = {} /\ ii = 1
  BY DEF Init, Node
<1>2. cycle = <<>> /\ slot = <<>>
  BY DEF Init
<1>3. cycle \in [Node -> Int] /\ slot \in [Node -> Slot]
  BY <1>1, <1>2
<1>4. phase = "idle"
  BY DEF Init
<1> QED  BY <1>1, <1>3, <1>4 DEF SchedInv, PlaceType, DependencesHold, UnitsExclusive, Placed

(* The test of a cycle, successful or not, keeps what is placed sound.     *)
LEMMA TryCycleSound ==
  ASSUME SchedInv, NEW n \in Node, TryCycle(n)
  PROVE  SchedInv'
<1> USE DEF SchedInv, PlaceType
<1>1. PICK c \in 0 .. 2 * ii - 1 :
        /\ slot' = [slot EXCEPT ![n] = Unit(n, c)]
        /\ IF UnitFree(n, c) /\ DependencesMet(n, c)
           THEN cycle' = [cycle EXCEPT ![n] = c] /\ trial' = 0
           ELSE trial' = trial + 1 /\ UNCHANGED cycle
  BY DEF TryCycle
<1>2. n \notin Placed
  BY DEF TryCycle, IsNext, Unplaced
<1>3. UNCHANGED <<body, edges, ii, phase>> /\ Node' = Node /\ phase = "place"
  BY DEF TryCycle, Node
<1>4. Unit(n, c) \in Slot
  BY DEF Unit, Slot
<1>5. c \in Nat
  OBVIOUS
<1>6. PlaceType'
  BY <1>1, <1>3, <1>4, <1>5 DEF EdgeType
<1>7. CASE UnitFree(n, c) /\ DependencesMet(n, c)
  <2>1. cycle' = [cycle EXCEPT ![n] = c]
    BY <1>1, <1>7
  <2>2. Placed' = Placed \cup {n}
    BY <1>3, <1>5, <2>1 DEF Placed
  <2>3. \A m \in Placed : cycle'[m] = cycle[m] /\ slot'[m] = slot[m]
    BY <1>1, <1>2, <2>1 DEF Placed
  <2>4. cycle'[n] = c /\ slot'[n] = Unit(n, c)
    BY <1>1, <2>1
  <2>5. DependencesHold'
    <3> SUFFICES ASSUME NEW e \in edges, {e.src, e.dst} \subseteq Placed \cup {n}
                 PROVE  cycle'[e.dst] + e.distance * ii >= cycle'[e.src] + e.latency
      BY <1>3, <2>2 DEF DependencesHold
    <3>1. /\ e.src \in Node /\ e.dst \in Node /\ e.src # e.dst
          /\ e.latency \in Nat /\ e.distance \in {0, 1}
      BY DEF EdgeType
    <3>2. PICK d, l \in Int : d = e.distance * ii /\ l = e.latency
      BY <3>1
    <3>3. CASE e.dst = n
      <4>1. e.src \in Placed /\ e \in In(n)
        BY <3>1, <3>3 DEF In
      <4>2. c >= cycle[e.src] + e.latency - e.distance * ii
        BY <1>7, <4>1 DEF DependencesMet
      <4>3. cycle'[e.dst] = c /\ cycle'[e.src] = cycle[e.src] /\ cycle[e.src] \in Int
        BY <2>3, <2>4, <3>1, <3>3, <4>1
      <4>4. PICK x \in Int : x = cycle[e.src]
        BY <4>3
      <4>5. c >= x + l - d
        BY <3>2, <4>2, <4>4
      <4>6. c + d >= x + l
        BY <4>5
      <4> QED  BY <3>2, <4>3, <4>4, <4>6
    <3>4. CASE e.src = n
      <4>1. e.dst \in Placed /\ e \in Out(n)
        BY <3>1, <3>4 DEF Out
      <4>2. c <= cycle[e.dst] + e.distance * ii - e.latency
        BY <1>7, <4>1 DEF DependencesMet
      <4>3. cycle'[e.dst] = cycle[e.dst] /\ cycle'[e.src] = c /\ cycle[e.dst] \in Int
        BY <2>3, <2>4, <3>1, <3>4, <4>1
      <4>4. PICK x \in Int : x = cycle[e.dst]
        BY <4>3
      <4>5. c <= x + d - l
        BY <3>2, <4>2, <4>4
      <4>6. x + d >= c + l
        BY <4>5
      <4> QED  BY <3>2, <4>3, <4>4, <4>6
    <3>5. CASE e.src \in Placed /\ e.dst \in Placed
      BY <1>3, <2>3, <3>5 DEF DependencesHold
    <3> QED  BY <3>3, <3>4, <3>5
  <2>6. \A m \in Placed : cycle[m] % ii = c % ii => slot[m] # Unit(n, c)
    <3> SUFFICES ASSUME NEW m \in Placed, cycle[m] % ii = c % ii
                 PROVE  slot[m] # Unit(n, c)
      OBVIOUS
    <3>1. m \in At(c)
      BY DEF At
    <3>2. CASE slot[n] \in Load
      <4>1. ~Taken("LOAD_0", c) \/ ~Taken("LOAD_1", c)
        BY <1>7, <3>2 DEF UnitFree
      <4>2. Unit(n, c) = IF Taken("LOAD_0", c) THEN "LOAD_1" ELSE "LOAD_0"
        BY <1>7, <3>1, <3>2 DEF Unit
      <4> QED  BY <3>1, <4>1, <4>2 DEF Taken
    <3>3. CASE slot[n] \notin Load
      <4>1. ~Taken(slot[n], c) /\ Unit(n, c) = slot[n]
        BY <1>7, <3>3 DEF UnitFree, Unit
      <4> QED  BY <3>1, <4>1 DEF Taken
    <3> QED  BY <3>2, <3>3
  <2>7. UnitsExclusive'
    BY <1>3, <2>2, <2>3, <2>4, <2>6 DEF UnitsExclusive
  <2> QED  BY <1>6, <2>5, <2>7
<1>8. CASE ~(UnitFree(n, c) /\ DependencesMet(n, c))
  <2>1. cycle' = cycle /\ Placed' = Placed
    BY <1>1, <1>3, <1>8 DEF Placed
  <2>2. \A m \in Placed : slot'[m] = slot[m]
    BY <1>1, <1>2 DEF Placed
  <2> QED  BY <1>3, <1>6, <2>1, <2>2 DEF DependencesHold, UnitsExclusive
<1> QED  BY <1>7, <1>8

(* The steps that touch neither the graph nor the placement.               *)
LEMMA UntouchedSound ==
  ASSUME SchedInv, UNCHANGED <<body, edges, ii, cycle, slot>>,
         phase # "serial" \/ UNCHANGED phase, phase' # "fallback" \/ Len(body) > 0
  PROVE  SchedInv'
  BY DEF SchedInv, PlaceType, DependencesHold, UnitsExclusive, Placed, Node, EdgeType

LEMMA SmallModulo ==
  ASSUME NEW x \in Nat, NEW d \in Nat, x < d
  PROVE  x % d = x
  BY SMT

(* The serial schedule has a cycle of its own for every instruction.       *)
LEMMA FallbackSound ==
  ASSUME SchedInv, FallbackSchedule
  PROVE  SchedInv'
<1>1. Len(body) \in Nat \ {0} /\ body \in Seq(Instr)
  BY DEF SchedInv, PlaceType, FallbackSchedule
<1>2. /\ UNCHANGED <<body, edges>> /\ Node' = Node /\ ii' = Len(body) /\ phase' = "serial"
      /\ cycle' = [n \in Node |-> n - 1]
      /\ slot' = [n \in Node |-> SerialUnit(body[n].slot)]
  BY DEF FallbackSchedule, Node
<1>3. slot' \in [Node -> Slot]
  BY <1>2 DEF SerialUnit, Slot
<1>4. cycle' \in [Node -> Int]
  BY <1>1, <1>2 DEF Node
<1>5. PlaceType'
  BY <1>1, <1>2, <1>3, <1>4 DEF SchedInv, PlaceType, EdgeType
<1>6. \A n \in Node : cycle'[n] % ii' = n - 1
  <2> SUFFICES ASSUME NEW n \in Node PROVE cycle'[n] % ii' = n - 1
    OBVIOUS
  <2>1. n - 1 \in Nat /\ n - 1 < Len(body) /\ cycle'[n] = n - 1
    BY <1>1, <1>2 DEF Node
  <2> QED  BY <1>1, <1>2, <2>1, SmallModulo
<1>7. \A m, n \in Node : m - 1 = n - 1 => m = n
  BY DEF Node
<1>8. UnitsExclusive'
  BY <1>2, <1>6, <1>7 DEF UnitsExclusive, Placed
<1> QED  BY <1>2, <1>5, <1>8 DEF SchedInv, DependencesHold

LEMMA SchedStep == SchedInv /\ [Next]_vars => SchedInv'
<1> SUFFICES ASSUME SchedInv, [Next]_vars PROVE SchedInv'
  OBVIOUS
<1>1. CASE \E b \in Bodies, il \in Interleaves, target \in Targets : ScheduleSms(b, il, target)
  <2>1. PICK b \in Bodies, il \in Interleaves, target \in Targets : ScheduleSms(b, il, target)
    BY <1>1
  <2>2. b \in Seq(Instr)
    BY SchedulerAssumption
  <2>3. body' = b /\ edges' = Edges(b) /\ Node' = 1..Len(b)
    BY <2>1 DEF ScheduleSms, Node
  <2>4. ii' \in Nat \ {0}
    <3>1. ii' = 1 \/ ii' \in 1..MaxII
      BY <2>1 DEF ScheduleSms
    <3> QED  BY <3>1, SchedulerAssumption
  <2>5. /\ cycle' = [n \in 1..Len(b) |-> -1]
        /\ slot' = [n \in 1..Len(b) |-> b[n].slot]
    BY <2>1 DEF ScheduleSms
  <2>6. \A n \in 1..Len(b) : b[n].slot \in Slot
    <3>1. \A n \in 1..Len(b) : b[n] \in Instr
      BY <2>2
    <3> QED  BY <3>1 DEF Instr
  <2>7. PlaceType'
    <3>1. cycle' \in [Node' -> Int] /\ slot' \in [Node' -> Slot]
      BY <2>3, <2>5, <2>6
    <3>2. edges' \subseteq EdgeType' /\ \A e \in edges' : e.src # e.dst
      BY <2>2, <2>3, EdgesType DEF EdgeType
    <3>3. body' \in Seq(Instr)
      BY <2>2, <2>3
    <3>4. phase' = "fallback" => Len(body') > 0
      <4>1. phase' = "fallback" => b # <<>>
        BY <2>1 DEF ScheduleSms
      <4> QED  BY <2>2, <2>3, <4>1
    <3> QED  BY <2>4, <3>1, <3>2, <3>3, <3>4 DEF PlaceType
  <2>8. \A n \in Node' : cycle'[n] = -1
    BY <2>3, <2>5
  <2> QED  BY <2>7, <2>8 DEF SchedInv, PlaceType, DependencesHold, UnitsExclusive, Placed, EdgeType
<1>2. CASE \E n \in Node : TryCycle(n)
  BY <1>2, TryCycleSound
<1>3. CASE \E n \in Node : NextII(n)
  <2>1. PICK n \in Node : NextII(n)
    BY <1>3
  <2>2. UNCHANGED <<body, edges, slot>>
    BY <2>1 DEF NextII
  <2>3. CASE ii < MaxII
    <3>1. ii' = ii + 1 /\ cycle' = [m \in Node |-> -1] /\ phase' = "asap"
      BY <2>1, <2>3 DEF NextII
    <3>2. PlaceType' /\ \A m \in Node' : cycle'[m] = -1
      BY <2>2, <3>1 DEF SchedInv, PlaceType, EdgeType, Node
    <3> QED  BY <3>2 DEF SchedInv, PlaceType, DependencesHold, UnitsExclusive, Placed, EdgeType
  <2>4. CASE ~(ii < MaxII)
    <3>1. phase = "place" /\ Len(body) > 0
      BY <2>1 DEF NextII, Node, SchedInv, PlaceType
    <3> QED  BY <2>1, <2>2, <2>4, <3>1, UntouchedSound DEF NextII
  <2> QED  BY <2>3, <2>4
<1>4. CASE AsapPass
  BY <1>4, UntouchedSound DEF AsapPass
<1>5. CASE AlapPass
  BY <1>5, UntouchedSound DEF AlapPass
<1>6. CASE HeightPass
  BY <1>6, UntouchedSound DEF HeightPass
<1>7. CASE Success
  BY <1>7, UntouchedSound DEF Success
<1>8. CASE FallbackSchedule
  BY <1>8, FallbackSound
<1>9. CASE UNCHANGED vars
  BY <1>9, UntouchedSound DEF vars, SchedInv, PlaceType
<1> QED  BY <1>1, <1>2, <1>3, <1>4, <1>5, <1>6, <1>7, <1>8, <1>9 DEF Next, Schedule

LEMMA SchedAlways == Spec => []SchedInv
  BY SchedInit, SchedStep, PTL DEF Spec

(* Every placed pair respects its dependences, across iterations too.      *)
THEOREM DependencesRespected == Spec => []DependencesHold
<1>1. SchedInv => DependencesHold
  BY DEF SchedInv
<1> QED  BY <1>1, SchedAlways, PTL

(* No two instructions use one unit in one cycle of the steady state.      *)
THEOREM UnitsNotShared == Spec => []UnitsExclusive
<1>1. SchedInv => UnitsExclusive
  BY DEF SchedInv
<1> QED  BY <1>1, SchedAlways, PTL

-----------------------------------------------------------------------------
(***************************************************************************)
(* The passes over the graph take Max and Min of sets of integers, which   *)
(* have one because they are bounded.                                      *)
(***************************************************************************)
LEMMA LeastNatural ==
  ASSUME NEW T \in SUBSET Nat, T # {}
  PROVE  \E x \in T : \A y \in T : x <= y
<1>1. PICK x \in T : \A y \in T : ~ (<<y, x>> \in OpToRel(<, Nat))
  BY WFMin, NatLessThanWellFounded
<1>2. \A y \in T : ~ (y < x)
  BY <1>1 DEF OpToRel
<1> QED  BY <1>2

(* A bounded set of integers has the maximum, and the minimum, that the    *)
(* operators of FiniteSetsExt choose.                                      *)
LEMMA MaxOfBounded ==
  ASSUME NEW S \in SUBSET Int, S # {}, NEW bound \in Int, \A s \in S : s <= bound
  PROVE  Max(S) \in S /\ \A s \in S : s <= Max(S)
<1>1. \E x \in S : \A y \in S : x >= y
  <2> DEFINE T == {bound - s : s \in S}
  <2>1. T \in SUBSET Nat /\ T # {}
    <3>1. \A s \in S : bound - s \in Nat
      <4> SUFFICES ASSUME NEW s \in S PROVE bound - s \in Nat
        OBVIOUS
      <4>1. s \in Int
        OBVIOUS
      <4> QED  BY <4>1
    <3> QED  BY <3>1
  <2>2. PICK t \in T : \A y \in T : t <= y
    BY <2>1, LeastNatural
  <2>3. PICK x \in S : t = bound - x
    BY <2>2
  <2>4. \A y \in S : bound - x <= bound - y
    BY <2>2, <2>3
  <2> QED  BY <2>4
<1> QED  BY <1>1 DEF Max

LEMMA MinOfBounded ==
  ASSUME NEW S \in SUBSET Int, S # {}, NEW bound \in Int, \A s \in S : s >= bound
  PROVE  Min(S) \in S /\ \A s \in S : Min(S) <= s
<1>1. \E x \in S : \A y \in S : x =< y
  <2> DEFINE T == {s - bound : s \in S}
  <2>1. T \in SUBSET Nat /\ T # {}
    <3>1. \A s \in S : s - bound \in Nat
      <4> SUFFICES ASSUME NEW s \in S PROVE s - bound \in Nat
        OBVIOUS
      <4>1. s \in Int
        OBVIOUS
      <4> QED  BY <4>1
    <3> QED  BY <3>1
  <2>2. PICK t \in T : \A y \in T : t <= y
    BY <2>1, LeastNatural
  <2>3. PICK x \in S : t = x - bound
    BY <2>2
  <2>4. \A y \in S : x - bound <= y - bound
    BY <2>2, <2>3
  <2> QED  BY <2>4
<1> QED  BY <1>1 DEF Min

(* What a table gives the nodes of a body is bounded.                      *)
LEMMA TableBounded ==
  ASSUME NEW n \in Nat, NEW f \in [1..n -> Int]
  PROVE  \E bound \in Nat : \A i \in 1..n : f[i] <= bound /\ -f[i] <= bound
<1> DEFINE Bounded(k) == \E bound \in Nat : \A i \in 1..k : f[i] <= bound /\ -f[i] <= bound
           T == {k \in 0..n : ~Bounded(k)}
<1>1. Bounded(0)
  OBVIOUS
<1>2. ASSUME NEW k \in 0..n, k # 0, Bounded(k - 1) PROVE Bounded(k)
  <2>1. PICK bound \in Nat : \A i \in 1..(k - 1) : f[i] <= bound /\ -f[i] <= bound
    BY <1>2
  <2>2. PICK big \in Nat : bound <= big /\ f[k] <= big /\ -f[k] <= big
    <3>1. f[k] \in Int
      BY <1>2
    <3>2. CASE f[k] >= 0
      BY <3>1, <3>2 , bound + f[k] \in Nat
    <3>3. CASE f[k] < 0
      BY <3>1, <3>3 , bound - f[k] \in Nat
    <3> QED  BY <3>1, <3>2, <3>3
  <2>3. \A i \in 1..k : f[i] <= big /\ -f[i] <= big
    <3> SUFFICES ASSUME NEW i \in 1..k PROVE f[i] <= big /\ -f[i] <= big
      OBVIOUS
    <3>1. CASE i = k
      BY <2>2, <3>1
    <3>2. CASE i # k
      <4>1. i \in 1..(k - 1) /\ f[i] \in Int
        BY <1>2, <3>2
      <4> QED  BY <2>1, <2>2, <4>1
    <3> QED  BY <3>1, <3>2
  <2> QED  BY <2>3
<1> HIDE DEF Bounded
<1>3. T = {}
  <2> SUFFICES ASSUME T # {} PROVE FALSE
    OBVIOUS
  <2>1. PICK k \in T : \A y \in T : k <= y
    <3>1. T \in SUBSET Nat
      OBVIOUS
    <3> QED  BY <3>1, LeastNatural
  <2>2. k # 0 /\ k \in 0..n /\ ~Bounded(k)
    BY <1>1, <2>1
  <2>3. k - 1 \in 0..n /\ ~(k <= k - 1)
    BY <2>2
  <2>4. Bounded(k - 1)
    BY <2>1, <2>3
  <2> QED  BY <1>2, <2>2, <2>4
<1>4. Bounded(n)
  BY <1>3
<1> QED  BY <1>4 DEF Bounded

(* The latencies of the graph are those of the body, or 0.                 *)
LEMMA LatenciesBounded ==
  ASSUME NEW b \in Seq(Instr)
  PROVE  \E bound \in Nat : \A e \in Edges(b) : e.latency <= bound
<1> DEFINE f == [n \in 1..Len(b) |-> b[n].latency]
<1>1. \A n \in 1..Len(b) : b[n].latency \in Nat
  <2>1. \A n \in 1..Len(b) : b[n] \in Instr
    OBVIOUS
  <2> QED  BY <2>1 DEF Instr
<1>2. f \in [1..Len(b) -> Int] /\ Len(b) \in Nat
  BY <1>1
<1>3. PICK bound \in Nat : \A n \in 1..Len(b) : f[n] <= bound /\ -f[n] <= bound
  <2> HIDE DEF f
  <2> QED  BY <1>2, TableBounded
<1>4. \A n \in 1..Len(b) : b[n].latency <= bound
  BY <1>3
<1>5. ASSUME NEW e \in Edges(b)
      PROVE  e.latency = 0 \/ \E n \in 1..Len(b) : e.latency = b[n].latency
  BY DEF Edges, RawEdges, WawEdges, WarEdges, Edge, Pairs, Forward
<1> QED  BY <1>4, <1>5

(* asap settles: an edge ends no earlier than its source plus its latency, *)
(* d iterations before.                                                    *)
AsapSettled ==
  \A e \in edges : asap[e.dst] >= asap[e.src] + e.latency - e.distance * ii

(* alap settles too.                                                       *)
AlapSettled ==
  \A e \in edges : alap[e.dst] + e.distance * ii >= alap[e.src] + e.latency

(* TypeOK and what the passes leave for each other.                        *)
WindowInv ==
  /\ TypeOK
  /\ phase \in {"asap", "alap", "height", "place", "fallback"} => Len(body) > 0
  /\ phase \in {"alap", "height", "place"} =>
       AsapSettled /\ \A n \in Node : 0 <= asap[n] /\ asap[n] <= alap[n]
  /\ phase \in {"height", "place"} => AlapSettled
  /\ phase \in {"pipelined", "serial"} => \A n \in Node : cycle[n] >= 0

(* asap belongs to the first II that was tried: it only grows, up to what  *)
(* it is at that II, and no greater II asks for more.                      *)
IsFirst(i) == \E target \in Targets : i = FirstII(body, interleave, target)

AsapOf(i) ==
  /\ i \in 1..ii /\ IsFirst(i)
  /\ \A n \in Node : asap[n] <= EarliestAt(i, n)
  /\ i < ii \/ phase # "asap" => \A n \in Node : asap[n] >= EarliestAt(i, n)

StaleInv == phase \in {"asap", "alap", "height", "place"} => \E i \in 1..ii : AsapOf(i)

(* What a node is raised to is the greatest of these.                     *)
Starts(E, A, i, n) ==
  {0} \cup {A[e.src] + e.latency - e.distance * i : e \in {d \in E : d.dst = n /\ A[d.src] >= 0}}

LEMMA EarliestStarts ==
  ASSUME NEW i, NEW n
  PROVE  EarliestAt(i, n) = Max(Starts(edges, asap, i, n))
<1>1. {d \in In(n) : asap[d.src] >= 0} = {d \in edges : d.dst = n /\ asap[d.src] >= 0}
  BY DEF In
<1> QED  BY <1>1 DEF EarliestAt, Starts

LEMMA StartsMax ==
  ASSUME NEW b \in Seq(Instr), NEW A \in [1..Len(b) -> Int], NEW i \in Nat, NEW n
  PROVE  LET S == Starts(Edges(b), A, i, n)
         IN  /\ S \subseteq Int /\ Max(S) \in S /\ Max(S) \in Nat
             /\ \A s \in S : s <= Max(S)
<1> DEFINE E == Edges(b)
           Start(e) == A[e.src] + e.latency - e.distance * i
           Known == {d \in E : d.dst = n /\ A[d.src] >= 0}
           S == {0} \cup {Start(e) : e \in Known}
<1>0. S = Starts(Edges(b), A, i, n)
  BY DEF Starts
<1>1. \A e \in E : e.src \in 1..Len(b) /\ e.latency \in Nat /\ e.distance \in {0, 1}
  BY EdgesType
<1>2. \A e \in E : Start(e) \in Int /\ Start(e) <= A[e.src] + e.latency
  <2> SUFFICES ASSUME NEW e \in E PROVE Start(e) \in Int /\ Start(e) <= A[e.src] + e.latency
    OBVIOUS
  <2>1. PICK a \in Int : a = A[e.src]
    BY <1>1
  <2>2. PICK d \in Nat : d = e.distance * i
    <3>1. e.distance = 0 \/ e.distance = 1
      BY <1>1
    <3> QED  BY <3>1
  <2> QED  BY <1>1, <2>1, <2>2
<1>3. PICK a \in Nat : \A m \in 1..Len(b) : A[m] <= a
  <2> HIDE DEF E, Start, Known, S
  <2>1. PICK k \in Nat : k = Len(b) /\ A \in [1..k -> Int]
    OBVIOUS
  <2>2. \E a \in Nat : \A m \in 1..k : A[m] <= a /\ -A[m] <= a
    BY <2>1, TableBounded
  <2> QED  BY <2>1, <2>2
<1>4. PICK l \in Nat : \A e \in E : e.latency <= l
  BY LatenciesBounded
<1>5. \A s \in S : s <= a + l
  <2>1. \A e \in Known : Start(e) <= a + l
    <3> SUFFICES ASSUME NEW e \in Known PROVE Start(e) <= a + l
      OBVIOUS
    <3>1. A[e.src] <= a /\ A[e.src] \in Int /\ e.latency <= l /\ e.latency \in Nat
      BY <1>1, <1>3, <1>4
    <3>2. Start(e) \in Int /\ Start(e) <= A[e.src] + e.latency
      BY <1>2
    <3> HIDE DEF Start
    <3> QED  BY <3>1, <3>2
  <2> QED  BY <2>1
<1>6. S \in SUBSET Int /\ S # {} /\ 0 \in S
  BY <1>2
<1>7. Max(S) \in S /\ \A s \in S : s <= Max(S)
  <2>1. a + l \in Int
    OBVIOUS
  <2> HIDE DEF S
  <2> QED  BY <1>5, <1>6, <2>1, MaxOfBounded
<1>8. Max(S) \in Nat
  BY <1>6, <1>7
<1> HIDE DEF S
<1> QED  BY <1>0, <1>6, <1>7, <1>8

(* Later sources, and a smaller II, make a node begin later.               *)
LEMMA StartsMonotone ==
  ASSUME NEW b \in Seq(Instr), NEW A \in [1..Len(b) -> Int], NEW B \in [1..Len(b) -> Int],
         \A m \in 1..Len(b) : A[m] <= B[m],
         NEW i \in Nat, NEW j \in Nat, j <= i, NEW n
  PROVE  Max(Starts(Edges(b), A, i, n)) <= Max(Starts(Edges(b), B, j, n))
<1>1. PICK S, T : S = Starts(Edges(b), A, i, n) /\ T = Starts(Edges(b), B, j, n)
  OBVIOUS
<1>2. /\ Max(S) \in S /\ Max(S) \in Nat
      /\ T \subseteq Int /\ Max(T) \in Nat /\ \A s \in T : s <= Max(T)
  BY <1>1, StartsMax
<1> SUFFICES Max(S) <= Max(T)
  BY <1>1
<1>3. CASE Max(S) = 0
  BY <1>2, <1>3
<1>4. CASE \E e \in Edges(b) : /\ e.dst = n /\ A[e.src] >= 0
                              /\ Max(S) = A[e.src] + e.latency - e.distance * i
  <2>1. PICK e \in Edges(b) : /\ e.dst = n /\ A[e.src] >= 0
                              /\ Max(S) = A[e.src] + e.latency - e.distance * i
    BY <1>4
  <2>2. e.src \in 1..Len(b) /\ e.latency \in Nat /\ e.distance \in {0, 1}
    BY EdgesType
  <2>3. PICK x \in Int, y \in Int : x = A[e.src] /\ y = B[e.src] /\ x <= y
    BY <2>2
  <2>4. y + e.latency - e.distance * j \in T
    BY <1>1, <2>1, <2>3 DEF Starts
  <2>5. PICK d \in Nat, f \in Nat : d = e.distance * i /\ f = e.distance * j /\ f <= d
    <3>1. e.distance = 0 \/ e.distance = 1
      BY <2>2
    <3> QED  BY <3>1
  <2>6. Max(S) = x + e.latency - d /\ y + e.latency - f <= Max(T)
    BY <1>2, <2>1, <2>3, <2>4, <2>5
  <2>7. PICK p \in Nat, q \in Nat, l \in Nat : p = Max(S) /\ q = Max(T) /\ l = e.latency
    BY <1>2, <2>2
  <2>8. p = x + l - d /\ y + l - f <= q /\ x <= y /\ f <= d
    BY <2>3, <2>5, <2>6, <2>7
  <2>9. p <= q
    BY ONLY <2>8
  <2> QED  BY <2>7, <2>9
<1>5. Max(S) = 0 \/ \E e \in Edges(b) : /\ e.dst = n /\ A[e.src] >= 0
                                      /\ Max(S) = A[e.src] + e.latency - e.distance * i
  BY <1>1, <1>2 DEF Starts
<1> QED  BY <1>3, <1>4, <1>5

LEMMA EarliestMax ==
  ASSUME PlaceType, TypeOK, NEW i \in Nat, NEW n \in Node
  PROVE  /\ EarliestAt(i, n) \in Nat
         /\ \A e \in In(n) : asap[e.src] >= 0 =>
              asap[e.src] + e.latency - e.distance * i <= EarliestAt(i, n)
<1>1. body \in Seq(Instr) /\ asap \in [1..Len(body) -> Int] /\ edges = Edges(body)
  BY DEF TypeOK, Node
<1>2. PICK S : S = Starts(edges, asap, i, n)
  OBVIOUS
<1>3. Max(S) \in Nat /\ \A s \in S : s <= Max(S)
  BY <1>1, <1>2, StartsMax
<1>4. \A e \in In(n) : asap[e.src] >= 0 => asap[e.src] + e.latency - e.distance * i \in S
  BY <1>2 DEF Starts, In
<1>5. EarliestAt(i, n) = Max(S)
  BY <1>2, EarliestStarts
<1> QED  BY <1>3, <1>4, <1>5

(* A node is lowered to where it was or to an edge it is the source of.    *)
LEMMA LatestMin ==
  ASSUME PlaceType, TypeOK, NEW n \in Node
  PROVE  /\ Latest(n) \in Int
         /\ \/ Latest(n) = alap[n]
            \/ \E e \in Out(n) : Latest(n) = alap[e.dst] - e.latency + e.distance * ii
         /\ \A e \in Out(n) : alap[e.dst] >= 0 =>
              Latest(n) <= alap[e.dst] - e.latency + e.distance * ii
<1> DEFINE End(e) == alap[e.dst] - e.latency + e.distance * ii
           Known == {d \in Out(n) : alap[d.dst] >= 0}
           S == {alap[n]} \cup {End(e) : e \in Known}
<1>1. \A e \in edges :
        e.src \in Node /\ e.dst \in Node /\ e.latency \in Nat /\ e.distance \in {0, 1}
  BY DEF PlaceType, EdgeType
<1>2. ii \in Nat /\ alap \in [Node -> Int] /\ Len(body) \in Nat /\ Node = 1..Len(body)
      /\ body \in Seq(Instr) /\ edges = Edges(body)
  BY DEF TypeOK, Node
<1>3. \A e \in edges : End(e) \in Int /\ End(e) >= alap[e.dst] - e.latency
  <2> SUFFICES ASSUME NEW e \in edges PROVE End(e) \in Int /\ End(e) >= alap[e.dst] - e.latency
    OBVIOUS
  <2>1. PICK a \in Int : a = alap[e.dst]
    BY <1>1, <1>2
  <2>2. PICK d \in Nat : d = e.distance * ii
    <3>1. e.distance = 0 \/ e.distance = 1
      BY <1>1
    <3> QED  BY <1>2, <3>1
  <2> QED  BY <1>1, <2>1, <2>2
<1>4. PICK l \in Nat : \A e \in edges : e.latency <= l
  BY <1>2, LatenciesBounded
<1>5. S \in SUBSET Int /\ S # {}
  BY <1>2, <1>3 DEF Out
<1>6. \E bound \in Int : \A s \in S : s >= bound
  <2>1. PICK a \in Nat : \A m \in 1..Len(body) : alap[m] <= a /\ -alap[m] <= a
    BY <1>2, TableBounded
  <2>2. \A e \in Known : End(e) >= -a - l
    <3> SUFFICES ASSUME NEW e \in Known PROVE End(e) >= -a - l
      OBVIOUS
    <3>1. e \in edges
      BY DEF Out
    <3>2. -alap[e.dst] <= a /\ alap[e.dst] \in Int /\ e.latency <= l /\ e.latency \in Nat
      BY <1>1, <1>2, <1>4, <2>1, <3>1
    <3>3. End(e) \in Int /\ End(e) >= alap[e.dst] - e.latency
      BY <1>3, <3>1
    <3> HIDE DEF End
    <3> QED  BY <3>2, <3>3
  <2>3. alap[n] >= -a - l
    <3>1. -alap[n] <= a /\ alap[n] \in Int
      BY <1>2, <2>1
    <3> QED  BY <3>1
  <2>4. -a - l \in Int
    OBVIOUS
  <2> QED  BY <2>2, <2>3, <2>4
<1>7. Min(S) \in S /\ \A s \in S : Min(S) <= s
  <2> HIDE DEF S
  <2> QED  BY <1>5, <1>6, MinOfBounded
<1>8. Min(S) = Latest(n)
  BY DEF Latest
<1>9. \A e \in Known : Latest(n) <= End(e)
  BY <1>7, <1>8
<1> QED  BY <1>5, <1>7, <1>8, <1>9

(* A height is a number of edges.                                          *)
LEMMA RaisedNat ==
  ASSUME PlaceType, TypeOK, NEW n \in Node
  PROVE  Raised(n) \in Nat
<1> DEFINE S == {height[n]} \cup {height[e.src] + 1 : e \in In(n)}
<1>1. \A e \in In(n) : e.src \in Node
  BY DEF PlaceType, EdgeType, In
<1>2. height \in [Node -> Nat] /\ Len(body) \in Nat /\ Node = 1..Len(body)
  BY DEF TypeOK, Node
<1>3. height \in [1..Len(body) -> Int]
  BY <1>2
<1>4. PICK h \in Nat : \A m \in 1..Len(body) : height[m] <= h /\ -height[m] <= h
  BY <1>2, <1>3, TableBounded
<1>5. S \in SUBSET Nat /\ S # {} /\ \A s \in S : s <= h + 1
  BY <1>1, <1>2, <1>4
<1>6. Max(S) \in S
  <2>1. h + 1 \in Int /\ S \in SUBSET Int
    BY <1>5
  <2> HIDE DEF S
  <2> QED  BY <1>5, <2>1, MaxOfBounded
<1> QED  BY <1>5, <1>6 DEF Raised

LEMMA MaxAsapLargest ==
  ASSUME TypeOK, Len(body) > 0
  PROVE  MaxAsap \in Int /\ \A n \in Node : asap[n] <= MaxAsap
<1> DEFINE S == {asap[n] : n \in Node}
<1>1. asap \in [Node -> Int] /\ Len(body) \in Nat /\ Node = 1..Len(body)
  BY DEF TypeOK, Node
<1>2. PICK a \in Nat : \A m \in 1..Len(body) : asap[m] <= a /\ -asap[m] <= a
  BY <1>1, TableBounded
<1>3. 1 \in Node
  BY <1>1
<1>4. S \in SUBSET Int /\ S # {} /\ \A s \in S : s <= a
  BY <1>1, <1>2, <1>3
<1>5. Max(S) \in S /\ \A s \in S : s <= Max(S)
  <2>1. a \in Int
    OBVIOUS
  <2> HIDE DEF S
  <2> QED  BY <1>4, <2>1, MaxOfBounded
<1>6. Max(S) = MaxAsap
  BY DEF MaxAsap
<1> QED  BY <1>4, <1>5, <1>6

LEMMA UnplacedInRange ==
  ASSUME NEW k \in Nat \ {0}
  PROVE  -1 \in -1 .. 2 * k - 1
<1>1. 2 * k - 1 \in Int /\ -1 <= 2 * k - 1
  OBVIOUS
<1> QED  BY <1>1

LEMMA WindowInit == Init => WindowInv
<1> SUFFICES ASSUME Init PROVE WindowInv
  OBVIOUS
<1>1. body \in Seq(Instr) /\ body = <<>> /\ Node = {} /\ edges = {} /\ ii = 1 /\ phase = "idle"
  BY DEF Init, Node
<1>2. /\ asap = <<>> /\ alap = <<>> /\ height = <<>> /\ cycle = <<>> /\ slot = <<>>
      /\ trial = 0 /\ interleave = 1
  BY DEF Init
<1>3. /\ asap \in [Node -> Int] /\ alap \in [Node -> Int] /\ height \in [Node -> Nat]
      /\ slot \in [Node -> Slot]
  BY <1>1, <1>2
<1>4. Edges(body) = {}
  BY <1>1 DEF Edges, RawEdges, WawEdges, WarEdges, Pairs, Forward
<1> QED  BY <1>1, <1>2, <1>3, <1>4 DEF WindowInv, TypeOK

(* One lemma for each action: it keeps the types and what the passes leave *)
(* for each other.                                                         *)
LEMMA ScheduleSmsWindows ==
  ASSUME NEW b \in Bodies, NEW il \in Interleaves, NEW target \in Targets,
         ScheduleSms(b, il, target)
  PROVE  WindowInv'
<1>1. b \in Seq(Instr) /\ il \in Nat \ {0} /\ Len(b) \in Nat
  BY SchedulerAssumption
<1>2. /\ body' = b /\ edges' = Edges(b) /\ interleave' = il /\ Node' = 1..Len(b) /\ trial' = 0
      /\ asap' = [n \in 1..Len(b) |-> -1] /\ alap' = [n \in 1..Len(b) |-> -1]
      /\ height' = [n \in 1..Len(b) |-> 0] /\ cycle' = [n \in 1..Len(b) |-> -1]
      /\ slot' = [n \in 1..Len(b) |-> b[n].slot]
  BY DEF ScheduleSms, Node
<1>3. \A n \in 1..Len(b) : b[n].slot \in Slot
  <2>1. \A n \in 1..Len(b) : b[n] \in Instr
    BY <1>1
  <2> QED  BY <2>1 DEF Instr
<1>4. /\ asap' \in [Node' -> Int] /\ alap' \in [Node' -> Int] /\ height' \in [Node' -> Nat]
      /\ slot' \in [Node' -> Slot]
  BY <1>2, <1>3
<1>5. ii' \in Nat \ {0} /\ phase' \in {"asap", "fallback", "pipelined"}
      /\ (phase' \in {"asap", "fallback"} => b # <<>>)
      /\ (phase' = "pipelined" => b = <<>>)
  <2>1. CASE b # <<>> /\ FirstII(b, il, target) \in 1..MaxII
    <3>1. ii' = FirstII(b, il, target) /\ phase' = "asap"
      BY <2>1 DEF ScheduleSms
    <3> QED  BY <2>1, <3>1, SchedulerAssumption
  <2>2. CASE ~(b # <<>> /\ FirstII(b, il, target) \in 1..MaxII)
    <3>1. ii' = 1 /\ phase' = IF b = <<>> THEN "pipelined" ELSE "fallback"
      BY <2>2 DEF ScheduleSms
    <3> QED  BY <3>1
  <2> QED  BY <2>1, <2>2
<1>6. /\ \A n \in Node' : cycle'[n] \in -1 .. 2 * ii' - 1
      /\ \A n \in Node' : slot'[n] = body'[n].slot
  <2>1. -1 \in -1 .. 2 * ii' - 1
    BY <1>5, UnplacedInRange
  <2>2. \A n \in Node' : cycle'[n] = -1 /\ slot'[n] = body'[n].slot
    BY <1>2
  <2> QED  BY <2>1, <2>2
<1>7. TypeOK'
  <2>1. body' \in Seq(Instr) /\ edges' = Edges(body)' /\ interleave' \in Nat \ {0} /\ trial' \in Nat
    BY <1>1, <1>2 DEF Edges, RawEdges, WawEdges, WarEdges
  <2> QED  BY <1>4, <1>5, <1>6, <2>1 DEF TypeOK
<1>8. b # <<>> => Len(body') > 0
  BY <1>1, <1>2
<1>9. b = <<>> => Node' = {}
  BY <1>2
<1> QED  BY <1>5, <1>7, <1>8, <1>9 DEF WindowInv

LEMMA AsapPassWindows ==
  ASSUME PlaceType, WindowInv, AsapPass
  PROVE  WindowInv'
<1>1. /\ phase = "asap" /\ TypeOK /\ Len(body) > 0 /\ Node' = Node /\ Edges(body)' = Edges(body)
      /\ UNCHANGED <<body, edges, interleave, ii, height, cycle, slot, trial>>
  BY DEF WindowInv, AsapPass, Node, Edges, RawEdges, WawEdges, WarEdges
<1>2. ii \in Nat /\ \A n \in Node : asap[n] \in Int /\ Earliest(n) \in Nat
  BY <1>1, EarliestMax DEF TypeOK, Earliest
<1>3. CASE \E n \in Node : Later(n)
  <2>1. asap' = [n \in Node |-> Max({asap[n], Earliest(n)})] /\ UNCHANGED <<phase, alap>>
    BY <1>3 DEF AsapPass
  <2>2. \A n \in Node : Max({asap[n], Earliest(n)}) \in Int
    <3> SUFFICES ASSUME NEW n \in Node PROVE Max({asap[n], Earliest(n)}) \in Int
      OBVIOUS
    <3>1. PICK a \in Int, b \in Int : a = asap[n] /\ b = Earliest(n)
      BY <1>2
    <3>2. \E x \in {a, b} : \A y \in {a, b} : x >= y
      OBVIOUS
    <3> QED  BY <3>1, <3>2 DEF Max
  <2>3. asap' \in [Node -> Int]
    BY <2>1, <2>2
  <2> QED  BY <1>1, <2>1, <2>3 DEF WindowInv, TypeOK
<1>4. CASE ~\E n \in Node : Later(n)
  <2>1. alap' = [n \in Node |-> MaxAsap] /\ phase' = "alap" /\ asap' = asap
    BY <1>4 DEF AsapPass
  <2>2. MaxAsap \in Int /\ \A n \in Node : asap[n] <= MaxAsap
    BY <1>1, MaxAsapLargest
  <2>3. \A n \in Node : Earliest(n) <= asap[n] /\ 0 <= asap[n]
    BY <1>2, <1>4 DEF Later
  <2>4. AsapSettled
    <3> SUFFICES ASSUME NEW e \in edges
                 PROVE  asap[e.dst] >= asap[e.src] + e.latency - e.distance * ii
      BY DEF AsapSettled
    <3>1. e.dst \in Node /\ e.src \in Node /\ e \in In(e.dst) /\ asap[e.src] >= 0
      BY <2>3 DEF PlaceType, EdgeType, In
    <3>2. PICK x : x = asap[e.src] + e.latency - e.distance * ii
      OBVIOUS
    <3>3. x <= Earliest(e.dst)
      BY <1>1, <1>2, <3>1, <3>2, EarliestMax DEF Earliest
    <3>4. x \in Int
      <4>1. ii \in Nat /\ e.latency \in Nat /\ e.distance \in {0, 1} /\ asap[e.src] \in Int
        BY <1>1, <1>2, <3>1 DEF PlaceType, EdgeType
      <4> QED  BY <3>2, <4>1
    <3>5. x <= asap[e.dst]
      BY <1>2, <2>3, <3>1, <3>3, <3>4
    <3> QED  BY <1>2, <3>1, <3>2, <3>4, <3>5
  <2>5. alap' \in [Node -> Int] /\ \A n \in Node : 0 <= asap'[n] /\ asap'[n] <= alap'[n]
    BY <2>1, <2>2, <2>3
  <2>6. AsapSettled'
    BY <1>1, <2>1, <2>4 DEF AsapSettled
  <2>7. TypeOK'
    BY <1>1, <2>1, <2>5 DEF TypeOK
  <2> QED  BY <1>1, <2>1, <2>5, <2>6, <2>7 DEF WindowInv
<1> QED  BY <1>3, <1>4

LEMMA AlapPassWindows ==
  ASSUME PlaceType, WindowInv, AlapPass
  PROVE  WindowInv'
<1>1. /\ phase = "alap" /\ TypeOK /\ Len(body) > 0 /\ Node' = Node /\ Edges(body)' = Edges(body)
      /\ UNCHANGED <<body, edges, interleave, ii, asap, cycle, slot, trial>>
      /\ AsapSettled /\ AsapSettled' = AsapSettled
      /\ \A n \in Node : 0 <= asap[n] /\ asap[n] <= alap[n]
  BY DEF WindowInv, AlapPass, Node, Edges, RawEdges, WawEdges, WarEdges, AsapSettled
<1>2. CASE \E n \in Node : Latest(n) < alap[n]
  <2>1. alap' = [n \in Node |-> Latest(n)] /\ UNCHANGED <<phase, height>>
    BY <1>2 DEF AlapPass
  <2>2. \A n \in Node : Latest(n) \in Int /\ asap[n] <= Latest(n)
    <3> SUFFICES ASSUME NEW n \in Node PROVE Latest(n) \in Int /\ asap[n] <= Latest(n)
      OBVIOUS
    <3>1. Latest(n) \in Int
      BY <1>1, LatestMin
    <3>2. CASE Latest(n) = alap[n]
      BY <1>1, <3>1, <3>2
    <3>3. CASE \E e \in Out(n) : Latest(n) = alap[e.dst] - e.latency + e.distance * ii
      <4>1. PICK e \in edges : /\ e.src = n /\ e \in edges
                               /\ Latest(n) = alap[e.dst] - e.latency + e.distance * ii
        BY <3>3 DEF Out
      <4>2. /\ e.dst \in Node /\ e.latency \in Nat /\ e.distance \in {0, 1} /\ ii \in Nat
            /\ asap[e.dst] \in Int /\ asap[n] \in Int /\ alap[e.dst] \in Int
        BY <1>1 DEF PlaceType, EdgeType, TypeOK
      <4>3. PICK d \in Nat : d = e.distance * ii
        <5>1. e.distance = 0 \/ e.distance = 1
          BY <4>2
        <5> QED  BY <4>2, <5>1
      <4>4. asap[e.dst] >= asap[n] + e.latency - d
        BY <1>1, <4>1, <4>3 DEF AsapSettled
      <4>5. asap[e.dst] <= alap[e.dst] /\ Latest(n) = alap[e.dst] - e.latency + d
        BY <1>1, <4>1, <4>2, <4>3
      <4> QED  BY <3>1, <4>2, <4>4, <4>5
    <3> QED  BY <1>1, <3>1, <3>2, <3>3, LatestMin
  <2>3. alap' \in [Node -> Int] /\ \A n \in Node : 0 <= asap'[n] /\ asap'[n] <= alap'[n]
    BY <1>1, <2>1, <2>2
  <2>4. TypeOK'
    BY <1>1, <2>1, <2>3 DEF TypeOK
  <2> QED  BY <1>1, <2>1, <2>3, <2>4 DEF WindowInv
<1>3. CASE ~\E n \in Node : Latest(n) < alap[n]
  <2>1. height' = [n \in Node |-> 0] /\ phase' = "height" /\ alap' = alap
    BY <1>3 DEF AlapPass
  <2>2. height' \in [Node -> Nat]
    BY <2>1
  <2>3. TypeOK'
    BY <1>1, <2>1, <2>2 DEF TypeOK
  <2>4. AlapSettled
    <3> SUFFICES ASSUME NEW e \in edges
                 PROVE  alap[e.dst] + e.distance * ii >= alap[e.src] + e.latency
      BY DEF AlapSettled
    <3>1. /\ e.src \in Node /\ e.dst \in Node /\ e.latency \in Nat /\ e.distance \in {0, 1}
          /\ ii \in Nat /\ e \in Out(e.src)
          /\ \A n \in Node : asap[n] \in Int /\ alap[n] \in Int
      BY <1>1 DEF PlaceType, EdgeType, TypeOK, Out
    <3>2. PICK d \in Nat : d = e.distance * ii
      <4>1. e.distance = 0 \/ e.distance = 1
        BY <3>1
      <4> QED  BY <3>1, <4>1
    <3>3. 0 <= alap[e.dst]
      BY <1>1, <3>1
    <3>4. Latest(e.src) \in Int /\ Latest(e.src) <= alap[e.dst] - e.latency + d
      BY <1>1, <3>1, <3>2, <3>3, LatestMin
    <3>5. alap[e.src] <= Latest(e.src)
      BY <1>3, <3>1, <3>4
    <3> QED  BY <3>1, <3>2, <3>4, <3>5
  <2>5. AlapSettled'
    BY <1>1, <2>1, <2>4 DEF AlapSettled
  <2> QED  BY <1>1, <2>1, <2>3, <2>5 DEF WindowInv
<1> QED  BY <1>2, <1>3

LEMMA HeightPassWindows ==
  ASSUME PlaceType, WindowInv, HeightPass
  PROVE  WindowInv'
<1>1. /\ phase = "height" /\ TypeOK /\ Len(body) > 0 /\ Node' = Node /\ Edges(body)' = Edges(body)
      /\ UNCHANGED <<body, edges, interleave, ii, asap, alap, cycle, slot, trial>>
      /\ AsapSettled /\ AsapSettled' = AsapSettled /\ AlapSettled /\ AlapSettled' = AlapSettled
      /\ \A n \in Node : 0 <= asap[n] /\ asap[n] <= alap[n]
  BY DEF WindowInv, HeightPass, Node, Edges, RawEdges, WawEdges, WarEdges, AsapSettled, AlapSettled
<1>2. height' \in [Node -> Nat] /\ phase' \in {"height", "place"}
  <2>1. CASE \E n \in Node : Raised(n) > height[n]
    BY <1>1, <2>1, RaisedNat DEF HeightPass
  <2>2. CASE ~\E n \in Node : Raised(n) > height[n]
    BY <1>1, <2>2 DEF HeightPass, TypeOK
  <2> QED  BY <2>1, <2>2
<1>3. TypeOK'
  BY <1>1, <1>2 DEF TypeOK
<1> QED  BY <1>1, <1>2, <1>3 DEF WindowInv

LEMMA TryCycleWindows ==
  ASSUME PlaceType, WindowInv, NEW n \in Node, TryCycle(n)
  PROVE  WindowInv'
<1>1. /\ phase = "place" /\ TypeOK /\ Len(body) > 0 /\ Node' = Node /\ Edges(body)' = Edges(body)
      /\ UNCHANGED <<body, edges, interleave, ii, phase, asap, alap, height>>
      /\ AsapSettled /\ AsapSettled' = AsapSettled /\ AlapSettled /\ AlapSettled' = AlapSettled
      /\ \A m \in Node : 0 <= asap[m] /\ asap[m] <= alap[m]
  BY DEF WindowInv, TryCycle, Node, Edges, RawEdges, WawEdges, WarEdges, AsapSettled, AlapSettled
<1>2. PICK c \in 0 .. 2 * ii - 1 :
        /\ slot' = [slot EXCEPT ![n] = Unit(n, c)]
        /\ IF UnitFree(n, c) /\ DependencesMet(n, c)
           THEN cycle' = [cycle EXCEPT ![n] = c] /\ trial' = 0
           ELSE trial' = trial + 1 /\ UNCHANGED cycle
  BY DEF TryCycle
<1>3. trial' \in Nat /\ (cycle' = cycle \/ cycle' = [cycle EXCEPT ![n] = c])
  BY <1>1, <1>2 DEF TypeOK
<1>4. c \in -1 .. 2 * ii - 1
  BY <1>1 DEF TypeOK
<1>5. \A m \in Node : cycle'[m] \in -1 .. 2 * ii - 1
  <2>1. cycle \in [Node -> Int] /\ \A m \in Node : cycle[m] \in -1 .. 2 * ii - 1
    BY <1>1 DEF PlaceType, TypeOK
  <2> QED  BY <1>3, <1>4, <2>1
<1>6. /\ slot \in [Node -> Slot] /\ slot' \in [Node -> Slot]
      /\ \A m \in Node \ {n} : slot'[m] = slot[m]
      /\ slot'[n] = slot[n] \/ {slot'[n], slot[n]} \subseteq Load
  <2>1. slot \in [Node -> Slot]
    BY <1>1 DEF TypeOK
  <2>2. Unit(n, c) = slot[n] \/ {Unit(n, c), slot[n]} \subseteq Load
    BY DEF Unit, Load
  <2>3. Unit(n, c) \in Slot
    BY <2>1, <2>2 DEF Slot, Load
  <2> QED  BY <1>2, <2>1, <2>2, <2>3
<1>7. \A m \in Node : slot'[m] = body[m].slot \/ {slot'[m], body[m].slot} \subseteq Load
  <2>1. \A m \in Node : slot[m] = body[m].slot \/ {slot[m], body[m].slot} \subseteq Load
    BY <1>1 DEF TypeOK
  <2> QED  BY <1>6, <2>1
<1>8. TypeOK'
  BY <1>1, <1>3, <1>5, <1>6, <1>7 DEF TypeOK
<1> QED  BY <1>1, <1>8 DEF WindowInv

LEMMA NextIIWindows ==
  ASSUME PlaceType, WindowInv, NEW n \in Node, NextII(n)
  PROVE  WindowInv'
<1>1. /\ phase = "place" /\ TypeOK /\ Len(body) > 0 /\ Node' = Node /\ Edges(body)' = Edges(body)
      /\ UNCHANGED <<body, edges, interleave, asap, alap, height, slot>> /\ trial' = 0
  BY DEF WindowInv, NextII, Node, Edges, RawEdges, WawEdges, WarEdges
<1>2. CASE ii < MaxII
  <2>1. ii' = ii + 1 /\ cycle' = [m \in Node |-> -1] /\ phase' = "asap"
    BY <1>2 DEF NextII
  <2>2. ii' \in Nat \ {0}
    BY <1>1, <2>1 DEF TypeOK
  <2>3. -1 \in -1 .. 2 * ii' - 1
    BY <2>2, UnplacedInRange
  <2>4. \A m \in Node : cycle'[m] \in -1 .. 2 * ii' - 1
    BY <2>1, <2>3
  <2>5. TypeOK'
    BY <1>1, <2>1, <2>2, <2>4 DEF TypeOK
  <2> QED  BY <1>1, <2>1, <2>5 DEF WindowInv
<1>3. CASE ~(ii < MaxII)
  <2>1. phase' = "fallback" /\ UNCHANGED <<ii, cycle>>
    BY <1>3 DEF NextII
  <2>2. TypeOK'
    BY <1>1, <2>1 DEF TypeOK
  <2> QED  BY <1>1, <2>1, <2>2 DEF WindowInv
<1> QED  BY <1>2, <1>3

LEMMA SuccessWindows ==
  ASSUME PlaceType, WindowInv, Success
  PROVE  WindowInv'
<1>1. /\ phase = "place" /\ phase' = "pipelined" /\ TypeOK /\ Node' = Node
      /\ Edges(body)' = Edges(body)
      /\ UNCHANGED <<body, edges, interleave, ii, asap, alap, height, cycle, slot, trial>>
  BY DEF WindowInv, Success, Node, Edges, RawEdges, WawEdges, WarEdges
<1>2. \A n \in Node : cycle[n] >= 0
  BY DEF Success, Unplaced, Placed
<1>3. TypeOK'
  BY <1>1 DEF TypeOK
<1> QED  BY <1>1, <1>2, <1>3 DEF WindowInv

LEMMA FallbackWindows ==
  ASSUME PlaceType, WindowInv, FallbackSchedule
  PROVE  WindowInv'
<1>1. /\ phase' = "serial" /\ TypeOK /\ Node' = Node /\ Edges(body)' = Edges(body)
      /\ UNCHANGED <<body, edges, interleave, asap, alap, height, trial>>
      /\ ii' = Len(body) /\ cycle' = [n \in Node |-> n - 1]
      /\ slot' = [n \in Node |-> SerialUnit(body[n].slot)]
  BY DEF WindowInv, FallbackSchedule, Node, Edges, RawEdges, WawEdges, WarEdges
<1>2. Len(body) \in Nat \ {0} /\ Node = 1..Len(body)
  BY DEF PlaceType, FallbackSchedule, Node
<1>3. \A n \in Node : cycle'[n] \in -1 .. 2 * ii' - 1 /\ cycle'[n] >= 0
  <2> SUFFICES ASSUME NEW n \in Node PROVE cycle'[n] \in -1 .. 2 * ii' - 1 /\ cycle'[n] >= 0
    OBVIOUS
  <2>1. cycle'[n] = n - 1
    BY <1>1
  <2>2. PICK l \in Nat \ {0} : l = Len(body) /\ ii' = l /\ n \in 1..l
    BY <1>1, <1>2
  <2>3. n - 1 \in -1 .. 2 * l - 1 /\ n - 1 >= 0
    BY <2>2
  <2> QED  BY <2>1, <2>2, <2>3
<1>4. /\ slot' \in [Node -> Slot]
      /\ \A n \in Node : slot'[n] = SerialUnit(body[n].slot)
  BY <1>1 DEF SerialUnit, Slot
<1>5. TypeOK'
  BY <1>1, <1>2, <1>3, <1>4 DEF TypeOK
<1> QED  BY <1>1, <1>3, <1>5 DEF WindowInv

LEMMA WindowStep == PlaceType /\ WindowInv /\ [Next]_vars => WindowInv'
<1> SUFFICES ASSUME PlaceType, WindowInv, [Next]_vars PROVE WindowInv'
  OBVIOUS
<1>1. CASE \E b \in Bodies, il \in Interleaves, target \in Targets : ScheduleSms(b, il, target)
  BY <1>1, ScheduleSmsWindows
<1>2. CASE \E n \in Node : TryCycle(n) \/ NextII(n)
  BY <1>2, TryCycleWindows, NextIIWindows
<1>3. CASE UNCHANGED vars
  <2>1. UNCHANGED <<body, edges, interleave, ii, phase, asap, alap, height, cycle, slot, trial>>
        /\ Node' = Node /\ Edges(body)' = Edges(body)
        /\ AsapSettled' = AsapSettled /\ AlapSettled' = AlapSettled
    BY <1>3 DEF vars, Node, Edges, RawEdges, WawEdges, WarEdges, AsapSettled, AlapSettled
  <2>2. TypeOK' = TypeOK
    BY <2>1 DEF TypeOK
  <2> QED  BY <2>1, <2>2 DEF WindowInv
<1> QED
  BY <1>1, <1>2, <1>3, AsapPassWindows, AlapPassWindows, HeightPassWindows, SuccessWindows,
     FallbackWindows DEF Next, Schedule

LEMMA WindowAlways == Spec => []WindowInv
<1>1. SchedInv => PlaceType
  BY DEF SchedInv
<1> QED  BY <1>1, SchedAlways, WindowInit, WindowStep, PTL DEF Spec

(* The types of the schedule: cycles lie in two times the II, and a node   *)
(* keeps its unit but that a load may move to the other load unit, or its  *)
(* serial unit.                                                            *)
THEOREM SchedulerTypeCorrect == Spec => []TypeOK
<1>1. WindowInv => TypeOK
  BY DEF WindowInv
<1> QED  BY <1>1, WindowAlways, PTL

(* A step that changes neither asap nor what it is computed from.          *)
LEMMA StaleKept ==
  ASSUME StaleInv, UNCHANGED <<body, edges, interleave, asap>>,
         phase \in {"asap", "alap", "height", "place"},
         \/ ii' = ii /\ (phase' # "asap" => phase # "asap" \/ \A n \in Node : ~Later(n))
         \/ ii' = ii + 1 /\ phase # "asap",
         PlaceType, TypeOK
  PROVE  StaleInv'
<1>1. PICK i \in 1..ii : AsapOf(i)
  BY DEF StaleInv
<1>2. /\ ii \in Nat /\ i \in 1..ii' /\ i \in Nat /\ Node' = Node
      /\ \A n \in Node : asap[n] \in Int /\ EarliestAt(i, n) \in Nat
      /\ \A n : EarliestAt(i, n)' = EarliestAt(i, n)
  <2>1. ii \in Nat /\ i \in 1..ii' /\ i \in Nat /\ Node' = Node
    BY DEF TypeOK, Node
  <2>2. \A n \in Node : asap[n] \in Int /\ EarliestAt(i, n) \in Nat
    BY <2>1, EarliestMax DEF TypeOK
  <2>3. \A n : In(n)' = In(n)
    BY DEF In
  <2>4. \A n : EarliestAt(i, n)' = EarliestAt(i, n)
    BY <2>3 DEF EarliestAt
  <2> QED  BY <2>1, <2>2, <2>4
<1>3. i < ii' \/ phase' # "asap" => \A n \in Node : asap[n] >= EarliestAt(i, n)
  <2> SUFFICES ASSUME i < ii' \/ phase' # "asap", NEW n \in Node
               PROVE  asap[n] >= EarliestAt(i, n)
    OBVIOUS
  <2>1. CASE i < ii \/ phase # "asap"
    BY <1>1, <2>1 DEF AsapOf
  <2>2. CASE i = ii /\ phase = "asap"
    <3>1. ~Later(n)
      BY <1>2, <2>2
    <3> QED  BY <1>2, <2>2, <3>1 DEF Later, Earliest
  <2> QED  BY <1>2, <2>1, <2>2
<1>4. AsapOf(i)'
  BY <1>1, <1>2, <1>3 DEF AsapOf, IsFirst
<1> QED  BY <1>2, <1>4 DEF StaleInv

LEMMA AsapPassStale ==
  ASSUME PlaceType, TypeOK, StaleInv, AsapPass
  PROVE  StaleInv'
<1>1. /\ phase = "asap" /\ UNCHANGED <<body, edges, interleave, ii>> /\ ii \in Nat
      /\ body \in Seq(Instr) /\ asap \in [1..Len(body) -> Int] /\ edges = Edges(body)
      /\ Node = 1..Len(body) /\ Node' = Node
  BY DEF AsapPass, TypeOK, Node
<1>2. CASE ~\E n \in Node : Later(n)
  <2>1. asap' = asap
    BY <1>2 DEF AsapPass
  <2> QED  BY <1>1, <1>2, <2>1, StaleKept
<1>3. CASE \E n \in Node : Later(n)
  <2>1. PICK i \in 1..ii : AsapOf(i)
    BY <1>1 DEF StaleInv
  <2>2. asap' = [n \in Node |-> Max({asap[n], Earliest(n)})] /\ phase' = phase
    BY <1>3 DEF AsapPass
  <2>3. \A n \in Node : /\ Earliest(n) \in Nat /\ EarliestAt(i, n) \in Nat
                        /\ Earliest(n) <= EarliestAt(i, n)
    <3> SUFFICES ASSUME NEW n \in Node
                 PROVE  /\ Earliest(n) \in Nat /\ EarliestAt(i, n) \in Nat
                        /\ Earliest(n) <= EarliestAt(i, n)
      OBVIOUS
    <3>1. i \in Nat /\ i <= ii
      BY <1>1
    <3>2. Earliest(n) \in Nat /\ EarliestAt(i, n) \in Nat
      BY <1>1, <3>1, EarliestMax DEF Earliest
    <3>3. \A m \in 1..Len(body) : asap[m] <= asap[m]
      BY <1>1
    <3>4. Max(Starts(edges, asap, ii, n)) <= Max(Starts(edges, asap, i, n))
      BY <1>1, <3>1, <3>3, StartsMonotone
    <3> QED  BY <3>2, <3>4, EarliestStarts DEF Earliest
  <2>4. i = ii
    <3>1. PICK n \in Node : Later(n)
      BY <1>3
    <3>2. ~(asap[n] >= EarliestAt(i, n))
      BY <1>1, <2>3, <3>1 DEF Later
    <3>3. ~(i < ii)
      BY <2>1, <3>2 DEF AsapOf
    <3> QED  BY <1>1, <3>3
  <2>5. \A n \in Node : asap'[n] = Earliest(n) /\ asap[n] <= asap'[n] /\ asap'[n] \in Int
    <3> SUFFICES ASSUME NEW n \in Node
                 PROVE  asap'[n] = Earliest(n) /\ asap[n] <= Earliest(n) /\ Earliest(n) \in Int
      OBVIOUS
    <3>1. asap[n] <= Earliest(n) /\ asap[n] \in Int /\ Earliest(n) \in Nat
      BY <1>1, <2>1, <2>3, <2>4 DEF AsapOf, Earliest
    <3>2. Max({asap[n], Earliest(n)}) = Earliest(n)
      <4>1. PICK a \in Int, b \in Int : a = asap[n] /\ b = Earliest(n) /\ a <= b
        BY <3>1
      <4>2. Max({a, b}) = b
        BY <4>1 DEF Max
      <4> QED  BY <4>1, <4>2
    <3> QED  BY <2>2, <3>1, <3>2
  <2>6. ASSUME NEW n \in Node PROVE asap'[n] <= EarliestAt(i, n)'
    <3>1. PICK A : A = asap' /\ A \in [1..Len(body) -> Int]
      BY <1>1, <2>2, <2>5
    <3>2. Max(Starts(edges, asap, i, n)) <= Max(Starts(edges, A, i, n))
      <4>1. \A m \in 1..Len(body) : asap[m] <= A[m]
        BY <1>1, <2>5, <3>1
      <4>2. i \in Nat /\ i <= i
        BY <1>1, <2>4
      <4> QED  BY <1>1, <3>1, <4>1, <4>2, StartsMonotone
    <3>3. EarliestAt(i, n)' = Max(Starts(edges', asap', i, n))
      <4>1. {d \in In(n)' : asap'[d.src] >= 0} = {d \in edges' : d.dst = n /\ asap'[d.src] >= 0}
        BY DEF In
      <4> QED  BY <4>1 DEF EarliestAt, Starts
    <3>4. asap'[n] = Max(Starts(edges, asap, i, n))
      BY <2>4, <2>5, EarliestStarts DEF Earliest
    <3> QED  BY <1>1, <3>1, <3>2, <3>3, <3>4
  <2>7. IsFirst(i)'
    BY <1>1, <2>1 DEF AsapOf, IsFirst
  <2>8. ~(i < ii') /\ phase' = "asap" /\ Node' = Node
    BY <1>1, <2>2, <2>4
  <2>9. AsapOf(i)'
    BY <1>1, <2>6, <2>7, <2>8 DEF AsapOf
  <2> QED  BY <1>1, <2>9 DEF StaleInv
<1> QED  BY <1>2, <1>3

LEMMA ScheduleSmsStale ==
  ASSUME NEW b \in Bodies, NEW il \in Interleaves, NEW target \in Targets,
         ScheduleSms(b, il, target)
  PROVE  StaleInv'
<1>1. b \in Seq(Instr) /\ Len(b) \in Nat
  BY SchedulerAssumption
<1>2. /\ body' = b /\ edges' = Edges(b) /\ interleave' = il /\ Node' = 1..Len(b)
      /\ asap' = [n \in 1..Len(b) |-> -1]
  BY DEF ScheduleSms, Node
<1>3. CASE b # <<>> /\ FirstII(b, il, target) \in 1..MaxII
  <2>1. ii' = FirstII(b, il, target) /\ phase' = "asap"
    BY <1>3 DEF ScheduleSms
  <2>2. PICK i \in 1..ii' : i = ii' /\ i \in Nat
    BY <1>3, <2>1, SchedulerAssumption
  <2>3. IsFirst(i)'
    BY <1>2, <2>1, <2>2 DEF IsFirst
  <2>4. \A n \in 1..Len(b) : asap'[n] <= EarliestAt(i, n)'
    <3> SUFFICES ASSUME NEW n \in 1..Len(b) PROVE asap'[n] <= EarliestAt(i, n)'
      OBVIOUS
    <3>1. PICK A : A = asap' /\ A \in [1..Len(b) -> Int]
      BY <1>2
    <3>2. Max(Starts(Edges(b), A, i, n)) \in Nat
      BY <1>1, <2>2, <3>1, StartsMax
    <3>3. EarliestAt(i, n)' = Max(Starts(edges', asap', i, n))
      <4>1. {d \in In(n)' : asap'[d.src] >= 0} = {d \in edges' : d.dst = n /\ asap'[d.src] >= 0}
        BY DEF In
      <4> QED  BY <4>1 DEF EarliestAt, Starts
    <3>4. EarliestAt(i, n)' \in Nat
      BY <1>2, <3>1, <3>2, <3>3
    <3> QED  BY <1>2, <3>4
  <2>5. AsapOf(i)'
    BY <1>2, <2>1, <2>2, <2>3, <2>4 DEF AsapOf
  <2> QED  BY <2>2, <2>5 DEF StaleInv
<1>4. CASE ~(b # <<>> /\ FirstII(b, il, target) \in 1..MaxII)
  <2>1. phase' \in {"pipelined", "fallback"}
    BY <1>4 DEF ScheduleSms
  <2> QED  BY <2>1 DEF StaleInv
<1> QED  BY <1>3, <1>4

LEMMA StaleStep == PlaceType /\ TypeOK /\ StaleInv /\ [Next]_vars => StaleInv'
<1> SUFFICES ASSUME PlaceType, TypeOK, StaleInv, [Next]_vars PROVE StaleInv'
  OBVIOUS
<1>1. CASE \E b \in Bodies, il \in Interleaves, target \in Targets : ScheduleSms(b, il, target)
  BY <1>1, ScheduleSmsStale
<1>2. CASE AsapPass
  BY <1>2, AsapPassStale
<1>3. CASE AlapPass \/ HeightPass \/ \E n \in Node : TryCycle(n) \/ NextII(n)
  <2>1. /\ UNCHANGED <<body, edges, interleave, asap>>
        /\ phase \in {"alap", "height", "place"}
        /\ ii' = ii \/ ii' = ii + 1
    BY <1>3 DEF AlapPass, HeightPass, TryCycle, NextII
  <2> QED  BY <2>1, StaleKept
<1>4. CASE Success \/ FallbackSchedule
  BY <1>4 DEF Success, FallbackSchedule, StaleInv
<1>5. CASE UNCHANGED vars
  <2>1. UNCHANGED <<body, edges, interleave, ii, phase, asap>> /\ Node' = Node
    BY <1>5 DEF vars, Node
  <2>2. \A i, n : EarliestAt(i, n)' = EarliestAt(i, n)
    BY <2>1 DEF EarliestAt, In
  <2>3. \A i : AsapOf(i) => AsapOf(i)'
    BY <2>1, <2>2 DEF AsapOf, IsFirst
  <2> QED  BY <2>1, <2>3 DEF StaleInv
<1> QED  BY <1>1, <1>2, <1>3, <1>4, <1>5 DEF Next, Schedule

(* The bounds of the window, with asap and alap apart from the state.      *)
LEMMA WindowBounds ==
  ASSUME NEW a \in Nat, NEW l \in Int, a <= l, NEW i \in Nat \ {0}
  PROVE  Max({0, a}) <= Min({IF l < 0 THEN i - 1 ELSE l, i * 2 - 1}) <=> a < 2 * i
<1>1. Max({0, a}) = a
  BY DEF Max
<1>2. PICK u \in Int : u = i * 2 - 1 /\ (a <= u <=> a < 2 * i)
  OBVIOUS
<1>3. (IF l < 0 THEN i - 1 ELSE l) = l
  OBVIOUS
<1>4. Min({l, u}) = IF l <= u THEN l ELSE u
  BY DEF Min
<1>5. a <= Min({l, u}) <=> a <= u
  BY <1>4
<1> QED  BY <1>1, <1>2, <1>3, <1>5

(* Once the passes of _compute_asap_alap have settled, the window of a     *)
(* node is closed only if the node begins later than two IIs, and the      *)
(* bounds of the windows respect every dependence, whatever an earlier II  *)
(* has left in asap; but asap is still the one of the first II that was    *)
(* tried: it never falls, and a greater II asks for less.                  *)
THEOREM WindowsStayOpen == Spec => []WindowsOpen
<1>1. WindowInv /\ StaleInv => WindowsOpen
  <2> SUFFICES ASSUME WindowInv, StaleInv, phase \in {"height", "place"} PROVE WindowsOpen
    BY DEF WindowsOpen
  <2>1. /\ AsapSettled /\ AlapSettled /\ ii \in Nat \ {0}
        /\ \A n \in Node : /\ 0 <= asap[n] /\ asap[n] <= alap[n]
                           /\ asap[n] \in Int /\ alap[n] \in Int
    BY DEF WindowInv, TypeOK
  <2>2. \A n \in Node : EStart(n) <= LStart(n) <=> asap[n] < 2 * ii
    BY <2>1, WindowBounds DEF EStart, LStart
  <2>3. \A e \in edges : asap[e.dst] + e.distance * ii >= asap[e.src] + e.latency
    <3> SUFFICES ASSUME NEW e \in edges
                 PROVE  asap[e.dst] + e.distance * ii >= asap[e.src] + e.latency
      OBVIOUS
    <3>1. /\ e.src \in Node /\ e.dst \in Node /\ e.latency \in Nat /\ e.distance \in {0, 1}
      BY EdgesType DEF WindowInv, TypeOK, Node
    <3>2. PICK d \in Nat : d = e.distance * ii
      <4>1. e.distance = 0 \/ e.distance = 1
        BY <3>1
      <4> QED  BY <2>1, <4>1
    <3>3. asap[e.dst] >= asap[e.src] + e.latency - d
      BY <2>1, <3>2 DEF AsapSettled
    <3> QED  BY <2>1, <3>1, <3>2, <3>3
  <2>4. PICK i \in 1..ii : AsapOf(i)
    BY DEF StaleInv
  <2>5. \A n \in Node : asap[n] = EarliestAt(i, n)
    <3> SUFFICES ASSUME NEW n \in Node PROVE asap[n] = EarliestAt(i, n)
      OBVIOUS
    <3>1. asap[n] <= EarliestAt(i, n) /\ asap[n] >= EarliestAt(i, n) /\ asap[n] \in Int
      BY <2>1, <2>4 DEF AsapOf
    <3>2. EarliestAt(i, n) \in Int
      <4>1. i \in Nat /\ body \in Seq(Instr) /\ asap \in [1..Len(body) -> Int]
            /\ edges = Edges(body)
        BY <2>1 DEF WindowInv, TypeOK, Node
      <4>2. Max(Starts(edges, asap, i, n)) \in Nat
        BY <4>1, StartsMax
      <4> QED  BY <4>2, EarliestStarts
    <3> QED  BY <3>1, <3>2
  <2>6. PICK target \in Targets : i = FirstII(body, interleave, target)
    BY <2>4 DEF AsapOf, IsFirst
  <2> QED  BY <2>1, <2>2, <2>3, <2>5, <2>6 DEF WindowsOpen, AlapSettled
<1>2. Init => StaleInv
  BY DEF Init, StaleInv
<1>3. WindowInv => TypeOK
  BY DEF WindowInv
<1>4. SchedInv => PlaceType
  BY DEF SchedInv
<1> QED
  BY <1>1, <1>2, <1>3, <1>4, StaleStep, WindowAlways, SchedAlways, PTL DEF Spec

(* The bundles.                                                            *)
LEMMA MaxOfOne ==
  ASSUME NEW n \in Int
  PROVE  Max({n}) = n
  BY DEF Max

LEMMA StagesBounded ==
  ASSUME PlaceType, \A n \in Node : cycle[n] >= 0
  PROVE  MaxStage \in Nat /\ \A n \in Node : Stage(n) \in Nat /\ Stage(n) <= MaxStage
<1> DEFINE f == [n \in Node |-> Stage(n)]
           S == {0} \cup {Stage(n) : n \in Node}
<1>1. ii \in Nat \ {0} /\ Len(body) \in Nat /\ Node = 1..Len(body)
  BY DEF PlaceType, Node
<1>2. \A n \in Node : Stage(n) \in Nat
  <2> SUFFICES ASSUME NEW n \in Node PROVE Stage(n) \in Nat
    OBVIOUS
  <2>1. PICK c \in Nat, i \in Nat \ {0} : c = cycle[n] /\ i = ii
    BY <1>1 DEF PlaceType
  <2>2. c \div i \in Nat
    BY <2>1
  <2> QED  BY <2>1, <2>2 DEF Stage
<1>3. f \in [1..Len(body) -> Int] /\ \A n \in Node : f[n] = Stage(n)
  BY <1>1, <1>2
<1>4. PICK bound \in Nat : \A n \in Node : f[n] <= bound
  BY <1>1, <1>3, TableBounded
<1>5. S \in SUBSET Nat /\ S # {} /\ \A s \in S : s <= bound
  BY <1>2, <1>3, <1>4
<1>6. Max(S) \in S /\ \A s \in S : s <= Max(S)
  <2>1. S \in SUBSET Int /\ bound \in Int
    BY <1>5
  <2> HIDE DEF S
  <2> QED  BY <1>5, <2>1, MaxOfBounded
<1>7. Max(S) = MaxStage
  BY DEF MaxStage
<1> QED  BY <1>2, <1>5, <1>6, <1>7

(* A node that shares its place in a bundle with no other is issued by the *)
(* bundles of its own and the later stages of the ramp-up, by the kernel,  *)
(* and by the drain up to its own stage.                                   *)
LEMMA AloneIsIssued ==
  ASSUME PlaceType, \A k \in Node : cycle[k] >= 0, NEW n \in Node,
         \A m \in Node :
           cycle[m] % ii = cycle[n] % ii /\ BundleUnit(slot[m]) = BundleUnit(slot[n]) => m = n
  PROVE  Issues(n) = MaxStage + 1
<1> DEFINE c == cycle[n] % ii
           u == BundleUnit(slot[n])
           Ramp == {stage \in 0 .. MaxStage - 1 : n \in Prologue(stage, c, u)}
           Drain == {stage \in 1 .. MaxStage : n \in Epilogue(stage, c, u)}
<1>1. MaxStage \in Nat /\ \A k \in Node : Stage(k) \in Nat /\ Stage(k) <= MaxStage
  BY StagesBounded
<1>2. PICK last \in Nat, own \in Nat : last = MaxStage /\ own = Stage(n) /\ own <= last
  BY <1>1
<1>3. ASSUME NEW ns \in SUBSET Node, \A m \in ns : cycle[m] % ii = c
      PROVE  n \in LastOf(ns, u) <=> n \in ns
  <2> DEFINE us == {m \in ns : BundleUnit(slot[m]) = u}
  <2>1. us = IF n \in ns THEN {n} ELSE {}
    BY <1>3
  <2>2. n \in Int
    BY DEF Node
  <2>3. CASE n \in ns
    <3>1. us = {n}
      BY <2>1, <2>3
    <3>2. LastOf(ns, u) = {Max(us)}
      BY <3>1 DEF LastOf
    <3> QED  BY <2>2, <2>3, <3>1, <3>2, MaxOfOne
  <2>4. CASE n \notin ns
    <3>1. us = {}
      BY <2>1, <2>4
    <3>2. LastOf(ns, u) = {}
      BY <3>1 DEF LastOf
    <3> QED  BY <2>4, <3>2
  <2> QED  BY <2>3, <2>4
<1>4. \A stage \in Int : n \in Prologue(stage, c, u) <=> own <= stage
  <2> SUFFICES ASSUME NEW stage \in Int PROVE n \in Prologue(stage, c, u) <=> own <= stage
    OBVIOUS
  <2> DEFINE ns == {m \in Node : Stage(m) <= stage /\ cycle[m] % ii = c}
  <2>1. Prologue(stage, c, u) = LastOf(ns, u)
    BY DEF Prologue
  <2>2. n \in LastOf(ns, u) <=> n \in ns
    <3>1. ns \in SUBSET Node /\ \A m \in ns : cycle[m] % ii = c
      OBVIOUS
    <3> HIDE DEF ns, c, u
    <3> QED  BY <1>3, <3>1
  <2>3. n \in ns <=> own <= stage
    BY <1>2
  <2> QED  BY <2>1, <2>2, <2>3
<1>5. \A stage \in Int : n \in Epilogue(stage, c, u) <=> own >= stage
  <2> SUFFICES ASSUME NEW stage \in Int PROVE n \in Epilogue(stage, c, u) <=> own >= stage
    OBVIOUS
  <2> DEFINE ns == {m \in Node : Stage(m) >= stage /\ cycle[m] % ii = c}
  <2>1. Epilogue(stage, c, u) = LastOf(ns, u)
    BY DEF Epilogue
  <2>2. n \in LastOf(ns, u) <=> n \in ns
    <3>1. ns \in SUBSET Node /\ \A m \in ns : cycle[m] % ii = c
      OBVIOUS
    <3> HIDE DEF ns, c, u
    <3> QED  BY <1>3, <3>1
  <2>3. n \in ns <=> own >= stage
    BY <1>2
  <2> QED  BY <2>1, <2>2, <2>3
<1>6. Kernel(c, slot[n]) = {n}
  BY DEF Kernel
<1>7. Ramp = own .. last - 1 /\ Drain = 1 .. own
  <2> HIDE DEF c, u
  <2> QED  BY <1>2, <1>4, <1>5
<1>8. Cardinality(Ramp) = last - own /\ Cardinality(Drain) = own
  <2>1. Cardinality(own .. last - 1) = IF own > last - 1 THEN 0 ELSE last - 1 - own + 1
    BY FS_Interval
  <2>2. Cardinality(1 .. own) = IF 1 > own THEN 0 ELSE own - 1 + 1
    BY FS_Interval
  <2>3. Cardinality(own .. last - 1) = last - own /\ Cardinality(1 .. own) = own
    BY <1>2, <2>1, <2>2
  <2> QED  BY <1>7, <2>3
<1>9. Issues(n) = Cardinality(Ramp) + 1 + Cardinality(Drain)
  BY <1>6 DEF Issues
<1> HIDE DEF Ramp, Drain
<1> QED  BY <1>2, <1>8, <1>9

LEMMA EvenlyIssued == SchedInv /\ WindowInv => IssuedEvenly
<1> SUFFICES ASSUME SchedInv, WindowInv, phase \in {"pipelined", "serial"}, NEW n \in Node,
                    ~(slot[n] \in Load /\ \E m \in At(cycle[n]) \ {n} : slot[m] \in Load)
             PROVE  Issues(n) = MaxStage + 1
  BY DEF IssuedEvenly
<1>1. PlaceType /\ UnitsExclusive /\ (\A k \in Node : cycle[k] >= 0) /\ Placed = Node
  BY DEF SchedInv, WindowInv, Placed
<1>2. \A m \in Node :
        cycle[m] % ii = cycle[n] % ii /\ BundleUnit(slot[m]) = BundleUnit(slot[n]) => m = n
  <2> SUFFICES ASSUME NEW m \in Node, cycle[m] % ii = cycle[n] % ii,
                      BundleUnit(slot[m]) = BundleUnit(slot[n])
               PROVE  m = n
    OBVIOUS
  <2>1. CASE slot[n] \in Load
    <3>1. slot[m] \in Load /\ m \in At(cycle[n])
      BY <1>1, <2>1 DEF BundleUnit, Load, At
    <3> QED  BY <2>1, <3>1
  <2>2. CASE slot[n] \notin Load
    <3>1. slot[m] = slot[n]
      BY <2>2 DEF BundleUnit, Load
    <3> QED  BY <1>1, <3>1 DEF UnitsExclusive
  <2> QED  BY <2>1, <2>2
<1> QED  BY <1>1, <1>2, AloneIsIssued

(* Ramp-up, kernel and drain issue each instruction for as many iterations *)
(* as every other, unless two loads share a cycle of the kernel.           *)
THEOREM InstructionsIssuedEvenly == Spec => []IssuedEvenly
  BY SchedAlways, WindowAlways, EvenlyIssued, PTL
=============================================================================
