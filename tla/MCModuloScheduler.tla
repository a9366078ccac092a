-------------------------- MODULE MCModuloScheduler --------------------------
(* ModuloScheduler on the bodies of the GEMM loop and on all short bodies. *)
EXTENDS ModuloScheduler

c1 == <<"c1", 0>>
c2 == <<"c2", 0>>

Gemm       == GemmInnerLoop(c1, 1)
GemmTwo    == GemmInnerLoop(c2, 2)
GemmBodies ==
  {Gemm, Gemm \o GemmStore(c1, 1), Gemm \o GemmTwo,
   Gemm \o GemmStore(c1, 1) \o GemmTwo \o GemmStore(c2, 2)}

r1 == <<"r", 1>>
r2 == <<"r", 2>>
r3 == <<"r", 3>>

Menu ==
  {I("LOAD_0", 3, {}, {r1}), I("LOAD_1", 1, {r3}, {r2}), I("LOAD_0", 2, {}, {r2}),
   I("VECTOR", 2, {r1}, {r3}), I("VECTOR", 3, {r1, r2, r3}, {r3}),
   I("STORE", 1, {r3}, {}), I("SCALAR", 1, {r2}, {r1})}

Acyclic(b) ==
  \E rank \in [1..Len(b) -> 1..Len(b)] : \A e \in Edges(b) : rank[e.src] < rank[e.dst]

Short(n)    == UNION {{b \in [1..k -> Menu] : Acyclic(b)} : k \in 0..n}
ShortBodies == Short(3)

(* Two chains that want the vector unit in the same cycle, the second with *)
(* its end placed before its beginning.                                    *)
Crossing ==
  {<<I("VECTOR", 8, {}, {r1}), I("VECTOR", 1, {r1}, {}),
     I("VECTOR", 2, {}, {r2}), I("STORE", 4, {r2}, {})>>}

MixedBodies == GemmBodies \cup Crossing \cup ShortBodies

Registers ==
  {r1, r2, r3, c1, c2} \cup ({"va", "vb", "va_acc", "vb_tr", "packed"} \X {1, 2})
=============================================================================
