-------------------------- MODULE MCKernelRegistry --------------------------
(* KernelRegistry on small instances: two kernels, two artifact files, two *)
(* contents, two source hashes that begin alike.                           *)
EXTENDS KernelRegistry, TLC

CONSTANTS p1, p2, n1, n2, bad, far, a1, a2, b1, b2, s1, s2

Suffixes == [a \in Artifact |-> IF a = a1 THEN "elf" ELSE "bin"]
Begins   == [h \in Source \cup Bits |-> IF h = s2 THEN s1 ELSE h]
Outside  == {k \in Key : k.name = far}

Req(n, a, s) == [name |-> n, artifact |-> a, source |-> s]

(* One kernel registered from two files under source hashes that give one  *)
(* key, another under the hash of its file, and two that are refused.      *)
Commands == {Req(n1, a1, s1), Req(n1, a2, s2), Req(n2, a1, None),
             Req(bad, a1, None), Req(far, a1, s1)}

Symmetry == Permutations(Proc) \cup Permutations(Bits)
=============================================================================
