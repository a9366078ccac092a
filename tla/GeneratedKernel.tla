--------------------------- MODULE GeneratedKernel ---------------------------
(***************************************************************************)
(* The C++ kernel that compiler/kernel_generator.py writes, as the program *)
(* it is: two loops over the micro tiles of C and, in each, a K loop that  *)
(* is pipelined by hand over four accumulators.  A vector is named by the  *)
(* pair of addresses it was loaded from, in chunks of eight elements; a    *)
(* sum is the sequence of the products that went into it.                  *)
(***************************************************************************)
EXTENDS Integers, Sequences, SequencesExt

CONSTANTS
  MTile, KTile, NTile,  \* KernelConfig, in elements, multiples of Micro
  InterleaveFactor,     \* interleave_factor
  KStepCounts           \* the values of k_steps

Micro == 8

VARIABLES
  k_steps,
  mi, ni, k,        \* the loop counters
  stage,            \* zero, prologue, loop, epilogue, store, done
  load, load2,      \* va_load and vb_load, va_load2 and vb_load2
  acc,              \* acc0 .. acc3
  acc_tmp,
  C_l1              \* the chunks of C: what was there, or part of a sum

vars == <<k_steps, mi, ni, k, stage, load, load2, acc, acc_tmp, C_l1>>

MIters == MTile \div Micro
NIters == NTile \div Micro

(* a_offset, b_offset and c_offset, in chunks                              *)
AOffset == mi * KTile
BOffset == ni
COffset == mi * NTile + ni

(* One load of A covers four chunks; the next one of B begins one further. *)
Pair(i) == [a |-> AOffset + 4 * i, b |-> BOffset + i]
NoPair  == [a |-> -1, b |-> -1]

Old == <<"old">>
Chunks == 0 .. (MTile * NTile) \div Micro - 1

Init ==
  /\ k_steps \in KStepCounts
  /\ mi = 0 /\ ni = 0 /\ k = 0
  /\ stage = "zero"
  /\ load = NoPair /\ load2 = NoPair
  /\ acc = [chain \in 0..3 |-> <<>>]
  /\ acc_tmp = <<>>
  /\ C_l1 = [chunk \in Chunks |-> Old]

ZeroAccumulators ==
  /\ stage = "zero"
  /\ acc' = [chain \in 0..3 |-> <<>>]
  /\ stage' = "prologue"
  /\ UNCHANGED <<k_steps, mi, ni, k, load, load2, acc_tmp, C_l1>>

(* Two pairs are loaded before the loop, whose counter starts beyond them. *)
Prologue ==
  /\ stage = "prologue"
  /\ load' = Pair(0) /\ load2' = Pair(1)
  /\ k' = InterleaveFactor - 1
  /\ stage' = "loop"
  /\ UNCHANGED <<k_steps, mi, ni, acc, acc_tmp, C_l1>>

SteadyState ==
  /\ stage = "loop" /\ k < k_steps
  /\ load' = Pair(k)
  /\ acc' = [acc EXCEPT ![k % 4] = Append(@, load2)]
  /\ load2' = load'
  /\ k' = k + 1
  /\ UNCHANGED <<k_steps, mi, ni, stage, acc_tmp, C_l1>>

Epilogue ==
  /\ stage = "loop" /\ k >= k_steps
  /\ acc' = [acc EXCEPT ![1] = Append(@, load2)]
  /\ acc_tmp' = acc'[0] \o acc'[1] \o acc'[2] \o acc'[3]
  /\ stage' = "store"
  /\ UNCHANGED <<k_steps, mi, ni, k, load, load2, C_l1>>

(* store_v writes eight chunks in a row, over what is there.               *)
Store ==
  /\ stage = "store"
  /\ C_l1' = [chunk \in Chunks |->
                IF chunk \in COffset .. COffset + Micro - 1
                THEN <<mi, ni, chunk - COffset, acc_tmp>> ELSE C_l1[chunk]]
  /\ IF ni + 1 < NIters
     THEN /\ ni' = ni + 1 /\ mi' = mi /\ stage' = "zero"
     ELSE /\ ni' = 0 /\ mi' = mi + 1
          /\ stage' = IF mi + 1 < MIters THEN "zero" ELSE "done"
  /\ UNCHANGED <<k_steps, k, load, load2, acc, acc_tmp>>

Next == ZeroAccumulators \/ Prologue \/ SteadyState \/ Epilogue \/ Store

Spec == Init /\ [][Next]_vars

-----------------------------------------------------------------------------
(* The sum that is stored for a micro tile has the product of each of the  *)
(* k_steps pairs of A and B exactly once: C += A x B over the tile of K.   *)
EachPairOnce ==
  stage = "store" =>
    /\ ToSet(acc_tmp) = {Pair(i) : i \in 0 .. k_steps - 1}
    /\ IsInjective(acc_tmp)
=============================================================================
