-------------------------- MODULE MCGeneratedKernel --------------------------
(* GeneratedKernel for a tile of two by two micro tiles.                   *)
EXTENDS GeneratedKernel

FewSteps == {4, 8}
=============================================================================
