---------------------------- MODULE MCTilePlanner ----------------------------
(* TilePlanner and BankAllocator with the sizes of an AIE2P compute tile.  *)
EXTENDS TilePlanner

Dims(s) == s \X s \X s

(* Tiles whose buffers fill a bank, half a bank or less, in every mixture; *)
(* 56 x 112 x 32, whose second B finds no room in bank 0; 90 x 91 x 45,    *)
(* which fills every bank that has less than the 256 bytes of the stack.   *)
FullTiles == Dims({32, 64, 90, 128}) \cup {<<56, 112, 32>>, <<90, 91, 45>>, <<64, 64, 256>>}

D(class, size, align) == [class |-> class, size |-> size, align |-> align]

(* Buffers a caller allocates itself, with the default alignment or with   *)
(* a smaller or a larger one of its own.                                   *)
AnyBuffer == {D("C", 6000, 64), D("A", 100, 64), D("stack", 0, 64),
              D("A", 32, 32), D("B2", 100, 128)}

(* The problem of validate.py and smaller ones.  The tile that ranks first *)
(* has a C of more than a bank in the third, and a B of more than half a   *)
(* bank beside an A and a C that leave no room for another, in the fourth; *)
(* the last has tiles that only their B keeps out of L1.                   *)
SomeProblems == {<<512, 512, 512>>, <<64, 64, 64>>, <<136, 8, 1024>>, <<96, 88, 1024>>,
                 <<8, 512, 256>>, <<256, 96, 120>>, <<1024, 128, 24>>, <<240, 480, 120>>,
                 <<40, 72, 8192>>}

(* The tile of validate.py, the smallest one, tiles at both ends of the    *)
(* search and tiles among whose neighbours some fit and some do not.       *)
SomeAsked == {<<64, 64, 32>>, <<8, 8, 8>>, <<128, 64, 32>>, <<72, 72, 56>>,
              <<16, 120, 64>>, <<120, 24, 40>>} \cup FullTiles
=============================================================================
