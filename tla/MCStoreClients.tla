--------------------------- MODULE MCStoreClients ---------------------------
(* StoreClients on small instances: documents of at most two entries.      *)
EXTENDS StoreClients

CONSTANTS p1, p2, p3, e1, e2, x1, x2

(* p1 writes x1, p2 writes x2, and p3 only reads.                          *)
OneWriter  == [x \in Path |-> IF x = x1 THEN {p1} ELSE {p2}]
AnyWriter  == [x \in Path |-> Proc]
Nested     == {{}, {e1}, {e1, e2}}
Unordered  == {{e1}, {e2}}
=============================================================================
