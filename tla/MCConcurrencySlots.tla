--------------------------- MODULE MCConcurrencySlots ---------------------------
(* Finite instance of ConcurrencySlots: two requests in one process, one in *)
(* another.                                                                 *)
EXTENDS ConcurrencySlots

CONSTANTS r1, r2, r3, i1, i2
MCHome == [r \in Requests |-> IF r = r3 THEN i2 ELSE i1]
=============================================================================
