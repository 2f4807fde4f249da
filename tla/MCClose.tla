------------------------------ MODULE MCClose -------------------------------
(* Two endpoints whose Fins have different packet numbers.                 *)
EXTENDS Close

MCFinNumber == [e \in Ends |-> IF e = A THEN 3 ELSE 5]
=============================================================================
