---------------------------- MODULE MCHandshake -----------------------------
(* Clients differ in nothing but their names, and so do accept() calls.    *)
EXTENDS Handshake, TLC

Symmetry == Permutations(Clients) \cup Permutations(Accepts)
=============================================================================
