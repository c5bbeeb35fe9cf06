--------------------------- MODULE MCRequestGate ---------------------------
(* Small instances of RequestGate.  c1..c4 are ordinary requests and        *)
(* interchangeable; `probe` asks /ready without a key and `anon` asks for a *)
(* job without one.                                                         *)
EXTENDS RequestGate, TLC

CONSTANTS c1, c2, c3, c4, probe, anon

CallSymmetry == Permutations(Calls \ {probe, anon})
=============================================================================
