--------------------------- MODULE MCJobRecovery ---------------------------
(* Small instances of JobRecovery: single-image submissions, of which j2 is *)
(* submitted by path where CallerOwned says so.                             *)
EXTENDS JobRecovery, TLC

CONSTANTS r1, r2, r3, j1, j2, j3

TwoImages   == (r1 :> <<j1>>) @@ (r2 :> <<j2>>)
ThreeImages == TwoImages @@ (r3 :> <<j3>>)
=============================================================================
