---------------------------- MODULE MCIROptimize ----------------------------
(* A variable that starts negative and odd, zero, or positive.             *)
EXTENDS IROptimize

MCInputs == {-3, 0, 5}
=============================================================================
