---------------------------- MODULE MCControlTick ----------------------------
EXTENDS ControlTick, TLC
CONSTANTS k1, k2
MCPlace == (k1 :> 1) @@ (k2 :> 2)
==============================================================================
