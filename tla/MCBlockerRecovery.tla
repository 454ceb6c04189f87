-------------------------- MODULE MCBlockerRecovery --------------------------
(* One HEAD; the loop of main.py alone, or with a tick of the control service beside it. *)
EXTENDS BlockerRecovery
==============================================================================
