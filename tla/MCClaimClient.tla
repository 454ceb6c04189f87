---------------------------- MODULE MCClaimClient ----------------------------
EXTENDS ClaimClient, TLC
==============================================================================
