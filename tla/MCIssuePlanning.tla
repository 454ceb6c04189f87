--------------------------- MODULE MCIssuePlanning ---------------------------
EXTENDS IssuePlanning
=============================================================================
