--------------------------- MODULE MCPreserveForm ---------------------------
EXTENDS PreserveForm
CONSTANTS a, b
=============================================================================
