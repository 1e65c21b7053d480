----------------------------- MODULE MCF9pTools ------------------------------
EXTENDS F9pTools, TLC
CONSTANTS k1, k2
=============================================================================
