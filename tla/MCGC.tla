------------------------------- MODULE MCGC -------------------------------
\* Two cores; MaxEpoch = NEPOCH lets a recycled delayed-free list be used
\* again.  One process nests epochs and migrates; the proofs cover the rest.
EXTENDS GC
============================================================================
