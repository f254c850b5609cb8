---------------------------- MODULE MCMkHashTable ----------------------------
(* A table for a few names, which has to grow to hold them all.            *)
EXTENDS MkHashTable

CONSTANTS v1, v2, absent, none
=============================================================================
