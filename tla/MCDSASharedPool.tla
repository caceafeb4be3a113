--------------------------- MODULE MCDSASharedPool ---------------------------
(* A bundle of two latent or three indexer blocks (the deployed layout has   *)
(* two and nine) keeps the two slabs of the indexer and odd releases.        *)
EXTENDS DSASharedPool
=============================================================================
