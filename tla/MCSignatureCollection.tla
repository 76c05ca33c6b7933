------------------------- MODULE MCSignatureCollection -------------------------
(* Finite instances of SignatureCollection. *)
EXTENDS SignatureCollection, TLC

CONSTANTS w1, w2, w3, w4

WatcherSymmetry == Permutations(Watchers)
===============================================================================
