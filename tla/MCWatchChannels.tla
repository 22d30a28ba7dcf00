---------------------------- MODULE MCWatchChannels ----------------------------
(* WatchChannels for TLC. *)
EXTENDS WatchChannels, TLC

CONSTANTS k1, a1, w1, w2

MCScope == {{k1}}
MCSymmetry == Permutations(Worker)
=============================================================================
