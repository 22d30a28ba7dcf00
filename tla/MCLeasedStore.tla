----------------------------- MODULE MCLeasedStore -----------------------------
(* LeasedStore for TLC. *)
EXTENDS LeasedStore, TLC

CONSTANTS k1, k2, t1, t2

MCDeleteScope == {{k} : k \in Key} \cup {Key}
=============================================================================
