----------------------------- MODULE MCHashRing ------------------------------
(* HashRing for TLC. *)
EXTENDS HashRing, TLC

\* Addresses are only compared for equality.
AddressSymmetry == Permutations(Address)
=============================================================================
