------------------------------- MODULE TokenRing -------------------------------
(***************************************************************************)
(* The token ring of HashAlgorithm: a sorted vector of TokenOwner is a     *)
(* function from its tokens to addresses.  Tokens are 0 .. MaxToken        *)
(* (uint32_t; MaxToken is numeric_limits<uint32_t>::max() in the code).    *)
(***************************************************************************)
EXTENDS Integers

CONSTANTS Address, MaxToken

ASSUME MaxTokenAssumption == MaxToken \in Nat

Token == 0 .. MaxToken

Ring == UNION {[T -> Address] : T \in (SUBSET Token) \ {{}}}

IsLeast(t, S) == t \in S /\ \A u \in S : t <= u

AtOrAfter(ring, h) == {t \in DOMAIN ring : t >= h}

\* lower_bound, and owners.front() past the last token.
FindOwner(ring, h) ==
  LET after == AtOrAfter(ring, h)
      found == IF after = {} THEN DOMAIN ring ELSE after
  IN  ring[CHOOSE t \in found : IsLeast(t, found)]
=============================================================================
