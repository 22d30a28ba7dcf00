------------------------------- MODULE HashRing -------------------------------
(***************************************************************************)
(* DiffOwners, the planning step of HashAlgorithm: given the owners before *)
(* and after a change, the ranges that move from one owner to another,     *)
(* grouped by the pair.  One step is one iteration of the loop over the    *)
(* boundaries.                                                             *)
(***************************************************************************)
EXTENDS TokenRing, Sequences

VARIABLES fromOwners, toOwners,   \* the two rings, fixed during the loop
          cursor,                 \* boundaries[index]; MaxToken + 1 at the end
          grouped                 \* grouped: the ranges of each pair, in order

ringVars == <<fromOwners, toOwners, cursor, grouped>>

TokenRange == [from : Token, end : Token]

\* Mutant: only the first ring contributes boundaries.
BoundariesOfSource(from, to) ==
  {0} \cup {t + 1 : t \in DOMAIN from \ {MaxToken}}

Boundaries(from, to) ==
  {0} \cup {t + 1 : t \in (DOMAIN from \cup DOMAIN to) \ {MaxToken}}

\* boundaries[index + 1], or one past the ring's end.
NextBoundary(b) ==
  LET later == {c \in Boundaries(fromOwners, toOwners) : c > b}
  IN  IF later = {} THEN MaxToken + 1 ELSE CHOOSE c \in later : IsLeast(c, later)

\* Mutant: the merge of adjacent ranges is forgotten.
AppendRangeUnmerged(ranges, from, end) ==
  Append(ranges, [from |-> from, end |-> end])

AppendRange(ranges, from, end) ==
  IF /\ ranges # <<>>
     /\ ranges[Len(ranges)].end # MaxToken
     /\ ranges[Len(ranges)].end + 1 = from
  THEN [ranges EXCEPT ![Len(ranges)].end = end]
  ELSE Append(ranges, [from |-> from, end |-> end])

RingInit ==
  /\ fromOwners \in Ring /\ toOwners \in Ring
  /\ cursor = 0
  /\ grouped = [p \in Address \X Address |-> <<>>]

DiffSegment ==
  /\ cursor <= MaxToken
  /\ LET source == FindOwner(fromOwners, cursor)
         target == FindOwner(toOwners, cursor)
         end    == NextBoundary(cursor) - 1
     IN  grouped' = IF source = target
                    THEN grouped
                    ELSE [grouped EXCEPT ![<<source, target>>] =
                            AppendRange(@, cursor, end)]
  /\ cursor' = NextBoundary(cursor)
  /\ UNCHANGED <<fromOwners, toOwners>>

RingNext == DiffSegment

RingSpec == RingInit /\ [][RingNext]_ringVars

RingDone == cursor = MaxToken + 1

-----------------------------------------------------------------------------
(* What the plan promises. *)

RingTypeOK ==
  /\ fromOwners \in Ring /\ toOwners \in Ring
  /\ cursor \in 0 .. MaxToken + 1
  /\ grouped \in [Address \X Address -> Seq(TokenRange)]

Covers(ranges, h) == \E i \in DOMAIN ranges : ranges[i].from <= h /\ h <= ranges[i].end

(* DiffOwners: when the loop ends, the ranges of a pair <<a, b>> are exactly *)
(* the tokens that a owned before and b owns after, for every a # b; no      *)
(* token that changes hands is left without a migration, and none is moved   *)
(* that stays.                                                               *)
PlanMovesExactly ==
  RingDone => \A p \in Address \X Address, h \in Token :
                Covers(grouped[p], h) <=>
                  /\ p[1] # p[2]
                  /\ FindOwner(fromOwners, h) = p[1]
                  /\ FindOwner(toOwners, h) = p[2]

(* AppendRange: the ranges of a pair are in order, disjoint and maximal: two *)
(* neighbours are never adjacent, since task progress is kept per range.     *)
RangesMaximal ==
  \A p \in Address \X Address : \A i \in DOMAIN grouped[p] :
    /\ grouped[p][i].from <= grouped[p][i].end
    /\ i > 1 => grouped[p][i - 1].end + 1 < grouped[p][i].from
=============================================================================
