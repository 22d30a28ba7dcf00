----------------------------- MODULE MCWatchSystem -----------------------------
(* WatchSystem for TLC. *)
EXTENDS WatchSystem, TLC

CONSTANTS a1, k1, k2

\* One worker, whose own membership is k1, watches the table {k1, k2}.
MCMemberKey == [a \in Client |-> k1]
MCDeleteOther == {{k2}}
MCDeleteMember == {{k1}}
=============================================================================
