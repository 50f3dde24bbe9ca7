-------------------------- MODULE MCNonceGenerator --------------------------
(***************************************************************************)
(* Two interchangeable threads that share one client, for each of the      *)
(* eleven ways to sign, one that lacks a key and one whose market is not   *)
(* routed; seconds of two milliseconds, and a local clock that is behind   *)
(* or ahead, so that it is before the epoch at first.                      *)
(***************************************************************************)
EXTENDS SignedRequests, TLC

CONSTANTS t1, t2

MCThreads == {t1, t2}
MCTimes == (-2)..(MaxTime + 2)
MCOffsets == (-2 - MaxTime)..(MaxTime + 2)
MCDrifts == {-2, 1}
Symmetry == Permutations(MCThreads)

MCClient(venue, routed, keys) == [venue |-> venue, routed |-> routed, keys |-> keys]

MCClients ==
  {MCClient(v, TRUE, {"secret", "passphrase", "private key"}) : v \in DOMAIN Signs}
    \cup {MCClient("Bitget", TRUE, {"secret"}),
          MCClient("Kraken", FALSE, {"secret"})}
=============================================================================
