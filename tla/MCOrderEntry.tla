---------------------------- MODULE MCOrderEntry ----------------------------
(***************************************************************************)
(* OrderEntry for TLC: every client the ten venues build, every request.   *)
(***************************************************************************)
EXTENDS OrderEntry

\* Coinbase and Upbit serve spot only.
MCClients == {c \in Client : c.venue \in {"coinbase", "upbit"} => c.market = "spot" /\ ~c.hedge}

\* An invalid request is otherwise a plain one.
MCRequests ==
  {r \in Request : r.valid \/ (r.tif = "gtc" /\ ~r.post /\ r.stp = "none" /\ ~r.named)}

\* A position is closed beside plain orders, whatever their type and side.
MCContended == {r \in MCRequests : r.valid /\ r.tif = "gtc" /\ ~r.post /\ r.stp = "none" /\ ~r.named}
=============================================================================
