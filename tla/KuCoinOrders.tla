---------------------------- MODULE KuCoinOrders ----------------------------
(***************************************************************************)
(* Order entry of the KuCoin client (exchanges/kucoin.rs): spot and KuCoin *)
(* Futures, whose accounts hold one position per market.                   *)
(***************************************************************************)
EXTENDS OrderWire

NotOneWay(c) == Futures(c) /\ Hedged(c)
NotReducible(c, r) == r.reduce /\ ~Futures(c)

\* `stop` says which way the market has to cross: `loss` down, `entry` up.
AddTrigger(r) == IF r.side = "sell" THEN "falls" ELSE "rises"

\* Every order has a client id: its own or a generated one.
Terms(c, r) ==
  [Bare(c.market, r) EXCEPT !.post = r.post, !.tif = r.tif, !.stp = r.stp, !.named = TRUE]

PlaceOrder(c, r) ==
  Unless(NotReducible(c, r) \/ NotOneWay(c) \/ ~r.valid,
         [Terms(c, r) EXCEPT !.reduce = r.reduce,
            !.trigger = IF IsTrigger(r) THEN AddTrigger(r) ELSE "none"])

\* There is no order entry over the socket, and no batch of futures orders.
PlaceOrderWs(c, r) == Refused

PlaceBatch(c, r) ==
  Unless(IsTrigger(r) \/ NotReducible(c, r) \/ Futures(c), Terms(c, r))

\* close_position, once it has found a position of side s.
ClosePosition(c, s) == Unless(NotOneWay(c), PlaceOrder(c, TakeBack(s)))

\* A stop leg without a limit price gets one: the stop price.  The endpoint is
\* the spot one, whatever the client trades.
PlaceOco(c, r) ==
  Unless(NotOneWay(c) \/ ~r.valid,
         [Bare("spot", r) EXCEPT !.kind = "limit", !.trigger = "either", !.named = TRUE])
=============================================================================
