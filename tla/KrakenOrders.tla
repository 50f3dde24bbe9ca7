---------------------------- MODULE KrakenOrders ----------------------------
(***************************************************************************)
(* Order entry of the Kraken client (exchanges/kraken.rs): spot and Kraken *)
(* Futures, whose accounts hold one position per market.                   *)
(***************************************************************************)
EXTENDS OrderWire

NotOneWay(c) == Futures(c) /\ Hedged(c)
NotReducible(c, r) == r.reduce /\ ~Futures(c)

\* No order field of Kraken's prevents self-trades, and none says fill-or-kill.
HasStp(r) == r.stp # "none"
TifRefused(r) == r.tif = "fok"

\* stop-loss and stop-loss-limit are order types of spot's.
SpotOrderType(r) == IF IsTrigger(r) THEN "own" ELSE "none"

\* Kraken Futures says type, time in force and post-only in one word, and for a
\* trigger order the word is `stp`.
FuturesTypeRefused(r) == r.tif = "fok" \/ (RequiresPrice(r) /\ r.tif = "ioc" /\ r.post)
FuturesType(r, w) ==
  CASE IsTrigger(r) -> [w EXCEPT !.trigger = "own"]
    [] r.type = "market" -> w
    [] OTHER -> [w EXCEPT !.tif = r.tif, !.post = r.post]

PlaceFuturesOrder(r) ==
  Unless(HasStp(r) \/ FuturesTypeRefused(r),
         FuturesType(r, [Bare("linear", r) EXCEPT !.reduce = r.reduce, !.named = r.named]))

SpotTerms(r) ==
  [Bare("spot", r) EXCEPT !.post = r.post, !.tif = r.tif, !.named = r.named]

PlaceOrder(c, r) ==
  Unless(NotReducible(c, r) \/ NotOneWay(c) \/ ~r.valid \/ HasStp(r),
         IF Futures(c) THEN PlaceFuturesOrder(r)
         ELSE Unless(TifRefused(r), [SpotTerms(r) EXCEPT !.trigger = SpotOrderType(r)]))

\* The socket serves spot, and not post-only orders.
PlaceOrderWs(c, r) ==
  Unless(\/ IsTrigger(r) \/ NotReducible(c, r) \/ NotOneWay(c) \/ Futures(c)
         \/ HasStp(r) \/ r.post \/ ~r.valid \/ TifRefused(r),
         [Bare("spot", r) EXCEPT !.tif = r.tif, !.named = r.named])

\* The batch's path is spot's; a futures client sends it to the futures host,
\* which serves no such path.
PlaceBatch(c, r) ==
  Unless(\/ IsTrigger(r) \/ NotReducible(c, r) \/ NotOneWay(c)
         \/ ~r.valid \/ HasStp(r) \/ TifRefused(r),
         [SpotTerms(r) EXCEPT !.market = IF Futures(c) THEN "unserved" ELSE "spot"])

\* close_position, once it has found a position of side s.
ClosePosition(c, s) == Unless(NotOneWay(c), PlaceOrder(c, TakeBack(s)))
=============================================================================
