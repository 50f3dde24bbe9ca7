----------------------------- MODULE HtxOrders -----------------------------
(***************************************************************************)
(* Order entry of the HTX client (exchanges/htx.rs).                       *)
(***************************************************************************)
EXTENDS OrderWire

NotReducible(c, r) == r.reduce /\ ~Futures(c)

\* Spot has no field for self-trade prevention.
HasStp(r) == r.stp # "none"

\* A swap order opens a position of its side or closes one of the other.
Offset(r, w) == [w EXCEPT !.acts_on = ForOrder(r), !.reduce = r.reduce]

\* Triggers have endpoints of their own.  The swap's is told the comparison;
\* spot reads it off the side, and cancels the order by its client id.
PlaceTriggerOrder(c, r) ==
  IF Futures(c)
  THEN Offset(r, [Bare("linear", r) EXCEPT
         !.trigger = IF r.side = "sell" THEN "falls" ELSE "rises"])
  ELSE [Bare("spot", r) EXCEPT !.trigger = "own", !.named = TRUE]

\* The kind of an order says type, time in force and post-only in one word.
KindRefused(r) ==
  IF RequiresPrice(r) THEN r.post /\ r.tif # "gtc" ELSE r.tif = "fok" \/ r.post
OrderKind(r, w) ==
  IF RequiresPrice(r) THEN [w EXCEPT !.tif = r.tif, !.post = r.post] ELSE w

SpotTerms(r) == OrderKind(r, [Bare("spot", r) EXCEPT !.named = r.named])

PriceTypeRefused(r) == r.post /\ r.tif # "gtc"
PriceType(r, w) == [w EXCEPT !.tif = r.tif, !.post = r.post]

\* The market order of a swap takes what the best levels offer.  A client id
\* that is not a number does not fit.
PlaceFuturesOrder(c, r) ==
  Unless(IF RequiresPrice(r) THEN PriceTypeRefused(r) ELSE r.tif = "fok",
         Offset(r, IF RequiresPrice(r) THEN PriceType(r, Bare("linear", r))
                   ELSE [Bare("linear", r) EXCEPT !.tif = "ioc"]))

PlaceOrder(c, r) ==
  Unless(NotReducible(c, r) \/ ~r.valid,
         CASE IsTrigger(r) -> PlaceTriggerOrder(c, r)
           [] ~IsTrigger(r) /\ Futures(c) -> PlaceFuturesOrder(c, r)
           [] OTHER -> Unless(HasStp(r) \/ KindRefused(r), SpotTerms(r)))

\* There is no order entry over the socket, and no batch of swap orders.
PlaceOrderWs(c, r) == Refused

PlaceBatch(c, r) ==
  Unless(\/ IsTrigger(r) \/ NotReducible(c, r) \/ Futures(c)
         \/ HasStp(r) \/ KindRefused(r),
         SpotTerms(r))

\* close_position, once it has found a position of side s.
ClosePosition(c, s) == PlaceOrder(c, TakeBack(s))
=============================================================================
