----------------------------- MODULE GateOrders -----------------------------
(***************************************************************************)
(* Order entry of the Gate.io client (exchanges/gate.rs).                  *)
(***************************************************************************)
EXTENDS OrderWire

NotReducible(c, r) == r.reduce /\ ~Futures(c)

\* The comparison that arms a trigger: at or below, or at or above.
Rule(r) == IF r.side = "sell" THEN "falls" ELSE "rises"

\* A trigger goes to an endpoint of its own, which on spot can only place a
\* limit order.  It is told the order's side and size and nothing else.
PlacePriceOrder(c, r) ==
  Unless(~Futures(c) /\ ~RequiresPrice(r),
         [Bare(c.market, r) EXCEPT !.trigger = Rule(r)])

\* One field holds the time in force or `poc`, post-only, never both.
TifRefused(r) == r.post /\ r.tif # "gtc"
Tif(r, w) == [w EXCEPT !.tif = r.tif, !.post = r.post]

SpotTerms(r) == Tif(r, [Bare("spot", r) EXCEPT !.named = r.named, !.stp = r.stp])

\* The sign of the size says which side an opening order grows.  Closing one
\* side of a hedged account names the side and states no size.
Sized(c, r) ==
  IF Hedged(c) /\ r.reduce
  THEN [Bare("linear", r) EXCEPT !.reduce = TRUE, !.acts_on = ForOrder(r), !.sized = FALSE]
  ELSE [Bare("linear", r) EXCEPT !.reduce = r.reduce,
          !.acts_on = IF Hedged(c) THEN ForOrder(r) ELSE "net"]

\* A market order is a limit order at price zero that does not rest.
PlaceFuturesOrder(c, r) ==
  Unless(IF RequiresPrice(r) THEN TifRefused(r) ELSE r.tif = "fok",
         LET w == [Sized(c, r) EXCEPT !.named = r.named]
         IN  IF RequiresPrice(r) THEN Tif(r, w) ELSE [w EXCEPT !.tif = "ioc"])

PlaceOrder(c, r) ==
  Unless(NotReducible(c, r) \/ ~r.valid,
         CASE IsTrigger(r) -> PlacePriceOrder(c, r)
           [] ~IsTrigger(r) /\ Futures(c) -> PlaceFuturesOrder(c, r)
           [] OTHER -> Unless(TifRefused(r), SpotTerms(r)))

PlaceOrderWs(c, r) ==
  Unless(IsTrigger(r) \/ NotReducible(c, r) \/ ~r.valid \/ Futures(c) \/ TifRefused(r),
         SpotTerms(r))

\* Batches go to the spot endpoint, whatever market the client was built for.
PlaceBatch(c, r) ==
  Unless(IsTrigger(r) \/ NotReducible(c, r) \/ TifRefused(r), SpotTerms(r))

\* close_position, once it has found a position of side s.
ClosePosition(c, s) == PlaceOrder(c, TakeBack(s))
=============================================================================
