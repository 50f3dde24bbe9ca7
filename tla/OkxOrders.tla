----------------------------- MODULE OkxOrders -----------------------------
(***************************************************************************)
(* Order entry of the OKX client (exchanges/okx.rs).                       *)
(***************************************************************************)
EXTENDS OrderWire

NotReducible(c, r) == r.reduce /\ ~Futures(c)

\* The side of a hedged account; spot and one-way accounts send none.
PosSide(c, r) == IF ~Futures(c) \/ ~Hedged(c) THEN "net" ELSE ForOrder(r)

\* A hedged order names its side, and then must not say that it reduces.
Position(c, r, w) ==
  [w EXCEPT !.acts_on = PosSide(c, r), !.reduce = r.reduce /\ PosSide(c, r) = "net"]

\* A trigger is an order of another kind, on an endpoint of its own.
PlaceAlgoOrder(c, r) ==
  [Bare(c.market, r) EXCEPT !.trigger = "own", !.named = r.named,
     !.reduce = r.reduce, !.acts_on = PosSide(c, r)]

\* ordType says type, time in force and post-only in one word.
OrdTypeRefused(r) ==
  IF RequiresPrice(r) THEN r.post /\ r.tif # "gtc" ELSE r.tif = "fok" \/ r.post
OrdType(r, w) ==
  IF RequiresPrice(r) THEN [w EXCEPT !.tif = r.tif, !.post = r.post] ELSE w

PlaceOrder(c, r) ==
  Unless(NotReducible(c, r) \/ ~r.valid \/ (~IsTrigger(r) /\ OrdTypeRefused(r)),
         IF IsTrigger(r) THEN PlaceAlgoOrder(c, r)
         ELSE Position(c, r, OrdType(r,
                [Bare(c.market, r) EXCEPT !.named = r.named, !.stp = r.stp])))

PlaceOrderWs(c, r) ==
  Unless(IsTrigger(r) \/ NotReducible(c, r) \/ ~r.valid \/ OrdTypeRefused(r),
         Position(c, r, OrdType(r,
           [Bare(c.market, r) EXCEPT !.named = r.named, !.stp = r.stp])))

BatchOrder(c, r) ==
  Unless(OrdTypeRefused(r),
         Position(c, r, OrdType(r,
           [Bare(c.market, r) EXCEPT !.named = r.named, !.stp = r.stp])))

PlaceBatch(c, r) == Unless(IsTrigger(r) \/ NotReducible(c, r), BatchOrder(c, r))

\* close_position, once it has found a position of side s.
ClosePosition(c, s) == PlaceOrder(c, TakeBack(s))

\* A bracket acts on the side that its own side closes; a one-way account is
\* told neither a side nor that the bracket reduces.
PlaceOco(c, r) ==
  Unless(~r.valid,
         [Bare(c.market, r) EXCEPT !.trigger = "either", !.named = r.named,
            !.acts_on = PosSide(c, [r EXCEPT !.reduce = TRUE])])
=============================================================================
