---------------------------- MODULE BitgetOrders ----------------------------
(***************************************************************************)
(* Order entry of the Bitget client (exchanges/bitget.rs).                 *)
(***************************************************************************)
EXTENDS OrderWire

NotReducible(c, r) == r.reduce /\ ~Futures(c)

\* tradeSide: a hedged order opens the side of its own, or closes the other.
TradeSide(r, w) == [w EXCEPT !.acts_on = ForOrder(r), !.reduce = r.reduce]

\* One-way orders carry reduceOnly; the two are never sent together.
Position(c, r, w) ==
  CASE ~Futures(c) -> w
    [] Futures(c) /\ Hedged(c) -> TradeSide(r, w)
    [] OTHER -> [w EXCEPT !.reduce = r.reduce]

\* A trigger goes to an endpoint of its own, which is told neither a time in
\* force, nor that the order is post-only, nor how it treats its own orders.
PlacePlanOrder(c, r) ==
  Position(c, r, [Bare(c.market, r) EXCEPT !.trigger = "own", !.named = r.named])

\* `force` holds the time in force or post_only, never both.
ForceRefused(r) == r.post /\ r.tif # "gtc"
Force(r, w) == [w EXCEPT !.post = r.post, !.tif = r.tif]

PlaceOrder(c, r) ==
  Unless(NotReducible(c, r) \/ ~r.valid \/ (~IsTrigger(r) /\ ForceRefused(r)),
         IF IsTrigger(r) THEN PlacePlanOrder(c, r)
         ELSE Position(c, r, Force(r,
                [Bare(c.market, r) EXCEPT !.named = r.named, !.stp = r.stp])))

\* Every order of a batch has a client id: its own or a generated one.
PlaceBatch(c, r) ==
  Unless(IsTrigger(r) \/ NotReducible(c, r) \/ ForceRefused(r),
         Position(c, r, Force(r,
           [Bare(c.market, r) EXCEPT !.named = TRUE, !.stp = r.stp])))

\* There is no order entry over the socket.
PlaceOrderWs(c, r) == Refused

\* close_position, once it has found a position of side s.
ClosePosition(c, s) == PlaceOrder(c, TakeBack(s))
=============================================================================
