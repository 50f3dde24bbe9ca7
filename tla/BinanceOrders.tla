--------------------------- MODULE BinanceOrders ---------------------------
(***************************************************************************)
(* Order entry of the Binance client (exchanges/binance.rs).               *)
(*                                                                         *)
(* A definition named X_Fault precedes X and is X with a plausible fault   *)
(* in the code: the properties are tested with it.                         *)
(***************************************************************************)
EXTENDS OrderWire

\* Reduce-only needs a position to reduce: on spot it is refused.
PositionRefused(c, r) == r.reduce /\ ~Futures(c)

\* A hedged order names its side instead of saying that it reduces.
PositionFields_Fault(c, r, w) ==
  IF Futures(c) /\ Hedged(c) THEN [w EXCEPT !.acts_on = ForOrder(r)] ELSE w
PositionFields(c, r, w) ==
  IF Futures(c) /\ Hedged(c) THEN [w EXCEPT !.acts_on = ForOrder(r)]
                             ELSE [w EXCEPT !.reduce = r.reduce]

\* LIMIT_MAKER, Binance's post-only type, takes no time in force; the market
\* types take none either.
PostOnly(r) == r.post /\ r.type = "limit"
TypeRefused(r) ==
  \/ ~RequiresPrice(r) /\ r.tif = "fok"
  \/ PostOnly(r) /\ r.tif # "gtc"

\* An order type of Binance's tells the venue which way the trigger goes.
StopPrice(r) == IF IsTrigger(r) THEN "own" ELSE "none"

TimeInForce(r) == IF RequiresPrice(r) /\ ~PostOnly(r) THEN r.tif ELSE "gtc"

Terms(r) ==
  [Bare("spot", r) EXCEPT !.trigger = StopPrice(r), !.post = PostOnly(r),
     !.tif = TimeInForce(r), !.named = r.named, !.stp = r.stp]

PlaceOrder(c, r) ==
  Unless(~r.valid \/ TypeRefused(r) \/ PositionRefused(c, r),
         PositionFields(c, r, [Terms(r) EXCEPT !.market = c.market]))

\* Over the socket: the same fields in the same terms, by the same rules.
PlaceOrderWs_Fault(c, r) ==
  Unless(~r.valid \/ TypeRefused(r), [Terms(r) EXCEPT !.market = c.market])
PlaceOrderWs(c, r) ==
  Unless(~r.valid \/ TypeRefused(r) \/ PositionRefused(c, r),
         PositionFields(c, r, [Terms(r) EXCEPT !.market = c.market]))

\* An element of a batch, which only the futures endpoint takes.
BatchOrder(c, r) ==
  Unless(TypeRefused(r),
         PositionFields(c, r, [Terms(r) EXCEPT !.market = "linear"]))

PlaceBatch(c, r) == IF Futures(c) THEN BatchOrder(c, r) ELSE PlaceOrder(c, r)

\* close_position, once it has found a position of side s.
ClosePosition(c, s) == PlaceOrder(c, TakeBack(s))

\* A bracket is an order list, which only the spot market has.
PlaceOco(c, r) ==
  Unless(~r.valid \/ Futures(c),
         [Bare("spot", r) EXCEPT !.trigger = "either", !.named = r.named])
=============================================================================
