---------------------------- MODULE BybitOrders ----------------------------
(***************************************************************************)
(* Order entry of the Bybit client (exchanges/bybit.rs).                   *)
(*                                                                         *)
(* A definition named X_Fault precedes X and is X with a plausible fault   *)
(* in the code: the properties are tested with it.                         *)
(***************************************************************************)
EXTENDS OrderWire

NotReducible(c, r) == r.reduce /\ ~Futures(c)

\* The side of a hedged account; spot and one-way accounts send none.
PositionIdx(c, r) == IF ~Futures(c) \/ ~Hedged(c) THEN "net" ELSE ForOrder(r)

\* `timeInForce` holds the time in force or PostOnly, never both.
TifRefused(r) == r.post /\ r.tif # "gtc"

\* Bybit does not infer which way the market has to cross the trigger.
TriggerFields_Fault(r) == IF r.side = "sell" THEN "rises" ELSE "falls"
TriggerFields(r) == IF r.side = "sell" THEN "falls" ELSE "rises"

Terms(c, r) ==
  [Bare(c.market, r) EXCEPT !.tif = r.tif, !.post = r.post, !.named = r.named,
     !.reduce = r.reduce, !.acts_on = PositionIdx(c, r), !.stp = r.stp]

PlaceOrder(c, r) ==
  Unless(NotReducible(c, r) \/ ~r.valid \/ TifRefused(r),
         IF IsTrigger(r) THEN [Terms(c, r) EXCEPT !.trigger = TriggerFields(r)]
                         ELSE Terms(c, r))

PlaceOrderWs(c, r) ==
  Unless(IsTrigger(r) \/ NotReducible(c, r) \/ ~r.valid \/ TifRefused(r), Terms(c, r))

PlaceBatch(c, r) ==
  Unless(IsTrigger(r) \/ NotReducible(c, r) \/ TifRefused(r), Terms(c, r))

\* close_position, once it has found a position of side s.
ClosePosition(c, s) == PlaceOrder(c, TakeBack(s))
=============================================================================
