--------------------------- MODULE CoinbaseOrders ---------------------------
(***************************************************************************)
(* Order entry of the Coinbase client (exchanges/coinbase.rs), which       *)
(* serves spot only and has neither batches nor orders over the socket.    *)
(***************************************************************************)
EXTENDS OrderWire

\* Self-trade prevention is set per portfolio: an order cannot ask for it.
HasStp(r) == r.stp # "none"

NotReducible(r) == r.reduce

\* The only trigger there is carries a limit price and rests until cancelled.
\* The venue does not infer which way the market has to go.
StopConfiguration(r) ==
  Unless(~RequiresPrice(r),
         [Bare("spot", r) EXCEPT !.trigger = IF r.side = "sell" THEN "falls" ELSE "rises"])

\* The configuration's key names type and time in force together; some pairs
\* have none.
NoConfiguration(r) ==
  IF RequiresPrice(r) THEN r.tif = "ioc" \/ (r.tif = "fok" /\ r.post)
                      ELSE r.tif = "fok" \/ r.post

Configuration(r) ==
  Unless(NoConfiguration(r),
         [Bare("spot", r) EXCEPT !.tif = IF RequiresPrice(r) THEN r.tif ELSE "ioc",
            !.post = r.post /\ r.tif # "fok"])

\* Every order has a client id: its own or a generated one.
SubmitOrder(order) == IF order = Refused THEN order ELSE [order EXCEPT !.named = TRUE]

PlaceOrder(c, r) ==
  Unless(NotReducible(r) \/ ~r.valid \/ HasStp(r),
         SubmitOrder(IF IsTrigger(r) THEN StopConfiguration(r) ELSE Configuration(r)))
=============================================================================
