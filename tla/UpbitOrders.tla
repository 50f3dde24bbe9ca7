---------------------------- MODULE UpbitOrders ----------------------------
(***************************************************************************)
(* Order entry of the Upbit client (exchanges/upbit.rs), which serves spot *)
(* only and has neither batches nor orders over the socket.                *)
(***************************************************************************)
EXTENDS OrderWire

\* What the order's fields cannot say is refused.
TifRefused(r) ==
  \/ r.post \/ r.stp # "none" \/ r.reduce
  \/ ~RequiresPrice(r) /\ r.tif = "fok"

\* A market buy is of type `price`, and priced by its total; the quantity is
\* sent as it is for every other order.
OrdType(r, w) == [w EXCEPT !.sized = RequiresPrice(r) \/ r.side = "sell"]

PlaceOrder(c, r) ==
  Unless(IsTrigger(r) \/ ~r.valid \/ TifRefused(r),
         OrdType(r, [Bare("spot", r) EXCEPT !.named = r.named,
                       !.tif = IF RequiresPrice(r) THEN r.tif ELSE "gtc"]))
=============================================================================
