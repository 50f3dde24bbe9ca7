----------------------------- MODULE OrderWire -----------------------------
(***************************************************************************)
(* What the ten venue clients have in common when they place an order: the *)
(* request a caller makes, the client it is made of, and the order that    *)
(* the request becomes on the wire, told in one vocabulary for all venues. *)
(*                                                                         *)
(* Prices and quantities are left out: an order is a combination of terms, *)
(* and the question is which of them survive the trip to the venue.        *)
(***************************************************************************)

Sides   == {"buy", "sell"}
Types   == {"market", "limit", "stop_market", "stop_limit"}
Markets == {"spot", "linear"}

\* named: whether it has a client order id (one that is not a number).
\* valid: whether OrderRequest::validate accepts its quantity and prices.
Request ==
  [side : Sides, type : Types, tif : {"gtc", "ioc", "fok"}, post : BOOLEAN,
   reduce : BOOLEAN, stp : {"none", "maker"}, named : BOOLEAN, valid : BOOLEAN]

IsTrigger(r)     == r.type \in {"stop_market", "stop_limit"}
RequiresPrice(r) == r.type \in {"limit", "stop_limit"}

\* The client's venue, the market it was built for, and whether the account
\* holds a long and a short position at once (PositionMode::Hedge).
Client == [venue : {"binance", "bitget", "bybit", "coinbase", "gate", "htx",
                    "kraken", "kucoin", "okx", "upbit"},
           market : Markets, hedge : BOOLEAN]

Futures(c) == c.market = "linear"
Hedged(c)  == c.hedge

\* The side of a hedged account that an order acts on.
ForOrder(r) == IF (r.side = "buy") # r.reduce THEN "long" ELSE "short"

(***************************************************************************)
(* The order on the wire.  market: the book it reaches.  trigger: what has *)
(* to happen to the price first, "own" where the order's type and side say *)
(* it to the venue, "either" for a bracket, whose two legs wait on the two *)
(* sides of the price and cancel each other; its kind is that of the stop. *)
(* acts_on: the side of a hedged account it names, or    *)
(* "net".  sized: whether it states a quantity; one that does not closes   *)
(* the position.                                                           *)
(***************************************************************************)
Wire ==
  [market : Markets \union {"unserved"}, side : Sides, kind : {"market", "limit"},
   trigger : {"none", "falls", "rises", "own", "either"}, tif : {"gtc", "ioc", "fok"},
   post : BOOLEAN, reduce : BOOLEAN, acts_on : {"net", "long", "short"},
   stp : {"none", "maker"}, named : BOOLEAN, sized : BOOLEAN]

\* No order: the client refused the request.
Refused == [market |-> "none"]

\* An order of which only the symbol, the side, the kind and the quantity are
\* told: what a builder starts from.  It executes by itself and rests if need be.
Bare(market, r) ==
  [market |-> market, side |-> r.side,
   kind |-> IF RequiresPrice(r) THEN "limit" ELSE "market",
   trigger |-> "none", tif |-> "gtc", post |-> FALSE, reduce |-> FALSE,
   acts_on |-> "net", stp |-> "none", named |-> FALSE, sized |-> TRUE]

\* The market order that takes back a position of side s.
TakeBack(s) ==
  [side |-> IF s = "long" THEN "sell" ELSE "buy", type |-> "market", tif |-> "gtc",
   post |-> FALSE, reduce |-> TRUE, stp |-> "none", named |-> FALSE, valid |-> TRUE]

\* An OcoRequest, told by its stop leg: it has a side, a limit price for the
\* stop leg or none, and perhaps a client id.
IsBracket(r) == IsTrigger(r) /\ r.tif = "gtc" /\ ~r.post /\ ~r.reduce /\ r.stp = "none"

\* A request is refused, or the order is built.
Unless(refused, order) == IF refused THEN Refused ELSE order
=============================================================================
