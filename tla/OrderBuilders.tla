--------------------------- MODULE OrderBuilders ---------------------------
(***************************************************************************)
(* How a caller says an order in the language it is written in, and the    *)
(* OrderRequest that comes out.  Rust, Node and Python start from one of   *)
(* four factories and refine; the others fill in a WickraOrderRequest, a   *)
(* struct of codes and of numbers in two spellings, or make a narrow call  *)
(* that has room for a side, a quantity and a price only.  C# and Java     *)
(* fill in the struct as a C caller does.                                  *)
(*                                                                         *)
(* A definition named X_Fault precedes X and is X with a plausible fault   *)
(* in the code: the properties are tested with it.                         *)
(***************************************************************************)
EXTENDS OrderWire, Naturals, Sequences

Paths == {"rest", "ws", "batch", "oco"}

(***************************************************************************)
(* Rust, Node, Python: a factory, then what the request says besides.      *)
(***************************************************************************)
Factory(r) ==
  [side |-> r.side, type |-> IF RequiresPrice(r) THEN "limit" ELSE "market",
   tif |-> "gtc", post |-> FALSE, reduce |-> FALSE, stp |-> "none", named |-> FALSE,
   valid |-> r.valid]
NodeFactory(r)   == Factory(r)
PythonFactory(r) == Factory(r)

\* A stop price is what makes an order a trigger order: it promotes the type.
WithStopPrice(q) ==
  [q EXCEPT !.type = IF @ \in {"market", "stop_market"} THEN "stop_market" ELSE "stop_limit"]
Promoted(r, q) == IF IsTrigger(r) THEN WithStopPrice(q) ELSE q

Refined(r, q) ==
  [Promoted(r, q) EXCEPT !.tif = r.tif, !.named = r.named, !.reduce = r.reduce,
                         !.post = r.post, !.stp = r.stp]
NodeRefined(r, q)   == Refined(r, q)
PythonRefined(r, q) == Refined(r, q)

(***************************************************************************)
(* The C struct.  A price is unset (NaN, NULL), a double or exact text.    *)
(***************************************************************************)
SideCodes == <<"buy", "sell">>
TypeCodes == <<"market", "limit", "stop_market", "stop_limit">>
TifCodes  == <<"gtc", "ioc", "fok">>
StpCodes  == <<"none", "maker", "taker", "both">>

CodeOf(table, word) == (CHOOSE i \in DOMAIN table : table[i] = word) - 1
WordOf(table, code) == table[code + 1]

Spellings == {"double", "text"}
IfAsked(asked, spelling) == IF asked THEN spelling ELSE "unset"

\* Go and R derive the type from the prices that are set, in either spelling.
DerivedType_Fault(price, stop) ==
  (IF stop = "double" THEN 2 ELSE 0) + (IF price = "double" THEN 1 ELSE 0)
DerivedType(price, stop) ==
  (IF stop # "unset" THEN 2 ELSE 0) + (IF price # "unset" THEN 1 ELSE 0)

StructOf(type, spelling, r) ==
  [side |-> CodeOf(SideCodes, r.side), type |-> type,
   price |-> IfAsked(RequiresPrice(r), spelling), stop |-> IfAsked(IsTrigger(r), spelling),
   tif |-> CodeOf(TifCodes, r.tif), named |-> r.named, reduce |-> r.reduce, post |-> r.post,
   stp |-> CodeOf(StpCodes, r.stp), positive |-> r.valid]

CStruct(spelling, r) == StructOf(CodeOf(TypeCodes, r.type), spelling, r)
GoStruct(spelling, r) ==
  StructOf(DerivedType(IfAsked(RequiresPrice(r), spelling), IfAsked(IsTrigger(r), spelling)),
           spelling, r)
RStruct(spelling, r) == GoStruct(spelling, r)

\* The text wins over the double beside it; neither is no price.
ExactOrDouble(price) == price # "unset"

RequestFromC(s) ==
  LET q == [side |-> WordOf(SideCodes, s.side), type |-> WordOf(TypeCodes, s.type),
            tif |-> WordOf(TifCodes, s.tif), post |-> s.post, reduce |-> s.reduce,
            stp |-> WordOf(StpCodes, s.stp), named |-> s.named, valid |-> TRUE]
  IN  [q EXCEPT !.valid = /\ s.positive
                          /\ RequiresPrice(q) => ExactOrDouble(s.price)
                          /\ IsTrigger(q) => ExactOrDouble(s.stop)]

(***************************************************************************)
(* The narrow calls: a NaN price is a market order.                        *)
(***************************************************************************)
IsPlain(r) ==
  ~IsTrigger(r) /\ r.tif = "gtc" /\ ~r.post /\ ~r.reduce /\ r.stp = "none" /\ ~r.named

PlaceMarket(r)  == Factory(r)
PlaceLimit(r)   == Factory(r)
NarrowRest(r)   == IF RequiresPrice(r) THEN PlaceLimit(r) ELSE PlaceMarket(r)
BuildRequest(r) == Factory(r)
NarrowWs(r)     == BuildRequest(r)
NarrowBatch(r)  == BuildRequest(r)

Narrow(path, r) ==
  CASE path = "rest"  -> NarrowRest(r)
    [] path = "ws"    -> NarrowWs(r)
    [] path = "batch" -> NarrowBatch(r)

(***************************************************************************)
(* A bracket is said by its side, its prices and perhaps the limit price   *)
(* of its stop leg: that is what makes the leg a stop-limit.  Only Rust    *)
(* can give it a client id.                                                *)
(***************************************************************************)
OcoRequest(r) ==
  [Factory(r) EXCEPT !.type = IF RequiresPrice(r) THEN "stop_limit" ELSE "stop_market"]
RustOco(r)   == [OcoRequest(r) EXCEPT !.named = r.named]
NodeOco(r)   == OcoRequest(r)
PythonOco(r) == OcoRequest(r)
COco(r)      == OcoRequest(r)

Brackets(r) ==
  IF ~IsBracket(r) THEN {}
  ELSE {RustOco(r)} \union {q \in {NodeOco(r), PythonOco(r), COco(r)} : ~r.named}

Orders(path, r) ==
  {Refined(r, Factory(r)), NodeRefined(r, NodeFactory(r)), PythonRefined(r, PythonFactory(r))}
    \union (UNION {{RequestFromC(CStruct(s, r)), RequestFromC(GoStruct(s, r)),
                    RequestFromC(RStruct(s, r))} : s \in Spellings})
    \union {q \in {Narrow(path, r)} : IsPlain(r)}

\* Whatever the languages make of the request: one request, if they agree.
Said(path, r) == IF path = "oco" THEN Brackets(r) ELSE Orders(path, r)
=============================================================================
