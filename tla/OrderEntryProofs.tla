-------------------------- MODULE OrderEntryProofs --------------------------
(***************************************************************************)
(* Order entry, for every client and every request: what was asked is what *)
(* the venue is told, in every language, on every path.                    *)
(*                                                                         *)
(* Each of the ten clients has its own wire form, so each has a lemma of   *)
(* its own; they are stated in one vocabulary.  Says(c, r, w) is what an   *)
(* order w of client c tells of a request r: the side, the trigger, the    *)
(* terms and which side of the account it acts on.  Agrees(w, v) is that   *)
(* two orders differ by a generated name at most.  The invariant then only *)
(* remembers where an order on its way comes from, and what an execution   *)
(* does to the account is shown for any positions and any quantity.        *)
(***************************************************************************)
EXTENDS OrderEntry, TLAPS

-----------------------------------------------------------------------------
(* What the languages make of a request. *)

\* A table of distinct words reads the code of a word as that word.
LEMMA WordsOfCodes ==
  ASSUME NEW table, NEW word, \E i \in DOMAIN table : table[i] = word,
         DOMAIN table \subseteq Nat
  PROVE  WordOf(table, CodeOf(table, word)) = word
<1> DEFINE i == CHOOSE i \in DOMAIN table : table[i] = word
<1>1. i \in DOMAIN table /\ table[i] = word
  OBVIOUS
<1>2. (i - 1) + 1 = i
  BY <1>1
<1> QED
  BY <1>1, <1>2 DEF WordOf, CodeOf

\* Each code of the C struct is read as the word it was written for.
LEMMA CodesSayTheirWords ==
  /\ \A s \in Sides : WordOf(SideCodes, CodeOf(SideCodes, s)) = s
  /\ \A t \in Types : WordOf(TypeCodes, CodeOf(TypeCodes, t)) = t
  /\ \A t \in {"gtc", "ioc", "fok"} : WordOf(TifCodes, CodeOf(TifCodes, t)) = t
  /\ \A p \in {"none", "maker"} : WordOf(StpCodes, CodeOf(StpCodes, p)) = p
<1>1. ASSUME NEW s \in Sides PROVE WordOf(SideCodes, CodeOf(SideCodes, s)) = s
  <2>1. DOMAIN SideCodes = 1..2 /\ SideCodes[1] = "buy" /\ SideCodes[2] = "sell"
    BY DEF SideCodes
  <2> QED
    BY <2>1, WordsOfCodes DEF Sides
<1>2. ASSUME NEW t \in Types PROVE WordOf(TypeCodes, CodeOf(TypeCodes, t)) = t
  <2>1. DOMAIN TypeCodes = 1..4 /\ TypeCodes[1] = "market" /\ TypeCodes[2] = "limit"
        /\ TypeCodes[3] = "stop_market" /\ TypeCodes[4] = "stop_limit"
    BY DEF TypeCodes
  <2> QED
    BY <2>1, WordsOfCodes DEF Types
<1>3. ASSUME NEW t \in {"gtc", "ioc", "fok"} PROVE WordOf(TifCodes, CodeOf(TifCodes, t)) = t
  <2>1. DOMAIN TifCodes = 1..3 /\ TifCodes[1] = "gtc" /\ TifCodes[2] = "ioc" /\ TifCodes[3] = "fok"
    BY DEF TifCodes
  <2> QED
    BY <2>1, WordsOfCodes
<1>4. ASSUME NEW p \in {"none", "maker"} PROVE WordOf(StpCodes, CodeOf(StpCodes, p)) = p
  <2>1. DOMAIN StpCodes = 1..4 /\ StpCodes[1] = "none" /\ StpCodes[2] = "maker"
    BY DEF StpCodes
  <2> QED
    BY <2>1, WordsOfCodes
<1> QED
  BY <1>1, <1>2, <1>3, <1>4

\* Requests are told apart by their terms.
LEMMA SameTerms ==
  ASSUME NEW q \in Request, NEW r \in Request,
         q.side = r.side, q.type = r.type, q.tif = r.tif, q.post = r.post, q.reduce = r.reduce,
         q.stp = r.stp, q.named = r.named, q.valid = r.valid
  PROVE  q = r
BY DEF Request

\* A factory and its refinements (Rust, Node, Python) say the request.
LEMMA RefinementsSayTheRequest ==
  ASSUME NEW r \in Request
  PROVE  Refined(r, Factory(r)) = r
<1> DEFINE f == Factory(r)
           p == Promoted(r, f)
           q == Refined(r, f)
<1>1. f \in Request /\ f.side = r.side /\ f.valid = r.valid
      /\ f.type = IF RequiresPrice(r) THEN "limit" ELSE "market"
  BY DEF Factory, Request, Types
<1> HIDE DEF f
<1>2. p \in Request /\ p.side = r.side /\ p.valid = r.valid /\ p.type = r.type
  <2>1. CASE IsTrigger(r)
    <3>1. p = [f EXCEPT !.type = IF @ \in {"market", "stop_market"} THEN "stop_market" ELSE "stop_limit"]
      BY <2>1 DEF Promoted, WithStopPrice
    <3>2. r.type = IF f.type \in {"market", "stop_market"} THEN "stop_market" ELSE "stop_limit"
      BY <1>1, <2>1 DEF IsTrigger, RequiresPrice
    <3> HIDE DEF p
    <3> QED
      BY <1>1, <3>1, <3>2 DEF Request
  <2>2. CASE ~IsTrigger(r)
    BY <1>1, <2>2 DEF Promoted, IsTrigger, RequiresPrice, Request, Types
  <2> QED
    BY <2>1, <2>2
<1>3. q = [p EXCEPT !.tif = r.tif, !.named = r.named, !.reduce = r.reduce, !.post = r.post, !.stp = r.stp]
  BY DEF Refined
<1> HIDE DEF p, q
<1>4. /\ q \in Request /\ q.side = r.side /\ q.type = r.type /\ q.tif = r.tif /\ q.post = r.post
      /\ q.reduce = r.reduce /\ q.stp = r.stp /\ q.named = r.named /\ q.valid = r.valid
  BY <1>2, <1>3 DEF Request
<1> QED
  BY <1>4, SameTerms DEF q, f

\* So do the C struct and the one Go and R fill in, in either spelling of prices.
LEMMA StructsSayTheRequest ==
  ASSUME NEW r \in Request, NEW s \in Spellings
  PROVE  RequestFromC(CStruct(s, r)) = r /\ RequestFromC(GoStruct(s, r)) = r
<1>1. r.side \in Sides /\ r.type \in Types /\ r.tif \in {"gtc", "ioc", "fok"}
      /\ r.stp \in {"none", "maker"} /\ r.valid \in BOOLEAN
      /\ r = [side |-> r.side, type |-> r.type, tif |-> r.tif, post |-> r.post, reduce |-> r.reduce,
              stp |-> r.stp, named |-> r.named, valid |-> r.valid]
  BY DEF Request
<1> DEFINE price == IfAsked(RequiresPrice(r), s)
           stop  == IfAsked(IsTrigger(r), s)
<1>2. (price # "unset" <=> RequiresPrice(r)) /\ (stop # "unset" <=> IsTrigger(r))
  BY DEF IfAsked, Spellings
<1>3. ASSUME NEW type, WordOf(TypeCodes, type) = r.type
      PROVE  RequestFromC(StructOf(type, s, r)) = r
  <2> DEFINE c == StructOf(type, s, r)
             q == [side |-> WordOf(SideCodes, c.side), type |-> WordOf(TypeCodes, c.type),
                   tif |-> WordOf(TifCodes, c.tif), post |-> c.post, reduce |-> c.reduce,
                   stp |-> WordOf(StpCodes, c.stp), named |-> c.named, valid |-> TRUE]
  <2>1. /\ c.side = CodeOf(SideCodes, r.side) /\ c.type = type /\ c.price = price /\ c.stop = stop
        /\ c.tif = CodeOf(TifCodes, r.tif) /\ c.named = r.named /\ c.reduce = r.reduce
        /\ c.post = r.post /\ c.stp = CodeOf(StpCodes, r.stp) /\ c.positive = r.valid
    BY DEF StructOf
  <2> HIDE DEF c, price, stop
  <2>2. q = [side |-> r.side, type |-> r.type, tif |-> r.tif, post |-> r.post, reduce |-> r.reduce,
             stp |-> r.stp, named |-> r.named, valid |-> TRUE]
    BY <1>1, <1>3, <2>1, CodesSayTheirWords
  <2>3. (RequiresPrice(q) <=> RequiresPrice(r)) /\ (IsTrigger(q) <=> IsTrigger(r))
    BY <2>2 DEF RequiresPrice, IsTrigger
  <2>4. (c.positive /\ (RequiresPrice(q) => ExactOrDouble(c.price)) /\ (IsTrigger(q) => ExactOrDouble(c.stop)))
          = r.valid
    BY <1>1, <1>2, <2>1, <2>3 DEF ExactOrDouble
  <2>5. RequestFromC(c) = [q EXCEPT !.valid = r.valid]
    BY <2>4 DEF RequestFromC
  <2> QED
    BY <1>1, <2>2, <2>5 DEF c
<1>4. WordOf(TypeCodes, CodeOf(TypeCodes, r.type)) = r.type
  BY <1>1, CodesSayTheirWords
<1>5. WordOf(TypeCodes, DerivedType(price, stop)) = r.type
  <2>1. DerivedType(price, stop) =
          (IF IsTrigger(r) THEN 2 ELSE 0) + (IF RequiresPrice(r) THEN 1 ELSE 0)
    BY <1>2 DEF DerivedType
  <2>2. TypeCodes[1] = "market" /\ TypeCodes[2] = "limit"
        /\ TypeCodes[3] = "stop_market" /\ TypeCodes[4] = "stop_limit"
    BY DEF TypeCodes
  <2> QED
    BY <1>1, <2>1, <2>2 DEF WordOf, IsTrigger, RequiresPrice, Types
<1> QED
  BY <1>3, <1>4, <1>5 DEF CStruct, GoStruct

\* Whatever the language, what comes out is the request that went in.
LEMMA LanguagesAgree ==
  ASSUME NEW path \in Paths, NEW r \in Request, NEW q \in Said(path, r)
  PROVE  q = r /\ (path = "oco" => IsBracket(r))
<1>1. CASE path = "oco"
  <2>1. IsBracket(r) /\ q \in {RustOco(r)} \union {p \in {OcoRequest(r)} : ~r.named}
    BY <1>1 DEF Said, Brackets, NodeOco, PythonOco, COco
  <2>2. q = [OcoRequest(r) EXCEPT !.named = r.named]
    BY ZenonT(40), <2>1 DEF RustOco, OcoRequest, Factory, Request
  <2> DEFINE o == OcoRequest(r)
  <2>3. /\ o \in Request /\ o.side = r.side /\ o.type = r.type /\ o.tif = r.tif /\ o.post = r.post
        /\ o.reduce = r.reduce /\ o.stp = r.stp /\ o.valid = r.valid
    BY <2>1 DEF OcoRequest, Factory, Request, IsBracket, IsTrigger, RequiresPrice, Types
  <2> HIDE DEF o
  <2>4. q = [o EXCEPT !.named = r.named]
    BY <2>2 DEF o
  <2>5. /\ q \in Request /\ q.side = r.side /\ q.type = r.type /\ q.tif = r.tif /\ q.post = r.post
        /\ q.reduce = r.reduce /\ q.stp = r.stp /\ q.named = r.named /\ q.valid = r.valid
    BY <2>3, <2>4 DEF Request
  <2> QED
    BY <1>1, <2>1, <2>5, SameTerms
<1>2. CASE path # "oco"
  <2>1. /\ Narrow(path, r) = Factory(r)
        /\ IsPlain(r) => Factory(r) = r
    <3>1. Narrow(path, r) = Factory(r)
      BY <1>2 DEF Paths, Narrow, NarrowRest, NarrowWs, NarrowBatch, PlaceLimit, PlaceMarket, BuildRequest
    <3>2. ASSUME IsPlain(r) PROVE Factory(r) = r
      BY <3>2 DEF IsPlain, Factory, Request, IsTrigger, RequiresPrice, Types
    <3> QED
      BY <3>1, <3>2
  <2>2. Said(path, r) = Orders(path, r)
    BY <1>2 DEF Said
  <2>3. \/ q = Refined(r, Factory(r))
        \/ \E s \in Spellings : q = RequestFromC(CStruct(s, r)) \/ q = RequestFromC(GoStruct(s, r))
        \/ IsPlain(r) /\ q = Narrow(path, r)
    <3> DEFINE structs == UNION {{RequestFromC(CStruct(s, r)), RequestFromC(GoStruct(s, r)),
                                  RequestFromC(RStruct(s, r))} : s \in Spellings}
    <3>a. q \in {Refined(r, Factory(r)), NodeRefined(r, NodeFactory(r)), PythonRefined(r, PythonFactory(r))}
                 \union structs \union {p \in {Narrow(path, r)} : IsPlain(r)}
      BY <2>2 DEF Orders
    <3>1. \/ q \in {Refined(r, Factory(r)), NodeRefined(r, NodeFactory(r)), PythonRefined(r, PythonFactory(r))}
          \/ q \in structs
          \/ q \in {p \in {Narrow(path, r)} : IsPlain(r)}
      BY <3>a, Zenon
    <3>2. q \in structs =>
            \E s \in Spellings : q = RequestFromC(CStruct(s, r)) \/ q = RequestFromC(GoStruct(s, r))
      BY DEF RStruct
    <3> HIDE DEF structs
    <3> QED
      BY <3>1, <3>2 DEF NodeRefined, NodeFactory, PythonRefined, PythonFactory
  <2> QED
    BY <1>2, <2>1, <2>3, RefinementsSayTheRequest, StructsSayTheRequest
<1> QED
  BY <1>1, <1>2

-----------------------------------------------------------------------------
(* What the clients make of a request. *)

\* The trigger of an order: none, or one that waits for the adverse move.
Waits(r, w) ==
  /\ IsTrigger(r) => w.trigger \in {"own", Adverse(r.side)}
  /\ ~IsTrigger(r) => w.trigger = "none"

KeepsTerms(r, w) ==
  /\ r.type = "limit" => w.tif = r.tif /\ w.post = r.post
  /\ w.kind = "limit" <=> RequiresPrice(r)

OnlyReduces(c, w) == w.market = "linear" => IF TwoSided(c) THEN w.acts_on = Other(w) ELSE w.reduce
OnlyAdds(c, w)    == w.market = "linear" /\ TwoSided(c) => w.acts_on # Other(w)

Says(c, r, w) ==
  /\ w \in Wire /\ w.side = r.side /\ (w.market = "linear" => Futures(c))
  /\ Waits(r, w) /\ KeepsTerms(r, w)
  /\ r.reduce /\ ~(c.venue = "gate" /\ IsTrigger(r)) => OnlyReduces(c, w)
  /\ ~r.reduce => OnlyAdds(c, w)

\* An order of which nothing is told but its side and its kind.
IsBare(b, m, r) ==
  /\ b \in Wire /\ b.market = m /\ b.side = r.side
  /\ b.kind = IF RequiresPrice(r) THEN "limit" ELSE "market"
  /\ b.trigger = "none" /\ b.tif = "gtc" /\ ~b.post /\ ~b.reduce /\ b.acts_on = "net"
  /\ b.stp = "none" /\ ~b.named /\ b.sized

\* What every client starts from.
LEMMA BareIsBare ==
  ASSUME NEW m \in Markets, NEW r \in Request
  PROVE  IsBare(Bare(m, r), m, r)
BY DEF IsBare, Bare, Wire, Markets, Request

\* What is sent on another path is what REST sends, but for a generated name.
Agrees(w, v) == v # Refused /\ w = [v EXCEPT !.named = w.named]

\* An order agrees with itself ...
LEMMA AgreesWithItself ==
  ASSUME NEW w \in Wire PROVE Agrees(w, w)
BY DEF Agrees, Wire, Refused, Markets

Misroutes(c, path) == c.venue \in {"gate", "kraken"} /\ Futures(c) /\ path = "batch"

\* All that an order tells but its name.
Told(w, r, market, trigger, tif, post, reduce, acts_on, stp, sized) ==
  /\ w \in Wire /\ w.side = r.side
  /\ w.kind = IF RequiresPrice(r) THEN "limit" ELSE "market"
  /\ w.market = market /\ w.trigger = trigger /\ w.tif = tif /\ w.post = post
  /\ w.reduce = reduce /\ w.acts_on = acts_on /\ w.stp = stp /\ w.sized = sized

\* ... and with one that tells the same.
LEMMA ToldAlike ==
  ASSUME NEW w, NEW v, NEW r, NEW market, NEW trigger, NEW tif, NEW post, NEW reduce, NEW acts_on,
         NEW stp, NEW sized,
         Told(w, r, market, trigger, tif, post, reduce, acts_on, stp, sized),
         Told(v, r, market, trigger, tif, post, reduce, acts_on, stp, sized)
  PROVE  Agrees(w, v)
<1> DEFINE x == [v EXCEPT !.named = w.named]
<1>1. v # Refused
  BY DEF Told, Wire, Refused, Markets
<1>2. /\ x \in Wire /\ x.side = w.side /\ x.kind = w.kind /\ x.market = w.market /\ x.trigger = w.trigger
      /\ x.tif = w.tif /\ x.post = w.post /\ x.reduce = w.reduce /\ x.acts_on = w.acts_on
      /\ x.stp = w.stp /\ x.sized = w.sized /\ x.named = w.named
  BY DEF Told, Wire
<1> HIDE DEF x
<1>3. x = w
  BY <1>2 DEF Told, Wire
<1> QED
  BY <1>1, <1>3 DEF Agrees, x

\* What the client of Binance, whose batches tell the position side in fields of their own sends says what was asked, and the same on every path.
LEMMA BinanceSays ==
  ASSUME NEW c \in Client, NEW r \in Request, c.venue = "binance", NEW path \in {"rest", "ws", "batch"},
         NEW w, w = Sent(c, path, r), w # Refused
  PROVE  Says(c, r, w) /\ (r.valid => Agrees(w, PlaceOrder(c, r)))
<1> DEFINE b == Bare("spot", r)
           t == Binance!Terms(r)
           u == [t EXCEPT !.market = c.market]
<1>1. IsBare(b, "spot", r)
  BY BareIsBare DEF Markets
<1>2. /\ ~Binance!TypeRefused(r) /\ w = Binance!PositionFields(c, r, u)
      /\ path # "batch" \/ ~Futures(c) => ~Binance!PositionRefused(c, r)
  BY DEF Sent, PlaceOrder, PlaceOrderWs, PlaceBatch, Binance!PlaceOrder, Binance!PlaceOrderWs,
     Binance!PlaceBatch, Binance!BatchOrder, Binance!Unless, Binance!Refused, Refused,
     Binance!Futures, Futures
<1>3. t = [b EXCEPT !.trigger = IF IsTrigger(r) THEN "own" ELSE "none", !.post = r.post /\ r.type = "limit",
           !.tif = IF RequiresPrice(r) /\ ~(r.post /\ r.type = "limit") THEN r.tif ELSE "gtc",
           !.named = r.named, !.stp = r.stp]
  BY DEF Binance!Terms, Binance!Bare, Bare, Binance!StopPrice, Binance!PostOnly, Binance!TimeInForce,
     Binance!IsTrigger, Binance!RequiresPrice, IsTrigger, RequiresPrice
<1>4. r.type = "limit" /\ r.post => r.tif = "gtc"
  BY <1>2 DEF Binance!TypeRefused, Binance!PostOnly
<1> HIDE DEF b, t
<1>5. /\ t \in Wire /\ t.side = r.side /\ t.kind = (IF RequiresPrice(r) THEN "limit" ELSE "market")
      /\ t.trigger = (IF IsTrigger(r) THEN "own" ELSE "none")
      /\ r.type = "limit" => t.tif = r.tif /\ t.post = r.post
      /\ t.acts_on = "net" /\ ~t.reduce
  BY ZenonT(40), <1>1, <1>3, <1>4 DEF IsBare, Wire, Request, RequiresPrice
<1>6. /\ u \in Wire /\ u.side = t.side /\ u.kind = t.kind /\ u.trigger = t.trigger /\ u.tif = t.tif
      /\ u.post = t.post /\ u.acts_on = t.acts_on /\ u.reduce = t.reduce /\ u.market = c.market
  BY <1>5 DEF Wire, Client
<1> HIDE DEF u
<1>7. /\ w \in Wire /\ w.side = u.side /\ w.kind = u.kind /\ w.trigger = u.trigger /\ w.tif = u.tif
      /\ w.post = u.post /\ w.market = u.market
      /\ IF Futures(c) /\ Hedged(c) THEN w.acts_on = ForOrder(r) ELSE w.reduce = r.reduce /\ w.acts_on = "net"
  BY <1>2, <1>5, <1>6 DEF Binance!PositionFields, Binance!Futures, Futures, Binance!Hedged, Hedged,
     Binance!ForOrder, ForOrder, Wire, Request
<1>8. Says(c, r, w)
  BY <1>5, <1>6, <1>7 DEF Says, Waits, KeepsTerms, OnlyReduces, OnlyAdds, TwoSided, Futures, Other, ForOrder,
     Request, Sides
<1>9. ASSUME r.valid PROVE PlaceOrder(c, r) = w
  BY <1>2, <1>9 DEF PlaceOrder, Binance!PlaceOrder, Binance!Unless, Binance!PositionRefused, u, t, Binance!Futures, Futures
<1> QED
  BY <1>7, <1>8, <1>9, AgreesWithItself

\* What the client of Bitget sends says what was asked, and the same on every path.
LEMMA BitgetSays ==
  ASSUME NEW c \in Client, NEW r \in Request, c.venue = "bitget", NEW path \in {"rest", "ws", "batch"},
         NEW w, w = Sent(c, path, r), w # Refused
  PROVE  Says(c, r, w) /\ (r.valid => Agrees(w, PlaceOrder(c, r)))
<1> DEFINE b == Bare(c.market, r)
           p == [b EXCEPT !.trigger = "own", !.named = r.named]
           u(named) == [b EXCEPT !.named = named, !.stp = r.stp]
           t(named) == [u(named) EXCEPT !.post = r.post, !.tif = r.tif]
           acts == IF Futures(c) /\ Hedged(c) THEN ForOrder(r) ELSE "net"
           trigger == IF IsTrigger(r) THEN "own" ELSE "none"
           tif == IF IsTrigger(r) THEN "gtc" ELSE r.tif
           post == IF IsTrigger(r) THEN FALSE ELSE r.post
           stp == IF IsTrigger(r) THEN "none" ELSE r.stp
           Fits(v) == Told(v, r, c.market, trigger, tif, post, r.reduce, acts, stp, TRUE)
<1>1. IsBare(b, c.market, r)
  BY BareIsBare DEF Client
<1>2. ASSUME PlaceOrder(c, r) # Refused
      PROVE  /\ ~Bitget!NotReducible(c, r)
             /\ PlaceOrder(c, r) = Bitget!Position(c, r, IF IsTrigger(r) THEN p ELSE t(r.named))
  BY <1>2 DEF PlaceOrder, Bitget!PlaceOrder, Bitget!Unless, Bitget!Refused, Refused, Bitget!PlacePlanOrder,
     Bitget!Force, Bitget!Bare, Bare, Bitget!IsTrigger, IsTrigger, Bitget!RequiresPrice, RequiresPrice
<1>3. ASSUME path = "batch"
      PROVE  /\ ~Bitget!NotReducible(c, r) /\ ~IsTrigger(r) /\ ~Bitget!ForceRefused(r)
             /\ w = Bitget!Position(c, r, t(TRUE))
  BY <1>3 DEF Sent, PlaceBatch, Bitget!PlaceBatch, Bitget!Unless, Bitget!Refused, Refused,
     Bitget!Force, Bitget!Bare, Bare, Bitget!IsTrigger, IsTrigger, Bitget!RequiresPrice, RequiresPrice
<1> HIDE DEF b
<1>4. ASSUME IsTrigger(r)
      PROVE  Told(p, r, c.market, trigger, tif, post, FALSE, "net", stp, TRUE)
  BY <1>1, <1>4 DEF IsBare, Told, Wire, Request
<1>5. ASSUME NEW named \in BOOLEAN, ~IsTrigger(r)
      PROVE  Told(t(named), r, c.market, trigger, tif, post, FALSE, "net", stp, TRUE)
  <2>1. Told(u(named), r, c.market, "none", "gtc", FALSE, FALSE, "net", r.stp, TRUE)
    BY <1>1 DEF IsBare, Told, Wire, Request
  <2> HIDE DEF u
  <2> QED
    BY <1>5, <2>1 DEF Told, Wire, Request
<1> HIDE DEF p, t
<1>6. ASSUME NEW z, Told(z, r, c.market, trigger, tif, post, FALSE, "net", stp, TRUE), ~Bitget!NotReducible(c, r)
      PROVE  Fits(Bitget!Position(c, r, z))
  <2> HIDE DEF trigger, tif, post, stp
  <2> QED
    BY <1>6 DEF Told, Bitget!Position, Bitget!TradeSide, Bitget!NotReducible, Bitget!Futures, Futures,
       Bitget!Hedged, Hedged, Bitget!ForOrder, ForOrder, Wire, Request, Client
<1>7. ASSUME PlaceOrder(c, r) # Refused PROVE Fits(PlaceOrder(c, r))
  <2> HIDE DEF Fits, trigger, tif, post, stp, acts
  <2> QED
    BY <1>2, <1>4, <1>5, <1>6, <1>7 DEF Request
<1>8. path \in {"rest", "batch"} /\ (path = "rest" => w = PlaceOrder(c, r))
  BY DEF Sent, PlaceOrderWs
<1>9. Fits(w)
  <2> HIDE DEF Fits, trigger, tif, post, stp, acts
  <2> QED
    BY <1>3, <1>5, <1>6, <1>7, <1>8
<1>10. Says(c, r, w)
  BY ZenonT(40), <1>9 DEF Told, Says, Waits, KeepsTerms, OnlyReduces, OnlyAdds, TwoSided, Futures, Hedged, Other, ForOrder,
     Request, Sides, IsTrigger, RequiresPrice
<1>11. ASSUME r.valid PROVE PlaceOrder(c, r) # Refused
  <2>1. CASE path = "batch"
    <3>1. PlaceOrder(c, r) = Bitget!Position(c, r, t(r.named))
      BY <1>3, <1>11, <2>1 DEF PlaceOrder, Bitget!PlaceOrder, Bitget!Unless, Bitget!Force, Bitget!Bare, Bare,
         Bitget!IsTrigger, IsTrigger, Bitget!RequiresPrice, RequiresPrice, t, b
    <3>2. Fits(PlaceOrder(c, r))
      <4> HIDE DEF Fits, trigger, tif, post, stp, acts
      <4> QED
        BY <1>3, <1>5, <1>6, <2>1, <3>1 DEF Request
    <3> QED
      BY <3>2 DEF Told, Wire, Refused, Markets
  <2> QED
    BY <1>8, <2>1
<1> QED
  <2> HIDE DEF trigger, tif, post, stp, acts
  <2> QED
    BY <1>7, <1>9, <1>10, <1>11, ToldAlike

\* What the client of Bybit sends says what was asked, and the same on every path.
LEMMA BybitSays ==
  ASSUME NEW c \in Client, NEW r \in Request, c.venue = "bybit", NEW path \in {"rest", "ws", "batch"},
         NEW w, w = Sent(c, path, r), w # Refused
  PROVE  Says(c, r, w) /\ (r.valid => Agrees(w, PlaceOrder(c, r)))
<1> DEFINE b == Bare(c.market, r)
           acts == IF Futures(c) /\ Hedged(c) THEN ForOrder(r) ELSE "net"
           t == [b EXCEPT !.tif = r.tif, !.post = r.post, !.named = r.named,
                   !.reduce = r.reduce, !.acts_on = acts, !.stp = r.stp]
           u == [t EXCEPT !.trigger = IF r.side = "sell" THEN "falls" ELSE "rises"]
           trigger == IF ~IsTrigger(r) THEN "none" ELSE IF r.side = "sell" THEN "falls" ELSE "rises"
<1>1. IsBare(b, c.market, r)
  BY BareIsBare DEF Client
<1>2. Bybit!Terms(c, r) = t
  BY DEF Bybit!Terms, Bybit!Bare, Bare, Bybit!PositionIdx, Bybit!Futures, Futures, Bybit!Hedged, Hedged,
     Bybit!ForOrder, ForOrder, Bybit!RequiresPrice, RequiresPrice
<1>3. /\ ~Bybit!NotReducible(c, r) /\ w = IF IsTrigger(r) THEN u ELSE t
      /\ r.valid => w = PlaceOrder(c, r)
  BY <1>2 DEF Sent, PlaceOrder, PlaceOrderWs, PlaceBatch, Bybit!PlaceOrder, Bybit!PlaceOrderWs,
     Bybit!PlaceBatch, Bybit!Unless, Bybit!Refused, Refused, Bybit!TriggerFields, Bybit!IsTrigger, IsTrigger
<1> HIDE DEF b
<1>4. Told(t, r, c.market, "none", r.tif, r.post, r.reduce, acts, r.stp, TRUE)
  <2>1. acts \in {"net", "long", "short"}
    BY DEF ForOrder
  <2> HIDE DEF acts
  <2> QED
    BY <1>1, <2>1 DEF IsBare, Told, Wire, Request
<1> HIDE DEF t
<1>5. Told(w, r, c.market, trigger, r.tif, r.post, r.reduce, acts, r.stp, TRUE)
  <2> HIDE DEF acts
  <2> QED
    BY <1>3, <1>4 DEF Told, Wire
<1>6. Says(c, r, w)
  BY <1>3, <1>5 DEF Told, Says, Waits, KeepsTerms, OnlyReduces, OnlyAdds, TwoSided, Futures, Hedged, Other,
     ForOrder, Request, Sides, Types, IsTrigger, RequiresPrice, Adverse, Client
<1> QED
  <2> HIDE DEF acts, trigger
  <2>1. w \in Wire
    BY <1>5 DEF Told
  <2> QED
    BY <1>3, <1>6, <2>1, AgreesWithItself

\* What the client of OKX sends says what was asked, and the same on every path.
LEMMA OkxSays ==
  ASSUME NEW c \in Client, NEW r \in Request, c.venue = "okx", NEW path \in {"rest", "ws", "batch"},
         NEW w, w = Sent(c, path, r), w # Refused
  PROVE  Says(c, r, w) /\ (r.valid => Agrees(w, PlaceOrder(c, r)))
<1> DEFINE b == Bare(c.market, r)
           acts == IF Futures(c) /\ Hedged(c) THEN ForOrder(r) ELSE "net"
           p == [b EXCEPT !.trigger = "own", !.named = r.named, !.reduce = r.reduce, !.acts_on = acts]
           u == [b EXCEPT !.named = r.named, !.stp = r.stp]
           t == IF RequiresPrice(r) THEN [u EXCEPT !.tif = r.tif, !.post = r.post] ELSE u
           x == [t EXCEPT !.acts_on = acts, !.reduce = r.reduce /\ acts = "net"]
<1>1. IsBare(b, c.market, r)
  BY BareIsBare DEF Client
<1>2. Okx!PosSide(c, r) = acts
  BY DEF Okx!PosSide, Okx!Futures, Futures, Okx!Hedged, Hedged, Okx!ForOrder, ForOrder
<1>3. /\ Okx!PlaceAlgoOrder(c, r) = p
      /\ Okx!Position(c, r, Okx!OrdType(r, [Okx!Bare(c.market, r) EXCEPT !.named = r.named, !.stp = r.stp])) = x
  <2>1. Okx!Bare(c.market, r) = b
    BY DEF Okx!Bare, Bare, Okx!RequiresPrice, RequiresPrice
  <2>2. Okx!OrdType(r, u) = t
    BY DEF Okx!OrdType, Okx!RequiresPrice, RequiresPrice
  <2> HIDE DEF b, acts, t
  <2> QED
    BY <1>2, <2>1, <2>2 DEF Okx!PlaceAlgoOrder, Okx!Position
<1> HIDE DEF p, x
<1>4. /\ ~Okx!NotReducible(c, r) /\ w = IF IsTrigger(r) THEN p ELSE x
      /\ r.valid => w = PlaceOrder(c, r)
  BY <1>3 DEF Sent, PlaceOrder, PlaceOrderWs, PlaceBatch, Okx!PlaceOrder, Okx!PlaceOrderWs,
     Okx!PlaceBatch, Okx!BatchOrder, Okx!Unless, Okx!Refused, Refused, Okx!IsTrigger, IsTrigger
<1> HIDE DEF b
<1>5. Told(p, r, c.market, "own", "gtc", FALSE, r.reduce, acts, "none", TRUE)
  BY <1>1 DEF IsBare, Told, Wire, Request, ForOrder, p
<1>6. Told(u, r, c.market, "none", "gtc", FALSE, FALSE, "net", r.stp, TRUE)
  BY <1>1 DEF IsBare, Told, Wire, Request
<1> HIDE DEF u
<1>7. ASSUME ~IsTrigger(r)
      PROVE  /\ Told(t, r, c.market, "none", t.tif, t.post, FALSE, "net", r.stp, TRUE)
             /\ r.type = "limit" => t.tif = r.tif /\ t.post = r.post
  BY <1>6 DEF Told, Wire, Request, RequiresPrice
<1> HIDE DEF t
<1>8. ASSUME ~IsTrigger(r)
      PROVE  Told(x, r, c.market, "none", t.tif, t.post, r.reduce /\ acts = "net", acts, r.stp, TRUE)
  <2>1. acts \in {"net", "long", "short"}
    BY DEF ForOrder
  <2> HIDE DEF acts
  <2> QED
    BY <1>7, <1>8, <2>1 DEF Told, Wire, Request, x
<1>9. Says(c, r, w)
  <2>1. CASE IsTrigger(r)
    BY <1>4, <1>5, <2>1 DEF Told, Says, Waits, KeepsTerms, OnlyReduces, OnlyAdds, TwoSided, Futures, Hedged,
       Other, ForOrder, Request, Sides, IsTrigger, RequiresPrice, Client, Okx!NotReducible
  <2>2. CASE ~IsTrigger(r)
    BY <1>4, <1>7, <1>8, <2>2 DEF Told, Says, Waits, KeepsTerms, OnlyReduces, OnlyAdds, TwoSided, Futures, Hedged,
       Other, ForOrder, Request, Sides, IsTrigger, RequiresPrice, Client, Okx!NotReducible
  <2> QED
    BY <2>1, <2>2
<1> QED
  <2>1. w \in Wire
    <3> HIDE DEF acts
    <3> QED
      BY <1>4, <1>5, <1>8 DEF Told
  <2> QED
    BY <1>4, <1>9, <2>1, AgreesWithItself

\* What the client of KuCoin sends says what was asked, and the same on every path.
LEMMA KuCoinSays ==
  ASSUME NEW c \in Client, NEW r \in Request, c.venue = "kucoin", NEW path \in {"rest", "ws", "batch"},
         NEW w, w = Sent(c, path, r), w # Refused
  PROVE  Says(c, r, w) /\ (r.valid => Agrees(w, PlaceOrder(c, r)))
<1> DEFINE b == Bare(c.market, r)
           t == [b EXCEPT !.post = r.post, !.tif = r.tif, !.stp = r.stp, !.named = TRUE]
           trigger == IF ~IsTrigger(r) THEN "none" ELSE IF r.side = "sell" THEN "falls" ELSE "rises"
           x == [t EXCEPT !.reduce = r.reduce, !.trigger = trigger]
           Fits(v) == Told(v, r, c.market, trigger, r.tif, r.post, r.reduce, "net", r.stp, TRUE)
<1>1. IsBare(b, c.market, r)
  BY BareIsBare DEF Client
<1>2. KuCoin!Terms(c, r) = t
  BY DEF KuCoin!Terms, KuCoin!Bare, Bare, KuCoin!RequiresPrice, RequiresPrice
<1>3. /\ path = "rest" => w = PlaceOrder(c, r)
      /\ path # "rest" => ~IsTrigger(r) /\ ~KuCoin!NotReducible(c, r) /\ ~Futures(c) /\ w = t
  BY <1>2 DEF Sent, PlaceOrderWs, PlaceBatch, KuCoin!PlaceBatch, KuCoin!Unless, KuCoin!Refused, Refused,
     KuCoin!IsTrigger, IsTrigger, KuCoin!Futures, Futures
<1>4. /\ PlaceOrder(c, r) # Refused =>
           ~KuCoin!NotReducible(c, r) /\ ~KuCoin!NotOneWay(c) /\ PlaceOrder(c, r) = x
      /\ r.valid /\ ~KuCoin!NotReducible(c, r) /\ ~KuCoin!NotOneWay(c) => PlaceOrder(c, r) = x
  <2> HIDE DEF t
  <2> QED
    BY <1>2 DEF PlaceOrder, KuCoin!PlaceOrder, KuCoin!Unless, KuCoin!Refused, Refused, KuCoin!AddTrigger,
       KuCoin!IsTrigger, IsTrigger
<1> HIDE DEF b
<1>5. Told(t, r, c.market, "none", r.tif, r.post, FALSE, "net", r.stp, TRUE)
  BY <1>1 DEF IsBare, Told, Wire, Request
<1> HIDE DEF t
<1>6. Fits(x)
  BY <1>5 DEF Told, Wire, Request
<1> HIDE DEF x
<1>7. Fits(w)
  <2>1. CASE path = "rest"
    <3> HIDE DEF Fits
    <3> QED
      BY <1>3, <1>4, <1>6, <2>1
  <2>2. CASE path # "rest"
    BY <1>3, <1>5, <2>2 DEF KuCoin!NotReducible, KuCoin!Futures, Futures, Request, Told
  <2> QED
    BY <2>1, <2>2
<1>8. Futures(c) => ~Hedged(c)
  BY <1>3, <1>4 DEF KuCoin!NotOneWay, KuCoin!Futures, Futures, KuCoin!Hedged, Hedged
<1>9. Says(c, r, w)
  BY <1>7, <1>8 DEF Told, Says, Waits, KeepsTerms, OnlyReduces, OnlyAdds, TwoSided, Futures, Hedged, Other,
     ForOrder, Request, Sides, Types, IsTrigger, RequiresPrice, Adverse, Client
<1>10. ASSUME r.valid PROVE PlaceOrder(c, r) = x
  BY <1>3, <1>4, <1>10 DEF KuCoin!NotOneWay, KuCoin!Futures, Futures
<1> QED
  <2> HIDE DEF trigger
  <2> QED
    BY <1>6, <1>7, <1>9, <1>10, ToldAlike

\* What the client of Coinbase, on spot only sends says what was asked, and the same on every path.
LEMMA CoinbaseSays ==
  ASSUME NEW c \in Client, NEW r \in Request, c.venue = "coinbase", NEW path \in {"rest", "ws", "batch"},
         NEW w, w = Sent(c, path, r), w # Refused
  PROVE  Says(c, r, w) /\ Agrees(w, PlaceOrder(c, r))
<1> DEFINE b == Bare("spot", r)
           p == [b EXCEPT !.trigger = IF r.side = "sell" THEN "falls" ELSE "rises"]
           t == [b EXCEPT !.tif = IF RequiresPrice(r) THEN r.tif ELSE "ioc", !.post = r.post /\ r.tif # "fok"]
           u == IF IsTrigger(r) THEN p ELSE t
<1>1. IsBare(b, "spot", r)
  BY BareIsBare DEF Markets
<1>2. /\ w = PlaceOrder(c, r)
      /\ ~IsTrigger(r) => ~Coinbase!NoConfiguration(r)
      /\ w = [u EXCEPT !.named = TRUE]
  <2>1. Coinbase!Bare("spot", r) = b
    BY DEF Coinbase!Bare, Bare, Coinbase!RequiresPrice, RequiresPrice
  <2> HIDE DEF b
  <2>2. w = PlaceOrder(c, r) /\ w = Coinbase!PlaceOrder(c, r)
    BY DEF Sent, PlaceOrder, PlaceOrderWs, PlaceBatch
  <2>3. LET o == IF IsTrigger(r) THEN Coinbase!StopConfiguration(r) ELSE Coinbase!Configuration(r)
        IN  o # Refused /\ w = [o EXCEPT !.named = TRUE]
    BY <2>2 DEF Coinbase!PlaceOrder, Coinbase!Unless, Coinbase!Refused, Refused, Coinbase!SubmitOrder,
       Coinbase!IsTrigger, IsTrigger
  <2>4. Coinbase!StopConfiguration(r) # Refused => Coinbase!StopConfiguration(r) = p
    BY <2>1 DEF Coinbase!StopConfiguration, Coinbase!Unless, Coinbase!Refused, Refused
  <2>5. Coinbase!Configuration(r) # Refused => ~Coinbase!NoConfiguration(r) /\ Coinbase!Configuration(r) = t
    BY <2>1 DEF Coinbase!Configuration, Coinbase!Unless, Coinbase!Refused, Refused, Coinbase!RequiresPrice,
       RequiresPrice
  <2> HIDE DEF p, t
  <2> QED
    BY <2>2, <2>3, <2>4, <2>5
<1> HIDE DEF b
<1>3. /\ u \in Wire /\ u.side = r.side /\ u.kind = (IF RequiresPrice(r) THEN "limit" ELSE "market")
      /\ u.market = "spot" /\ IF IsTrigger(r) THEN u.trigger = Adverse(r.side) ELSE u.trigger = "none"
      /\ r.type = "limit" => u.tif = r.tif /\ u.post = (r.post /\ r.tif # "fok")
  <2>1. CASE IsTrigger(r)
    BY <1>1, <2>1 DEF IsBare, Wire, Request, IsTrigger, Adverse
  <2>2. CASE ~IsTrigger(r)
    BY <1>1, <2>2 DEF IsBare, Wire, Request, RequiresPrice
  <2> QED
    BY <2>1, <2>2
<1> HIDE DEF u
<1>4. /\ w \in Wire /\ w.side = u.side /\ w.kind = u.kind /\ w.market = u.market /\ w.trigger = u.trigger
      /\ w.tif = u.tif /\ w.post = u.post
  BY <1>2, <1>3 DEF Wire
<1>5. r.type = "limit" => (r.post /\ r.tif # "fok") = r.post
  BY <1>2 DEF Coinbase!NoConfiguration, Coinbase!RequiresPrice, IsTrigger, Request
<1>6. Says(c, r, w)
  BY <1>3, <1>4, <1>5 DEF Says, Waits, KeepsTerms, OnlyReduces, OnlyAdds, RequiresPrice
<1> QED
  BY <1>2, <1>4, <1>6, AgreesWithItself

\* What the client of Upbit, on spot only sends says what was asked, and the same on every path.
LEMMA UpbitSays ==
  ASSUME NEW c \in Client, NEW r \in Request, c.venue = "upbit", NEW path \in {"rest", "ws", "batch"},
         NEW w, w = Sent(c, path, r), w # Refused
  PROVE  Says(c, r, w) /\ Agrees(w, PlaceOrder(c, r))
<1> DEFINE b == Bare("spot", r)
           t == [b EXCEPT !.named = r.named, !.tif = IF RequiresPrice(r) THEN r.tif ELSE "gtc"]
           sized == RequiresPrice(r) \/ r.side = "sell"
<1>1. IsBare(b, "spot", r)
  BY BareIsBare DEF Markets
<1>2. /\ w = PlaceOrder(c, r) /\ ~IsTrigger(r) /\ ~r.post
      /\ w = [t EXCEPT !.sized = sized]
  <2>1. Upbit!Bare("spot", r) = b
    BY DEF Upbit!Bare, Bare, Upbit!RequiresPrice, RequiresPrice
  <2> HIDE DEF b
  <2>2. w = PlaceOrder(c, r) /\ w = Upbit!PlaceOrder(c, r)
    BY DEF Sent, PlaceOrder, PlaceOrderWs, PlaceBatch
  <2> QED
    BY <2>1, <2>2 DEF Upbit!PlaceOrder, Upbit!Unless, Upbit!Refused, Refused, Upbit!OrdType, Upbit!TifRefused,
       Upbit!IsTrigger, IsTrigger, Upbit!RequiresPrice, RequiresPrice
<1> HIDE DEF b
<1>3. Told(t, r, "spot", "none", IF RequiresPrice(r) THEN r.tif ELSE "gtc", FALSE, FALSE, "net", "none", TRUE)
  BY <1>1 DEF IsBare, Told, Wire, Request
<1> HIDE DEF t
<1>4. Told(w, r, "spot", "none", IF RequiresPrice(r) THEN r.tif ELSE "gtc", FALSE, FALSE, "net", "none", sized)
  <2>1. sized \in BOOLEAN
    OBVIOUS
  <2> HIDE DEF sized
  <2> QED
    BY <1>2, <1>3, <2>1 DEF Told, Wire
<1>5. Says(c, r, w)
  BY <1>2, <1>4 DEF Told, Says, Waits, KeepsTerms, OnlyReduces, OnlyAdds, RequiresPrice, Request
<1> QED
  BY <1>2, <1>4, <1>5, AgreesWithItself DEF Told

\* What the client of Gate, whose trigger orders say less than was asked sends says what was asked, and the same on every path.
LEMMA GateSays ==
  ASSUME NEW c \in Client, NEW r \in Request, c.venue = "gate", NEW path \in {"rest", "ws", "batch"},
         NEW w, w = Sent(c, path, r), w # Refused
  PROVE  Says(c, r, w) /\ (r.valid /\ ~Misroutes(c, path) => Agrees(w, PlaceOrder(c, r)))
<1> DEFINE b(market) == Bare(market, r)
           p == [b(c.market) EXCEPT !.trigger = IF r.side = "sell" THEN "falls" ELSE "rises"]
           u == [b("spot") EXCEPT !.named = r.named, !.stp = r.stp]
           t == [u EXCEPT !.tif = r.tif, !.post = r.post]
           s == IF Hedged(c) /\ r.reduce
                THEN [b("linear") EXCEPT !.reduce = TRUE, !.acts_on = ForOrder(r), !.sized = FALSE]
                ELSE [b("linear") EXCEPT !.reduce = r.reduce, !.acts_on = IF Hedged(c) THEN ForOrder(r) ELSE "net"]
           n == [s EXCEPT !.named = r.named]
           f == IF RequiresPrice(r) THEN [n EXCEPT !.tif = r.tif, !.post = r.post] ELSE [n EXCEPT !.tif = "ioc"]
<1>1. \A market \in Markets : IsBare(b(market), market, r)
  BY BareIsBare
<1>2. \A market : Gate!Bare(market, r) = b(market)
  BY DEF Gate!Bare, Bare, Gate!RequiresPrice, RequiresPrice
<1> HIDE DEF b
<1>3. /\ Gate!PlacePriceOrder(c, r) \in {p, Refused}
      /\ Gate!SpotTerms(r) = t
      /\ Gate!PlaceFuturesOrder(c, r) \in {f, Refused}
  <2>1. Gate!PlacePriceOrder(c, r) \in {p, Refused}
    BY <1>2 DEF Gate!PlacePriceOrder, Gate!Unless, Gate!Refused, Refused, Gate!Rule
  <2>2. Gate!SpotTerms(r) = t
    BY <1>2 DEF Gate!SpotTerms, Gate!Tif
  <2>3. Gate!Sized(c, r) = s
    BY <1>2 DEF Gate!Sized, Gate!Hedged, Hedged, Gate!ForOrder, ForOrder
  <2> HIDE DEF s
  <2>4. Gate!PlaceFuturesOrder(c, r) \in {f, Refused}
    BY <2>3 DEF Gate!PlaceFuturesOrder, Gate!Unless, Gate!Refused, Refused, Gate!Tif, Gate!RequiresPrice,
       RequiresPrice
  <2> QED
    BY <2>1, <2>2, <2>4
<1> HIDE DEF p, t, f
<1>4. /\ r.reduce => Futures(c) \/ w = p
      /\ \/ IsTrigger(r) /\ w = p
         \/ ~IsTrigger(r) /\ Futures(c) /\ path = "rest" /\ w = f
         \/ ~IsTrigger(r) /\ (~Futures(c) \/ path = "batch") /\ w = t
  <2>1. CASE path = "rest"
    BY <1>3, <2>1 DEF Sent, PlaceOrder, Gate!PlaceOrder, Gate!Unless, Gate!Refused, Refused, Gate!IsTrigger,
       IsTrigger, Gate!Futures, Futures, Gate!NotReducible
  <2>2. CASE path # "rest"
    BY <1>3, <2>2 DEF Sent, PlaceOrderWs, PlaceBatch, Gate!PlaceOrderWs, Gate!PlaceBatch, Gate!Unless,
       Gate!Refused, Refused, Gate!IsTrigger, IsTrigger, Gate!Futures, Futures, Gate!NotReducible
  <2> QED
    BY <2>1, <2>2
<1>5. r.valid /\ ~Misroutes(c, path) => w = PlaceOrder(c, r)
  BY <1>3 DEF Sent, PlaceOrder, PlaceOrderWs, PlaceBatch, Gate!PlaceOrder, Gate!PlaceOrderWs, Gate!PlaceBatch,
     Gate!Unless, Gate!Refused, Refused, Gate!IsTrigger, IsTrigger, Gate!Futures, Futures, Misroutes
<1>6. CASE IsTrigger(r) /\ w = p
  <2>1. IsBare(b(c.market), c.market, r)
    BY <1>1 DEF Client
  <2>2. Told(p, r, c.market, Adverse(r.side), "gtc", FALSE, FALSE, "net", "none", TRUE)
    BY <2>1 DEF IsBare, Told, Wire, Adverse, p
  <2>3. Says(c, r, w)
    BY <1>6, <2>2 DEF Told, Says, Waits, KeepsTerms, OnlyReduces, OnlyAdds, Futures, Other, IsTrigger,
       RequiresPrice, Client, Markets
  <2> QED
    BY <1>5, <1>6, <2>2, <2>3, AgreesWithItself DEF Told
<1>7. CASE ~IsTrigger(r) /\ (~Futures(c) \/ path = "batch") /\ w = t
  <2>1. IsBare(b("spot"), "spot", r)
    BY <1>1 DEF Markets
  <2>2. Told(u, r, "spot", "none", "gtc", FALSE, FALSE, "net", r.stp, TRUE)
    BY <2>1 DEF IsBare, Told, Wire, Request
  <2> HIDE DEF u
  <2>3. Told(t, r, "spot", "none", r.tif, r.post, FALSE, "net", r.stp, TRUE)
    BY <2>2 DEF Told, Wire, Request, t
  <2>4. Says(c, r, w)
    BY <1>7, <2>3 DEF Told, Says, Waits, KeepsTerms, OnlyReduces, OnlyAdds, IsTrigger, RequiresPrice
  <2> QED
    BY <1>5, <1>7, <2>3, <2>4, AgreesWithItself DEF Told
<1>8. CASE ~IsTrigger(r) /\ Futures(c) /\ w = f
  <2>1. IsBare(b("linear"), "linear", r)
    BY <1>1 DEF Markets
  <2>2. /\ s \in Wire /\ s.side = r.side /\ s.kind = (IF RequiresPrice(r) THEN "limit" ELSE "market")
        /\ s.market = "linear" /\ s.trigger = "none" /\ s.reduce = r.reduce
        /\ s.acts_on = IF Hedged(c) THEN ForOrder(r) ELSE "net"
    <3>1. ForOrder(r) \in {"long", "short"} /\ r.reduce \in BOOLEAN
      BY DEF ForOrder, Request
    <3> QED
      BY <2>1, <3>1 DEF IsBare, Wire
  <2> HIDE DEF s
  <2>3. /\ n \in Wire /\ n.side = s.side /\ n.kind = s.kind /\ n.market = s.market /\ n.trigger = s.trigger
        /\ n.reduce = s.reduce /\ n.acts_on = s.acts_on
    BY <2>2 DEF Wire, Request
  <2> HIDE DEF n
  <2>4. /\ f \in Wire /\ f.side = n.side /\ f.kind = n.kind /\ f.market = n.market /\ f.trigger = n.trigger
        /\ f.reduce = n.reduce /\ f.acts_on = n.acts_on
        /\ RequiresPrice(r) => f.tif = r.tif /\ f.post = r.post
    BY <2>3 DEF Wire, Request, f
  <2>5. Says(c, r, w)
    BY <1>8, <2>2, <2>3, <2>4 DEF Says, Waits, KeepsTerms, OnlyReduces, OnlyAdds, TwoSided, Other,
       ForOrder, Request, Sides, RequiresPrice
  <2> QED
    BY <1>5, <1>8, <2>4, <2>5, AgreesWithItself
<1> QED
  BY <1>4, <1>6, <1>7, <1>8

\* What the client of HTX, spot and swaps sends says what was asked, and the same on every path.
LEMMA HtxSays ==
  ASSUME NEW c \in Client, NEW r \in Request, c.venue = "htx", NEW path \in {"rest", "ws", "batch"},
         NEW w, w = Sent(c, path, r), w # Refused
  PROVE  Says(c, r, w) /\ (r.valid => Agrees(w, PlaceOrder(c, r)))
<1> DEFINE b(market) == Bare(market, r)
           q == [b("linear") EXCEPT !.trigger = IF r.side = "sell" THEN "falls" ELSE "rises"]
           p == IF Futures(c) THEN [q EXCEPT !.acts_on = ForOrder(r), !.reduce = r.reduce]
                ELSE [b("spot") EXCEPT !.trigger = "own", !.named = TRUE]
           u == [b("spot") EXCEPT !.named = r.named]
           t == IF RequiresPrice(r) THEN [u EXCEPT !.tif = r.tif, !.post = r.post] ELSE u
           n == IF RequiresPrice(r) THEN [b("linear") EXCEPT !.tif = r.tif, !.post = r.post]
                ELSE [b("linear") EXCEPT !.tif = "ioc"]
           f == [n EXCEPT !.acts_on = ForOrder(r), !.reduce = r.reduce]
<1>1. IsBare(b("spot"), "spot", r) /\ IsBare(b("linear"), "linear", r)
  BY BareIsBare DEF Markets
<1>2. \A market : Htx!Bare(market, r) = b(market)
  BY DEF Htx!Bare, Bare, Htx!RequiresPrice, RequiresPrice
<1> HIDE DEF b
<1>3. /\ Htx!PlaceTriggerOrder(c, r) = p
      /\ Htx!SpotTerms(r) = t
      /\ Htx!PlaceFuturesOrder(c, r) \in {f, Refused}
  <2>1. Htx!PlaceTriggerOrder(c, r) = p
    <3>1. Htx!Futures(c) = Futures(c) /\ Htx!ForOrder(r) = ForOrder(r)
      BY DEF Htx!Futures, Futures, Htx!ForOrder, ForOrder
    <3>2. Htx!PlaceTriggerOrder(c, r) =
            IF Htx!Futures(c) THEN [q EXCEPT !.acts_on = Htx!ForOrder(r), !.reduce = r.reduce]
            ELSE [b("spot") EXCEPT !.trigger = "own", !.named = TRUE]
      <4>1. Htx!Bare("linear", r) = b("linear") /\ Htx!Bare("spot", r) = b("spot")
        BY <1>2
      <4> QED
        BY <4>1 DEF Htx!PlaceTriggerOrder, Htx!Offset
    <3> HIDE DEF q
    <3> QED
      BY <3>1, <3>2
  <2>2. Htx!SpotTerms(r) = t
    BY <1>2 DEF Htx!SpotTerms, Htx!OrderKind, Htx!RequiresPrice, RequiresPrice
  <2>3. Htx!PlaceFuturesOrder(c, r) \in {f, Refused}
    BY <1>2 DEF Htx!PlaceFuturesOrder, Htx!Unless, Htx!Refused, Refused, Htx!Offset, Htx!PriceType,
       Htx!RequiresPrice, RequiresPrice, Htx!ForOrder, ForOrder
  <2> QED
    BY <2>1, <2>2, <2>3
<1> HIDE DEF p, t, f
<1>4. /\ r.reduce => Futures(c)
      /\ r.valid => w = PlaceOrder(c, r)
      /\ \/ IsTrigger(r) /\ w = p
         \/ ~IsTrigger(r) /\ Futures(c) /\ w = f
         \/ ~IsTrigger(r) /\ ~Futures(c) /\ w = t
  <2>1. CASE path = "rest"
    BY <1>3, <2>1 DEF Sent, PlaceOrder, Htx!PlaceOrder, Htx!Unless, Htx!Refused, Refused, Htx!IsTrigger,
       IsTrigger, Htx!Futures, Futures, Htx!NotReducible
  <2>2. CASE path # "rest"
    BY <1>3, <2>2 DEF Sent, PlaceOrder, PlaceOrderWs, PlaceBatch, Htx!PlaceOrder, Htx!PlaceBatch, Htx!Unless,
       Htx!Refused, Refused, Htx!IsTrigger, IsTrigger, Htx!Futures, Futures, Htx!NotReducible
  <2> QED
    BY <2>1, <2>2
<1>5. ForOrder(r) \in {"long", "short"} /\ r.reduce \in BOOLEAN
  BY DEF ForOrder, Request
<1>6. CASE IsTrigger(r) /\ w = p
  <2>1. /\ q \in Wire /\ q.side = r.side /\ q.kind = (IF RequiresPrice(r) THEN "limit" ELSE "market")
        /\ q.market = "linear" /\ q.trigger = Adverse(r.side)
    BY <1>1 DEF IsBare, Wire, Adverse
  <2> HIDE DEF q
  <2>2. /\ p \in Wire /\ p.side = r.side /\ p.kind = (IF RequiresPrice(r) THEN "limit" ELSE "market")
        /\ p.trigger \in {"own", Adverse(r.side)}
        /\ IF Futures(c) THEN p.market = "linear" /\ p.acts_on = ForOrder(r) ELSE p.market = "spot"
    BY <1>1, <1>5, <2>1 DEF IsBare, Wire, p
  <2>3. Says(c, r, w)
    BY <1>6, <2>2 DEF Says, Waits, KeepsTerms, OnlyReduces, OnlyAdds, TwoSided, Other, ForOrder, Request, Sides,
       IsTrigger, RequiresPrice
  <2> QED
    BY <1>4, <1>6, <2>2, <2>3, AgreesWithItself
<1>7. CASE ~IsTrigger(r) /\ ~Futures(c) /\ w = t
  <2>1. Told(u, r, "spot", "none", "gtc", FALSE, FALSE, "net", "none", TRUE)
    BY <1>1 DEF IsBare, Told, Wire, Request
  <2> HIDE DEF u
  <2>2. /\ t \in Wire /\ t.side = r.side /\ t.kind = (IF RequiresPrice(r) THEN "limit" ELSE "market")
        /\ t.market = "spot" /\ t.trigger = "none"
        /\ RequiresPrice(r) => t.tif = r.tif /\ t.post = r.post
    BY <2>1 DEF Told, Wire, Request, t
  <2>3. Says(c, r, w)
    BY <1>4, <1>7, <2>2 DEF Says, Waits, KeepsTerms, OnlyReduces, OnlyAdds, RequiresPrice
  <2> QED
    BY <1>4, <1>7, <2>2, <2>3, AgreesWithItself
<1>8. CASE ~IsTrigger(r) /\ Futures(c) /\ w = f
  <2>1. /\ n \in Wire /\ n.side = r.side /\ n.kind = (IF RequiresPrice(r) THEN "limit" ELSE "market")
        /\ n.market = "linear" /\ n.trigger = "none"
        /\ RequiresPrice(r) => n.tif = r.tif /\ n.post = r.post
    BY <1>1 DEF IsBare, Wire, Request
  <2> HIDE DEF n
  <2>2. /\ f \in Wire /\ f.side = n.side /\ f.kind = n.kind /\ f.market = n.market /\ f.trigger = n.trigger
        /\ f.tif = n.tif /\ f.post = n.post /\ f.acts_on = ForOrder(r)
    BY <1>5, <2>1 DEF Wire, f
  <2>3. Says(c, r, w)
    BY <1>8, <2>1, <2>2 DEF Says, Waits, KeepsTerms, OnlyReduces, OnlyAdds, TwoSided, Other, ForOrder, Request,
       Sides, RequiresPrice
  <2> QED
    BY <1>4, <1>8, <2>2, <2>3, AgreesWithItself
<1> QED
  BY <1>4, <1>6, <1>7, <1>8

\* What the client of Kraken, spot and futures sends says what was asked, and the same on every path.
LEMMA KrakenSays ==
  ASSUME NEW c \in Client, NEW r \in Request, c.venue = "kraken", NEW path \in {"rest", "ws", "batch"},
         NEW w, w = Sent(c, path, r), w # Refused
  PROVE  Says(c, r, w) /\ (r.valid /\ ~Misroutes(c, path) => Agrees(w, PlaceOrder(c, r)))
<1> DEFINE b(market) == Bare(market, r)
           n == [b("linear") EXCEPT !.reduce = r.reduce, !.named = r.named]
           f == CASE IsTrigger(r) -> [n EXCEPT !.trigger = "own"]
                  [] r.type = "market" -> n
                  [] OTHER -> [n EXCEPT !.tif = r.tif, !.post = r.post]
           t == [b("spot") EXCEPT !.post = r.post, !.tif = r.tif, !.named = r.named]
           trigger == IF IsTrigger(r) THEN "own" ELSE "none"
           p == [t EXCEPT !.trigger = trigger]
           u == [b("spot") EXCEPT !.tif = r.tif, !.named = r.named]
           m == IF Futures(c) THEN "unserved" ELSE "spot"
           x == [t EXCEPT !.market = m]
<1>1. IsBare(b("spot"), "spot", r) /\ IsBare(b("linear"), "linear", r)
  BY BareIsBare DEF Markets
<1>2. \A market : Kraken!Bare(market, r) = b(market)
  BY DEF Kraken!Bare, Bare, Kraken!RequiresPrice, RequiresPrice
<1> HIDE DEF b
<1>3. Kraken!PlaceFuturesOrder(r) \in {f, Refused}
  <2>1. Kraken!FuturesType(r, n) = f
    BY DEF Kraken!FuturesType, Kraken!IsTrigger, IsTrigger
  <2> HIDE DEF f
  <2> QED
    BY <1>2, <2>1 DEF Kraken!PlaceFuturesOrder, Kraken!Unless, Kraken!Refused, Refused
<1>4. Kraken!SpotTerms(r) = t
  BY <1>2 DEF Kraken!SpotTerms
<1> HIDE DEF f, t
<1>5. ASSUME PlaceOrder(c, r) # Refused
      PROVE  /\ ~(Futures(c) /\ Hedged(c)) /\ (r.reduce => Futures(c))
             /\ PlaceOrder(c, r) = IF Futures(c) THEN f ELSE p
  BY <1>3, <1>4, <1>5 DEF PlaceOrder, Kraken!PlaceOrder, Kraken!Unless, Kraken!Refused, Refused,
     Kraken!SpotOrderType, Kraken!IsTrigger, IsTrigger, Kraken!Futures, Futures, Kraken!Hedged, Hedged,
     Kraken!NotReducible, Kraken!NotOneWay
<1>6. /\ path = "ws" => ~IsTrigger(r) /\ ~r.reduce /\ ~Futures(c) /\ ~r.post /\ w = u
      /\ path = "batch" => ~IsTrigger(r) /\ (r.reduce => Futures(c)) /\ w = x
  BY <1>2, <1>4 DEF Sent, PlaceOrderWs, PlaceBatch, Kraken!PlaceOrderWs, Kraken!PlaceBatch, Kraken!Unless,
     Kraken!Refused, Refused, Kraken!IsTrigger, IsTrigger, Kraken!Futures, Futures, Kraken!NotReducible
<1>7. ASSUME r.valid, path \in {"ws", "batch"}, ~Misroutes(c, path)
      PROVE  PlaceOrder(c, r) = p
  BY <1>4, <1>7 DEF Sent, PlaceOrder, PlaceOrderWs, PlaceBatch, Kraken!PlaceOrder, Kraken!PlaceOrderWs,
     Kraken!PlaceBatch, Kraken!Unless, Kraken!Refused, Refused, Kraken!SpotOrderType, Kraken!IsTrigger, IsTrigger,
     Kraken!Futures, Futures, Kraken!NotReducible, Kraken!NotOneWay, Misroutes
<1>8. Told(t, r, "spot", "none", r.tif, r.post, FALSE, "net", "none", TRUE)
  BY <1>1 DEF IsBare, Told, Wire, Request, t
<1>9. Told(p, r, "spot", trigger, r.tif, r.post, FALSE, "net", "none", TRUE)
  BY <1>8 DEF Told, Wire, Request
<1>10. Told(x, r, m, "none", r.tif, r.post, FALSE, "net", "none", TRUE)
  BY <1>8 DEF Told, Wire, Request
<1>11. Told(u, r, "spot", "none", r.tif, FALSE, FALSE, "net", "none", TRUE)
  BY <1>1 DEF IsBare, Told, Wire, Request
<1> HIDE DEF p, u, x
<1>12. CASE path = "ws"
  <2>1. r.post = FALSE
    BY <1>6, <1>12 DEF Request
  <2>2. Says(c, r, w)
    BY <1>6, <1>11, <1>12, <2>1 DEF Told, Says, Waits, KeepsTerms, OnlyAdds, RequiresPrice
  <2>3. r.valid => PlaceOrder(c, r) = p
    BY <1>7, <1>12 DEF Misroutes
  <2>4. trigger = "none"
    BY <1>6, <1>12
  <2> HIDE DEF trigger
  <2> QED
    BY <1>6, <1>9, <1>11, <1>12, <2>1, <2>2, <2>3, <2>4, ToldAlike
<1>13. CASE path = "batch"
  <2>1. Says(c, r, w)
    BY <1>6, <1>10, <1>13 DEF Told, Says, Waits, KeepsTerms, OnlyReduces, OnlyAdds, RequiresPrice
  <2>2. r.valid /\ ~Misroutes(c, path) => PlaceOrder(c, r) = p /\ m = "spot"
    BY <1>7, <1>13 DEF Misroutes
  <2>3. trigger = "none"
    BY <1>6, <1>13
  <2> HIDE DEF trigger, m
  <2> QED
    BY <1>6, <1>9, <1>10, <1>13, <2>1, <2>2, <2>3, ToldAlike
<1>14. CASE path = "rest"
  <2>1. w = PlaceOrder(c, r)
    BY <1>14 DEF Sent
  <2>2. CASE ~Futures(c)
    <3>1. Says(c, r, w)
      BY <1>5, <1>9, <2>1, <2>2 DEF Told, Says, Waits, KeepsTerms, OnlyReduces, OnlyAdds, RequiresPrice
    <3> QED
      BY <2>1, <3>1, AgreesWithItself DEF Says
  <2>3. CASE Futures(c)
    <3>1. /\ n \in Wire /\ n.side = r.side /\ n.kind = (IF RequiresPrice(r) THEN "limit" ELSE "market")
          /\ n.market = "linear" /\ n.trigger = "none" /\ n.reduce = r.reduce /\ n.acts_on = "net"
      BY <1>1 DEF IsBare, Wire, Request
    <3> HIDE DEF n
    <3>2. /\ f \in Wire /\ f.side = n.side /\ f.kind = n.kind /\ f.market = n.market
          /\ f.trigger = trigger /\ f.reduce = n.reduce /\ f.acts_on = n.acts_on
          /\ r.type = "limit" => f.tif = r.tif /\ f.post = r.post
      <4>1. CASE IsTrigger(r)
        BY <3>1, <4>1 DEF Wire, IsTrigger, f
      <4>2. CASE ~IsTrigger(r) /\ r.type = "market"
        BY <3>1, <4>2 DEF Wire, f
      <4>3. CASE ~IsTrigger(r) /\ r.type # "market"
        BY <3>1, <4>3 DEF Wire, Request, f
      <4> QED
        BY <4>1, <4>2, <4>3
    <3>3. Says(c, r, w)
      BY <1>5, <2>1, <2>3, <3>1, <3>2 DEF Says, Waits, KeepsTerms, OnlyReduces, OnlyAdds, TwoSided, RequiresPrice
    <3> QED
      BY <2>1, <3>3, AgreesWithItself DEF Says
  <2> QED
    BY <2>2, <2>3
<1> QED
  BY <1>12, <1>13, <1>14

\* What an order says is what was asked, for each client and each of its paths.
LEMMA OrdersSay ==
  ASSUME NEW c \in Client, NEW r \in Request, NEW path \in {"rest", "ws", "batch"},
         NEW w, w = Sent(c, path, r), w # Refused
  PROVE  Says(c, r, w) /\ (r.valid /\ ~Misroutes(c, path) => Agrees(w, PlaceOrder(c, r)))
<1>1. c.venue \in {"binance", "bitget", "bybit", "coinbase", "gate", "htx", "kraken", "kucoin", "okx", "upbit"}
  BY DEF Client
<1> QED
  BY <1>1, BinanceSays, BitgetSays, BybitSays, CoinbaseSays, GateSays, HtxSays, KrakenSays, KuCoinSays,
     OkxSays, UpbitSays

\* A bracket waits for either move, and acts on the side that its own side closes.
BracketSays(c, r, w) ==
  /\ w \in Wire /\ w.side = r.side /\ w.trigger = "either"
  /\ w.market = "linear" => Futures(c)
  /\ c.venue # "kucoin" => (w.kind = "limit" <=> RequiresPrice(r))
  /\ IF c.venue = "okx" => Hedged(c) THEN OnlyReduces(c, w) ELSE OnlyAdds(c, w)

\* What a client that offers brackets sends for one, of whatever account.
LEMMA BracketsSay ==
  ASSUME NEW c \in Client, NEW r \in Request, NEW w, w = Sent(c, "oco", r), w # Refused
  PROVE  BracketSays(c, r, w)
<1> DEFINE b == Bare("spot", r)
           d == Bare(c.market, r)
<1>1. /\ w = PlaceOco(c, r)
      /\ c.venue \in {"binance", "kucoin", "okx"}
  BY DEF Sent, PlaceOco
<1>2. IsBare(b, "spot", r) /\ IsBare(d, c.market, r)
  BY BareIsBare DEF Client, Markets
<1>4. CASE c.venue = "binance"
  <2> DEFINE x == [b EXCEPT !.trigger = "either", !.named = r.named]
  <2>1. w = x
    BY <1>1, <1>4 DEF PlaceOco, Binance!PlaceOco, Binance!Unless, Binance!Refused, Refused, Binance!Bare, Bare,
       Binance!RequiresPrice, RequiresPrice
  <2> HIDE DEF b
  <2>2. x \in Wire /\ x.side = r.side /\ x.trigger = "either" /\ x.market = "spot"
        /\ x.kind = (IF RequiresPrice(r) THEN "limit" ELSE "market")
    BY <1>2 DEF IsBare, Wire, Request
  <2> HIDE DEF x
  <2> QED
    BY <1>4, <2>1, <2>2 DEF BracketSays, OnlyReduces
<1>5. CASE c.venue = "kucoin"
  <2> DEFINE x == [b EXCEPT !.kind = "limit", !.trigger = "either", !.named = TRUE]
  <2>1. w = x
    BY <1>1, <1>5 DEF PlaceOco, KuCoin!PlaceOco, KuCoin!Unless, KuCoin!Refused, Refused, KuCoin!Bare, Bare,
       KuCoin!RequiresPrice, RequiresPrice
  <2> HIDE DEF b
  <2>2. x \in Wire /\ x.side = r.side /\ x.trigger = "either" /\ x.market = "spot"
    BY <1>2 DEF IsBare, Wire, Request
  <2> HIDE DEF x
  <2> QED
    BY <1>5, <2>1, <2>2 DEF BracketSays, OnlyReduces
<1>6. CASE c.venue = "okx"
  <2> DEFINE acts == IF Futures(c) /\ Hedged(c) THEN IF r.side = "buy" THEN "short" ELSE "long" ELSE "net"
  <2> DEFINE x == [d EXCEPT !.trigger = "either", !.named = r.named, !.acts_on = acts]
  <2>1. w = x
    <3>1. Okx!PosSide(c, [r EXCEPT !.reduce = TRUE]) = acts
      BY DEF Okx!PosSide, Okx!Futures, Futures, Okx!Hedged, Hedged, Okx!ForOrder, Request, Sides
    <3>2. Okx!Bare(c.market, r) = d
      BY DEF Okx!Bare, Bare, Okx!RequiresPrice, RequiresPrice
    <3> HIDE DEF d, acts
    <3> QED
      BY <1>1, <1>6, <3>1, <3>2 DEF PlaceOco, Okx!PlaceOco, Okx!Unless, Okx!Refused, Refused
  <2>2. acts \in {"net", "long", "short"}
    OBVIOUS
  <2> HIDE DEF d, acts
  <2>3. x \in Wire /\ x.side = r.side /\ x.trigger = "either" /\ x.market = c.market /\ x.acts_on = acts
        /\ x.kind = (IF RequiresPrice(r) THEN "limit" ELSE "market")
    BY <1>2, <2>2 DEF IsBare, Wire, Request
  <2> HIDE DEF x
  <2> QED
    BY <1>6, <2>1, <2>3 DEF BracketSays, OnlyReduces, OnlyAdds, TwoSided, Hedged, Futures, Other, acts
<1> QED
  BY <1>1, <1>4, <1>5, <1>6

\* The order that close_position places reduces.
LEMMA ClosesReduce ==
  ASSUME NEW c \in Client, Futures(c), c.venue \notin {"coinbase", "upbit"}, NEW s \in {"long", "short"},
         NEW w, w = Close(c, s), w # Refused
  PROVE  w \in Wire /\ OnlyReduces(c, w)
<1> DEFINE r == TakeBack(s)
<1>1. r \in Request /\ r.reduce /\ ~IsTrigger(r)
  BY DEF TakeBack, Request, Sides, Types, IsTrigger
<1>2. /\ Binance!TakeBack(s) = r /\ Bitget!TakeBack(s) = r /\ Bybit!TakeBack(s) = r /\ Gate!TakeBack(s) = r
      /\ Htx!TakeBack(s) = r /\ Kraken!TakeBack(s) = r /\ KuCoin!TakeBack(s) = r /\ Okx!TakeBack(s) = r
  BY DEF TakeBack, Binance!TakeBack, Bitget!TakeBack, Bybit!TakeBack, Gate!TakeBack, Htx!TakeBack,
     Kraken!TakeBack, KuCoin!TakeBack, Okx!TakeBack
<1> HIDE DEF r
<1>3. c.venue \in {"binance", "bitget", "bybit", "gate", "htx", "kraken", "kucoin", "okx"}
  BY DEF Client
<1>4. w = PlaceOrder(c, r)
  BY <1>2, <1>3 DEF Close, PlaceOrder, Binance!ClosePosition, Bitget!ClosePosition, Bybit!ClosePosition,
     Gate!ClosePosition, Htx!ClosePosition, Kraken!ClosePosition, KuCoin!ClosePosition, Okx!ClosePosition,
     Kraken!Unless, Kraken!Refused, KuCoin!Unless, KuCoin!Refused, Refused
<1>5. w = Sent(c, "rest", r)
  BY <1>4 DEF Sent
<1> QED
  BY <1>1, <1>5, OrdersSay DEF Says

-----------------------------------------------------------------------------
\* What an executed order does to the two sides of the account.
Account == [long : Nat, short : Nat]

\* An order takes from one side and adds to the other.
LEMMA SidesOfOrders ==
  ASSUME NEW w \in Wire
  PROVE  \/ Own(w) = "long" /\ Other(w) = "short"
         \/ Own(w) = "short" /\ Other(w) = "long"
BY DEF Own, Other

\* Reducing takes from one side and never goes below nothing.
LEMMA ReducedHolds ==
  ASSUME held \in Account, NEW w \in Wire, NEW q \in Nat
  PROVE  /\ Reduced(w, q) \in Account
         /\ Reduced(w, q).long <= held.long /\ Reduced(w, q).short <= held.short
<1> DEFINE left == IF w.sized THEN held[Other(w)] - Least(q, held[Other(w)]) ELSE 0
           h == [held EXCEPT ![Other(w)] = left]
<1>1. Reduced(w, q) = h
  BY DEF Reduced
<1>2. held.long \in Nat /\ held.short \in Nat /\ Other(w) \in {"long", "short"}
  BY SidesOfOrders DEF Account
<1>3. left \in Nat /\ left <= held[Other(w)]
  BY <1>2 DEF Least
<1> HIDE DEF left
<1>4. h \in Account /\ h.long <= held.long /\ h.short <= held.short
  <2>1. CASE Other(w) = "long"
    BY <1>2, <1>3, <2>1 DEF Account
  <2>2. CASE Other(w) = "short"
    BY <1>2, <1>3, <2>2 DEF Account
  <2> QED
    BY <1>2, <2>1, <2>2
<1> QED
  BY <1>1, <1>4

\* Adding takes from neither side.
LEMMA AddedHolds ==
  ASSUME held \in Account, NEW w \in Wire, NEW q \in Nat
  PROVE  /\ Added(w, q) \in Account
         /\ Added(w, q).long >= held.long /\ Added(w, q).short >= held.short
<1> DEFINE more == held[Own(w)] + q
           h == [held EXCEPT ![Own(w)] = more]
<1>1. Added(w, q) = h
  BY DEF Added
<1>2. held.long \in Nat /\ held.short \in Nat /\ Own(w) \in {"long", "short"}
  BY SidesOfOrders DEF Account
<1>3. more \in Nat /\ more >= held[Own(w)]
  BY <1>2
<1> HIDE DEF more
<1>4. h \in Account /\ h.long >= held.long /\ h.short >= held.short
  <2>1. CASE Own(w) = "long"
    BY <1>2, <1>3, <2>1 DEF Account
  <2>2. CASE Own(w) = "short"
    BY <1>2, <1>3, <2>2 DEF Account
  <2> QED
    BY <1>2, <2>1, <2>2
<1> QED
  BY <1>1, <1>4

OneSided(h) == h.long = 0 \/ h.short = 0

\* Netting leaves a one-sided account one-sided.
LEMMA NettedHolds ==
  ASSUME held \in Account, OneSided(held), NEW w \in Wire, NEW q \in Nat
  PROVE  Netted(w, q) \in Account /\ OneSided(Netted(w, q))
<1> DEFINE less == held[Other(w)] - Least(q, held[Other(w)])
           more == held[Own(w)] + q - Least(q, held[Other(w)])
           h == [held EXCEPT ![Other(w)] = less, ![Own(w)] = more]
<1>1. held.long \in Nat /\ held.short \in Nat /\ (held.long = 0 \/ held.short = 0)
  BY DEF Account, OneSided
<1>2. CASE Own(w) = "long" /\ Other(w) = "short"
  <2>1. less \in Nat /\ more \in Nat /\ (less = 0 \/ more = 0)
    BY <1>1, <1>2 DEF Least
  <2>2. Netted(w, q) = h
    BY <1>1, <1>2 DEF Netted, Account
  <2> HIDE DEF less, more
  <2>3. h \in Account /\ h.long = more /\ h.short = less
    BY <1>2, <2>1 DEF Account
  <2> QED
    BY <2>1, <2>2, <2>3 DEF OneSided
<1>3. CASE Own(w) = "short" /\ Other(w) = "long"
  <2>1. less \in Nat /\ more \in Nat /\ (less = 0 \/ more = 0)
    BY <1>1, <1>3 DEF Least
  <2>2. Netted(w, q) = h
    BY <1>1, <1>3 DEF Netted, Account
  <2> HIDE DEF less, more
  <2>3. h \in Account /\ h.long = less /\ h.short = more
    BY <1>3, <2>1 DEF Account
  <2> QED
    BY <2>1, <2>2, <2>3 DEF OneSided
<1> QED
  BY <1>2, <1>3, SidesOfOrders

\* Whatever the positions and the quantity, an order that may only reduce adds to
\* neither side, and one that may only add takes from none.
LEMMA ExecutedHolds ==
  ASSUME held \in Account, ~TwoSided(client) => OneSided(held), NEW w \in Wire, NEW q \in Nat
  PROVE  LET h == Executed(w, q)
         IN  /\ h \in Account /\ (~TwoSided(client) => OneSided(h))
             /\ w.market # "linear" => h = held
             /\ OnlyReduces(client, w) => h.long <= held.long /\ h.short <= held.short
             /\ TwoSided(client) /\ OnlyAdds(client, w) => h.long >= held.long /\ h.short >= held.short
<1> DEFINE h == Executed(w, q)
<1>1. held.long \in Nat /\ held.short \in Nat
  BY DEF Account
<1>2. CASE w.market # "linear"
  <2>1. h = held
    BY <1>2 DEF Executed
  <2> HIDE DEF h
  <2> QED
    BY <1>1, <1>2, <2>1 DEF h
<1>3. CASE w.market = "linear" /\ TwoSided(client) /\ w.acts_on = Other(w)
  <2>1. h = Reduced(w, q)
    BY <1>3 DEF Executed
  <2> HIDE DEF h
  <2> QED
    BY <1>3, <2>1, ReducedHolds DEF OnlyAdds, h
<1>4. CASE w.market = "linear" /\ TwoSided(client) /\ w.acts_on # Other(w)
  <2>1. h = Added(w, q)
    BY <1>4 DEF Executed
  <2> HIDE DEF h
  <2> QED
    BY <1>4, <2>1, AddedHolds DEF OnlyReduces, h
<1>5. CASE w.market = "linear" /\ ~TwoSided(client)
  <2>1. h = IF w.reduce THEN Reduced(w, q) ELSE Netted(w, q)
    BY <1>5 DEF Executed
  <2> HIDE DEF h
  <2>2. CASE w.reduce
    <3>1. OneSided(h)
      BY <1>1, <1>5, <2>1, <2>2, ReducedHolds DEF OneSided, Account
    <3> QED
      BY <1>5, <2>1, <2>2, <3>1, ReducedHolds DEF h
  <2>3. CASE ~w.reduce
    BY <1>5, <2>1, <2>3, NettedHolds DEF OnlyReduces, h
  <2> QED
    BY <2>2, <2>3
<1> QED
  BY <1>2, <1>3, <1>4, <1>5

-----------------------------------------------------------------------------
\* The invariant: an order on its way is what its client sends for what was asked.
Ways == {"placed", "closing"}
Sending == [pc : {"open", "executed"}, wire : Wire, quantity : Nat]

EntryTypes ==
  /\ client \in Clients /\ held \in Account
  /\ asked = NoCall \/ asked \in [path : Paths, request : Requests]
  /\ found = NoPosition \/ found \in [side : {"long", "short"}, quantity : Nat \ {0}]
  /\ orders \in [Ways -> {NoOrder, [pc |-> "refused"]} \union Sending]
  /\ moved \in {"nowhere", "falls", "rises"}

HoldsFit ==
  /\ ~TwoSided(client) => OneSided(held)
  /\ ~Futures(client) => held.long = 0 /\ held.short = 0
  /\ found # NoPosition => Futures(client)

PlacedFits ==
  Placed => /\ asked # NoCall
            /\ Wired = Sent(client, asked.path, asked.request) /\ Wired # Refused
            /\ asked.path = "oco" => IsBracket(asked.request)

ClosingFits ==
  orders["closing"].pc \in {"open", "executed"} =>
    /\ found # NoPosition
    /\ orders["closing"].wire = Close(client, found.side) /\ orders["closing"].wire # Refused

EntryInv == EntryTypes /\ HoldsFit /\ PlacedFits /\ ClosingFits

\* What may be said of the wires of such orders.
LEMMA PlacedSays ==
  ASSUME EntryInv, Placed
  PROVE  /\ client \in Client /\ asked.request \in Request /\ asked.path \in Paths
         /\ asked.path = "oco" => IsBracket(asked.request) /\ BracketSays(client, asked.request, Wired)
         /\ asked.path # "oco" =>
              /\ Says(client, asked.request, Wired)
              /\ asked.request.valid /\ ~Misrouted => Agrees(Wired, PlaceOrder(client, asked.request))
<1>1. /\ client \in Client /\ asked.request \in Request /\ asked.path \in Paths
      /\ Wired = Sent(client, asked.path, asked.request) /\ Wired # Refused
      /\ asked.path = "oco" => IsBracket(asked.request)
  BY ClientAssumption, RequestAssumption DEF EntryInv, EntryTypes, PlacedFits, ClientAssumption, RequestAssumption
<1>2. CASE asked.path = "oco"
  BY <1>1, <1>2, BracketsSay
<1>3. CASE asked.path # "oco"
  <2>1. asked.path \in {"rest", "ws", "batch"}
    BY <1>1, <1>3 DEF Paths
  <2>2. Misrouted <=> Misroutes(client, asked.path)
    BY DEF Misrouted, Misroutes
  <2> QED
    BY <1>1, <1>3, <2>1, <2>2, OrdersSay
<1> QED
  BY <1>1, <1>2, <1>3

\* The order of close_position is one that may only reduce.
LEMMA ClosingSays ==
  ASSUME EntryInv, orders["closing"].pc \in {"open", "executed"}
  PROVE  /\ orders["closing"].wire \in Wire /\ OnlyReduces(client, orders["closing"].wire)
         /\ Futures(client)
<1>1. /\ client \in Client /\ Futures(client) /\ found.side \in {"long", "short"}
      /\ client.venue \notin {"coinbase", "upbit"}
      /\ orders["closing"].wire = Close(client, found.side) /\ orders["closing"].wire # Refused
  BY ClientAssumption DEF EntryInv, EntryTypes, HoldsFit, ClosingFits, ClientAssumption
<1> QED
  BY <1>1, ClosesReduce

\* The invariant holds at first ...
LEMMA EntryInit == Init => EntryInv
<1> SUFFICES ASSUME Init PROVE EntryInv
  OBVIOUS
<1>1. client \in Clients /\ held \in Positions(client) /\ asked = NoCall /\ found = NoPosition
      /\ moved = "nowhere"
  BY DEF Init
<1>2. held \in Account /\ HoldsFit
  <2>1. CASE ~Futures(client)
    BY <1>1, <2>1 DEF Positions, HoldsFit, OneSided, Account
  <2>2. CASE Futures(client) /\ TwoSided(client)
    BY <1>1, <2>2 DEF Positions, HoldsFit, Account
  <2>3. CASE Futures(client) /\ ~TwoSided(client)
    BY <1>1, <2>3 DEF Positions, HoldsFit, OneSided, Account
  <2> QED
    BY <2>1, <2>2, <2>3
<1>3. /\ orders \in [Ways -> {NoOrder, [pc |-> "refused"]} \union Sending]
      /\ orders["placed"].pc = "none" /\ orders["closing"].pc = "none"
  BY DEF Init, Ways, NoOrder
<1> QED
  BY <1>1, <1>2, <1>3 DEF EntryInv, EntryTypes, PlacedFits, ClosingFits, Placed

\* What is sent is on its way, unless the client refused to send it.
LEMMA OrderIsSent ==
  ASSUME NEW w, w = Refused \/ w \in Wire, NEW q \in Nat
  PROVE  /\ Order(w, q) \in {NoOrder, [pc |-> "refused"]} \union Sending
         /\ Order(w, q).pc \in {"open", "executed"} => w # Refused /\ Order(w, q).wire = w
<1>1. CASE w = Refused
  BY <1>1 DEF Order
<1>2. CASE w # Refused
  <2>1. Order(w, q) = [pc |-> "open", wire |-> w, quantity |-> q]
    BY <1>2 DEF Order
  <2> QED
    BY <1>2, <2>1 DEF Sending
<1> QED
  BY <1>1, <1>2

\* ... through each step of the callers ...
LEMMA PlaceKeeps ==
  ASSUME EntryInv, NEW path \in Paths, NEW r \in Requests, Place(path, r)
  PROVE  EntryInv'
<1>1. r \in Request /\ client \in Client
  BY ClientAssumption, RequestAssumption DEF EntryInv, EntryTypes, ClientAssumption, RequestAssumption
<1>2. PICK q \in Said(path, r) : orders' = [orders EXCEPT !["placed"] = Order(Sent(client, path, q), 1)]
  BY DEF Place
<1>3. q = r /\ (path = "oco" => IsBracket(r))
  BY <1>1, <1>2, LanguagesAgree
<1> DEFINE w == Sent(client, path, r)
<1>4. w = Refused \/ w \in Wire
  <2>1. CASE path = "oco"
    BY <1>1, <2>1, BracketsSay DEF BracketSays
  <2>2. CASE path # "oco"
    BY <1>1, <2>2, OrdersSay DEF Says, Paths
  <2> QED
    BY <2>1, <2>2
<1>5. asked' = [path |-> path, request |-> r] /\ asked' # NoCall /\ moved' = "nowhere"
      /\ UNCHANGED <<client, held, found>>
  <2>1. asked' = [path |-> path, request |-> r]
    BY DEF Place
  <2>2. NoCall.path = "none" /\ path # "none"
    BY DEF NoCall, Paths
  <2> QED
    BY <2>1, <2>2 DEF Place
<1> DEFINE o == Order(w, 1)
<1>6. /\ orders' \in [Ways -> {NoOrder, [pc |-> "refused"]} \union Sending]
      /\ orders'["placed"] = o /\ orders'["closing"] = orders["closing"]
  <2>1. o \in {NoOrder, [pc |-> "refused"]} \union Sending
    BY <1>4, OrderIsSent
  <2>2. orders' = [orders EXCEPT !["placed"] = o]
    BY <1>2, <1>3
  <2> HIDE DEF o
  <2> QED
    BY <2>1, <2>2 DEF EntryInv, EntryTypes, Ways
<1>7. o.pc \in {"open", "executed"} => w # Refused /\ o.wire = w
  BY <1>4, OrderIsSent
<1> HIDE DEF o, w
<1>8. EntryTypes'
  BY <1>5, <1>6 DEF EntryInv, EntryTypes
<1>9. HoldsFit' /\ ClosingFits'
  BY <1>5, <1>6 DEF EntryInv, HoldsFit, ClosingFits
<1>10. PlacedFits'
  BY <1>3, <1>5, <1>6, <1>7 DEF PlacedFits, Placed, Wired, w
<1> QED
  BY <1>8, <1>9, <1>10 DEF EntryInv

\* close_position reads a position, of a futures account.
LEMMA FindPositionKeeps ==
  ASSUME EntryInv, NEW s \in {"long", "short"}, FindPosition(s)
  PROVE  EntryInv'
<1>1. /\ found = NoPosition /\ held[s] > 0 /\ found' = [side |-> s, quantity |-> held[s]]
      /\ UNCHANGED <<client, held, asked, orders, moved>>
  BY DEF FindPosition
<1>2. held[s] \in Nat \ {0} /\ Futures(client)
  BY <1>1 DEF EntryInv, EntryTypes, HoldsFit, Account
<1>3. EntryTypes'
  BY <1>1, <1>2 DEF EntryInv, EntryTypes
<1>4. HoldsFit' /\ PlacedFits' /\ ClosingFits'
  BY <1>1, <1>2 DEF EntryInv, HoldsFit, PlacedFits, ClosingFits, Placed, Wired
<1> QED
  BY <1>3, <1>4 DEF EntryInv

\* close_position sends an order of the size it read.
LEMMA ClosePositionKeeps ==
  ASSUME EntryInv, ClosePosition
  PROVE  EntryInv'
<1> DEFINE w == Close(client, found.side)
           o == Order(w, found.quantity)
<1>1. /\ found # NoPosition /\ orders' = [orders EXCEPT !["closing"] = o]
      /\ UNCHANGED <<client, held, asked, found, moved>>
  BY DEF ClosePosition
<1>2. /\ client \in Client /\ Futures(client) /\ found.side \in {"long", "short"}
      /\ found.quantity \in Nat /\ client.venue \notin {"coinbase", "upbit"}
  BY <1>1, ClientAssumption DEF EntryInv, EntryTypes, HoldsFit, ClientAssumption
<1>3. w = Refused \/ w \in Wire
  BY <1>2, ClosesReduce
<1>4. /\ o \in {NoOrder, [pc |-> "refused"]} \union Sending
      /\ o.pc \in {"open", "executed"} => w # Refused /\ o.wire = w
  BY <1>2, <1>3, OrderIsSent
<1> HIDE DEF o, w
<1>5. /\ orders' \in [Ways -> {NoOrder, [pc |-> "refused"]} \union Sending]
      /\ orders'["closing"] = o /\ orders'["placed"] = orders["placed"]
  BY <1>1, <1>4 DEF EntryInv, EntryTypes, Ways
<1>6. EntryTypes'
  BY <1>1, <1>5 DEF EntryInv, EntryTypes
<1>7. HoldsFit' /\ PlacedFits'
  BY <1>1, <1>5 DEF EntryInv, HoldsFit, PlacedFits, Placed, Wired
<1>8. ClosingFits'
  BY <1>1, <1>4, <1>5 DEF ClosingFits, w
<1> QED
  BY <1>6, <1>7, <1>8 DEF EntryInv

\* What an execution does to the account and to its order.
LEMMA ExecuteFacts ==
  ASSUME EntryInv, NEW o \in Ways, Execute(o)
  PROVE  LET w == orders[o].wire
         IN  /\ w \in Wire /\ (w.market = "linear" => Futures(client))
             /\ orders[o].pc = "open" /\ orders[o].quantity \in Nat
             /\ held' = Executed(w, orders[o].quantity)
             /\ orders' \in [Ways -> {NoOrder, [pc |-> "refused"]} \union Sending]
             /\ orders'[o].pc = "executed" /\ orders'[o].wire = w
             /\ \A p \in Ways \ {o} : orders'[p] = orders[p]
             /\ UNCHANGED <<client, asked, found, moved>>
<1>1. /\ orders[o].pc = "open" /\ held' = Executed(orders[o].wire, orders[o].quantity)
      /\ orders' = [orders EXCEPT ![o].pc = "executed"]
      /\ UNCHANGED <<client, asked, found, moved>>
  BY DEF Execute
<1>2. orders[o] \in Sending
  BY <1>1 DEF EntryInv, EntryTypes, NoOrder
<1> DEFINE e == [orders[o] EXCEPT !.pc = "executed"]
<1>3. e \in Sending /\ e.pc = "executed" /\ e.wire = orders[o].wire
  BY <1>2 DEF Sending
<1>4. orders' = [orders EXCEPT ![o] = e]
  BY <1>1
<1> HIDE DEF e
<1>5. /\ orders' \in [Ways -> {NoOrder, [pc |-> "refused"]} \union Sending]
      /\ orders'[o] = e /\ \A p \in Ways \ {o} : orders'[p] = orders[p]
  BY <1>3, <1>4 DEF EntryInv, EntryTypes
<1>6. orders[o].wire.market = "linear" => Futures(client)
  <2>1. CASE o = "placed"
    BY <1>1, <2>1, PlacedSays DEF Placed, Wired, Says, BracketSays
  <2>2. CASE o = "closing"
    BY <1>1, <2>2, ClosingSays
  <2> QED
    BY <2>1, <2>2 DEF Ways
<1> QED
  BY <1>1, <1>2, <1>3, <1>5, <1>6 DEF Sending

\* ... and through each step of the venue.
LEMMA ExecuteKeeps ==
  ASSUME EntryInv, NEW o \in Ways, Execute(o)
  PROVE  EntryInv'
<1> DEFINE w == orders[o].wire
<1>1. /\ w \in Wire /\ (w.market = "linear" => Futures(client))
      /\ orders[o].pc = "open" /\ orders[o].quantity \in Nat
      /\ held' = Executed(w, orders[o].quantity)
      /\ orders' \in [Ways -> {NoOrder, [pc |-> "refused"]} \union Sending]
      /\ orders'[o].pc = "executed" /\ orders'[o].wire = w
      /\ \A p \in Ways \ {o} : orders'[p] = orders[p]
      /\ UNCHANGED <<client, asked, found, moved>>
  BY ExecuteFacts
<1> HIDE DEF w
<1>2. held' \in Account /\ (~TwoSided(client) => OneSided(held')) /\ (w.market # "linear" => held' = held)
  BY <1>1, ExecutedHolds DEF EntryInv, EntryTypes, HoldsFit
<1>3. EntryTypes'
  BY <1>1, <1>2 DEF EntryInv, EntryTypes
<1>4. HoldsFit'
  BY <1>1, <1>2 DEF EntryInv, HoldsFit
<1>5. PlacedFits' /\ ClosingFits'
  <2>1. CASE o = "placed"
    <3>1. orders'["closing"] = orders["closing"]
      BY <1>1, <2>1 DEF Ways
    <3> QED
      BY <1>1, <2>1, <3>1 DEF EntryInv, PlacedFits, ClosingFits, Placed, Wired, w
  <2>2. CASE o = "closing"
    <3>1. orders'["placed"] = orders["placed"]
      BY <1>1, <2>2 DEF Ways
    <3> QED
      BY <1>1, <2>2, <3>1 DEF EntryInv, PlacedFits, ClosingFits, Placed, Wired, w
  <2> QED
    BY <2>1, <2>2 DEF Ways
<1> QED
  BY <1>3, <1>4, <1>5 DEF EntryInv

\* A liquidation leaves one-sided accounts one-sided.
LEMMA LiquidateKeeps ==
  ASSUME EntryInv, NEW s \in {"long", "short"}, Liquidate(s)
  PROVE  EntryInv'
<1>1. held' = [held EXCEPT ![s] = 0] /\ UNCHANGED <<client, asked, found, orders, moved>>
  BY DEF Liquidate
<1>2. held' \in Account /\ (OneSided(held) => OneSided(held')) /\ Futures(client)
  BY <1>1 DEF EntryInv, EntryTypes, HoldsFit, Liquidate, Account, OneSided
<1>3. EntryTypes' /\ HoldsFit'
  BY <1>1, <1>2 DEF EntryInv, EntryTypes, HoldsFit
<1>4. PlacedFits' /\ ClosingFits'
  BY <1>1 DEF EntryInv, PlacedFits, ClosingFits, Placed, Wired
<1> QED
  BY <1>3, <1>4 DEF EntryInv

\* Every step keeps the invariant.
LEMMA EntryKeeps == EntryInv /\ [Next]_vars => EntryInv'
<1> SUFFICES ASSUME EntryInv, [Next]_vars PROVE EntryInv'
  OBVIOUS
<1>1. ASSUME NEW path \in Paths, NEW r \in Requests, Place(path, r) PROVE EntryInv'
  BY <1>1, PlaceKeeps
<1>2. ASSUME NEW s \in {"long", "short"}, FindPosition(s) PROVE EntryInv'
  BY <1>2, FindPositionKeeps
<1>3. ASSUME NEW s \in {"long", "short"}, Liquidate(s) PROVE EntryInv'
  BY <1>3, LiquidateKeeps
<1>4. ASSUME ClosePosition PROVE EntryInv'
  BY <1>4, ClosePositionKeeps
<1>5. ASSUME NEW o \in Ways, Execute(o) PROVE EntryInv'
  BY <1>5, ExecuteKeeps
<1>6. ASSUME PriceMoves PROVE EntryInv'
  BY <1>6 DEF PriceMoves, EntryInv, EntryTypes, HoldsFit, PlacedFits, ClosingFits, Placed, Wired
<1>7. ASSUME UNCHANGED vars PROVE EntryInv'
  BY <1>7 DEF vars, EntryInv, EntryTypes, HoldsFit, PlacedFits, ClosingFits, Placed, Wired
<1> QED
  BY <1>1, <1>2, <1>3, <1>4, <1>5, <1>6, <1>7 DEF Next, Ways

\* What is on its way is what the client sends for what was asked, always.
THEOREM EntryInvariant == Spec => []EntryInv
BY EntryInit, EntryKeeps, PTL DEF Spec

-----------------------------------------------------------------------------
\* The state has its types: only a two-sided account holds both sides.
THEOREM EntryTypeOK == Spec => []TypeOK
<1>1. EntryInv => TypeOK
  <2> SUFFICES ASSUME EntryInv PROVE TypeOK
    OBVIOUS
  <2>1. held \in [long : Nat, short : Nat] /\ (~TwoSided(client) => held.long = 0 \/ held.short = 0)
    BY DEF EntryInv, EntryTypes, HoldsFit, Account, OneSided
  <2>2. asked # NoCall => asked.path \in Paths /\ asked.request \in Requests
    BY DEF EntryInv, EntryTypes
  <2>3. found # NoPosition => found.side \in {"long", "short"} /\ found.quantity \in Nat \ {0}
    BY DEF EntryInv, EntryTypes
  <2>4. ASSUME NEW o \in DOMAIN orders
        PROVE  \/ orders[o].pc \in {"none", "refused"}
               \/ orders[o].pc \in {"open", "executed"} /\ orders[o].wire \in Wire
    <3>1. orders[o] \in {NoOrder, [pc |-> "refused"]} \union Sending
      BY <2>4 DEF EntryInv, EntryTypes
    <3> QED
      BY <3>1 DEF NoOrder, Sending
  <2> QED
    BY <2>1, <2>2, <2>3, <2>4 DEF TypeOK, EntryInv, EntryTypes
<1> QED
  BY <1>1, EntryInvariant, PTL

\* In every language, on every path and at every venue, a stop waits for the
\* market to move against its side, and a bracket for a move.
THEOREM StopsAlwaysProtect == Spec => []StopsProtect
<1>1. EntryInv => StopsProtect
  <2> SUFFICES ASSUME EntryInv, Placed, NEW m \in {"nowhere", "falls", "rises"}
               PROVE  Fires(Wired, m) <=>
                        \/ ~IsTrigger(asked.request)
                        \/ IF asked.path = "oco" THEN m # "nowhere" ELSE m = Adverse(asked.request.side)
    BY DEF StopsProtect
  <2>1. CASE asked.path = "oco"
    <3>1. Wired.trigger = "either" /\ IsTrigger(asked.request)
      BY <2>1, PlacedSays DEF BracketSays, IsBracket
    <3> QED
      BY <2>1, <3>1 DEF Fires
  <2>2. CASE asked.path # "oco"
    <3>1. Waits(asked.request, Wired) /\ Wired.side = asked.request.side
      BY <2>2, PlacedSays DEF Says
    <3> QED
      BY <2>2, <3>1 DEF Fires, Waits, Adverse
  <2> QED
    BY <2>1, <2>2
<1> QED
  BY <1>1, EntryInvariant, PTL

\* Time in force and post-only survive every language and every path, and a
\* limit order stays one.
THEOREM TermsSurvive == Spec => []LimitsKeepTheirTerms
<1>1. EntryInv => LimitsKeepTheirTerms
  <2> SUFFICES ASSUME EntryInv, Placed PROVE LimitsKeepTheirTerms
    BY DEF LimitsKeepTheirTerms
  <2>1. CASE asked.path = "oco"
    BY <2>1, PlacedSays DEF LimitsKeepTheirTerms, BracketSays, IsBracket, IsTrigger
  <2>2. CASE asked.path # "oco"
    BY <2>2, PlacedSays DEF LimitsKeepTheirTerms, Says, KeepsTerms
  <2> QED
    BY <2>1, <2>2
<1> QED
  BY <1>1, EntryInvariant, PTL

\* What the socket or a batch says of a valid order is what REST would have said.
THEOREM PathsNeverDrift == Spec => []PathsAgree
<1>1. EntryInv => PathsAgree
  BY PlacedSays DEF PathsAgree, Agrees
<1> QED
  BY <1>1, EntryInvariant, PTL

\* An order executes once: the other steps leave it as it was, or make it anew.
LEMMA OnlyExecuteExecutes ==
  ASSUME EntryInv, [Next]_vars, NEW o \in Ways, Executes(o)
  PROVE  Execute(o)
<1>1. ASSUME NEW path \in Paths, NEW r \in Requests, Place(path, r) PROVE FALSE
  <2>1. PICK q \in Said(path, r) : orders' = [orders EXCEPT !["placed"] = Order(Sent(client, path, q), 1)]
    BY <1>1 DEF Place
  <2> DEFINE e == Order(Sent(client, path, q), 1)
  <2>2. e.pc # "executed"
    BY DEF Order
  <2>3. orders' = [orders EXCEPT !["placed"] = e]
    BY <2>1
  <2> HIDE DEF e
  <2> QED
    BY <2>2, <2>3 DEF Executes, EntryInv, EntryTypes, Ways
<1>2. ASSUME ClosePosition PROVE FALSE
  <2> DEFINE e == Order(Close(client, found.side), found.quantity)
  <2>1. e.pc # "executed"
    BY DEF Order
  <2>2. orders' = [orders EXCEPT !["closing"] = e]
    BY <1>2 DEF ClosePosition
  <2> HIDE DEF e
  <2> QED
    BY <2>1, <2>2 DEF Executes, EntryInv, EntryTypes, Ways
<1>3. ASSUME NEW p \in Ways, Execute(p) PROVE p = o
  <2>1. \A e \in Ways \ {p} : orders'[e] = orders[e]
    BY <1>3, ExecuteFacts
  <2> QED
    BY <2>1 DEF Executes
<1>4. ASSUME orders' = orders PROVE FALSE
  BY <1>4 DEF Executes
<1> QED
  BY <1>1, <1>2, <1>3, <1>4 DEF Next, Ways, FindPosition, Liquidate, PriceMoves, vars

\* What may only reduce never adds to a side nor turns a position around, not
\* when its position has gone or shrunk meanwhile, and nothing else takes from
\* the opposite side of a hedged account: for any positions and quantities.
THEOREM OrdersNeverCross == Spec => OrdersActOnTheirSide
<1>1. ASSUME EntryInv, [Next]_vars, NEW o \in DOMAIN orders, Executes(o)
      PROVE  /\ Reduces(o) => held'.long <= held.long /\ held'.short <= held.short
             /\ o = "placed" /\ ~asked.request.reduce /\ ~Protects /\ TwoSided(client) =>
                  held'.long >= held.long /\ held'.short >= held.short
  <2> DEFINE w == orders[o].wire
             q == orders[o].quantity
  <2>1. o \in Ways
    BY <1>1 DEF EntryInv, EntryTypes
  <2>2. Execute(o)
    BY <1>1, <2>1, OnlyExecuteExecutes
  <2>3. w \in Wire /\ q \in Nat /\ held' = Executed(w, q) /\ orders[o].pc = "open"
    BY <1>1, <2>1, <2>2, ExecuteFacts
  <2>4. Reduces(o) => OnlyReduces(client, w)
    <3>1. CASE o = "closing"
      BY <1>1, <2>3, <3>1, ClosingSays
    <3>2. CASE o = "placed" /\ asked.path = "oco"
      <4>1. BracketSays(client, asked.request, Wired) /\ ~asked.request.reduce
        BY <1>1, <2>3, <3>2, PlacedSays DEF Placed, IsBracket
      <4> QED
        BY <3>2, <4>1 DEF Reduces, Protects, BracketSays, Wired
    <3>3. CASE o = "placed" /\ asked.path # "oco"
      <4>1. Says(client, asked.request, Wired)
        BY <1>1, <2>3, <3>3, PlacedSays DEF Placed
      <4> QED
        BY <3>3, <4>1 DEF Reduces, Protects, Says, Wired
    <3> QED
      BY <2>1, <3>1, <3>2, <3>3 DEF Ways
  <2>5. o = "placed" /\ ~asked.request.reduce /\ ~Protects => OnlyAdds(client, w)
    <3>1. CASE o = "placed" /\ asked.path = "oco"
      BY <1>1, <2>3, <3>1, PlacedSays DEF Placed, Protects, BracketSays, Wired
    <3>2. CASE o = "placed" /\ asked.path # "oco"
      <4>1. Says(client, asked.request, Wired)
        BY <1>1, <2>3, <3>2, PlacedSays DEF Placed
      <4> QED
        BY <3>2, <4>1 DEF Says, Wired
    <3> QED
      BY <3>1, <3>2
  <2> HIDE DEF w, q
  <2>6. held \in Account /\ (~TwoSided(client) => OneSided(held))
    BY <1>1 DEF EntryInv, EntryTypes, HoldsFit
  <2>7. /\ OnlyReduces(client, w) => held'.long <= held.long /\ held'.short <= held.short
        /\ TwoSided(client) /\ OnlyAdds(client, w) => held'.long >= held.long /\ held'.short >= held.short
    BY <2>3, <2>6, ExecutedHolds
  <2> QED
    BY <2>4, <2>5, <2>7
<1>2. EntryInv /\ [Next]_vars =>
        [\A o \in DOMAIN orders : Executes(o) =>
           /\ Reduces(o) => held'.long <= held.long /\ held'.short <= held.short
           /\ o = "placed" /\ ~asked.request.reduce /\ ~Protects /\ TwoSided(client) =>
                held'.long >= held.long /\ held'.short >= held.short]_vars
  BY <1>1
<1> QED
  BY <1>2, EntryInvariant, PTL DEF Spec, OrdersActOnTheirSide
=============================================================================
