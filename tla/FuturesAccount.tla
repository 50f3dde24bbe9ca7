--------------------------- MODULE FuturesAccount ---------------------------
(***************************************************************************)
(* The futures account of the eight venues that have one: what positions   *)
(* reads, what set_leverage and set_margin_mode ask for, and the terms     *)
(* that an order carries, while the venue refuses or loses requests and    *)
(* somebody else trades the same account.  Part of the terms is the        *)
(* venue's and part is kept by the client, which puts it on its orders;    *)
(* some clients read one setting to change the other.                      *)
(*                                                                         *)
(* The caller trades one market, "btc"; the account has a position in      *)
(* another one too.  A flat position is one of size 0.                     *)
(*                                                                         *)
(* A definition named X_Fault precedes X and is X with a plausible fault   *)
(* in the code: the properties are tested with it.                         *)
(***************************************************************************)
EXTENDS Integers, Sequences, FiniteSets

CONSTANTS Traders,      \* the venues, one client each
          Leverages,    \* what the caller may set; no venue but Gate takes a 0
          VenueDefault, \* the leverage of an account nobody set
          MaxPosition,  \* bound: of the position, on either side
          MaxTasks      \* bound: the caller's calls

ASSUME AccountAssumption ==
  /\ Traders \subseteq {"binance", "bitget", "bybit", "gate", "htx", "kraken", "kucoin", "okx"}
  /\ Leverages \subseteq Nat
  /\ {VenueDefault, MaxPosition, MaxTasks} \subseteq Nat \ {0}

VARIABLES trader,    \* the client's venue; never changes
          hedged,    \* the account holds both sides of a market; never changes
          kept,      \* the leverage and the mode that the client keeps
          terms,     \* the venue's: a mode, and the leverage in either mode
          legs,      \* what the account holds of btc, on either side
          task,      \* the call in progress, or the last one
          tasks,     \* how many calls were begun
          said,      \* the settings that the caller was told are done, 0 and
                     \* "none" of those that it was told nothing of
          shown,     \* what positions gave last, and what there was
          ran        \* the terms the last order ran on, and what was said then

accountVars ==
  <<trader, hedged, kept, terms, legs, task, tasks, said, shown, ran>>

Modes == {"cross", "isolated"}
Sides == {"long", "short"}

Each(Parse(_), rows) == [i \in DOMAIN rows |-> Parse(rows[i])]

\* The rows at the wanted places, in order.
Chosen(rows, wanted) ==
  LET upTo[i \in 0..Len(rows)] ==
        IF i = 0 THEN <<>>
        ELSE IF i \in wanted THEN Append(upTo[i - 1], rows[i]) ELSE upTo[i - 1]
  IN upTo[Len(rows)]

(***************************************************************************)
(* The venue's account (external): legs, listed in words of its own, flat  *)
(* ones too if it lists those, and the other market's if it is asked for   *)
(* all, or knows no other question.                                        *)
(***************************************************************************)
Leg(symbol, side, size, mode) ==
  [symbol |-> symbol, side |-> side, size |-> size, mode |-> mode,
   leverage |-> IF symbol = "btc" THEN terms.leverage[mode] ELSE VenueDefault + 1]

OtherLeg == Leg("eth", "long", 1, "cross")

OwnLegs ==
  IF hedged THEN <<Leg("btc", "long", legs["long"], terms.mode),
                   Leg("btc", "short", legs["short"], terms.mode)>>
  ELSE <<Leg("btc", IF legs["short"] > 0 THEN "short" ELSE "long",
             legs["long"] + legs["short"], terms.mode)>>

AllLegs == Append(OwnLegs, OtherLeg)
Open(leg) == leg.size > 0

Signed(leg) == IF leg.side = "short" THEN -leg.size ELSE leg.size

BinanceRow(leg) ==
  [symbol |-> leg.symbol, amount |-> Signed(leg), leverage |-> leg.leverage, type |-> leg.mode]
BitgetRow(leg) ==
  [symbol |-> leg.symbol, side |-> leg.side, total |-> leg.size, leverage |-> leg.leverage,
   mode |-> leg.mode]
\* Bybit names no side of a flat leg.
BybitRow(leg) ==
  [symbol |-> leg.symbol, size |-> leg.size, leverage |-> leg.leverage,
   side |-> IF leg.size = 0 THEN "" ELSE IF leg.side = "long" THEN "Buy" ELSE "Sell",
   trade_mode |-> IF leg.mode = "isolated" THEN 1 ELSE 0]
\* Gate tells the leverage of cross margin, as a limit, in a field of its own.
GateRow(leg) ==
  [contract |-> leg.symbol, size |-> Signed(leg),
   leverage |-> IF leg.mode = "isolated" THEN leg.leverage ELSE 0,
   limit    |-> IF leg.mode = "cross" THEN leg.leverage ELSE 0]
HtxRow(leg) ==
  [contract |-> leg.symbol, direction |-> IF leg.side = "long" THEN "buy" ELSE "sell",
   volume |-> leg.size, lever_rate |-> leg.leverage]
KrakenRow(leg) == [symbol |-> leg.symbol, side |-> leg.side, size |-> leg.size]
KuCoinRow(leg) ==
  [symbol |-> leg.symbol, qty |-> Signed(leg), leverage |-> leg.leverage, cross |-> leg.mode = "cross"]
\* OKX signs a net position, and names the side of a hedged one.
OkxRow(leg) ==
  [symbol |-> leg.symbol, pos_side |-> IF hedged THEN leg.side ELSE "net",
   pos |-> IF hedged THEN leg.size ELSE Signed(leg), lever |-> leg.leverage, mode |-> leg.mode]

(***************************************************************************)
(* What each client reads of a row, and which rows it leaves out.          *)
(***************************************************************************)
Position(symbol, side, quantity, leverage, mode) ==
  [symbol |-> symbol, side |-> side, quantity |-> quantity, leverage |-> leverage,
   margin_mode |-> mode]

Abs(n) == IF n < 0 THEN -n ELSE n

BinancePosition(row) ==
  Position(row.symbol, IF row.amount < 0 THEN "short" ELSE "long", Abs(row.amount), row.leverage,
           IF row.type = "isolated" THEN "isolated" ELSE "cross")
BitgetPosition(row) ==
  Position(row.symbol, IF row.side = "short" THEN "short" ELSE "long", row.total, row.leverage,
           IF row.mode = "isolated" THEN "isolated" ELSE "cross")
BybitPosition(row) ==
  Position(row.symbol, IF row.side = "Sell" THEN "short" ELSE "long", row.size, row.leverage,
           IF row.trade_mode = 1 THEN "isolated" ELSE "cross")
GatePosition_Fault(row) ==
  Position(row.contract, IF row.size > 0 THEN "long" ELSE "short", Abs(row.size), row.leverage, "isolated")
GatePosition(row) ==
  LET is_cross == row.leverage = 0
  IN Position(row.contract, IF row.size > 0 THEN "long" ELSE "short", Abs(row.size),
              IF is_cross THEN row.limit ELSE row.leverage, IF is_cross THEN "cross" ELSE "isolated")
HtxPosition(row) ==
  Position(row.contract, IF row.direction = "buy" THEN "long" ELSE "short", row.volume,
           row.lever_rate, "cross")
\* Kraken does not tell the leverage: the client shows the one it keeps.
KrakenPosition(row) == Position(row.symbol, row.side, row.size, kept.leverage, "cross")
KuCoinPosition(row) ==
  Position(row.symbol, IF row.qty < 0 THEN "short" ELSE "long", Abs(row.qty), row.leverage,
           IF row.cross THEN "cross" ELSE "isolated")
OkxPosition(row) ==
  Position(row.symbol, IF row.pos_side = "short" \/ row.pos < 0 THEN "short" ELSE "long",
           Abs(row.pos), row.lever, IF row.mode = "isolated" THEN "isolated" ELSE "cross")

\* Asked for one market or, "all", for every one: the first four ask the venue
\* for it, the others leave out what they did not ask for.
BinancePositions(rows) == Each(BinancePosition, Chosen(rows, {i \in DOMAIN rows : rows[i].amount # 0}))
BybitPositions(rows)   == Each(BybitPosition, Chosen(rows, {i \in DOMAIN rows : rows[i].size # 0}))
HtxPositions(rows)     == Each(HtxPosition, rows)
OkxPositions(rows)     == Each(OkxPosition, Chosen(rows, {i \in DOMAIN rows : rows[i].pos # 0}))
BitgetPositions(rows, asked) ==
  Each(BitgetPosition, Chosen(rows, {i \in DOMAIN rows :
                                       asked \in {"all", rows[i].symbol} /\ rows[i].total # 0}))
GatePositions(rows, asked) ==
  Each(GatePosition, Chosen(rows, {i \in DOMAIN rows :
                                     rows[i].size # 0 /\ asked \in {"all", rows[i].contract}}))
KrakenPositions(rows, asked) ==
  Each(KrakenPosition, Chosen(rows, {i \in DOMAIN rows : asked \in {"all", rows[i].symbol}}))
KuCoinPositions(rows, asked) ==
  Each(KuCoinPosition, Chosen(rows, {i \in DOMAIN rows :
                                       asked \in {"all", rows[i].symbol} /\ rows[i].qty # 0}))

\* HTX and Kraken list no flat legs: these clients would show them.
Positions(asked, flats) ==
  LET answered == IF asked = "all" THEN AllLegs ELSE OwnLegs
      OpenOf(list) == Chosen(list, {i \in DOMAIN list : Open(list[i])})
      Rows(Row(_), list) == Each(Row, IF flats THEN list ELSE OpenOf(list))
      OpenRows(Row(_), list) == Each(Row, OpenOf(list))
  IN CASE trader = "binance" -> BinancePositions(Rows(BinanceRow, answered))
       [] trader = "bybit"   -> BybitPositions(Rows(BybitRow, answered))
       [] trader = "okx"     -> OkxPositions(Rows(OkxRow, answered))
       [] trader = "htx"     -> HtxPositions(OpenRows(HtxRow, answered))
       [] trader = "bitget"  -> BitgetPositions(Rows(BitgetRow, AllLegs), asked)
       [] trader = "gate"    -> GatePositions(Rows(GateRow, AllLegs), asked)
       [] trader = "kraken"  -> KrakenPositions(OpenRows(KrakenRow, AllLegs), asked)
       [] trader = "kucoin"  -> KuCoinPositions(Rows(KuCoinRow, AllLegs), asked)

\* What there is, in the words of the trait.
HeldOf(asked) ==
  {Position(leg.symbol, leg.side, leg.size, leg.leverage, leg.mode) :
     leg \in {AllLegs[i] : i \in {j \in DOMAIN AllLegs :
                Open(AllLegs[j]) /\ asked \in {"all", AllLegs[j].symbol}}}}

(***************************************************************************)
(* What a setter does: the leverage it keeps, at once, and what it asks    *)
(* the venue for, a leverage, a mode or both: "same" is the mode that the  *)
(* account is in, and 0 its leverage.                                      *)
(***************************************************************************)
Ask(leverage, mode) == [leverage |-> leverage, mode |-> mode]
AsksNothing == Ask(0, "same")
AtLeastOne(l) == IF l = 0 THEN 1 ELSE l

Sets(leverage, ask) == [keeps |-> leverage, asks |-> ask, refuses |-> FALSE]
Only(ask) == Sets(kept.leverage, ask)

BinanceSetLeverage(l) == Only(Ask(l, "same"))
BitgetSetLeverage(l)  == Only(Ask(l, "same"))
BybitSetLeverage(l)   == Only(Ask(l, "same"))
HtxSetLeverage(l)     == Sets(AtLeastOne(l), Ask(AtLeastOne(l), "same"))
KrakenSetLeverage(l)  == Sets(AtLeastOne(l), Ask(AtLeastOne(l), "same"))
KuCoinSetLeverage(l)  == Sets(AtLeastOne(l), AsksNothing)
\* Gate has one endpoint for both: 0 is cross margin, a leverage isolated.
GateApplyLeverage(l)  == Ask(l, IF l = 0 THEN "cross" ELSE "isolated")
GateSetLeverage(l)    == Sets(AtLeastOne(l), GateApplyLeverage(l))

\* OKX sets the leverage of one mode, that of the position it read.
CurrentMarginMode(read) == IF read = <<>> THEN "cross" ELSE read[1].margin_mode
OkxApplyLeverage(l, mode) == Ask(l, mode)
OkxSetLeverage(l, read)   == Only(OkxApplyLeverage(l, CurrentMarginMode(read)))

BinanceSetMarginMode(mode) == Only(Ask(0, mode))
BitgetSetMarginMode(mode)  == Only(Ask(0, mode))
KuCoinSetMarginMode(mode)  == Only(Ask(0, mode))
BybitSetMarginMode(mode, read) == Only(Ask(IF read = <<>> THEN 10 ELSE read[1].leverage, mode))
OkxSetMarginMode(mode, read) ==
  Only(OkxApplyLeverage(IF read = <<>> THEN 3 ELSE read[1].leverage, mode))
GateSetMarginMode(mode) ==
  Only(GateApplyLeverage(IF mode = "cross" THEN 0 ELSE AtLeastOne(kept.leverage)))

\* The families that these two drive have cross margin only.
CrossOnly == trader \in {"htx", "kraken"}
HtxSetMarginMode(mode)    == [Only(AsksNothing) EXCEPT !.refuses = (mode = "isolated")]
KrakenSetMarginMode(mode) == [Only(AsksNothing) EXCEPT !.refuses = (mode = "isolated")]

LeverageSetter(l, read) ==
  CASE trader = "binance" -> BinanceSetLeverage(l)
    [] trader = "bitget"  -> BitgetSetLeverage(l)
    [] trader = "bybit"   -> BybitSetLeverage(l)
    [] trader = "gate"    -> GateSetLeverage(l)
    [] trader = "htx"     -> HtxSetLeverage(l)
    [] trader = "kraken"  -> KrakenSetLeverage(l)
    [] trader = "kucoin"  -> KuCoinSetLeverage(l)
    [] trader = "okx"     -> OkxSetLeverage(l, read)

MarginModeSetter(mode, read) ==
  CASE trader = "binance" -> BinanceSetMarginMode(mode)
    [] trader = "bitget"  -> BitgetSetMarginMode(mode)
    [] trader = "bybit"   -> BybitSetMarginMode(mode, read)
    [] trader = "gate"    -> GateSetMarginMode(mode)
    [] trader = "htx"     -> HtxSetMarginMode(mode)
    [] trader = "kraken"  -> KrakenSetMarginMode(mode)
    [] trader = "kucoin"  -> KuCoinSetMarginMode(mode)
    [] trader = "okx"     -> OkxSetMarginMode(mode, read)

Setter == IF task.op = "leverage" THEN LeverageSetter(task.want, task.read)
          ELSE MarginModeSetter(task.want, task.read)

Asks == Setter.asks
SendsARequest == ~(task.op = "leverage" /\ trader = "kucoin") /\ ~(task.op = "mode" /\ CrossOnly)

\* The setters that read the position first.
ReadsFirst(op) ==
  \/ op = "leverage" /\ trader = "okx"
  \/ op = "mode" /\ trader \in {"bybit", "okx"}
-----------------------------------------------------------------------------
NoTask   == [op |-> "none", pc |-> "over", want |-> 0, read |-> <<>>, answer |-> "none"]
NotShown == [seen |-> <<>>, was |-> {}]
Unsaid   == [mode |-> "none", leverage |-> [m \in Modes |-> 0]]
NoRun    == [mode |-> "none", leverage |-> 0, said |-> Unsaid]

\* The mode of the options, which only these clients put on an order.
ModeOnOrder == trader \in {"bitget", "okx"}

\* Kraken's accounts are not hedged, and the family of HTX is of cross margin.
AccountInit ==
  /\ trader \in Traders
  /\ hedged \in BOOLEAN /\ (trader = "kraken" => ~hedged)
  /\ legs \in [Sides -> {0, 1}] /\ (~hedged => legs["long"] = 0 \/ legs["short"] = 0)
  /\ \E mode \in Modes :
       /\ kept = [leverage |-> 1, mode |-> mode]
       /\ said = [Unsaid EXCEPT !.mode = IF ModeOnOrder THEN mode ELSE "none"]
  /\ \E mode \in IF CrossOnly THEN {"cross"} ELSE Modes :
       terms = [mode |-> mode, leverage |-> [m \in Modes |-> VenueDefault]]
  /\ task = NoTask /\ tasks = 0 /\ shown = NotShown /\ ran = NoRun

(***************************************************************************)
(* The caller's calls.                                                     *)
(***************************************************************************)
BeginTask(op, want, pc) ==
  /\ task.pc = "over" /\ tasks < MaxTasks
  /\ tasks' = tasks + 1
  /\ task' = [NoTask EXCEPT !.op = op, !.want = want, !.pc = pc]
  /\ UNCHANGED <<trader, hedged, terms, legs, said, shown, ran>>

ReadPositions(asked) == BeginTask("positions", asked, "read") /\ UNCHANGED kept

SetLeverage(l) ==
  /\ BeginTask("leverage", l, IF ReadsFirst("leverage") THEN "read" ELSE "send")
  /\ kept' = [kept EXCEPT !.leverage = LeverageSetter(l, <<>>).keeps]

SetMarginMode(mode) ==
  /\ BeginTask("mode", mode, IF ReadsFirst("mode") THEN "read" ELSE "send")
  /\ UNCHANGED kept

VenueShowsPositions ==
  /\ task.pc = "read"
  /\ \E flats \in BOOLEAN :
       LET asked == IF task.op = "positions" THEN task.want ELSE "btc"
           list  == Positions(asked, flats)
       IN IF task.op = "positions"
          THEN /\ shown' = [seen |-> list, was |-> HeldOf(asked)]
               /\ task' = [task EXCEPT !.pc = "over"]
          ELSE /\ task' = [task EXCEPT !.pc = "send", !.read = list]
               /\ UNCHANGED shown
  /\ UNCHANGED <<trader, hedged, kept, terms, legs, tasks, said, ran>>

\* A setter that cannot read asks for nothing.
ReadFails ==
  /\ task.pc = "read"
  /\ task' = [task EXCEPT !.pc = "over"]
  /\ UNCHANGED <<trader, hedged, kept, terms, legs, tasks, said, shown, ran>>

(***************************************************************************)
(* The venue (external).  OKX has a leverage for each mode, and the mode   *)
(* is that of the orders; the others have one of each.                     *)
(***************************************************************************)
VenueSets ==
  /\ task.pc = "send" /\ Asks # AsksNothing /\ (trader = "okx" => Asks.leverage # 0)
  /\ terms' = IF trader = "okx" THEN [terms EXCEPT !.leverage[Asks.mode] = Asks.leverage]
              ELSE [mode |-> IF Asks.mode = "same" THEN terms.mode ELSE Asks.mode,
                    leverage |-> [m \in Modes |->
                      IF Asks.leverage = 0 THEN terms.leverage[m] ELSE Asks.leverage]]
  /\ \E answer \in {"done", "lost"} : task' = [task EXCEPT !.pc = "answered", !.answer = answer]
  /\ UNCHANGED <<trader, hedged, kept, legs, tasks, said, shown, ran>>

VenueLeaves ==
  /\ task.pc = "send" /\ SendsARequest
  /\ \E answer \in {"refused", "lost"} : task' = [task EXCEPT !.pc = "answered", !.answer = answer]
  /\ UNCHANGED <<trader, hedged, kept, terms, legs, tasks, said, shown, ran>>

\* KuCoin's leverage, and the mode of those that have one only.
NothingToAsk ==
  /\ task.pc = "send" /\ ~SendsARequest
  /\ task' = [task EXCEPT !.pc = "answered", !.answer = IF Setter.refuses THEN "refused" ELSE "done"]
  /\ UNCHANGED <<trader, hedged, kept, terms, legs, tasks, said, shown, ran>>

(***************************************************************************)
(* The end of a setter: two clients keep the mode once the venue has it.   *)
(* What was said so far (of the model, not the code): what is done is      *)
(* said, of the modes it was done for; nothing of a leverage that failed,  *)
(* of either setting when the answer is lost, or of a leverage that could  *)
(* not be preserved since no position told it (DERIVATIVES.md:56-57).      *)
(***************************************************************************)
BitgetKeeps_Fault(mode) == kept
BitgetKeeps(mode) == [kept EXCEPT !.mode = mode]
OkxKeeps(mode)    == [kept EXCEPT !.mode = mode]

Says ==
  LET now  == [m \in Modes |-> IF Asks.mode = m \/ trader \notin {"gate", "okx"}
                               THEN task.want ELSE said.leverage[m]]
      none == Unsaid.leverage
      done == IF task.op = "leverage"
              THEN [mode |-> IF trader = "gate" THEN Asks.mode ELSE said.mode,
                    leverage |-> IF task.want = 0 THEN none ELSE now]
              ELSE [mode |-> task.want,
                    leverage |-> CASE trader = "okx" ->
                                        [said.leverage EXCEPT ![task.want] =
                                           IF task.read = <<>> THEN 0 ELSE task.read[1].leverage]
                                   [] trader = "bybit" /\ task.read = <<>> -> none
                                   [] OTHER -> said.leverage]
  IN CASE task.answer = "lost" -> [Unsaid EXCEPT !.mode = IF ModeOnOrder THEN said.mode ELSE "none"]
       [] task.answer = "refused" -> IF task.op = "leverage" THEN [said EXCEPT !.leverage = none] ELSE said
       [] task.answer = "done" -> done

SetterReturns ==
  /\ task.pc = "answered"
  /\ task' = [task EXCEPT !.pc = "over"]
  /\ said' = Says
  /\ kept' = IF task.op = "leverage" \/ task.answer # "done" THEN kept
             ELSE CASE trader = "bitget" -> BitgetKeeps(task.want)
                    [] trader = "okx"    -> OkxKeeps(task.want)
                    [] OTHER -> kept
  /\ UNCHANGED <<trader, hedged, terms, legs, tasks, shown, ran>>

(***************************************************************************)
(* The terms that an order carries, and an order of the caller's that the  *)
(* venue executes on them, in the mode of the position if there is one.    *)
(***************************************************************************)
BitgetTerms == [terms EXCEPT !.mode = kept.mode]
OkxTerms    == [terms EXCEPT !.mode = kept.mode]
HtxTerms    == [terms EXCEPT !.leverage = [m \in Modes |-> kept.leverage]]
KuCoinTerms == [terms EXCEPT !.leverage = [m \in Modes |-> kept.leverage]]

OrderTerms ==
  CASE trader = "bitget" -> BitgetTerms
    [] trader = "htx"    -> HtxTerms
    [] trader = "kucoin" -> KuCoinTerms
    [] trader = "okx"    -> OkxTerms
    [] OTHER             -> terms

RunOrder ==
  /\ task.pc = "over" /\ tasks < MaxTasks
  /\ legs["long"] < MaxPosition /\ (~hedged => legs["short"] = 0)
  /\ (\E side \in Sides : legs[side] > 0) => OrderTerms.mode = terms.mode
  /\ tasks' = tasks + 1
  /\ terms' = OrderTerms
  /\ legs' = [legs EXCEPT !["long"] = @ + 1]
  /\ ran' = [mode |-> OrderTerms.mode, leverage |-> OrderTerms.leverage[OrderTerms.mode], said |-> said]
  /\ UNCHANGED <<trader, hedged, kept, task, said, shown>>

\* Somebody else trades the account, or the venue liquidates it.
Elsewhere(side, size) ==
  /\ task.pc \in {"read", "send"} /\ legs[side] # size
  /\ ~hedged => \A other \in Sides \ {side} : legs[other] = 0
  /\ legs' = [legs EXCEPT ![side] = size]
  /\ UNCHANGED <<trader, hedged, kept, terms, task, tasks, said, shown, ran>>

AccountNext ==
  \/ \E asked \in {"btc", "all"} : ReadPositions(asked)
  \/ \E l \in Leverages : SetLeverage(l)
  \/ \E mode \in Modes : SetMarginMode(mode)
  \/ VenueShowsPositions \/ ReadFails
  \/ VenueSets \/ VenueLeaves \/ NothingToAsk \/ SetterReturns \/ RunOrder
  \/ \E side \in Sides, size \in {0, 1} : Elsewhere(side, size)

AccountSpec == AccountInit /\ [][AccountNext]_accountVars
-----------------------------------------------------------------------------
(* Properties *)

(***************************************************************************)
(* positions gives what the account holds, once and nothing else: the      *)
(* side, the size, the leverage and the margin mode of every open position *)
(* of the markets asked for, whatever the venue's words for them and       *)
(* whichever flat ones it lists.  Kraken's leverage is only the one the    *)
(* client keeps (kraken.rs:1525).                                          *)
(***************************************************************************)
PositionsAreTrue ==
  LET Shown(p) == IF trader = "kraken" THEN [p EXCEPT !.leverage = 0] ELSE p
      seen == {Shown(shown.seen[i]) : i \in DOMAIN shown.seen}
  IN /\ seen = {Shown(p) : p \in shown.was}
     /\ Cardinality(shown.was) = Len(shown.seen)

(***************************************************************************)
(* An order runs on the terms that the caller was told are set, though     *)
(* part of them travels on the order and part rests with the venue, and    *)
(* whatever was refused or lost in between (DERIVATIVES.md:64-79).         *)
(***************************************************************************)
OrdersRunOnTheTerms ==
  /\ ran.said.mode # "none" => ran.mode = ran.said.mode
  /\ ran.mode \in Modes /\ ran.said.leverage[ran.mode] # 0 =>
       ran.leverage = ran.said.leverage[ran.mode]
=============================================================================
