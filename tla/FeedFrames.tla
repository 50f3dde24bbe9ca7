----------------------------- MODULE FeedFrames -----------------------------
(***************************************************************************)
(* The ten venues' stream frames and the events that the clients make of   *)
(* them (`parse_ws_message` and its kin in exchanges/*.rs).                *)
(*                                                                         *)
(* A print is what happened at the venue; a frame is how the venue puts    *)
(* it: on a topic, under the market's wire name, with its own word for a   *)
(* side and with some of the figures only.  Prices and quantities are left *)
(* out, but for which of them a frame carries.                             *)
(*                                                                         *)
(* A definition named X_Fault precedes X and is X with a plausible fault   *)
(* in the code: the properties are tested with it.                         *)
(***************************************************************************)
EXTENDS Integers, Sequences, SequencesExt

Swap(c) == c.market = "linear"

Channels == {"trades", "book", "ticker", "Funding", "MarkIndex", "Liquidations"}
Derived  == {"Funding", "MarkIndex", "Liquidations"}

(***************************************************************************)
(* The topic a client subscribes to for a channel, "none" where it refuses *)
(* the channel.  Several channels may share one.                           *)
(***************************************************************************)
BinanceTopic(ch) == CASE ch \in {"Funding", "MarkIndex"} -> "mark" [] ch = "Liquidations" -> "forced"
BybitTopic(ch)   == CASE ch \in {"Funding", "MarkIndex"} -> "ticker" [] ch = "Liquidations" -> "forced"
OkxTopic(ch)     == CASE ch = "Funding" -> "funding" [] ch = "Liquidations" -> "forced"
                      [] ch = "MarkIndex" -> "none"
HtxTopic(ch)     == CASE ch = "Funding" -> "funding" [] ch = "Liquidations" -> "forced"
                      [] ch = "MarkIndex" -> "none"
BitgetTopic(ch)  == IF ch = "Liquidations" THEN "none" ELSE "ticker"
GateTopic(ch)    == IF ch = "Liquidations" THEN "none" ELSE "ticker"
KrakenTopic(ch)  == IF ch = "Liquidations" THEN "none" ELSE "ticker"
KuCoinTopic(ch)  == IF ch = "Liquidations" THEN "none" ELSE "instrument"

Topic(c, ch) ==
  CASE ch \notin Derived -> ch
    [] ch \in Derived /\ ~Swap(c) -> "none"
    [] OTHER ->
       CASE c.venue = "binance" -> BinanceTopic(ch)
         [] c.venue = "bybit"   -> BybitTopic(ch)
         [] c.venue = "okx"     -> OkxTopic(ch)
         [] c.venue = "htx"     -> HtxTopic(ch)
         [] c.venue = "bitget"  -> BitgetTopic(ch)
         [] c.venue = "gate"    -> GateTopic(ch)
         [] c.venue = "kraken"  -> KrakenTopic(ch)
         [] c.venue = "kucoin"  -> KuCoinTopic(ch)

(***************************************************************************)
(* What a client's subscribe sends: the host it connects to where it holds *)
(* no socket ("any" where all markets share one), the topic, the market's  *)
(* wire name, and whether it keeps that name to resolve frames with.       *)
(***************************************************************************)
Feed(host, topic, wire, named) == [host |-> host, topic |-> topic, wire |-> wire, named |-> named]

Pair(s)     == <<"pair", s>>
Contract(s) == <<"contract", s>>
Every       == <<"contract", "all">>

BinanceFeed(c, topic, s)      == Feed(c.market, topic, Pair(s), TRUE)
BitgetFeed(c, topic, s)       == Feed("any", topic, Pair(s), TRUE)
BybitFeed(c, topic, s)        == Feed(c.market, topic, Pair(s), TRUE)
CoinbaseFeed(c, topic, s)     == Feed("any", topic, Pair(s), FALSE)
GateFeed(c, topic, s)         == Feed(c.market, topic, Pair(s), TRUE)
HtxNoticeFeed(c, topic, s)    == Feed("notice", topic, Contract(s), TRUE)
HtxFeed(c, topic, s)          == Feed(c.market, topic, IF Swap(c) THEN Contract(s) ELSE Pair(s), TRUE)
KrakenFuturesFeed(c, topic, s) == Feed(c.market, topic, Contract(s), TRUE)
KrakenFeed(c, topic, s)       == Feed(c.market, topic, Pair(s), FALSE)
KuCoinInstrument(c, topic, s) == Feed(c.market, topic, Contract(s), TRUE)
KuCoinFeed(c, topic, s)       == Feed(c.market, topic, IF Swap(c) THEN Contract(s) ELSE Pair(s), TRUE)
\* Forced orders are subscribed for all contracts at once.
OkxForcedFeed(c, topic, s)    == Feed("any", topic, Every, FALSE)
OkxFeed(c, topic, s)          == Feed("any", topic, IF Swap(c) THEN Contract(s) ELSE Pair(s), TRUE)
UpbitFeed(c, topic, s)        == Feed("any", topic, Pair(s), FALSE)

Asked(c, ch, s) ==
  LET t == Topic(c, ch)
  IN  CASE c.venue = "binance"  -> BinanceFeed(c, t, s)
        [] c.venue = "bitget"   -> BitgetFeed(c, t, s)
        [] c.venue = "bybit"    -> BybitFeed(c, t, s)
        [] c.venue = "coinbase" -> CoinbaseFeed(c, t, s)
        [] c.venue = "gate"     -> GateFeed(c, t, s)
        [] c.venue = "htx"      -> IF ch \in Derived THEN HtxNoticeFeed(c, t, s) ELSE HtxFeed(c, t, s)
        [] c.venue = "kraken"   -> IF Swap(c) THEN KrakenFuturesFeed(c, t, s) ELSE KrakenFeed(c, t, s)
        [] c.venue = "kucoin"   -> IF ch \in Derived THEN KuCoinInstrument(c, t, s) ELSE KuCoinFeed(c, t, s)
        [] c.venue = "okx"      -> IF ch = "Liquidations" THEN OkxForcedFeed(c, t, s) ELSE OkxFeed(c, t, s)
        [] c.venue = "upbit"    -> UpbitFeed(c, t, s)

\* The name that the venue's frames have for a market.
Wire(c, s) == IF Swap(c) /\ c.venue \in {"htx", "kraken", "kucoin", "okx"} THEN Contract(s) ELSE Pair(s)

(***************************************************************************)
(* What is particular to a client's poll_events: what becomes of a wire    *)
(* name that is not in its table ("read" from the name itself, taken for   *)
(* a "base", or the frame "dropped"), and the host where a lost public     *)
(* socket is reopened.                                                     *)
(***************************************************************************)
Polled(unnamed, reopens) == [unnamed |-> unnamed, reopens |-> reopens]

BinancePoll_Fault(c) == Polled("base", "spot")
BinancePoll(c)  == Polled("base", c.market)
BitgetPoll(c)   == Polled("base", "any")
BybitPoll(c)    == Polled("base", c.market)
CoinbasePoll(c) == Polled("read", "any")
\* Gate, HTX, Kraken and KuCoin reopen the spot host, whatever the market.
GatePoll(c)     == Polled("base", "spot")
HtxPoll(c)      == Polled("base", "spot")
KrakenPoll(c)   == Polled(IF Swap(c) THEN "dropped" ELSE "read", "spot")
KuCoinPoll(c)   == Polled(IF Swap(c) THEN "base" ELSE "read", "spot")
OkxPoll(c)      == Polled("read", "any")
UpbitPoll(c)    == Polled("read", "any")

PollOf(c) ==
  CASE c.venue = "binance"  -> BinancePoll(c)
    [] c.venue = "bitget"   -> BitgetPoll(c)
    [] c.venue = "bybit"    -> BybitPoll(c)
    [] c.venue = "coinbase" -> CoinbasePoll(c)
    [] c.venue = "gate"     -> GatePoll(c)
    [] c.venue = "htx"      -> HtxPoll(c)
    [] c.venue = "kraken"   -> KrakenPoll(c)
    [] c.venue = "kucoin"   -> KuCoinPoll(c)
    [] c.venue = "okx"      -> OkxPoll(c)
    [] c.venue = "upbit"    -> UpbitPoll(c)

Resolve(c, wire, subscriptions) ==
  IF \E n \in subscriptions : n.wire = wire
  THEN (CHOOSE n \in subscriptions : n.wire = wire).symbol
  ELSE IF PollOf(c).unnamed = "read" THEN wire[2] ELSE PollOf(c).unnamed

(***************************************************************************)
(* The private stream's handshake: the steps of subscribe_user_data that   *)
(* may fail, in their order.  What proves the account is a key, a token or *)
(* an id asked for over REST, a signed frame sent first, or an answered    *)
(* challenge, which the client reads at once.  (Gate asks for the id once, *)
(* and keeps it.)                                                          *)
(***************************************************************************)
BinanceHandshake(c) == <<"rest", "connect">>
BitgetHandshake(c)  == <<"connect", "login", "send">>
BybitHandshake(c)   == <<"connect", "login", "send">>
GateHandshake(c)    == IF Swap(c) THEN <<"rest", "connect", "send">> ELSE <<"connect", "send">>
HtxFuturesHandshake(c) == <<"connect", "login", "send">>
HtxHandshake(c)     == IF Swap(c) THEN HtxFuturesHandshake(c) ELSE <<"connect", "login", "send">>
KrakenFuturesHandshake(c) == <<"connect", "login", "challenge", "send">>
KrakenHandshake(c)  == IF Swap(c) THEN KrakenFuturesHandshake(c) ELSE <<"rest", "connect", "send">>
KuCoinHandshake(c)  == <<"rest", "connect", "send">>
OkxHandshake(c)     == <<"connect", "login", "send">>

Handshake(c) ==
  CASE c.venue = "binance" -> BinanceHandshake(c)
    [] c.venue = "bitget"  -> BitgetHandshake(c)
    [] c.venue = "bybit"   -> BybitHandshake(c)
    [] c.venue = "gate"    -> GateHandshake(c)
    [] c.venue = "htx"     -> HtxHandshake(c)
    [] c.venue = "kraken"  -> KrakenHandshake(c)
    [] c.venue = "kucoin"  -> KuCoinHandshake(c)
    [] c.venue = "okx"     -> OkxHandshake(c)
    [] OTHER               -> <<>>

(***************************************************************************)
(* Prints.  `side` is the taker's of a trade, and that of the order that a *)
(* forced close sends.                                                     *)
(***************************************************************************)
PrintOf(topic, s, side, has) == [topic |-> topic, market |-> s, side |-> side, has |-> has]

\* Tickers that leave out what did not change (Bybit's), or what a contract
\* does not have; books that are sent whole, as diffs, or first the one and
\* then the other.
Figures == {"rate", "mark", "index"}
TickerFigures(c) ==
  CASE Swap(c) /\ c.venue \in {"bybit", "gate", "kraken"} -> SUBSET ({"last"} \cup Figures)
    [] Swap(c) /\ c.venue = "bitget" -> {{"last"}, {"last"} \cup Figures}
    [] OTHER -> {{"last"}}
BookKinds(c) ==
  CASE c.venue = "upbit" -> {{"whole"}}
    [] c.venue \in {"bitget", "bybit", "coinbase", "kraken", "okx"} -> {{}, {"whole"}}
    [] OTHER -> {{}}

Prints(c, s) ==
       {PrintOf("trades", s, side, {}) : side \in {"Buy", "Sell"}}
  \cup {PrintOf("book", s, "none", has) : has \in BookKinds(c)}
  \cup {PrintOf("ticker", s, "none", has) : has \in TickerFigures(c)}
  \cup {PrintOf("mark", s, "none", has) : has \in {{"mark"}, Figures}}
  \cup {PrintOf("funding", s, "none", {"rate"})}
  \cup {PrintOf("instrument", s, "none", has) : has \in {{"rate"}, {"mark", "index"}}}
  \cup {PrintOf("forced", s, side, {}) : side \in {"Buy", "Sell"}}

Order   == PrintOf("order", "none", "none", {})
Balance == PrintOf("balance", "none", "none", {})

\* The side in the venue's words: whether the buyer was the maker, the sign
\* of the size, the taker's name, or the side itself.
Said(c, p) ==
  CASE c.venue = "binance" /\ p.topic = "trades" -> p.side = "Sell"
    [] c.venue = "gate" /\ Swap(c) /\ p.topic = "trades" -> IF p.side = "Sell" THEN -1 ELSE 1
    [] c.venue = "upbit" /\ p.topic = "trades" -> IF p.side = "Sell" THEN "ASK" ELSE "BID"
    [] OTHER -> p.side

Frame(c, p) == [topic |-> p.topic, wire |-> Wire(c, p.market), said |-> Said(c, p), has |-> p.has]

(***************************************************************************)
(* Events.                                                                 *)
(***************************************************************************)
TradePrint(s, side)  == [type |-> "Trade", symbol |-> s, side |-> side]
Ticker(s)            == [type |-> "Ticker", symbol |-> s]
BookSnapshot(s)      == [type |-> "BookSnapshot", symbol |-> s]
BookDelta(s)         == [type |-> "BookDelta", symbol |-> s]
FundingRate(s, mark) == [type |-> "Funding", symbol |-> s, mark |-> mark]
MarkIndex(s, mark)   == [type |-> "MarkIndex", symbol |-> s, mark |-> mark]
Liquidation(s, side) == [type |-> "Liquidation", symbol |-> s, side |-> side]
OrderUpdate          == [type |-> "OrderUpdate", symbol |-> "none"]
BalanceUpdate        == [type |-> "BalanceUpdate", symbol |-> "none"]

\* A book frame is a snapshot or a diff where the venue says which.
WholeOrDiff(f, s) == IF "whole" \in f.has THEN <<BookSnapshot(s)>> ELSE <<BookDelta(s)>>
Diff(f, s)        == <<BookDelta(s)>>

\* One ticker or mark frame answers two subscriptions; what is missing from
\* it, and what was not asked for, is not told.
When(cond, event) == IF cond THEN <<event>> ELSE <<>>
Quoted(f, s) == When("last" \in f.has, Ticker(s))
Marked(f, s, asked) ==
     When("Funding" \in asked /\ {"rate", "mark"} \subseteq f.has, FundingRate(s, "given"))
  \o When("MarkIndex" \in asked /\ {"mark", "index"} \subseteq f.has, MarkIndex(s, "given"))

\* The account's own frames, on the private socket.
AccountEvents(f) == IF f.topic = "order" THEN <<OrderUpdate>> ELSE <<BalanceUpdate>>

(***************************************************************************)
(* The clients' parsers: frame f of symbol s, with the derivatives         *)
(* channels that were asked for that symbol.                               *)
(***************************************************************************)
BinanceDerivatives(f, s, asked) ==
  CASE f.topic = "mark" -> Marked(f, s, asked)
    [] f.topic = "forced" -> When("Liquidations" \in asked, Liquidation(s, f.said))
    [] OTHER -> <<>>
BinanceSide_Fault(f) == IF f.said THEN "Buy" ELSE "Sell"
BinanceSide(f) == IF f.said THEN "Sell" ELSE "Buy"
BinanceFrame(f, s, asked) ==
  CASE f.topic = "trades" -> <<TradePrint(s, BinanceSide(f))>>
    [] f.topic = "book"   -> Diff(f, s)
    [] f.topic = "ticker" -> Quoted(f, s)
    [] OTHER -> BinanceDerivatives(f, s, asked)

BitgetFrame(f, s, asked) ==
  CASE f.topic = "trades" -> <<TradePrint(s, f.said)>>
    [] f.topic = "book"   -> WholeOrDiff(f, s)
    [] f.topic = "ticker" -> Quoted(f, s) \o Marked(f, s, asked)

\* Tickers are diffs: what did not change is absent.
BybitDerivatives_Fault(f, s, asked) ==
  CASE f.topic = "ticker" ->
            When("Funding" \in asked /\ "rate" \in f.has, FundingRate(s, "zero"))
         \o When("MarkIndex" \in asked /\ "mark" \in f.has, MarkIndex(s, "given"))
    [] f.topic = "forced" -> When("Liquidations" \in asked, Liquidation(s, f.said))
    [] OTHER -> <<>>
BybitDerivatives(f, s, asked) ==
  CASE f.topic = "ticker" -> Marked(f, s, asked)
    [] f.topic = "forced" -> When("Liquidations" \in asked, Liquidation(s, f.said))
    [] OTHER -> <<>>
BybitFrame(f, s, asked) ==
  CASE f.topic = "trades" -> <<TradePrint(s, f.said)>>
    [] f.topic = "book"   -> WholeOrDiff(f, s)
    [] f.topic = "ticker" -> Quoted(f, s) \o BybitDerivatives(f, s, asked)
    [] OTHER -> BybitDerivatives(f, s, asked)

CoinbaseFrame(f, s) ==
  CASE f.topic = "trades" -> <<TradePrint(s, f.said)>>
    [] f.topic = "book"   -> Diff(f, s)
    [] f.topic = "ticker" -> Quoted(f, s)

\* A futures trade has no side: its size is signed.
GateSigned(f) == IF f.said < 0 THEN "Sell" ELSE "Buy"
GateFrame(c, f, s, asked) ==
  CASE f.topic = "trades" -> <<TradePrint(s, IF Swap(c) THEN GateSigned(f) ELSE f.said)>>
    [] f.topic = "book"   -> Diff(f, s)
    [] f.topic = "ticker" -> Quoted(f, s) \o Marked(f, s, asked)

\* The notification socket; a funding frame carries no price.
HtxNotice(f, s, asked) ==
  CASE f.topic = "funding" -> When("Funding" \in asked, FundingRate(s, "zero"))
    [] f.topic = "forced"  -> When("Liquidations" \in asked, Liquidation(s, f.said))
HtxFrame(f, s) ==
  CASE f.topic = "trades" -> <<TradePrint(s, f.said)>>
    [] f.topic = "book"   -> Diff(f, s)
    [] f.topic = "ticker" -> Quoted(f, s)

KrakenFuturesFrame(f, s, asked) ==
  CASE s = "dropped" -> <<>>
    [] s # "dropped" /\ f.topic = "trades" -> <<TradePrint(s, f.said)>>
    [] s # "dropped" /\ f.topic = "book"   -> WholeOrDiff(f, s)
    [] s # "dropped" /\ f.topic = "ticker" -> Quoted(f, s) \o Marked(f, s, asked)
KrakenFrame(f, s) ==
  CASE f.topic = "trades" -> <<TradePrint(s, f.said)>>
    [] f.topic = "book"   -> WholeOrDiff(f, s)
    [] f.topic = "ticker" -> Quoted(f, s)

\* One topic with two subjects: a frame has the rate, or the two prices.
KuCoinFuturesFrame(f, s, asked) ==
  CASE f.topic = "instrument" ->
            When("Funding" \in asked /\ "rate" \in f.has, FundingRate(s, "zero"))
         \o When("MarkIndex" \in asked /\ {"mark", "index"} \subseteq f.has, MarkIndex(s, "given"))
    [] f.topic = "trades" -> <<TradePrint(s, f.said)>>
    [] f.topic = "ticker" -> Quoted(f, s)
    [] f.topic = "book"   -> Diff(f, s)
KuCoinFrame(f, s) ==
  CASE f.topic = "trades" -> <<TradePrint(s, f.said)>>
    [] f.topic = "ticker" -> Quoted(f, s)
    [] f.topic = "book"   -> Diff(f, s)

\* Forced orders arrive for every contract of the product; funding is told
\* unasked, because nobody is sent it who has not subscribed.
OkxFrame(f, s, asked) ==
  CASE f.topic = "trades"  -> <<TradePrint(s, f.said)>>
    [] f.topic = "ticker"  -> Quoted(f, s)
    [] f.topic = "funding" -> <<FundingRate(s, "zero")>>
    [] f.topic = "forced"  -> When("Liquidations" \in asked, Liquidation(s, f.said))
    [] f.topic = "book"    -> WholeOrDiff(f, s)

UpbitSide(f) == IF f.said = "ASK" THEN "Sell" ELSE "Buy"
UpbitFrame(f, s) ==
  CASE f.topic = "trades" -> <<TradePrint(s, UpbitSide(f))>>
    [] f.topic = "ticker" -> Quoted(f, s)
    [] f.topic = "book"   -> <<BookSnapshot(s)>>

Events(c, f, s, asked) ==
  CASE c.venue = "binance"  -> BinanceFrame(f, s, asked)
    [] c.venue = "bitget"   -> BitgetFrame(f, s, asked)
    [] c.venue = "bybit"    -> BybitFrame(f, s, asked)
    [] c.venue = "coinbase" -> CoinbaseFrame(f, s)
    [] c.venue = "gate"     -> GateFrame(c, f, s, asked)
    [] c.venue = "htx"      -> IF f.topic \in {"funding", "forced"} THEN HtxNotice(f, s, asked) ELSE HtxFrame(f, s)
    [] c.venue = "kraken"   -> IF Swap(c) THEN KrakenFuturesFrame(f, s, asked) ELSE KrakenFrame(f, s)
    [] c.venue = "kucoin"   -> IF Swap(c) THEN KuCoinFuturesFrame(f, s, asked) ELSE KuCoinFrame(f, s)
    [] c.venue = "okx"      -> OkxFrame(f, s, asked)
    [] c.venue = "upbit"    -> UpbitFrame(f, s)

(***************************************************************************)
(* DerivativesTickBuilder (feeds.rs): the prices it holds, "none" until    *)
(* one was applied.  Its sums and counts are left out.                     *)
(***************************************************************************)
NoTick == [mark |-> "none", index |-> "none"]

ApplyFeed(tick, e) ==
  CASE e.type = "Funding"   -> [tick EXCEPT !.mark = e.mark]
    [] e.type = "MarkIndex" -> [mark |-> e.mark, index |-> "given"]
    [] OTHER -> tick

\* A tick can be built of prices that are all positive.
Buildable(tick) == tick.mark = "given" /\ tick.index = "given"
=============================================================================
