----------------------------- MODULE MarketReads -----------------------------
(***************************************************************************)
(* A market and a caller that reads it over REST: candles that it keeps a  *)
(* history of, tickers, books, open interest and long/short positioning.   *)
(* The market trades on between the requests of one read and between       *)
(* reads; every venue answers in a layout, an order and a unit of time of  *)
(* its own, and the client puts that into the unified types.               *)
(*                                                                         *)
(* Prices and amounts are small numbers.  A period of the market is one of *)
(* its candles; its number is its time in seconds.                         *)
(*                                                                         *)
(* A definition named X_Fault precedes X and is X with a plausible fault   *)
(* in the code: the properties are tested with it.                         *)
(***************************************************************************)
EXTENDS Integers, Sequences, SequencesExt

CONSTANTS Readers,     \* clients as they were built
          Intervals,   \* the intervals that the caller asks candles of
          Limit,       \* how many candles it asks for
          Depth,       \* how many levels of the book it asks for
          Prices,      \* the prices of trades
          MaxPeriods,  \* bound: periods of the market
          MaxTrades,   \* bound: trades that move the price
          MaxReads     \* bound: the caller's reads

ASSUME ReadAssumption ==
  /\ Readers \subseteq [venue : {"binance", "bitget", "bybit", "coinbase", "gate", "htx", "kraken",
                                "kucoin", "okx", "upbit"}, market : {"spot", "linear"}]
  /\ \A c \in Readers : c.venue \in {"coinbase", "upbit"} => c.market = "spot"
  /\ {Limit, Depth, MaxPeriods, MaxTrades, MaxReads} \cup Prices \subseteq Nat \ {0}
  /\ MaxTrades < 1000  \* a candle's last trade is within its period

VARIABLES reader,    \* the client; never changes
          interval,  \* the interval that the caller asks for; never changes
          candles,   \* the market's, oldest first; the last one is not over
          bid,       \* the best bid; the best ask is one more
          book_id,   \* the number of the book's last change
          reading,   \* the read in progress, or the last one, and its first answer
          reads,     \* how many reads were begun
          history,   \* the candles that were over which the caller keeps
          got        \* what the last other read gave, and the moments it was of

marketVars == <<reader, interval, candles, bid, book_id, reading, reads, history, got>>

Linear(c) == c.market = "linear"

Candle(open, high, low, close, volume, time) ==
  [open |-> open, high |-> high, low |-> low, close |-> close, volume |-> volume, time |-> time]

Period == Len(candles)
Latest == candles[Period].close
Millis(seconds) == 1000 * seconds

\* A moment of the market (external).
Moment ==
  [last |-> Latest, bid |-> bid, ask |-> bid + 1, volume |-> book_id, change |-> book_id, time |-> Period]

NoReading == [op |-> "none", pc |-> "over", first |-> [time |-> 0]]
NoFigure  == [error |-> TRUE]
NoGot     == [op |-> "none"]

MarketInit ==
  /\ reader \in Readers /\ interval \in Intervals
  /\ \E p \in Prices : candles = <<Candle(p, p, p, p, 0, 1)>> /\ bid = p
  /\ book_id = 1
  /\ reading = NoReading /\ reads = 0 /\ history = <<>> /\ got = NoGot

(***************************************************************************)
(* The market (external).                                                  *)
(***************************************************************************)
Trade(p) ==
  /\ p # Latest /\ book_id <= MaxTrades
  /\ candles' = [candles EXCEPT ![Period] =
       Candle(@.open, IF p > @.high THEN p ELSE @.high, IF p < @.low THEN p ELSE @.low, p,
              @.volume + 1, @.time)]
  /\ bid' = p /\ book_id' = book_id + 1
  /\ UNCHANGED <<reader, interval, reading, reads, history, got>>

NextPeriod ==
  /\ Period < MaxPeriods
  /\ candles' = Append(candles, Candle(Latest, Latest, Latest, Latest, 0, Period + 1))
  /\ UNCHANGED <<reader, interval, bid, book_id, reading, reads, history, got>>

PerRow(Of(_), rows) == [i \in DOMAIN rows |-> Of(rows[i])]

\* The first entry of a list, or the error that there is none.
FirstOf(list, Of(_)) == IF list = <<>> THEN NoFigure ELSE Of(list[1])

(***************************************************************************)
(* Candles.  The venues' rows (external) have the columns by place or by   *)
(* name; Upbit's are stamped with their last trade.                        *)
(***************************************************************************)
Columns(k, time) == <<time, k.open, k.high, k.low, k.close, k.volume, "quote volume">>
Named(k)         == k
GateColumns(k)   == <<k.time, "quote volume", k.close, k.high, k.low, k.open, k.volume>>
KrakenColumns(k) == <<k.time, k.open, k.high, k.low, k.close, "vwap", k.volume>>
KuCoinColumns(k) == <<k.time, k.open, k.close, k.high, k.low, k.volume, "turnover">>
HtxNamed(k)      == [id |-> k.time, open |-> k.open, high |-> k.high, low |-> k.low,
                     close |-> k.close, amount |-> k.volume, vol |-> "turnover"]
LastTrade(k)     == Millis(k.time) + k.volume
UpbitNamed(k)    == [timestamp |-> LastTrade(k), opening_price |-> k.open, high_price |-> k.high,
                     low_price |-> k.low, trade_price |-> k.close,
                     candle_acc_trade_volume |-> k.volume]

BinanceCandle(row) == Candle(row[2], row[3], row[4], row[5], row[6], row[1])
BitgetCandle(row)  == Candle(row[2], row[3], row[4], row[5], row[6], row[1])
BybitCandle(row)   == Candle(row[2], row[3], row[4], row[5], row[6], row[1])
OkxCandle(row)     == Candle(row[2], row[3], row[4], row[5], row[6], row[1])
GateCandle(row)    == Candle(row[6], row[4], row[5], row[3], row[7], row[1])
KrakenCandle(row)  == Candle(row[2], row[3], row[4], row[5], row[7], row[1])
KuCoinCandle(row)  == Candle(row[2], row[4], row[5], row[3], row[6], row[1])
CoinbaseCandle(candle)   == Candle(candle.open, candle.high, candle.low, candle.close, candle.volume, candle.time)
GateFuturesCandle(row)   == Candle(row.open, row.high, row.low, row.close, row.volume, row.time)
KrakenFuturesCandle(row) == Candle(row.open, row.high, row.low, row.close, row.volume, row.time)
HtxCandle(obj)     == Candle(obj.open, obj.high, obj.low, obj.close, obj.amount, obj.id)
UpbitCandle(candle) ==
  Candle(candle.opening_price, candle.high_price, candle.low_price, candle.trade_price,
         candle.candle_acc_trade_volume, candle.timestamp)

BinanceKlines(rows)       == PerRow(BinanceCandle, rows)
BitgetKlines(rows)        == PerRow(BitgetCandle, rows)
BybitKlines(list)         == Reverse(PerRow(BybitCandle, list))
CoinbaseKlines(rows)      == Reverse(PerRow(CoinbaseCandle, rows))
GateKlines(rows) ==
  IF Linear(reader) THEN PerRow(GateFuturesCandle, rows) ELSE PerRow(GateCandle, rows)
HtxKlines(data)           == Reverse(PerRow(HtxCandle, data))
KrakenKlines(rows)        == PerRow(KrakenCandle, rows)
KrakenFuturesKlines(rows) == PerRow(KrakenFuturesCandle, rows)
KuCoinKlines(rows)        == Reverse(PerRow(KuCoinCandle, rows))
OkxKlines_Fault(rows)     == PerRow(OkxCandle, rows)
OkxKlines(rows)           == Reverse(PerRow(OkxCandle, rows))
UpbitKlines(rows)         == Reverse(PerRow(UpbitCandle, rows))

\* Four tables ask for an hour when they have no word for an interval; the
\* others send it as it is.
CoinbaseGranularity(i) ==
  IF i \in {"1m", "5m", "15m", "30m", "2h", "6h", "1d"} THEN i ELSE "1h"
KrakenInterval(i) ==
  IF i \in {"1m", "5m", "15m", "30m", "4h", "1d", "1w"} THEN i ELSE "1h"
KrakenResolution(i) ==
  IF i \in {"1m", "5m", "15m", "30m", "4h", "12h", "1d", "1w"} THEN i ELSE "1h"
UpbitCandlePath(i) ==
  IF i \in {"1m", "3m", "5m", "15m", "30m", "4h", "1d", "1w"} THEN i ELSE "1h"

AsksFor ==
  CASE reader.venue = "coinbase" -> CoinbaseGranularity(interval)
    [] reader.venue = "kraken"   -> IF Linear(reader) THEN KrakenResolution(interval)
                                                      ELSE KrakenInterval(interval)
    [] reader.venue = "upbit"    -> UpbitCandlePath(interval)
    [] OTHER                     -> interval

\* The venue's candles of what is asked for (external): an hour is two periods.
Merged(k, l) ==
  Candle(k.open, IF l.high > k.high THEN l.high ELSE k.high, IF l.low < k.low THEN l.low ELSE k.low,
         l.close, IF k = l THEN k.volume ELSE k.volume + l.volume, k.time)
Hourly == [h \in 1..((Period + 1) \div 2) |->
             Merged(candles[2 * h - 1], candles[IF 2 * h > Period THEN Period ELSE 2 * h])]
Series == IF AsksFor = interval THEN candles ELSE Hourly

\* Of these the venue gives the newest ones, as many as it is asked for.  Two
\* clients do not say how many, and Coinbase's asks for those that began in
\* the last so many intervals of its own clock, which may be behind.
Windows ==
  LET n == Len(Series)
  IN CASE reader.venue = "coinbase" ->
            {<<e - Limit + inside, e>> : e \in {n - 1, n}, inside \in {0, 1}}
       [] reader.venue \in {"kraken", "kucoin"} -> {<<1, n>>}
       [] OTHER -> {<<n - Limit + 1, n>>}

InMillis(Of(_, _), ks) == [i \in DOMAIN ks |-> Of(ks[i], Millis(ks[i].time))]

Klines(window) ==
  LET ks     == SubSeq(Series, IF window[1] < 1 THEN 1 ELSE window[1], window[2])
      newest == Reverse(ks)
  IN CASE reader.venue = "binance"  -> BinanceKlines(InMillis(Columns, ks))
       [] reader.venue = "bitget"   -> BitgetKlines(InMillis(Columns, ks))
       [] reader.venue = "bybit"    -> BybitKlines(InMillis(Columns, newest))
       [] reader.venue = "coinbase" -> CoinbaseKlines(PerRow(Named, newest))
       [] reader.venue = "gate"     ->
            GateKlines(IF Linear(reader) THEN PerRow(Named, ks) ELSE PerRow(GateColumns, ks))
       [] reader.venue = "htx"      -> HtxKlines(PerRow(HtxNamed, newest))
       [] reader.venue = "kraken"   ->
            IF Linear(reader)
            THEN KrakenFuturesKlines([i \in DOMAIN ks |-> [ks[i] EXCEPT !.time = Millis(@)]])
            ELSE KrakenKlines(PerRow(KrakenColumns, ks))
       [] reader.venue = "kucoin"   -> KuCoinKlines(PerRow(KuCoinColumns, newest))
       [] reader.venue = "okx"      -> OkxKlines(InMillis(Columns, newest))
       [] reader.venue = "upbit"    -> UpbitKlines(PerRow(UpbitNamed, newest))

\* The caller (external) drops the last candle, which is not over, and keeps
\* the others in the place of those that it has of the same times.
Before(time) ==
  CHOOSE n \in 0..Len(history) : \A i \in DOMAIN history : i <= n <=> history[i].time < time
Kept(rows) ==
  LET over == SubSeq(rows, 1, Len(rows) - 1)
  IN IF over = <<>> THEN history
     ELSE SubSeq(history, 1, Before(over[1].time)) \o over
            \o SubSeq(history, Before(over[Len(over)].time + 1) + 1, Len(history))

(***************************************************************************)
(* Tickers.  An answer (external) is of a moment m, and a list is empty if *)
(* the market is not listed.  Two futures clients make a ticker of two     *)
(* answers: the statistics, and then the quote.                            *)
(***************************************************************************)
Ticker(last, bidPrice, askPrice, volume, time) ==
  [last |-> last, bid |-> bidPrice, ask |-> askPrice, volume |-> volume, time |-> time]

ListOf(entry, listed) == IF listed THEN <<entry>> ELSE <<>>

BinanceStats(m) == [lastPrice |-> m.last, volume |-> m.volume, closeTime |-> Millis(m.time)]
BinanceQuote(m) == [bidPrice |-> m.bid, askPrice |-> m.ask]
BinanceDay(m) == [lastPrice |-> m.last, bidPrice |-> m.bid, askPrice |-> m.ask,
                  volume |-> m.volume, closeTime |-> Millis(m.time)]
BinanceFuturesTicker(stats, book) ==
  Ticker(stats.lastPrice, book.bidPrice, book.askPrice, stats.volume, stats.closeTime)
BinanceTicker(raw) == Ticker(raw.lastPrice, raw.bidPrice, raw.askPrice, raw.volume, raw.closeTime)

BitgetEntry(m) == [lastPr |-> m.last, bidPr |-> m.bid, askPr |-> m.ask, baseVolume |-> m.volume, ts |-> Millis(m.time)]
BitgetTicker(list) ==
  FirstOf(list, LAMBDA e : Ticker(e.lastPr, e.bidPr, e.askPr, e.baseVolume, e.ts))

BybitEntry(m) == [lastPrice |-> m.last, bid1Price |-> m.bid, ask1Price |-> m.ask, volume24h |-> m.volume]
BybitTicker(list) ==
  FirstOf(list, LAMBDA e : Ticker(e.lastPrice, e.bid1Price, e.ask1Price, e.volume24h, 0))

CoinbaseLast(m, listed) == [trades |-> ListOf([price |-> m.last], listed), best_bid |-> m.bid, best_ask |-> m.ask]
CoinbaseTicker(value) ==
  FirstOf(value.trades, LAMBDA t : Ticker(t.price, value.best_bid, value.best_ask, 0, 0))

GateEntry(m) == [last |-> m.last, highest_bid |-> m.bid, lowest_ask |-> m.ask, base_volume |-> m.volume]
GateTicker(list) ==
  FirstOf(list, LAMBDA e : Ticker(e.last, e.highest_bid, e.lowest_ask, e.base_volume, 0))

GateStats(m) == [last |-> m.last, volume_24h_base |-> m.volume]
BestPrice(levels) == IF levels = <<>> THEN 0 ELSE levels[1].price
GateFuturesTicker(list, book) ==
  FirstOf(list, LAMBDA e : Ticker(e.last, BestPrice(book.bids), BestPrice(book.asks), e.volume_24h_base, 0))

\* HTX's volume is `amount`; its `vol` is the turnover, or on swaps the number
\* of contracts, of a thousandth of a coin.
HtxVol(m) == IF Linear(reader) THEN 1000 * m.volume ELSE m.last * m.volume
HtxMerged(m) == [ts |-> Millis(m.time), tick |-> [close |-> m.last, bid |-> <<m.bid, 1>>, ask |-> <<m.ask, 1>>,
                                                  amount |-> m.volume, vol |-> HtxVol(m)]]
HtxTicker(value) ==
  LET tick == value.tick IN Ticker(tick.close, tick.bid[1], tick.ask[1], tick.vol, value.ts)

KrakenTick(m) == [c |-> <<m.last, 1>>, b |-> <<m.bid, 1>>, a |-> <<m.ask, 1>>, v |-> <<0, m.volume>>]
KrakenTicker(tick) == Ticker(tick.c[1], tick.b[1], tick.a[1], tick.v[2], 0)

\* Kraken's futures answer lists every product, ours among them if it is one.
KrakenTickers(m, listed) ==
  <<[symbol |-> "eth", last |-> 9, bid |-> 8, ask |-> 10, vol24h |-> 1, openInterest |-> 7]>> \o
  ListOf([symbol |-> "btc", last |-> m.last, bid |-> m.bid, ask |-> m.ask, vol24h |-> m.volume,
          openInterest |-> Millis(m.time)], listed)
OfProduct(tickers) ==
  LET ours == {i \in DOMAIN tickers : tickers[i].symbol = "btc"}
  IN IF ours = {} THEN <<>> ELSE <<tickers[CHOOSE i \in ours : \A j \in ours : i <= j]>>
KrakenFuturesTicker(tickers) ==
  FirstOf(OfProduct(tickers), LAMBDA t : Ticker(t.last, t.bid, t.ask, t.vol24h, 0))

KuCoinStats(m) == [last |-> m.last, buy |-> m.bid, sell |-> m.ask, vol |-> m.volume, time |-> Millis(m.time)]
KuCoinTicker(raw) == Ticker(raw.last, raw.buy, raw.sell, raw.vol, raw.time)

OkxEntry(m) == [last |-> m.last, bidPx |-> m.bid, askPx |-> m.ask, vol24h |-> m.volume, ts |-> Millis(m.time)]
OkxTicker(list) == FirstOf(list, LAMBDA e : Ticker(e.last, e.bidPx, e.askPx, e.vol24h, e.ts))

\* Upbit's has no quote: the last price stands for both sides.
UpbitEntry(m) == [trade_price |-> m.last, acc_trade_volume_24h |-> m.volume, trade_timestamp |-> Millis(m.time)]
UpbitTicker(list) ==
  FirstOf(list, LAMBDA e : Ticker(e.trade_price, e.trade_price, e.trade_price,
                                  e.acc_trade_volume_24h, e.trade_timestamp))

(***************************************************************************)
(* Books: the sides, the number that a stream's diffs would be joined at,  *)
(* and the time.  Five clients do not say how many levels they want.       *)
(***************************************************************************)
Level(price, quantity) == [price |-> price, quantity |-> quantity]
Snapshot(id, bids, asks, time) == [id |-> id, bids |-> bids, asks |-> asks, time |-> time]

\* The venue's levels (external), the best one first, in pairs.
AllLevels     == Depth + 1
BidPairs(m, n) == [i \in 1..n |-> <<m.bid + 1 - i, i>>]
AskPairs(m, n) == [i \in 1..n |-> <<m.ask - 1 + i, i>>]

PairLevels(rows)   == PerRow(LAMBDA pair : Level(pair[1], pair[2]), rows)
HtxLevels(rows)    == PerRow(LAMBDA pair : Level(pair[1], pair[2]), rows)
KrakenLevels(rows) == PerRow(LAMBDA level : Level(level[1], level[2]), rows)
OkxLevels(rows)    == PerRow(LAMBDA level : Level(level[1], level[2]), rows)
ObjectLevels(rows) == PerRow(LAMBDA level : Level(level.price, level.size), rows)
GateLevels(rows)   == PerRow(LAMBDA level : Level(level.p, IF level.s < 0 THEN -level.s ELSE level.s), rows)

BinanceDepth(m) ==
  IF Linear(reader)
  THEN [lastUpdateId |-> m.change, bids |-> BidPairs(m, Depth), asks |-> AskPairs(m, Depth), T |-> Millis(m.time)]
  ELSE [lastUpdateId |-> m.change, bids |-> BidPairs(m, Depth), asks |-> AskPairs(m, Depth)]
BinanceBook(raw) ==
  Snapshot(raw.lastUpdateId, PairLevels(raw.bids), PairLevels(raw.asks),
           IF "T" \in DOMAIN raw THEN raw.T ELSE 0)

\* Bitget's and OKX's stamp, and Gate's on spot, is the number of the book too.
StampedDepth(m) == [bids |-> BidPairs(m, Depth), asks |-> AskPairs(m, Depth), ts |-> Millis(m.time)]
BitgetBook(raw) == Snapshot(raw.ts, PairLevels(raw.bids), PairLevels(raw.asks), raw.ts)
OkxBook(list)   == FirstOf(list, LAMBDA raw : Snapshot(raw.ts, OkxLevels(raw.bids), OkxLevels(raw.asks), raw.ts))
GateBook(raw)   == Snapshot(raw.ts, PairLevels(raw.bids), PairLevels(raw.asks), raw.ts)

\* On futures Gate counts contracts; an ask's are negative.
GateContracts(m) ==
  [id |-> m.change, bids |-> PerRow(LAMBDA r : [p |-> r[1], s |-> r[2]], BidPairs(m, Depth)),
                    asks |-> PerRow(LAMBDA r : [p |-> r[1], s |-> -r[2]], AskPairs(m, Depth))]
GateFuturesBook(raw) == Snapshot(raw.id, GateLevels(raw.bids), GateLevels(raw.asks), 0)

BybitDepth(m) == [u |-> m.change, ts |-> Millis(m.time), b |-> BidPairs(m, Depth), a |-> AskPairs(m, Depth)]
BybitBook(raw) == Snapshot(raw.u, PairLevels(raw.b), PairLevels(raw.a), raw.ts)

CoinbasePricebook(m) ==
  [bids |-> PerRow(LAMBDA r : [price |-> r[1], size |-> r[2]], BidPairs(m, Depth)),
   asks |-> PerRow(LAMBDA r : [price |-> r[1], size |-> r[2]], AskPairs(m, Depth))]
CoinbaseBook(book) == Snapshot(0, ObjectLevels(book.bids), ObjectLevels(book.asks), 0)

HtxTick(m) == [version |-> m.change, ts |-> Millis(m.time), bids |-> BidPairs(m, AllLevels), asks |-> AskPairs(m, AllLevels)]
HtxBook(tick) == Snapshot(tick.version, HtxLevels(tick.bids), HtxLevels(tick.asks), tick.ts)

KrakenDepth(m) ==
  LET n == IF Linear(reader) THEN AllLevels ELSE Depth
  IN [bids |-> BidPairs(m, n), asks |-> AskPairs(m, n)]
KrakenBook(book) == Snapshot(0, KrakenLevels(book.bids), KrakenLevels(book.asks), 0)

KuCoinDepth(m) == [sequence |-> m.change, time |-> Millis(m.time), bids |-> BidPairs(m, AllLevels), asks |-> AskPairs(m, AllLevels)]
KuCoinBook(raw) == Snapshot(raw.sequence, PairLevels(raw.bids), PairLevels(raw.asks), raw.time)

\* Upbit's sides share their rows.
UpbitDepth(m) ==
  [timestamp |-> Millis(m.time), orderbook_units |-> [i \in 1..AllLevels |->
     [bid_price |-> BidPairs(m, i)[i][1], bid_size |-> i, ask_price |-> AskPairs(m, i)[i][1], ask_size |-> i]]]
UpbitBook(list) ==
  FirstOf(list, LAMBDA e :
    Snapshot(0, PerRow(LAMBDA unit : Level(unit.bid_price, unit.bid_size), e.orderbook_units),
                PerRow(LAMBDA unit : Level(unit.ask_price, unit.ask_size), e.orderbook_units), e.timestamp))

(***************************************************************************)
(* The figures of a derivatives market.  A venue (external) counts         *)
(* contracts, of ContractSize coins each; accounts are long, short or, of  *)
(* those that HTX counts, both.                                            *)
(***************************************************************************)
ContractSize == 2
Contracts(m) == 500 * m.time
Coins(m)     == ContractSize * Contracts(m)
LongsOf(t)   == t
ShortsOf(t)  == 1

OpenInterest(amount, time) == [amount |-> amount, time |-> time]
Positioning(long, short, time) == [long |-> long, short |-> short, time |-> time]

Fraction(a, b) == [above |-> a, below |-> b]
Same(f, g)     == f.above * g.below = g.above * f.below
Share(t, n)    == Fraction(n, LongsOf(t) + ShortsOf(t))
Ratio(t)       == Fraction(LongsOf(t), ShortsOf(t))

\* A ratio r of longs to shorts is of r / (1 + r) and of 1 / (1 + r).
OfRatio(r, time) ==
  LET total == Fraction(r.below + r.above, r.below)
  IN IF total.above = 0 THEN NoFigure
     ELSE Positioning(Fraction(r.above * total.below, r.below * total.above),
                      Fraction(total.below, total.above), time)

BinanceInterest(value) == OpenInterest(value.openInterest, value.time)
BinanceRatios(m) == <<[longAccount |-> Share(m.time, LongsOf(m.time)), shortAccount |-> Share(m.time, ShortsOf(m.time)),
                       timestamp |-> Millis(m.time)]>>
BinanceLongShort(points) == FirstOf(points, LAMBDA p : Positioning(p.longAccount, p.shortAccount, p.timestamp))

\* Points of every period, the newest first.
BitgetRatios(m) == Reverse([t \in 1..m.time |->
  [longAccountRatio |-> Share(t, LongsOf(t)), shortAccountRatio |-> Share(t, ShortsOf(t)), ts |-> Millis(t)]])
BitgetInterest(data)  == FirstOf(data.openInterestList, LAMBDA p : OpenInterest(p.size, data.ts))
BitgetLongShort(rows) == FirstOf(rows, LAMBDA p : Positioning(p.longAccountRatio, p.shortAccountRatio, p.ts))

BybitRatios(m) == <<[buyRatio |-> Share(m.time, LongsOf(m.time)), sellRatio |-> Share(m.time, ShortsOf(m.time)),
                     timestamp |-> Millis(m.time)]>>
BybitInterest(list)  == FirstOf(list, LAMBDA p : OpenInterest(p.openInterest, p.timestamp))
BybitLongShort(list) == FirstOf(list, LAMBDA p : Positioning(p.buyRatio, p.sellRatio, p.timestamp))

\* Gate's row carries both figures, and its time in seconds.
ContractStats(m) == [time |-> m.time, open_interest |-> Contracts(m), lsr_account |-> Ratio(m.time)]
StatsMillis(point) == 1000 * point.time
GateInterest(rows)  == FirstOf(rows, LAMBDA p : OpenInterest(p.open_interest, StatsMillis(p)))
GateLongShort(rows) == FirstOf(rows, LAMBDA p : OfRatio(p.lsr_account, StatsMillis(p)))

\* HTX names its figures by their unit, and gives points oldest first.
HtxOpen(m) == [volume |-> Contracts(m), amount |-> Coins(m)]
HtxElite(m) == [t \in 1..m.time |->
  [buy_ratio |-> Fraction(LongsOf(t), LongsOf(t) + ShortsOf(t) + 1),
   sell_ratio |-> Fraction(ShortsOf(t), LongsOf(t) + ShortsOf(t) + 1), ts |-> Millis(t)]]
HtxInterest(data, ts) == FirstOf(data, LAMBDA p : OpenInterest(p.volume, ts))
HtxLongShort_Fault(list) == FirstOf(list, LAMBDA p : Positioning(p.buy_ratio, p.sell_ratio, p.ts))
HtxLongShort(list) ==
  FirstOf(Reverse(list), LAMBDA p : Positioning(p.buy_ratio, p.sell_ratio, p.ts))

KrakenInterest(tickers) == FirstOf(OfProduct(tickers), LAMBDA t : OpenInterest(t.openInterest, 0))
KuCoinInterest(data) == OpenInterest(data.openInterest * data.multiplier, 0)

OkxOpen(m) == [oi |-> Contracts(m), oiCcy |-> Coins(m), ts |-> Millis(m.time)]
OkxRatios(m) == Reverse([t \in 1..m.time |-> <<Millis(t), Ratio(t)>>])
OkxInterest(rows)  == FirstOf(rows, LAMBDA p : OpenInterest(p.oiCcy, p.ts))
OkxLongShort(rows) == FirstOf(rows, LAMBDA row : OfRatio(row[2], row[1]))

(***************************************************************************)
(* What each client makes of the answer to a read.                         *)
(***************************************************************************)
TwoRequests(c) == Linear(c) /\ c.venue \in {"binance", "gate"}

TickerOf(first, m, listed) ==
  CASE reader.venue = "binance"  -> IF Linear(reader) THEN BinanceFuturesTicker(BinanceStats(first), BinanceQuote(m))
                                    ELSE BinanceTicker(BinanceDay(m))
    [] reader.venue = "bitget"   -> BitgetTicker(ListOf(BitgetEntry(m), listed))
    [] reader.venue = "bybit"    -> BybitTicker(ListOf(BybitEntry(m), listed))
    [] reader.venue = "coinbase" -> CoinbaseTicker(CoinbaseLast(m, listed))
    [] reader.venue = "gate"     -> IF Linear(reader)
                                    THEN GateFuturesTicker(<<GateStats(first)>>, GateFuturesBook(GateContracts(m)))
                                    ELSE GateTicker(ListOf(GateEntry(m), listed))
    [] reader.venue = "htx"      -> HtxTicker(HtxMerged(m))
    [] reader.venue = "kraken"   -> IF Linear(reader) THEN KrakenFuturesTicker(KrakenTickers(m, listed))
                                    ELSE KrakenTicker(KrakenTick(m))
    [] reader.venue = "kucoin"   -> KuCoinTicker(KuCoinStats(m))
    [] reader.venue = "okx"      -> OkxTicker(ListOf(OkxEntry(m), listed))
    [] reader.venue = "upbit"    -> UpbitTicker(ListOf(UpbitEntry(m), listed))

BookOf(m, listed) ==
  CASE reader.venue = "binance"  -> BinanceBook(BinanceDepth(m))
    [] reader.venue = "bitget"   -> BitgetBook(StampedDepth(m))
    [] reader.venue = "bybit"    -> BybitBook(BybitDepth(m))
    [] reader.venue = "coinbase" -> CoinbaseBook(CoinbasePricebook(m))
    [] reader.venue = "gate"     -> IF Linear(reader) THEN GateFuturesBook(GateContracts(m)) ELSE GateBook(StampedDepth(m))
    [] reader.venue = "htx"      -> HtxBook(HtxTick(m))
    [] reader.venue = "kraken"   -> KrakenBook(KrakenDepth(m))
    [] reader.venue = "kucoin"   -> KuCoinBook(KuCoinDepth(m))
    [] reader.venue = "okx"      -> OkxBook(ListOf(StampedDepth(m), listed))
    [] reader.venue = "upbit"    -> UpbitBook(ListOf(UpbitDepth(m), listed))

InterestOf(m, listed) ==
  LET point == [openInterest |-> Coins(m), size |-> Coins(m), time |-> Millis(m.time), timestamp |-> Millis(m.time)]
  IN CASE reader.venue = "binance" -> BinanceInterest(point)
       [] reader.venue = "bitget"  -> BitgetInterest([openInterestList |-> ListOf(point, listed), ts |-> Millis(m.time)])
       [] reader.venue = "bybit"   -> BybitInterest(ListOf(point, listed))
       [] reader.venue = "gate"    -> GateInterest(ListOf(ContractStats(m), listed))
       [] reader.venue = "htx"     -> HtxInterest(ListOf(HtxOpen(m), listed), Millis(m.time))
       [] reader.venue = "kraken"  -> KrakenInterest(KrakenTickers(m, listed))
       [] reader.venue = "kucoin"  -> KuCoinInterest([openInterest |-> Contracts(m), multiplier |-> ContractSize])
       [] reader.venue = "okx"     -> OkxInterest(ListOf(OkxOpen(m), listed))

LongShortOf(m, listed) ==
  LET Known(points) == IF listed THEN points ELSE <<>>
  IN CASE reader.venue = "binance" -> BinanceLongShort(Known(BinanceRatios(m)))
       [] reader.venue = "bitget"  -> BitgetLongShort(Known(BitgetRatios(m)))
       [] reader.venue = "bybit"   -> BybitLongShort(Known(BybitRatios(m)))
       [] reader.venue = "gate"    -> GateLongShort(Known(<<ContractStats(m)>>))
       [] reader.venue = "htx"     -> HtxLongShort(Known(HtxElite(m)))
       [] reader.venue = "okx"     -> OkxLongShort(Known(OkxRatios(m)))

(***************************************************************************)
(* The caller's reads.                                                     *)
(***************************************************************************)
Ops == {"klines", "ticker", "order_book", "open_interest", "long_short_ratio"}

\* What a client refuses before it asks the venue.
SpotRefuses(c, op)    == op \in {"open_interest", "long_short_ratio"} /\ ~Linear(c)
KrakenPublishesNone(c, op) == c.venue = "kraken" /\ op = "long_short_ratio"
KuCoinPublishesNone(c, op) == c.venue = "kucoin" /\ op = "long_short_ratio"
RefusesRead(c, op) == SpotRefuses(c, op) \/ KrakenPublishesNone(c, op) \/ KuCoinPublishesNone(c, op)

\* KuCoin's futures host (external) does not know the paths of spot, which is
\* all that the client asks it for here.
Unanswered == reader.venue = "kucoin" /\ Linear(reader) /\ reading.op \in {"klines", "ticker", "order_book"}

BeginRead(op) ==
  /\ reading.pc = "over" /\ reads < MaxReads
  /\ reading' = [op |-> op, pc |-> IF RefusesRead(reader, op) THEN "over" ELSE "asked",
                 first |-> NoReading.first]
  /\ reads' = reads + 1 /\ got' = NoGot
  /\ UNCHANGED <<reader, interval, candles, bid, book_id, history>>

\* The first of two answers.  Gate's is a list: without an entry the read ends.
AnswerStats(listed) ==
  /\ reading.op = "ticker" /\ reading.pc = "asked" /\ TwoRequests(reader)
  /\ reading' = IF listed \/ reader.venue = "binance" THEN [reading EXCEPT !.pc = "quote", !.first = Moment]
                ELSE [reading EXCEPT !.pc = "over"]
  /\ UNCHANGED <<reader, interval, candles, bid, book_id, reads, history, got>>

Over == reading' = [reading EXCEPT !.pc = "over", !.first = NoReading.first]

AnswerKlines ==
  /\ reading.op = "klines" /\ reading.pc = "asked" /\ ~Unanswered
  /\ Over
  /\ \E window \in Windows : history' = Kept(Klines(window))
  /\ UNCHANGED <<reader, interval, candles, bid, book_id, reads, got>>

AnswerFigure(listed) ==
  LET value == CASE reading.op = "ticker"           -> TickerOf(reading.first, Moment, listed)
                 [] reading.op = "order_book"       -> BookOf(Moment, listed)
                 [] reading.op = "open_interest"    -> InterestOf(Moment, listed)
                 [] reading.op = "long_short_ratio" -> LongShortOf(Moment, listed)
  IN /\ reading.op \in Ops \ {"klines"} /\ ~Unanswered
     /\ reading.pc = IF reading.op = "ticker" /\ TwoRequests(reader) THEN "quote" ELSE "asked"
     /\ Over
     /\ got' = IF value = NoFigure THEN NoGot
               ELSE [op |-> reading.op, value |-> value, last |-> Moment,
                     first |-> IF reading.pc = "quote" THEN reading.first ELSE Moment]
     /\ UNCHANGED <<reader, interval, candles, bid, book_id, reads, history>>

\* An answer that is lost, or that reports an error, is an error of the read.
ReadIsLost ==
  /\ reading.pc # "over"
  /\ Over
  /\ UNCHANGED <<reader, interval, candles, bid, book_id, reads, history, got>>

MarketNext ==
  \/ \E p \in Prices : Trade(p)
  \/ NextPeriod
  \/ \E op \in Ops : BeginRead(op)
  \/ \E listed \in BOOLEAN : AnswerStats(listed) \/ AnswerFigure(listed)
  \/ AnswerKlines \/ ReadIsLost

MarketSpec == MarketInit /\ [][MarketNext]_marketVars
-----------------------------------------------------------------------------
(* Properties *)

(***************************************************************************)
(* Whoever asks for candles again and again, and keeps all but the last of *)
(* each answer, has the market's candles in the order of time, column by   *)
(* column as they ended, whatever the venue's layout and order and however *)
(* its answers overlap: those of the interval it asked for, or of an hour  *)
(* if the client has no word for that.  The stamps are the venue's:        *)
(* seconds, milliseconds, or the candle's last trade.                      *)
(***************************************************************************)
HistoryIsTrue ==
  /\ \A i \in DOMAIN history : \E j \in DOMAIN Series :
       /\ [history[i] EXCEPT !.time = 0] = [Series[j] EXCEPT !.time = 0]
       /\ history[i].time \in {Series[j].time, Millis(Series[j].time), LastTrade(Series[j])}
  /\ \A i, j \in DOMAIN history : i < j => history[i].time < history[j].time

Stamped(time, m) == time \in {0, Millis(m.time)}

\* The clients that do not pass `depth` on (see BooksKeepToDepth).
IgnoresDepth(c) == c.venue \in {"htx", "kucoin", "upbit"} \/ (c.venue = "kraken" /\ Linear(c))

(***************************************************************************)
(* A ticker's price and its stamp are of a moment within the call, and so  *)
(* is its quote: the same moment for the clients that send one request, a  *)
(* later one for the two that send two.  Upbit's quote is the price.  Its  *)
(* volume is the base's, of the price's moment (Coinbase's has none; for   *)
(* HTX's see VolumesAreOfTheBase).  A book has the levels that were asked  *)
(* for, no more (but for the clients above) and no fewer, the best first,  *)
(* of one moment; positioning is of the newest point; open interest is in  *)
(* the unit that the client documents, contracts at Gate and HTX; a stamp  *)
(* is in milliseconds, or 0 where the venue gives none.  A market that is  *)
(* not listed yields no figure.                                            *)
(***************************************************************************)
ReadsAreTrue ==
  LET v == got.value
      Counted == LongsOf(got.last.time) + ShortsOf(got.last.time) + (IF reader.venue = "htx" THEN 1 ELSE 0)
  IN /\ got.op = "ticker" =>
          /\ v.last = got.first.last /\ Stamped(v.time, got.first)
          /\ TwoRequests(reader) \/ got.first = got.last
          /\ reader.venue # "htx" => v.volume = IF reader.venue = "coinbase" THEN 0 ELSE got.first.volume
          /\ IF reader.venue = "upbit" THEN v.bid = v.last /\ v.ask = v.last
             ELSE v.bid = got.last.bid /\ v.ask = got.last.ask
     /\ got.op = "order_book" =>
          /\ Len(v.bids) = Len(v.asks) /\ Len(v.bids) >= Depth
          /\ Len(v.bids) > Depth => IgnoresDepth(reader)
          /\ \A i \in DOMAIN v.bids : v.bids[i] = Level(got.last.bid + 1 - i, i)
          /\ \A i \in DOMAIN v.asks : v.asks[i] = Level(got.last.ask - 1 + i, i)
          /\ Stamped(v.time, got.last) /\ v.id \in {0, got.last.change, v.time}
     /\ got.op = "long_short_ratio" =>
          /\ Same(v.long, Fraction(LongsOf(got.last.time), Counted))
          /\ Same(v.short, Fraction(ShortsOf(got.last.time), Counted))
          /\ v.time = Millis(got.last.time)
     /\ got.op = "open_interest" =>
          /\ v.amount = IF reader.venue \in {"gate", "htx"} THEN Contracts(got.last) ELSE Coins(got.last)
          /\ Stamped(v.time, got.last)

(***************************************************************************)
(* What the Ticker type says of its volume, "Rolling base-asset volume"    *)
(* (types.rs:326), of the clients that have one.                           *)
(***************************************************************************)
VolumesAreOfTheBase ==
  got.op = "ticker" /\ reader.venue # "coinbase" => got.value.volume = got.first.volume

(***************************************************************************)
(* What the traits say of `order_book`, "up to `depth` levels per side"    *)
(* (traits.rs:42).                                                         *)
(***************************************************************************)
BooksKeepToDepth ==
  got.op = "order_book" => Len(got.value.bids) <= Depth /\ Len(got.value.asks) <= Depth
=============================================================================
