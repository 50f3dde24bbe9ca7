# wickra-exchange: a TLA+ model

TLA+ modules for `wickra-exchange`, the TLC configurations that check them, and
TLAPS proofs of the properties that matter most. Paths below are relative to
the repository; `core/` stands for `crates/wickra-exchange-core/src/`, and a
file named alone is in `core/` or `core/exchanges/`.

The library lets a trading program, in Rust or through seven bindings, talk to
ten crypto venues through one set of traits. Its correctness has two sides.
One is what goes wrong in time: a retry that may make one order two, a budget
shared by threads, a stream that drops while frames wait, a book fed by late
diffs, a nonce that must never go back, an answer that arrives after its call
gave up, an order that fills while it is amended. The other is that ten
clients, several languages and several paths must mean the same by the same
order, status, position, print or option. The first side is modelled step by step, and
the second by small operators per venue, put into machines in which a wrong one
has consequences: a stop that fires on the way up, a position turned around.

## 1. Inventory

| Component | State | Operations | Talks to |
|---|---|---|---|
| Retrying transport (`throttle.rs`, `retry.rs`, `ratelimiter.rs`) | budget window and charge, venue cool-off, attempts of each call | `execute`, `await_budget`, `try_acquire`, `note_rate_limited` | every REST call of every client, from any thread; the limiter is behind a mutex |
| Clock, nonces, signed requests (`clock.rs`, `error.rs`, the clients) | last nonce (atomic), clock offset | `NonceGenerator::next`, `sync_time`, signing, unwrapping of answers | venue clock, gateway, other threads |
| Order builders and wire forms (`types.rs`, the clients, the bindings) | what a client was built with: market, position mode, margin mode | `place_order`, `place_order_ws`, `place_batch`, `place_oco`, `close_position` | the venue, which arms and executes by the words it was sent |
| Order management (the clients) | none but the stream; the program keeps handles | cancel (three ways), amend, query, list, balances, private stream | REST and the private stream, which tell the same in other words |
| Futures account (the clients) | leverage and margin mode kept by some clients | `positions`, `set_leverage`, `set_margin_mode` | the venue, which keeps the rest |
| Factory and wiring (`factory.rs`, the constructors, the bindings) | what a client was built with | build by name; a host for each contact | every request, stream and socket |
| Market reads (the clients, `feeds.rs`) | none; the program keeps a history | ticker, candles, book, open interest, long/short ratio | a market that trades on |
| Streams (`wsutil.rs`, `wickra-exchange/src/net.rs`, the clients) | connections with reader threads and channels, subscriptions to replay, tables of names and channels, listen key | subscribe, subscribe user data, poll, reconnect, pong | threads through channels; REST for keys |
| Local order book (`orderbook.rs`) | ladder, last update id, initialized | apply snapshot, apply delta | fed with what the clients parse |
| WebSocket order API (five clients) | one dedicated connection, Kraken's token | place and cancel over WebSocket | a reader thread, the venue |
| Batches and client ids (`idempotency.rs`, `place_batch`) | the id counter | build, send, align the answers | the retrying transport, the venue |
| Paper and replay exchange (`paper.rs`, `replay.rs`) | balances, orders, marks, pending events; a cursor | place, cancel, cancel all, set price, seed, poll | the trading program |
| Reconciliation, dead man's switch (`reconcile.rs`, `deadman.rs`) | a deadline | reconcile, heartbeat, expired | composed by the program |
| Language bindings | handles; buffers of the caller's | one call each, codes and copies | the program, in its language |
| Filters, symbols, normalisation, credentials, encodings | none that a protocol depends on | conversions | everything |

What makes each correct:

- **Retrying transport.** Requests are lost, delayed and answered late; copies
  given up on arrive after a repeat. A write is carried out at most once, a
  definite answer is true and final, the budget holds over any interval, and
  every call returns.
- **Signed requests.** Threads race for nonces, clocks drift and step. Stamps
  are timely once synced, answers are told as what they say, and a nonce is
  refused only if another thread overtook it.
- **Order entry.** A stop waits for the adverse move; a limit keeps its terms;
  REST, socket and batch say the same; nothing that reduces adds.
- **Order management.** What is shown was so; what a call's Ok or Err says is
  so; an amend buys no more than was asked; no live order loses its handle.
- **Futures account.** Positions are told truly; orders run on the terms the
  program was told.
- **Factory and wiring.** Every contact of a client addresses the market and
  the network that the program asked for, or the program was refused.
- **Market reads.** The candles are the market's, in order; figures belong to
  moments within the call.
- **Streams.** Frames in order and none lost, no gap unannounced, live streams
  subscribed, drops noticed; what is told of a frame is what happened.
- **Order book.** The ladder is the venue's at the id it claims, it does not
  drift silently, and no false alarm throws it away.
- **WebSocket orders and batches.** An answer is real and given once; each
  result of a batch is its order's own.
- **Paper, replay, bindings.** The ledger balances, locks are what open orders
  reserve, a program knows its orders whatever its language, a replay does not
  look ahead.

`PROJECT.json` lists the hazards with their lines and the properties that would
catch them.

## 2. Modules

| Module | Models | Correspondence |
|---|---|---|
| `OrderOutcome` | the contract of `throttle.rs:16-31`, abstractly | `CarryOut`: the venue executes; `Tell`: the caller learns |
| `RateLimiter` | `WeightedRateLimiter` | `Admit` and `Throttle` are the two answers of `try_acquire`; absolute milliseconds become what is left of them, so time needs no bound |
| `ThrottledTransport` (extends `RateLimiter`) | `execute`, `await_budget`, the wire, the venue | one action per locked section, sleep and send; `strays` are copies given up on |
| `NonceGenerator` | `next`'s load and compare-exchange loop, the clock offset | one action per atomic operation; `floor` and `issued` are history |
| `SignedRequests` (extends `NonceGenerator`) | `sync_time`, signing in eleven ways, the venue's judgement, repetition after a refusal, the unwrapping of answers | `XSigns`, `XTime`, `XCodes`, `XUnwrap` are venue X's; `seen` is the greatest nonce the venue took |
| `OrderWire` | the request, the client, the order on the wire in one vocabulary | |
| `OrderBuilders` (extends `OrderWire`) | how each language says an order: factories and refinements, C's struct of codes, Go's and R's derived type, narrow calls, brackets | `Said(path, r)` is the set of requests that come out, one if the languages agree |
| `BinanceOrders` ... `UpbitOrders` | each venue's `place_order`, `place_order_ws`, `place_batch`, `place_oco`, `close_position` | an operator per builder of the client, from request to wire |
| `OrderEntry` (instantiates the ten) | a caller, `close_position` beside it, and a venue that arms, executes and liquidates in any order | `Fires` and `Executed` read nothing but the wire |
| `OrderViews` | the words of the venues for an order and a balance, over REST and the private stream, and what the clients make of them | a pair of operators per venue and source |
| `OrderLife` (extends `OrderViews`) | cancel, batch cancel, socket cancel, amend, query, list, account, private stream | a call is a sequence of requests (`Requests`), each of which the venue carries out, refuses, or answers into a lost connection |
| `FuturesAccount` | positions, leverage and margin mode of eight clients | `terms` is the venue's, `kept` the client's, `said` what the program believes |
| `MarketReads` | five reads of fourteen clients over a market that moves | rows in the venues' layouts, read back column by column, against a market whose past is kept |
| `Connection` | the options as six languages say them, the factory, the ten constructors, the hosts of requests, streams, resumptions, private streams and order sockets | `XBuild` is venue X's constructor, `Opened` all that happens until a program has its client; `contact` is the last host and header used |
| `MCVenueClient` (extends `OrderLife`, `FuturesAccount`, `Connection`) | the client that trades | the three share no state, so a behaviour is one of each, taken one at a time; the modules stay apart so that one can be proved about |
| `MCVenueCalls` (extends `OrderBook`, `MarketReads`, `WsOrderApi`, `OrderBatches`) | the client that reads the market, and its two other ways to place orders | the same for these four |
| `MarketStream` | `subscribe`, `subscribe_user_data`, `poll_events`, both reconnects, the reader threads | a poll is split where a thread can change what it sees; `connection[s].reader` is the thread |
| `FeedFrames` | topics, handshakes, frames and parsers of the ten venues, the derivatives tick | a print is what happened, a frame how the venue puts it, an event what the client tells |
| `VenueFeeds` (extends `FeedFrames`) | the subscriptions, tables, hosts, reconnects and pings of the ten clients | a poll is one step here: `MarketStream` has its steps, this module the tables that a poll uses |
| `OrderBook` | `OrderBookBuilder` and how clients number diffs | `venue` is the history of the true ladder; every diff and snapshot of it may be delivered at any time, again and again |
| `WsOrderApi` | WebSocket orders of five venues | `handshake` is how the venue's connection is made ready: nothing, a login frame, a token |
| `OrderBatches` | `place_batch` of eight clients (Binance's spot and futures apart), `ClientIdGenerator` | `profile` says how a client sends, names and aligns; the venue handles each frame once, late or never |
| `PaperExchange` | the simulated exchange | one action per API call; amounts are integers in units of `Scale^2`, so fees and slippage are exact |
| `Bindings` (extends `PaperExchange`) | the paper and the replay exchange through Rust, Go and Node, reconciliation, dead man's switch | Go stands for the languages over C's buffers and codes, Node for those compiled with the library; `XOrder`, `XEvent`, `XPoll`, `XOpenOrders` are language X's; `heard` is what the program believes |
| other `MC*` | constants for TLC | |
| `TransportProofs` | TLAPS theorems about `ThrottledTransport` and `VenueFeeds` | section 5 |
| `SignedRequestsProofs` | about `NonceGenerator` and `SignedRequests` | |
| `OrderEntryProofs` | about `OrderEntry` and the modules it instantiates | |
| `OrderPlacementProofs` | about `WsOrderApi` and `OrderBatches` | |
| `VenueClientProofs` | about `OrderLife`, `FuturesAccount` and `Connection` | |
| `MarketDataProofs` | about `MarketStream`, `OrderBook` and `MarketReads` | |
| `PaperProofs` | about `PaperExchange` and `Bindings` | |
| `SumTheorems` | what sums and folds are, for the other proofs | |

Definitions named `X_Fault` (or `MayRepeat_Always` and the like) are the
definition `X` with a plausible fault in the code. They are used by no
specification: each property has been tested by putting one in the place of `X`
and watching TLC find the property violated (`mutants` in `PROJECT.json`).

## 3. Runs

All pass unless marked. State counts are distinct states.

| Run | Shows | Bounds, and why they are enough |
|---|---|---|
| `throttle` | `NoDoubleExecution`, `DefiniteAnswerIsTrue`, `SlidingBudget`, refinement of `OrderOutcome`, `CallsReturn` | a write and a read, one repeat each, capacity 2, window 2, weights that fill the budget or never fit it: callers wait for, roll and outlive each other's windows, and a request nothing can admit falls through. All but `CallsReturn` is proved for all values |
| `nonce` | `StampsAreTimely`, `AnswersAreTold`, `RefusedNoncesWereOvertaken` | two interchangeable threads over the eleven ways to sign, a client without its key and one without a route; a local clock behind or ahead, seconds of two milliseconds, two nonces or two other requests, a clock of three readings: a sync, a race for a nonce, a repeat and an overtaking fit. 1.1M states. All three are proved for all values |
| `orders` | `StopsProtect`, `LimitsKeepTheirTerms`, `PathsAgree`, `OrdersActOnTheirSide` | every request (and invalid ones), every language, every path, every client; positions of two and one beside an order of one, so that what was read is larger or smaller than what is there. 248k states. All four are proved for all values |
| `life` | `ShownIsTrue`, `BalancesTellHeld`, `OutcomesAreTrue`, `NeverOverfilled`, `HandlesAreTold`; `PositionsAreTrue`, `OrdersRunOnTheTerms`; `ContactsAreAsAsked` | two orders, one of which can be partly filled, and the one that may take its place; two calls, two unread frames. Two leverages and Gate's zero, three tasks. Every venue, market, network and door in each language, and options that do not exist. 2.6M states. All are proved for all values |
| `calls` | `BookIsVenueBook`, `NoSilentDrift`, `GapsAreReal`, for a client that passes ids on; `HistoryIsTrue`, `ReadsAreTrue`; `AnswersAreReal`; `ResultsAreTrue` | two levels, quantities 0 to 2, five updates: a diff can overlap, touch and skip the snapshot, and a level vanish and return. Intervals with and without a word at the venue, four periods, two trades, two reads: an answer that ends in a candle not over yet, and one after it. Four socket requests of each of the three kinds of venue: two calls give up and a third is answered late, and a token expires with frames queued. Two batches side by side of every profile, of one or two orders, with ids repeated within a batch and across, unnamed and inexpressible orders. 441k states. All are proved for all values |
| `feeds` | `EventsAreTrue`, `FeedsResume`, `PingsAreAnswered`, `TickStays` | eighteen clients, two symbols, two subscriptions, two frames, two troubles: a second subscription that fails half way, a reopened socket that is lost again. 1.1M states. All are proved for all values |
| `stream` | `FramesInOrder`, `GapsAreAnnounced`, `LiveStreamIsSubscribed`, `DropsAreNoticed` | two public channels and the private stream, two frames each, two connections each: a drop falls between any two steps of a poll or a subscribe. The safety results are proved for all values |
| `recovery` (violated) | `StreamRecovers`, see section 6 | one frame |
| `batch_denials` (violated) | `OutcomesAreTheirOwn`, see section 6 | one batch of Bitget's, with an unnamed order |
| `ticker_volume` (violated) | `VolumesAreOfTheBase`, see section 6 | HTX, one trade |
| `book_depth` (violated) | `BooksKeepToDepth`, see section 6 | HTX, one level asked for |
| `paper` | `LockedIsReserved`, `LedgerBalances`, `EventsTellAll`, `CallersKnowTheirOrders`, `ReplayTradesAtShownPrices` | three orders over BTC/USDT and ETH/BTC, where BTC is one symbol's base and the other's quote; fee and slippage of a tenth; a request for every case `place_order` tells apart; Rust, Go and Node; two orders in a language other than Rust, a poll buffer of two and a list buffer of one, so that both overflow; a tape of three prices; a switch of one tick. All are proved for all values |

Deadlock is checked in `throttle`, `nonce`, `paper`, `stream` and `recovery`,
whose programs can always take another step. It is not in the others: there the
caller stops after its last bounded call.

Where a property leaves a client out, the module says so beside it, and section
6 says why.

## 4. Fairness

Three runs use it.

- `throttle` (`CallsReturn`): weak fairness of each call's own step and of
  time. A thread inside `execute` runs, and its wait for an answer ends because
  the HTTP client has a timeout (`net.rs:38`). Nothing is assumed of the venue,
  of the wire or of when calls begin.
- `stream` and `recovery` (`DropsAreNoticed`, `StreamRecovers`): weak fairness
  of the steps of a poll, that is, the caller keeps polling, as the pull
  interface requires of it; and strong fairness of the step that opens a
  connection, that is, connecting is not refused for ever. `StreamRecovers`
  is violated in spite of both.

## 5. Proofs

All with Z3, Zenon and LS4, for every value of the constants under the modules'
named assumptions. These type the constants (`LimiterAssumption`,
`CallsAssumption`, `BookAssumption`, `NonceAssumption`, `SigningAssumption`,
`StreamAssumption`, `RequestAssumption`, `BatchAssumption`, `LifeAssumption`,
`AccountAssumption`, `ConnectionAssumption`, `PaperAssumption`,
`BindingAssumption`, `ClientAssumption`, `ReadAssumption`, `FeedsAssumption`)
and say what a client of the library can be: Coinbase and Upbit serve spot only.
Beyond that `ReadAssumption` has less than a thousand trades, so that a candle's
last one, Upbit's stamp, is within its period; `FeedsAssumption` wants symbols
that are none of the module's own words; `LifeAssumption` an account that can
pay for its orders; `PaperAssumption` fees and slippage of at most the whole.
`NoOverflow` (the u32 sum in the limiter) is not needed by any proof.

**`SumTheorems`.** Charges, reservations and ledgers are sums over sets and
lists, which the community modules define by recursive functions. That such a
function exists takes an induction, and no operator may be its parameter: it is
stated over sets (`InductionOverNat`, from < being well founded) and lifted to
the tables of a fold (`FoldsExist`), to sums (`SumSplit`: any element may be
taken away first) and to what goes through a list step by step (`StepsExist`,
`UpTo`). The proofs about `FoldLeft`, `CHOOSE` of an order and `Reverse` below
use these.

**`TransportProofs`, the retrying transport.** `TypeCorrect`; `AtMostOnce` (a
write is carried out at most once); `DefiniteAnswers`; `BudgetHolds`;
`Refinement` (the layer implements `OrderOutcome`). None of them is inductive:
an effect may come from a copy nobody waits for. `WriteInv` says what holds of
a write before, during and after its last send: *untouched* (no effect, no
copy, no stray), *one copy out* (the one waited for), *settled* (an effect and
strays that make one at most, and none of either after a refusal). A write is
untouched again before it is repeated because it is repeated only after a
refusal. With the types, each action is one case; the refinement maps the
returning steps to `Tell`, the venue's to `CarryOut`, and all others to a
stutter. For the budget, `BudgetInv` relates the charge of the window in force
to the last `Age + 1` entries of what was admitted, and everything within the
window's length to one capacity more: an interval meets two windows at most.

**`TransportProofs`, the feeds.** `FeedsFit`, `FeedsAreTold`, `FeedsComeBack`,
`NoPongIsOwed`, `TicksStay`. A lemma for each client and market
(`BinanceFramesAreTrue` and so on) says that its parser tells a frame as what
happened, for whatever the program asked; they are stated in one vocabulary, of
quotes, trades and the parts of a frame. What makes it inductive is that
everything a socket carries is known to the tables its frames are read with
(`TablesFit`, `PublicFits`), so that a frame in the queue resolves to its own
symbol when a later poll reads it; tables only grow. `PolledFits` keeps what
was granted on the socket that a poll opened; `PingsFit` counts what waits.
`TickFits` says which prices a tick can have: HTX and OKX give no index with a
mark, so theirs is never buildable. A poll folds any number of frames into the
tick, which `TalesStay` follows.

**`MarketDataProofs`, the streams.** `TypeCorrect`, `FramesStayInOrder`,
`EveryGapIsAnnounced` and `LiveStreamStaysSubscribed`, for any channels,
frames and connections. None of them is inductive: a poll that finds the channel
of a dropped connection empty may replace it only because the client learns of
the drop after the last frame, and a frame may be told only because every
connection but the one held was announced before. `StreamInv` says both of one
stream at a time, and gives the frames that wait their numbers: those after the
last one delivered, up to the last received, all of the connection held.

**`MarketDataProofs`, the book.** `BookTypeCorrect` for every numbering; for a
client that passes the venue's ids on (`Numbering = "range"`), `BookCorrect`,
`NeverDrifts` and `GapsMeanMissingDiffs`. The inductive invariant adds two
facts. `Continuity`: a level that differs between two of the
venue's ladders was changed by an update in between; it is kept as the venue
updates, which saves an induction over each diff. `Synced`: an initialized
ladder is the venue's at its last id, and the builder has seen exactly the
updates up to it. The main lemma, `ApplyCatchesUp`, says that absolute
quantities make an overlapping diff harmless: applied to a ladder that has
everything before the diff, it gives the ladder after it.

**`MarketDataProofs`, the reads.** `HistoryOfMarket` and `FiguresAreTrue`.
`RowsAreRead` is the ten venues' layouts, undone: whatever window an answer is
of, its rows become the market's candles, oldest first. A history stays that of
the market because candles that are over never change (`SeriesGrows`), and the
place where an answer is joined exists (`ThereIsACut`, with `UpTo`) and loses
nothing (`KeptFits`). Tickers, books, ratios and open interest have a lemma per
venue; a read of two requests remembers a moment of the market
(`ReadingFits`).

**`SignedRequestsProofs`.** Of the generator: `StrictlyIncreasing`,
`RealTimeOrder` and `NotBehindClock`, for any number of threads and any
behaviour of the clock and the offset. They are inductive together with
`LastBounds`: `last` bounds every nonce issued and every `floor` a call started
from. A compare-exchange that succeeds found `last` unchanged, so `prev + 1` is
above them all.

Of the client that signs: `RefusedOnlyWhenOvertaken`, that a venue
refuses a nonce only because one that another thread drew later came first,
for any number of threads and requests, any clocks, and though a request that
was refused for its rate is sent again as it was signed. The invariant
`NonceInv` is the generator's, with the types and five facts: a thread draws
only in a call (`DrawnInCall`), no stamp under way is beyond `last` and no two
are equal (`StampsDiffer`), what is still to be judged was not taken
(`NotYetTaken`), nor was what may be sent again (`RepeatsAreNew`), and the
theorem's own. The repeat is where it is needed: it is safe because only an
answer that took nothing is repeated. `NoncesOfTheClientIncrease` carries the
generator's result over to this system.

`StampsCarryVenueTime` needs what relates the two clocks and the offset at each
step of a sync: a reading taken before the request is no later than the venue's
reading, which is no later than now, and all three are known only up to the
unit that the venue and the stamp use. `AnswersMeanWhatTheySay` is a case for
each way to unwrap an answer, with one lemma per client; what makes it
inductive is that a call keeps the answer it was given until it is told.

**`OrderEntryProofs`.** `EntryInvariant`, `StopsAlwaysProtect`, `TermsSurvive`,
`PathsNeverDrift` and `OrdersNeverCross`. `LanguagesAgree` says that the
languages put a request in the same words; then there is a lemma for each of the
ten clients (`BinanceSays` and so on), in one vocabulary: `Says` is what an
order on the wire tells of a request, `Agrees` that two differ by a generated
name at most. `EntryInv` only remembers where an order on its way comes from,
and that the order of `close_position` is for a position that was there.
`ExecutedHolds` is what an execution does to an account, for positions and
quantities of any size.

**`OrderPlacementProofs`, the socket.** `TypeCorrect` and `WsAnswersAreReal`.
How far answers fall behind is a count of frames on their way, queued, sent and
answered, and each call that gives up leaves at most one more.

**`OrderPlacementProofs`, the batches.** `BatchResultsAreTrue`, for any calls
side by side and batches of any length, also such that repeat a client id. The
result alone says nothing of the request that a call waits for, nor of those it
has given up and that still travel. The invariant adds that an order is at the
venue or travels only while its call waits for it, or once something was told
of it or the call gave up (`Quiet`); that of the orders waited for nothing
travels once the answer is there, which says which were created (`Pending`);
and, for the client that looks answers up by client id, whose ids its orders
carry (`IdsFit`), which needs the cardinality of the unnamed orders before one.

**`VenueClientProofs`, the orders.** `ViewsAreTrue`, `AmendsNeverOverfill`,
`LiveOrdersAreTold`, `CallsTellTheTruth` and `BalancesAreSplit`, for the ten
clients, any two quantities and any number of calls and unread frames. A table
for each venue says what its words become (`BinanceTable` and so on), and
`QueryIsTrue` and `UpdateIsTrue` conclude that any order a client can be told
of is shown truly. The rest is time. What was shown must stay true: `Later`
says what no step takes from an order (what was filled, that it is ending, that
it ended), and `ViewsTrue` asks the same of every frame nobody has read. An
order that was replaced must stay cancelled, or its fills would count twice
(`ReplacedFit`). A handle that nobody was told must wait in a frame (`Told`).
And what a call has reached is known at each of its requests, also when the
answer of the second is lost (`AmendFits`, `CancelFits`); the shape of the
requests is proved once for the ten clients (`RequestsFit`). Balances are sums
over the open orders: `BalancesSplit` and `UpdatesSplit` say how each client
splits them.

**`VenueClientProofs`, the account and the contacts.** `OrdersKeepTheTerms`,
`PositionsTellTheTruth`, `ContactsAreThoseAskedFor`. The account's invariant
relates four things that change at different steps of a setter: what was read
before it (`TaskFits`), the venue's terms and the client's (`TermsFit`), and
what the program was told (`SaidFits`, which also says what it will be told once
the answer is read). Positions come out of lists chosen by a condition, whose
places `PlacesAre` gives. The contacts follow from how a program's options
become a client (`OptionsPass`, `BuildsIt`), kept by `LinkInv`.

**`PaperProofs`.** `LocksAreReservations`, `NoMoneyAppears`,
`NothingGoesUntold`, `OrdersAreKnown` and `ReplaysKeepTheirPlace`, for any
orders, languages and buffers. `PaperInv` is stated of an account record, so
that the loop of `cancel_all` keeps it from one order to the next: the ledger
(sums over orders), and the story that events tell. That all is told
(`EventsTellAll`) is not inductive alone: a word about an order may be out of
date, but then a later one follows (`WordsFit`), and what a client knew before
the pending events is still so of what they do not mention (`KnowsOrders`,
`KnowsTotal`). Of a caller behind a buffer the same holds unless a poll filled
it (`Current`).

Model-checked only: liveness (`CallsReturn`, `DropsAreNoticed`), which is out of
the prover's reach, as is ENABLED. Every safety property that a passing run
checks is also a theorem. The four properties that the code violates have runs
only.

## 6. What the runs found

Four runs state what the documentation says and are violated by what the code
does:

1. `recovery`: after a reconnect that failed, the public stream's connection is
   `None`, and `reconnect_if_dropped` looks only at connections that are
   `Some` and closed (`wsutil.rs:35`). "The next poll retries"
   (`wsutil.rs:26-27`) does not happen.
2. `batch_denials`: Bitget's `place_batch` looks the answer to an unnamed order
   up under a client id it draws afresh (`bitget.rs:1650`), and reports an
   accepted order as rejected. The same property fails at Bitget for a batch
   that holds a client id twice: of the two orders the venue creates one, and
   the lookup by id (`bitget.rs:1637-1651`) reports both as placed.
   `ResultsAreTrue` says what is left: one of them is there.
3. `ticker_volume`: HTX's ticker reads its volume from `vol` (`htx.rs:344`),
   which is the turnover on spot and a number of contracts on swaps, where
   `types.rs:326` says "Rolling base-asset volume". The base volume is
   `amount`, which the client's candles read (`htx.rs:1721`); the tests' own
   payloads show the sizes of both (`htx.rs:3168-3169`, `htx.rs:3377`).
4. `book_depth`: HTX's `order_book` ignores its depth (`htx.rs:394`), and so do
   KuCoin's, Upbit's and Kraken Futures', where `traits.rs:42` and `htx.rs:390`
   say "up to `depth` levels per side". `ReadsAreTrue` holds the other clients
   to it.

Modelled as the code has them, and left out of a property by name where they
would violate it:

- **Books.** OKX and Bitget number diffs by their timestamp, so every diff is a
  gap to the builder (`okx.rs:1494`). Kraken and Coinbase leave the ids zero,
  so every diff is stale and the ladder stays at its snapshot (`kraken.rs:2421`).
  Gate and KuCoin give the last id only. Gate's spot snapshot, and Bitget's and
  OKX's, carry a millisecond clock as their id (`gate.rs:343`).
- **WebSocket orders.** Bybit, OKX and Gate read once for the login's answer
  with a `recv` that does not wait; it is still on its way, the first request
  gets it, and every later request the answer before its own. The same happens
  on all five venues after a call that gave up: `AnswersAreReal` says how far
  it can go.
- **Streams.** The futures streams of Gate, HTX, Kraken and KuCoin are
  reopened on the spot host; HTX's notification socket is never reopened;
  Coinbase's replayed tokens have expired by then; KuCoin's funding prints set
  the mark to zero (`kucoin.rs:1151`).
- **Order entry.** A futures client's batches go to the spot endpoint at Gate
  and Kraken when they are placed, and at Gate and HTX when they are cancelled
  (`htx.rs:2400` refuses to place one of swaps). Gate Futures' trigger orders do not say that they
  reduce. OKX's bracket carries no `reduceOnly` on a one-way swap account,
  though `okx.rs:1967-1968` says "a bracket is always one". KuCoin's bracket
  goes to the spot endpoint for a futures client, too, and its stop leg without
  a limit price becomes a limit order at the stop price, where `types.rs:354`
  says a stop-market leg. KuCoin's trigger is `loss` for a sell and `entry` for a
  buy (`kucoin.rs:673-675`), which are the adverse moves of each; the comment at
  `kucoin.rs:661-664` says that `loss` fires "up for a buy", too.
- **Statuses and balances.** HTX's swap numbers are read by two tables that
  differ (`htx.rs:1768`, `htx.rs:2048`). The balance streams of Kraken, Binance
  Futures and Gate Futures say the total only.
- **Cancel and amend.** Several venues refuse a cancellation in the body of a
  success, which no client reads, so that `cancel_batch` returns Ok
  (`bitget.rs:1704`). Binance spot's amend buys again what was filled. An amend
  that succeeded is told as failed when the query after it is.
- **Options.** `testnet: true` is honoured by Binance and Bybit, in their hosts,
  and by OKX, in its sockets and in a header of signed requests (`okx.rs:1085`);
  its public requests, and all of the other seven clients, address the one
  network there is, though `options.rs:83` promises a testnet. The factory lets
  the coin-margined markets of Bybit and OKX through, whose clients then refuse
  them. C's unknown position codes mean one way. Where Go, R, Node and Python
  take no modes, the defaults are used; C and C# pass all of them.
- **Futures terms.** HTX, Gate and Kraken keep a leverage that the venue
  refused. On a flat account Bybit's `set_margin_mode` sets a leverage of 10
  and OKX's one of 3; OKX's `set_leverage` then applies to cross. Each setter
  preserves the other's term, says `DERIVATIVES.md:56-57`.
- **Reads.** KuCoin's linear reads take spot paths to the futures host. Candles
  are stamped in the venue's unit, seconds at Coinbase, Gate, HTX, Kraken and
  KuCoin, and with the last trade at Upbit. An interval the venue has no word for is served hourly by
  Coinbase, Kraken and Upbit, where `traits.rs:39` promises an error; Kraken and
  KuCoin ignore `limit`. The tickers of Binance Futures and Gate Futures are
  made of two requests, the price of one moment and the quote of a later one.
  Open interest is in contracts at Gate and HTX. Gate's `contract_stats` path
  (`gate.rs:471`) lacks the prefix of its other paths.
- **Answers.** HTX's second envelope names no refusal; KuCoin and Kraken
  Futures do not attribute a gateway's page to its status; an overtaken nonce
  is told as a bad key by Kraken. `clock.rs:28-29` speaks of the local time at
  which the venue reported, and the clients pass the one before the request.
- **Bindings.** A C or Wasm poll drains everything and drops what does not fit,
  where `bindings/go/wickra.go:470` says up to the capacity per call. C's
  orders have no market and no client id, and its events no locked balances.
  `wickra_advanced_place_batch` returns how many results there are
  (`bindings/c/src/lib.rs:1863`), not how many fit. R's `wkex_place_limit`
  without a price places a market order.

## 7. Not modelled, and why

Instrument filters are decimal arithmetic of one call. Symbols, number
formatting, URL building and the rest of parsing are functions of one request
or frame: a market is a model value, and an amount is a small number or none.
Credentials, signatures (but for their time and their keys) and the
observability record have no protocol. Of the bindings, handles, strings and
plain forwarding are left out. Benchmarks, fuzz targets, examples, scripts and
the golden corpus are tooling. `server_time` is part of `sync_time`; option
chains, instrument lists and `set_position_mode` are not actions, the last a
constant of the order entry. u32 overflow of the budget is excluded by an
assumption. A replayed frame is a trade. In `VenueFeeds` a poll is one step,
and prices and quantities are left out of frames but for which are there; what
a venue answers to a login frame is left out, too. Several clients' id seeds
(`bitget.rs:165`) and a limiter whose cool-off is shortened
(`ratelimiter.rs:53`) have no property, see the hazards.

## 8. What is left

The components marked `partly` in `PROJECT.json` lack the operations that their
notes name: `set_position_mode` while orders are on their way, option chains and
instrument lists, what a venue answers to the login frame of a private stream,
and the handles of the bindings. Several hazards are bounded or disclosed rather
than forbidden, because the code has them: the late answers of the socket order
APIs, Binance spot's amend, the resumed hosts of four swap streams and the
channels that a failed reconnect leaves behind. Were the code to change there,
the exclusions named in the properties should be dropped first.
