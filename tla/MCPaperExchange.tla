-------------------------- MODULE MCPaperExchange ---------------------------
(***************************************************************************)
(* Two symbols that share an asset, which one quotes in and the other      *)
(* trades: BTC is the base of BTC/USDT and the quote of ETH/BTC.  Fees and *)
(* slippage are a tenth each.  The plain Rust caller has every freedom;    *)
(* the others place fewer orders.                                          *)
(***************************************************************************)
EXTENDS Bindings

CONSTANTS BTC_USDT, ETH_BTC, BTC, ETH, USDT

MCBaseOf(s) == IF s = BTC_USDT THEN BTC ELSE ETH
MCQuoteOf(s) == IF s = BTC_USDT THEN USDT ELSE BTC

MCRequest(s, sd, t, q, p, po) ==
  [symbol |-> s, side |-> sd, type |-> t, qty |-> q, price |-> p, postOnly |-> po]

MCRequests ==
  LET Both(t, q, p, po) == {MCRequest(s, sd, t, q, p, po) : s \in Symbols, sd \in {"buy", "sell"}}
      Limits(s) == {MCRequest(s, "buy", "limit", 1, 1, FALSE), MCRequest(s, "sell", "limit", 1, 2, FALSE)}
  IN  UNION {Both("market", 1, NoPrice, FALSE), Limits(BTC_USDT), Limits(ETH_BTC)}
      \cup {MCRequest(BTC_USDT, "buy", "limit", 1, 2, FALSE),
            MCRequest(ETH_BTC, "sell", "limit", 1, 1, FALSE),
            MCRequest(BTC_USDT, "buy", "limit", 1, 1, TRUE),
            MCRequest(ETH_BTC, "sell", "limit", 1, 2, TRUE),
            MCRequest(BTC_USDT, "buy", "market", 0, NoPrice, FALSE),
            MCRequest(BTC_USDT, "buy", "limit", 1, NoPrice, FALSE),
            MCRequest(BTC_USDT, "buy", "stop", 1, 1, FALSE)}

MCHost(language, backend, watched) ==
  [language |-> language, backend |-> backend, watched |-> watched]

MCHosts ==
  {MCHost(l, b, FALSE) : l \in {"rust", "go", "node"}, b \in {"paper", "replay"}}
    \cup {MCHost("rust", "paper", TRUE)}

MCTape == <<2, 1, 2>>
============================================================================
