---------------------------- MODULE MCVenueFeeds ----------------------------
(***************************************************************************)
(* The ten venues' clients, spot and swaps, for TLC.                       *)
(***************************************************************************)
EXTENDS VenueFeeds

Traded == {"binance", "bitget", "bybit", "gate", "htx", "kraken", "kucoin", "okx"}
MCClients ==
  [venue : Traded, market : {"spot", "linear"}] \cup [venue : {"coinbase", "upbit"}, market : {"spot"}]
=============================================================================
