---------------------------- MODULE MCVenueClient ----------------------------
(***************************************************************************)
(* Three machines of a venue's client for TLC, in one run: the orders it   *)
(* manages, the terms of its futures account, and how it is opened.  They  *)
(* share no state, so that the behaviours of the run are those of each     *)
(* while the others rest; every venue and market has its clients.          *)
(***************************************************************************)
EXTENDS OrderLife, FuturesAccount, Connection

Venues == {"binance", "bitget", "bybit", "coinbase", "gate", "htx", "kraken", "kucoin", "okx", "upbit"}

\* Coinbase and Upbit serve spot only; Bitget, Bybit and OKX say the same of
\* orders in both markets, so that one client stands for both.
MCClients == {c \in [venue : Venues, market : {"spot", "linear"}] :
                c.venue \in {"coinbase", "upbit", "bitget", "bybit", "okx"} => c.market = "spot"}

MCTraders == Venues \ {"coinbase", "upbit"}

\* The margin and the position mode take separate ways to the client.
MCPrograms == {a \in Asked : <<a.margin, a.position>> \in
                 {<<"cross", "one_way">>, <<"isolated", "hedge">>, <<"other", "one_way">>, <<"cross", "other">>}}

NobodysProgram == [language |-> "none"]

MCQuantity == <<2, 1>>

NobodysClient == [venue |-> "none", market |-> "none"]

OrdersRest ==
  /\ client = NobodysClient
  /\ orders = [h \in Handles |-> NoOrder] /\ call = NoCall /\ calls = MaxCalls
  /\ known = {} /\ seen = [h \in Handles |-> NoView] /\ frames = <<>> /\ money = NoMoney

AccountRests ==
  /\ trader = "none" /\ hedged = FALSE /\ legs = [side \in Sides |-> 0]
  /\ kept = [leverage |-> 1, mode |-> "cross"]
  /\ terms = [mode |-> "cross", leverage |-> [m \in Modes |-> VenueDefault]]
  /\ said = Unsaid /\ task = NoTask /\ tasks = MaxTasks /\ shown = NotShown /\ ran = NoRun

LinkRests ==
  /\ asked = NobodysProgram /\ linked = NotYet
  /\ stream = "none" /\ contact = NoContact

ClientInit ==
  \/ Init /\ AccountRests /\ LinkRests
  \/ OrdersRest /\ AccountInit /\ LinkRests
  \/ OrdersRest /\ AccountRests /\ LinkInit

ClientNext ==
  \/ client # NobodysClient /\ Next /\ UNCHANGED <<accountVars, linkVars>>
  \/ trader # "none" /\ AccountNext /\ UNCHANGED <<vars, linkVars>>
  \/ asked # NobodysProgram /\ LinkNext /\ UNCHANGED <<vars, accountVars>>

ClientSpec == ClientInit /\ [][ClientNext]_<<vars, accountVars, linkVars>>
=============================================================================
