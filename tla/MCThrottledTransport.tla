------------------------ MODULE MCThrottledTransport ------------------------
(***************************************************************************)
(* Two concurrent calls, a write and a read, with one repeat each.  A      *)
(* request fills the budget (weight 2) or never fits it (weight 3), so     *)
(* callers wait for each other's windows, and one nothing can admit is let *)
(* through uncharged in the end.                                           *)
(***************************************************************************)
EXTENDS ThrottledTransport

CONSTANTS post, get

MCCalls == {post, get}
MCGets == {get}
MCDelayMs(i) == 1
=============================================================================
