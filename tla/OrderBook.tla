----------------------------- MODULE OrderBook -----------------------------
(***************************************************************************)
(* The local ladder of `OrderBookBuilder` (orderbook.rs), fed with the     *)
(* snapshots and diffs the venue clients parse.  The venue numbers every   *)
(* change of its ladder; its messages reach the builder late, twice, out   *)
(* of order or never (a dropped stream, a snapshot fetched over REST while *)
(* diffs arrive), and each client stamps them with the ids its `Numbering` *)
(* stands for.                                                             *)
(*                                                                         *)
(* A price level is a member of Levels, of either side; a frame's          *)
(* timestamp travels with its update id and is left out.                   *)
(*                                                                         *)
(* A definition named X_Fault precedes X and is X with a plausible fault   *)
(* in the code: the properties are tested with it.                         *)
(***************************************************************************)
EXTENDS Naturals, Sequences

CONSTANTS Levels,      \* price levels, bids and asks
          Quantities,  \* quantities of a level, 0 when there is none
          MaxUpdates,  \* changes the venue makes to its ladder, at most
          Numbering    \* how the venue's client fills the update ids

ASSUME BookAssumption ==
  /\ Quantities \subseteq Nat
  /\ 0 \in Quantities
  /\ MaxUpdates \in Nat \ {0}
  /\ Numbering \in {"range", "last", "clock", "none"}

VARIABLES venue,           \* the venue's ladder after each of its updates
          levels,          \* the builder's `bids` and `asks`
          last_update_id,
          initialized,
          seen             \* updates the builder was given since it last
                           \* reported that it needs a snapshot

bookVars == <<venue, levels, last_update_id, initialized, seen>>

(***************************************************************************)
(* The ids a client puts on a diff of updates f to l, and on a snapshot    *)
(* taken after update l: both ends of the venue's range, the last id only, *)
(* the venue's clock in milliseconds, or nothing.                          *)
(***************************************************************************)
Milliseconds(i) == 10 * i

RangeIds(f, l) == [first |-> f, final |-> l]
LastIds(f, l) == [first |-> l, final |-> l]
ClockIds(f, l) == [first |-> Milliseconds(l), final |-> Milliseconds(l)]
NoIds(f, l) == [first |-> 0, final |-> 0]

Ids(f, l) ==
  CASE Numbering = "range" -> RangeIds(f, l)
    [] Numbering = "last" -> LastIds(f, l)
    [] Numbering = "clock" -> ClockIds(f, l)
    [] Numbering = "none" -> NoIds(f, l)

FirstId(f, l) == Ids(f, l).first
FinalId(l) == Ids(l, l).final

Visible(ladder) == [k \in {k \in Levels : ladder[k] > 0} |-> ladder[k]]

\* The absolute quantity of every level that updates f to l touched.
Changed(f, l) ==
  [k \in {k \in Levels : \E i \in f..l : venue[i][k] # venue[i - 1][k]}
     |-> venue[l][k]]

\* A level with no quantity is removed, any other inserted or overwritten.
ApplyLevels(side, changes) ==
  [k \in {k \in DOMAIN side \union DOMAIN changes :
            k \in DOMAIN changes => changes[k] > 0}
     |-> IF k \in DOMAIN changes THEN changes[k] ELSE side[k]]

BookInit ==
  /\ venue \in {<<ladder>> : ladder \in [Levels -> Quantities]}
  /\ levels = << >>
  /\ last_update_id = 0
  /\ initialized = FALSE
  /\ seen = {}

VenueUpdates(k, quantity) ==
  /\ Len(venue) < MaxUpdates
  /\ venue[Len(venue)][k] # quantity
  /\ venue' = Append(venue, [venue[Len(venue)] EXCEPT ![k] = quantity])
  /\ UNCHANGED <<levels, last_update_id, initialized, seen>>

Updates == 1..Len(venue)

\* `apply_snapshot` takes any snapshot, an older one as well.
ApplySnapshot(i) ==
  /\ i \in Updates
  /\ levels' = Visible(venue[i])
  /\ last_update_id' = FinalId(i)
  /\ initialized' = TRUE
  /\ seen' = 1..i
  /\ UNCHANGED venue

(***************************************************************************)
(* `apply_delta`, by what it reports of a diff of updates f to l: Stale,   *)
(* Gap or Applied (and Uninitialized, which changes nothing).              *)
(***************************************************************************)
IsDiff(f, l) == 1 < f /\ f <= l /\ l \in Updates
IsStale_OneMore(l) == FinalId(l) <= last_update_id + 1
IsStale(l) == FinalId(l) <= last_update_id
IsGap_OneMore(f, l) == FirstId(f, l) > last_update_id + 2
IsGap_OneLess(f, l) == FirstId(f, l) > last_update_id
IsGap(f, l) == FirstId(f, l) > last_update_id + 1

DeltaStale(f, l) ==
  /\ IsDiff(f, l)
  /\ initialized
  /\ IsStale(l)
  /\ seen' = seen \union f..l
  /\ UNCHANGED <<venue, levels, last_update_id, initialized>>

DeltaGap(f, l) ==
  /\ IsDiff(f, l)
  /\ initialized
  /\ ~IsStale(l)
  /\ IsGap(f, l)
  /\ initialized' = FALSE
  /\ seen' = {}
  /\ UNCHANGED <<venue, levels, last_update_id>>

DeltaApplied(f, l) ==
  /\ IsDiff(f, l)
  /\ initialized
  /\ ~IsStale(l)
  /\ ~IsGap(f, l)
  /\ levels' = ApplyLevels(levels, Changed(f, l))
  /\ last_update_id' = FinalId(l)
  /\ seen' = seen \union f..l
  /\ UNCHANGED <<venue, initialized>>

BookNext ==
  \/ \E k \in Levels, quantity \in Quantities : VenueUpdates(k, quantity)
  \/ \E i \in 1..MaxUpdates : ApplySnapshot(i)
  \/ \E f, l \in 1..MaxUpdates :
       DeltaStale(f, l) \/ DeltaGap(f, l) \/ DeltaApplied(f, l)

BookSpec == BookInit /\ [][BookNext]_bookVars
-----------------------------------------------------------------------------
Ladder == [Levels -> Quantities]

(***************************************************************************)
(* The state has its types; the builder holds no level without quantity,   *)
(* so its best bid and ask are levels somebody quotes.                     *)
(***************************************************************************)
BookTypeOK ==
  /\ venue \in Seq(Ladder) /\ venue # << >> /\ Len(venue) <= MaxUpdates
  /\ DOMAIN levels \subseteq Levels
  /\ \A k \in DOMAIN levels : levels[k] \in Quantities \ {0}
  /\ last_update_id \in Nat
  /\ initialized \in BOOLEAN
  /\ seen \subseteq Updates

(***************************************************************************)
(* An initialized builder holds exactly the ladder the venue had after the *)
(* update it says it has incorporated, whatever diffs and snapshots were   *)
(* lost, repeated, reordered or overlapping on the way.                    *)
(***************************************************************************)
BookIsVenueBook ==
  initialized =>
    /\ last_update_id \in Updates
    /\ levels = Visible(venue[last_update_id])

(***************************************************************************)
(* A builder given every update, that reported no gap since its snapshot,  *)
(* holds the venue's current ladder: it cannot drift silently.             *)
(***************************************************************************)
NoSilentDrift ==
  initialized /\ seen = Updates => levels = Visible(venue[Len(venue)])

(***************************************************************************)
(* A Gap means what `BookUpdate::Gap` says, that a diff is missing: a      *)
(* builder given every earlier update reports none, so a lossless stream   *)
(* is never thrown away for a snapshot.                                    *)
(***************************************************************************)
GapsAreReal ==
  [][\A f, l \in 1..MaxUpdates :
       DeltaGap(f, l) => ~(1..(f - 1) \subseteq seen)]_bookVars
=============================================================================
