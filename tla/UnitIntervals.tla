---------------------------- MODULE UnitIntervals ----------------------------
(***************************************************************************)
(* The pricing and the availability history of one Unit, as half-open      *)
(* intervals of the database's clock.  Every command that writes them has  *)
(* locked the Unit's row first, so each is one step.  The other modules    *)
(* know these histories by what applies when a command is given.           *)
(*                                                                         *)
(* The exclusion constraints unit_pricing_no_overlap and                   *)
(* unit_availability_no_overlap and the trigger                            *)
(* enforce_rental_inventory_interval_mutation are not guards here:         *)
(* AtMostOneApplies and HistoryOnlyCloses say that they never have         *)
(* anything to refuse.                                                     *)
(*                                                                         *)
(* Source: src/infra/postgres/migrations/0001_baseline.sql                 *)
(***************************************************************************)
EXTENDS Naturals

CONSTANTS
    Amounts,        \* the prices that may be set
    MaxTime         \* a bound of the model on the clock and the dates given

ASSUME TimeAssumption == MaxTime \in Nat \ {0}

VARIABLES
    now,            \* the clock, in microseconds
    prices, offers, \* the rows of app.unit_pricing_versions and
                    \* app.unit_availability_versions
    shown,          \* units.availability_status
    archived        \* whether units.archived_at is set

vars == <<now, prices, offers, shown, archived>>

Times == 0..MaxTime
Statuses == {"unavailable", "available"}

\* effective_to is null.  The archive may close an interval one microsecond
\* after the last date that can be given.
Forever == MaxTime + 2

Versions(Values) == [from : Times, to : 1..Forever, value : Values]

TypeOK ==
    /\ now \in Times
    /\ prices \in SUBSET Versions(Amounts)
    /\ offers \in SUBSET Versions(Statuses)
    /\ shown \in Statuses
    /\ archived \in BOOLEAN

\* The interval holds the instant; the read that publications, reviews and the
\* public list share.
Applies(v, t) == v.from <= t /\ t < v.to

\* The check constraints on effective_from and effective_to.
WellFormed(history) == \A v \in history : v.from < v.to

\* create_rental_property and add_rental_unit.
Init ==
    /\ now = 1
    /\ prices = {}
    /\ offers = {[from |-> 1, to |-> Forever, value |-> "unavailable"]}
    /\ shown = "unavailable"
    /\ archived = FALSE

------------------------------------------------------------------------------

Tick ==
    /\ now < MaxTime
    /\ now' = now + 1
    /\ UNCHANGED <<prices, offers, shown, archived>>

\* Mutant: an interval that has not begun is left open.
CloseBegun(history, at) ==
    {IF v.to = Forever /\ v.from <= now THEN [v EXCEPT !.to = at] ELSE v : v \in history}

\* UPDATE ... SET effective_to = ... WHERE effective_to IS NULL.
Close(history, at) ==
    {IF v.to = Forever THEN [v EXCEPT !.to = at] ELSE v : v \in history}

\* Mutant: the open interval ends when the command is given.
ReplaceAtOnce(history, from, value) ==
    Close(history, now) \union {[from |-> from, to |-> Forever, value |-> value]}

\* Mutant: what the new version supersedes is taken out.
ReplaceLater(history, from, value) ==
    {v \in Close(history, from) : v.from < from}
        \union {[from |-> from, to |-> Forever, value |-> value]}

\* The open interval ends where the new one begins, in the past or the future,
\* wherever the client wants it.
Replace(history, from, value) ==
    Close(history, from) \union {[from |-> from, to |-> Forever, value |-> value]}

SetPricing(from, amount) ==
    /\ ~archived
    /\ WellFormed(Replace(prices, from, amount))
    /\ prices' = Replace(prices, from, amount)
    /\ UNCHANGED <<now, offers, shown, archived>>

\* The cached column takes the requested status at once, whatever the date.
SetAvailability(from, status) ==
    /\ ~archived
    /\ WellFormed(Replace(offers, from, status))
    /\ offers' = Replace(offers, from, status)
    /\ shown' = status
    /\ UNCHANGED <<now, prices, archived>>

\* Mutant: an interval that has not begun is left for its own time.
ClosedForGoodIfBegun ==
    {IF v.to = Forever /\ v.from <= now THEN [v EXCEPT !.to = now] ELSE v : v \in offers}

\* archive_rental_unit and archive_rental_property: an open interval ends now,
\* or one microsecond after its beginning if that is still to come.
ClosedForGood ==
    {IF v.to = Forever THEN [v EXCEPT !.to = IF v.from > now THEN v.from + 1 ELSE now]
                       ELSE v : v \in offers}

\* Mutant: the status that publication_status gets.
ArchiveAsStatus ==
    /\ ~archived
    /\ WellFormed(ClosedForGood)
    /\ offers' = ClosedForGood
    /\ archived' = TRUE
    /\ shown' = "archived"
    /\ UNCHANGED <<now, prices>>

Archive ==
    /\ ~archived
    /\ WellFormed(ClosedForGood)
    /\ offers' = ClosedForGood
    /\ archived' = TRUE
    /\ UNCHANGED <<now, prices, shown>>

Next ==
    \/ Tick
    \/ \E from \in Times :
          \/ \E amount \in Amounts : SetPricing(from, amount)
          \/ \E status \in Statuses : SetAvailability(from, status)
    \/ Archive

Spec == Init /\ [][Next]_vars

------------------------------------------------------------------------------

AtMostOne(history) ==
    \A v, w \in history : \A t \in 0..Forever : Applies(v, t) /\ Applies(w, t) => v = w

\* At no instant, past or to come, do two prices or two availabilities apply,
\* whatever dates were asked for in whatever order, before and after the
\* archive: the reads' LIMIT 1 never has a choice.
AtMostOneApplies == AtMostOne(prices) /\ AtMostOne(offers)

NoGap(history) ==
    \A t \in Times : (\E v \in history : v.from <= t) => \E v \in history : Applies(v, t)

\* From its first version on, a live Unit has an availability and, once priced,
\* a price at every instant, so a change of date never takes a listing's price
\* away; prices keep this after the archive.
NothingLapses == NoGap(prices) /\ (archived \/ NoGap(offers))

\* An archived Unit has no open availability, not even one that had not begun.
ArchiveClosesOffers == archived => \A v \in offers : v.to # Forever

\* A version once recorded keeps its date and its value, and its end once it has
\* one: PROP-013, and what the history triggers enforce.
OnlyCloses(old, new) ==
    \A v \in old : v \in new \/ (v.to = Forever /\ \E end \in Times \union {MaxTime + 1} :
                                                      [v EXCEPT !.to = end] \in new)

HistoryOnlyCloses == [][OnlyCloses(prices, prices') /\ OnlyCloses(offers, offers')]_vars

\* The requirement: "the derived current status is `occupied` whenever an
\* occupancy applies, otherwise the Unit interval applies".  The column is
\* written when an availability is set, not when it begins: this does not hold,
\* and no run lists it.
ShownStatusApplies ==
    ~archived => \A v \in offers : Applies(v, now) => v.value = shown
==============================================================================
