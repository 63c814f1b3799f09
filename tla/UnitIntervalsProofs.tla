------------------------ MODULE UnitIntervalsProofs ------------------------
(***************************************************************************)
(* The histories for any prices and any bound on time.  What is proved of  *)
(* one history under Replace and under the archive's closing serves prices *)
(* and availability alike.                                                 *)
(***************************************************************************)
EXTENDS UnitIntervals, TLAPS

Disjoint(history) ==
    \A v, w \in history : v = w \/ v.to <= w.from \/ w.to <= v.from

\* A next version always has an open one to follow, except the very first.
HasOpen(history) == \E v \in history : v.to = Forever

History(history, Values) ==
    /\ history \in SUBSET Versions(Values)
    /\ WellFormed(history)
    /\ Disjoint(history)

(***************************************************************************)
(* The inductive invariant.  That intervals are disjoint does not survive  *)
(* an insertion unless the open interval, which the insertion closes, is   *)
(* the last; it is, because an open interval is disjoint from all others.  *)
(* An archive leaves no open interval, and nothing is inserted after it.   *)
(***************************************************************************)
HistoryInv ==
    /\ now \in Times /\ shown \in Statuses /\ archived \in BOOLEAN
    /\ History(prices, Amounts)
    /\ History(offers, Statuses)
    /\ HasOpen(prices) \/ prices = {}
    /\ archived \/ HasOpen(offers)
    /\ NothingLapses
    /\ ArchiveClosesOffers

\* Dates are numbers before Forever.
LEMMA TimeFacts ==
    /\ Times \subseteq Nat
    /\ Forever \in Nat /\ MaxTime \in Nat
    /\ \A t \in Times : t < Forever /\ t + 1 < Forever
    /\ 1..Forever \subseteq Nat
  BY TimeAssumption DEF Times, Forever

\* Replace closes the open version, the last one, where the new one begins.
LEMMA ReplaceKeepsHistory ==
    ASSUME NEW Values, NEW history, NEW from \in Times, NEW value \in Values,
           History(history, Values), HasOpen(history) \/ history = {},
           WellFormed(Replace(history, from, value))
    PROVE  /\ History(Replace(history, from, value), Values)
           /\ HasOpen(Replace(history, from, value))
<1> DEFINE new == [from |-> from, to |-> Forever, value |-> value]
           Closed(v) == IF v.to = Forever THEN [v EXCEPT !.to = from] ELSE v
<1>0. Replace(history, from, value) = {Closed(v) : v \in history} \union {new}
  BY DEF Replace, Close
<1> HIDE DEF new, Closed
<1>1. new \in Versions(Values) /\ new.from = from /\ new.to = Forever
  BY TimeFacts DEF new, Versions
<1>2. \A v \in history : /\ v.from \in Times /\ v.to \in 1..Forever /\ v.value \in Values
                         /\ v = [from |-> v.from, to |-> v.to, value |-> v.value]
  BY DEF History, Versions
<1>3. \A v \in history : Closed(v).from = v.from
                         /\ Closed(v).to = (IF v.to = Forever THEN from ELSE v.to)
                         /\ Closed(v).value = v.value
  BY <1>2 DEF Closed
<1>4. \A v \in history : Closed(v).from < Closed(v).to
  BY <1>0 DEF WellFormed
<1>5. \A v \in history : Closed(v) \in Versions(Values)
  <2> SUFFICES ASSUME NEW v \in history PROVE Closed(v) \in Versions(Values)
    OBVIOUS
  <2>1. CASE v.to = Forever
    <3>1. from \in 1..Forever
      BY <2>1, <1>2, <1>3, <1>4, TimeFacts
    <3> QED
      BY <2>1, <3>1, <1>2 DEF Closed, Versions
  <2>2. CASE v.to # Forever
    BY <2>2 DEF Closed, History
  <2> QED
    BY <2>1, <2>2
\* Every version of a history with an open one ends where the new one begins,
\* or before.
<1>6. \A v \in history : Closed(v).to <= from
  <2> SUFFICES ASSUME NEW v \in history, v.to # Forever PROVE v.to <= from
    BY <1>3, TimeFacts
  <2>1. PICK open \in history : open.to = Forever
    BY DEF HasOpen
  <2>2. v.to <= open.from
    BY <2>1, <1>2, TimeFacts DEF History, Disjoint
  <2>3. open.from < from
    BY <2>1, <1>3, <1>4
  <2> QED
    BY <2>2, <2>3, <2>1, <1>2, TimeFacts
<1>7. \A v, w \in history : v = w \/ Closed(v).to <= Closed(w).from \/ Closed(w).to <= Closed(v).from
  <2> SUFFICES ASSUME NEW v \in history, NEW w \in history, v # w
               PROVE  Closed(v).to <= Closed(w).from \/ Closed(w).to <= Closed(v).from
    OBVIOUS
  <2>1. v.to <= w.from \/ w.to <= v.from
    BY DEF History, Disjoint
  <2> QED
    BY <2>1, <1>2, <1>3, TimeFacts
<1>8. Disjoint(Replace(history, from, value))
  BY <1>0, <1>1, <1>6, <1>7 DEF Disjoint
<1> QED
  BY <1>0, <1>1, <1>5, <1>8 DEF History, HasOpen

\* Nor does it leave a gap before the new one.
LEMMA ReplaceLeavesNoGap ==
    ASSUME NEW Values, NEW history, NEW from \in Times, NEW value \in Values,
           History(history, Values), NoGap(history)
    PROVE  NoGap(Replace(history, from, value))
<1> DEFINE new == [from |-> from, to |-> Forever, value |-> value]
           Closed(v) == IF v.to = Forever THEN [v EXCEPT !.to = from] ELSE v
           next == Replace(history, from, value)
<1>0. next = {Closed(v) : v \in history} \union {new}
  BY DEF Replace, Close
<1>1. \A v \in history : v.from \in Times /\ v.to \in 1..Forever
  BY DEF History, Versions
<1>2. \A v \in history : Closed(v).from = v.from
                         /\ Closed(v).to = (IF v.to = Forever THEN from ELSE v.to)
  BY DEF History, Versions
<1> SUFFICES ASSUME NEW t \in Times, \E v \in next : v.from <= t
             PROVE  \E v \in next : Applies(v, t)
  BY DEF NoGap
<1>3. CASE from <= t
  <2>1. Applies(new, t)
    BY <1>3, TimeFacts DEF Applies
  <2> QED
    BY <2>1, <1>0
<1>4. CASE t < from
  <2>1. \E v \in history : v.from <= t
    <3>1. new.from = from /\ ~(from <= t)
      BY <1>4, TimeFacts
    <3>2. PICK n \in next : n.from <= t
      OBVIOUS
    <3>3. PICK v \in history : n = Closed(v)
      BY <1>0, <3>1, <3>2
    <3> QED
      BY <1>2, <3>2, <3>3
  <2>2. PICK v \in history : Applies(v, t)
    BY <2>1 DEF NoGap
  <2>3. Applies(Closed(v), t)
    BY <2>2, <1>1, <1>2, <1>4, TimeFacts DEF Applies
  <2> QED
    BY <2>3, <1>0
<1> QED
  BY <1>3, <1>4, TimeFacts

\* It adds one version and closes the open one.
LEMMA ReplaceOnlyCloses ==
    ASSUME NEW history, NEW from \in Times, NEW value
    PROVE  OnlyCloses(history, Replace(history, from, value))
  BY DEF OnlyCloses, Replace, Close

------------------------------------------------------------------------------

\* An archive only closes the open offer.
LEMMA ArchiveKeepsOffers ==
    ASSUME HistoryInv, WellFormed(ClosedForGood)
    PROVE  /\ History(ClosedForGood, Statuses)
           /\ \A v \in ClosedForGood : v.to # Forever
           /\ OnlyCloses(offers, ClosedForGood)
<1> DEFINE End(v) == IF v.from > now THEN v.from + 1 ELSE now
           Closed(v) == IF v.to = Forever THEN [v EXCEPT !.to = End(v)] ELSE v
<1>0. ClosedForGood = {Closed(v) : v \in offers}
  BY DEF ClosedForGood
<1>1. now \in Times /\ \A v \in offers :
         /\ v.from \in Times /\ v.to \in 1..Forever /\ v.value \in Statuses
         /\ v = [from |-> v.from, to |-> v.to, value |-> v.value]
  BY DEF HistoryInv, History, Versions
<1>2. \A v \in offers : /\ End(v) \in Times \union {MaxTime + 1}
                        /\ End(v) < Forever
                        /\ End(v) \in Nat
  BY <1>1, TimeFacts DEF Times
<1> HIDE DEF End
<1>3. \A v \in offers : /\ Closed(v).from = v.from
                        /\ Closed(v).to = (IF v.to = Forever THEN End(v) ELSE v.to)
                        /\ Closed(v).value = v.value
  BY <1>1
<1>4. \A v \in offers : Closed(v).from < Closed(v).to
  BY <1>0 DEF WellFormed
<1>5. \A v \in offers : Closed(v) \in Versions(Statuses)
  <2> SUFFICES ASSUME NEW v \in offers PROVE Closed(v) \in Versions(Statuses)
    OBVIOUS
  <2>1. CASE v.to = Forever
    <3>1. End(v) \in 1..Forever
      BY <2>1, <1>1, <1>2, <1>3, <1>4, TimeFacts
    <3> QED
      BY <2>1, <3>1, <1>1 DEF Versions
  <2>2. CASE v.to # Forever
    BY <2>2 DEF HistoryInv, History
  <2> QED
    BY <2>1, <2>2
<1>6. \A v, w \in offers : v = w \/ Closed(v).to <= Closed(w).from \/ Closed(w).to <= Closed(v).from
  <2> SUFFICES ASSUME NEW v \in offers, NEW w \in offers, v # w
               PROVE  Closed(v).to <= Closed(w).from \/ Closed(w).to <= Closed(v).from
    OBVIOUS
  <2>1. v.to <= w.from \/ w.to <= v.from
    BY DEF HistoryInv, History, Disjoint
  <2> QED
    BY <2>1, <1>1, <1>2, <1>3, TimeFacts
<1>7. Disjoint(ClosedForGood)
  BY <1>0, <1>6 DEF Disjoint
<1>8. \A v \in ClosedForGood : v.to # Forever
  BY <1>0, <1>1, <1>2, <1>3, TimeFacts
<1>9. OnlyCloses(offers, ClosedForGood)
  BY <1>0, <1>2 DEF OnlyCloses
<1> QED
  BY <1>0, <1>5, <1>7, <1>8, <1>9 DEF History

\* The histories of a new Unit are in order.
LEMMA InitHistory == Init => HistoryInv
<1> SUFFICES ASSUME Init PROVE HistoryInv
  OBVIOUS
<1> DEFINE first == [from |-> 1, to |-> Forever, value |-> "unavailable"]
<1>1. 1 \in Times /\ 1 \in 1..Forever /\ Forever \in 1..Forever
  BY TimeAssumption DEF Times, Forever
<1>2. offers = {first} /\ prices = {} /\ now = 1
  BY DEF Init
<1>3. first \in Versions(Statuses) /\ first.from = 1 /\ first.to = Forever
  BY <1>1 DEF Versions, Statuses
<1>4. History(offers, Statuses) /\ HasOpen(offers)
  BY <1>1, <1>2, <1>3, TimeFacts DEF History, WellFormed, Disjoint, HasOpen
<1>5. NoGap(offers)
  BY <1>2, <1>3, TimeFacts DEF NoGap, Applies
<1> QED
  BY <1>1, <1>2, <1>4, <1>5
  DEF Init, HistoryInv, History, WellFormed, Disjoint, NothingLapses, NoGap,
      ArchiveClosesOffers, Statuses

\* Every command and the passing of time keep them so.
LEMMA NextHistory == HistoryInv /\ [Next]_vars => HistoryInv'
<1> SUFFICES ASSUME HistoryInv, [Next]_vars PROVE HistoryInv'
  OBVIOUS
<1>1. CASE Tick
  <2>1. now' \in Times
    BY <1>1, TimeFacts DEF Tick, HistoryInv, Times
  <2> QED
    BY <1>1, <2>1 DEF Tick, HistoryInv, NothingLapses, ArchiveClosesOffers
<1>2. ASSUME NEW from \in Times, NEW amount \in Amounts, SetPricing(from, amount)
      PROVE  HistoryInv'
  <2>1. History(prices', Amounts) /\ HasOpen(prices')
    BY <1>2, ReplaceKeepsHistory DEF SetPricing, HistoryInv
  <2>2. NoGap(prices')
    BY <1>2, ReplaceLeavesNoGap DEF SetPricing, HistoryInv, NothingLapses
  <2> QED
    BY <1>2, <2>1, <2>2 DEF SetPricing, HistoryInv, NothingLapses, ArchiveClosesOffers
<1>3. ASSUME NEW from \in Times, NEW status \in Statuses, SetAvailability(from, status)
      PROVE  HistoryInv'
  <2>1. History(offers', Statuses) /\ HasOpen(offers')
    BY <1>3, ReplaceKeepsHistory DEF SetAvailability, HistoryInv
  <2>2. NoGap(offers')
    BY <1>3, ReplaceLeavesNoGap DEF SetAvailability, HistoryInv, NothingLapses
  <2> QED
    BY <1>3, <2>1, <2>2 DEF SetAvailability, HistoryInv, NothingLapses, ArchiveClosesOffers
<1>4. CASE Archive
  <2>1. History(offers', Statuses) /\ \A v \in offers' : v.to # Forever
    BY <1>4, ArchiveKeepsOffers DEF Archive
  <2> QED
    BY <1>4, <2>1 DEF Archive, HistoryInv, NothingLapses, ArchiveClosesOffers
<1>5. CASE UNCHANGED vars
  BY <1>5 DEF vars, HistoryInv, NothingLapses, ArchiveClosesOffers
<1> QED
  BY <1>1, <1>2, <1>3, <1>4, <1>5 DEF Next

\* The histories are always in order: well formed, disjoint, and open where
\* they must be.
THEOREM HistoriesHold == Spec => []HistoryInv
  BY InitHistory, NextHistory, PTL DEF Spec

\* Every version has dates that can be given and a value of its history.
THEOREM TypeCorrect == Spec => []TypeOK
<1>1. HistoryInv => TypeOK
  BY DEF HistoryInv, History, TypeOK
<1> QED
  BY <1>1, HistoriesHold, PTL

\* Whatever dates are given, the exclusion constraints never refuse a version
\* that the check constraints admit, and no instant has two prices.
THEOREM OneApplies == Spec => []AtMostOneApplies
<1>1. HistoryInv => AtMostOneApplies
  <2> SUFFICES ASSUME NEW Values, NEW history, History(history, Values) PROVE AtMostOne(history)
    BY DEF HistoryInv, AtMostOneApplies
  <2>1. \A v \in history : v.from \in Nat /\ v.to \in Nat
    <3>1. \A v \in history : v.from \in Times /\ v.to \in 1..Forever
      BY DEF History, Versions
    <3> QED
      BY <3>1, TimeFacts
  <2> QED
    BY <2>1, TimeFacts DEF History, Disjoint, AtMostOne, Applies
<1> QED
  BY <1>1, HistoriesHold, PTL

\* A live Unit's availability, and its price once it has one, never lapse.
THEOREM NeverLapses == Spec => []NothingLapses
<1>1. HistoryInv => NothingLapses
  BY DEF HistoryInv
<1> QED
  BY <1>1, HistoriesHold, PTL

\* The archive closes every open availability, begun or not.
THEOREM ArchiveCloses == Spec => []ArchiveClosesOffers
<1>1. HistoryInv => ArchiveClosesOffers
  BY DEF HistoryInv
<1> QED
  BY <1>1, HistoriesHold, PTL

\* The history trigger never has anything to refuse.
THEOREM OnlyEverCloses == Spec => HistoryOnlyCloses
<1>1. HistoryInv /\ [Next]_vars => [OnlyCloses(prices, prices') /\ OnlyCloses(offers, offers')]_vars
  <2> SUFFICES ASSUME HistoryInv, Next
               PROVE  OnlyCloses(prices, prices') /\ OnlyCloses(offers, offers')
    OBVIOUS
  <2>0. \A history : OnlyCloses(history, history)
    BY DEF OnlyCloses
  <2>1. CASE Tick
    BY <2>0, <2>1 DEF Tick
  <2>2. ASSUME NEW from \in Times, NEW amount \in Amounts, SetPricing(from, amount)
        PROVE  OnlyCloses(prices, prices') /\ OnlyCloses(offers, offers')
    BY <2>0, <2>2, ReplaceOnlyCloses DEF SetPricing
  <2>3. ASSUME NEW from \in Times, NEW status \in Statuses, SetAvailability(from, status)
        PROVE  OnlyCloses(prices, prices') /\ OnlyCloses(offers, offers')
    BY <2>0, <2>3, ReplaceOnlyCloses DEF SetAvailability
  <2>4. CASE Archive
    BY <2>0, <2>4, ArchiveKeepsOffers DEF Archive
  <2> QED
    BY <2>1, <2>2, <2>3, <2>4 DEF Next
<1> QED
  BY <1>1, HistoriesHold, PTL DEF Spec, HistoryOnlyCloses
=============================================================================
