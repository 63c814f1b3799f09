----------------------------- MODULE PortalProofs -----------------------------
(***************************************************************************)
(* The two halves of the portal: the open page with its commands, and the  *)
(* session the page is opened in.  They share no state and are proved side *)
(* by side.                                                                *)
(*                                                                         *)
(* On the page, what a user wrote takes effect once and no command on a    *)
(* Unit is behind the page's last reload, for any number of requests and   *)
(* versions, however answers and fetches are lost or delayed and whatever  *)
(* other members do.  In the tab, a session is earned and a sign-out       *)
(* lasts, whatever the accounts and the organizations, whenever look-ups   *)
(* answer and pop-ups end.                                                 *)
(***************************************************************************)
EXTENDS PortalCommands, PortalSession, TLAPS

-----------------------------------------------------------------------------
(* The page and its commands *)

\* A request names what the form that sent it holds.
Holds(k, basis) ==
    /\ k = "addUnit" => basis = label
    /\ k \in UnitCommands => basis = rows.unit
    /\ k = "editDraft" => basis = shown.listing.version

\* The server no longer accepts what the form would send.
Spent(k) ==
    /\ k = "addUnit" => label \in labels
    /\ k \in UnitCommands => rows.unit < unit
    /\ k = "createListing" => listing # NoListing
    /\ k = "editDraft" => shown.listing.version < listing.version

IntentsAreHeld ==
    \A c \in Calls : call[c].intent =>
        /\ call[c].kind \in Guarded /\ rows.status = "ready"
        /\ Holds(call[c].kind, call[c].basis)

EffectsSpend ==
    \A k \in Guarded : effects[k] # 0 => effects[k] = 1 /\ rows.status = "ready" /\ Spent(k)

FetchingLoads == fetch.properties # None => rows.status = "loading"

\* What the page shows of the Unit, or is about to show, is no older than what it
\* had been told when it last asked; and no answer is ahead of the Unit.
PageKeepsUp ==
    /\ told <= unit /\ due <= told
    /\ fetch.properties \notin {Unread, None} => due <= fetch.properties
    /\ rows.status = "ready" => due <= rows.unit

\* A new Unit names a label, a command on the Unit a version, and an answer a
\* version the Unit has had.
RequestsFit ==
    \A c \in Calls :
        /\ call[c].kind = "addUnit" => call[c].basis \in Labels
        /\ call[c].kind \in UnitCommands => call[c].basis \in 0..MaxVersions
        /\ call[c].answer <= unit

FormsInv == IntentsAreHeld /\ EffectsSpend /\ FetchingLoads
PageInv == TypeOK /\ FormsInv /\ PageKeepsUp /\ RequestsFit

\* The shapes of what the page holds.
FetchType == [properties : Fetch(1..MaxVersions), listings : Fetch(Listing), late : Late \union {None}]
RowsType == [status : FeedStatus, unit : 0..MaxVersions]
ShownType == [status : FeedStatus, listing : Listing]

\* The shapes and the numbers that TypeOK gives.
LEMMA NamedShapes ==
    ASSUME TypeOK
    PROVE  /\ fetch \in FetchType /\ rows \in RowsType /\ shown \in ShownType
           /\ unit \in Nat /\ told \in Nat /\ due \in Nat /\ MaxVersions \in Nat
           /\ listing.version \in Nat /\ shown.listing.version \in Nat /\ rows.unit \in Nat
           /\ NoListing \in Listing
  BY BoundsAssumption DEF TypeOK, FetchType, RowsType, ShownType, Listing, NoListing

\* How a step may change the calls without sending or serving one: a call is the
\* same request as before, or none that a form of a row sends.
SameRequests(cs) ==
    /\ call' \in [Calls -> Call]
    /\ \A c \in Calls :
          \/ /\ ~call'[c].intent /\ call'[c].kind \notin Guarded
             /\ call'[c].answer \in {0, cs[c].answer}
          \/ /\ call'[c].kind = cs[c].kind /\ call'[c].basis = cs[c].basis
             /\ call'[c].stage = cs[c].stage /\ call'[c].answer = cs[c].answer
             /\ call'[c].intent => cs[c].intent

\* A request that is not under way carries nothing of a form.
LEMMA IdleIsACall ==
    Idle \in Call /\ Idle.intent = FALSE /\ Idle.kind \notin Guarded /\ Idle.answer = 0
  BY BoundsAssumption DEF Idle, Call, Kinds, InRow, Guarded, UnitCommands, ListingForm, Publication

\* Forgetting the contents of some forms.
LEMMA ForgottenCalls ==
    ASSUME NEW cs \in [Calls -> Call], NEW ks, call' = Forgotten(cs, ks)
    PROVE  SameRequests(cs) /\ \A c \in Calls : call'[c].kind \in ks => ~call'[c].intent
<1>1. ASSUME NEW c \in Calls
      PROVE  /\ call'[c] \in Call /\ call'[c].kind = cs[c].kind /\ call'[c].basis = cs[c].basis
             /\ call'[c].stage = cs[c].stage /\ call'[c].answer = cs[c].answer
             /\ call'[c].intent => cs[c].intent /\ cs[c].kind \notin ks
  <2>1. call'[c] = IF cs[c].kind \in ks THEN [cs[c] EXCEPT !.intent = FALSE] ELSE cs[c]
    BY DEF Forgotten
  <2>2. cs[c] \in Call
    OBVIOUS
  <2> QED
    BY <2>1, <2>2 DEF Call
<1>2. call' \in [Calls -> Call]
  BY <1>1 DEF Forgotten
<1> QED
  BY <1>1, <1>2 DEF SameRequests

\* The rows leave the page.
LEMMA UnmountedCalls ==
    ASSUME NEW cs \in [Calls -> Call], call' = Unmounted(cs)
    PROVE  SameRequests(cs) /\ \A c \in Calls : call'[c].kind \in Guarded => ~call'[c].intent
<1>1. ASSUME NEW c \in Calls
      PROVE  /\ call'[c] \in Call /\ call'[c].kind = cs[c].kind /\ call'[c].basis = cs[c].basis
             /\ call'[c].stage = cs[c].stage /\ call'[c].answer = cs[c].answer
             /\ call'[c].intent => cs[c].intent /\ cs[c].kind \notin Guarded
  <2>1. call'[c] = IF cs[c].kind \in InRow THEN [cs[c] EXCEPT !.intent = FALSE, !.form = FALSE] ELSE cs[c]
    BY DEF Unmounted
  <2>2. cs[c] \in Call
    OBVIOUS
  <2> QED
    BY <2>1, <2>2 DEF Call, InRow
<1>2. call' \in [Calls -> Call]
  BY <1>1 DEF Unmounted
<1> QED
  BY <1>1, <1>2 DEF SameRequests

\* A call that is done with.
LEMMA FreedCalls ==
    ASSUME call \in [Calls -> Call], NEW d \in Calls
    PROVE  /\ Freed(d) \in [Calls -> Call]
           /\ \A c \in Calls : Freed(d)[c] = IF c = d THEN Idle ELSE call[c]
  BY IdleIsACall DEF Freed

\* Emptying some forms forgets how often their contents took effect.
LEMMA EmptiedEffects ==
    ASSUME effects \in [Guarded -> Nat], NEW ks, effects' = Emptied(ks)
    PROVE  effects' \in [Guarded -> Nat] /\ \A k \in Guarded : effects'[k] = IF k \in ks THEN 0 ELSE effects[k]
  BY DEF Emptied

\* Asking for a feed again.
LEMMA RefetchedFeed ==
    ASSUME TypeOK, NEW f \in Feeds, fetch' = Refetched(f)
    PROVE  /\ fetch' \in FetchType /\ fetch'[f] = Unread
           /\ f = "listings" => fetch'.properties = fetch.properties
<1>1. fetch \in FetchType
  BY NamedShapes
<1> DEFINE late == IF fetch[f] \in {Unread, None} THEN fetch.late ELSE [feed |-> f, what |-> fetch[f]]
<1>2. late \in Late \union {None}
  BY <1>1 DEF Feeds, FetchType, Fetch, Late
<1>3. fetch' = [fetch EXCEPT ![f] = Unread, !.late = late]
  BY DEF Refetched
<1> HIDE DEF late
<1> QED
  BY <1>1, <1>2, <1>3 DEF Feeds, FetchType, Fetch

-----------------------------------------------------------------------------

\* The server only ever moves forward.
Forward ==
    /\ unit <= unit' /\ labels \subseteq labels'
    /\ listing.version <= listing'.version
    /\ listing # NoListing => listing' # NoListing

\* A form that a step leaves as it is, and one it empties.
FormStays(k) ==
    /\ rows'.status = rows.status
    /\ k = "addUnit" => label' = label
    /\ k \in UnitCommands => rows'.unit = rows.unit
    /\ k = "editDraft" => shown'.listing.version = shown.listing.version

FormEmptied(k) ==
    /\ effects'[k] = 0
    /\ \A c \in Calls : call'[c].kind = k => ~call'[c].intent

\* A step that leaves or empties each form, while the server moves forward, keeps
\* what is known of the forms.
LEMMA FormsStay ==
    ASSUME TypeOK, FormsInv, Forward, SameRequests(call), unit' \in Nat, listing'.version \in Nat,
           \A k \in Guarded : FormEmptied(k) \/ (FormStays(k) /\ effects'[k] \in {0, effects[k]}),
           fetch'.properties # None => rows'.status = "loading"
    PROVE  FormsInv'
<1> USE DEF FormsInv
<1>1. ASSUME NEW c \in Calls, call'[c].intent
      PROVE  call'[c].kind \in Guarded /\ rows'.status = "ready" /\ Holds(call[c].kind, call[c].basis)'
  <2>1. /\ call'[c].kind = call[c].kind /\ call'[c].basis = call[c].basis /\ call[c].intent
    BY <1>1, IdleIsACall DEF SameRequests
  <2>2. call[c].kind \in Guarded /\ rows.status = "ready" /\ Holds(call[c].kind, call[c].basis)
    BY <2>1 DEF IntentsAreHeld
  <2>3. FormStays(call[c].kind)
    BY <1>1, <2>1, <2>2 DEF FormEmptied
  <2> QED
    BY <2>1, <2>2, <2>3 DEF FormStays, Holds
<1>2. IntentsAreHeld'
  BY <1>1 DEF IntentsAreHeld
<1>3. ASSUME NEW k \in Guarded, effects'[k] # 0
      PROVE  effects'[k] = 1 /\ rows'.status = "ready" /\ Spent(k)'
  <2>1. FormStays(k) /\ effects'[k] = effects[k]
    BY <1>3 DEF FormEmptied
  <2>2. effects[k] = 1 /\ rows.status = "ready" /\ Spent(k)
    BY <1>3, <2>1 DEF EffectsSpend
  <2>3. rows.unit \in Nat /\ unit \in Nat /\ listing.version \in Nat /\ shown.listing.version \in Nat
    BY NamedShapes
  <2>4. Spent(k)'
    BY <2>1, <2>2, <2>3 DEF FormStays, Spent, Forward
  <2> QED
    BY <2>1, <2>2, <2>4 DEF FormStays
<1>4. EffectsSpend'
  BY <1>3 DEF EffectsSpend
<1> QED
  BY <1>2, <1>4 DEF FetchingLoads

\* The calls stay what they are.
LEMMA CallsStay ==
    ASSUME call \in [Calls -> Call], call' = call
    PROVE  SameRequests(call)
  BY DEF SameRequests

\* Requests that stay name the versions they named.
LEMMA RequestsStay ==
    ASSUME TypeOK, RequestsFit, SameRequests(call), unit' \in Nat, unit <= unit'
    PROVE  RequestsFit'
<1>1. ASSUME NEW c \in Calls
      PROVE  /\ call'[c].kind \in Guarded => call'[c].kind = call[c].kind /\ call'[c].basis = call[c].basis
             /\ call'[c].answer \in {0, call[c].answer}
  BY DEF SameRequests
<1>2. ASSUME NEW c \in Calls, call'[c].kind = "addUnit" PROVE call'[c].basis \in Labels
  BY <1>1, <1>2 DEF RequestsFit, Guarded
<1>3. ASSUME NEW c \in Calls, call'[c].kind \in UnitCommands PROVE call'[c].basis \in 0..MaxVersions
  BY <1>1, <1>3 DEF RequestsFit, Guarded
<1>4. ASSUME NEW c \in Calls PROVE call'[c].answer <= unit'
  <2>1. call[c].answer \in Nat /\ call[c].answer <= unit /\ unit \in Nat
    BY NamedShapes DEF RequestsFit, TypeOK, Call
  <2> QED
    BY <1>1, <2>1
<1> QED
  BY <1>2, <1>3, <1>4 DEF RequestsFit

\* What a step of the feeds keeps.
LEMMA FeedsKeep ==
    ASSUME PageInv,
           \/ \E f \in Feeds : ReadFeed(f)
           \/ \E slot \in Feeds \union {"late"} : Ignored(slot) \/ ShowProperties(slot) \/ ShowListings(slot)
           \/ PropertiesFail \/ ListingsFail \/ RetryProperties \/ RetryListings
    PROVE  PageInv'
<1> USE DEF PageInv, server
<1>1. /\ fetch \in FetchType /\ rows \in RowsType /\ shown \in ShownType
      /\ unit \in Nat /\ listing.version \in Nat /\ call \in [Calls -> Call]
      /\ effects \in [Guarded -> Nat] /\ told \in Nat /\ due \in Nat
  BY NamedShapes DEF TypeOK
<1>2. ASSUME NEW f \in Feeds, ReadFeed(f) PROVE PageInv'
  <2>1. fetch' = [fetch EXCEPT ![f] = IF f = "properties" THEN unit ELSE listing] /\ fetch[f] = Unread
        /\ UNCHANGED <<unit, labels, listing, rows, shown, items, label, effects, call, told, due>>
    BY <1>2 DEF ReadFeed, known
  <2>2. /\ fetch' \in FetchType
        /\ fetch'.properties \in {fetch.properties, unit}
        /\ fetch'.properties # None => fetch.properties # None
    BY <1>1, <2>1, BoundsAssumption DEF Feeds, FetchType, Fetch, TypeOK
  <2>3. TypeOK'
    BY <2>1, <2>2 DEF TypeOK, FetchType
  <2>4. FormsInv'
    BY <1>1, <2>1, <2>2, FormsStay, CallsStay DEF Forward, FormStays, FormsInv, FetchingLoads
  <2>5. PageKeepsUp'
    BY <1>1, <2>1, <2>2 DEF PageKeepsUp
  <2> QED
    BY <2>1, <2>3, <2>4, <2>5 DEF RequestsFit
<1>3. ASSUME NEW slot \in Feeds \union {"late"}, Ignored(slot) PROVE PageInv'
  <2>1. fetch' = [fetch EXCEPT !.late = None]
        /\ UNCHANGED <<unit, labels, listing, rows, shown, items, label, effects, call, told, due>>
    BY <1>3 DEF Ignored, Active, known
  <2>2. fetch' \in FetchType /\ fetch'.properties = fetch.properties
    BY <1>1, <2>1 DEF FetchType
  <2>3. TypeOK'
    BY <2>1, <2>2 DEF TypeOK, FetchType
  <2>4. FormsInv'
    BY <1>1, <2>1, <2>2, FormsStay, CallsStay DEF Forward, FormStays, FormsInv, FetchingLoads
  <2>5. PageKeepsUp'
    BY <2>1, <2>2 DEF PageKeepsUp
  <2> QED
    BY <2>1, <2>3, <2>4, <2>5 DEF RequestsFit
<1>4. ASSUME NEW slot \in Feeds \union {"late"}, ShowProperties(slot) PROVE PageInv'
  <2>1. /\ fetch.properties \notin {Unread, None}
        /\ fetch' = [fetch EXCEPT !.properties = None]
        /\ rows' = [status |-> "ready", unit |-> fetch.properties]
        /\ label' \in Labels /\ effects' = Emptied(Guarded) /\ call' = Unmounted(call)
        /\ UNCHANGED <<unit, labels, listing, shown, items, told, due>>
    BY <1>4 DEF ShowProperties, Fetched, Active, What, known
  <2>2. fetch' \in FetchType /\ fetch'.properties = None /\ fetch.properties \in 1..MaxVersions
    BY <1>1, <2>1 DEF FetchType, Fetch
  <2>3. SameRequests(call) /\ \A c \in Calls : call'[c].kind \in Guarded => ~call'[c].intent
    BY <1>1, <2>1, UnmountedCalls
  <2>4. effects' \in [Guarded -> Nat] /\ \A k \in Guarded : effects'[k] = 0
    BY <1>1, <2>1, EmptiedEffects
  <2>5. rows' \in RowsType
    BY <2>1, <2>2, BoundsAssumption DEF RowsType, FeedStatus
  <2>6. TypeOK'
    BY <2>1, <2>2, <2>3, <2>4, <2>5 DEF TypeOK, FetchType, RowsType, SameRequests
  <2>7. FormsInv'
    BY <1>1, <2>1, <2>2, <2>3, <2>4, FormsStay DEF Forward, FormEmptied
  <2>8. PageKeepsUp'
    BY <2>1, <2>2 DEF PageKeepsUp
  <2>9. RequestsFit'
    BY <1>1, <2>1, <2>3, RequestsStay
  <2> QED
    BY <2>6, <2>7, <2>8, <2>9
<1>5. CASE PropertiesFail
  <2>1. /\ fetch.properties # None /\ fetch' = [fetch EXCEPT !.properties = None]
        /\ rows' = [status |-> "error", unit |-> 0]
        /\ UNCHANGED <<unit, labels, listing, shown, items, label, effects, call, told, due>>
    BY <1>5 DEF PropertiesFail, known
  <2>2. fetch' \in FetchType /\ fetch'.properties = None /\ rows.status = "loading"
    BY <1>1, <2>1 DEF FetchType, Fetch, FormsInv, FetchingLoads
  <2>3. rows' \in RowsType
    BY <2>1, BoundsAssumption DEF RowsType, FeedStatus
  <2>4. \A k \in Guarded : FormEmptied(k)
    BY <2>1, <2>2 DEF FormsInv, EffectsSpend, IntentsAreHeld, FormEmptied
  <2>5. TypeOK'
    BY <2>1, <2>2, <2>3 DEF TypeOK, FetchType, RowsType
  <2>6. FormsInv'
    BY <1>1, <2>1, <2>2, <2>4, FormsStay, CallsStay DEF Forward
  <2>7. PageKeepsUp'
    BY <2>1, <2>2 DEF PageKeepsUp
  <2> QED
    BY <2>1, <2>5, <2>6, <2>7 DEF RequestsFit
\* Another listing is presented.
<1>6. ASSUME NEW status \in FeedStatus, NEW l \in Listing, Present(status, l),
             fetch' = [fetch EXCEPT !.listings = None]
      PROVE  PageInv'
  <2>1. /\ shown' = [status |-> status, listing |-> l]
        /\ items' = IF items = None THEN None ELSE l.status
        /\ UNCHANGED <<unit, labels, listing, rows, label, told, due>>
    BY <1>6 DEF Present, known
  <2>2. fetch' \in FetchType /\ fetch'.properties = fetch.properties
    BY <1>1, <1>6 DEF FetchType, Fetch
  <2>3. shown' \in ShownType /\ items' \in {"none", "draft", "published", "withdrawn", None}
    BY <2>1 DEF ShownType, Listing
  <2>4. /\ SameRequests(call) /\ effects' \in [Guarded -> Nat]
        /\ \A k \in Guarded : FormEmptied(k) \/ (FormStays(k) /\ effects'[k] \in {0, effects[k]})
    <3>1. CASE l = NoListing /\ shown.listing = NoListing /\ UNCHANGED <<effects, call>>
      <4>1. \A k \in Guarded : FormStays(k)
        BY <2>1, <3>1 DEF FormStays
      <4> QED
        BY <1>1, <3>1, <4>1, CallsStay
    <3>2. CASE effects' = Emptied(ListingForm) /\ call' = Forgotten(call, ListingForm)
      <4>1. SameRequests(call) /\ \A c \in Calls : call'[c].kind \in ListingForm => ~call'[c].intent
        BY <1>1, <3>2, ForgottenCalls
      <4>2. /\ effects' \in [Guarded -> Nat]
            /\ \A k \in Guarded : effects'[k] = IF k \in ListingForm THEN 0 ELSE effects[k]
        BY <1>1, <3>2, EmptiedEffects
      <4>3. ASSUME NEW k \in Guarded \ ListingForm PROVE FormStays(k)
        BY <2>1, <4>3 DEF FormStays, ListingForm
      <4> QED
        BY <4>1, <4>2, <4>3 DEF FormEmptied
    <3> QED
      BY <1>6, <3>1, <3>2 DEF Present
  <2>5. TypeOK'
    BY <2>1, <2>2, <2>3, <2>4 DEF TypeOK, FetchType, ShownType, SameRequests
  <2>6. FormsInv'
    BY <1>1, <2>1, <2>2, <2>4, FormsStay DEF Forward, FormsInv, FetchingLoads
  <2>7. PageKeepsUp'
    BY <2>1, <2>2 DEF PageKeepsUp
  <2>8. RequestsFit'
    BY <1>1, <2>1, <2>4, RequestsStay
  <2> QED
    BY <2>5, <2>6, <2>7, <2>8
<1>7. ASSUME NEW slot \in Feeds \union {"late"}, ShowListings(slot) PROVE PageInv'
  <2>1. /\ fetch.listings \notin {Unread, None} /\ fetch' = [fetch EXCEPT !.listings = None]
        /\ Present("ready", fetch.listings)
    BY <1>7 DEF ShowListings, Fetched, Active, What
  <2>2. fetch.listings \in Listing
    BY <1>1, <2>1 DEF FetchType, Fetch
  <2> QED
    BY <1>6, <2>1, <2>2 DEF FeedStatus
<1>8. CASE ListingsFail
  BY <1>6, <1>8, NamedShapes DEF ListingsFail, FeedStatus
<1>9. CASE RetryProperties
  <2>1. /\ rows.status = "error" /\ fetch' = Refetched("properties")
        /\ rows' = [status |-> "loading", unit |-> 0]
        /\ effects' = Emptied(Guarded) /\ call' = Unmounted(call) /\ due' = told
        /\ UNCHANGED <<unit, labels, listing, shown, items, label, told>>
    BY <1>9 DEF RetryProperties, ReloadProperties
  <2>2. fetch' \in FetchType /\ fetch'.properties = Unread
    BY <2>1, RefetchedFeed DEF Feeds
  <2>3. SameRequests(call) /\ \A c \in Calls : call'[c].kind \in Guarded => ~call'[c].intent
    BY <1>1, <2>1, UnmountedCalls
  <2>4. effects' \in [Guarded -> Nat] /\ \A k \in Guarded : effects'[k] = 0
    BY <1>1, <2>1, EmptiedEffects
  <2>5. rows' \in RowsType
    BY <2>1, BoundsAssumption DEF RowsType, FeedStatus
  <2>6. TypeOK'
    BY <2>1, <2>2, <2>3, <2>4, <2>5 DEF TypeOK, FetchType, RowsType, SameRequests
  <2>7. FormsInv'
    BY <1>1, <2>1, <2>2, <2>3, <2>4, FormsStay DEF Forward, FormEmptied
  <2>8. PageKeepsUp'
    BY <1>1, <2>1, <2>2 DEF PageKeepsUp
  <2>9. RequestsFit'
    BY <1>1, <2>1, <2>3, RequestsStay
  <2> QED
    BY <2>6, <2>7, <2>8, <2>9
<1>10. CASE RetryListings
  <2>1. /\ fetch' = Refetched("listings") /\ shown' = [shown EXCEPT !.status = "loading"]
        /\ UNCHANGED <<unit, labels, listing, rows, items, label, effects, call, told, due>>
    BY <1>10 DEF RetryListings, ReloadListings, known
  <2>2. fetch' \in FetchType /\ fetch'.properties = fetch.properties
    BY <2>1, RefetchedFeed DEF Feeds
  <2>3. shown' \in ShownType /\ shown'.listing = shown.listing
    BY <1>1, <2>1 DEF ShownType, FeedStatus
  <2>4. TypeOK'
    BY <2>1, <2>2, <2>3 DEF TypeOK, FetchType, ShownType
  <2>5. FormsInv'
    BY <1>1, <2>1, <2>2, <2>3, FormsStay, CallsStay DEF Forward, FormStays, FormsInv, FetchingLoads
  <2>6. PageKeepsUp'
    BY <2>1, <2>2 DEF PageKeepsUp
  <2> QED
    BY <2>1, <2>4, <2>5, <2>6 DEF RequestsFit
<1> QED
  BY <1>2, <1>3, <1>4, <1>5, <1>7, <1>8, <1>9, <1>10

\* Sending a request: a form's names what the form holds.
LEMMA SendKeeps ==
    ASSUME PageInv, NEW k \in Kinds, NEW basis \in (0..MaxVersions) \union Labels, Send(k, basis),
           k \in Guarded => rows.status = "ready" /\ Holds(k, basis),
           k = "addUnit" => basis \in Labels, k \in UnitCommands => basis \in 0..MaxVersions
    PROVE  PageInv'
<1> USE DEF PageInv
<1> DEFINE request(carries) == [stage |-> "sent", kind |-> k, basis |-> basis,
                                intent |-> carries, form |-> TRUE, waiting |-> TRUE, answer |-> 0]
<1>1. PICK c \in Calls, carries \in BOOLEAN :
         /\ call' = [call EXCEPT ![c] = request(carries)]
         /\ carries => k \in Guarded
         /\ UNCHANGED <<server, page>>
  <2>1. PICK c \in Calls : /\ call' = [call EXCEPT ![c] = request(k \in Guarded)]
                           /\ UNCHANGED <<server, page>>
    BY DEF Send
  <2>2. (k \in Guarded) \in BOOLEAN
    OBVIOUS
  <2> QED
    BY <2>1, <2>2, Zenon
<1>2. UNCHANGED <<unit, labels, listing, rows, shown, fetch, items, label, effects, told, due>>
  BY <1>1 DEF server, page, known
<1>3. call \in [Calls -> Call] /\ request(carries) \in Call /\ unit \in Nat
  BY NamedShapes DEF TypeOK, Call
<1>4. /\ call' \in [Calls -> Call] /\ call'[c] = request(carries)
      /\ \A d \in Calls \ {c} : call'[d] = call[d]
  BY <1>1, <1>3
<1>5. /\ call'[c].kind = k /\ call'[c].basis = basis /\ call'[c].answer = 0
      /\ call'[c].intent => k \in Guarded
  BY <1>1, <1>4
<1>6. TypeOK'
  BY <1>2, <1>4 DEF TypeOK
<1>7. IntentsAreHeld'
  <2> SUFFICES ASSUME NEW d \in Calls, call'[d].intent
               PROVE  /\ call'[d].kind \in Guarded /\ rows'.status = "ready"
                      /\ Holds(call[d].kind, call[d].basis)'
    BY DEF IntentsAreHeld
  <2>1. CASE d = c
    BY <1>2, <1>5, <2>1 DEF Holds
  <2>2. CASE d # c
    BY <1>2, <1>4, <2>2 DEF Holds, FormsInv, IntentsAreHeld
  <2> QED
    BY <2>1, <2>2
<1>8. EffectsSpend' /\ FetchingLoads'
  BY <1>2 DEF FormsInv, EffectsSpend, FetchingLoads, Spent
<1>9. RequestsFit'
  BY <1>2, <1>3, <1>4, <1>5 DEF RequestsFit
<1>10. PageKeepsUp'
  BY <1>2 DEF PageKeepsUp
<1> QED
  BY <1>6, <1>7, <1>8, <1>9, <1>10 DEF FormsInv

\* What the user does keeps the page's invariant.
LEMMA UserKeeps ==
    ASSUME PageInv,
           \/ \E k \in Guarded : Rewrite(k)
           \/ Filter \/ Navigate
           \/ SubmitCreateProperty \/ SubmitAddUnit
           \/ \E k \in UnitCommands : SubmitUnitCommand(k)
           \/ SubmitCreateListing \/ SubmitEditDraft \/ SubmitImages
           \/ RunCommand \/ SubmitPublication
    PROVE  PageInv'
<1> USE DEF PageInv, server
<1>1. /\ fetch \in FetchType /\ rows \in RowsType /\ shown \in ShownType
      /\ unit \in Nat /\ listing.version \in Nat /\ call \in [Calls -> Call]
      /\ effects \in [Guarded -> Nat] /\ told \in Nat /\ due \in Nat
  BY NamedShapes DEF TypeOK
<1> DEFINE numbers == (0..MaxVersions) \union Labels
<1>2. 0 \in numbers /\ label \in numbers /\ rows.unit \in 0..MaxVersions
      /\ shown.listing.version \in 0..MaxVersions
  BY <1>1, BoundsAssumption DEF TypeOK, RowsType, ShownType, Listing
\* Forms of kinds ks are emptied and the others stay.
<1>3. ASSUME NEW ks, effects' = Emptied(ks), label' \in Labels,
             SameRequests(call), \A c \in Calls : call'[c].kind \in ks => ~call'[c].intent,
             label' = label \/ "addUnit" \in ks,
             items' \in {"none", "draft", "published", "withdrawn", None},
             UNCHANGED <<unit, labels, listing, rows, shown, fetch, told, due>>
      PROVE  PageInv'
  <2>1. effects' \in [Guarded -> Nat] /\ \A k \in Guarded : effects'[k] = IF k \in ks THEN 0 ELSE effects[k]
    BY <1>1, <1>3, EmptiedEffects
  <2>2. \A k \in Guarded : FormEmptied(k) \/ (FormStays(k) /\ effects'[k] \in {0, effects[k]})
    BY <1>3, <2>1 DEF FormEmptied, FormStays
  <2>3. TypeOK'
    BY <1>3, <2>1 DEF TypeOK, SameRequests
  <2>4. FormsInv'
    BY <1>1, <1>3, <2>2, FormsStay DEF Forward, FormsInv, FetchingLoads
  <2>5. PageKeepsUp'
    BY <1>3 DEF PageKeepsUp
  <2>6. RequestsFit'
    BY <1>1, <1>3, RequestsStay
  <2> QED
    BY <2>3, <2>4, <2>5, <2>6
<1>4. items \in {"none", "draft", "published", "withdrawn", None} /\ label \in Labels
  BY DEF TypeOK
<1>5. ASSUME NEW k \in Guarded, Rewrite(k) PROVE PageInv'
  <2> DEFINE ks == {k}
  <2>1. SameRequests(call) /\ \A c \in Calls : call'[c].kind \in ks => ~call'[c].intent
    BY <1>1, <1>5, ForgottenCalls DEF Rewrite
  <2>2. /\ effects' = Emptied(ks) /\ label' \in Labels /\ (label' = label \/ "addUnit" \in ks)
        /\ items' \in {"none", "draft", "published", "withdrawn", None}
        /\ UNCHANGED <<unit, labels, listing, rows, shown, fetch, told, due>>
    BY <1>4, <1>5 DEF Rewrite, known
  <2> HIDE DEF ks
  <2> QED
    BY <1>3, <2>1, <2>2
<1>6. CASE Filter
  <2>1. SameRequests(call) /\ \A c \in Calls : call'[c].kind \in Guarded => ~call'[c].intent
    BY <1>1, <1>6, UnmountedCalls DEF Filter
  <2> QED
    BY <1>3, <1>4, <1>6, <2>1 DEF Filter, Guarded, known
<1>7. CASE Navigate
  <2>1. SameRequests(call) /\ \A c \in Calls : ~call'[c].intent
    <3>1. ASSUME NEW c \in Calls
          PROVE  /\ call'[c] \in Call /\ call'[c].kind = call[c].kind /\ call'[c].basis = call[c].basis
                 /\ call'[c].stage = call[c].stage /\ call'[c].answer = call[c].answer
                 /\ ~call'[c].intent
      <4>1. call[c] \in Call /\ call'[c] = [call[c] EXCEPT !.intent = FALSE, !.form = FALSE]
        BY <1>1, <1>7 DEF Navigate
      <4> QED
        BY <4>1 DEF Call
    <3>2. call' \in [Calls -> Call]
      BY <1>7, <3>1 DEF Navigate
    <3> QED
      BY <3>1, <3>2 DEF SameRequests
  <2>2. items' \in {"none", "draft", "published", "withdrawn", None}
    BY <1>1, <1>7 DEF Navigate, ShownType, Listing
  <2>3. /\ effects' = Emptied(Guarded) /\ label' \in Labels /\ "addUnit" \in Guarded
        /\ UNCHANGED <<unit, labels, listing, rows, shown, fetch, told, due>>
    BY <1>7 DEF Navigate, Guarded, known
  <2> QED
    BY <1>3, <2>1, <2>2, <2>3
<1>8. CASE SubmitAddUnit
  BY <1>2, <1>4, <1>8, SendKeeps DEF SubmitAddUnit, Kinds, InRow, Guarded, Holds, UnitCommands
<1>9. ASSUME NEW k \in UnitCommands, SubmitUnitCommand(k) PROVE PageInv'
  BY <1>2, <1>9, SendKeeps DEF SubmitUnitCommand, Kinds, InRow, Guarded, Holds, UnitCommands
<1>10. CASE SubmitCreateListing
  BY <1>2, <1>10, SendKeeps DEF SubmitCreateListing, Kinds, InRow, Guarded, ListingForm, Holds, UnitCommands
<1>11. CASE SubmitEditDraft
  BY <1>2, <1>11, SendKeeps DEF SubmitEditDraft, Kinds, InRow, Guarded, ListingForm, Holds, UnitCommands
<1>12. ASSUME NEW k \in {"createProperty", "changeImages", "publish", "withdraw"}, Send(k, 0) PROVE PageInv'
  <2>1. k \in Kinds /\ k \notin Guarded /\ k \notin UnitCommands
    BY DEF Kinds, InRow, Guarded, Publication, UnitCommands, ListingForm
  <2> QED
    BY <1>2, <1>12, <2>1, SendKeeps
<1>13. CASE SubmitCreateProperty \/ SubmitImages
  BY <1>12, <1>13 DEF SubmitCreateProperty, SubmitImages
<1>14. CASE RunCommand \/ SubmitPublication
  BY <1>12, <1>14 DEF RunCommand, SubmitPublication, Offered
<1> QED
  BY <1>5, <1>6, <1>7, <1>8, <1>9, <1>10, <1>11, <1>13, <1>14

\* A call that is done with, and what becomes of the others.
LEMMA FreedAnd ==
    ASSUME call \in [Calls -> Call], NEW c \in Calls, SameRequests(Freed(c))
    PROVE  SameRequests(call)
  BY FreedCalls, IdleIsACall DEF SameRequests

\* A call that is done with, and nothing else.
LEMMA FreedAlone ==
    ASSUME call \in [Calls -> Call], NEW c \in Calls, call' = Freed(c)
    PROVE  SameRequests(call)
  BY FreedCalls, IdleIsACall DEF SameRequests

\* The server moves forward, or a call ends, and the page sees nothing of it.
LEMMA UnseenKeeps ==
    ASSUME PageInv, Forward, unit' \in 1..MaxVersions, labels' \in SUBSET Labels, listing' \in Listing,
           SameRequests(call), UNCHANGED page
    PROVE  PageInv'
<1> USE DEF PageInv
<1>1. /\ unit \in Nat /\ unit' \in Nat /\ listing'.version \in Nat /\ told \in Nat /\ due \in Nat
      /\ unit <= unit'
      /\ UNCHANGED <<rows, shown, fetch, items, label, effects, told, due>>
  BY NamedShapes, BoundsAssumption DEF page, known, Listing, Forward
<1>2. TypeOK'
  BY <1>1 DEF TypeOK, SameRequests
<1>3. FormsInv'
  BY <1>1, FormsStay DEF FormStays, FormsInv, FetchingLoads
<1>4. PageKeepsUp'
  BY <1>1 DEF PageKeepsUp
<1>5. RequestsFit'
  BY <1>1, RequestsStay
<1> QED
  BY <1>2, <1>3, <1>4, <1>5

\* A request that takes effect: the server accepted what the form holds, and will
\* not accept it again.
LEMMA TookKeeps ==
    ASSUME PageInv, NEW c \in Calls, NEW k \in Kinds, Sent(c, k), Took(c), Forward,
           unit' \in 1..MaxVersions, labels' \in SUBSET Labels, listing' \in Listing,
           k \in Guarded /\ Holds(k, call[c].basis) => ~Spent(k) /\ Spent(k)'
    PROVE  PageInv'
<1> USE DEF PageInv, Sent
<1>1. /\ call \in [Calls -> Call] /\ effects \in [Guarded -> Nat] /\ unit \in Nat /\ unit' \in 0..MaxVersions
      /\ unit' \in Nat /\ told \in Nat /\ due \in Nat /\ listing.version \in Nat /\ listing'.version \in Nat /\ rows.unit \in Nat
      /\ shown.listing.version \in Nat
  BY NamedShapes, BoundsAssumption DEF TypeOK, Listing
<1>2. UNCHANGED <<rows, shown, fetch, items, label, told, due>>
  BY DEF Took, known
<1>3. /\ call' \in [Calls -> Call] /\ \A d \in Calls \ {c} : call'[d] = call[d]
      /\ \/ call'[c] = Idle
         \/ call'[c].kind = k /\ call'[c].basis = call[c].basis /\ (call'[c].intent => call[c].intent)
      /\ call'[c].answer \in {0, unit'}
  <2> DEFINE answered == [call[c] EXCEPT !.stage = "done", !.answer = Names(call[c].kind)]
  <2>1. Names(call[c].kind) \in {0, unit'} /\ Names(call[c].kind) \in 0..MaxVersions
    BY <1>1, BoundsAssumption DEF Names
  <2>2. /\ call[c] \in Call /\ answered \in Call /\ answered.kind = call[c].kind
        /\ answered.basis = call[c].basis /\ answered.intent = call[c].intent
        /\ answered.answer = Names(call[c].kind)
    BY <1>1, <2>1 DEF Call
  <2>3. call' = [call EXCEPT ![c] = IF call[c].waiting THEN answered ELSE Idle]
    BY DEF Took
  <2> HIDE DEF answered
  <2> QED
    BY <1>1, <2>1, <2>2, <2>3, IdleIsACall
<1>4. call[c].intent => k \in Guarded /\ rows.status = "ready" /\ Holds(k, call[c].basis)
  BY DEF FormsInv, IntentsAreHeld
<1>5. /\ effects' \in [Guarded -> Nat]
      /\ \A j \in Guarded : effects'[j] = IF call[c].intent /\ j = k THEN effects[j] + 1 ELSE effects[j]
  BY <1>1, <1>4 DEF Took
<1>6. TypeOK'
  BY <1>2, <1>3, <1>5 DEF TypeOK
<1>7. IntentsAreHeld'
  <2> SUFFICES ASSUME NEW d \in Calls, call'[d].intent
               PROVE  /\ call'[d].kind \in Guarded /\ rows'.status = "ready"
                      /\ Holds(call[d].kind, call[d].basis)'
    BY DEF IntentsAreHeld
  <2>1. call'[d].kind = call[d].kind /\ call'[d].basis = call[d].basis /\ call[d].intent
    BY <1>3, IdleIsACall
  <2> QED
    BY <1>2, <2>1 DEF FormsInv, IntentsAreHeld, Holds
<1>8. EffectsSpend'
  <2> SUFFICES ASSUME NEW j \in Guarded, effects'[j] # 0
               PROVE  effects'[j] = 1 /\ rows'.status = "ready" /\ Spent(j)'
    BY DEF EffectsSpend
  <2>1. effects[j] # 0 => effects[j] = 1 /\ rows.status = "ready" /\ Spent(j)
    BY DEF FormsInv, EffectsSpend
  <2>2. CASE call[c].intent /\ j = k
    <3>1. ~Spent(j) /\ Spent(j)' /\ rows.status = "ready"
      BY <1>4, <2>2
    <3> QED
      BY <1>1, <1>2, <1>5, <2>1, <2>2, <3>1
  <2>3. CASE ~(call[c].intent /\ j = k)
    <3>1. effects'[j] = effects[j]
      BY <1>5, <2>3
    <3>2. Spent(j)'
      BY <1>1, <1>2, <2>1, <3>1 DEF Spent, Forward
    <3> QED
      BY <1>2, <2>1, <3>1, <3>2
  <2> QED
    BY <2>2, <2>3
<1>9. FetchingLoads'
  BY <1>2 DEF FormsInv, FetchingLoads
<1>10. PageKeepsUp'
  BY <1>1, <1>2 DEF PageKeepsUp, Forward
<1>11. RequestsFit'
  <2>1. ASSUME NEW d \in Calls, call'[d].kind \in Guarded
        PROVE  call'[d].kind = call[d].kind /\ call'[d].basis = call[d].basis
    BY <1>3, <2>1, IdleIsACall
  <2>2. ASSUME NEW d \in Calls, call'[d].kind = "addUnit" PROVE call'[d].basis \in Labels
    BY <2>1, <2>2 DEF RequestsFit, Guarded
  <2>3. ASSUME NEW d \in Calls, call'[d].kind \in UnitCommands PROVE call'[d].basis \in 0..MaxVersions
    BY <2>1, <2>3 DEF RequestsFit, Guarded
  <2>4. ASSUME NEW d \in Calls PROVE call'[d].answer <= unit'
    <3>1. CASE d = c
      BY <1>1, <1>3, <3>1
    <3>2. CASE d # c
      <4>1. call'[d].answer = call[d].answer /\ call[d].answer \in Nat /\ call[d].answer <= unit
        BY <1>1, <1>3, <3>2 DEF RequestsFit, Call
      <4> QED
        BY <1>1, <4>1 DEF Forward
    <3> QED
      BY <3>1, <3>2
  <2> QED
    BY <2>2, <2>3, <2>4 DEF RequestsFit
<1> QED
  BY <1>6, <1>7, <1>8, <1>9, <1>10, <1>11 DEF FormsInv

\* What the server does keeps the page's invariant.
LEMMA ServerKeeps ==
    ASSUME PageInv, (\E c \in Calls : Serve(c)) \/ Elsewhere
    PROVE  PageInv'
<1>1. /\ unit \in 1..MaxVersions /\ labels \in SUBSET Labels /\ listing \in Listing
      /\ MaxVersions \in Nat /\ listing.version \in 0..MaxVersions /\ call \in [Calls -> Call]
      /\ shown.listing.version \in Nat /\ rows.unit \in Nat
  BY NamedShapes DEF PageInv, TypeOK, Listing
<1>2. /\ Room => unit + 1 \in 1..MaxVersions
      /\ Room => [status |-> "draft", version |-> 1] \in Listing
      /\ Room => listing.version + 1 \in 0..MaxVersions
  <2>1. Room /\ listing = NoListing => unit + 2 < MaxVersions /\ listing.version = 0
    BY DEF Room, NoListing
  <2>2. Room /\ listing # NoListing => unit + listing.version < MaxVersions
    BY DEF Room
  <2>3. MaxVersions >= 1
    BY BoundsAssumption
  <2> QED
    BY <1>1, <2>1, <2>2, <2>3 DEF Listing
<1>3. ASSUME NEW status \in {"none", "draft", "published", "withdrawn"}, Room
      PROVE  [status |-> status, version |-> listing.version + 1] \in Listing
  BY <1>2, <1>3 DEF Listing
<1>4. Bumped(listing) = [status |-> listing.status, version |-> listing.version + 1]
  BY <1>1 DEF Bumped, Listing
<1>5. listing.status \in {"none", "draft", "published", "withdrawn"}
  BY <1>1 DEF Listing
<1>6. [status |-> "draft", version |-> 1] # NoListing /\ NoListing.version = 0 /\ NoListing.status = "none"
  BY DEF NoListing
<1>7. ASSUME NEW c \in Calls, CreateProperty(c) PROVE PageInv'
  BY <1>1, <1>7, TookKeeps
  DEF CreateProperty, Forward, server, Kinds, InRow, Guarded, UnitCommands, ListingForm
<1>8. ASSUME NEW c \in Calls, AddRentalUnit(c) PROVE PageInv'
  <2>1. /\ Sent(c, "addUnit") /\ Took(c) /\ call[c].basis \notin labels
        /\ labels' = labels \union {call[c].basis} /\ UNCHANGED <<unit, listing>>
    BY <1>8 DEF AddRentalUnit
  <2>2. "addUnit" \in Kinds /\ "addUnit" \notin UnitCommands /\ "addUnit" \in Guarded
    BY DEF Kinds, InRow, Guarded, UnitCommands
  <2>3. Forward
    BY <1>1, <2>1 DEF Forward
  <2>4. Holds("addUnit", call[c].basis) => ~Spent("addUnit") /\ Spent("addUnit")'
    BY <2>1 DEF Holds, Spent, Took, UnitCommands
  <2>5. labels' \in SUBSET Labels
    BY <1>1, <2>1 DEF PageInv, RequestsFit, Sent
  <2> QED
    BY <1>1, <2>1, <2>2, <2>3, <2>4, <2>5, TookKeeps
<1>9. ASSUME NEW c \in Calls, SetUnitVersioned(c) PROVE PageInv'
  <2>1. PICK k \in UnitCommands : Sent(c, k)
    BY <1>9 DEF SetUnitVersioned
  <2>2. /\ Took(c) /\ call[c].basis = unit /\ unit' = unit + 1 /\ UNCHANGED <<labels, listing>> /\ Room
    BY <1>9 DEF SetUnitVersioned
  <2>3. k \in Kinds /\ k \notin {"addUnit", "createListing", "editDraft"}
    BY <2>1 DEF Kinds, InRow, Guarded, UnitCommands
  <2>4. Forward
    BY <1>1, <2>2 DEF Forward
  <2>5. Holds(k, call[c].basis) => ~Spent(k) /\ Spent(k)'
    BY <1>1, <2>2, <2>3, <2>1 DEF Holds, Spent, Took
  <2> QED
    BY <1>1, <1>2, <2>1, <2>2, <2>3, <2>4, <2>5, TookKeeps
<1>10. ASSUME NEW c \in Calls, CreatePublicListing(c) PROVE PageInv'
  <2>1. /\ Sent(c, "createListing") /\ Took(c) /\ listing = NoListing /\ Room
        /\ listing' = [status |-> "draft", version |-> 1] /\ unit' = unit + 1 /\ UNCHANGED labels
    BY <1>10 DEF CreatePublicListing
  <2>2. "createListing" \in Kinds /\ "createListing" \notin UnitCommands
    BY DEF Kinds, InRow, Guarded, ListingForm, UnitCommands
  <2>3. Forward
    BY <1>1, <1>6, <2>1 DEF Forward
  <2>4. ~Spent("createListing") /\ Spent("createListing")'
    BY <1>6, <2>1 DEF Spent, UnitCommands
  <2> QED
    BY <1>1, <1>2, <2>1, <2>2, <2>3, <2>4, TookKeeps
<1>11. ASSUME NEW c \in Calls, UpdateDraft(c) PROVE PageInv'
  <2>1. /\ Sent(c, "editDraft") /\ Took(c) /\ listing.status = "draft" /\ call[c].basis = listing.version
        /\ Room /\ listing' = [status |-> "draft", version |-> listing.version + 1]
        /\ UNCHANGED <<unit, labels>>
    BY <1>4, <1>11 DEF UpdateDraft
  <2>2. "editDraft" \in Kinds /\ "editDraft" \notin UnitCommands
    BY DEF Kinds, InRow, Guarded, ListingForm, UnitCommands
  <2>3. Forward /\ listing' \in Listing /\ listing'.version = listing.version + 1
    BY <1>1, <1>3, <1>6, <2>1 DEF Forward
  <2>4. Holds("editDraft", call[c].basis) => ~Spent("editDraft") /\ Spent("editDraft")'
    BY <1>1, <2>1, <2>3 DEF Holds, Spent, Took, UnitCommands
  <2> QED
    BY <1>1, <2>1, <2>2, <2>3, <2>4, TookKeeps
\* The commands whose forms are not counted.
<1>12. ASSUME NEW c \in Calls, NEW k \in {"changeImages", "publish", "withdraw"}, Sent(c, k), Took(c), Room,
             NEW status \in {"draft", "published", "withdrawn"},
             listing' = [status |-> status, version |-> listing.version + 1], UNCHANGED <<unit, labels>>
      PROVE  PageInv'
  <2>1. k \in Kinds /\ k \notin Guarded /\ k \notin UnitCommands
    BY DEF Kinds, InRow, Guarded, ListingForm, UnitCommands, Publication
  <2>2. Forward /\ listing' \in Listing
    BY <1>1, <1>3, <1>6, <1>12 DEF Forward
  <2> QED
    BY <1>1, <1>12, <2>1, <2>2, TookKeeps
<1>13. ASSUME NEW c \in Calls, ChangeImages(c) PROVE PageInv'
  BY <1>4, <1>12, <1>13 DEF ChangeImages
<1>14. ASSUME NEW c \in Calls, SetPublication(c) PROVE PageInv'
  <2>1. PICK k \in {"publish", "withdraw"} : Sent(c, k)
    BY <1>14 DEF SetPublication
  <2>2. \E status \in {"published", "withdrawn"} :
           listing' = [status |-> status, version |-> listing.version + 1]
    BY <1>4, <1>14 DEF SetPublication
  <2> QED
    BY <1>12, <1>14, <2>1, <2>2 DEF SetPublication
<1>15. ASSUME NEW c \in Calls, Refuse(c) PROVE PageInv'
  BY <1>1, <1>15, FreedAlone, UnseenKeeps DEF Refuse, server, Forward
<1>16. CASE Elsewhere
  <2>1. call' = call /\ UNCHANGED page
    BY <1>16 DEF Elsewhere
  <2>2. unit' \in 1..MaxVersions /\ labels' \in SUBSET Labels
    BY <1>1, <1>2, <1>16 DEF Elsewhere
  <2>3. listing' \in Listing /\ Forward
    <3>1. CASE UNCHANGED listing
      BY <1>1, <1>16, <3>1 DEF Elsewhere, Forward
    <3>2. CASE listing = NoListing /\ Room /\ listing' = [status |-> "draft", version |-> 1]
               /\ unit' = unit + 1 /\ UNCHANGED labels
      BY <1>1, <1>2, <1>6, <3>2 DEF Forward
    <3>3. CASE /\ listing # NoListing /\ Room /\ UNCHANGED <<unit, labels>>
               /\ \E s \in {listing.status, "published", "withdrawn"} :
                     listing' = [status |-> s, version |-> listing.version + 1]
      BY <1>1, <1>3, <1>5, <1>6, <3>3 DEF Forward
    <3> QED
      BY <1>16, <3>1, <3>2, <3>3 DEF Elsewhere
  <2> QED
    BY <1>1, <2>1, <2>2, <2>3, CallsStay, UnseenKeeps
<1> QED
  BY <1>7, <1>8, <1>9, <1>10, <1>11, <1>13, <1>14, <1>15, <1>16 DEF Serve

\* An answer tells the page of no version the Unit has not had.
LEMMA LearntWasHad ==
    ASSUME PageInv, NEW c \in Calls
    PROVE  Learnt(c) \in 0..MaxVersions /\ Learnt(c) <= unit /\ told <= Learnt(c)
<1>1. /\ call[c].answer \in 0..MaxVersions /\ call[c].answer <= unit
      /\ told \in 0..MaxVersions /\ told <= unit /\ unit \in Nat
  BY NamedShapes DEF PageInv, RequestsFit, PageKeepsUp, Call, TypeOK
<1> QED
  BY <1>1 DEF Learnt

\* What an answer, or its loss, does keeps the page's invariant.
LEMMA AnswersKeep ==
    ASSUME PageInv, NEW c \in Calls,
           \/ PortfolioChanged(c) \/ ListingChanged(c) \/ PublicationChanged(c) \/ ImagesChanged(c)
           \/ LoseAnswer(c)
    PROVE  PageInv'
<1> USE DEF PageInv, server
<1>1. /\ fetch \in FetchType /\ rows \in RowsType /\ shown \in ShownType
      /\ unit \in Nat /\ listing.version \in Nat /\ call \in [Calls -> Call]
      /\ effects \in [Guarded -> Nat] /\ told \in Nat /\ due \in Nat
      /\ unit \in 1..MaxVersions /\ labels \in SUBSET Labels /\ listing \in Listing
  BY NamedShapes DEF TypeOK
<1>2. Freed(c) \in [Calls -> Call] /\ Freed(c)[c].intent = FALSE
  BY <1>1, FreedCalls, IdleIsACall
<1>3. CASE PortfolioChanged(c)
  <2>1. /\ call[c].stage = "done" /\ fetch' = Refetched("properties")
        /\ rows' = [status |-> "loading", unit |-> 0]
        /\ effects' = Emptied(Guarded) /\ call' = Unmounted(Freed(c))
        /\ told' = Learnt(c) /\ due' = told'
        /\ UNCHANGED <<unit, labels, listing, shown, items, label>>
    BY <1>3 DEF PortfolioChanged, ReloadProperties, Done
  <2>2. fetch' \in FetchType /\ fetch'.properties = Unread
    BY <2>1, RefetchedFeed DEF Feeds
  <2>3. SameRequests(call) /\ \A d \in Calls : call'[d].kind \in Guarded => ~call'[d].intent
    BY <1>1, <1>2, <2>1, UnmountedCalls, FreedAnd
  <2>4. effects' \in [Guarded -> Nat] /\ \A k \in Guarded : effects'[k] = 0
    BY <1>1, <2>1, EmptiedEffects
  <2>5. rows' \in RowsType
    BY <2>1, BoundsAssumption DEF RowsType, FeedStatus
  <2>6. told' \in 0..MaxVersions /\ told' <= unit /\ due' = told'
    BY <2>1, LearntWasHad
  <2>7. TypeOK'
    BY <1>1, <2>1, <2>2, <2>3, <2>4, <2>5, <2>6, BoundsAssumption
    DEF TypeOK, FetchType, RowsType, SameRequests
  <2>8. FormsInv'
    BY <1>1, <2>1, <2>2, <2>3, <2>4, FormsStay DEF Forward, FormEmptied
  <2>9. PageKeepsUp'
    BY <1>1, <2>1, <2>2, <2>6 DEF PageKeepsUp
  <2>10. RequestsFit'
    BY <1>1, <2>1, <2>3, RequestsStay
  <2> QED
    BY <2>7, <2>8, <2>9, <2>10
\* The listings are asked for again, and nothing but a form of theirs is emptied.
<1>4. ASSUME ReloadListings, SameRequests(call), effects' \in [Guarded -> Nat],
             \A k \in Guarded : FormEmptied(k) \/ effects'[k] = effects[k],
             told' \in {told, Learnt(c)}, UNCHANGED <<unit, labels, listing, rows, items, label, due>>
      PROVE  PageInv'
  <2>1. fetch' \in FetchType /\ fetch'.properties = fetch.properties
    BY <1>4, RefetchedFeed DEF ReloadListings, Feeds
  <2>2. shown' \in ShownType /\ shown'.listing = shown.listing
    BY <1>1, <1>4 DEF ReloadListings, ShownType, FeedStatus
  <2>3. TypeOK'
    BY <1>4, <2>1, <2>2, LearntWasHad DEF TypeOK, FetchType, ShownType, SameRequests
  <2>4. \A k \in Guarded : FormStays(k)
    BY <1>4, <2>2 DEF FormStays
  <2>5. FormsInv'
    BY <1>1, <1>4, <2>1, <2>4, FormsStay DEF Forward, FormsInv, FetchingLoads
  <2>6. told' \in Nat /\ told' <= unit /\ due <= told'
    <3>1. Learnt(c) \in Nat /\ Learnt(c) <= unit /\ told <= Learnt(c)
      BY LearntWasHad
    <3>2. told <= unit /\ due <= told
      BY DEF PageKeepsUp
    <3> QED
      BY <1>1, <1>4, <3>1, <3>2
  <2>7. PageKeepsUp'
    BY <1>4, <2>1, <2>6 DEF PageKeepsUp
  <2>8. RequestsFit'
    BY <1>1, <1>4, RequestsStay
  <2> QED
    BY <2>3, <2>5, <2>7, <2>8
<1>5. CASE ListingChanged(c)
  <2>1. /\ ReloadListings /\ UNCHANGED <<unit, labels, listing, rows, items, label, due>>
        /\ told' = Learnt(c)
        /\ effects' = IF call[c].form THEN Emptied({call[c].kind}) ELSE effects
        /\ call' = IF call[c].form THEN Forgotten(Freed(c), {call[c].kind}) ELSE Freed(c)
    BY <1>5 DEF ListingChanged
  <2>2. CASE call[c].form
    <3>1. PICK ks : ks = {call[c].kind}
      OBVIOUS
    <3>2. effects' = Emptied(ks) /\ call' = Forgotten(Freed(c), ks)
      BY <2>1, <2>2, <3>1
    <3>3. SameRequests(Freed(c)) /\ \A d \in Calls : call'[d].kind \in ks => ~call'[d].intent
      BY <1>2, <3>2, ForgottenCalls
    <3>4. /\ effects' \in [Guarded -> Nat]
          /\ \A k \in Guarded : effects'[k] = IF k \in ks THEN 0 ELSE effects[k]
      BY <1>1, <3>2, EmptiedEffects
    <3> QED
      BY <1>1, <1>4, <2>1, <3>3, <3>4, FreedAnd DEF FormEmptied
  <2>3. CASE ~call[c].form
    BY <1>1, <1>4, <2>1, <2>3, FreedAlone
  <2> QED
    BY <2>2, <2>3
<1>6. CASE PublicationChanged(c)
  <2>1. SameRequests(call) /\ UNCHANGED <<unit, labels, listing, rows, label, effects, told, due>>
    BY <1>1, <1>6, FreedAlone DEF PublicationChanged, known
  <2>2. CASE items = None /\ ReloadListings /\ UNCHANGED items
    BY <1>1, <1>4, <2>1, <2>2
  <2>3. CASE UNCHANGED <<fetch, shown>> /\ items' \in {items, "published", "withdrawn"}
    <3>1. TypeOK'
      BY <2>1, <2>3 DEF TypeOK, SameRequests
    <3>2. FormsInv'
      BY <1>1, <2>1, <2>3, FormsStay DEF Forward, FormStays, FormsInv, FetchingLoads
    <3>3. PageKeepsUp'
      BY <2>1, <2>3 DEF PageKeepsUp
    <3>4. RequestsFit'
      BY <1>1, <2>1, RequestsStay
    <3> QED
      BY <3>1, <3>2, <3>3, <3>4
  <2> QED
    BY <1>6, <2>2, <2>3 DEF PublicationChanged
<1>7. CASE ImagesChanged(c)
  BY <1>1, <1>7, FreedAlone, UnseenKeeps DEF ImagesChanged, Forward
<1>8. CASE LoseAnswer(c)
  <2>1. /\ call' = [call EXCEPT ![c] = IF call[c].stage = "sent"
                                       THEN [call[c] EXCEPT !.waiting = FALSE, !.form = FALSE] ELSE Idle]
        /\ UNCHANGED <<unit, labels, listing, page>>
    BY <1>8 DEF LoseAnswer
  <2>2. call[c] \in Call /\ [call[c] EXCEPT !.waiting = FALSE, !.form = FALSE] \in Call
    BY <1>1 DEF Call
  <2>3. SameRequests(call)
    BY <1>1, <2>1, <2>2, IdleIsACall DEF SameRequests, Call
  <2> QED
    BY <1>1, <2>1, <2>3, UnseenKeeps DEF Forward
<1> QED
  BY <1>3, <1>5, <1>6, <1>7, <1>8

\* The invariant holds.
THEOREM PageHolds == Spec => []PageInv
<1>1. Init => PageInv
  <2> SUFFICES ASSUME Init PROVE PageInv
    OBVIOUS
  <2>1. MaxVersions \in Nat /\ MaxVersions >= 1
    BY BoundsAssumption
  <2>2. TypeOK
    BY <2>1, IdleIsACall DEF Init, TypeOK, Listing, NoListing, FeedStatus, Fetch
  <2>3. FormsInv
    BY IdleIsACall DEF Init, FormsInv, IntentsAreHeld, EffectsSpend, FetchingLoads
  <2>4. PageKeepsUp
    BY DEF Init, PageKeepsUp
  <2>5. RequestsFit
    BY IdleIsACall DEF Init, RequestsFit, Guarded
  <2> QED
    BY <2>2, <2>3, <2>4, <2>5 DEF PageInv
<1>2. PageInv /\ UNCHANGED vars => PageInv'
  <2> SUFFICES ASSUME PageInv, UNCHANGED vars PROVE PageInv'
    OBVIOUS
  <2> QED
    BY DEF vars, PageInv, TypeOK, FormsInv, IntentsAreHeld, EffectsSpend, FetchingLoads, PageKeepsUp,
           RequestsFit, Holds, Spent
<1>3. PageInv /\ Next => PageInv'
  BY FeedsKeep, UserKeeps, ServerKeeps, AnswersKeep DEF Next
<1> QED
  BY <1>1, <1>2, <1>3, PTL DEF Spec

\* What the page holds and asks for keeps its shape.
THEOREM PageTypeCorrect == Spec => []TypeOK
<1>1. PageInv => TypeOK
  BY DEF PageInv
<1> QED
  BY <1>1, PageHolds, PTL

\* What a user wrote takes effect at most once.
THEOREM IntentsActOnce == Spec => []OneIntentOneEffect
<1>1. PageInv => OneIntentOneEffect
  <2> SUFFICES ASSUME PageInv, NEW k \in Guarded PROVE effects[k] <= 1
    BY DEF OneIntentOneEffect
  <2> QED
    BY DEF PageInv, FormsInv, EffectsSpend, TypeOK
<1> QED
  BY <1>1, PageHolds, PTL

\* Nothing but the submission of a form sends a command on the Unit.
LEMMA UnitCommandsAreSubmitted ==
    ASSUME TypeOK, Next, NEW c \in Calls,
           call[c].stage = "idle", call'[c].stage = "sent", call'[c].kind \in UnitCommands
    PROVE  \E k \in UnitCommands : SubmitUnitCommand(k)
<1>1. call \in [Calls -> Call] /\ Idle.stage = "idle"
  BY DEF TypeOK, Idle
<1>2. ~SameRequests(call)
  BY DEF SameRequests, Guarded
<1>3. call' # call
  BY <1>1, <1>2, CallsStay
<1>4. ASSUME NEW ks PROVE call' # Forgotten(call, ks)
  BY <1>1, <1>2, ForgottenCalls
<1>5. call' # Unmounted(call)
  BY <1>1, <1>2, UnmountedCalls
<1>6. ASSUME NEW d \in Calls
      PROVE  /\ call' # Freed(d) /\ call' # Unmounted(Freed(d))
             /\ \A ks : call' # Forgotten(Freed(d), ks)
  BY <1>1, <1>2, FreedCalls, FreedAlone, FreedAnd, UnmountedCalls, ForgottenCalls
<1>7. ~ \E d \in Calls : Took(d) \/ LoseAnswer(d)
  <2>1. ASSUME NEW d \in Calls, Took(d) PROVE FALSE
    <3>1. call'[c] = IF c # d THEN call[c]
                     ELSE IF call[c].waiting
                          THEN [call[c] EXCEPT !.stage = "done", !.answer = Names(call[c].kind)] ELSE Idle
      BY <1>1, <2>1 DEF Took
    <3>2. call[c] \in Call
      BY <1>1
    <3> QED
      BY <1>1, <3>1, <3>2 DEF Call
  <2>2. ASSUME NEW d \in Calls, LoseAnswer(d) PROVE FALSE
    BY <1>1, <2>2 DEF LoseAnswer
  <2> QED
    BY <2>1, <2>2
<1>8. ~Navigate
  <2>1. call[c] \in Call
    BY <1>1
  <2> QED
    BY <2>1 DEF Navigate, Call
<1>9. ASSUME NEW k, NEW basis, Send(k, basis) PROVE k \in UnitCommands
  <2>1. PICK d \in Calls : call' = [call EXCEPT ![d] = [stage |-> "sent", kind |-> k, basis |-> basis,
                                       intent |-> k \in Guarded, form |-> TRUE, waiting |-> TRUE,
                                       answer |-> 0]]
    BY <1>9 DEF Send
  <2>2. \A e \in Calls \ {d} : call'[e] = call[e]
    BY <1>1, <2>1
  <2>3. call'[d].kind = k
    BY <1>1, <2>1
  <2> QED
    BY <2>2, <2>3
<1>10. ~(SubmitCreateProperty \/ SubmitAddUnit \/ SubmitCreateListing \/ SubmitEditDraft \/ SubmitImages
         \/ RunCommand \/ SubmitPublication)
  BY <1>9 DEF SubmitCreateProperty, SubmitAddUnit, SubmitCreateListing, SubmitEditDraft, SubmitImages,
              RunCommand, SubmitPublication, Offered, UnitCommands
<1>11. ~ \E d \in Calls : Serve(d)
  BY <1>6, <1>7 DEF Serve, CreateProperty, AddRentalUnit, SetUnitVersioned, CreatePublicListing, UpdateDraft,
                   ChangeImages, SetPublication, Refuse
<1>12. ~ \E d \in Calls : \/ PortfolioChanged(d) \/ ListingChanged(d)
                           \/ PublicationChanged(d) \/ ImagesChanged(d)
  BY <1>6 DEF PortfolioChanged, ReloadProperties, ListingChanged, PublicationChanged, ImagesChanged
<1>13. ~(\/ \E f \in Feeds : ReadFeed(f)
         \/ \E slot \in Feeds \union {"late"} : Ignored(slot) \/ ShowProperties(slot) \/ ShowListings(slot)
         \/ PropertiesFail \/ ListingsFail \/ RetryProperties \/ RetryListings)
  BY <1>3, <1>4, <1>5 DEF ReadFeed, Ignored, ShowProperties, ShowListings, PropertiesFail, ListingsFail,
                          RetryProperties, RetryListings, Present, ReloadProperties
<1>14. ~(Filter \/ Elsewhere \/ \E k \in Guarded : Rewrite(k))
  BY <1>3, <1>4, <1>5 DEF Filter, Elsewhere, Rewrite
<1> QED
  BY <1>7, <1>8, <1>10, <1>11, <1>12, <1>13, <1>14 DEF Next

\* A command on the Unit goes out with the version the page shows, and the page
\* shows none older than it had been told when it last asked for the portfolio.
THEOREM KeepsUpWithTheLastReload == Spec => NeverBehindTheLastReload
<1>1. PageInv /\ [Next]_vars => [\A c \in Calls : GoesOut(c) => call'[c].basis >= due]_vars
  <2> SUFFICES ASSUME PageInv, Next, NEW c \in Calls, GoesOut(c) PROVE call'[c].basis >= due
    OBVIOUS
  <2>1. TypeOK /\ call \in [Calls -> Call]
    BY DEF PageInv, TypeOK
  <2>2. PICK k \in UnitCommands : rows.status = "ready" /\ Send(k, rows.unit)
    BY <2>1, UnitCommandsAreSubmitted DEF SubmitUnitCommand, GoesOut
  <2>3. PICK d \in Calls : call' = [call EXCEPT ![d] = [stage |-> "sent", kind |-> k, basis |-> rows.unit,
                                       intent |-> k \in Guarded, form |-> TRUE, waiting |-> TRUE,
                                       answer |-> 0]]
    BY <2>2 DEF Send
  <2>4. d = c
    BY <2>1, <2>3 DEF GoesOut
  <2>5. call'[c].basis = rows.unit
    BY <2>1, <2>3, <2>4
  <2>6. due \in Nat /\ rows.unit \in Nat /\ due <= rows.unit
    BY <2>1, <2>2, NamedShapes DEF PageInv, PageKeepsUp
  <2> QED
    BY <2>5, <2>6
<1> QED
  BY <1>1, PageHolds, PTL DEF Spec, NeverBehindTheLastReload

-----------------------------------------------------------------------------
(* The session *)

\* A membership was granted to the account that is signed in.
EarnedBy(m) == m \in granted /\ m.account = auth.account

\* The look-up that is listened to is the signed-in account's, and whoever is
\* signed in has signed in since the last sign-out.
SignedInAlone ==
    /\ lookup.now # Nil =>
          /\ auth.status = "signed-in" /\ lookup.now.account = auth.account
          /\ lookup.now.first # Nil => EarnedBy(lookup.now.first)
    /\ membership # Nil => auth.status = "signed-in" /\ EarnedBy(membership)
    /\ popup # Nil /\ popup.kind = "login" => auth.status \notin {"signed-in", "loading"}
    /\ auth.status = "signed-in" => ~out

SessionInv == SessionTypeOK /\ member \subseteq granted /\ SignedInAlone /\ SessionIsEarned

\* What publishing another status does: the look-up and the membership start
\* anew.
LEMMA PublishAnew ==
    ASSUME SessionTypeOK, NEW status \in {"signed-in", "signed-out", "authenticating", "error"},
           NEW account \in Accounts \union {Nil},
           status = "signed-in" <=> account # Nil, status # auth.status,
           Publish(status, account)
    PROVE  /\ auth' = [status |-> status, account |-> account]
           /\ auth' \in [status : {"loading", "signed-in", "signed-out", "authenticating", "error"},
                         account : Accounts \union {Nil}]
           /\ auth'.status = "signed-in" <=> auth'.account # Nil
           /\ membership' = Nil
           /\ lookup' \in [now : Lookup \union {Nil}, past : Lookup \union {Nil}]
           /\ lookup'.now # Nil => /\ status = "signed-in"
                                    /\ lookup'.now.account = account /\ lookup'.now.first = Nil
  BY DEF Publish, LookUp, SessionTypeOK, Lookup

\* The same status published again changes nothing but the account's name.
LEMMA PublishAgain ==
    ASSUME SessionTypeOK, NEW status \in {"signed-out", "authenticating", "error"},
           Publish(status, Nil), status = auth.status
    PROVE  auth' = auth /\ UNCHANGED <<lookup, membership>>
  BY DEF Publish, SessionTypeOK

\* The invariant is inductive.
THEOREM SessionHolds == SessionSpec => []SessionInv
<1>1. SessionInit => SessionInv
  BY NilAssumption
  DEF SessionInit, SessionInv, SessionTypeOK, SignedInAlone, SessionIsEarned, NoLookup, Popup, Lookup,
      Membership, Session
<1>2. SessionInv /\ [SessionNext]_sessionVars => SessionInv'
  <2> SUFFICES ASSUME SessionInv, [SessionNext]_sessionVars PROVE SessionInv'
    OBVIOUS
  <2> USE DEF SessionInv
  <2>1. ASSUME NEW a \in Accounts, Submit(a) PROVE SessionInv'
    BY <2>1 DEF Submit, SessionTypeOK, SignedInAlone, SessionIsEarned, EarnedBy
  <2>2. ASSUME NEW m \in Membership, member' = member \union {m}, granted' = granted \union {m},
               application' \in [Accounts -> {"none", "pending", "approved", "rejected"}],
               UNCHANGED <<auth, active, popup, lookup, membership, session, out>>
        PROVE  SessionInv'
    BY <2>2 DEF SessionTypeOK, SignedInAlone, SessionIsEarned, EarnedBy
  <2>3. ASSUME NEW a \in Accounts, NEW outcome \in {"approved", "rejected"}, Decide(a, outcome)
        PROVE  SessionInv'
    <3>1. application' \in [Accounts -> {"none", "pending", "approved", "rejected"}]
      BY <2>3 DEF Decide, SessionTypeOK
    <3>2. CASE outcome = "approved"
      <4>1. PICK o \in Organizations : Enrol([account |-> a, organization |-> o, role |-> "landlord"])
        BY <2>3, <3>2 DEF Decide
      <4>2. [account |-> a, organization |-> o, role |-> "landlord"] \in Membership
        BY DEF Membership, Roles
      <4> QED
        BY <2>2, <2>3, <3>1, <4>1, <4>2 DEF Decide, Enrol
    <3>3. CASE outcome # "approved"
      BY <2>3, <3>1, <3>3 DEF Decide, SessionTypeOK, SignedInAlone, SessionIsEarned, EarnedBy
    <3> QED
      BY <3>2, <3>3
  <2>4. ASSUME NEW a \in Accounts, NEW o \in Organizations, Administer(a, o) PROVE SessionInv'
    <3>1. CASE Enrol([account |-> a, organization |-> o, role |-> "auditor"])
      <4>1. [account |-> a, organization |-> o, role |-> "auditor"] \in Membership
        BY DEF Membership, Roles
      <4> QED
        BY <2>2, <2>4, <3>1, <4>1 DEF Administer, Enrol, SessionTypeOK
    <3>2. CASE member' = {m \in member : m.account # a \/ m.organization # o} /\ UNCHANGED granted
      BY <2>4, <3>2 DEF Administer, SessionTypeOK, SignedInAlone, SessionIsEarned, EarnedBy
    <3> QED
      BY <2>4, <3>1, <3>2 DEF Administer
  <2>5. ASSUME NEW slot \in {"now", "past"}, AnswerLookup(slot) PROVE SessionInv'
    <3>1. PICK first \in Memberships(lookup[slot].account) \union {Nil} :
             lookup' = [lookup EXCEPT ![slot] = [@ EXCEPT !.stage = "answered", !.first = first]]
      BY <2>5 DEF AnswerLookup
    <3>2. lookup[slot] \in Lookup /\ first \in Membership \union {Nil}
      BY <2>5 DEF AnswerLookup, SessionTypeOK, Memberships
    <3> DEFINE answered == [lookup[slot] EXCEPT !.stage = "answered", !.first = first]
    <3>3. /\ answered \in Lookup /\ answered.account = lookup[slot].account
          /\ answered.first = first
      BY <3>2 DEF Lookup
    <3>4. lookup' = [lookup EXCEPT ![slot] = answered]
      BY <3>1
    <3> HIDE DEF answered
    <3>5. lookup' \in [now : Lookup \union {Nil}, past : Lookup \union {Nil}]
      BY <3>3, <3>4 DEF SessionTypeOK
    <3>6. UNCHANGED <<enrolment, auth, active, popup, membership, session, out>>
      BY <2>5 DEF AnswerLookup
    <3>7. first # Nil => first \in granted /\ first.account = lookup[slot].account
      BY <3>1 DEF Memberships
    <3>8. lookup'.now # Nil =>
             /\ auth.status = "signed-in" /\ lookup'.now.account = auth.account
             /\ lookup'.now.first # Nil => EarnedBy(lookup'.now.first)
      <4>1. CASE slot = "now"
        <5>1. lookup'.now = answered /\ lookup.now # Nil
          BY <2>5, <3>4, <4>1 DEF AnswerLookup, SessionTypeOK
        <5> QED
          BY <3>3, <3>7, <4>1, <5>1 DEF SignedInAlone, EarnedBy
      <4>2. CASE slot = "past"
        <5>1. lookup'.now = lookup.now
          BY <3>4, <4>2 DEF SessionTypeOK
        <5> QED
          BY <5>1 DEF SignedInAlone
      <4> QED
        BY <4>1, <4>2
    <3> QED
      BY <3>5, <3>6, <3>8 DEF enrolment, SessionTypeOK, SignedInAlone, SessionIsEarned, EarnedBy
  <2>6. ASSUME NEW slot \in {"now", "past"}, ReceiveLookup(slot) \/ LookupFails(slot)
         PROVE  SessionInv'
    <3>1. /\ lookup[slot] # Nil /\ lookup' = [lookup EXCEPT ![slot] = Nil]
          /\ UNCHANGED <<enrolment, auth, active, popup, session, out>>
          /\ membership' \in {membership, Nil, IF slot = "now" THEN lookup[slot].first ELSE Nil}
      BY <2>6 DEF ReceiveLookup, LookupFails, Current
    <3>2. lookup' \in [now : Lookup \union {Nil}, past : Lookup \union {Nil}]
          /\ lookup'.now \in {lookup.now, Nil}
      BY <3>1 DEF SessionTypeOK
    <3>3. /\ membership' \in Membership \union {Nil}
          /\ membership' # Nil => auth.status = "signed-in" /\ EarnedBy(membership')
      <4>1. lookup.now # Nil => lookup.now.first \in Membership \union {Nil}
        BY DEF SessionTypeOK, Lookup
      <4> QED
        BY <3>1, <4>1 DEF SessionTypeOK, SignedInAlone
    <3> QED
      BY <3>1, <3>2, <3>3 DEF enrolment, SessionTypeOK, SignedInAlone, SessionIsEarned, EarnedBy
  <2>7. CASE OpenSession
    BY <2>7
    DEF OpenSession, enrolment, SessionTypeOK, Session, Membership, SignedInAlone, SessionIsEarned,
        EarnedBy
  \* Publishing that somebody is.
  <2>8. ASSUME NEW a \in Accounts, Publish("signed-in", a), auth.status # "signed-in",
                UNCHANGED <<enrolment, session>>, active' = a, out' = FALSE,
                popup' \in Popup \union {Nil}, popup' # Nil => popup'.kind # "login"
         PROVE  SessionInv'
    <3>1. a # Nil
      BY NilAssumption
    <3>2. /\ auth' = [status |-> "signed-in", account |-> a]
          /\ auth' \in [status : {"loading", "signed-in", "signed-out", "authenticating", "error"},
                        account : Accounts \union {Nil}]
          /\ auth'.status = "signed-in" <=> auth'.account # Nil
          /\ membership' = Nil
          /\ lookup' \in [now : Lookup \union {Nil}, past : Lookup \union {Nil}]
          /\ lookup'.now # Nil => /\ lookup'.now.account = a /\ lookup'.now.first = Nil
      BY <2>8, <3>1, PublishAnew
    <3>3. SessionTypeOK'
      BY <2>8, <3>2 DEF enrolment, SessionTypeOK
    <3>4. SignedInAlone'
      BY <2>8, <3>2 DEF SignedInAlone
    <3> QED
      BY <2>8, <3>3, <3>4 DEF enrolment, SessionIsEarned
  <2>9. CASE Initialize
    <3>1. ASSUME NEW a \in Accounts, Publish("signed-in", a), active' = a, out' = FALSE PROVE SessionInv'
      BY <2>9, <2>8, <3>1 DEF Initialize, SignedInAlone, SessionTypeOK
    <3>2. ASSUME NEW s \in {"signed-out", "error"}, Publish(s, Nil), UNCHANGED <<active, out>> PROVE SessionInv'
      <4>1. UNCHANGED <<enrolment, popup, session>> /\ auth.status = "loading"
        BY <2>9 DEF Initialize
      <4> QED
        BY <3>2, <4>1, PublishAnew DEF enrolment, SessionTypeOK, SignedInAlone, SessionIsEarned
    <3> QED
      BY <2>9, <3>1, <3>2 DEF Initialize
  \* Publishing that nobody is signed in.
  <2>10. ASSUME NEW s \in {"signed-out", "authenticating", "error"}, Publish(s, Nil),
               UNCHANGED enrolment, active' = active, popup' \in Popup \union {Nil},
               session' \in {session, Nil}, out' \in BOOLEAN
        PROVE  SessionInv'
    <3>1. CASE s = auth.status
      BY <2>10, <3>1, PublishAgain DEF enrolment, SessionTypeOK, SignedInAlone, SessionIsEarned, EarnedBy
    <3>2. CASE s # auth.status
      BY <2>10, <3>2, PublishAnew DEF enrolment, SessionTypeOK, SignedInAlone, SessionIsEarned, EarnedBy
    <3> QED
      BY <3>1, <3>2
  <2>11. CASE Interact
    BY <2>10, <2>11 DEF Interact, Popup, SessionTypeOK, enrolment
  <2>12. ASSUME NEW a \in Accounts, FinishSignIn(a) PROVE SessionInv'
    <3>1. auth.status # "signed-in"
      BY <2>12 DEF FinishSignIn, SignedInAlone
    <3> QED
      BY <2>12, <2>8, <3>1 DEF FinishSignIn
  <2>13. CASE SignInFails
    BY <2>10, <2>13 DEF SignInFails, SessionTypeOK, enrolment
  <2>14. CASE SignOut
    <3>1. LeavingPopup \in Popup
      BY DEF LeavingPopup, Popup, SessionTypeOK
    <3> QED
      BY <2>10, <2>14, <3>1 DEF SignOut, enrolment
  <2>15. CASE FinishSignOut
    BY <2>15 DEF FinishSignOut, enrolment, SessionTypeOK, SignedInAlone, SessionIsEarned, EarnedBy
  <2>16. CASE ReloadPage
    BY <2>16 DEF ReloadPage, NoLookup, enrolment, SessionTypeOK, SignedInAlone, SessionIsEarned
  <2>17. CASE UNCHANGED sessionVars
    BY <2>17 DEF sessionVars, SessionTypeOK, SignedInAlone, SessionIsEarned, EarnedBy
  <2> QED
    BY <2>1, <2>3, <2>4, <2>5, <2>7, <2>9, <2>11, <2>12, <2>13, <2>14, <2>15, <2>16, <2>17, <2>6
    DEF SessionNext, SignIn, EnableLiveCommands, Logout, LeavePending
<1> QED
  BY <1>1, <1>2, PTL DEF SessionSpec

\* Snapshot, look-ups, pop-up and session keep their shape, and a snapshot
\* names an account exactly when somebody is signed in.
THEOREM SessionTypeCorrect == SessionSpec => []SessionTypeOK
<1>1. SessionInv => SessionTypeOK
  BY DEF SessionInv
<1> QED
  BY <1>1, SessionHolds, PTL

\* The session's organization is one its account was granted.
THEOREM EarnedSession == SessionSpec => []SessionIsEarned
<1>1. SessionInv => SessionIsEarned
  BY DEF SessionInv
<1> QED
  BY <1>1, SessionHolds, PTL

\* A session opens only where somebody has signed in since the last sign-out.
THEOREM SignOutLasts == SessionSpec => SignOutSticks
<1>1. SessionInv /\ [SessionNext]_sessionVars => [session = Nil /\ session' # Nil => ~out]_sessionVars
  <2> SUFFICES ASSUME SessionInv, SessionNext, session = Nil, session' # Nil PROVE ~out
    OBVIOUS
  <2>1. OpenSession
    BY DEF SessionNext, Submit, Decide, Administer, FinishSignIn, AnswerLookup, ReceiveLookup, LookupFails,
           Initialize, SignIn, EnableLiveCommands, Interact, SignInFails, Logout, LeavePending, SignOut,
           FinishSignOut, ReloadPage
  <2> QED
    BY <2>1 DEF OpenSession, SessionInv, SignedInAlone
<1> QED
  BY <1>1, SessionHolds, PTL DEF SessionSpec, SignOutSticks

===============================================================================
