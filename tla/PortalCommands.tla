---------------------------- MODULE PortalCommands ----------------------------
(***************************************************************************)
(* One open page of the portal and the commands it sends.  The page shows  *)
(* two feeds, the portfolio and the listings, each fetched again after a   *)
(* command and each read by the server at some moment before it arrives.   *)
(* Its forms act on what the feeds showed; a command may be answered, or   *)
(* the browser may give it up while the server still serves it.  Other     *)
(* members change the same Unit and the same PublicListing meanwhile.      *)
(*                                                                         *)
(* A form's content is abstracted to the number of times it took effect.   *)
(* React runs the effects of an update before the next event, so the       *)
(* answer to a command and the fetch it starts are one step.               *)
(*                                                                         *)
(* Source: src/apps/portal-web/src/property-management-panel.jsx,          *)
(* listing-publication-panel.jsx and hooks/; the commands' versions from   *)
(* src/infra/postgres/migrations/0001_baseline.sql                         *)
(***************************************************************************)
EXTENDS Naturals, FiniteSets

CONSTANTS
    Calls,          \* requests under way at once
    Labels,         \* what a new Unit may be called
    MaxVersions,    \* a bound of the model on the two versions together
    Unread, None

ASSUME BoundsAssumption ==
    /\ MaxVersions \in Nat \ {0}
    /\ Unread # None

VARIABLES
    unit,           \* the version of the Unit, at the server
    labels,         \* the labels taken in its Property, at the server
    listing,        \* the Unit's PublicListing, at the server
    rows,           \* useRentalProperties: the portfolio feed and its Unit's version
    shown,          \* useManagerListings: the listings feed and its listing
    fetch,          \* what each feed's fetch has read, and the last one given up
    items,          \* the status ListingPublicationPanel shows; None where its
                    \* command is in the row instead (enableListingActions)
    label,          \* what AddUnitForm holds
    effects,        \* how often the content a form now holds took effect
    call,           \* the requests under way
    told,           \* the highest version of the Unit an answer told the page,
    due             \* and the one it had been told when it last asked for the
                    \* portfolio

known == <<told, due>>
vars == <<unit, labels, listing, rows, shown, fetch, items, label, effects, call, told, due>>
server == <<unit, labels, listing>>
page == <<rows, shown, fetch, items, label, effects, known>>

Feeds == {"properties", "listings"}
UnitCommands == {"setPricing", "setAvailability"}
ListingForm == {"createListing", "editDraft"}

\* The forms in a row of the table.  The server accepts each of these once:
\* by the version it names, by the label or by the Unit's one listing.
Guarded == {"addUnit"} \union UnitCommands \union ListingForm
InRow == Guarded \union {"changeImages"}
Publication == {"publish", "withdraw"}
Kinds == InRow \union Publication \union {"createProperty"}

NoListing == [status |-> "none", version |-> 0]
Listing == [status : {"none", "draft", "published", "withdrawn"}, version : 0..MaxVersions]

Idle == [stage |-> "idle", kind |-> "createProperty", basis |-> 0,
         intent |-> FALSE, form |-> FALSE, waiting |-> FALSE, answer |-> 0]

\* basis: the version or the label a command names; intent: it carries what the
\* form still holds; form: the form that sent it is still on the page; waiting:
\* the page still waits for the answer; answer: the version of the Unit that the
\* answer names, 0 if it names none.
Call == [stage : {"idle", "sent", "done"}, kind : Kinds,
         basis : (0..MaxVersions) \union Labels,
         intent : BOOLEAN, form : BOOLEAN, waiting : BOOLEAN, answer : 0..MaxVersions]

FeedStatus == {"loading", "ready", "error"}

Fetch(S) == S \union {Unread, None}
Late == [feed : {"properties"}, what : 1..MaxVersions] \union [feed : {"listings"}, what : Listing]

TypeOK ==
    /\ unit \in 1..MaxVersions
    /\ labels \in SUBSET Labels
    /\ listing \in Listing
    /\ rows \in [status : FeedStatus, unit : 0..MaxVersions]
    /\ shown \in [status : FeedStatus, listing : Listing]
    /\ fetch \in [properties : Fetch(1..MaxVersions), listings : Fetch(Listing),
                   late : Late \union {None}]
    /\ items \in {"none", "draft", "published", "withdrawn", None}
    /\ label \in Labels
    /\ effects \in [Guarded -> Nat]
    /\ call \in [Calls -> Call]
    /\ told \in 0..MaxVersions
    /\ due \in 0..MaxVersions

Init ==
    /\ unit = 1
    /\ labels = {}
    /\ listing \in {NoListing, [status |-> "draft", version |-> 1]}
    /\ rows = [status |-> "loading", unit |-> 0]
    /\ shown = [status |-> "loading", listing |-> NoListing]
    /\ fetch = [properties |-> Unread, listings |-> Unread, late |-> None]
    /\ items \in {"none", None}
    /\ label \in Labels
    /\ effects = [k \in Guarded |-> 0]
    /\ call = [c \in Calls |-> Idle]
    /\ told = 0
    /\ due = 0

-----------------------------------------------------------------------------
(* What the page holds *)

\* Mutant: asking again leaves no fetch under way.
NeverAskedAgain(f) == [fetch EXCEPT ![f] = None, !.late = Unread]

\* retry(): the running fetch loses its say and another one starts.  One the
\* server has not read yet can show nothing old and is forgotten.
Refetched(f) ==
    [fetch EXCEPT ![f] = Unread,
                  !.late = IF fetch[f] \in {Unread, None} THEN @ ELSE [feed |-> f, what |-> fetch[f]]]

\* The contents of the forms of kinds ks in a set of calls are gone.
Forgotten(cs, ks) == [c \in Calls |-> IF cs[c].kind \in ks THEN [cs[c] EXCEPT !.intent = FALSE] ELSE cs[c]]
Emptied(ks) == [k \in Guarded |-> IF k \in ks THEN 0 ELSE effects[k]]

\* The rows leave the page, their forms with them; the requests go on.
Unmounted(cs) ==
    [c \in Calls |-> IF cs[c].kind \in InRow THEN [cs[c] EXCEPT !.intent = FALSE, !.form = FALSE] ELSE cs[c]]

\* Mutant: a fetch that was given up delivers all the same.
AnyFetch(slot) == TRUE

\* `active` in the two hooks.
Active(slot) == slot # "late"

Fetched(f, slot) ==
    \/ slot = f /\ fetch[f] \notin {Unread, None}
    \/ slot = "late" /\ fetch.late # None /\ fetch.late.feed = f

What(slot) == IF slot = "late" THEN fetch.late.what ELSE fetch[slot]

ReloadProperties(cs) ==
    /\ fetch' = Refetched("properties")
    /\ rows' = [status |-> "loading", unit |-> 0]
    /\ effects' = Emptied(Guarded)
    /\ call' = Unmounted(cs)

\* The listings shown so far stay until the new ones are there.
ReloadListings ==
    /\ fetch' = Refetched("listings")
    /\ shown' = [shown EXCEPT !.status = "loading"]

\* A feed's request reaches the server.
ReadFeed(f) ==
    /\ fetch[f] = Unread
    /\ fetch' = [fetch EXCEPT ![f] = IF f = "properties" THEN unit ELSE listing]
    /\ UNCHANGED <<server, rows, shown, items, label, effects, call, known>>

\* An answer nobody listens to.
Ignored(slot) ==
    /\ fetch[slot] # None
    /\ ~Active(slot)
    /\ fetch' = [fetch EXCEPT ![slot] = None]
    /\ UNCHANGED <<server, rows, shown, items, label, effects, call, known>>

\* The rows come back, with empty forms at the version just read.
ShowProperties(slot) ==
    /\ Fetched("properties", slot) /\ Active(slot)
    /\ fetch' = [fetch EXCEPT ![slot] = None]
    /\ rows' = [status |-> "ready", unit |-> What(slot)]
    /\ label' \in Labels
    /\ effects' = Emptied(Guarded)
    /\ call' = Unmounted(call)
    /\ UNCHANGED <<server, shown, items, known>>

PropertiesFail ==
    /\ fetch.properties # None
    /\ fetch' = [fetch EXCEPT !.properties = None]
    /\ rows' = [status |-> "error", unit |-> 0]
    /\ UNCHANGED <<server, shown, items, label, effects, call, known>>

\* Another listing object resets the form on it, and the panel's own copy.
Present(status, l) ==
    /\ shown' = [status |-> status, listing |-> l]
    /\ items' = IF items = None THEN None ELSE l.status
    /\ IF l = NoListing /\ shown.listing = NoListing
       THEN UNCHANGED <<effects, call>>
       ELSE effects' = Emptied(ListingForm) /\ call' = Forgotten(call, ListingForm)
    /\ UNCHANGED <<server, rows, label, known>>

ShowListings(slot) ==
    /\ Fetched("listings", slot) /\ Active(slot)
    /\ fetch' = [fetch EXCEPT ![slot] = None]
    /\ Present("ready", What(slot))

ListingsFail ==
    /\ fetch.listings # None
    /\ fetch' = [fetch EXCEPT !.listings = None]
    /\ Present("error", NoListing)

\* The button a failed feed shows.
RetryProperties ==
    /\ rows.status = "error"
    /\ ReloadProperties(call)
    /\ due' = told
    /\ UNCHANGED <<server, shown, items, label, told>>

RetryListings ==
    /\ shown.status = "error"
    /\ ReloadListings
    /\ UNCHANGED <<server, rows, items, label, effects, call, known>>

\* The user writes something else into a form.
Rewrite(k) ==
    /\ rows.status = "ready"
    /\ effects[k] > 0 \/ \E c \in Calls : call[c].kind = k /\ call[c].intent
    /\ effects' = Emptied({k})
    /\ call' = Forgotten(call, {k})
    /\ IF k = "addUnit" THEN label' \in Labels ELSE UNCHANGED label
    /\ UNCHANGED <<server, rows, shown, fetch, items, known>>

\* A filter or another page of the table takes the row away and brings it back.
Filter ==
    /\ rows.status = "ready"
    /\ label' \in Labels
    /\ effects' = Emptied(Guarded)
    /\ call' = Unmounted(call)
    /\ UNCHANGED <<server, rows, shown, fetch, items, known>>

\* Another section of the portal and back: everything is mounted anew, and the
\* feeds, which belong to Portal, stay.
Navigate ==
    /\ label' \in Labels
    /\ effects' = Emptied(Guarded)
    /\ call' = [c \in Calls |-> [call[c] EXCEPT !.intent = FALSE, !.form = FALSE]]
    /\ items' = IF items = None THEN None ELSE shown.listing.status
    /\ UNCHANGED <<server, rows, shown, fetch, known>>

-----------------------------------------------------------------------------
(* Sending *)

Busy(ks) == \E c \in Calls : call[c].kind \in ks /\ call[c].form /\ call[c].waiting

Send(k, basis) ==
    \E c \in Calls :
        /\ call[c].stage = "idle"
        /\ call' = [call EXCEPT ![c] = [stage |-> "sent", kind |-> k, basis |-> basis,
                                        intent |-> k \in Guarded, form |-> TRUE, waiting |-> TRUE,
                                        answer |-> 0]]
        /\ UNCHANGED <<server, page>>

SubmitCreateProperty == ~Busy({"createProperty"}) /\ Send("createProperty", 0)

SubmitAddUnit == rows.status = "ready" /\ ~Busy({"addUnit"}) /\ Send("addUnit", label)

\* Pricing and availability share the version, so one waits for the other.
SubmitUnitCommand(k) ==
    /\ rows.status = "ready"
    /\ ~Busy(UnitCommands)
    /\ Send(k, rows.unit)

SubmitCreateListing ==
    /\ rows.status = "ready" /\ shown.listing = NoListing
    /\ ~Busy(ListingForm)
    /\ Send("createListing", 0)

SubmitEditDraft ==
    /\ rows.status = "ready" /\ shown.listing.status = "draft"
    /\ ~Busy(ListingForm)
    /\ Send("editDraft", shown.listing.version)

\* Uploads and deletions; several may be under way.
SubmitImages ==
    /\ rows.status = "ready" /\ shown.listing.status \in {"draft", "withdrawn"}
    /\ Send("changeImages", 0)

\* statusCopy.
Offered(status) == IF status = "published" THEN "withdraw" ELSE "publish"

\* runCommand.
RunCommand ==
    /\ shown.status = "ready" /\ items \notin {"none", None}
    /\ ~Busy(Publication)
    /\ Send(Offered(items), 0)

\* submitPublishWithdrawListing: a draft has no such command in its row.
SubmitPublication ==
    /\ items = None /\ rows.status = "ready"
    /\ shown.listing.status \in {"published", "withdrawn"}
    /\ ~Busy(Publication)
    /\ Send(Offered(shown.listing.status), 0)

-----------------------------------------------------------------------------
(* Serving: the version, label and status rules of the commands *)

\* A command on the Unit answers with the version it produced, and so does the
\* creation of a listing, whose version bumps the Unit's.
Names(k) == IF k \in UnitCommands \union {"createListing"} THEN unit' ELSE 0

\* Nobody waits for the answer of a request that was given up.
Took(c) ==
    /\ call' = [call EXCEPT ![c] = IF @.waiting
                                   THEN [@ EXCEPT !.stage = "done", !.answer = Names(call[c].kind)]
                                   ELSE Idle]
    /\ effects' = IF call[c].intent THEN [effects EXCEPT ![call[c].kind] = @ + 1] ELSE effects
    /\ UNCHANGED <<rows, shown, fetch, items, label, known>>

Sent(c, k) == call[c].stage = "sent" /\ call[c].kind = k

\* The bound of the model; the two versions a creation takes are set aside.
Room == unit + (IF listing = NoListing THEN 2 ELSE listing.version) < MaxVersions

Bumped(l) == [l EXCEPT !.version = @ + 1]

CreateProperty(c) == Sent(c, "createProperty") /\ Took(c) /\ UNCHANGED server

AddRentalUnit(c) ==
    /\ Sent(c, "addUnit")
    /\ call[c].basis \notin labels
    /\ labels' = labels \union {call[c].basis}
    /\ Took(c)
    /\ UNCHANGED <<unit, listing>>

\* Mutant: the expected version is not compared.
SetAtAnyVersion(c) ==
    /\ \E k \in UnitCommands : Sent(c, k)
    /\ Room
    /\ unit' = unit + 1
    /\ Took(c)
    /\ UNCHANGED <<labels, listing>>

SetUnitVersioned(c) ==
    /\ \E k \in UnitCommands : Sent(c, k)
    /\ call[c].basis = unit
    /\ Room
    /\ unit' = unit + 1
    /\ Took(c)
    /\ UNCHANGED <<labels, listing>>

CreatePublicListing(c) ==
    /\ Sent(c, "createListing")
    /\ listing = NoListing /\ Room
    /\ listing' = [status |-> "draft", version |-> 1]
    /\ unit' = unit + 1
    /\ Took(c)
    /\ UNCHANGED labels

UpdateDraft(c) ==
    /\ Sent(c, "editDraft")
    /\ listing.status = "draft" /\ call[c].basis = listing.version
    /\ Room
    /\ listing' = Bumped(listing)
    /\ Took(c)
    /\ UNCHANGED <<unit, labels>>

ChangeImages(c) ==
    /\ Sent(c, "changeImages")
    /\ listing.status \in {"draft", "withdrawn"} /\ Room
    /\ listing' = Bumped(listing)
    /\ Took(c)
    /\ UNCHANGED <<unit, labels>>

\* The remaining conditions of a publication are InventoryTransactions' and
\* MediaReview's subject: here it may also be refused.
SetPublication(c) ==
    /\ \/ Sent(c, "publish") /\ listing.status # "published"
       \/ Sent(c, "withdraw") /\ listing.status = "published"
    /\ Room
    /\ listing' = [Bumped(listing) EXCEPT
                     !.status = IF call[c].kind = "publish" THEN "published" ELSE "withdrawn"]
    /\ Took(c)
    /\ UNCHANGED <<unit, labels>>

Freed(c) == [call EXCEPT ![c] = Idle]

\* A 4xx or 5xx answer: nothing was changed, and the page shows a message; the
\* form keeps its content and its version.
Refuse(c) ==
    /\ call[c].stage = "sent"
    /\ call' = Freed(c)
    /\ UNCHANGED <<server, page>>

Serve(c) ==
    \/ CreateProperty(c) \/ AddRentalUnit(c) \/ SetUnitVersioned(c)
    \/ CreatePublicListing(c) \/ UpdateDraft(c)
    \/ ChangeImages(c) \/ SetPublication(c)
    \/ Refuse(c)

-----------------------------------------------------------------------------
(* Being answered *)

Done(c, k) == call[c].stage = "done" /\ call[c].kind = k

\* What the page has been told once it has read this answer.
Learnt(c) == IF call[c].answer > told THEN call[c].answer ELSE told

\* onRetryFeed: the feed is asked for with everything told so far due.
PortfolioChanged(c) ==
    /\ \E k \in {"createProperty", "addUnit"} \union UnitCommands : Done(c, k)
    /\ ReloadProperties(Freed(c))
    /\ told' = Learnt(c)
    /\ due' = told'
    /\ UNCHANGED <<server, shown, items, label>>

\* The dialog closes: what it held is done with.  The answer to a creation names
\* the Unit's new version, but only the listings are fetched again: the row goes
\* on showing the version before it.
ListingChanged(c) ==
    /\ \E k \in ListingForm : Done(c, k)
    /\ ReloadListings
    /\ effects' = IF call[c].form THEN Emptied({call[c].kind}) ELSE effects
    /\ call' = IF call[c].form THEN Forgotten(Freed(c), {call[c].kind}) ELSE Freed(c)
    /\ told' = Learnt(c)
    /\ UNCHANGED <<server, rows, items, label, due>>

\* runCommand rewrites its own copy and fetches nothing; the row's command has
\* the listings fetched.
PublicationChanged(c) ==
    /\ \E k \in Publication : Done(c, k)
    /\ call' = Freed(c)
    /\ \/ items = None /\ ReloadListings /\ UNCHANGED items
       \/ /\ items # None
          /\ items' = IF items = "none" \/ ~call[c].form THEN items
                      ELSE IF call[c].kind = "publish" THEN "published" ELSE "withdrawn"
          /\ UNCHANGED <<fetch, shown>>
    /\ UNCHANGED <<server, rows, label, effects, known>>

ImagesChanged(c) ==
    /\ Done(c, "changeImages")
    /\ call' = Freed(c)
    /\ UNCHANGED <<server, page>>

\* The connection breaks: the page reports an error, the server may go on.
LoseAnswer(c) ==
    /\ call[c].waiting
    /\ call' = [call EXCEPT ![c] = IF @.stage = "sent" THEN [@ EXCEPT !.waiting = FALSE, !.form = FALSE]
                                   ELSE Idle]
    /\ UNCHANGED <<server, page>>

-----------------------------------------------------------------------------
\* Another member's command on the same Unit or the same PublicListing.
Elsewhere ==
    /\ \/ Room /\ unit' = unit + 1 /\ UNCHANGED <<labels, listing>>
       \/ /\ listing = NoListing /\ Room
          /\ listing' = [status |-> "draft", version |-> 1]
          /\ unit' = unit + 1
          /\ UNCHANGED labels
       \/ /\ listing # NoListing /\ Room
          /\ \E s \in {listing.status, IF listing.status = "published" THEN "withdrawn" ELSE "published"} :
                /\ s = "published" => listing.status # "published"
                /\ listing' = [status |-> s, version |-> listing.version + 1]
          /\ UNCHANGED <<unit, labels>>
       \/ \E l \in Labels \ labels : labels' = labels \union {l} /\ UNCHANGED <<unit, listing>>
    /\ UNCHANGED <<page, call>>

Next ==
    \/ \E f \in Feeds : ReadFeed(f)
    \/ \E slot \in Feeds \union {"late"} :
          Ignored(slot) \/ ShowProperties(slot) \/ ShowListings(slot)
    \/ PropertiesFail \/ ListingsFail \/ RetryProperties \/ RetryListings
    \/ \E k \in Guarded : Rewrite(k)
    \/ Filter \/ Navigate
    \/ SubmitCreateProperty \/ SubmitAddUnit
    \/ \E k \in UnitCommands : SubmitUnitCommand(k)
    \/ SubmitCreateListing \/ SubmitEditDraft \/ SubmitImages
    \/ RunCommand \/ SubmitPublication
    \/ \E c \in Calls :
          \/ Serve(c)
          \/ PortfolioChanged(c) \/ ListingChanged(c) \/ PublicationChanged(c) \/ ImagesChanged(c)
          \/ LoseAnswer(c)
    \/ Elsewhere

Spec == Init /\ [][Next]_vars

-----------------------------------------------------------------------------
(* Properties *)

(***************************************************************************)
(* What a user wrote into a form takes effect at most once, however often  *)
(* the button is pressed: after a lost answer the second click carries a   *)
(* new idempotency key, and only the version, the label or the Unit's one  *)
(* listing stands in its way (generateIdempotencyKey and its callers).     *)
(***************************************************************************)
OneIntentOneEffect == \A k \in Guarded : effects[k] <= 1

\* c is a command on the Unit that goes out in this step.
GoesOut(c) ==
    call[c].stage = "idle" /\ call'[c].stage = "sent" /\ call'[c].kind \in UnitCommands

(***************************************************************************)
(* A command on the Unit never goes out with a version older than one the  *)
(* page had been told when it last asked for the portfolio (the comment at *)
(* currentVersion), however late the fetches before it come in: the answer *)
(* to a new price or availability, and the reload it starts, let the row's *)
(* next command pass.                                                      *)
(***************************************************************************)
NeverBehindTheLastReload == [][\A c \in Calls : GoesOut(c) => call'[c].basis >= due]_vars

(***************************************************************************)
(* More than that does not hold, and no run lists it: the answer to the    *)
(* creation of a listing tells the page the Unit's new version too, but    *)
(* has only the listings fetched again (submitCreateListing), so the next  *)
(* price or availability goes out behind it and is refused as stale.       *)
(***************************************************************************)
NeverBehindItself == [][\A c \in Calls : GoesOut(c) => call'[c].basis >= told]_vars

=============================================================================
