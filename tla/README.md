# A TLA+ model of Keyforta Property

Keyforta Property is a rental-property service: landlords and managers keep
Properties, Units, prices, availability, leases and public listings; the public
sees the published listings; platform administrators review what is shown. The
program is a set of Node services in front of PostgreSQL. The rules about data,
and the concurrency control of data, are in the stored functions of
`infra/postgres/migrations/0001_baseline.sql`; the API (`apps/api`) opens one
transaction per command, resolves the actor, calls one stored function and
translates its error codes. Around this core are three programs with control of
their own: the portal page in the browser (`apps/portal-web`,
`packages/browser-auth`), the MCP server (`apps/mcp-server`) with its sessions,
and the scripts that deploy the company's development foundation on Azure
(`scripts/infra/company-development*.mjs`). The modules here model all four.

Line numbers below are those of `0001_baseline.sql` unless a file is named.

## 1. The system

| part | state | operations | where |
|---|---|---|---|
| Rental inventory | `properties`, `units`, `unit_pricing_versions`, `unit_availability_versions`, `leases` | create Property, add Unit, set pricing, set availability, draft lease, archive Unit, archive Property, set verification | 402–797, 844–934, 1085–1190, 2760–2829, 3004–3192 |
| Public listings | `public_listings`, `public_listing_images`, publication, review and inventory events | create, edit draft, upload and delete image, review, publish, withdraw | 936–1044, 1289–1361, 2347–2524, 2831–3002, 3257–3407 |
| Idempotency | `rental_inventory_creation_replays` | claim a key, record a result | 2003–2013, 2238–2276 |
| Transactions of the API | one pooled connection per command | begin, commit, rollback, release | `apps/api/src/database.ts` 98–118 |
| Sign-in and access | `memberships`, `landlord_onboarding_applications`; the browser's snapshot and session | apply, decide, look up, sign in, sign out, reload | 200–400, 1220–1287, `packages/browser-auth/src/index.js`, `apps/portal-web/src/portal-app.jsx` |
| Portal page | two feeds, the forms of a row, the requests under way | load, submit, be answered, retry, filter, navigate | `apps/portal-web/src/property-management-panel.jsx`, `listing-publication-panel.jsx`, `hooks/` |
| MCP server | sessions in memory | open, use, close, expire, restart | `apps/mcp-server/src/sessions.ts`, `app.ts` |
| Foundation deployment | ARM deployments, checkpoints, the operator's grants | plan, apply, poll, re-enter, audit, hand over | `scripts/infra/company-development*.mjs` |
| Invitations, assignment events | `membership_invitations`, `manager_property_assignments` and events | assign, invite, accept, revoke | 2626–2758, 3194–3255 |
| Ledger | `payments`, `receipts` | post, reverse | 1880–2001, 2278–2344 |
| Public read side | the published snapshot, inquiries | list, get, ask for a viewing | 1046–1083, 2528–2560 |
| Jurisdiction policies, migrations | policy versions; applied files | activate, resolve; migrate | `apps/api/src/migrate.ts` |
| Admin and public web, contracts, authorization package, templates | form state, schemas, pure tables | | `apps/admin-web`, `apps/public-web`, `packages/*`, `infra` |

How they interact. Every API command runs in one READ COMMITTED transaction on
a connection of a pool. The commands share rows and nothing else, so what one
does to another is a matter of row locks, of what is read without a lock, and
of what a client still believes when it acts on a screen loaded earlier. An
archive reaches into the listings; a publication and a review read Property,
Unit, price, availability and assignment, each in a statement of its own.

The portal page acts on feeds that were read some time ago and may be
overtaken; it talks to the server by requests whose answers may be late or
lost. A session of the portal needs a sign-in, which happens in a pop-up, and a
membership, which is looked up while the sign-in may already be over. The MCP
server shares nothing with the other parts but the identity provider. The
deployment runs share Azure with each other, and leave a checkpoint behind that
a later run continues from.

What is hard: the interleaving of statements of two commands (archive against
archive, archive against publication, lease against archive); lock orders and
foreign keys that lock behind the author's back; retries of a command whose
answer was lost, while the first attempt may still be running; a person who
decides on what they saw and not on what is there now; versions that must stay
a faithful name for content; fetches, look-ups and pop-ups that end after what
they were started for; a store that fills up with sessions nobody uses; and a
deployment that goes on in Azure when the run that started it is gone.
`PROJECT.json` lists these hazards line by line, those of the parts that have
no module yet included.

What makes each part correct:

* inventory: a live Property keeps an active Unit, an archived one keeps none;
  a leased Unit is never archived; archive is final for a Unit;
* listings: what is published is what was approved, by somebody who saw it, of
  a live Unit; no edit is lost; every change but an archive's leaves an event;
* idempotency: one key, one effect, one answer, whatever is retried or lost;
* portal page: what a user wrote takes effect once; no command on a Unit goes out
  behind what the page had been told when it last asked for the portfolio;
* portal session: a session belongs to an account that earned it, and a
  sign-out lasts until somebody signs in;
* MCP sessions: no more than the capacity, refused only when it is reached,
  never revived, used by their opener alone, and never for ever;
* deployment: one at a time; a continuation only over a complete bootstrap that
  was handed over; a checkpoint tells the truth; no bootstrap after the handoff;
* ledger: one payment per reference and per key, at most one reversal.

## 2. Modules

    RentalInventory            the promise: each command one atomic step
      ^ implemented by
    InventoryTransactions      statements, row locks, READ COMMITTED, deadlock,
                               lost connections; adds listings and assignment
    MediaReview                one listing's content, its editors and reviewers
    ExactlyOnce                the promise of an idempotency key
      ^ implemented by
    CreationReplay             the key rows and the transactions that use them
    UnitIntervals              one Unit's price and availability histories in time
    PortalCommands             the portal page: feeds, forms, requests, versions
    PortalSession              application, membership, sign-in, session
    McpSessions                the MCP server's sessions and requests
    FoundationDeployment       runs, checkpoints, Azure and the operator

`MC*` modules add symmetry; `*Proofs` modules hold the proofs, one for each of
these but PortalCommands and PortalSession, which share PortalProofs, and
ExactlyOnce, which CreationReplayProofs is about.

### RentalInventory

One Property and its Units. `unit[u]` folds the row of `app.units` with what a
reader finds now in its price and availability histories: `status` (absent,
active, archived), `publication`, `priced`, `offer`. `lease[u]` says whether
the Unit has a lease that is not archived. Each command is an action whose
guard is the stored function's checks: `AddUnit`, `SetPricing`,
`SetAvailability`, `CreateLease`, `CreateListing`, `SetVerification`,
`ArchiveUnit`, `ArchiveProperty`. No code path archives a lease or sets
`accepted_at`, so a lease stays and no Unit becomes `occupied`; the branch that
derives `occupied` (3079) and the archives' occupancy checks (572, 740) are
dead until such a path exists, and the lease count covers them. Versions are
left to MediaReview and CreationReplay, where clients use them.

Time is abstracted: a price or availability version counts from the command
that sets it. A version may be dated in the future in the code; a publication
then behaves as if it had not been set yet, which is a state the model has too.
The dates themselves are the subject of UnitIntervals.

### InventoryTransactions

The same rows with one listing per Unit, `assigned`, the row locks `held` by
each request and the stage `tx` each request has reached. A function that takes
one row lock and reads nothing that lock does not protect is one step
(`InventoryCommand`, `EditListing`, `RejectMedia`, `Unpublish`, `Assign`). The
five that take several locks or read unlocked rows go statement by statement:

| request | steps |
|---|---|
| archive Unit | `LockProperty`, `LockUnit`, `ScanPublished`, `LockPublished`, `CommitArchive` |
| archive Property | `LockProperty`, `LockUnit` for each, `ScanPublished`, `LockPublished` for each, `CommitArchive` |
| create listing | `LockUnit`, then the foreign key's wait for the Property and `CommitListing` |
| publish, approve | `LockListing`, `ReadProperty`, `ReadUnit`, `CommitPublication` or `CommitApproval` |

`Refuse` is a request that answers false or raises; `Rollback` a lost process
or connection at any step; `DeadlockVictim` PostgreSQL's 40P01. Writes happen in
a request's last step: nobody sees an uncommitted write and the locks taken
before are held until commit, so nothing is lost by it. All row locks exclude
each other in the model: `FOR UPDATE`, `UPDATE`, and a foreign key's
`FOR KEY SHARE` against a `FOR UPDATE`. That two `FOR KEY SHARE` would share is
irrelevant, since a request that only key-shares a row is one step.

An UPDATE with a condition is two things in PostgreSQL: the rows are chosen in
the statement's snapshot, each is locked, and the condition is looked at again
on the version that was locked. `ScanPublished` and `Withdraw` keep the two
apart: that is where the finding below comes from.

One serialization is chosen: `set_manager_property_assignment` reads the
Property's `archived_at` without a lock, so it may commit after an archive it
overlapped; the model orders it before. No property here depends on it, since
an archived Property publishes nothing whoever is assigned.

### MediaReview

`links` is what the draft names (title, summary and URLs: a change of any is a
change of the set), `image` the rows of `public_listing_images`, `recorded` the
listing versions that an event row names, `raised` those an archive raised the
listing to, `approved` the content under the last approval. `view[e]` is the draft
an editor's screen was loaded with (the uploads are fetched apart, and a save
sends none); `seen[v]` what a reviewer last looked at. Each command locks the listing's row first and is one
step. Whether Property, Unit, price and assignment allow a publication is
InventoryTransactions' subject; here it may turn out either way, so an approval
may publish or only decide, and an archive may withdraw at any time.

### CreationReplay and ExactlyOnce

`row[k]` is the committed row of a key, `effects` the committed business
changes, `target` the row the command changes, `call[c]` an attempt with its
key and payload and the stage of its transaction. The three sets of keys are the
three families the code has: `create_rental_property` has no target row;
updates refuse an archived target before they look at the key; archives look
at the key first. A payload is the version the client expects, which is the
only part that decides anything else. `Claim` waits for a concurrent claim of
the key as `INSERT ... ON CONFLICT DO NOTHING` and `SELECT ... FOR UPDATE` do.
`Crash` is a rollback anywhere before commit; an answer lost after commit is a
call whose client sends another. `authorized` and `blocked` change under the
calls (a revoked assignment, a new lease).

ExactlyOnce is the promise: the first request that gets through decides, once,
and later ones with that payload are told that outcome; only what somebody
`asked`, with that key and that payload, is ever decided. CreationReplay
implements it with `outcome <- row` and `asked <- Asked`, the keys and payloads
of the calls that were sent.

### UnitIntervals

`prices` and `offers` are the version rows of one Unit as half-open intervals
`[from, to)` with a value, `now` the clock, `shown` the cached column
`units.availability_status`, `archived` whether the Unit is. `Tick` passes time,
`SetPricing` and `SetAvailability` take any date in the past or the future, as
the API does, and `Archive` closes what is open. Each of them holds the Unit's
row lock from its start and is one step. The check constraints
`effective_to > effective_from` are guards (`WellFormed`): a command they refuse
does nothing. The exclusion constraints and the trigger that lets a version only
be closed are no guards; the properties say that no sequence of commands ever
gives them anything to refuse. `MaxTime` bounds the clock and the dates and is a
bound of the model; `Forever` stands for a null `effective_to` and lies beyond
any end the archive can write. A tick is a microsecond, the resolution of
`timestamptz`.

### PortalCommands

One open page with one Unit of one Property and that Unit's one listing. At the
server are the Unit's version, the `labels` taken and the `listing`. On the page
are the two feeds (`rows` of useRentalProperties, `shown` of
useManagerListings), each with a `fetch` that the server reads at one moment
(`ReadFeed`) and that arrives at another (`ShowProperties`, `ShowListings`).
When a feed is asked again the running fetch becomes the `late` one, which still
arrives and finds nobody listening (`Ignored`, the hooks' `active`). One late
fetch at a time is kept.

`call[c]` is a request with the version or label it names (`basis`), whether it
carries what the form still holds (`intent`), whether the form is still on the
page, whether the page still waits and the version of the Unit that its answer
names (`answer`): that of a price, an availability and the creation of a listing,
which bumps the Unit too. `told` is the highest of these the page has read, `due`
what `told` was when the page last asked for the portfolio. The submissions carry the conditions of
their buttons. The serving actions hold the rules that decide about a retry, the
version, the label and the status; everything else a stored function may refuse
is `Refuse`. `PortfolioChanged`, `ListingChanged`, `PublicationChanged` and
`ImagesChanged` are the four callbacks of an answer with what each reloads.
`LoseAnswer` is a broken connection, after which the server may still do what it
was asked. `Rewrite` is the user typing, `Filter` and `Navigate` take forms off
the page.

`effects[k]` counts how often the content that form k now holds took effect; it
starts again when the content changes. `items` is ListingPublicationPanel's own
copy of the status, and None in the layout that has the command in the row
(`enableListingActions`). A token is assumed at hand: what happens when there is
none is PortalSession's `EnableLiveCommands`. `MaxVersions` bounds the two
versions together.

### PortalSession

At the server `application`, `member` and `granted` (all memberships there ever
were); in one tab the snapshot `auth` of browser-auth, the account the sign-in
library is `active` for, its `popup`, the membership `lookup` (the one listened
to and the last one given up), the `membership` it named and the `session`.
`Publish` is a snapshot together with the effect of useMembership that listens
to its status. `SignIn`, `EnableLiveCommands`, `Logout` and `LeavePending` are
the four buttons. `Submit` and `Decide` each hold a lock until they commit and
are one step; `Administer` stands for every other way a membership comes and
goes. `out` remembers a sign-out that nobody has signed in since.

### McpSessions

`session[i]` is the record in the store with two ages instead of two times,
each counted up to its limit and no further, so the clock needs no bound.
`request[r]` is a request between two awaits: `authenticating` while the
credential is verified, `executing` while a tool runs. The handlers' early
returns before the store is looked at are `RejectCredential`, `Deny` and
`RejectMessage`. `open`, `touch` and `close` of `sessions.ts` are in
`Initialize`, `Touch` and `Close`, with the pruning each does. `issued` are the
identifiers clients hold; identifiers are 32 random bytes, so one that somebody
may still present is never drawn again. `Restart` forgets the store.

### FoundationDeployment

`arm[s][r]` is the ARM deployment of stage s for revision r, `stock` which of
the stages' resources exist, `altered` whether a bootstrap resource was changed,
`handoff` whether human grants and Defender are on, `writer` the stage the apply
identity may write, `window` the bounded continuation authority, `run` the one
run in progress and `records` the checkpoints uploaded as artifacts.

A run goes `Plan`, `Bind`, `Verify`, `Assess`, `Reassess`, `Submit`, `Put`,
`Poll`, and `Stop` may end it anywhere, with or without its checkpoint.
`Admissible` is `assessStage`, with one operator for each thing it checks;
a preview (`Plan`) checks its own, powerless identity where an apply checks that
the bootstrap's writer is revoked (`WriterRevoked`);
`AuditCompletion` writes the receipt of a first run that failed although its
deployment had succeeded. `Deploy` is Azure, which goes on whoever watches.
The detail of an inventory is abstracted to none, partial or complete for each
stage and to whether a bootstrap resource differs from the template.

Three assumptions come from operation and not from the code: one run at a time
(the workflows share a concurrency group), the operator grants and hands over
only between runs, and the bootstrap's writer is removed before the human
grants (`infra/README.md` 762–763 and 798–800). He may revoke at any time.
`BootstrapStillOpen`, `ContinuationFounded` and `ReceiptHolds` are what the
scripts check of that order.

## 3. Runs

| run | what is asked | bounds | distinct states |
|---|---|---|---|
| `rental_inventory` | the invariants of the atomic commands | 3 Units, symmetry | 3 540 |
| `transactions` | the interleaved commands implement the atomic ones; only reviewed listings are published; who can deadlock | 2 Units, 2 requests, 11 commands, symmetry | 1 227 498 |
| `requests_end` | every request ends | 1 Unit, 2 requests, all 14 commands, fair | 62 616 |
| `media_review` | the review gate, lost edits, event history | 2 links, 3 uploads, 2 editors, 1 reviewer, cap 3, 6 versions | 186 732 |
| `replay` | exactly once, no stale change, every call ends | 1 create key, 2 update keys, 1 archive key, 3 calls, 4 versions, fair | 82 956 |
| `intervals` | one price and one availability at any instant, no gap, history only closes | 2 prices, clock and dates 0 to 4 | 53 460 |
| `portal_commands` | a form takes effect once; no command is behind the last reload | 2 requests, 1 label, 4 versions, symmetry | 4 857 654 |
| `portal_session` | a session is earned; a sign-out lasts | 2 accounts, 2 organizations | 376 368 |
| `mcp_sessions` | capacity, no revival, the opener alone, every session ends | 2 callers, 2 versions, 2 identifiers, 2 requests, limits 2 and 3, capacity 1, a clock that moves | 382 392 |
| `foundation` | one deployment at a time, truthful checkpoints, stages in order, bounded authority | 3 revisions, 2 of one source, 3 runs | 939 256 |
| `published_archived_unit` | violated: a listing of an archived Unit is published | 1 Unit, 2 requests | |
| `bootstrap_regains` | violated: a completed bootstrap gets no deployment again | as `foundation` | |

Why the bounds are enough. The locks of one command touch one Property, the
Units below it and their listings, and every conflict is between two requests
about two siblings at most: two Units and two requests have the sibling
archives, the archive of a Property against that of a Unit, a publication
against either, and a deadlock of two. `transactions` leaves out
`setVerification`, `unpublish` and `reject`, each one step that the others'
combinations do not need; `requests_end` has them all. Three Units in
`rental_inventory` separate "the last Unit" from "one of two". Three calls give
a first attempt, a retry that overlaps it and a stranger with the same key; two
update keys give a lost update; four versions let all three calls change the
target. In `media_review` six versions are enough for create, edit, upload,
approve, publish, withdraw; three uploads with one removed give the reuse of a
position. In `intervals` five instants hold three superseded versions and an
open one with dates on either side of the clock, so that a version may end, be
open and begin before, at and after an archive.

In `portal_commands` two requests give a first click whose answer was lost and
the second click while the first is still served; a third would need a second
lost answer and adds no new kind of conflict. Two versions are taken by the
creation of a listing, the others by the two clicks or by another member. One
label gives the repeated label. In `portal_session` two accounts give one that
signs out and one that signs in, and two organizations one for each. In
`mcp_sessions` a capacity of one makes the store full at once, the second
identifier is the one refused or opened after a prune, and an idle limit below
the absolute one lets a session be kept alive until the absolute limit ends it.
In `foundation` three runs are a first run that is lost, one that re-enters,
and one that presents the first one's checkpoint again; the third revision is
one with another source.

`MaxVersion`, `MaxVersions`, `MaxRevision`, `MaxRuns`, `MaxTime` and the sets of
Units, calls, uploads, accounts and identifiers are bounds of the models and not
of the code; `MaxImages` is 10 in the code, the capacity and the limits of MCP
sessions are its configuration. The proofs of section 5 hold for
every value of each of them.

Deadlock checking is off only where the system may come to rest (everything
archived, all calls ended, a bound reached). `portal_commands`,
`portal_session` and `mcp_sessions` check it. Deadlocks between locks are the
subject of `DeadlockNeedsListingCreation`, `EveryRequestEnds` and
`EveryCallEnds`.

What the passing runs show:

* the inventory promise (`KeepsInventoryPromise`) survives the interleaving of
  statements: two archives of the last two Units are serialized by the
  Property's row, a lease cannot slip behind an archive's count, an added Unit
  cannot survive the archive of its Property;
* although publication and review read without locks, a published listing
  always has an approved decision, an image and a price
  (`PublishedListingIsReviewed`), because the listing's own row is locked and
  prices are never taken away;
* the lock order Property, Unit, listing that the comment at 676 asks for
  holds for all but `create_public_listing`, whose foreign key takes the
  Property after the Unit and can deadlock with an archive. PostgreSQL then
  aborts one of the two with 40P01, which `translateWriteError` does not know:
  the client sees a 500 and may retry;
* any published content was approved as it is, images included; a save that
  passes the version check overwrites no draft its author has not seen;
* a key decides once, under retries, races, crashes and revocations;
* whatever dates clients give in whatever order, a Unit has at most one price
  and one availability at any instant and, once it has one, never a gap;
* although the portal draws a new idempotency key at every click, what a user
  wrote into an inventory or listing form takes effect once: the version, the
  label or the Unit's single listing stands in the way of the second click. The
  creation of a Property and an upload have no such guard (below);
* a command on the Unit is never behind what answers had told the page when it
  last asked for the portfolio, because a fetch that was overtaken is not
  listened to. A price and an availability have it asked for at once, so the
  next of them passes; the creation of a listing does not (below);
* whoever uses the tab, in whatever order pop-ups close and look-ups answer, a
  session's organization is one its account is or was a landlord of;
* a full MCP store refuses only while all its sessions could still be used, and
  no client, however busy, keeps one for ever;
* whatever runs are cancelled or lost, no second deployment starts over one that
  still runs, a completed checkpoint is that of a deployment that succeeded, and
  a bounded authority that has run out neither writes nor completes.

### Findings

* `published_archived_unit` (code). A publication has read the Unit as active
  and holds the listing's lock; the archive locks Property and Unit, sees no
  published listing and so waits for none; both commit, in either order. The
  listing is published on a Unit that is archived for good. The public list
  hides it (`runtime_public_listing_is_eligible`), but the row, the publication
  event and the manager's list say published, and no later archive will
  withdraw it.
* `bootstrap_regains` (code). `assessStage` asserts of a re-entry "Completed
  bootstrap must never regain write authority"
  (`scripts/infra/company-development-state.mjs` 1101), but it looks for a
  completion only in the predecessor the run names. A first run fails and leaves
  an incomplete checkpoint; a second re-enters from it and completes; a third
  names the first checkpoint again, with the second's deployment among the
  reviewed history, and deploys. The operator has to grant the writer and to
  name the old checkpoint for it, and no human handoff has taken place yet
  (`NoBootstrapAfterHandoff` holds).

### Differences without a run

Publication, review and images:

* A review names a listing and no version (2371), so an upload or a save between
  reading and deciding is approved unseen, and a draft so approved goes public
  in the same step; REQ-037 (34) wants a listing reviewed before it is
  published. `ApprovedContentWasSeen` in MediaReview states what fails.
* Uploads are counted against URLs and uploads, saves against URLs only (3293):
  ten uploads and then ten URLs pass the "cap of 1–10 images per listing" of
  REQ-038 (92). `ListingWithinImageCap` states it.
* An archive raises a listing's version when it withdraws it and writes no
  event for the listing; `OnlyArchivesAreUnrecorded` exempts exactly the versions
  so `raised`, and no other change of a listing, withdrawn or not.

Inventory:

* `set_unit_availability` (3082) writes `units.availability_status` at once
  whatever `effective_from` says, and nothing writes it when the date comes,
  while the proposal (`RENTAL_PROPERTY_INVENTORY_REQUIREMENTS_PROPOSAL.md` 206)
  derives it; the portal's unit list shows that column (1876). The public list
  and publication read the intervals and are right. `ShownStatusApplies` in
  UnitIntervals states it.
* `set_property_verification_status` does not look at `archived_at`, while the
  proposal lists verification among the commands an archived record rejects.
  `SetVerification` has no such guard either.
* Updates, `add_rental_unit` and `create_public_listing` answer "not found" to
  a retry after the target was archived, though PROP-014 promises the original
  result; the archives look at the key first and do answer it (`TurnAway`). No
  property refuses this: ExactlyOnce lets an error follow a decided key.
* A change dated in the future can be followed only by one dated later: an
  earlier date would close the open version before it begins, which the check
  constraint refuses, so a date given by mistake cannot be taken back.
* The archive closes the open availability only. A version that was already
  closed by a later-dated one and ends in the future keeps its end and still
  covers the present of an archived Unit. Every reader also looks at
  `archived_at`, so nothing is shown for it.
* An archive in the very microsecond in which the open availability begins is
  refused by the check constraint and succeeds when it is sent again.

Portal page:

* The creation of a Property and an upload can take effect twice: a second
  click after a lost answer carries a new key
  (`apps/portal-web/src/property-management-panel.jsx` 1139) and nothing else
  tells the two apart.
* The creation of a listing raises the Unit's version and its answer names it
  (SQL 1018–1042), but only the listings are loaded again
  (`property-management-panel.jsx` 1245–1248), so the next price or availability
  goes out behind it and is refused as stale. `NeverBehindItself` in
  PortalCommands states what fails; no document claims it: the comment at 405–408
  speaks of prices and availabilities. In the same way uploads
  and removals raise the listing's version and load nothing, so the next edit of
  the draft is refused. After a refused or lost command nothing is loaded again
  either. An edit of the draft right after a successful one, before the
  listings are back, is refused too.
* The comment at 405–408 describes a local version that carries a first command's
  result to a second; the answer to the first also reloads the portfolio, which
  takes the form off the page, so nothing ever reads it.
* A listings fetch that was read before a publication and arrives after it puts
  the old status back into ListingPublicationPanel, whose command fetches
  nothing; so does leaving its section and returning.

Sign-in and access:

* `enableLiveCommands` may sign in another account while the session keeps the
  first one's organization and e-mail address. The server resolves every
  command's actor by its token, so the other account gets its own rights.
* The portal takes the first of the memberships, which come in no order (a
  member who is auditor in one organization and landlord in another may get no
  session), and `resolve_actor_memberships` ignores the effective interval that
  `resolve_actor` checks; nothing writes `effective_to`.
* An applicant who was rejected is told that an application is pending (409).
* In the administrators' review queue a load that was overtaken is listened to,
  and the row that is busy is one identifier for all.
* `set_manager_property_assignment` would write two `revoked` events if two calls
  raced (the partial index at 4283 covers active rows only). The program calls
  it from `create_rental_property` alone (1144), on a Property nobody else can
  see yet; every other call of it, and every call of
  `accept_membership_invitation`, `post_payment` and `reverse_payment`, is a
  test's.

## 4. Fairness

`FairSpec` in InventoryTransactions and CreationReplay is strong fairness of
each request's own next step, `Progress`. PostgreSQL queues the transactions
that wait for a row lock and grants it in turn, so a request whose lock becomes
free again and again gets it: weak fairness would let an endless stream of
others pass it. The deadlock detector runs after `deadlock_timeout` on every
wait, so `DeadlockVictim` is part of a request's progress. In McpSessions `Spec`
has weak fairness of `Tick`: time passes, whatever is or is not requested.
Nothing is assumed of clients: no command need ever be sent, no reviewer need
ever decide, no crash need happen or stop happening. PortalCommands,
PortalSession and FoundationDeployment assume no fairness and promise no
progress: a user need not return and an operator need not act.

## 5. Proofs

TLAPS proves these for every value of the constants:

| module | theorem | establishes |
|---|---|---|
| RentalInventoryProofs | `TypeCorrect` | `[]TypeOK` |
| | `LiveProperty` | a live Property has an active Unit |
| | `ArchivedProperty` | an archived one has none |
| | `LeasedUnit` | a leased Unit is active |
| | `FrozenUnit` | no step changes an archived Unit |
| InventoryTransactionsProofs | `Transactions`, `TypeCorrect` | the inductive invariant `TransactionInv`; `[]TypeOK` |
| | `KeepsPromise` | the transactions implement RentalInventory |
| | `RequestsKeepInvariants` | so they keep its invariants |
| | `ReviewedListing` | what is published is reviewed, illustrated and priced |
| | `DeadlockNeedsListing` | every deadlock has a `create_public_listing` in it |
| MediaReviewProofs | `TypeCorrect` | `[]TypeOK` |
| | `ReviewGate` | published content is approved content |
| | `NoLostEdit` | equal versions, equal drafts |
| | `History` | only the versions archives raised have no event |
| UnitIntervalsProofs | `HistoriesHold`, `TypeCorrect` | the inductive invariant `HistoryInv`; `[]TypeOK` |
| | `OneApplies` | never two prices or two availabilities at an instant |
| | `NeverLapses` | never a gap after the first version |
| | `ArchiveCloses` | an archived Unit has no open availability |
| | `OnlyEverCloses` | a step only adds versions and closes open ones |
| CreationReplayProofs | `TypeCorrect` | `[]TypeOK`: a recorded result is an effect there is, or a refusal |
| | `KeysDecideOnce` | CreationReplay implements ExactlyOnce |
| | `NoLostChange` | no two changes of one version of the target |
| FoundationDeploymentProofs | `FoundationHolds`, `TypeCorrect` | the inductive invariant `DeploymentInv`; `[]TypeOK` |
| | `DeploymentsAlone` | never two deployments at once |
| | `CompletedIsTrue` | a completed checkpoint is of a deployment that succeeded |
| | `ContinuationFounds` | a continuation stands on a complete, handed-over bootstrap |
| | `HandoffIsFinal` | no bootstrap starts after the handoff |
| | `BoundedAuthority` | nothing starts or completes when the window is over |
| McpSessionsProofs | `SessionsHold`, `TypeCorrect` | the inductive invariant; `[]TypeOK` |
| | `RefusedWhenFull` | refused only at the capacity |
| | `DeadForGood` | an issued identifier that is dead stays dead |
| | `OpenersOnly` | only the opener uses, keeps or closes a session |
| PortalProofs (PortalCommands) | `PageHolds`, `PageTypeCorrect` | the inductive invariant `PageInv`; `[]TypeOK` |
| | `IntentsActOnce` | what a form holds takes effect at most once |
| | `KeepsUpWithTheLastReload` | no command goes out behind what was told at the last reload |
| PortalProofs (PortalSession) | `SessionHolds`, `SessionTypeCorrect` | the inductive invariant `SessionInv`; `[]SessionTypeOK` |
| | `EarnedSession` | the session's account was a landlord there |
| | `SignOutLasts` | no session opens before the next sign-in |

RentalInventory: the four state formulas are inductive together with the type
invariant, with no further strengthening; `ArchivedPropertyHasNoUnit` needs the
guard of `AddUnit`, `LivePropertyHasUnit` that of `ArchiveUnit`, and the action
property follows from the guards and the fact that a leased Unit is active.

InventoryTransactions: the argument is about what an archive has read when it
commits. `TransactionInv` has four parts. `LocksInv` says which stages a request
passes, that no row is held twice (`Exclusive`) and who holds what (`HeldInv`):
the Property's row only an archive past its first step, a Unit's row an archive
or the creation of a listing, a listing's row an archive that withdraws or a
publication that reads. `ArchiveInv` says that what an archive has read stays
true: the archive of a Property covers exactly the active Units, and one that
has reached the listings may archive (`MayArchive`). That is where the locks
earn their keep: lemma `ArchiveFreezes` shows that nobody else archives the
Property or a Unit or adds one while an archive holds the Property's row, and
that nobody leases a Unit whose row it holds.
`RowsInv` relates Unit and listing (`ListingInv`) and contains
`PublishedListingIsReviewed`, which is inductive with it; `PublicationInv` keeps
the listing a publication began with.

With it every step is a step of RentalInventory or a stutter: an archive's
commit is its one archive, `CommitListing` its `CreateListing`, the commands of
one step are themselves, and everything else leaves Property, Units and leases
alone. `RequestsKeepInvariants` then needs no further argument: the theorems of
RentalInventoryProofs are instantiated and carried over the refinement. For
deadlocks, take a group of requests that wait for one another without a
`create_public_listing`. A reading publication waits for nothing, so a Unit's or
a listing's row is held by an archive; only one archive at a time is past the
Property, and it would have to wait for another such. So none of the group is
one, everybody waits for the Property, and only such an archive holds that.

MediaReview: `PublishedContentIsApproved` says nothing of a listing that is not
published, so it is not inductive. `GateInv` strengthens it: whenever the
decision is "approved", published or not, the approved content is the content.
Every action that touches the content resets the decision, so the invariant
goes through; publication needs the decision. `NoLostEdit` is inductive
once every view's version is known to be no later than the listing's. `History`
is inductive as it stands: every step leaves the version, or raises it by one or
two with an event for each (`BumpRecords`), or is an archive's (`HistoryGrows`).
`TypeCorrect` needs a detour: an upload is
placed one behind the greatest position, which is a number only if there is a
greatest one. The invariant bounds the positions (`PositionsBounded`), and the
least bound of a non-empty set is its maximum (`MaxIsNumber`), by the library's
well-foundedness of the natural numbers and without an induction of its own.

UnitIntervals: that two versions never overlap says nothing of where the next
one goes. `HistoryInv` says that versions are well formed and pairwise disjoint,
that a live Unit's availability has an open version, and that prices are empty
or have one. The open version reaches `Forever` and is disjoint from the others,
so it begins no earlier than any of them ends; the check constraint lets the new
version begin only after the open one does, so cutting the open one there leaves
the new one alone in what follows. An archive leaves no open version and nothing
is inserted afterwards. `TimeAssumption` is all that is assumed: `MaxTime` may be
any positive number and `Amounts` any set.

CreationReplay: a step that records a result decides in ExactlyOnce only if the
key was undecided, and answers the caller only if it was unanswered. `ReplayInv`
keeps both: `ClaimsAreExclusive` (who has claimed a key holds its lock alone and
its row is empty) and `Unanswered` (a call is answered when it ends and not
before). With it every action maps to `Ask`, `Decide`, `Replay`, `Fail` or a
stutter. `NoLostChange` follows from the comparison of versions under the
target's lock; its invariant adds that the set of changes is finite, which its
cardinality needs. `TypeCorrect` adds that a recorded result is no greater than
the number of effects (`ResultsAreEffects`), which only ever grows.

FoundationDeployment: nothing in `OneDeploymentAtATime` says that no deployment
runs while a run makes up its mind. `DeploymentInv` adds that (`NothingRuns`
until a run has made its PUT), that a run that has decided may deploy
(`MayDeploy`: its own deployment has not succeeded, a bootstrap is not handed
over, a continuation stands on a bootstrap), that a succeeded deployment has its
whole stock, and that a run's own checkpoint is not completed before it is
verified. That one run proceeds at a time is what makes the first of these
survive the steps of the others.

McpSessions: `RefusalMeansFull` needs the capacity as an invariant,
`CapacityInv`: the live sessions are finitely many and at most `MaxSessions`.
Every step but `Initialize` can only lose live sessions, and `Initialize` has
counted them. `RequestInv` (an unfinished request has no answer yet, an
`initialize` names a version) carries the type of the session it opens.

PortalCommands: that nothing takes effect twice depends on what the second click
would send and on what the server would still accept. `PageInv` says the first
in `IntentsAreHeld`: a request that carries what a form still holds names the
label, the Unit's version or the listing's version that the page shows now, for
whatever changes those also empties the form. It says the second in
`EffectsSpend`: once a content took effect, the label is taken, the Unit or the
listing has moved past the version shown, or there is a listing (`Spent`). An
accepted request finds its form not spent and leaves it spent; the server only
moves forward, so it stays spent until the form is emptied. For forms to be
emptied with the rows the invariant needs `FetchingLoads`, that no row is shown
while the portfolio is being fetched. `PageKeepsUp` is the chain behind
`NeverBehindTheLastReload`: what the page has been told is no newer than the
Unit, so a fetch that is listened to, read after it was asked for, is no older
than what was due then, and the rows show what was fetched; `RequestsFit` says
that no answer names a version the Unit has not had. Lemma
`UnitCommandsAreSubmitted` shows that only a form's submission sends one.

PortalSession: that a session is earned depends on who is listened to.
`SessionInv` says that the look-up that is listened to is the signed-in
account's, that what it names was granted to that account, that a sign-in
pop-up and a signed-in snapshot exclude each other and that whoever is signed in
has signed in since the last sign-out.

The assumptions are those of the modules (`BoundsAssumption`,
`CommandsAssumption`, `KeysAssumption`, `LimitsAssumption`, `NilAssumption`,
`TimeAssumption`, `VersionAssumption`) and nothing about the
sizes of the sets of Units, editors, uploads, calls, callers, requests,
identifiers, labels, accounts, revisions or runs.

Every invariant, action property and refinement that a passing run checks is
proved. Only model-checked is liveness (`EveryRequestEnds`, `EveryCallEnds`,
`EverySessionEnds`), which like anything with ENABLED is out of this prover's
reach.

## 6. Not modelled

* The published snapshot and the public read side: reads of what
  InventoryTransactions and MediaReview write; that the snapshot keeps the price
  of its day is by design.
* Inquiries: one insert behind an advisory lock that deduplicates for an hour.
* The ledger and invitations: stored functions that only tests call, so there is
  no caller whose behaviour could be modelled. The assignment events: the program
  writes one, with the assignment, when a Property is created.
* The administrators' queues and the public pages; the portal's sections other
  than the inventory and the listings, which show fixed data.
* Jurisdiction policies and migrations.
* In the deployment scripts the comparison of predictions (what-if), the formats
  of evidence files and the read-only inspection workflow.
* Contracts, the authorization table (the stored functions do not consult it),
  design tokens, templates, checks: pure data and declarations. The contracts
  bound the inputs of the modelled commands.
* Row-level security: every function modelled filters by the organization it
  resolved. The servers' token checks keep no state and are early returns.

## 7. Plan

In order:

1. The safety that liveness rests on: that a request that waits for a row
   waits for a request that can go on, so that the fairness of section 4 is the
   only thing `EveryRequestEnds` and `EveryCallEnds` still need.
2. The public read side with inquiries: the snapshot against the intervals, one
   inquiry an hour.
3. The ledger, invitations and assignments, once the program calls them: at most
   one reversal, no payment twice, one active manager.
