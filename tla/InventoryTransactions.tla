------------------------ MODULE InventoryTransactions ------------------------
(***************************************************************************)
(* The stored functions of the rental inventory as PostgreSQL runs them:   *)
(* transactions at READ COMMITTED that take row locks one statement at a   *)
(* time, read what other transactions have committed in between, and write *)
(* when they commit.  RentalInventory is what they promise together.       *)
(*                                                                         *)
(* A function that takes one row lock and reads only what that lock        *)
(* protects is one step.  The five that take several locks, or read rows   *)
(* they have not locked, run in a request of their own: the two archives,  *)
(* create_public_listing, set_public_listing_publication(true) and the     *)
(* approving review.  A request writes in its last step only, since nobody *)
(* sees an uncommitted write and the locks it took are held until then.    *)
(*                                                                         *)
(* Source: src/infra/postgres/migrations/0001_baseline.sql                 *)
(***************************************************************************)
CONSTANTS
    Units,          \* the Units that may ever belong to the Property
    Requests,       \* the API calls that may be in progress at a time
    Commands        \* the commands that are issued; a bound of the model

AllCommands == { "addUnit", "setPricing", "setAvailability", "createLease",
                 "setVerification", "assign", "archiveUnit", "archiveProperty",
                 "createListing", "editListing", "publish", "unpublish",
                 "approve", "reject" }

ASSUME CommandsAssumption == Commands \subseteq AllCommands

VARIABLES
    property, unit, lease,  \* the committed rows, as in RentalInventory
    listing,        \* the committed row of app.public_listings of each Unit
    assigned,       \* whether the Property's manager has an active assignment
    held,           \* the rows each request has locked
    tx              \* where each request is

database == <<property, unit, lease, listing, assigned>>
vars == <<property, unit, lease, listing, assigned, held, tx>>

Promise == INSTANCE RentalInventory
ActiveUnits == Promise!ActiveUnits

\* "illustrated" is count_public_listing_images(...) >= 1.
Listing == [ status      : {"none", "draft", "published", "withdrawn"},
             media       : {"pending", "approved", "rejected"},
             illustrated : BOOLEAN ]

NoListing == [status |-> "none", media |-> "pending", illustrated |-> FALSE]

PropertyRow == <<"property">>
UnitRow(u) == <<"unit", u>>
ListingRow(u) == <<"listing", u>>
Rows == {PropertyRow} \union {UnitRow(u) : u \in Units} \union {ListingRow(u) : u \in Units}

(***************************************************************************)
(* A request: "units" are the Units it is about, "todo" those whose row it *)
(* has still to lock in its present statement.                             *)
(***************************************************************************)
Stages == {"idle", "lockProperty", "lockUnits", "lockListings",
           "readProperty", "readUnit", "readOffer"}

Tx == [ op    : {"none", "archiveUnit", "archiveProperty", "createListing", "publish", "approve"},
        stage : Stages,
        units : SUBSET Units,
        todo  : SUBSET Units ]

Idle == [op |-> "none", stage |-> "idle", units |-> {}, todo |-> {}]

TypeOK ==
    /\ Promise!TypeOK
    /\ listing \in [Units -> Listing]
    /\ assigned \in BOOLEAN
    /\ held \in [Requests -> SUBSET Rows]
    /\ tx \in [Requests -> Tx]

\* create_rental_property assigns the landlord who creates the Property.
Init ==
    /\ Promise!Init
    /\ listing = [u \in Units |-> NoListing]
    /\ assigned = TRUE
    /\ held = [r \in Requests |-> {}]
    /\ tx = [r \in Requests |-> Idle]

------------------------------------------------------------------------------
\* Row locks.  All of them exclude each other: SELECT ... FOR UPDATE, UPDATE,
\* and the FOR KEY SHARE of a foreign key against a FOR UPDATE.

Lockable(r, row) == \A q \in Requests \ {r} : row \notin held[q]
Free(row) == \A q \in Requests : row \notin held[q]

Archives == {"archiveUnit", "archiveProperty"}

\* create_public_listing's checks once it has the Unit's row.
MayList(u) == unit[u].status = "active" /\ listing[u].status = "none"

\* The rows that the statement a request is in has still to lock, in no order
\* the code chooses.
Wanted(r) ==
    LET t == tx[r] IN
    CASE t.stage = "lockProperty" -> {PropertyRow}
      [] t.stage = "lockUnits" /\ t.todo # {} -> {UnitRow(u) : u \in t.todo}
      [] t.stage = "lockUnits" /\ t.op = "createListing" /\ (\A u \in t.units : MayList(u)) ->
            {PropertyRow}
      [] t.stage = "lockListings" -> {ListingRow(u) : u \in t.todo}
      [] OTHER -> {}

\* Requests of which each waits for rows that others of them hold.
Deadlocked(group) ==
    /\ group # {}
    /\ \A r \in group :
          /\ Wanted(r) # {}
          /\ \A row \in Wanted(r) : \E q \in group \ {r} : row \in held[q]

Goto(r, stage, todo) == tx' = [tx EXCEPT ![r].stage = stage, ![r].todo = todo]

Lock(r, row) ==
    /\ Lockable(r, row)
    /\ held' = [held EXCEPT ![r] = @ \union {row}]

\* Mutant: the connection goes back to the pool with its transaction open.
EndKeepingLocks(r) ==
    /\ tx' = [tx EXCEPT ![r] = Idle]
    /\ UNCHANGED held

\* COMMIT or ROLLBACK: both release every lock.
End(r) ==
    /\ tx' = [tx EXCEPT ![r] = Idle]
    /\ held' = [held EXCEPT ![r] = {}]

Begin(r, op, units, stage, todo) ==
    /\ op \in Commands
    /\ tx[r] = Idle
    /\ tx' = [tx EXCEPT ![r] = [op |-> op, stage |-> stage, units |-> units, todo |-> todo]]
    /\ UNCHANGED <<database, held>>

------------------------------------------------------------------------------
\* archive_rental_unit and archive_rental_property.

\* Mutant: the Unit is locked and its siblings counted without the Property.
BeginArchiveUnitUnserialized(r, u) ==
    /\ unit[u].status # "absent"
    /\ Begin(r, "archiveUnit", {u}, "lockUnits", {u})

BeginArchiveUnit(r, u) ==
    /\ unit[u].status # "absent"
    /\ Begin(r, "archiveUnit", {u}, "lockProperty", {})

\* Mutant: the Units are locked without the Property's row before them.
BeginArchivePropertyUnserialized(r) ==
    Begin(r, "archiveProperty", ActiveUnits, "lockUnits", ActiveUnits)

BeginArchiveProperty(r) == Begin(r, "archiveProperty", {}, "lockProperty", {})

\* The set of active Units cannot change while the Property's row is locked,
\* so the second statement's snapshot is taken here.
LockProperty(r) ==
    /\ tx[r].stage = "lockProperty"
    /\ Lock(r, PropertyRow)
    /\ IF tx[r].op = "archiveUnit"
       THEN Goto(r, "lockUnits", tx[r].units)
       ELSE /\ ~property.archived
            /\ tx' = [tx EXCEPT ![r].stage = "lockUnits", ![r].units = ActiveUnits,
                                ![r].todo = ActiveUnits]
    /\ UNCHANGED database

LockUnit(r, u) ==
    /\ tx[r].stage = "lockUnits"
    /\ u \in tx[r].todo
    /\ Lock(r, UnitRow(u))
    /\ Goto(r, "lockUnits", tx[r].todo \ {u})
    /\ UNCHANGED database

UnitsLocked(r) == tx[r].stage = "lockUnits" /\ tx[r].todo = {}

MayArchive(r) ==
    /\ \A u \in tx[r].units : unit[u].status = "active" /\ ~lease[u]
    /\ tx[r].op = "archiveUnit" => ActiveUnits # tx[r].units

\* The Units whose listings an archive withdraws: the one it archives, or all
\* of the Property, archived before or not.
Withdrawable(r) == IF tx[r].op = "archiveProperty" THEN Units ELSE tx[r].units

\* UPDATE app.public_listings ... WHERE status = 'published' begins: it will
\* wait for the rows that are published in the snapshot it takes now.
ScanPublished(r) ==
    /\ UnitsLocked(r)
    /\ tx[r].op \in Archives
    /\ MayArchive(r)
    /\ Goto(r, "lockListings", {u \in Withdrawable(r) : listing[u].status = "published"})
    /\ UNCHANGED <<database, held>>

LockPublished(r, u) ==
    /\ tx[r].stage = "lockListings"
    /\ tx[r].op \in Archives
    /\ u \in tx[r].todo
    /\ Lock(r, ListingRow(u))
    /\ Goto(r, "lockListings", tx[r].todo \ {u})
    /\ UNCHANGED database

\* Mutant: the listings get the status that Property and Units get.
WithdrawAsArchived(r) ==
    listing' = [u \in Units |->
                  IF ListingRow(u) \in held[r] /\ listing[u].status = "published"
                  THEN [listing[u] EXCEPT !.status = "archived"]
                  ELSE listing[u]]

\* The UPDATE looks at the status again once it has a row's lock.
Withdraw(r) ==
    listing' = [u \in Units |->
                  IF ListingRow(u) \in held[r] /\ listing[u].status = "published"
                  THEN [listing[u] EXCEPT !.status = "withdrawn"]
                  ELSE listing[u]]

CommitArchive(r) ==
    /\ tx[r].stage = "lockListings"
    /\ tx[r].op \in Archives
    /\ tx[r].todo = {}
    /\ Withdraw(r)
    /\ unit' = [u \in Units |-> IF u \in tx[r].units THEN Promise!Archived(unit[u]) ELSE unit[u]]
    /\ property' = [property EXCEPT !.archived = @ \/ tx[r].op = "archiveProperty"]
    /\ End(r)
    /\ UNCHANGED <<lease, assigned>>

------------------------------------------------------------------------------
\* create_public_listing.

BeginCreateListing(r, u) ==
    /\ unit[u].status # "absent"
    /\ Begin(r, "createListing", {u}, "lockUnits", {u})

\* The INSERT checks its foreign key with a lock on the Property's row; no
\* later statement of the function waits.
CommitListing(r, u, illustrated) ==
    /\ UnitsLocked(r)
    /\ tx[r].op = "createListing"
    /\ tx[r].units = {u}
    /\ MayList(u)
    /\ Lockable(r, PropertyRow)
    /\ listing' = [listing EXCEPT ![u] = [status |-> "draft", media |-> "pending",
                                          illustrated |-> illustrated]]
    /\ unit' = [unit EXCEPT ![u].publication = "published"]
    /\ End(r)
    /\ UNCHANGED <<property, lease, assigned>>

------------------------------------------------------------------------------
\* set_public_listing_publication(..., true) and review_public_listing_media
\* with the decision 'approved': one row lock, then a chain of plain reads.

Publications == {"publish", "approve"}

BeginPublication(r, op, u) ==
    /\ op \in Publications
    /\ listing[u].status # "none"
    /\ Begin(r, op, {u}, "lockListings", {u})

Reviewable(u) == listing[u].status \in {"draft", "withdrawn"} /\ listing[u].media = "pending"

\* What the listing's own row and the assignment must be.  The code reads the
\* media decision last; nobody changes it under the lock.
ListingAllows(op, u) ==
    /\ assigned
    /\ op = "publish" => listing[u].status # "published" /\ listing[u].media = "approved"
    /\ op = "approve" => listing[u].status = "draft" /\ Reviewable(u)

PropertyAllows == ~property.archived /\ ~property.barred
UnitAllows(u) == unit[u].status = "active" /\ unit[u].publication = "published"
OfferAllows(u) == unit[u].priced /\ unit[u].offer = "available" /\ listing[u].illustrated

LockListing(r, u) ==
    /\ tx[r].stage = "lockListings"
    /\ tx[r].op \in Publications
    /\ u \in tx[r].todo
    /\ ListingAllows(tx[r].op, u)
    /\ Lock(r, ListingRow(u))
    /\ Goto(r, "readProperty", {})
    /\ UNCHANGED database

ReadProperty(r) ==
    /\ tx[r].stage = "readProperty"
    /\ PropertyAllows
    /\ Goto(r, "readUnit", {})
    /\ UNCHANGED <<database, held>>

ReadUnit(r, u) ==
    /\ tx[r].stage = "readUnit"
    /\ tx[r].units = {u}
    /\ UnitAllows(u)
    /\ Goto(r, "readOffer", {})
    /\ UNCHANGED <<database, held>>

\* The price and the availability are read by two statements; a current price
\* is never taken away, so reading both here loses no outcome.
CommitPublication(r, u) ==
    /\ tx[r].stage = "readOffer"
    /\ tx[r].units = {u}
    /\ OfferAllows(u)
    /\ listing' = [listing EXCEPT ![u].status = "published", ![u].media = "approved"]
    /\ End(r)
    /\ UNCHANGED <<property, unit, lease, assigned>>

\* A read finds that the listing cannot be published.
CannotPublish(r, u) ==
    /\ tx[r].units = {u}
    /\ \/ /\ tx[r].stage = "lockListings"
          /\ Lockable(r, ListingRow(u))
          /\ ~ListingAllows(tx[r].op, u)
       \/ tx[r].stage = "readProperty" /\ ~PropertyAllows
       \/ tx[r].stage = "readUnit" /\ ~UnitAllows(u)
       \/ tx[r].stage = "readOffer" /\ ~OfferAllows(u)

\* The approving review commits its decision all the same.
CommitApproval(r, u) ==
    /\ tx[r].op = "approve"
    /\ CannotPublish(r, u)
    /\ Reviewable(u)
    /\ listing' = [listing EXCEPT ![u].media = "approved"]
    /\ End(r)
    /\ UNCHANGED <<property, unit, lease, assigned>>

------------------------------------------------------------------------------
\* A request that answers false or raises an error; one whose API process or
\* connection is lost; and one that PostgreSQL aborts with 40P01.

Refuse(r) ==
    /\ \/ /\ tx[r].op = "archiveProperty"
          /\ tx[r].stage = "lockProperty"
          /\ Lockable(r, PropertyRow)
          /\ property.archived
       \/ tx[r].op \in Archives /\ UnitsLocked(r) /\ ~MayArchive(r)
       \/ tx[r].op = "createListing" /\ UnitsLocked(r) /\ \E u \in tx[r].units : ~MayList(u)
       \/ /\ tx[r].op \in Publications
          /\ \E u \in tx[r].units :
                CannotPublish(r, u) /\ (tx[r].op = "approve" => ~Reviewable(u))
    /\ End(r)
    /\ UNCHANGED database

Rollback(r) ==
    /\ tx[r] # Idle
    /\ End(r)
    /\ UNCHANGED database

DeadlockVictim(r) ==
    /\ \E group \in SUBSET Requests : r \in group /\ Deadlocked(group)
    /\ End(r)
    /\ UNCHANGED database

------------------------------------------------------------------------------
\* The commands that are one step each.

InventoryCommand ==
    /\ \/ /\ Free(PropertyRow)
          /\ \/ "addUnit" \in Commands /\ \E u \in Units : Promise!AddUnit(u)
             \/ "setVerification" \in Commands /\ \E barred \in BOOLEAN : Promise!SetVerification(barred)
       \/ \E u \in Units :
             /\ Free(UnitRow(u))
             /\ \/ "setPricing" \in Commands /\ Promise!SetPricing(u)
                \/ /\ "setAvailability" \in Commands
                   /\ \E offer \in {"unavailable", "available"} : Promise!SetAvailability(u, offer)
                \/ "createLease" \in Commands /\ Promise!CreateLease(u)
    /\ UNCHANGED <<listing, assigned, held, tx>>

\* set_manager_property_assignment refuses an archived Property, whose row it
\* reads without locking it: one that overlaps an archive comes before it here.
Assign(active) ==
    /\ "assign" \in Commands
    /\ ~property.archived
    /\ assigned' = active
    /\ UNCHANGED <<property, unit, lease, listing, held, tx>>

ListingCommand(command, u) ==
    /\ command \in Commands
    /\ Free(ListingRow(u))
    /\ UNCHANGED <<property, unit, lease, assigned, held, tx>>

\* Mutant: the listing's status is not looked at.
EditPublishedListing(u, illustrated) ==
    /\ ListingCommand("editListing", u)
    /\ listing[u].status # "none"
    /\ listing' = [listing EXCEPT ![u].media = "pending", ![u].illustrated = illustrated]

\* update_public_listing_draft, upload_public_listing_image and
\* delete_public_listing_image, as far as publication sees them; MediaReview
\* has the content.
EditListing(u, illustrated) ==
    /\ ListingCommand("editListing", u)
    /\ listing[u].status \in {"draft", "withdrawn"}
    /\ listing' = [listing EXCEPT ![u].media = "pending", ![u].illustrated = illustrated]

RejectMedia(u) ==
    /\ ListingCommand("reject", u)
    /\ Reviewable(u)
    /\ listing' = [listing EXCEPT ![u].media = "rejected"]

Unpublish(u) ==
    /\ ListingCommand("unpublish", u)
    /\ assigned
    /\ listing[u].status = "published"
    /\ listing' = [listing EXCEPT ![u].status = "withdrawn"]

------------------------------------------------------------------------------

Start(r) ==
    \/ BeginArchiveProperty(r)
    \/ \E u \in Units :
          \/ BeginArchiveUnit(r, u)
          \/ BeginCreateListing(r, u)
          \/ \E op \in Publications : BeginPublication(r, op, u)

\* Every step a request in progress takes of its own.
Progress(r) ==
    \/ LockProperty(r)
    \/ ScanPublished(r)
    \/ CommitArchive(r)
    \/ ReadProperty(r)
    \/ \E u \in Units :
          \/ LockUnit(r, u)
          \/ LockPublished(r, u)
          \/ \E illustrated \in BOOLEAN : CommitListing(r, u, illustrated)
          \/ LockListing(r, u)
          \/ ReadUnit(r, u)
          \/ CommitPublication(r, u)
          \/ CommitApproval(r, u)
    \/ Refuse(r)
    \/ DeadlockVictim(r)

Next ==
    \/ \E r \in Requests : Start(r) \/ Progress(r) \/ Rollback(r)
    \/ InventoryCommand
    \/ \E active \in BOOLEAN : Assign(active)
    \/ \E u \in Units :
          \/ \E illustrated \in BOOLEAN : EditListing(u, illustrated)
          \/ RejectMedia(u)
          \/ Unpublish(u)

Spec == Init /\ [][Next]_vars

(***************************************************************************)
(* PostgreSQL queues the transactions that wait for a row and runs its     *)
(* deadlock detector on every wait, so a request whose next step is        *)
(* possible again and again takes it.                                      *)
(***************************************************************************)
FairSpec == Spec /\ \A r \in Requests : SF_vars(Progress(r))

------------------------------------------------------------------------------

\* However their statements interleave, the transactions change Property,
\* Units and leases only as the atomic commands of RentalInventory do: no
\* sibling archives that both count the other, no lease behind an archive's
\* count.
KeepsInventoryPromise == Promise!Spec

\* A published listing has an approving review of the content it shows, an
\* image and a price, and its Unit knows it is listed, although the review
\* and the publication read the Unit without locking it.
PublishedListingIsReviewed ==
    \A u \in Units : listing[u].status = "published" =>
        /\ listing[u].media = "approved" /\ listing[u].illustrated
        /\ unit[u].priced /\ unit[u].publication # "draft"

\* Archives, publications and reviews lock their rows in one order (Property,
\* Units, listings): the comment in archive_rental_unit.  Only the foreign key
\* of create_public_listing goes against it.
DeadlockNeedsListingCreation ==
    \A group \in SUBSET Requests :
        Deadlocked(group) => \E r \in group : tx[r].op = "createListing"

\* No request waits for ever: not behind another one, and not in a deadlock.
EveryRequestEnds == \A r \in Requests : tx[r] # Idle ~> tx[r] = Idle

\* The requirement: ArchiveUnit "withdraws the listing, closes future
\* availability, and archives the Unit atomically".  The archive's UPDATE does
\* not wait for a listing that is still a draft in its snapshot, and the
\* publication does not lock the Unit it has read.
PublishedListingHasLiveUnit ==
    \A u \in Units : listing[u].status = "published" => unit[u].status = "active"
==============================================================================
