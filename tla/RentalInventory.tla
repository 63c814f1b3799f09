--------------------------- MODULE RentalInventory ---------------------------
(***************************************************************************)
(* What the rental-inventory commands promise about one Property, its      *)
(* Units and their leases: every command is one atomic step.  The stored   *)
(* functions that carry the commands out are transactions of several       *)
(* statements; InventoryTransactions models those and is shown to keep     *)
(* this promise.                                                           *)
(*                                                                         *)
(* Source: src/infra/postgres/migrations/0001_baseline.sql                 *)
(***************************************************************************)

CONSTANT Units      \* the Units that may ever belong to the Property

VARIABLES
    property,       \* the row of app.properties
    unit,           \* the rows of app.units, with what is current of their
                    \* pricing and availability histories
    lease           \* whether a row of app.leases names the Unit

inventoryVars == <<property, unit, lease>>

(***************************************************************************)
(* A Unit is absent until add_rental_unit inserts it and archived once     *)
(* archived_at is set.  "publication" is units.publication_status;         *)
(* "priced" and "offer" stand for the pricing and the availability version *)
(* that is current.  A version counts from the command that sets it: the   *)
(* code takes a later start too, which is left to a model of the histories *)
(* with time; nothing removes a pricing version.  The cached column        *)
(* units.availability_status is 'occupied' only for a lease whose          *)
(* accepted_at is set; create_lease_draft inserts null and a trigger       *)
(* rejects every UPDATE of app.leases, so the column never blocks a        *)
(* command that the lease itself does not block, and is left out.          *)
(***************************************************************************)
Property == [archived : BOOLEAN, barred : BOOLEAN]

Unit == [ status      : {"absent", "active", "archived"},
          publication : {"draft", "published", "archived"},
          priced      : BOOLEAN,
          offer       : {"none", "unavailable", "available"} ]

Absent == [status |-> "absent", publication |-> "draft", priced |-> FALSE, offer |-> "none"]

\* The row that create_rental_property and add_rental_unit insert, with the
\* first availability version beside it.
NewUnit == [status |-> "active", publication |-> "draft", priced |-> FALSE, offer |-> "unavailable"]

Archived(row) == [row EXCEPT !.status = "archived", !.publication = "archived"]

ActiveUnits == {u \in Units : unit[u].status = "active"}

TypeOK ==
    /\ property \in Property
    /\ unit \in [Units -> Unit]
    /\ lease \in [Units -> BOOLEAN]

\* create_rental_property: the Property and its first Unit, in one transaction.
Init ==
    /\ property = [archived |-> FALSE, barred |-> FALSE]
    /\ \E first \in Units : unit = [u \in Units |-> IF u = first THEN NewUnit ELSE Absent]
    /\ lease = [u \in Units |-> FALSE]

\* Mutant: the Property row is locked but its archived_at is not read.
AddUnitWhenArchived(u) ==
    /\ unit[u].status = "absent"
    /\ unit' = [unit EXCEPT ![u] = NewUnit]
    /\ UNCHANGED <<property, lease>>

AddUnit(u) ==
    /\ ~property.archived
    /\ unit[u].status = "absent"
    /\ unit' = [unit EXCEPT ![u] = NewUnit]
    /\ UNCHANGED <<property, lease>>

\* Mutant: the Unit's archived_at is not read.
SetPricingWhenArchived(u) ==
    /\ unit[u].status # "absent"
    /\ unit' = [unit EXCEPT ![u].priced = TRUE]
    /\ UNCHANGED <<property, lease>>

SetPricing(u) ==
    /\ unit[u].status = "active"
    /\ unit' = [unit EXCEPT ![u].priced = TRUE]
    /\ UNCHANGED <<property, lease>>

\* Mutant: the history records the derived status, not the requested one.
SetDerivedAvailability(u, offer) ==
    /\ unit[u].status = "active"
    /\ unit' = [unit EXCEPT ![u].offer = IF lease[u] THEN "occupied" ELSE offer]
    /\ UNCHANGED <<property, lease>>

SetAvailability(u, offer) ==
    /\ unit[u].status = "active"
    /\ unit' = [unit EXCEPT ![u].offer = offer]
    /\ UNCHANGED <<property, lease>>

CreateLease(u) ==
    /\ unit[u].status = "active"
    /\ ~lease[u]
    /\ lease' = [lease EXCEPT ![u] = TRUE]
    /\ UNCHANGED <<property, unit>>

\* The Unit's side of create_public_listing: one listing for each Unit, ever.
CreateListing(u) ==
    /\ unit[u].status = "active"
    /\ unit[u].publication = "draft"
    /\ unit' = [unit EXCEPT ![u].publication = "published"]
    /\ UNCHANGED <<property, lease>>

\* set_property_verification_status looks at the Property's existence only.
SetVerification(barred) ==
    /\ property' = [property EXCEPT !.barred = barred]
    /\ UNCHANGED <<unit, lease>>

\* Mutant: the count of active Units is off by one.
ArchiveLastUnit(u) ==
    /\ unit[u].status = "active"
    /\ ~lease[u]
    /\ unit' = [unit EXCEPT ![u] = Archived(@)]
    /\ UNCHANGED <<property, lease>>

ArchiveUnit(u) ==
    /\ unit[u].status = "active"
    /\ ActiveUnits # {u}
    /\ ~lease[u]
    /\ unit' = [unit EXCEPT ![u] = Archived(@)]
    /\ UNCHANGED <<property, lease>>

\* Mutant: the leases are not counted.
ArchiveLeasedProperty ==
    /\ ~property.archived
    /\ unit' = [u \in Units |-> IF u \in ActiveUnits THEN Archived(unit[u]) ELSE unit[u]]
    /\ property' = [property EXCEPT !.archived = TRUE]
    /\ UNCHANGED lease

ArchiveProperty ==
    /\ ~property.archived
    /\ \A u \in ActiveUnits : ~lease[u]
    /\ unit' = [u \in Units |-> IF u \in ActiveUnits THEN Archived(unit[u]) ELSE unit[u]]
    /\ property' = [property EXCEPT !.archived = TRUE]
    /\ UNCHANGED lease

Next ==
    \/ \E u \in Units :
          \/ AddUnit(u)
          \/ SetPricing(u)
          \/ \E offer \in {"unavailable", "available"} : SetAvailability(u, offer)
          \/ CreateLease(u)
          \/ CreateListing(u)
          \/ ArchiveUnit(u)
    \/ ArchiveProperty
    \/ \E barred \in BOOLEAN : SetVerification(barred)

Spec == Init /\ [][Next]_inventoryVars

------------------------------------------------------------------------------

\* A Property that is not archived keeps at least one active Unit, whatever
\* sequence of Unit archives is asked for: archive_rental_unit answers false
\* for the last one.
LivePropertyHasUnit == property.archived \/ ActiveUnits # {}

\* Archiving the Property archives every Unit with it and no later command
\* brings one back: archive_rental_property's loop and add_rental_unit's
\* check of the Property row.
ArchivedPropertyHasNoUnit == property.archived => ActiveUnits = {}

\* A Unit that some lease names is neither archived nor absent: both archive
\* commands refuse a leased Unit and create_lease_draft refuses an archived
\* one.
LeasedUnitIsActive == \A u \in Units : lease[u] => unit[u].status = "active"

\* Archive is terminal for a Unit: no command changes the row, its current
\* price or availability, or gives it a lease or a listing, afterwards.
ArchivedUnitIsFrozen ==
    [][\A u \in Units : unit[u].status = "archived" =>
            /\ unit'[u] = unit[u]
            /\ lease'[u] = lease[u]]_inventoryVars
==============================================================================
