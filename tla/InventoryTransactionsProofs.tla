---------------------- MODULE InventoryTransactionsProofs ----------------------
(***************************************************************************)
(* The transactions keep the promise of RentalInventory, publish reviewed  *)
(* listings only, and deadlock through create_public_listing alone, for    *)
(* any Units and any number of requests, wherever they are interrupted.    *)
(***************************************************************************)
EXTENDS InventoryTransactions, TLAPS

\* The promise, with its theorems.
Rental == INSTANCE RentalInventoryProofs

\* An archive that has locked the Property; a publication or an approving
\* review that has locked the listing.
Archiving(r) == tx[r].op \in Archives /\ tx[r].stage \in {"lockUnits", "lockListings"}
Reading(r) == tx[r].op \in Publications /\ tx[r].stage \in {"readProperty", "readUnit", "readOffer"}

\* Which stages a request passes, and that all but an archive of the Property
\* are about one Unit.
RequestInv ==
    \A r \in Requests :
        /\ tx[r].op = "none" => tx[r].stage = "idle"
        /\ tx[r].op \in Archives => tx[r].stage \in {"lockProperty", "lockUnits", "lockListings"}
        /\ tx[r].op = "createListing" => tx[r].stage = "lockUnits"
        /\ tx[r].op \in Publications => tx[r].stage = "lockListings" \/ Reading(r)
        /\ tx[r].op \notin {"none", "archiveProperty"} => \E u \in Units : tx[r].units = {u}

\* Two requests never hold one row, and each holds the rows its stage says.
Exclusive == \A r, q \in Requests : r # q => held[r] \cap held[q] = {}

HeldInv ==
    \A r \in Requests :
        /\ PropertyRow \in held[r] <=> Archiving(r)
        /\ \A u \in Units :
              /\ UnitRow(u) \in held[r] => Archiving(r) \/ tx[r].op = "createListing"
              /\ ListingRow(u) \in held[r] =>
                    (Archiving(r) /\ tx[r].stage = "lockListings") \/ Reading(r)
              /\ Archiving(r) /\ u \in tx[r].units =>
                    UnitRow(u) \in held[r] \/ (tx[r].stage = "lockUnits" /\ u \in tx[r].todo)

\* What an archive has read stays true while it holds the rows it read.
ArchiveInv ==
    \A r \in Requests : Archiving(r) =>
        /\ tx[r].op = "archiveProperty" => ~property.archived /\ tx[r].units = ActiveUnits
        /\ tx[r].stage = "lockListings" => MayArchive(r)

\* A Unit knows whether it is listed.
ListingInv ==
    \A u \in Units :
        /\ unit[u].status = "absent" => listing[u].status = "none"
        /\ listing[u].status # "none" => unit[u].publication # "draft"
        /\ listing[u].status = "none" /\ unit[u].status = "active" => unit[u].publication = "draft"

\* What a request publishes is there.
PublicationInv ==
    \A r \in Requests : tx[r].op \in Publications =>
        \A u \in tx[r].units : listing[u].status # "none"

LocksType == held \in [Requests -> SUBSET Rows] /\ tx \in [Requests -> Tx]
RowsType == Promise!TypeOK /\ listing \in [Units -> Listing] /\ assigned \in BOOLEAN

LocksInv == LocksType /\ RequestInv /\ Exclusive /\ HeldInv
RowsInv == RowsType /\ ListingInv /\ PublishedListingIsReviewed

TransactionInv == LocksInv /\ RowsInv /\ ArchiveInv /\ PublicationInv

------------------------------------------------------------------------------

\* The steps by what they do: a statement that locks one more row or reads, an
\* end without a write, and the commands of one step.
Statement(r) ==
    \/ ScanPublished(r)
    \/ ReadProperty(r)
    \/ \E u \in Units :
          LockUnit(r, u) \/ LockPublished(r, u) \/ LockListing(r, u) \/ ReadUnit(r, u)

ListingEdit ==
    \E u \in Units :
        \/ \E illustrated \in BOOLEAN : EditListing(u, illustrated)
        \/ RejectMedia(u)
        \/ Unpublish(u)

\* These are all the steps there are.
LEMMA StepKinds ==
    ASSUME [Next]_vars
    PROVE  \/ \E r \in Requests :
                 \/ Start(r)
                 \/ LockProperty(r)
                 \/ Statement(r)
                 \/ End(r) /\ UNCHANGED database
                 \/ CommitArchive(r)
                 \/ \E u \in Units, illustrated \in BOOLEAN : CommitListing(r, u, illustrated)
                 \/ \E u \in Units : CommitPublication(r, u)
                 \/ \E u \in Units : CommitApproval(r, u)
           \/ InventoryCommand
           \/ \E active \in BOOLEAN : Assign(active)
           \/ ListingEdit
           \/ UNCHANGED vars
  BY Zenon DEF Next, Progress, Statement, ListingEdit, Refuse, Rollback, DeadlockVictim

\* The rows that are locked are different rows.
LEMMA RowsDiffer ==
    /\ PropertyRow \in Rows
    /\ \A u \in Units : /\ UnitRow(u) \in Rows /\ ListingRow(u) \in Rows
                        /\ UnitRow(u) # PropertyRow /\ ListingRow(u) # PropertyRow
                        /\ \A v \in Units : UnitRow(u) # ListingRow(v)
                        /\ \A v \in Units : UnitRow(u) = UnitRow(v) => u = v
                        /\ \A v \in Units : ListingRow(u) = ListingRow(v) => u = v
  BY DEF PropertyRow, UnitRow, ListingRow, Rows

\* COMMIT and ROLLBACK keep the locks in order.
LEMMA EndLocks ==
    ASSUME LocksInv, NEW r \in Requests, End(r)
    PROVE  /\ LocksInv'
           /\ tx'[r] = Idle /\ \A q \in Requests \ {r} : tx'[q] = tx[q]
<1> USE DEF LocksInv, LocksType
<1>1. Idle \in Tx
  BY DEF Idle, Tx, Stages
<1>2. /\ tx' \in [Requests -> Tx] /\ tx'[r] = Idle
      /\ \A q \in Requests \ {r} : tx'[q] = tx[q]
  BY <1>1 DEF End
<1>3. /\ held' \in [Requests -> SUBSET Rows] /\ held'[r] = {}
      /\ \A q \in Requests \ {r} : held'[q] = held[q]
  BY DEF End
<1>4. RequestInv'
  BY <1>2 DEF RequestInv, Idle, Archives, Publications, Reading
<1>5. Exclusive'
  BY <1>3 DEF Exclusive
<1>6. HeldInv'
  BY <1>2, <1>3 DEF HeldInv, Idle, Archiving, Reading, Archives, Publications
<1> QED
  BY <1>2, <1>3, <1>4, <1>5, <1>6

\* So does taking one more row, in a stage that may hold it.
LEMMA LockLocks ==
    ASSUME LocksInv, NEW r \in Requests, NEW row \in Rows, Lock(r, row)
    PROVE  /\ held' \in [Requests -> SUBSET Rows]
           /\ held'[r] = held[r] \union {row}
           /\ \A q \in Requests \ {r} : held'[q] = held[q]
           /\ Exclusive'
<1> USE DEF LocksInv, LocksType
<1>1. /\ held' \in [Requests -> SUBSET Rows]
      /\ held'[r] = held[r] \union {row}
      /\ \A q \in Requests \ {r} : held'[q] = held[q]
  BY DEF Lock
<1>2. \A q \in Requests \ {r} : row \notin held[q]
  BY DEF Lock, Lockable
<1> QED
  BY <1>1, <1>2 DEF Exclusive

\* A request that moves on to another stage.
LEMMA GotoStage ==
    ASSUME LocksInv, NEW r \in Requests, NEW stage \in Stages, NEW todo \in SUBSET Units,
           Goto(r, stage, todo)
    PROVE  /\ tx' \in [Requests -> Tx]
           /\ tx'[r].stage = stage /\ tx'[r].todo = todo
           /\ tx'[r].op = tx[r].op /\ tx'[r].units = tx[r].units
           /\ \A q \in Requests \ {r} : tx'[q] = tx[q]
  BY DEF LocksInv, LocksType, Goto, Tx

\* A request that begins holds nothing yet.
LEMMA BeginLocks ==
    ASSUME LocksInv, NEW r \in Requests, Start(r)
    PROVE  /\ LocksInv' /\ UNCHANGED database
           /\ tx[r] = Idle /\ ~Archiving(r)'
           /\ \A q \in Requests \ {r} : tx'[q] = tx[q]
           /\ tx'[r].op \in Publications => \A u \in tx'[r].units : listing[u].status # "none"
<1> DEFINE Goal ==
      /\ LocksInv' /\ UNCHANGED database
      /\ tx[r] = Idle /\ ~Archiving(r)'
      /\ \A q \in Requests \ {r} : tx'[q] = tx[q]
      /\ tx'[r].op \in Publications => \A u \in tx'[r].units : listing[u].status # "none"
<1> USE DEF LocksInv, LocksType
<1> DEFINE Starts(t) ==
      /\ t \in Tx
      /\ tx[r] = Idle /\ tx' = [tx EXCEPT ![r] = t] /\ UNCHANGED <<database, held>>
      /\ t.op \in Publications => \A u \in t.units : listing[u].status # "none"
      /\ \/ t.op = "archiveProperty" /\ t.stage = "lockProperty"
         \/ t.op = "archiveUnit" /\ t.stage = "lockProperty" /\ \E u \in Units : t.units = {u}
         \/ t.op = "createListing" /\ t.stage = "lockUnits" /\ \E u \in Units : t.units = {u}
         \/ t.op \in Publications /\ t.stage = "lockListings" /\ \E u \in Units : t.units = {u}
<1>1. ASSUME NEW t, Starts(t) PROVE Goal
  <2>1. /\ tx' \in [Requests -> Tx] /\ tx'[r] = t
        /\ \A q \in Requests \ {r} : tx'[q] = tx[q]
    BY <1>1
  <2>2. held[r] = {}
    <3>1. tx[r].op = "none" /\ tx[r].stage = "idle"
      BY <1>1 DEF Idle
    <3> QED
      BY <3>1 DEF HeldInv, Archiving, Reading, Archives, Publications, Rows
  <2>3. RequestInv'
    BY <1>1, <2>1 DEF RequestInv, Archives, Publications, Reading
  <2>4. HeldInv'
    BY <1>1, <2>1, <2>2 DEF HeldInv, Archiving, Reading, Archives, Publications
  <2>5. Exclusive'
    BY <1>1 DEF Exclusive
  <2>6. ~Archiving(r)'
    BY <1>1, <2>1 DEF Archiving, Archives, Publications
  <2> QED
    BY <1>1, <2>1, <2>3, <2>4, <2>5, <2>6
<1> DEFINE T(op, units, stage, todo) == [op |-> op, stage |-> stage, units |-> units, todo |-> todo]
<1>2. CASE BeginArchiveProperty(r)
  <2>1. Starts(T("archiveProperty", {}, "lockProperty", {}))
    BY <1>2 DEF BeginArchiveProperty, Begin, Tx, Stages, Publications
  <2> QED
    BY <1>1, <2>1
<1>3. ASSUME NEW u \in Units, BeginArchiveUnit(r, u) PROVE Goal
  <2>1. Starts(T("archiveUnit", {u}, "lockProperty", {}))
    BY <1>3 DEF BeginArchiveUnit, Begin, Tx, Stages, Publications
  <2> QED
    BY <1>1, <2>1
<1>4. ASSUME NEW u \in Units, BeginCreateListing(r, u) PROVE Goal
  <2>1. Starts(T("createListing", {u}, "lockUnits", {u}))
    BY <1>4 DEF BeginCreateListing, Begin, Tx, Stages, Publications
  <2> QED
    BY <1>1, <2>1
<1>5. ASSUME NEW u \in Units, NEW op \in Publications, BeginPublication(r, op, u) PROVE Goal
  <2>1. Starts(T(op, {u}, "lockListings", {u}))
    BY <1>5 DEF BeginPublication, Begin, Tx, Stages, Publications
  <2> QED
    BY <1>1, <2>1
<1> HIDE DEF LocksInv, LocksType
<1> QED
  BY <1>2, <1>3, <1>4, <1>5, Zenon DEF Start

\* An archive that locks the Property.
LEMMA LockPropertyLocks ==
    ASSUME LocksInv, NEW r \in Requests, LockProperty(r)
    PROVE  /\ LocksInv' /\ UNCHANGED database
           /\ tx'[r].op = tx[r].op /\ tx'[r].stage = "lockUnits" /\ tx[r].op \in Archives
           /\ tx[r].op = "archiveProperty" => ~property.archived /\ tx'[r].units = ActiveUnits
           /\ \A q \in Requests \ {r} : tx'[q] = tx[q]
<1> USE DEF LocksInv, LocksType
<1>1. tx[r].stage = "lockProperty" /\ tx[r] \in Tx /\ UNCHANGED database
  BY DEF LockProperty
<1>2. tx[r].op \in Archives
  BY <1>1 DEF RequestInv, Tx, Archives, Publications, Reading
<1>3. PropertyRow \in Rows /\ Lock(r, PropertyRow)
  BY RowsDiffer DEF LockProperty
<1>4. ActiveUnits \subseteq Units
  BY DEF ActiveUnits, Promise!ActiveUnits
<1>5. /\ tx' \in [Requests -> Tx]
      /\ tx'[r].op = tx[r].op /\ tx'[r].stage = "lockUnits" /\ tx'[r].todo = tx'[r].units
      /\ tx[r].op = "archiveUnit" => tx'[r].units = tx[r].units
      /\ tx[r].op = "archiveProperty" => ~property.archived /\ tx'[r].units = ActiveUnits
      /\ \A q \in Requests \ {r} : tx'[q] = tx[q]
  <2>1. CASE tx[r].op = "archiveUnit"
    <3>1. Goto(r, "lockUnits", tx[r].units)
      BY <2>1 DEF LockProperty
    <3> QED
      BY <1>1, <2>1, <3>1 DEF Goto, Tx, Stages
  <2>2. CASE tx[r].op = "archiveProperty"
    <3>1. /\ ~property.archived
          /\ tx' = [tx EXCEPT ![r].stage = "lockUnits", ![r].units = ActiveUnits, ![r].todo = ActiveUnits]
      BY <2>2 DEF LockProperty
    <3> QED
      BY <1>1, <1>4, <2>2, <3>1 DEF Tx, Stages
  <2> QED
    BY <1>2, <2>1, <2>2 DEF Archives
<1>6. /\ held' \in [Requests -> SUBSET Rows]
      /\ held'[r] = held[r] \union {PropertyRow}
      /\ \A q \in Requests \ {r} : held'[q] = held[q]
      /\ Exclusive'
  BY <1>3, LockLocks
<1>7. RequestInv'
  BY <1>2, <1>5 DEF RequestInv, Archives, Publications, Reading
<1>8. HeldInv'
  <2>1. \A u \in Units : UnitRow(u) # PropertyRow /\ ListingRow(u) # PropertyRow
    BY RowsDiffer
  <2>2. Archiving(r)' /\ ~Archiving(r) /\ ~Reading(r)
    BY <1>1, <1>2, <1>5 DEF Archiving, Reading, Archives
  <2>3. ASSUME NEW q \in Requests \ {r}
        PROVE  Archiving(q)' = Archiving(q) /\ Reading(q)' = Reading(q)
    BY <1>5 DEF Archiving, Reading
  <2> QED
    BY <1>1, <1>2, <1>5, <1>6, <2>1, <2>2, <2>3 DEF HeldInv, Archives
<1> QED
  BY <1>1, <1>2, <1>5, <1>6, <1>7, <1>8

\* A statement of a request that locks one more row, or reads.
LEMMA StatementLocks ==
    ASSUME LocksInv, NEW r \in Requests, Statement(r)
    PROVE  /\ LocksInv' /\ UNCHANGED database
           /\ tx'[r].op = tx[r].op /\ tx'[r].units = tx[r].units
           /\ Archiving(r)' = Archiving(r)
           /\ Archiving(r) /\ tx'[r].stage = "lockListings" =>
                 tx[r].stage = "lockListings" \/ MayArchive(r)
           /\ \A q \in Requests \ {r} : tx'[q] = tx[q]
<1> DEFINE Goal ==
      /\ LocksInv' /\ UNCHANGED database
      /\ tx'[r].op = tx[r].op /\ tx'[r].units = tx[r].units
      /\ Archiving(r)' = Archiving(r)
      /\ Archiving(r) /\ tx'[r].stage = "lockListings" =>
            tx[r].stage = "lockListings" \/ MayArchive(r)
      /\ \A q \in Requests \ {r} : tx'[q] = tx[q]
<1>1. ASSUME NEW stage \in Stages, NEW todo \in SUBSET Units, NEW rows \in SUBSET Rows,
             Goto(r, stage, todo), UNCHANGED database,
             held' \in [Requests -> SUBSET Rows], held'[r] = held[r] \union rows,
             \A q \in Requests \ {r} : held'[q] = held[q], Exclusive',
             PropertyRow \notin rows,
             \/ /\ Archiving(r) \/ tx[r].op = "createListing"
                /\ tx[r].stage = "lockUnits" /\ stage = "lockUnits"
                /\ \A u \in Units : ListingRow(u) \notin rows
                /\ \A u \in tx[r].todo \ todo : UnitRow(u) \in rows
             \/ /\ Archiving(r) /\ tx[r].stage = "lockUnits" /\ stage = "lockListings"
                /\ tx[r].todo = {} /\ rows = {} /\ MayArchive(r)
             \/ /\ Archiving(r) /\ tx[r].stage = "lockListings" /\ stage = "lockListings"
                /\ \A u \in Units : UnitRow(u) \notin rows
             \/ /\ tx[r].op \in Publications /\ stage \in {"readProperty", "readUnit", "readOffer"}
                /\ \A u \in Units : UnitRow(u) \notin rows
      PROVE  Goal
  <2>1. /\ tx' \in [Requests -> Tx]
        /\ tx'[r].stage = stage /\ tx'[r].todo = todo
        /\ tx'[r].op = tx[r].op /\ tx'[r].units = tx[r].units
        /\ \A q \in Requests \ {r} : tx'[q] = tx[q]
    BY <1>1, GotoStage
  <2>2. RequestInv'
    BY <1>1, <2>1 DEF LocksInv, RequestInv, Archiving, Archives, Publications, Reading
  <2>3. /\ Archiving(r)' = Archiving(r) /\ (Reading(r) => Reading(r)')
        /\ tx[r].op \in Publications => Reading(r)'
    BY <1>1, <2>1 DEF Archiving, Reading, Archives, Publications
  <2>4. ASSUME NEW q \in Requests \ {r}
        PROVE  Archiving(q)' = Archiving(q) /\ Reading(q)' = Reading(q)
    BY <2>1 DEF Archiving, Reading
  <2>5. PropertyRow \in held'[r] <=> Archiving(r)'
    BY <1>1, <2>3 DEF LocksInv, HeldInv
  <2>6. ASSUME NEW u \in Units
        PROVE  /\ UnitRow(u) \in held'[r] => Archiving(r)' \/ tx'[r].op = "createListing"
               /\ ListingRow(u) \in held'[r] =>
                     (Archiving(r)' /\ tx'[r].stage = "lockListings") \/ Reading(r)'
               /\ Archiving(r)' /\ u \in tx'[r].units =>
                     UnitRow(u) \in held'[r] \/ (tx'[r].stage = "lockUnits" /\ u \in tx'[r].todo)
    <3>1. /\ UnitRow(u) \in held[r] => Archiving(r) \/ tx[r].op = "createListing"
          /\ ListingRow(u) \in held[r] =>
                (Archiving(r) /\ tx[r].stage = "lockListings") \/ Reading(r)
          /\ Archiving(r) /\ u \in tx[r].units =>
                UnitRow(u) \in held[r] \/ (tx[r].stage = "lockUnits" /\ u \in tx[r].todo)
          /\ tx[r].op \in Publications => ~Archiving(r)
      BY DEF LocksInv, HeldInv, Archiving, Publications, Archives
    <3> QED
      BY <1>1, <2>1, <2>3, <3>1
  <2>7. HeldInv'
    BY <2>1, <2>4, <2>5, <2>6, <1>1 DEF LocksInv, HeldInv
  <2> QED
    BY <1>1, <2>1, <2>2, <2>3, <2>7 DEF LocksInv, LocksType
<1>2. ASSUME NEW q \in Requests PROVE held[q] \in SUBSET Rows /\ tx[q] \in Tx
  BY DEF LocksInv, LocksType
<1>3. CASE ScanPublished(r)
  <2>1. /\ Goto(r, "lockListings", {u \in Withdrawable(r) : listing[u].status = "published"})
        /\ tx[r].stage = "lockUnits" /\ tx[r].todo = {} /\ tx[r].op \in Archives
        /\ MayArchive(r) /\ UNCHANGED <<database, held>>
    BY <1>3 DEF ScanPublished, UnitsLocked
  <2>2. {u \in Withdrawable(r) : listing[u].status = "published"} \in SUBSET Units
    BY <1>2 DEF Withdrawable, Tx
  <2>3. /\ held' \in [Requests -> SUBSET Rows] /\ held'[r] = held[r] \union {} /\ Exclusive'
        /\ \A q \in Requests \ {r} : held'[q] = held[q]
    BY <2>1 DEF LocksInv, LocksType, Exclusive
  <2> QED
    BY <1>1, <2>1, <2>2, <2>3 DEF Archiving, Stages
<1>4. CASE ReadProperty(r)
  <2>1. /\ Goto(r, "readUnit", {}) /\ tx[r].stage = "readProperty" /\ UNCHANGED <<database, held>>
    BY <1>4 DEF ReadProperty
  <2>2. /\ held' \in [Requests -> SUBSET Rows] /\ held'[r] = held[r] \union {} /\ Exclusive'
        /\ \A q \in Requests \ {r} : held'[q] = held[q]
    BY <2>1 DEF LocksInv, LocksType, Exclusive
  <2>3. tx[r].op \in Publications
    BY <1>2, <2>1 DEF LocksInv, RequestInv, Tx, Archives, Publications
  <2>4. {} \in SUBSET Rows /\ PropertyRow \notin {} /\ \A v \in Units : UnitRow(v) \notin {}
    OBVIOUS
  <2> QED
    BY <1>1, <2>1, <2>2, <2>3, <2>4 DEF Stages
<1>5. ASSUME NEW u \in Units, ReadUnit(r, u) PROVE Goal
  <2>1. /\ Goto(r, "readOffer", {}) /\ tx[r].stage = "readUnit" /\ UNCHANGED <<database, held>>
    BY <1>5 DEF ReadUnit
  <2>2. /\ held' \in [Requests -> SUBSET Rows] /\ held'[r] = held[r] \union {} /\ Exclusive'
        /\ \A q \in Requests \ {r} : held'[q] = held[q]
    BY <2>1 DEF LocksInv, LocksType, Exclusive
  <2>3. tx[r].op \in Publications
    BY <1>2, <2>1 DEF LocksInv, RequestInv, Tx, Archives, Publications
  <2>4. {} \in SUBSET Rows /\ PropertyRow \notin {} /\ \A v \in Units : UnitRow(v) \notin {}
    OBVIOUS
  <2> QED
    BY <1>1, <2>1, <2>2, <2>3, <2>4 DEF Stages
<1>6. ASSUME NEW u \in Units, LockUnit(r, u) PROVE Goal
  <2>1. /\ Goto(r, "lockUnits", tx[r].todo \ {u}) /\ tx[r].stage = "lockUnits" /\ UNCHANGED database
        /\ Lock(r, UnitRow(u))
    BY <1>6 DEF LockUnit
  <2>2. /\ held' \in [Requests -> SUBSET Rows] /\ held'[r] = held[r] \union {UnitRow(u)} /\ Exclusive'
        /\ \A q \in Requests \ {r} : held'[q] = held[q]
    BY <2>1, LockLocks, RowsDiffer
  <2>3. Archiving(r) \/ tx[r].op = "createListing"
    BY <1>2, <2>1 DEF LocksInv, RequestInv, Tx, Archiving, Archives, Publications, Reading
  <2>4. tx[r].todo \ {u} \in SUBSET Units /\ {UnitRow(u)} \in SUBSET Rows
    BY <1>2, RowsDiffer DEF Tx
  <2>5. /\ PropertyRow \notin {UnitRow(u)} /\ \A v \in Units : ListingRow(v) \notin {UnitRow(u)}
        /\ \A v \in tx[r].todo \ (tx[r].todo \ {u}) : UnitRow(v) \in {UnitRow(u)}
    BY RowsDiffer
  <2> QED
    BY <1>1, <2>1, <2>2, <2>3, <2>4, <2>5 DEF Stages
<1>7. ASSUME NEW u \in Units, LockPublished(r, u) PROVE Goal
  <2>1. /\ Goto(r, "lockListings", tx[r].todo \ {u}) /\ tx[r].stage = "lockListings"
        /\ tx[r].op \in Archives /\ UNCHANGED database /\ Lock(r, ListingRow(u))
    BY <1>7 DEF LockPublished
  <2>2. /\ held' \in [Requests -> SUBSET Rows] /\ held'[r] = held[r] \union {ListingRow(u)}
        /\ Exclusive' /\ \A q \in Requests \ {r} : held'[q] = held[q]
    BY <2>1, LockLocks, RowsDiffer
  <2>3. tx[r].todo \ {u} \in SUBSET Units /\ {ListingRow(u)} \in SUBSET Rows
    BY <1>2, RowsDiffer DEF Tx
  <2>4. PropertyRow \notin {ListingRow(u)} /\ \A v \in Units : UnitRow(v) \notin {ListingRow(u)}
    BY RowsDiffer
  <2> QED
    BY <1>1, <2>1, <2>2, <2>3, <2>4 DEF Archiving, Stages
<1>8. ASSUME NEW u \in Units, LockListing(r, u) PROVE Goal
  <2>1. /\ Goto(r, "readProperty", {}) /\ tx[r].stage = "lockListings"
        /\ tx[r].op \in Publications /\ UNCHANGED database /\ Lock(r, ListingRow(u))
    BY <1>8 DEF LockListing
  <2>2. /\ held' \in [Requests -> SUBSET Rows] /\ held'[r] = held[r] \union {ListingRow(u)}
        /\ Exclusive' /\ \A q \in Requests \ {r} : held'[q] = held[q]
    BY <2>1, LockLocks, RowsDiffer
  <2>3. {ListingRow(u)} \in SUBSET Rows /\ PropertyRow \notin {ListingRow(u)}
        /\ \A v \in Units : UnitRow(v) \notin {ListingRow(u)}
    BY RowsDiffer
  <2> QED
    BY <1>1, <2>1, <2>2, <2>3 DEF Stages
<1> QED
  BY <1>3, <1>4, <1>5, <1>6, <1>7, <1>8, Zenon DEF Statement

\* A request writes in its last step only.
LEMMA WritersEnd ==
    ASSUME NEW r \in Requests,
           \/ CommitArchive(r)
           \/ \E u \in Units, illustrated \in BOOLEAN : CommitListing(r, u, illustrated)
           \/ \E u \in Units : CommitPublication(r, u)
           \/ \E u \in Units : CommitApproval(r, u)
    PROVE  End(r)
  BY Zenon DEF CommitArchive, CommitListing, CommitPublication, CommitApproval

\* A command of one step leaves the requests where they are.
LEMMA CommandsHoldNothing ==
    ASSUME \/ InventoryCommand
           \/ \E active \in BOOLEAN : Assign(active)
           \/ ListingEdit
           \/ UNCHANGED vars
    PROVE  UNCHANGED <<held, tx>>
  BY DEF InventoryCommand, Assign, ListingEdit, EditListing, RejectMedia, Unpublish,
         ListingCommand, vars

\* What a step does to a request: nothing, or one step of that request.
LEMMA TxStep ==
    ASSUME LocksInv, [Next]_vars, NEW r \in Requests
    PROVE  tx'[r] = tx[r] \/ Start(r) \/ LockProperty(r) \/ Statement(r) \/ (End(r) /\ tx'[r] = Idle)
<1>1. ASSUME NEW q \in Requests, End(q)
      PROVE  tx'[r] = tx[r] \/ (End(r) /\ tx'[r] = Idle)
  BY <1>1, EndLocks
<1>2. ASSUME NEW q \in Requests, Start(q) \/ LockProperty(q) \/ Statement(q)
      PROVE  tx'[r] = tx[r] \/ q = r
  BY <1>2, BeginLocks, LockPropertyLocks, StatementLocks
<1> QED
  BY <1>1, <1>2, WritersEnd, CommandsHoldNothing, StepKinds, Zenon

\* Every step keeps the locks in order.
LEMMA LocksStep ==
    ASSUME LocksInv, [Next]_vars
    PROVE  LocksInv'
<1>1. ASSUME NEW r \in Requests, End(r) PROVE LocksInv'
  BY <1>1, EndLocks
<1>2. ASSUME NEW r \in Requests, Start(r) \/ LockProperty(r) \/ Statement(r) PROVE LocksInv'
  BY <1>2, BeginLocks, LockPropertyLocks, StatementLocks
<1>3. ASSUME UNCHANGED <<held, tx>> PROVE LocksInv'
  BY <1>3 DEF LocksInv, LocksType, RequestInv, Exclusive, HeldInv, Archiving, Reading
<1> QED
  BY <1>1, <1>2, <1>3, WritersEnd, CommandsHoldNothing, StepKinds, Zenon

------------------------------------------------------------------------------

\* A command of one step on the inventory keeps the rows of the listings right.
LEMMA InventoryCommandRows ==
    ASSUME RowsInv, InventoryCommand
    PROVE  RowsInv' /\ listing' = listing
<1> USE DEF RowsInv, RowsType, Promise!TypeOK
<1>1. listing' = listing /\ assigned' = assigned
  BY DEF InventoryCommand
<1>2. ASSUME NEW u \in Units, Promise!AddUnit(u) PROVE RowsInv'
  <2>1. /\ unit[u].status = "absent" /\ unit' = [unit EXCEPT ![u] = Promise!NewUnit]
        /\ UNCHANGED <<property, lease>>
    BY <1>2 DEF Promise!AddUnit
  <2>2. /\ Promise!NewUnit \in Promise!Unit
        /\ Promise!NewUnit.status = "active" /\ Promise!NewUnit.publication = "draft"
    BY DEF Promise!NewUnit, Promise!Unit
  <2>3. listing[u].status = "none"
    BY <2>1 DEF ListingInv
  <2>4. unit' \in [Units -> Promise!Unit] /\ unit'[u] = Promise!NewUnit
        /\ \A v \in Units \ {u} : unit'[v] = unit[v]
    BY <2>1, <2>2
  <2>5. ListingInv'
    BY <1>1, <2>2, <2>3, <2>4 DEF ListingInv
  <2>6. PublishedListingIsReviewed'
    BY <1>1, <2>3, <2>4 DEF PublishedListingIsReviewed
  <2> QED
    BY <1>1, <2>1, <2>4, <2>5, <2>6
<1>3. ASSUME NEW u \in Units, Promise!SetPricing(u) PROVE RowsInv'
  <2>1. unit' = [unit EXCEPT ![u].priced = TRUE] /\ UNCHANGED <<property, lease>>
    BY <1>3 DEF Promise!SetPricing
  <2>2. unit' \in [Units -> Promise!Unit]
    BY <2>1 DEF Promise!Unit
  <2>3. \A v \in Units : /\ unit'[v].status = unit[v].status
                         /\ unit'[v].publication = unit[v].publication
                         /\ unit[v].priced => unit'[v].priced
    BY <2>1 DEF Promise!Unit
  <2> QED
    BY <1>1, <2>1, <2>2, <2>3 DEF ListingInv, PublishedListingIsReviewed
<1>4. ASSUME NEW u \in Units, NEW offer \in {"unavailable", "available"},
             Promise!SetAvailability(u, offer)
      PROVE  RowsInv'
  BY <1>1, <1>4 DEF Promise!SetAvailability, Promise!Unit, ListingInv, PublishedListingIsReviewed
<1>5. ASSUME NEW u \in Units, Promise!CreateLease(u) PROVE RowsInv'
  BY <1>1, <1>5 DEF Promise!CreateLease, ListingInv, PublishedListingIsReviewed
<1>6. ASSUME NEW barred \in BOOLEAN, Promise!SetVerification(barred) PROVE RowsInv'
  BY <1>1, <1>6 DEF Promise!SetVerification, Promise!Property, ListingInv, PublishedListingIsReviewed
<1>7. RowsInv'
  BY <1>2, <1>3, <1>4, <1>5, <1>6, Zenon DEF InventoryCommand
<1> QED
  BY <1>1, <1>7

\* Every step keeps them right, and no listing is ever deleted.
LEMMA RowsStep ==
    ASSUME RowsInv, PublicationInv, LocksInv, [Next]_vars
    PROVE  /\ RowsInv'
           /\ \A u \in Units : listing[u].status # "none" => listing'[u].status # "none"
<1> DEFINE Goal ==
      /\ RowsInv'
      /\ \A u \in Units : listing[u].status # "none" => listing'[u].status # "none"
<1> USE DEF RowsInv, RowsType, Promise!TypeOK
<1>1. CASE UNCHANGED database
  BY <1>1 DEF database, ListingInv, PublishedListingIsReviewed
<1>2. ASSUME NEW r \in Requests, CommitArchive(r) PROVE Goal
  <2>1. \A u \in Units : unit'[u] = unit[u] \/ unit'[u] = Promise!Archived(unit[u])
    BY <1>2 DEF CommitArchive
  <2>2. \A u \in Units : \/ listing'[u] = listing[u]
                         \/ /\ listing[u].status = "published"
                            /\ listing'[u] = [listing[u] EXCEPT !.status = "withdrawn"]
    BY <1>2 DEF CommitArchive, Withdraw
  <2>3. \A u \in Units : /\ Promise!Archived(unit[u]) \in Promise!Unit
                         /\ Promise!Archived(unit[u]).status = "archived"
                         /\ Promise!Archived(unit[u]).publication = "archived"
                         /\ Promise!Archived(unit[u]).priced = unit[u].priced
    BY DEF Promise!Archived, Promise!Unit
  <2>4. \A u \in Units : /\ [listing[u] EXCEPT !.status = "withdrawn"] \in Listing
                         /\ [listing[u] EXCEPT !.status = "withdrawn"].status = "withdrawn"
    BY DEF Listing
  <2>5. RowsType'
    <3>1. unit' \in [Units -> Promise!Unit]
      <4>1. unit' = [u \in Units |-> unit'[u]]
        BY <1>2 DEF CommitArchive
      <4> QED
        BY <2>1, <2>3, <4>1
    <3>2. listing' \in [Units -> Listing]
      <4>1. listing' = [u \in Units |-> listing'[u]]
        BY <1>2 DEF CommitArchive, Withdraw
      <4> QED
        BY <2>2, <2>4, <4>1
    <3>3. property' \in Promise!Property /\ lease' = lease /\ assigned' = assigned
      BY <1>2 DEF CommitArchive, Promise!Property
    <3> QED
      BY <3>1, <3>2, <3>3
  <2>6. ListingInv'
    BY <2>1, <2>2, <2>3, <2>4 DEF ListingInv
  <2>7. PublishedListingIsReviewed'
    BY <2>1, <2>2, <2>3, <2>4 DEF PublishedListingIsReviewed
  <2> QED
    BY <2>2, <2>4, <2>5, <2>6, <2>7
<1>3. ASSUME NEW r \in Requests, NEW v \in Units, NEW illustrated \in BOOLEAN,
             CommitListing(r, v, illustrated)
      PROVE  Goal
  BY <1>3 DEF CommitListing, MayList, Promise!Unit, Listing, ListingInv, PublishedListingIsReviewed
<1>4. ASSUME NEW r \in Requests, NEW v \in Units, CommitPublication(r, v) PROVE Goal
  <2>1. listing[v].status # "none"
    BY <1>4 DEF CommitPublication, PublicationInv, RequestInv, LocksInv, LocksType, Tx, Archives, Publications
  <2>2. listing[v].illustrated /\ unit[v].priced
    BY <1>4 DEF CommitPublication, OfferAllows
  <2>3. listing' = [listing EXCEPT ![v].status = "published", ![v].media = "approved"]
        /\ UNCHANGED <<property, unit, lease, assigned>>
    BY <1>4 DEF CommitPublication
  <2> QED
    BY <2>1, <2>2, <2>3 DEF Listing, ListingInv, PublishedListingIsReviewed
<1>5. ASSUME NEW r \in Requests, NEW v \in Units, CommitApproval(r, v) PROVE Goal
  BY <1>5 DEF CommitApproval, Listing, ListingInv, PublishedListingIsReviewed
<1>6. CASE InventoryCommand
  BY <1>6, InventoryCommandRows
<1>7. CASE \E active \in BOOLEAN : Assign(active)
  BY <1>7 DEF Assign, ListingInv, PublishedListingIsReviewed
<1>8. CASE ListingEdit
  <2>1. ASSUME NEW v \in Units, NEW illustrated \in BOOLEAN, EditListing(v, illustrated) PROVE Goal
    BY <2>1 DEF EditListing, ListingCommand, Listing, ListingInv, PublishedListingIsReviewed
  <2>2. ASSUME NEW v \in Units, RejectMedia(v) PROVE Goal
    BY <2>2 DEF RejectMedia, Reviewable, ListingCommand, Listing, ListingInv, PublishedListingIsReviewed
  <2>3. ASSUME NEW v \in Units, Unpublish(v) PROVE Goal
    BY <2>3 DEF Unpublish, ListingCommand, Listing, ListingInv, PublishedListingIsReviewed
  <2> QED
    BY <1>8, <2>1, <2>2, <2>3, Zenon DEF ListingEdit
<1>9. ASSUME NEW r \in Requests,
             Start(r) \/ LockProperty(r) \/ Statement(r) \/ (End(r) /\ UNCHANGED database)
      PROVE  UNCHANGED database
  BY <1>9, BeginLocks, LockPropertyLocks, StatementLocks
<1>10. CASE UNCHANGED vars
  BY <1>1, <1>10 DEF vars, database
<1> QED
  BY <1>1, <1>2, <1>3, <1>4, <1>5, <1>6, <1>7, <1>8, <1>9, <1>10, StepKinds, Zenon

\* A request publishes a listing that is there.
LEMMA PublicationStep ==
    ASSUME LocksInv, RowsInv, PublicationInv, [Next]_vars
    PROVE  PublicationInv'
<1>1. \A u \in Units : listing[u].status # "none" => listing'[u].status # "none"
  BY RowsStep
<1> SUFFICES ASSUME NEW r \in Requests, tx'[r].op \in Publications, NEW u \in tx'[r].units
             PROVE  listing'[u].status # "none"
  BY DEF PublicationInv
<1>2. u \in Units
  BY LocksStep DEF LocksInv, LocksType, Tx
<1>3. CASE tx'[r] = tx[r]
  BY <1>1, <1>2, <1>3 DEF PublicationInv
<1>4. CASE Start(r)
  BY <1>1, <1>2, <1>4, BeginLocks
<1>5. CASE LockProperty(r)
  BY <1>5, LockPropertyLocks DEF Archives, Publications
<1>6. CASE Statement(r)
  BY <1>1, <1>2, <1>6, StatementLocks DEF PublicationInv
<1>7. CASE tx'[r] = Idle
  BY <1>7 DEF Idle, Publications
<1> QED
  BY <1>3, <1>4, <1>5, <1>6, <1>7, TxStep

\* While an archive holds the Property's row nobody else archives it or a Unit,
\* or adds one, and while it holds a Unit's row nobody leases the Unit.
LEMMA ArchiveFreezes ==
    ASSUME LocksInv, RowsInv, [Next]_vars, NEW r \in Requests, Archiving(r), tx'[r] = tx[r]
    PROVE  /\ property.archived' = property.archived
           /\ \A u \in Units : /\ unit'[u].status = unit[u].status
                               /\ UnitRow(u) \in held[r] => lease'[u] = lease[u]
<1> DEFINE Goal ==
      /\ property.archived' = property.archived
      /\ \A u \in Units : /\ unit'[u].status = unit[u].status
                          /\ UnitRow(u) \in held[r] => lease'[u] = lease[u]
<1>1. PropertyRow \in held[r]
  BY DEF LocksInv, HeldInv
<1> USE DEF RowsInv, RowsType, Promise!TypeOK
<1>2. CASE UNCHANGED <<property, unit, lease>>
  BY <1>2
<1>3. ASSUME NEW q \in Requests, CommitArchive(q) PROVE FALSE
  <2>1. Archiving(q) /\ tx'[q] = Idle
    BY <1>3, EndLocks DEF CommitArchive, Archiving
  <2>2. q # r
    BY <2>1 DEF Idle, Archiving, Archives
  <2> QED
    BY <1>1, <2>1, <2>2 DEF LocksInv, HeldInv, Exclusive
<1>4. ASSUME NEW q \in Requests, NEW v \in Units, NEW illustrated \in BOOLEAN,
             CommitListing(q, v, illustrated)
      PROVE  Goal
  BY <1>4 DEF CommitListing, Promise!Unit
<1>5. CASE InventoryCommand
  <2>1. ~Free(PropertyRow) /\ \A u \in Units : Free(UnitRow(u)) => UnitRow(u) \notin held[r]
    BY <1>1 DEF Free
  <2>2. ASSUME NEW v \in Units, Promise!SetPricing(v) PROVE Goal
    BY <2>2 DEF Promise!SetPricing, Promise!Unit
  <2>3. ASSUME NEW v \in Units, NEW offer \in {"unavailable", "available"},
               Promise!SetAvailability(v, offer)
        PROVE  Goal
    BY <2>3 DEF Promise!SetAvailability, Promise!Unit
  <2>4. ASSUME NEW v \in Units, Free(UnitRow(v)), Promise!CreateLease(v) PROVE Goal
    BY <2>1, <2>4 DEF Promise!CreateLease
  <2> QED
    BY <1>5, <2>1, <2>2, <2>3, <2>4, Zenon DEF InventoryCommand
<1>6. ASSUME NEW q \in Requests,
             \/ Start(q) \/ LockProperty(q) \/ Statement(q)
             \/ End(q) /\ UNCHANGED database
             \/ \E u \in Units : CommitPublication(q, u)
             \/ \E u \in Units : CommitApproval(q, u)
      PROVE  UNCHANGED <<property, unit, lease>>
  <2>1. ASSUME UNCHANGED database PROVE UNCHANGED <<property, unit, lease>>
    BY <2>1 DEF database
  <2>2. ASSUME NEW u \in Units, CommitPublication(q, u) \/ CommitApproval(q, u)
        PROVE  UNCHANGED <<property, unit, lease>>
    BY <2>2 DEF CommitPublication, CommitApproval
  <2> QED
    BY <1>6, <2>1, <2>2, BeginLocks, LockPropertyLocks, StatementLocks
<1>7. ASSUME (\E active \in BOOLEAN : Assign(active)) \/ ListingEdit \/ UNCHANGED vars
      PROVE  UNCHANGED <<property, unit, lease>>
  BY <1>7 DEF Assign, ListingEdit, EditListing, RejectMedia, Unpublish, ListingCommand, vars
<1> QED
  BY <1>2, <1>3, <1>4, <1>5, <1>6, <1>7, StepKinds, Zenon

\* So what it has read stays true.
LEMMA ArchiveStep ==
    ASSUME LocksInv, RowsInv, ArchiveInv, [Next]_vars
    PROVE  ArchiveInv'
<1> SUFFICES ASSUME NEW r \in Requests, Archiving(r)'
             PROVE  /\ tx'[r].op = "archiveProperty" =>
                          ~property.archived' /\ tx'[r].units = ActiveUnits'
                    /\ tx'[r].stage = "lockListings" => MayArchive(r)'
  BY DEF ArchiveInv
<1> USE DEF Archiving
<1>1. CASE tx'[r] = tx[r]
  <2>1. /\ property.archived' = property.archived
        /\ \A u \in Units : /\ unit'[u].status = unit[u].status
                            /\ UnitRow(u) \in held[r] => lease'[u] = lease[u]
    BY <1>1, ArchiveFreezes
  <2>2. ActiveUnits' = ActiveUnits
    BY <2>1 DEF ActiveUnits, Promise!ActiveUnits
  <2>3. CASE tx[r].stage = "lockListings"
    <3>1. \A u \in tx[r].units : u \in Units /\ UnitRow(u) \in held[r]
      BY <1>1, <2>3 DEF LocksInv, LocksType, HeldInv, Tx
    <3>2. MayArchive(r)
      BY <1>1, <2>3 DEF ArchiveInv
    <3>3. MayArchive(r)'
      BY <1>1, <2>1, <2>2, <3>1, <3>2 DEF MayArchive
    <3> QED
      BY <1>1, <2>1, <2>2, <3>3 DEF ArchiveInv
  <2> QED
    BY <1>1, <2>1, <2>2, <2>3 DEF ArchiveInv
<1>2. ASSUME UNCHANGED database
      PROVE  /\ ActiveUnits' = ActiveUnits /\ property.archived' = property.archived
             /\ unit' = unit /\ lease' = lease
  BY <1>2 DEF database, ActiveUnits, Promise!ActiveUnits
<1>3. CASE Start(r)
  BY <1>3, BeginLocks
<1>4. CASE LockProperty(r)
  BY <1>2, <1>4, LockPropertyLocks
<1>5. CASE Statement(r)
  <2>1. /\ UNCHANGED database /\ Archiving(r)
        /\ tx'[r].op = tx[r].op /\ tx'[r].units = tx[r].units
        /\ tx'[r].stage = "lockListings" => tx[r].stage = "lockListings" \/ MayArchive(r)
    BY <1>5, StatementLocks
  <2>2. tx'[r].stage = "lockListings" => MayArchive(r)
    BY <2>1 DEF ArchiveInv
  <2> QED
    BY <1>2, <2>1, <2>2 DEF ArchiveInv, MayArchive
<1>6. CASE tx'[r] = Idle
  BY <1>6 DEF Idle, Archives
<1> QED
  BY <1>1, <1>3, <1>4, <1>5, <1>6, TxStep

------------------------------------------------------------------------------

\* The first Unit is not listed, and nobody holds a row.
LEMMA InitInv == Init => TransactionInv
<1> SUFFICES ASSUME Init PROVE TransactionInv
  OBVIOUS
<1>1. LocksInv
  <2>1. \A r \in Requests : held[r] = {} /\ tx[r] = Idle
    BY DEF Init
  <2>2. LocksType
    BY DEF Init, LocksType, Idle, Tx, Stages
  <2> QED
    BY <2>1, <2>2 DEF LocksInv, RequestInv, Exclusive, HeldInv, Idle, Archiving, Reading,
                      Archives, Publications
<1>2. RowsInv
  <2>1. PICK first \in Units : unit = [u \in Units |-> IF u = first THEN Promise!NewUnit ELSE Promise!Absent]
    BY DEF Init, Promise!Init
  <2>2. /\ Promise!NewUnit \in Promise!Unit /\ Promise!Absent \in Promise!Unit
        /\ Promise!NewUnit.publication = "draft" /\ Promise!Absent.publication = "draft"
    BY DEF Promise!NewUnit, Promise!Absent, Promise!Unit
  <2>3. Promise!TypeOK
    BY <2>1, <2>2 DEF Init, Promise!Init, Promise!TypeOK, Promise!Property
  <2>4. /\ \A u \in Units : listing[u].status = "none" /\ unit[u].publication = "draft"
        /\ listing \in [Units -> Listing] /\ assigned \in BOOLEAN
    BY <2>1, <2>2 DEF Init, NoListing, Listing
  <2> QED
    BY <2>3, <2>4 DEF RowsInv, RowsType, ListingInv, PublishedListingIsReviewed
<1>3. ArchiveInv /\ PublicationInv
  BY DEF Init, ArchiveInv, PublicationInv, Idle, Archiving, Archives, Publications
<1> QED
  BY <1>1, <1>2, <1>3 DEF TransactionInv

\* The inductive invariant: who may hold which row, and what stays true while
\* it is held.
THEOREM Transactions == Spec => []TransactionInv
<1>1. TransactionInv /\ [Next]_vars => TransactionInv'
  BY LocksStep, RowsStep, ArchiveStep, PublicationStep DEF TransactionInv
<1> QED
  BY <1>1, InitInv, PTL DEF Spec

\* Rows, locks and requests keep their shape.
THEOREM TypeCorrect == Spec => []TypeOK
<1>1. TransactionInv => TypeOK
  BY DEF TransactionInv, LocksInv, LocksType, RowsInv, RowsType, TypeOK
<1> QED
  BY <1>1, Transactions, PTL

\* Whatever runs between the publication's reads, what it publishes has been
\* reviewed, is illustrated and priced, and its Unit knows that it is listed.
THEOREM ReviewedListing == Spec => []PublishedListingIsReviewed
<1>1. TransactionInv => PublishedListingIsReviewed
  BY DEF TransactionInv, RowsInv
<1> QED
  BY <1>1, Transactions, PTL

\* Without a create_public_listing among them no set of requests waits for
\* itself: who holds the Property waits for nobody in the set, and who waits
\* for a Unit or for a listing that is being archived waits for its holder.
THEOREM DeadlockNeedsListing == Spec => []DeadlockNeedsListingCreation
<1>1. LocksInv => DeadlockNeedsListingCreation
  <2> SUFFICES ASSUME LocksInv, NEW group \in SUBSET Requests, Deadlocked(group),
                      \A r \in group : tx[r].op # "createListing"
               PROVE  FALSE
    BY DEF DeadlockNeedsListingCreation
  <2>1. /\ group # {} /\ \A r \in group : Wanted(r) # {}
        /\ \A r \in group : \A row \in Wanted(r) : \E q \in group \ {r} : row \in held[q]
    BY DEF Deadlocked
  <2>2. ASSUME NEW r \in group PROVE ~Reading(r)
    BY <2>1 DEF Wanted, Reading
  <2>3. ASSUME NEW r \in group, NEW u \in Units,
               UnitRow(u) \in Wanted(r) \/ ListingRow(u) \in Wanted(r)
        PROVE  \E q \in group \ {r} : Archiving(q)
    <3>1. PICK q \in group \ {r} : UnitRow(u) \in held[q] \/ ListingRow(u) \in held[q]
      BY <2>1, <2>3
    <3>2. Archiving(q)
      BY <2>2, <3>1 DEF LocksInv, HeldInv
    <3> QED
      BY <3>2
  <2>4. ASSUME NEW r \in group
        PROVE  \/ PropertyRow \in Wanted(r) /\ tx[r].stage = "lockProperty"
               \/ \E u \in Units : UnitRow(u) \in Wanted(r) \/ ListingRow(u) \in Wanted(r)
    <3>1. tx[r] \in Tx
      BY DEF LocksInv, LocksType
    <3>2. CASE tx[r].stage = "lockProperty"
      BY <3>2 DEF Wanted
    <3>3. CASE tx[r].stage = "lockUnits"
      <4>1. tx[r].todo # {}
        BY <2>1, <3>3 DEF Wanted
      <4>2. PICK u \in tx[r].todo : UnitRow(u) \in Wanted(r)
        BY <3>3, <4>1 DEF Wanted
      <4> QED
        BY <3>1, <4>2 DEF Tx
    <3>4. CASE tx[r].stage = "lockListings"
      <4>1. tx[r].todo # {}
        BY <2>1, <3>4 DEF Wanted
      <4>2. PICK u \in tx[r].todo : ListingRow(u) \in Wanted(r)
        BY <3>4, <4>1 DEF Wanted
      <4> QED
        BY <3>1, <4>2 DEF Tx
    <3> QED
      BY <2>1, <3>2, <3>3, <3>4 DEF Wanted
  <2>5. \A r \in group : ~Archiving(r)
    <3> SUFFICES ASSUME NEW r \in group, Archiving(r) PROVE FALSE
      OBVIOUS
    <3>1. PICK q \in group \ {r} : Archiving(q)
      BY <2>3, <2>4 DEF Archiving
    <3> QED
      BY <3>1 DEF LocksInv, HeldInv, Exclusive
  <2>6. PICK r \in group : TRUE
    BY <2>1
  <2>7. PropertyRow \in Wanted(r)
    BY <2>3, <2>4, <2>5
  <2> QED
    BY <2>1, <2>5, <2>7 DEF LocksInv, HeldInv
<1>2. TransactionInv => LocksInv
  BY DEF TransactionInv
<1> QED
  BY <1>1, <1>2, Transactions, PTL

------------------------------------------------------------------------------

\* The archive that commits is one archive of RentalInventory.
LEMMA CommitArchiveKeepsPromise ==
    ASSUME TransactionInv, NEW r \in Requests, CommitArchive(r)
    PROVE  Promise!Next
<1> USE DEF TransactionInv, RowsInv, RowsType, Promise!TypeOK
<1>1. /\ tx[r].stage = "lockListings" /\ tx[r].op \in Archives
      /\ unit' = [u \in Units |-> IF u \in tx[r].units THEN Promise!Archived(unit[u]) ELSE unit[u]]
      /\ property' = [property EXCEPT !.archived = @ \/ tx[r].op = "archiveProperty"]
      /\ lease' = lease
  BY DEF CommitArchive
<1>2. /\ MayArchive(r)
      /\ tx[r].op = "archiveProperty" => ~property.archived /\ tx[r].units = ActiveUnits
  BY <1>1 DEF ArchiveInv, Archiving
<1>3. CASE tx[r].op = "archiveUnit"
  <2>1. PICK u \in Units : tx[r].units = {u}
    BY <1>3 DEF LocksInv, RequestInv
  <2>2. unit[u].status = "active" /\ ~lease[u] /\ Promise!ActiveUnits # {u}
    BY <1>2, <1>3, <2>1 DEF MayArchive, ActiveUnits
  <2>3. unit' = [unit EXCEPT ![u] = Promise!Archived(@)]
    BY <1>1, <2>1
  <2>4. property' = property
    BY <1>1, <1>3 DEF Promise!Property
  <2> QED
    BY <1>1, <2>2, <2>3, <2>4 DEF Promise!ArchiveUnit, Promise!Next
<1>4. CASE tx[r].op = "archiveProperty"
  <2>1. ~property.archived /\ tx[r].units = Promise!ActiveUnits
    BY <1>2, <1>4 DEF ActiveUnits
  <2>2. \A u \in Promise!ActiveUnits : ~lease[u]
    BY <1>2, <2>1 DEF MayArchive
  <2>3. property' = [property EXCEPT !.archived = TRUE]
    BY <1>1, <1>4 DEF Promise!Property
  <2> QED
    BY <1>1, <2>1, <2>2, <2>3 DEF Promise!ArchiveProperty, Promise!Next
<1> QED
  BY <1>1, <1>3, <1>4 DEF Archives

\* So is the listing that is created, and every command of one step.
LEMMA PromiseStep ==
    ASSUME TransactionInv, [Next]_vars
    PROVE  [Promise!Next]_<<property, unit, lease>>
<1>1. ASSUME NEW r \in Requests, CommitArchive(r) PROVE Promise!Next
  BY <1>1, CommitArchiveKeepsPromise
<1>2. ASSUME NEW r \in Requests, NEW u \in Units, NEW illustrated \in BOOLEAN,
             CommitListing(r, u, illustrated)
      PROVE  Promise!Next
  <2>1. unit[u].status = "active" /\ unit[u].publication = "draft"
    BY <1>2 DEF CommitListing, MayList, TransactionInv, RowsInv, ListingInv
  <2>2. Promise!CreateListing(u)
    BY <1>2, <2>1 DEF CommitListing, Promise!CreateListing
  <2> QED
    BY <2>2 DEF Promise!Next
<1>3. CASE InventoryCommand
  BY <1>3, Zenon DEF InventoryCommand, Promise!Next
<1>4. ASSUME NEW r \in Requests,
             \/ Start(r) \/ LockProperty(r) \/ Statement(r)
             \/ End(r) /\ UNCHANGED database
             \/ \E u \in Units : CommitPublication(r, u)
             \/ \E u \in Units : CommitApproval(r, u)
      PROVE  UNCHANGED <<property, unit, lease>>
  <2>1. ASSUME UNCHANGED database PROVE UNCHANGED <<property, unit, lease>>
    BY <2>1 DEF database
  <2>2. ASSUME NEW u \in Units, CommitPublication(r, u) \/ CommitApproval(r, u)
        PROVE  UNCHANGED <<property, unit, lease>>
    BY <2>2 DEF CommitPublication, CommitApproval
  <2> QED
    BY <1>4, <2>1, <2>2, BeginLocks, LockPropertyLocks, StatementLocks DEF TransactionInv
<1>5. ASSUME (\E active \in BOOLEAN : Assign(active)) \/ ListingEdit \/ UNCHANGED vars
      PROVE  UNCHANGED <<property, unit, lease>>
  BY <1>5 DEF Assign, ListingEdit, EditListing, RejectMedia, Unpublish, ListingCommand, vars
<1> QED
  BY <1>1, <1>2, <1>3, <1>4, <1>5, StepKinds, Zenon

\* The transactions implement the atomic commands: whatever a request read
\* before it locked, what it commits is one command of RentalInventory.
THEOREM KeepsPromise == Spec => KeepsInventoryPromise
<1>1. Init => Promise!Init
  BY DEF Init
<1>2. TransactionInv /\ [Next]_vars => [Promise!Next]_(Promise!inventoryVars)
  BY PromiseStep DEF Promise!inventoryVars
<1> QED
  BY <1>1, <1>2, Transactions, PTL DEF Spec, KeepsInventoryPromise, Promise!Spec

\* So no interleaving of requests archives the last two Units of a live
\* Property, leaves a Unit behind in an archived one, or archives a leased Unit.
THEOREM RequestsKeepInvariants ==
    Spec => [](/\ Promise!LivePropertyHasUnit
               /\ Promise!ArchivedPropertyHasNoUnit
               /\ Promise!LeasedUnitIsActive)
<1>1. Promise!Init => Rental!Init
  BY DEF Promise!Init, Rental!Init, Promise!NewUnit, Rental!NewUnit, Promise!Absent, Rental!Absent
<1>2. [Promise!Next]_(Promise!inventoryVars) => [Rental!Next]_(Rental!inventoryVars)
  BY DEF Promise!Next, Rental!Next, Promise!inventoryVars, Rental!inventoryVars, Promise!AddUnit,
         Rental!AddUnit, Promise!SetPricing, Rental!SetPricing, Promise!SetAvailability,
         Rental!SetAvailability, Promise!CreateLease, Rental!CreateLease, Promise!CreateListing,
         Rental!CreateListing, Promise!SetVerification, Rental!SetVerification, Promise!ArchiveUnit,
         Rental!ArchiveUnit, Promise!ArchiveProperty, Rental!ArchiveProperty, Promise!ActiveUnits,
         Rental!ActiveUnits, Promise!NewUnit, Rental!NewUnit, Promise!Archived, Rental!Archived
<1>3. Promise!Spec => Rental!Spec
  BY <1>1, <1>2, PTL DEF Promise!Spec, Rental!Spec
<1>4. Rental!LivePropertyHasUnit /\ Rental!ArchivedPropertyHasNoUnit /\ Rental!LeasedUnitIsActive
      => /\ Promise!LivePropertyHasUnit
         /\ Promise!ArchivedPropertyHasNoUnit
         /\ Promise!LeasedUnitIsActive
  BY DEF Promise!LivePropertyHasUnit, Rental!LivePropertyHasUnit, Promise!ArchivedPropertyHasNoUnit,
         Rental!ArchivedPropertyHasNoUnit, Promise!LeasedUnitIsActive, Rental!LeasedUnitIsActive,
         Promise!ActiveUnits, Rental!ActiveUnits
<1> QED
  BY <1>3, <1>4, KeepsPromise, Rental!LiveProperty, Rental!ArchivedProperty, Rental!LeasedUnit, PTL
     DEF KeepsInventoryPromise
==============================================================================
