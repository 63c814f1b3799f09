------------------------ MODULE RentalInventoryProofs ------------------------
(***************************************************************************)
(* The promise of the rental-inventory commands holds for every set of     *)
(* Units.  Every step that is not one of the two archive commands changes  *)
(* at most one Unit's row, so the lemmas below follow the actions.         *)
(***************************************************************************)
EXTENDS RentalInventory, TLAPS

\* The rows keep their shape under every command.
THEOREM TypeCorrect == Spec => []TypeOK
<1>1. Init => TypeOK
  <2> SUFFICES ASSUME Init PROVE TypeOK
    OBVIOUS
  <2>1. PICK first \in Units : unit = [u \in Units |-> IF u = first THEN NewUnit ELSE Absent]
    BY DEF Init
  <2>2. NewUnit \in Unit /\ Absent \in Unit
    BY DEF NewUnit, Absent, Unit
  <2> QED
    BY <2>1, <2>2 DEF Init, TypeOK, Property
<1>2. TypeOK /\ [Next]_inventoryVars => TypeOK'
  <2> SUFFICES ASSUME TypeOK, [Next]_inventoryVars PROVE TypeOK'
    OBVIOUS
  <2> USE DEF TypeOK
  <2>1. ASSUME NEW u \in Units, AddUnit(u) PROVE TypeOK'
    BY <2>1 DEF AddUnit, NewUnit, Unit
  <2>2. ASSUME NEW u \in Units, SetPricing(u) PROVE TypeOK'
    BY <2>2 DEF SetPricing, Unit
  <2>3. ASSUME NEW u \in Units, NEW offer \in {"unavailable", "available"},
               SetAvailability(u, offer)
        PROVE  TypeOK'
    BY <2>3 DEF SetAvailability, Unit
  <2>4. ASSUME NEW u \in Units, CreateLease(u) PROVE TypeOK'
    BY <2>4 DEF CreateLease
  <2>5. ASSUME NEW u \in Units, CreateListing(u) PROVE TypeOK'
    BY <2>5 DEF CreateListing, Unit
  <2>6. ASSUME NEW u \in Units, ArchiveUnit(u) PROVE TypeOK'
    BY <2>6 DEF ArchiveUnit, Archived, Unit
  <2>7. CASE ArchiveProperty
    <3>1. \A u \in Units : unit'[u] \in Unit
      BY <2>7 DEF ArchiveProperty, Archived, Unit
    <3> QED
      BY <2>7, <3>1 DEF ArchiveProperty, Property
  <2>8. ASSUME NEW barred \in BOOLEAN, SetVerification(barred) PROVE TypeOK'
    BY <2>8 DEF SetVerification, Property
  <2>9. CASE UNCHANGED inventoryVars
    BY <2>9 DEF inventoryVars
  <2> QED
    BY <2>1, <2>2, <2>3, <2>4, <2>5, <2>6, <2>7, <2>8, <2>9 DEF Next
<1> QED
  BY <1>1, <1>2, PTL DEF Spec

\* What a command does to the set of active Units: nothing, a new Unit in a
\* live Property, one Unit archived that is not the only one, or all of them
\* with the Property.
LEMMA ActiveUnitsStep ==
    ASSUME TypeOK, [Next]_inventoryVars
    PROVE  \/ ActiveUnits' = ActiveUnits /\ property.archived' = property.archived
           \/ ~property.archived /\ ~property.archived' /\ \E u \in Units : ActiveUnits' = ActiveUnits \union {u}
           \/ /\ property.archived' = property.archived
              /\ \E u \in Units : ActiveUnits # {u} /\ ActiveUnits' = ActiveUnits \ {u}
           \/ property.archived' /\ ActiveUnits' = {}
<1> USE DEF TypeOK, ActiveUnits
<1>1. ASSUME NEW u \in Units, AddUnit(u)
      PROVE  ~property.archived /\ ~property.archived' /\ ActiveUnits' = ActiveUnits \union {u}
  BY <1>1 DEF AddUnit, NewUnit
<1>2. ASSUME NEW u \in Units,
             \/ SetPricing(u)
             \/ \E offer \in {"unavailable", "available"} : SetAvailability(u, offer)
             \/ CreateLease(u)
             \/ CreateListing(u)
      PROVE  ActiveUnits' = ActiveUnits /\ property.archived' = property.archived
  BY <1>2 DEF SetPricing, SetAvailability, CreateLease, CreateListing, Unit
<1>3. ASSUME NEW u \in Units, ArchiveUnit(u)
      PROVE  /\ property.archived' = property.archived
             /\ ActiveUnits # {u} /\ ActiveUnits' = ActiveUnits \ {u}
  BY <1>3 DEF ArchiveUnit, Archived, Unit
<1>4. ASSUME ArchiveProperty PROVE property.archived' /\ ActiveUnits' = {}
  BY <1>4 DEF ArchiveProperty, Archived, Unit, Property
<1>5. ASSUME NEW barred \in BOOLEAN, SetVerification(barred)
      PROVE  ActiveUnits' = ActiveUnits /\ property.archived' = property.archived
  BY <1>5 DEF SetVerification, Property
<1>6. ASSUME UNCHANGED inventoryVars
      PROVE  ActiveUnits' = ActiveUnits /\ property.archived' = property.archived
  BY <1>6 DEF inventoryVars
<1> QED
  BY <1>1, <1>2, <1>3, <1>4, <1>5, <1>6 DEF Next

\* archive_rental_unit never takes the last active Unit of a live Property.
THEOREM LiveProperty == Spec => []LivePropertyHasUnit
<1>1. Init => LivePropertyHasUnit
  <2> SUFFICES ASSUME Init PROVE ActiveUnits # {}
    BY DEF LivePropertyHasUnit
  <2>1. PICK first \in Units : unit = [u \in Units |-> IF u = first THEN NewUnit ELSE Absent]
    BY DEF Init
  <2>2. first \in ActiveUnits
    BY <2>1 DEF ActiveUnits, NewUnit
  <2> QED
    BY <2>2
<1>2. TypeOK /\ LivePropertyHasUnit /\ [Next]_inventoryVars => LivePropertyHasUnit'
  BY ActiveUnitsStep DEF LivePropertyHasUnit
<1> QED
  BY <1>1, <1>2, TypeCorrect, PTL DEF Spec

\* archive_rental_property takes every Unit, and add_rental_unit brings none
\* back.
THEOREM ArchivedProperty == Spec => []ArchivedPropertyHasNoUnit
<1>1. Init => ArchivedPropertyHasNoUnit
  BY DEF Init, ArchivedPropertyHasNoUnit
<1>2. TypeOK /\ ArchivedPropertyHasNoUnit /\ [Next]_inventoryVars => ArchivedPropertyHasNoUnit'
  BY ActiveUnitsStep DEF ArchivedPropertyHasNoUnit
<1> QED
  BY <1>1, <1>2, TypeCorrect, PTL DEF Spec

\* What a command does to one Unit's row and lease: an archived Unit keeps
\* both, and a Unit that has or gets a lease stays active.
LEMMA UnitStep ==
    ASSUME TypeOK, [Next]_inventoryVars, NEW u \in Units
    PROVE  /\ unit[u].status = "archived" => unit'[u] = unit[u] /\ lease'[u] = lease[u]
           /\ lease'[u] /\ ~lease[u] => unit'[u].status = "active"
           /\ lease[u] /\ unit[u].status = "active" => unit'[u].status = "active"
<1> DEFINE Goal ==
      /\ unit[u].status = "archived" => unit'[u] = unit[u] /\ lease'[u] = lease[u]
      /\ lease'[u] /\ ~lease[u] => unit'[u].status = "active"
      /\ lease[u] /\ unit[u].status = "active" => unit'[u].status = "active"
<1> SUFFICES Goal
  OBVIOUS
<1> USE DEF TypeOK
<1>1. ASSUME NEW v \in Units, AddUnit(v) PROVE Goal
  BY <1>1 DEF AddUnit, NewUnit
<1>2. ASSUME NEW v \in Units, SetPricing(v) \/ CreateListing(v) PROVE Goal
  BY <1>2 DEF SetPricing, CreateListing, Unit
<1>3. ASSUME NEW v \in Units, NEW offer \in {"unavailable", "available"}, SetAvailability(v, offer)
      PROVE  Goal
  BY <1>3 DEF SetAvailability, Unit
<1>4. ASSUME NEW v \in Units, CreateLease(v) PROVE Goal
  BY <1>4 DEF CreateLease
<1>5. ASSUME NEW v \in Units, ArchiveUnit(v) PROVE Goal
  BY <1>5 DEF ArchiveUnit
<1>6. ASSUME ArchiveProperty PROVE Goal
  BY <1>6 DEF ArchiveProperty, ActiveUnits
<1>7. ASSUME NEW barred \in BOOLEAN, SetVerification(barred) PROVE Goal
  BY <1>7 DEF SetVerification
<1>8. ASSUME UNCHANGED inventoryVars PROVE Goal
  BY <1>8 DEF inventoryVars
<1> QED
  BY <1>1, <1>2, <1>3, <1>4, <1>5, <1>6, <1>7, <1>8 DEF Next

\* A lease is never left on a Unit that is archived, and an archived Unit never
\* gets one.
THEOREM LeasedUnit == Spec => []LeasedUnitIsActive
<1>1. Init => LeasedUnitIsActive
  BY DEF Init, LeasedUnitIsActive
<1>2. TypeOK /\ LeasedUnitIsActive /\ [Next]_inventoryVars => LeasedUnitIsActive'
  BY UnitStep DEF LeasedUnitIsActive, TypeOK
<1> QED
  BY <1>1, <1>2, TypeCorrect, PTL DEF Spec

\* Archive is terminal for a Unit.
THEOREM FrozenUnit == Spec => ArchivedUnitIsFrozen
<1>1. TypeOK /\ [Next]_inventoryVars =>
        [\A u \in Units : unit[u].status = "archived" =>
            /\ unit'[u] = unit[u]
            /\ lease'[u] = lease[u]]_inventoryVars
  BY UnitStep
<1> QED
  BY <1>1, TypeCorrect, PTL DEF Spec, ArchivedUnitIsFrozen
==============================================================================
