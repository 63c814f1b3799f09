CONSTANT Units = {u1, u2, u3}
SYMMETRY UnitSymmetry
SPECIFICATION Spec
INVARIANT TypeOK
INVARIANT LivePropertyHasUnit
INVARIANT ArchivedPropertyHasNoUnit
INVARIANT LeasedUnitIsActive
PROPERTY ArchivedUnitIsFrozen
CHECK_DEADLOCK FALSE
