CONSTANT Amounts = {1, 2}
CONSTANT MaxTime = 4
SPECIFICATION Spec
INVARIANT TypeOK
INVARIANT AtMostOneApplies
INVARIANT NothingLapses
INVARIANT ArchiveClosesOffers
PROPERTY HistoryOnlyCloses
CHECK_DEADLOCK FALSE
