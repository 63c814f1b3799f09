CONSTANT CreateKeys = {k1}
CONSTANT UpdateKeys = {k2, k3}
CONSTANT ArchiveKeys = {k4}
CONSTANT Calls = {c1, c2, c3}
CONSTANT MaxVersion = 4
SPECIFICATION FairSpec
INVARIANT TypeOK
INVARIANT ChangesBuildOnEachOther
PROPERTY KeepsExactlyOnce
PROPERTY EveryCallEnds
CHECK_DEADLOCK FALSE
