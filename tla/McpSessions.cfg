CONSTANT Callers = {c1, c2}
CONSTANT Versions = {v1, v2}
CONSTANT SessionIds = {s1, s2}
CONSTANT Requests = {r1, r2}
CONSTANT IdleTtl = 2
CONSTANT AbsoluteTtl = 3
CONSTANT MaxSessions = 1
CONSTANT None = None
SPECIFICATION Spec
INVARIANT TypeOK
PROPERTY RefusalMeansFull
PROPERTY DeadStaysDead
PROPERTY OnlyTheOpener
PROPERTY EverySessionEnds
