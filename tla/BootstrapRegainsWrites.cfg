CONSTANTS
    MaxRevision = 3
    SourceOf <- MCSourceOf
    MaxRuns = 3
    None = None
SPECIFICATION Spec
PROPERTY CompletedBootstrapIsClosed
CHECK_DEADLOCK FALSE
