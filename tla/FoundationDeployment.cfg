CONSTANTS
    MaxRevision = 3
    SourceOf <- MCSourceOf
    MaxRuns = 3
    None = None
SPECIFICATION Spec
INVARIANTS
    TypeOK
    OneDeploymentAtATime
    ContinuationStandsOnBootstrap
    CompletedMeansDeployed
PROPERTIES
    NoBootstrapAfterHandoff
    WithinTheWindow
CHECK_DEADLOCK FALSE
