------------------------ MODULE MCFoundationDeployment ------------------------
\* Two revisions of one source and a third with another.
EXTENDS FoundationDeployment

MCSourceOf == [r \in Revisions |-> IF r = MaxRevision THEN "b" ELSE "a"]
==============================================================================
