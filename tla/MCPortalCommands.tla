--------------------------- MODULE MCPortalCommands ---------------------------
\* A small page: requests are interchangeable.
EXTENDS PortalCommands, TLC

Symmetry == Permutations(Calls)

=============================================================================
