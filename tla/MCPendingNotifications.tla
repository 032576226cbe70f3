----------------------- MODULE MCPendingNotifications -----------------------
\* Instances of PendingNotifications for TLC.
EXTENDS PendingNotifications, TLC

\* Producers and connections are interchangeable: safety runs only.
Symmetry == Permutations(Producers) \cup Permutations(Conns)
=============================================================================
