-------------------------- MODULE MCSessionRegistry --------------------------
\* Instances of SessionRegistry for TLC.
EXTENDS SessionRegistry, TLC

\* Threads, addresses and users are interchangeable: safety runs only.
Symmetry ==
    Permutations(Conns) \cup Permutations(Addrs) \cup Permutations(Users)
=============================================================================
