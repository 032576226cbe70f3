---------------------------- MODULE MCClientView ----------------------------
\* Instances of ClientView for TLC.
EXTENDS ClientView, TLC

CONSTANTS alice, bob, team, g1

\* A group with a name of its own, and one named like the peer alice.
OwnTitle == g1 :> team
PeersTitle == g1 :> alice
=============================================================================
