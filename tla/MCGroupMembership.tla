-------------------------- MODULE MCGroupMembership --------------------------
\* Instances of GroupMembership for TLC.
EXTENDS GroupMembership, TLC

\* Users are interchangeable: safety runs only.
Symmetry == Permutations(Users)
=============================================================================
