----------------------------- MODULE MCReceipts -----------------------------
\* Instances of Receipts for TLC.
EXTENDS Receipts, TLC

\* How often a behaviour may have each kind of fault.
Faults(socket, crash, db, key, restart, leave) ==
    [socket |-> socket, crash |-> crash, db |-> db, key |-> key, restart |-> restart,
     leave |-> leave]

MCBudgets ==
    {Faults(1, 0, 0, 0, 1, 1), Faults(1, 0, 0, 1, 0, 0), Faults(1, 0, 1, 0, 0, 0),
     Faults(0, 1, 1, 1, 0, 0), Faults(0, 0, 1, 0, 0, 1)}

OneSocket == {Faults(1, 0, 0, 0, 0, 0)}

Symmetry == Permutations(Members)
=============================================================================
