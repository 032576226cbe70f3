-------------------------- MODULE MCMessageDelivery --------------------------
\* Instances of MessageDelivery for TLC.  Alice and carol have one device and
\* one connection each; bob has one device and two connections, so that he can
\* return while the server still holds his last session.
EXTENDS MessageDelivery, TLC

CONSTANTS ca, cb1, cb2, cc, da, db, dc, alice, bob, carol

MCDeviceOf == [c \in Conns |-> CASE c = ca -> da [] c = cc -> dc [] OTHER -> db]
MCUserOf == [d \in Devices |-> CASE d = da -> alice [] d = dc -> carol [] OTHER -> bob]

\* Bob's two connections are interchangeable.
Symmetry == Permutations({cb1, cb2})
=============================================================================
