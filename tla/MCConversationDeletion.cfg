SPECIFICATION Spec
CONSTANTS
    alice = alice
    bob = bob
    Users = {alice, bob}
    MaxMsgs = 2
    MaxDeletes = 1
    MaxLogins = 3
    MaxFaults = 1
SYMMETRY Participants
CHECK_DEADLOCK FALSE
INVARIANTS
    TypeOK
    WipedComesBack
    DeletedCauses
