SPECIFICATION Spec
CONSTANTS
    ca = ca
    cb1 = cb1
    cb2 = cb2
    cc = cc
    da = da
    db = db
    dc = dc
    alice = alice
    bob = bob
    carol = carol
    Conns = {ca, cb1, cb2}
    Devices = {da, db}
    Users = {alice, bob}
    DeviceOf <- MCDeviceOf
    UserOf <- MCUserOf
    Talkers = {da}
    None = None
    Faults = {"drop", "ghost", "crash"}
    MaxAttempts = 1
    MaxSends = 2
SYMMETRY Symmetry
INVARIANTS
    TypeOK
    DeliveredWasWritten
    ShownOnce
    AttemptsBounded
CHECK_DEADLOCK FALSE
