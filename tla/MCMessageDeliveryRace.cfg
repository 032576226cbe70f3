SPECIFICATION Spec
CONSTANTS
    ca = ca
    cb1 = cb1
    cb2 = cb2
    cc = cc
    da = da
    db = db
    dc = dc
    alice = alice
    bob = bob
    carol = carol
    Conns = {ca, cb1, cb2, cc}
    Devices = {da, db, dc}
    Users = {alice, bob, carol}
    DeviceOf <- MCDeviceOf
    UserOf <- MCUserOf
    Talkers = {da, dc}
    None = None
    Faults = {}
    MaxAttempts = 2
    MaxSends = 2
INVARIANT
    ReloadsOwnId
CHECK_DEADLOCK FALSE
