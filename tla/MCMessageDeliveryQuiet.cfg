SPECIFICATION FairSpec
CONSTANTS
    ca = ca
    cb1 = cb1
    cb2 = cb2
    cc = cc
    da = da
    db = db
    dc = dc
    alice = alice
    bob = bob
    carol = carol
    Conns = {ca, cb1, cb2}
    Devices = {da, db}
    Users = {alice, bob}
    DeviceOf <- MCDeviceOf
    UserOf <- MCUserOf
    Talkers = {da}
    None = None
    Faults = {}
    MaxAttempts = 2
    MaxSends = 2
PROPERTY
    EventuallyShown
CHECK_DEADLOCK FALSE
