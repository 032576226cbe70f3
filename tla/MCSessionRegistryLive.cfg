SPECIFICATION FairSpec
CONSTANTS
    Conns = {c1}
    Addrs = {a1, a2}
    NoAddr = NoAddr
    Users = {alice, bob}
    NoUser = NoUser
    Faults = {"db", "crash"}
    MaxTokens = 3
    MaxRegs = 3
PROPERTIES
    DeadPeerUnregistered
    ExpiredDeactivated
CHECK_DEADLOCK TRUE
