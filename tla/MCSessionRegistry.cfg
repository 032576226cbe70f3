SPECIFICATION Spec
CONSTANTS
    Conns = {c1, c2}
    Addrs = {a1, a2}
    NoAddr = NoAddr
    Users = {alice, bob}
    NoUser = NoUser
    Faults = {"db", "crash"}
    MaxTokens = 2
    MaxRegs = 3
SYMMETRY Symmetry
INVARIANTS
    TypeOK
    RegistryOwned
    PointerUnambiguous
    TokenOwnership
    OnlyOverlappingLoginsCoexist
PROPERTY
    ImplementsPresence
CHECK_DEADLOCK TRUE
