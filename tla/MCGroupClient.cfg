SPECIFICATION FairSpec
CONSTANTS
    Users = {alice}
    NoUser = NoUser
    MaxGroups = 3
    MaxOps = 4
    Ops = {"create", "write", "text", "add", "kick", "logout", "drop", "peer", "role", "give", "leave"}
INVARIANTS
    TypeOK
    BufferedIsRequested
    KeyAgreement
    KeyStored
PROPERTY
    RecoveryCompletes
CHECK_DEADLOCK FALSE
