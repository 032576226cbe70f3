SPECIFICATION Spec
CONSTANTS
    Users = {a, b, c}
    Nobody = Nobody
    Requests = {"add", "leave", "kick", "info", "grant", "revoke", "recover", "message", "delete"}
    Faults = {"db"}
    MaxOps = 4
    MaxMsgs = 1
SYMMETRY Symmetry
INVARIANTS
    TypeOK
    NoOrphans
    MemberHasKey
PROPERTY
    CreatorNotRemoved
CHECK_DEADLOCK FALSE
