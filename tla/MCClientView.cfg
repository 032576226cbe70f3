SPECIFICATION Spec
CONSTANTS
    alice = alice
    bob = bob
    team = team
    g1 = g1
    Peers = {alice, bob}
    GroupIds = {g1}
    Title <- OwnTitle
    NoChat = NoChat
    MaxMsgs = 2
INVARIANTS
    TypeOK
    OpenIsCached
    BadgeStored
    StatusStored
    OpenIsRead
    
PROPERTY
    ReceiptHonest
