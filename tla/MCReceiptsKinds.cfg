SPECIFICATION Spec
CONSTANTS
    Members = {u1}
    Author = Author
    Group = Group
    Budgets <- OneSocket
    MaxMsgs = 1
INVARIANT
    BothKindsQueued
CHECK_DEADLOCK FALSE
