SPECIFICATION Spec
CONSTANTS
    Members = {u1, u2}
    Author = Author
    Group = Group
    Budgets <- MCBudgets
    MaxMsgs = 1
SYMMETRY Symmetry
INVARIANTS
    TypeOK
    StatusHonest
    ReceiptsAccounted
PROPERTY
    StatusForward
CHECK_DEADLOCK FALSE
