----------------------- MODULE MCConversationDeletion -----------------------
\* Instance of ConversationDeletion for TLC.
EXTENDS ConversationDeletion, TLC

CONSTANTS alice, bob

\* The participants are interchangeable.
Participants == Permutations(Users)
=============================================================================
