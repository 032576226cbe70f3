----------------------------- MODULE ClientView -----------------------------
(***************************************************************************)
(* What a user of the BitATM client sees: the conversation list with its   *)
(* unread badges (ConversationListModel), the open conversation and the    *)
(* cached ones (ChatModel), the signal handlers of Main.qml that feed      *)
(* them, and the SQLite cache behind (LocalStorage), through opening,      *)
(* writing, receiving, deleting, logout, a lost connection and a restart.  *)
(* Qt runs one click or one packet at a time, each to its end.             *)
(*                                                                         *)
(* Message i is the i-th written in any conversation; its number stands    *)
(* for its timestamp.  Keys, duplicates and group receipts are the subject *)
(* of GroupClient, MessageDelivery and Receipts.                           *)
(***************************************************************************)
EXTENDS Naturals, SequencesExt

CONSTANTS
    Peers,    \* users the account talks to
    GroupIds, \* groups it may be in
    Title,    \* the name of each group; a peer may have the same
    NoChat,   \* the empty string
    MaxMsgs   \* bound: messages

ASSUME ClientViewConstants ==
    /\ NoChat \notin Peers \cup GroupIds
    /\ Peers \cap GroupIds = {}
    /\ DOMAIN Title = GroupIds
    /\ MaxMsgs \in Nat

VARIABLES
    up,      \* the server takes the connection for the account's: a login, no loss since
    me,      \* _currentUsername is set
    db,      \* the SQLite database is open
    stored,  \* tables messages and group_messages: the status of each row
    rows,    \* tables conversations and groups
    count,   \* their unread_count
    list,    \* ConversationListModel::entries_
    cached,  \* ChatModel::cache_: the status of each entry
    shown,   \* ChatModel::entries_
    view,    \* ChatModel::activePeer_
    active,  \* root.activePeer
    known,   \* _peerKeys
    waiting, \* _pendingMessages
    unread,  \* _unreadTimestamps
    made,    \* messages so far: conversation and direction
    toAck,   \* the ACK "delivered" of the message is on its way
    toSee,   \* nobody has sent the receipt "seen" yet
    acked,   \* history: ACKs that were read
    read,    \* history: messages this client sent a READ_RECEIPT for
    gone,    \* history: messages taken off the screen for good (see Stray)
    bare     \* history: groups a message came to, in this session, before they had a row

link    == <<up, me, db>>
tables  == <<stored, rows, count>>
screen  == <<list, cached, shown, view, active>>
session == <<known, waiting, unread>>
wire    == <<made, toAck, toSee, acked>>
vars    == <<link, tables, screen, session, wire, read, gone, bare>>

Chats == Peers \cup GroupIds
Ids == 1..MaxMsgs
Statuses == {"none", "sent", "delivered", "seen"}

Nothing == [i \in Ids |-> "none"]
Of(c) == {i \in DOMAIN made : made[i].chat = c}

\* Messages of groups without a row.  loadGroups does not find them.
Stray == {i \in DOMAIN made : made[i].chat \in GroupIds \ rows}

-----------------------------------------------------------------------------
(***************************************************************************)
(* ConversationListModel, as functions of the list.  The entry of a peer   *)
(* is looked for by name, whatever it is an entry of; one of a group by    *)
(* its id; remove, markRead and setUnreadCount compare the right field.    *)
(***************************************************************************)
Entry(c, n, b) == [chat |-> c, name |-> n, badge |-> b]
First(K) == IF K = {} THEN 0 ELSE Min(K)
Position(l, c) == First({k \in DOMAIN l : l[k].chat = c})
Named(l, n) == First({k \in DOMAIN l : l[k].name = n})

addOrUpdate(l, p, inc) ==
    LET at == Named(l, p) IN
    IF at # 0 THEN [l EXCEPT ![at].badge = @ + inc] ELSE Append(l, Entry(p, p, inc))

\* Mutant of addOrUpdateGroup: the entry is looked for by name.
addOrUpdateGroupByName(l, g, n, inc) ==
    LET at == Named(l, n) IN
    IF at # 0 THEN [l EXCEPT ![at].badge = @ + inc] ELSE Append(l, Entry(g, n, inc))

addOrUpdateGroup(l, g, n, inc) ==
    LET at == Position(l, g) IN
    IF at # 0 THEN [l EXCEPT ![at].badge = @ + inc] ELSE Append(l, Entry(g, n, inc))

removeEntry(l, c) == IF Position(l, c) = 0 THEN l ELSE RemoveAt(l, Position(l, c))

setUnreadCount(l, c, n) ==
    IF Position(l, c) = 0 THEN l ELSE [l EXCEPT ![Position(l, c)].badge = n]

\* incrementUnread and incrementGroupUnread: an UPDATE of an existing row.
increment(c, inc) == [count EXCEPT ![c] = IF c \in rows THEN @ + inc ELSE @]

\* Mutant of markRead: the stored counter is not reset.
markReadListOnly(c) ==
    /\ list' = setUnreadCount(list, c, 0)
    /\ UNCHANGED count

markRead(c) ==
    /\ list' = setUnreadCount(list, c, 0)
    /\ count' = IF Position(list, c) # 0 /\ list[Position(list, c)].badge # 0
                THEN [count EXCEPT ![c] = 0] ELSE count

-----------------------------------------------------------------------------
\* Mutant of AppendAndCache: the open conversation is not extended.
AppendCacheOnly(c, i, st) ==
    /\ cached' = [cached EXCEPT ![i] = st]
    /\ shown' = shown

\* ChatModel::appendAndCache of message i of conversation c.
AppendAndCache(c, i, st) ==
    /\ cached' = [cached EXCEPT ![i] = st]
    /\ shown' = IF view = c THEN [shown EXCEPT ![i] = st] ELSE shown

\* ChatModel::clearAll
ClearAll == cached' = Nothing /\ shown' = Nothing /\ view' = NoChat

\* Mutant of UpdateStatus: nothing is written to SQLite.
UpdateStatusView(c, i, st) ==
    LET set(f) == IF made[i].chat = c /\ f[i] # "none" THEN [f EXCEPT ![i] = st] ELSE f IN
    /\ UNCHANGED stored
    /\ cached' = set(cached)
    /\ shown' = IF view = c THEN set(shown) ELSE shown

\* ChatModel::updateStatus: the row, the open view and the cache.
UpdateStatus(c, i, st) ==
    LET set(f) == IF made[i].chat = c /\ f[i] # "none" THEN [f EXCEPT ![i] = st] ELSE f IN
    /\ stored' = IF db THEN set(stored) ELSE stored
    /\ cached' = set(cached)
    /\ shown' = IF view = c THEN set(shown) ELSE shown

\* persistMessage and saveGroupMessage; a closed database takes nothing.  The row
\* of a peer is created on the way, that of a group is not.
Persist(S) ==
    /\ stored' = IF db THEN [i \in Ids |-> IF i \in S THEN "sent" ELSE stored[i]] ELSE stored
    /\ rows' = IF db THEN rows \cup ({made'[i].chat : i \in S} \cap Peers) ELSE rows

\* Mutant of MarkConversationRead: receipts for every conversation.
MarkAllRead(c, u) ==
    /\ unread' = IF c = NoChat THEN u ELSE {}
    /\ read' = IF c = NoChat THEN read ELSE read \cup u

\* markConversationRead: a READ_RECEIPT for every unread timestamp.
MarkConversationRead(c, u) ==
    /\ unread' = u \ {i \in u : made'[i].chat = c}
    /\ read' = read \cup {i \in u : made'[i].chat = c}

-----------------------------------------------------------------------------
Init ==
    /\ up = FALSE /\ me = FALSE /\ db = FALSE
    /\ stored = Nothing
    /\ rows = {}
    /\ count = [c \in Chats |-> 0]
    /\ list = <<>>
    /\ cached = Nothing /\ shown = Nothing
    /\ view = NoChat /\ active = NoChat
    /\ known = {} /\ waiting = {} /\ unread = {}
    /\ made = <<>>
    /\ toAck = {} /\ toSee = {} /\ acked = {}
    /\ read = {} /\ gone = {} /\ bare = {}

(***************************************************************************)
(* loadLocalHistory: the entries of a logged-out client (see Echo and      *)
(* GroupInfo) get their counts; the other conversations follow, looked for *)
(* by name, then the other groups.                                         *)
(***************************************************************************)
Loaded(q) ==
    [k \in DOMAIN q |-> Entry(q[k], IF q[k] \in Peers THEN q[k] ELSE Title[q[k]], count[q[k]])]

Recounted ==
    [k \in DOMAIN list |->
        IF list[k].chat \in rows THEN [list[k] EXCEPT !.badge = count[list[k].chat]] ELSE list[k]]

Load ==
    LET peers  == {p \in rows \cap Peers : Named(list, p) = 0}
        groups == {g \in rows \cap GroupIds : Position(list, g) = 0} IN
    \E p \in SetToSeqs(peers), g \in SetToSeqs(groups) :
        list' = Recounted \o Loaded(p) \o Loaded(g)

\* Mutant of Login: the list is loaded, the messages are not.
LoginListOnly ==
    /\ ~me
    /\ up' = TRUE /\ me' = TRUE /\ db' = TRUE
    /\ Load
    /\ UNCHANGED <<tables, cached, shown, view, active, session, wire, read, gone, bare>>

\* handleLoginAck, on a new connection if the old one was lost.
Login ==
    /\ ~me
    /\ up' = TRUE /\ me' = TRUE /\ db' = TRUE
    /\ Load
    /\ cached' = [i \in Ids |->
                    IF stored[i] # "none" /\ made[i].chat \in rows THEN stored[i] ELSE cached[i]]
    /\ UNCHANGED <<tables, shown, view, active, session, wire, read, gone, bare>>

\* openChat and openGroupChat.  Any peer can be typed in, a group is clicked.
Open(c) ==
    /\ me
    /\ c \in Peers \/ Position(list, c) # 0
    /\ active' = c
    /\ view' = c
    /\ shown' = [i \in Ids |-> IF i \in Of(c) THEN cached[i] ELSE "none"]
    /\ made' = made
    /\ MarkConversationRead(c, unread)
    /\ markRead(c)
    /\ UNCHANGED <<link, stored, rows, cached, known, waiting, toAck, toSee, acked, gone, bare>>

New(c, out) ==
    /\ Len(made) < MaxMsgs
    /\ made' = Append(made, [chat |-> c, out |-> out])

Newest == Len(made) + 1

\* The send button, for a peer: shown and listed at once, sent and stored
\* when the public key is known.
WriteToPeer(p) ==
    /\ me /\ active = p
    /\ New(p, TRUE)
    /\ AppendAndCache(p, Newest, "sent")
    /\ list' = addOrUpdate(list, p, 0)
    /\ IF p \in known
       THEN /\ Persist({Newest})
            /\ toAck' = toAck \cup {Newest} /\ toSee' = toSee \cup {Newest}
            /\ UNCHANGED waiting
       ELSE waiting' = waiting \cup {Newest} /\ UNCHANGED <<stored, rows, toAck, toSee>>
    /\ UNCHANGED <<link, count, view, active, known, unread, acked, read, gone, bare>>

WriteToGroup(g) ==
    /\ me /\ active = g
    /\ New(g, TRUE)
    /\ AppendAndCache(g, Newest, "sent")
    /\ list' = addOrUpdateGroup(list, g, NoChat, 0)
    /\ Persist({Newest})
    /\ toAck' = toAck \cup {Newest} /\ toSee' = toSee \cup {Newest}
    /\ UNCHANGED <<link, count, view, active, session, acked, read, gone, bare>>

\* handleKeyExchangeResponse: what waited for the key is sent and stored.
PeerKeyArrives(p) ==
    /\ up /\ me
    /\ p \notin known
    /\ known' = known \cup {p}
    /\ made' = made
    /\ Persist(waiting \cap Of(p))
    /\ waiting' = waiting \ Of(p)
    /\ toAck' = toAck \cup (waiting \cap Of(p))
    /\ toSee' = toSee \cup (waiting \cap Of(p))
    /\ UNCHANGED <<link, count, screen, unread, acked, read, gone, bare>>

\* Mutant of Incoming: the badge goes up for the open conversation too.
IncomingAlwaysCounts(p) ==
    /\ me
    /\ New(p, FALSE)
    /\ Persist({Newest})
    /\ \E U \in SUBSET {Newest} :
        MarkConversationRead(IF p = active THEN p ELSE NoChat, unread \cup U)
    /\ AppendAndCache(p, Newest, "sent")
    /\ list' = addOrUpdate(list, p, 1)
    /\ count' = [count EXCEPT ![p] = @ + 1]
    /\ UNCHANGED <<link, view, active, known, waiting, toAck, toSee, acked, gone, bare>>

(***************************************************************************)
(* handleIncomingMessage and onMessageDecrypted.  What cannot be decrypted *)
(* comes in as "[Encrypted]", without an entry in _unreadTimestamps (U is  *)
(* empty).  After a logout there is no private key and the packet is       *)
(* dropped.                                                                *)
(***************************************************************************)
Incoming(p) ==
    /\ me
    /\ New(p, FALSE)
    /\ Persist({Newest})
    /\ \E U \in SUBSET {Newest} :
        MarkConversationRead(IF p = active THEN p ELSE NoChat, unread \cup U)
    /\ AppendAndCache(p, Newest, "sent")
    /\ LET inc == IF p = active THEN 0 ELSE 1 IN
       /\ list' = addOrUpdate(list, p, inc)
       /\ count' = [count EXCEPT ![p] = @ + inc]
    /\ UNCHANGED <<link, view, active, known, waiting, toAck, toSee, acked, gone, bare>>

(***************************************************************************)
(* handleGroupMessage and onGroupMessageDecrypted.  It takes the key of    *)
(* the group and no row: a GROUP_KEY_EXCHANGE brings one without the other *)
(* (what waits for a key is the subject of GroupClient).                   *)
(***************************************************************************)
GroupIncoming(g) ==
    /\ me
    /\ New(g, FALSE)
    /\ Persist({Newest})
    /\ MarkConversationRead(IF g = active THEN g ELSE NoChat, unread \cup {Newest})
    /\ AppendAndCache(g, Newest, "sent")
    /\ LET inc == IF g = active THEN 0 ELSE 1 IN
       /\ list' = addOrUpdateGroup(list, g, NoChat, inc)
       /\ count' = increment(g, inc)
    /\ bare' = IF g \in rows THEN bare ELSE bare \cup {g}
    /\ UNCHANGED <<link, view, active, known, waiting, toAck, toSee, acked, gone>>

(***************************************************************************)
(* The echo of a message another device of the account sent.  Logout does  *)
(* not tell the server: an echo that comes after it finds no private key,  *)
(* is not stored, and reaches the models as "[Sent]" all the same.         *)
(***************************************************************************)
Echo(p) ==
    /\ up
    /\ New(p, TRUE)
    /\ Persist({Newest})
    /\ AppendAndCache(p, Newest, "sent")
    /\ list' = addOrUpdate(list, p, 0)
    /\ toSee' = toSee \cup {Newest}
    /\ UNCHANGED <<link, count, view, active, session, toAck, acked, read, gone, bare>>

\* The ACK of a message to a peer: onMessageDelivered takes the conversation
\* that is open now for the one the message is in.
Delivered(i) ==
    /\ up
    /\ i \in toAck /\ made[i].chat \in Peers
    /\ toAck' = toAck \ {i}
    /\ acked' = acked \cup {i}
    /\ UpdateStatus(active, i, "delivered")
    /\ UNCHANGED <<link, rows, count, list, view, active, session, made, toSee, read, gone,
                   bare>>

\* Everybody in the group has it.
GroupDelivered(i) ==
    /\ up
    /\ i \in toAck /\ made[i].chat \in GroupIds
    /\ toAck' = toAck \ {i}
    /\ UpdateStatus(made[i].chat, i, "delivered")
    /\ UNCHANGED <<link, rows, count, list, view, active, session, made, toSee, acked, read,
                   gone, bare>>

\* READ_RECEIPT of the peer, or of the last member of the group; the server
\* keeps it for the next login if need be.
Seen(i) ==
    /\ up
    /\ i \in toSee
    /\ toSee' = toSee \ {i}
    /\ toAck' = IF made[i].chat \in GroupIds THEN toAck \ {i} ELSE toAck
    /\ UpdateStatus(made[i].chat, i, "seen")
    /\ UNCHANGED <<link, rows, count, list, view, active, session, made, acked, read, gone,
                   bare>>

-----------------------------------------------------------------------------
\* LocalStorage::deleteConversation and removeGroup
DeleteRows(c) ==
    IF db
    THEN /\ stored' = [i \in Ids |-> IF i \in Of(c) THEN "none" ELSE stored[i]]
         /\ rows' = rows \ {c}
         /\ count' = [count EXCEPT ![c] = 0]
    ELSE UNCHANGED tables

(***************************************************************************)
(* A conversation is deleted here, for everyone, or by the peer:           *)
(* onConversationDeleted empties every cache if it was the open one, and   *)
(* none if it was not.                                                     *)
(***************************************************************************)
DeleteConversation(p) ==
    /\ up
    /\ DeleteRows(p)
    /\ list' = removeEntry(list, p)
    /\ IF active = p
       THEN ClearAll /\ active' = NoChat /\ gone' = gone \cup DOMAIN made
       ELSE UNCHANGED <<cached, shown, view, active>> /\ gone' = gone \cup Of(p)
    /\ UNCHANGED <<link, session, wire, read, bare>>

\* handleGroupInfo, which needs no key and lists the group after a logout too;
\* handleGroupInvite with its key does the same.
GroupInfo(g) ==
    /\ up
    /\ rows' = IF db THEN rows \cup {g} ELSE rows
    /\ list' = addOrUpdateGroup(list, g, Title[g], 0)
    /\ UNCHANGED <<link, stored, count, cached, shown, view, active, session, wire, read,
                   gone, bare>>

\* handleGroupLeave and onGroupLeft: ChatModel is not told.
GroupLeft(g) ==
    /\ up
    /\ DeleteRows(g)
    /\ active' = IF active = g THEN NoChat ELSE active
    /\ list' = removeEntry(list, g)
    /\ gone' = IF db THEN gone \cup Of(g) ELSE gone
    /\ UNCHANGED <<link, cached, shown, view, session, wire, read, bare>>

-----------------------------------------------------------------------------
ClearModels == ClearAll /\ active' = NoChat /\ list' = <<>> /\ bare' = {}

\* logout: the database is closed, the socket stays open.
Logout ==
    /\ me
    /\ me' = FALSE /\ db' = FALSE
    /\ known' = {} /\ waiting' = {} /\ unread' = {}
    /\ ClearModels
    /\ gone' = gone \cup Stray
    /\ UNCHANGED <<up, tables, wire, read>>

\* The connection is lost; the answers on their way with it.
Disconnect ==
    /\ up
    /\ up' = FALSE /\ me' = FALSE
    /\ ClearModels
    /\ toAck' = toAck \ UNION {Of(p) : p \in Peers}
    /\ gone' = gone \cup waiting \cup Stray
    /\ UNCHANGED <<db, tables, session, made, toSee, acked, read>>

\* The program ends and is started again.
Restart ==
    /\ up' = FALSE /\ me' = FALSE /\ db' = FALSE
    /\ known' = {} /\ waiting' = {} /\ unread' = {}
    /\ ClearModels
    /\ toAck' = toAck \ UNION {Of(p) : p \in Peers}
    /\ gone' = gone \cup Stray
    /\ UNCHANGED <<tables, made, toSee, acked, read>>

Next ==
    \/ Login \/ Logout \/ Disconnect \/ Restart
    \/ \E c \in Chats : Open(c)
    \/ \E p \in Peers :
        \/ WriteToPeer(p) \/ PeerKeyArrives(p) \/ Incoming(p) \/ Echo(p)
        \/ DeleteConversation(p)
    \/ \E g \in GroupIds :
        WriteToGroup(g) \/ GroupIncoming(g) \/ GroupInfo(g) \/ GroupLeft(g)
    \/ \E i \in DOMAIN made : Delivered(i) \/ GroupDelivered(i) \/ Seen(i)

Spec == Init /\ [][Next]_vars

-----------------------------------------------------------------------------
(***************************************************************************)
(* Models, tables and members of NetworkManager keep their types, and a    *)
(* conversation has one entry in the list and no message of another one.   *)
(***************************************************************************)
TypeOK ==
    /\ {up, me, db} \subseteq BOOLEAN
    /\ me => up /\ db
    /\ \A f \in {stored, cached, shown} : f \in [Ids -> Statuses]
    /\ rows \subseteq Chats
    /\ count \in [Chats -> 0..MaxMsgs]
    /\ \A k \in DOMAIN list : list[k].badge \in 0..MaxMsgs
    /\ \A k, m \in DOMAIN list : list[k].chat = list[m].chat => k = m
    /\ {view, active} \subseteq Chats \cup {NoChat}
    /\ waiting \cup unread \cup toAck \cup toSee \subseteq DOMAIN made

(***************************************************************************)
(* The conversation the page is about is the one ChatModel has, and the    *)
(* list it shows is that conversation's cache: no sequence of switches,    *)
(* arrivals, status changes and deletions lets the two copies of a message *)
(* drift apart (ChatModel.cpp:15-50, 85-112).                              *)
(***************************************************************************)
OpenIsCached ==
    /\ active # NoChat => view = active
    /\ \A i \in DOMAIN made :
        shown[i] = IF view = made[i].chat THEN cached[i] ELSE "none"

(***************************************************************************)
(* The unread badge in the list and the counter in SQLite agree, so that a *)
(* restart shows the same number (ConversationListModel.cpp:9-67, 118-163),*)
(* except for a group to which a message came, since the login, when it    *)
(* had no row to count it in.                                              *)
(***************************************************************************)
BadgeStored ==
    me => \A k \in DOMAIN list :
        list[k].badge = count[list[k].chat] \/ list[k].chat \in bare

(***************************************************************************)
(* A status that is displayed is the stored one: "Persist to SQLite so     *)
(* status survives app restarts" (ChatModel.cpp:87).                       *)
(***************************************************************************)
StatusStored ==
    me => \A i \in Ids :
        cached[i] # "none" /\ stored[i] # "none" => cached[i] = stored[i]

(***************************************************************************)
(* A READ_RECEIPT tells the truth: when it is sent the message is on the   *)
(* screen of its reader, unless it was taken off before: its conversation  *)
(* was deleted, its cache emptied by the deletion of another one           *)
(* (Main.qml:96-102), or the connection lost when its group had no row.    *)
(***************************************************************************)
ReceiptHonest ==
    [][\A i \in read' \ read : shown'[i] # "none" \/ i \in gone']_vars

(***************************************************************************)
(* Nothing in the open conversation stays unread: it has no badge, and the *)
(* receipts of the messages that wait in _unreadTimestamps went out when   *)
(* it was opened (NetworkManager.cpp:99-110, Main.qml:58-64).              *)
(***************************************************************************)
OpenIsRead ==
    /\ \A i \in unread : made[i].chat # active
    /\ \A k \in DOMAIN list : list[k].chat = active => list[k].badge = 0

(***************************************************************************)
(* The history of the account is there to be opened: what is stored is     *)
(* cached too, unless a deletion emptied the cache, the text waited for    *)
(* the key of the peer while the connection was lost (after the next login *)
(* it is sent and stored, and not shown), or its group had no row when the *)
(* session ended (loadGroups does not find what is stored for it).         *)
(***************************************************************************)
HistoryCached ==
    me => \A i \in Ids : stored[i] # "none" => cached[i] # "none" \/ i \in gone

(***************************************************************************)
(* "Delete a conversation from local cache" (NetworkManager.h:112), "for a *)
(* single peer" (LocalStorage.h:165): the others can still be opened.      *)
(***************************************************************************)
DeletionIsLocal ==
    [][\A p \in Peers : DeleteConversation(p) =>
        \A i \in DOMAIN made \ Of(p) : cached'[i] = cached[i]]_vars

(***************************************************************************)
(* "Wipes the local copy immediately" (NetworkManager.h:118): a deleted    *)
(* message is on no screen again.                                          *)
(***************************************************************************)
DeletedIsGone ==
    [][\A p \in Peers :
        DeleteConversation(p) /\ db => \A i \in Of(p) : cached'[i] = "none"]_vars

(***************************************************************************)
(* "used to update its status" (NetworkManager.h:164): a message whose ACK *)
(* was read is no longer "sent".                                           *)
(***************************************************************************)
AckedIsDelivered == me => \A i \in acked : stored[i] # "sent"

(***************************************************************************)
(* 'sent', 'delivered', 'seen' are stages: a message that was seen does    *)
(* not become a merely delivered one.                                      *)
(***************************************************************************)
SeenStays == [][\A i \in Ids : stored[i] = "seen" => stored'[i] # "delivered"]_vars

(***************************************************************************)
(* "Clear session state and return to login" (NetworkManager.h:69): the    *)
(* list of a fresh login names only stored conversations.                  *)
(***************************************************************************)
ListBacked ==
    me /\ active = NoChat /\ waiting = {} =>
        \A k \in DOMAIN list : list[k].chat \in rows
=============================================================================
