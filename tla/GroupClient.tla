----------------------------- MODULE GroupClient -----------------------------
(***************************************************************************)
(* Group keys in one installation of the BitATM client: NetworkManager's   *)
(* creation of groups (keys of the invited fetched first, the new key kept *)
(* under the id "0" until the server answers), the recovery of a lost key  *)
(* with the packets and texts that wait for it, the rotation after a kick, *)
(* and what logout, a lost connection and a login of the same or another   *)
(* user leave behind.  The server answers one packet at a time; what its   *)
(* group handlers do among themselves is GroupMembership.                  *)
(*                                                                         *)
(* An AES key is a number and a message carries the number of its key; RSA *)
(* is the name of the user who can unwrap.  The other members of a group   *)
(* are one peer, who has every group's key as its creation or last known   *)
(* distribution gave it.                                                   *)
(***************************************************************************)
EXTENDS Naturals, SequencesExt

CONSTANTS
    Users,      \* accounts used on this installation
    NoUser,     \* the empty user name
    MaxGroups,  \* bound: group ids; group 1 exists from the start
    MaxOps,     \* bound: things users, peers and the network do
    Ops         \* which of them happen in a run

ASSUME GroupClientConstants ==
    /\ NoUser \notin Users
    /\ MaxGroups \in Nat \ {0}
    /\ MaxOps \in Nat
    /\ Ops \subseteq {"create", "write", "text", "add", "kick", "logout", "drop", "peer", "role",
                     "give", "leave"}

VARIABLES
    me,        \* _currentUsername
    db,        \* whose LocalStorage is open
    up,        \* the socket is connected
    sess,      \* the user the server's ClientSession is logged in as
    inbox,     \* packets to the client
    outbox,    \* packets to the server
    mem,       \* _groupKeys; 0: no entry
    zero,      \* _groupKeys["0"]; 0: no entry
    disk,      \* table group_keys, per account
    rows,      \* table groups, per account
    known,     \* _peerKeys has the peer
    texts,     \* _pendingMessages: who wrote each text to the peer
    adds,      \* _pendingGroupMemberAdds: groups the peer is to be added to
    creations, \* _pendingGroupCreations: the keys of groups to create
    sends,     \* _pendingGroupSends: per group, who wrote each text
    packets,   \* _pendingGroupPackets: per group, the key of each packet
    requests,  \* _pendingGroupKeyRequests
    groups,    \* server: group ids 1..groups exist
    real,      \* the key the other members of a group have
    wrapped,   \* table group_keys of the server
    keys,      \* number of AES keys generated
    ops,       \* operations so far
    begun,     \* history: createGroup calls
    acked,     \* history: CREATE_GROUP answers read
    overlap,   \* history: a creation met another one or a foreign GROUP_INFO
    rotated,   \* history: groups whose key this client replaced
    adrift,    \* history: groups whose key was replaced with no store open
    cut,       \* history: groups whose key request will not be answered
    sent       \* history: group messages that reached the server

server == <<sess, groups, real, wrapped, sent>>
buffers == <<texts, adds, creations, sends, packets, requests>>
keyring == <<mem, zero, disk, rows, known, keys>>
ghosts == <<begun, acked, overlap, rotated, adrift, cut>>
vars == <<me, db, up, inbox, outbox, server, buffers, keyring, ops, ghosts>>

Groups == 1..MaxGroups
MaxKeys == MaxOps + 1

Happens(op) == op \in Ops /\ ops < MaxOps /\ ops' = ops + 1

\* NetworkManager::sendPacket: without a connection the packet is dropped.
Put(s) == outbox' = IF up THEN outbox \o s ELSE outbox

-----------------------------------------------------------------------------
\* Group 1 is an old one; this installation may have lost its local database.
Init ==
    /\ me = NoUser /\ db = NoUser /\ up = TRUE
    /\ sess = NoUser
    /\ inbox = <<>> /\ outbox = <<>>
    /\ mem = [g \in Groups |-> 0] /\ zero = 0
    /\ disk \in [Users -> {[g \in Groups |-> 0], [g \in Groups |-> IF g = 1 THEN 1 ELSE 0]}]
    /\ rows = [u \in Users |-> {g \in Groups : disk[u][g] # 0}]
    /\ known = FALSE
    /\ texts = <<>> /\ adds = <<>> /\ creations = <<>>
    /\ sends = [g \in Groups |-> <<>>]
    /\ packets = [g \in Groups |-> <<>>]
    /\ requests = {}
    /\ groups = 1
    /\ real = [g \in Groups |-> IF g = 1 THEN 1 ELSE 0]
    /\ wrapped = [g \in Groups |-> [u \in Users |-> IF g = 1 THEN 1 ELSE 0]]
    /\ keys = 1
    /\ ops = 0
    /\ begun = 0 /\ acked = 0 /\ overlap = FALSE
    /\ rotated = {} /\ adrift = {} /\ cut = {}
    /\ sent = {}

-----------------------------------------------------------------------------
(***************************************************************************)
(* What the user does.                                                     *)
(***************************************************************************)
\* sendLogin from the login page, after a reconnect if need be.
SendLogin(u) ==
    /\ me = NoUser
    /\ \A i \in DOMAIN outbox : outbox[i].kind # "login"
    /\ \A i \in DOMAIN inbox : inbox[i].kind # "ack"
    /\ up' = TRUE
    /\ outbox' = Append(outbox, [kind |-> "login", user |-> u])
    /\ UNCHANGED <<me, db, inbox, server, buffers, keyring, ops, ghosts>>

CreatePacket(k) == [kind |-> "create", key |-> k]

\* createGroup with the peer as the only other member.
CreateGroup ==
    /\ me # NoUser
    /\ begun + 1 < MaxGroups
    /\ Happens("create")
    /\ keys' = keys + 1
    /\ zero' = keys + 1
    /\ IF known
       THEN Put(<<CreatePacket(keys + 1)>>) /\ UNCHANGED creations
       ELSE Put(<<[kind |-> "fetch"]>>) /\ creations' = Append(creations, keys + 1)
    /\ begun' = begun + 1
    /\ overlap' = (overlap \/ begun > acked)
    /\ UNCHANGED <<me, db, up, inbox, server, texts, adds, sends, packets, requests, mem, disk,
                   rows, known, acked, rotated, adrift, cut>>

\* Mutant of RequestKey: the guard is set and nothing is sent.
RequestKeyUnsent(g) ==
    /\ requests' = requests \cup {g}
    /\ UNCHANGED outbox

\* requestGroupKey, one request per group until the key arrives.
RequestKey(g) ==
    /\ Put(IF g \in requests THEN <<>> ELSE <<[kind |-> "recover", group |-> g]>>)
    /\ requests' = requests \cup {g}

\* What user u wrote, sent in the name of who is logged in now.
Message(g, k, u) == [kind |-> "send", group |-> g, key |-> k, by |-> u, as |-> me]
Text(u) == [kind |-> "text", by |-> u, as |-> me]

\* sendGroupMessage; the store is not looked at.
SendGroupMessage(g) ==
    /\ me # NoUser
    /\ g \in rows[me]
    /\ Happens("write")
    /\ IF mem[g] = 0
       THEN /\ sends' = [sends EXCEPT ![g] = Append(@, me)]
            /\ RequestKey(g)
       ELSE /\ Put(<<Message(g, mem[g], me)>>)
            /\ UNCHANGED <<sends, requests>>
    /\ UNCHANGED <<me, db, up, inbox, server, texts, adds, creations, packets, keyring, ghosts>>

\* sendMessage to the peer: encryptAndSend, or wait for the public key.
SendMessage ==
    /\ me # NoUser
    /\ Happens("text")
    /\ IF known
       THEN Put(<<Text(me)>>) /\ UNCHANGED texts
       ELSE Put(<<[kind |-> "fetch"]>>) /\ texts' = Append(texts, me)
    /\ UNCHANGED <<me, db, up, inbox, server, adds, creations, sends, packets, requests,
                   keyring, ghosts>>

\* addGroupMember once the peer's key is known: nothing without a group key.
Give(g) == IF mem[g] = 0 THEN <<>> ELSE <<[kind |-> "give", group |-> g, key |-> mem[g]]>>

AddGroupMember(g) ==
    /\ me # NoUser
    /\ g \in rows[me]
    /\ Happens("add")
    /\ IF known
       THEN Put(Give(g)) /\ UNCHANGED adds
       ELSE Put(<<[kind |-> "fetch"]>>) /\ adds' = Append(adds, g)
    /\ UNCHANGED <<me, db, up, inbox, server, texts, creations, sends, packets, requests,
                   keyring, ghosts>>

KickMember(g) ==
    /\ me # NoUser
    /\ g \in rows[me]
    /\ Happens("kick")
    /\ Put(<<[kind |-> "kick", group |-> g]>>)
    /\ UNCHANGED <<me, db, up, inbox, server, buffers, keyring, ghosts>>

\* logout.  The socket stays open and the server is not told.
Logout ==
    /\ me # NoUser
    /\ Happens("logout")
    /\ me' = NoUser
    /\ db' = NoUser
    /\ mem' = [g \in Groups |-> 0]
    /\ zero' = 0
    /\ known' = FALSE
    /\ texts' = <<>>
    /\ cut' = cut \cup requests
    /\ UNCHANGED <<up, inbox, outbox, server, adds, creations, sends, packets, requests, disk, rows, keys, begun, acked,
                   overlap, rotated, adrift>>

\* The connection is lost: onDisconnected clears the user name and no more.
Disconnect ==
    /\ up
    /\ sess # NoUser
    /\ Happens("drop")
    /\ up' = FALSE
    /\ me' = NoUser
    /\ sess' = NoUser
    /\ inbox' = <<>>
    /\ outbox' = <<>>
    /\ cut' = cut \cup requests
    /\ UNCHANGED <<db, groups, real, wrapped, sent, buffers, keyring, begun, acked,
                   overlap, rotated, adrift>>

\* A member writes, or somebody's role changes, while the session listens.
PeerWrites(g) ==
    /\ sess # NoUser
    /\ wrapped[g][sess] # 0
    /\ Happens("peer")
    /\ inbox' = Append(inbox, [kind |-> "msg", group |-> g, key |-> real[g]])
    /\ UNCHANGED <<me, db, up, outbox, server, buffers, keyring, ghosts>>

RoleChanges(g) ==
    /\ sess # NoUser
    /\ wrapped[g][sess] # 0
    /\ Happens("role")
    /\ inbox' = Append(inbox, [kind |-> "info", group |-> g, created |-> FALSE])
    /\ UNCHANGED <<me, db, up, outbox, server, buffers, keyring, ghosts>>

(***************************************************************************)
(* The creator of group 1 puts the user out, who is told when online, or   *)
(* enters the user's name in the add dialog: an invite for who is no       *)
(* member, a bare GROUP_KEY_EXCHANGE for who is.                           *)
(***************************************************************************)
PeerKicks(u) ==
    /\ wrapped[1][u] # 0
    /\ Happens("leave")
    /\ wrapped' = [wrapped EXCEPT ![1][u] = 0]
    /\ inbox' = IF sess = u THEN Append(inbox, [kind |-> "left", group |-> 1]) ELSE inbox
    /\ UNCHANGED <<me, db, up, outbox, sess, groups, real, sent, buffers, keyring, ghosts>>

PeerGives ==
    /\ sess # NoUser
    /\ Happens("give")
    /\ wrapped' = [wrapped EXCEPT ![1][sess] = real[1]]
    /\ inbox' = Append(inbox, [kind |-> IF wrapped[1][sess] = 0 THEN "invite" ELSE "rekey",
                               group |-> 1, key |-> real[1], user |-> sess])
    /\ UNCHANGED <<me, db, up, outbox, sess, groups, real, sent, buffers, keyring, ghosts>>

-----------------------------------------------------------------------------
(***************************************************************************)
(* The server answers the next packet.  The first one of a connection is a *)
(* LOGIN; requests about a group the user is not in get an ERR.            *)
(***************************************************************************)
Reply(p) == inbox' = Append(inbox, p)
Err == [kind |-> "err"]

\* getMemberRole is empty.
Outsider(g) == wrapped[g][sess] = 0

\* In group 1 the user is an admin or a plain member; in the others creator.
NotAdmin(g) == Outsider(g) \/ g = 1

ServerLogin(p) ==
    /\ p.kind = "login"
    /\ sess' = p.user
    /\ Reply([kind |-> "ack", user |-> p.user])
    /\ UNCHANGED <<groups, real, wrapped, sent, cut>>

\* KeyExchangeHandler: the peer's public key.
ServerFetch(p) ==
    /\ p.kind = "fetch"
    /\ Reply([kind |-> "peerkey"])
    /\ UNCHANGED <<server, cut>>

\* CreateGroupHandler: a new id; the peer is invited with the packet's key.
ServerCreate(p) ==
    /\ p.kind = "create"
    /\ groups' = groups + 1
    /\ real' = [real EXCEPT ![groups + 1] = p.key]
    /\ wrapped' = [wrapped EXCEPT ![groups + 1][sess] = p.key]
    /\ Reply([kind |-> "info", group |-> groups + 1, created |-> TRUE])
    /\ UNCHANGED <<sess, sent, cut>>

\* GroupKeyExchangeHandler with an empty key: the stored one, as an invite.
ServerRecover(p) ==
    /\ p.kind = "recover"
    /\ IF Outsider(p.group)
       THEN Reply(Err) /\ cut' = cut \cup {p.group}
       ELSE /\ Reply([kind |-> "invite", group |-> p.group,
                      key |-> wrapped[p.group][sess], user |-> sess])
            /\ UNCHANGED cut
    /\ UNCHANGED server

\* GroupMessageHandler checks the membership of the session's user.
ServerMessage(p) ==
    /\ p.kind = "send"
    /\ IF Outsider(p.group)
       THEN Reply(Err) /\ UNCHANGED sent
       ELSE /\ sent' = sent \cup {[by |-> p.by, as |-> p.as, group |-> p.group, key |-> p.key]}
            /\ UNCHANGED inbox
    /\ UNCHANGED <<sess, groups, real, wrapped, cut>>

\* MessageHandler
ServerText(p) ==
    /\ p.kind = "text"
    /\ sent' = sent \cup {[by |-> p.by, as |-> p.as, group |-> 0, key |-> 0]}
    /\ UNCHANGED <<inbox, sess, groups, real, wrapped, cut>>

\* GroupKeyExchangeHandler with a key: the peer's client takes it over.
ServerGive(p) ==
    /\ p.kind = "give"
    /\ \/ NotAdmin(p.group) /\ Reply(Err) /\ UNCHANGED real
       \/ ~Outsider(p.group) /\ real' = [real EXCEPT ![p.group] = p.key] /\ UNCHANGED inbox
    /\ UNCHANGED <<sess, groups, wrapped, sent, cut>>

\* GroupLeaveHandler answers a kick, GroupInfoHandler anybody's query.
ServerKick(p) ==
    /\ p.kind = "kick"
    /\ \/ NotAdmin(p.group) /\ Reply(Err)
       \/ ~Outsider(p.group) /\ Reply([kind |-> "rotate", group |-> p.group])
    /\ UNCHANGED <<server, cut>>

ServerInfo(p) ==
    /\ p.kind = "query"
    /\ Reply([kind |-> "info", group |-> p.group, created |-> FALSE])
    /\ UNCHANGED <<server, cut>>

ServerStep ==
    /\ outbox # <<>>
    /\ LET p == Head(outbox) IN
       \/ ServerLogin(p) \/ ServerFetch(p) \/ ServerCreate(p) \/ ServerRecover(p)
       \/ ServerMessage(p) \/ ServerText(p) \/ ServerGive(p) \/ ServerKick(p) \/ ServerInfo(p)
    /\ outbox' = Tail(outbox)
    /\ UNCHANGED <<me, db, up, buffers, keyring, ops, begun, acked, overlap, rotated,
                   adrift>>

-----------------------------------------------------------------------------
(***************************************************************************)
(* The client reads the next packet.                                       *)
(***************************************************************************)
\* Mutant of saveGroupKey: the key is kept in memory only.
saveGroupKeyNot(d, g, k) == disk

\* LocalStorage::saveGroupKey, into the open database.
saveGroupKey(d, g, k) == IF d = NoUser THEN disk ELSE [disk EXCEPT ![d][g] = k]

\* LocalStorage::saveGroup
saveGroup(d, g) == IF d = NoUser THEN rows ELSE [rows EXCEPT ![d] = @ \cup {g}]

\* LocalStorage::loadGroupKey
loadGroupKey(g) == IF db = NoUser THEN 0 ELSE disk[db][g]

\* Mutant of LoginAcked: the database is only opened if none is open.
LoginKeepsStore(p) ==
    /\ p.kind = "ack"
    /\ me' = p.user
    /\ UNCHANGED <<db, mem, outbox, buffers, zero, disk, rows, known, keys, ghosts>>

\* handleLoginAck: open the store; loadLocalHistory takes the stored keys of
\* the stored groups.
LoginAcked(p) ==
    /\ p.kind = "ack"
    /\ me' = p.user
    /\ db' = p.user
    /\ mem' = [g \in Groups |->
                IF g \in rows[p.user] /\ disk[p.user][g] # 0 THEN disk[p.user][g] ELSE mem[g]]
    /\ UNCHANGED <<outbox, buffers, zero, disk, rows, known, keys, ghosts>>

\* handleKeyExchangeResponse: the texts, additions and creations that waited
\* for it go out.
PeerKeyArrives(p) ==
    /\ p.kind = "peerkey"
    /\ known' = TRUE
    /\ Put([i \in DOMAIN texts |-> Text(texts[i])]
           \o FlattenSeq([i \in DOMAIN adds |-> Give(adds[i])])
           \o [i \in DOMAIN creations |-> CreatePacket(creations[i])])
    /\ texts' = <<>> /\ adds' = <<>> /\ creations' = <<>>
    /\ UNCHANGED <<me, db, sends, packets, requests, mem, zero, disk, rows, keys, ghosts>>

\* Mutant of GroupInfoArrives: the key stays under "0" as well.
GroupInfoKeepsZero(p) ==
    /\ p.kind = "info"
    /\ mem' = IF zero # 0 THEN [mem EXCEPT ![p.group] = zero] ELSE mem
    /\ disk' = IF zero # 0 THEN saveGroupKey(db, p.group, zero) ELSE disk
    /\ rows' = saveGroup(db, p.group)
    /\ acked' = IF p.created THEN acked + 1 ELSE acked
    /\ overlap' = (overlap \/ (~p.created /\ begun > acked))
    /\ UNCHANGED <<me, db, outbox, buffers, zero, known, keys, begun, rotated, adrift,
                   cut>>

\* handleGroupInfo: whatever waits under "0" becomes the key of this group.
GroupInfoArrives(p) ==
    /\ p.kind = "info"
    /\ mem' = IF zero # 0 THEN [mem EXCEPT ![p.group] = zero] ELSE mem
    /\ disk' = IF zero # 0 THEN saveGroupKey(db, p.group, zero) ELSE disk
    /\ rows' = saveGroup(db, p.group)
    /\ zero' = 0
    /\ acked' = IF p.created THEN acked + 1 ELSE acked
    /\ overlap' = (overlap \/ (~p.created /\ begun > acked))
    /\ UNCHANGED <<me, db, outbox, buffers, known, keys, begun, rotated, adrift, cut>>

(***************************************************************************)
(* handleGroupInvite, also the answer to a key request, and                *)
(* handleGroupKeyExchange, which does the same without saveGroup: the key  *)
(* is kept and both buffers are drained.  Draining a packet decrypts it or *)
(* drops it.                                                               *)
(***************************************************************************)
TakeKey(p) ==
    /\ p.user = me
    /\ mem' = [mem EXCEPT ![p.group] = p.key]
    /\ disk' = saveGroupKey(db, p.group, p.key)
    /\ requests' = requests \ {p.group}
    /\ packets' = [packets EXCEPT ![p.group] = <<>>]
    /\ cut' = cut \ {p.group}
    /\ UNCHANGED <<me, db, texts, adds, creations, zero, known, keys, begun, acked, overlap,
                   rotated, adrift>>

\* Mutant of DrainSends: only the packets are drained.
DrainSendsNot(p) == UNCHANGED <<outbox, sends>>

DrainSends(p) ==
    /\ Put([i \in DOMAIN sends[p.group] |-> Message(p.group, p.key, sends[p.group][i])])
    /\ sends' = [sends EXCEPT ![p.group] = <<>>]

InviteArrives(p) ==
    /\ p.kind = "invite"
    /\ TakeKey(p)
    /\ rows' = saveGroup(db, p.group)
    /\ DrainSends(p)

RekeyArrives(p) ==
    /\ p.kind = "rekey"
    /\ TakeKey(p)
    /\ DrainSends(p)
    /\ UNCHANGED rows

\* The private key is gone, or is another user's: decryptRSA throws first.
KeyFails(p) ==
    /\ p.kind \in {"invite", "rekey"}
    /\ p.user # me
    /\ cut' = cut \cup {p.group}
    /\ UNCHANGED <<me, db, outbox, buffers, keyring, begun, acked, overlap, rotated, adrift>>

\* handleGroupMessage without a key, in memory or stored.
MessageBuffered(p) ==
    /\ p.kind = "msg"
    /\ mem[p.group] = 0 /\ loadGroupKey(p.group) = 0
    /\ packets' = [packets EXCEPT ![p.group] = Append(@, p.key)]
    /\ RequestKey(p.group)
    /\ UNCHANGED <<me, db, texts, adds, creations, sends, keyring, ghosts>>

\* With one: the message is decrypted, or dropped when the key is wrong.
MessageRead(p) ==
    /\ p.kind = "msg"
    /\ mem[p.group] # 0 \/ loadGroupKey(p.group) # 0
    /\ mem' = [mem EXCEPT ![p.group] = IF @ # 0 THEN @ ELSE loadGroupKey(p.group)]
    /\ UNCHANGED <<me, db, outbox, buffers, zero, disk, rows, known, keys, ghosts>>

\* rotateGroupKey: a new key for this client, and a query for the members.
Rotate(p) ==
    /\ p.kind = "rotate"
    /\ keys' = keys + 1
    /\ mem' = [mem EXCEPT ![p.group] = keys + 1]
    /\ disk' = saveGroupKey(db, p.group, keys + 1)
    /\ Put(<<[kind |-> "query", group |-> p.group]>>)
    /\ rotated' = rotated \cup {p.group}
    /\ adrift' = IF db = NoUser THEN adrift \cup {p.group} ELSE adrift
    /\ UNCHANGED <<me, db, buffers, zero, rows, known, begun, acked, overlap, cut>>

\* handleGroupLeave of a user who was put out; what is buffered stays.
Left(p) ==
    /\ p.kind = "left"
    /\ mem' = [mem EXCEPT ![p.group] = 0]
    /\ disk' = saveGroupKey(db, p.group, 0)
    /\ rows' = IF db = NoUser THEN rows ELSE [rows EXCEPT ![db] = @ \ {p.group}]
    /\ UNCHANGED <<me, db, outbox, buffers, zero, known, keys, ghosts>>

ErrArrives(p) ==
    /\ p.kind = "err"
    /\ UNCHANGED <<me, db, outbox, buffers, keyring, ghosts>>

ClientStep ==
    /\ up
    /\ inbox # <<>>
    /\ LET p == Head(inbox) IN
       \/ LoginAcked(p) \/ PeerKeyArrives(p) \/ GroupInfoArrives(p)
       \/ InviteArrives(p) \/ RekeyArrives(p) \/ KeyFails(p) \/ MessageBuffered(p)
       \/ MessageRead(p) \/ Rotate(p) \/ Left(p) \/ ErrArrives(p)
    /\ inbox' = Tail(inbox)
    /\ UNCHANGED <<up, server, ops>>

-----------------------------------------------------------------------------
Next ==
    \/ \E u \in Users : SendLogin(u) \/ PeerKicks(u)
    \/ CreateGroup \/ SendMessage \/ Logout \/ Disconnect \/ PeerGives
    \/ \E g \in Groups :
        \/ SendGroupMessage(g) \/ AddGroupMember(g) \/ KickMember(g)
        \/ PeerWrites(g) \/ RoleChanges(g)
    \/ ServerStep \/ ClientStep

Spec == Init /\ [][Next]_vars

\* Server and event loop run; a user who is at the login page logs in.
FairSpec ==
    /\ Spec
    /\ WF_vars(ServerStep) /\ WF_vars(ClientStep)
    /\ WF_vars(\E u \in Users : SendLogin(u))

-----------------------------------------------------------------------------
(***************************************************************************)
(* The variables keep the types of the client's members; whoever is logged *)
(* in has its own store open.                                              *)
(***************************************************************************)
TypeOK ==
    /\ me \in Users \cup {NoUser} /\ sess \in Users \cup {NoUser}
    /\ me # NoUser => db = me /\ up
    /\ mem \in [Groups -> 0..MaxKeys] /\ zero \in 0..MaxKeys
    /\ disk \in [Users -> [Groups -> 0..MaxKeys]]
    /\ keys \in 1..MaxKeys
    /\ groups \in Groups
    /\ requests \subseteq Groups
    /\ \A g \in Groups : \A i \in DOMAIN sends[g] : sends[g][i] \in Users

(***************************************************************************)
(* Nothing waits for a key that was not asked for: while a packet or a     *)
(* text is buffered for a group, the group is in _pendingGroupKeyRequests, *)
(* so that the handler of the answer finds them                            *)
(* (NetworkManager.cpp:617-630, 649-654, 484-487).                         *)
(***************************************************************************)
BufferedIsRequested ==
    \A g \in Groups : packets[g] # <<>> \/ sends[g] # <<>> => g \in requests

(***************************************************************************)
(* The client encrypts with the key the other members have, unless a       *)
(* creation overlapped with another one or with a GROUP_INFO of another    *)
(* group (both take the key that waits under "0"), or it rotated the key.  *)
(***************************************************************************)
KeyAgreement ==
    overlap \/ \A g \in Groups : mem[g] \in {0, real[g]} \/ g \in rotated

(***************************************************************************)
(* A key a logged-in client uses is in its store too, so it survives a     *)
(* restart: no path by which a key arrives forgets saveGroupKey.  The one  *)
(* exception is a rotation whose packet was read after a logout, when the  *)
(* store was closed (NetworkManager.cpp:767-777).                          *)
(***************************************************************************)
KeyStored ==
    \A g \in Groups :
        me # NoUser /\ mem[g] # 0 => disk[me][g] = mem[g] \/ g \in adrift

(***************************************************************************)
(* What is buffered for a group gets out, unless the request or its answer *)
(* was lost with the connection, fell into a logout, or was refused.       *)
(***************************************************************************)
RecoveryCompletes ==
    \A g \in Groups :
        (packets[g] # <<>> \/ sends[g] # <<>>)
            ~> ((packets[g] = <<>> /\ sends[g] = <<>>) \/ g \in cut)

(***************************************************************************)
(* "buffer the packet and recover our wrapped key from the server"         *)
(* (NetworkManager.cpp:649-650): a buffered packet is read in the end.     *)
(***************************************************************************)
BufferedReleased == \A g \in Groups : (packets[g] # <<>>) ~> (packets[g] = <<>>)

(***************************************************************************)
(* "Clear session state and return to login" (NetworkManager.h:69): what a *)
(* user wrote is never sent in the name of the next one.                   *)
(***************************************************************************)
OwnWords == \A s \in sent : s.by = s.as

(***************************************************************************)
(* "If sentinel key exists, a CREATE_GROUP was just acked"                 *)
(* (NetworkManager.cpp:713): no GROUP_INFO of another kind, and no second  *)
(* creation, meets a waiting key.                                          *)
(***************************************************************************)
ZeroMeansAcked == ~overlap
=============================================================================
