--------------------------- MODULE GroupMembership ---------------------------
(***************************************************************************)
(* One group of the BitATM server and the handlers that change it:         *)
(* CREATE_GROUP, GROUP_KEY_EXCHANGE (add a member, recover one's own key), *)
(* GROUP_LEAVE (leave and kick), GROUP_INFO (show, grant_admin,            *)
(* revoke_admin), GROUP_MESSAGE and DELETE_GROUP.  Groups are independent: *)
(* every statement names one.                                              *)
(*                                                                         *)
(* Each user has one connection, whose thread runs one handler at a time.  *)
(* GroupRepository autocommits, so every statement is a step of its own    *)
(* and handlers of different users interleave between statements.  All     *)
(* users are online: a notification reaches the client when it is sent.    *)
(*                                                                         *)
(* A GROUP_KEY_EXCHANGE with several pairs (replaceAllKeys) cannot arrive: *)
(* its pairs are separated by the wire format's field delimiter, which     *)
(* ends the key field after the first of them.                             *)
(***************************************************************************)
EXTENDS Naturals, FiniteSets

CONSTANTS
    Users,     \* user names; also the connection threads
    Nobody,    \* the empty user name
    Requests,  \* which kinds of packets clients send in a run
    Faults,    \* "db": a statement throws DbException
    MaxOps,    \* bound: requests
    MaxMsgs    \* bound: group messages

ASSUME GroupConstants ==
    /\ Nobody \notin Users
    /\ Requests \subseteq {"add", "leave", "kick", "info", "grant", "revoke",
                           "recover", "message", "delete"}
    /\ Faults \subseteq {"db"}
    /\ MaxOps \in Nat
    /\ MaxMsgs \in Nat

VARIABLES
    pc,        \* where each user's handler is
    who,       \* the user a handler is about
    mine,      \* actorRole as read
    fresh,     \* newMemberAdded
    todo,      \* users a loop still has to visit
    mid,       \* id of the message a handler saved
    group,     \* row of groups: "none", "live" or "deleted"
    owner,     \* groups.creator
    role,      \* table group_members; "none": no row
    keys,      \* table group_keys: who has a row
    msgs,      \* table group_messages: ids 1..msgs
    receipts,  \* table group_message_receipts
    lists,     \* users whose client lists the group
    knows,     \* users whose client has ever learned the group's id
    torn,      \* history: users whose member row was left without a key row,
               \* by a fault or by a CREATE_GROUP without their key
    ops        \* requests so far

locals == <<who, mine, fresh, todo, mid>>
tables == <<group, owner, role, keys, msgs, receipts>>
vars   == <<pc, locals, tables, lists, knows, torn, ops>>

Roles == {"none", "member", "admin", "creator"}
PCs == {"idle", "invite", "lookup", "add", "key", "announce", "target",
        "rmkey", "rmmember", "rmreceipts", "tell", "grant", "checkadmin",
        "revoke", "info", "changed", "getkey", "reply", "fanout", "save",
        "snapshot", "receipts", "collect", "telldeleted"}

Members == {u \in Users : role[u] # "none"}

\* The foreign keys to groups: an INSERT needs the row.
Live == group = "live"

Goto(u, l) == pc' = [pc EXCEPT ![u] = l]

\* A handler returns or throws; its locals are gone.
Done(u) ==
    /\ Goto(u, "idle")
    /\ who' = [who EXCEPT ![u] = Nobody]
    /\ mine' = [mine EXCEPT ![u] = "none"]
    /\ fresh' = [fresh EXCEPT ![u] = FALSE]
    /\ todo' = [todo EXCEPT ![u] = {}]
    /\ mid' = [mid EXCEPT ![u] = 0]

\* Clients send requests for groups they have heard of.
Ready(u, kind) ==
    /\ kind \in Requests
    /\ pc[u] = "idle"
    /\ u \in knows
    /\ ops < MaxOps

\* A packet about m is taken up.
Begin(u, m, l) ==
    /\ who' = [who EXCEPT ![u] = m]
    /\ Goto(u, l)
    /\ ops' = ops + 1

-----------------------------------------------------------------------------
Init ==
    /\ pc = [u \in Users |-> "idle"]
    /\ who = [u \in Users |-> Nobody]
    /\ mine = [u \in Users |-> "none"]
    /\ fresh = [u \in Users |-> FALSE]
    /\ todo = [u \in Users |-> {}]
    /\ mid = [u \in Users |-> 0]
    /\ group = "none"
    /\ owner = Nobody
    /\ role = [u \in Users |-> "none"]
    /\ keys = {}
    /\ msgs = 0
    /\ receipts = {}
    /\ lists = {}
    /\ knows = {}
    /\ torn = {}
    /\ ops = 0

(***************************************************************************)
(* CREATE_GROUP by u with the members M, a list the user typed: u may be   *)
(* in it.  Nobody else has the id before the first invite, so the INSERTs  *)
(* up to there are one step: the creator's row first, then M's, then the   *)
(* keys K that came.  The client leaves out a key it cannot encrypt, for   *)
(* want of a public key (NetworkManager.cpp:387-394), and the server       *)
(* invites that member without one.                                        *)
(***************************************************************************)
CreateGroup(u, M) ==
    /\ group = "none"
    /\ pc[u] = "idle"
    /\ M # {}
    /\ group' = "live"
    /\ owner' = u
    /\ role' = [m \in Users |-> IF m \in M THEN "member"
                                ELSE IF m = u THEN "creator" ELSE role[m]]
    /\ \E K \in SUBSET (M \ {u}) : keys' = K \cup {u} /\ torn' = M \ (K \cup {u})
    /\ todo' = [todo EXCEPT ![u] = M]
    /\ Goto(u, "invite")
    /\ UNCHANGED <<who, mine, fresh, mid, msgs, receipts, lists, knows, ops>>

\* A statement of CREATE_GROUP throws: the rows of A and the keys of K are in.
CreateGroupFails(u, M) ==
    /\ "db" \in Faults
    /\ group = "none"
    /\ pc[u] = "idle"
    /\ M # {}
    /\ \E A, K \in SUBSET (M \cup {u}) :
          /\ A # {} => u \in A
          /\ K # {} => A = M \cup {u}
          /\ role' = [m \in Users |-> IF m \notin A THEN "none"
                                      ELSE IF m \in M THEN "member" ELSE "creator"]
          /\ keys' = K
          /\ torn' = A \ K
    /\ group' = "live"
    /\ owner' = u
    /\ UNCHANGED <<pc, locals, msgs, receipts, lists, knows, ops>>

\* GROUP_INVITE to one of the members.
Invite(u, m) ==
    /\ pc[u] = "invite"
    /\ m \in todo[u]
    /\ todo' = [todo EXCEPT ![u] = @ \ {m}]
    /\ lists' = lists \cup {m}
    /\ knows' = knows \cup {m}
    /\ UNCHANGED <<pc, who, mine, fresh, mid, tables, torn, ops>>

\* The GROUP_INFO that tells the creator's client the id.
CreateReply(u) ==
    /\ pc[u] = "invite"
    /\ todo[u] = {}
    /\ lists' = lists \cup {u}
    /\ knows' = knows \cup {u}
    /\ Done(u)
    /\ UNCHANGED <<tables, torn, ops>>

-----------------------------------------------------------------------------
\* GROUP_KEY_EXCHANGE with one pair: u adds m.
RequestAdd(u, m) ==
    /\ Ready(u, "add")
    /\ role[u] \in {"creator", "admin"}
    /\ Begin(u, m, "lookup")
    /\ UNCHANGED <<mine, fresh, todo, mid, tables, lists, knows, torn>>

\* newMemberAdded: is m a member already?
LookupMember(u) ==
    /\ pc[u] = "lookup"
    /\ LET new == role[who[u]] = "none" IN
       /\ fresh' = [fresh EXCEPT ![u] = new]
       /\ Goto(u, IF new THEN "add" ELSE "key")
    /\ UNCHANGED <<who, mine, todo, mid, tables, lists, knows, torn, ops>>

\* Mutant of AddMember: group_members without its foreign key.
AddMemberNoForeignKey(u) ==
    /\ pc[u] = "add"
    /\ role' = [role EXCEPT ![who[u]] = "member"]
    /\ Goto(u, "key")
    /\ UNCHANGED <<locals, group, owner, keys, msgs, receipts, lists, knows, torn, ops>>

\* addMember: INSERT ... ON CONFLICT DO UPDATE SET role.
AddMember(u) ==
    /\ pc[u] = "add"
    /\ Live
    /\ role' = [role EXCEPT ![who[u]] = "member"]
    /\ Goto(u, "key")
    /\ UNCHANGED <<locals, group, owner, keys, msgs, receipts, lists, knows, torn, ops>>

SaveKey(u) ==
    /\ pc[u] = "key"
    /\ Live
    /\ keys' = keys \cup {who[u]}
    /\ torn' = torn \ {who[u]}
    /\ Goto(u, "announce")
    /\ UNCHANGED <<locals, group, owner, role, msgs, receipts, lists, knows, ops>>

\* GROUP_INVITE to a new member, GROUP_KEY_EXCHANGE to an old one.
Announce(u) ==
    /\ pc[u] = "announce"
    /\ lists' = IF fresh[u] THEN lists \cup {who[u]} ELSE lists
    /\ knows' = knows \cup {who[u]}
    /\ Done(u)
    /\ UNCHANGED <<tables, torn, ops>>

\* GROUP_KEY_EXCHANGE without a pair: u asks for the stored key.
RequestKey(u) ==
    /\ Ready(u, "recover")
    /\ role[u] # "none"
    /\ Begin(u, Nobody, "getkey")
    /\ UNCHANGED <<mine, fresh, todo, mid, tables, lists, knows, torn>>

GetKey(u) ==
    /\ pc[u] = "getkey"
    /\ u \in keys
    /\ Goto(u, "reply")
    /\ UNCHANGED <<locals, tables, lists, knows, torn, ops>>

RefuseKey(u) ==
    /\ pc[u] = "getkey"
    /\ u \notin keys
    /\ Done(u)
    /\ UNCHANGED <<tables, lists, knows, torn, ops>>

-----------------------------------------------------------------------------
\* Mutant of RequestLeave: the target is packet.body, empty or not.
RequestLeaveOfBody(u) ==
    /\ Ready(u, "leave")
    /\ role[u] # "none"
    /\ mine' = [mine EXCEPT ![u] = role[u]]
    /\ Begin(u, Nobody, "target")
    /\ UNCHANGED <<fresh, todo, mid, tables, lists, knows, torn>>

\* GROUP_LEAVE: u leaves.
RequestLeave(u) ==
    /\ Ready(u, "leave")
    /\ role[u] # "none"
    /\ mine' = [mine EXCEPT ![u] = role[u]]
    /\ Begin(u, u, "target")
    /\ UNCHANGED <<fresh, todo, mid, tables, lists, knows, torn>>

\* GROUP_LEAVE with a name: u kicks m.
RequestKick(u, m) ==
    /\ Ready(u, "kick")
    /\ m # u
    /\ role[u] # "none"
    /\ mine' = [mine EXCEPT ![u] = role[u]]
    /\ Begin(u, m, "target")
    /\ UNCHANGED <<fresh, todo, mid, tables, lists, knows, torn>>

\* Mutant of MayRemove: nothing protects the creator.
MayRemoveAnybody(u) ==
    who[u] # u => mine[u] = "creator" \/ (mine[u] = "admin" /\ role[who[u]] # "admin")

\* The checks on targetRole and actorRole.
MayRemove(u) ==
    /\ role[who[u]] # "creator"
    /\ who[u] # u => \/ mine[u] = "creator"
                     \/ mine[u] = "admin" /\ role[who[u]] # "admin"

CheckTarget(u) ==
    /\ pc[u] = "target"
    /\ MayRemove(u)
    /\ Goto(u, "rmkey")
    /\ UNCHANGED <<locals, tables, lists, knows, torn, ops>>

RefuseTarget(u) ==
    /\ pc[u] = "target"
    /\ ~MayRemove(u)
    /\ Done(u)
    /\ UNCHANGED <<tables, lists, knows, torn, ops>>

\* The two statements of removeMember.
DeleteKeyRow(u) == keys' = keys \ {who[u]} /\ UNCHANGED role
DeleteMemberRow(u) == role' = [role EXCEPT ![who[u]] = "none"] /\ UNCHANGED keys

\* Mutant of RemoveMember: the member row goes first, the key row second.
RemoveMemberRowFirst(u) ==
    /\ \/ pc[u] = "rmkey" /\ DeleteMemberRow(u) /\ Goto(u, "rmmember")
       \/ pc[u] = "rmmember" /\ DeleteKeyRow(u) /\ Goto(u, "rmreceipts")
    /\ UNCHANGED <<locals, group, owner, msgs, receipts, lists, knows, torn, ops>>

\* removeMember: the key row, then the member row.
RemoveMember(u) ==
    /\ \/ pc[u] = "rmkey" /\ DeleteKeyRow(u) /\ Goto(u, "rmmember")
       \/ pc[u] = "rmmember" /\ DeleteMemberRow(u) /\ Goto(u, "rmreceipts")
    /\ UNCHANGED <<locals, group, owner, msgs, receipts, lists, knows, torn, ops>>

DeleteReceiptsForMember(u) ==
    /\ pc[u] = "rmreceipts"
    /\ receipts' = {r \in receipts : r.user # who[u]}
    /\ Goto(u, "tell")
    /\ UNCHANGED <<locals, group, owner, role, keys, msgs, lists, knows, torn, ops>>

\* GROUP_LEAVE to the one who is out.
TellLeft(u) ==
    /\ pc[u] = "tell"
    /\ lists' = lists \ {who[u]}
    /\ Done(u)
    /\ UNCHANGED <<tables, knows, torn, ops>>

-----------------------------------------------------------------------------
\* GROUP_INFO grant_admin and revoke_admin.  The target of a grant is not
\* looked at.
RequestGrant(u, m) ==
    /\ Ready(u, "grant")
    /\ role[u] = "creator"
    /\ Begin(u, m, "grant")
    /\ UNCHANGED <<mine, fresh, todo, mid, tables, lists, knows, torn>>

RequestRevoke(u, m) ==
    /\ Ready(u, "revoke")
    /\ role[u] = "creator"
    /\ Begin(u, m, "checkadmin")
    /\ UNCHANGED <<mine, fresh, todo, mid, tables, lists, knows, torn>>

CheckAdmin(u) ==
    /\ pc[u] = "checkadmin"
    /\ role[who[u]] = "admin"
    /\ Goto(u, "revoke")
    /\ UNCHANGED <<locals, tables, lists, knows, torn, ops>>

RefuseRevoke(u) ==
    /\ pc[u] = "checkadmin"
    /\ role[who[u]] # "admin"
    /\ Done(u)
    /\ UNCHANGED <<tables, lists, knows, torn, ops>>

\* updateRole: an UPDATE, which a missing row makes void.
UpdateRole(u) ==
    /\ pc[u] \in {"grant", "revoke"}
    /\ role' = [role EXCEPT ![who[u]] =
                  IF @ = "none" THEN "none"
                  ELSE IF pc[u] = "grant" THEN "admin" ELSE "member"]
    /\ Goto(u, "changed")
    /\ UNCHANGED <<locals, group, owner, keys, msgs, receipts, lists, knows, torn, ops>>

\* GROUP_INFO without a sub-command.
RequestInfo(u) ==
    /\ Ready(u, "info")
    /\ Begin(u, Nobody, "info")
    /\ UNCHANGED <<mine, fresh, todo, mid, tables, lists, knows, torn>>

\* findGroupById and getMembers: the other members hear of a role change.
FindGroup(u) ==
    /\ pc[u] \in {"info", "changed"}
    /\ Live
    /\ todo' = [todo EXCEPT ![u] = IF pc[u] = "changed" THEN Members \ {u} ELSE {}]
    /\ Goto(u, "reply")
    /\ UNCHANGED <<who, mine, fresh, mid, tables, lists, knows, torn, ops>>

\* GROUP_INFO or, with the key, GROUP_INVITE: either makes the client list
\* the group, whoever asked.
Reply(u) ==
    /\ pc[u] = "reply"
    /\ lists' = lists \cup {u}
    /\ Goto(u, "fanout")
    /\ UNCHANGED <<locals, tables, knows, torn, ops>>

FanOut(u, m) ==
    /\ pc[u] = "fanout"
    /\ m \in todo[u]
    /\ todo' = [todo EXCEPT ![u] = @ \ {m}]
    /\ lists' = lists \cup {m}
    /\ knows' = knows \cup {m}
    /\ UNCHANGED <<pc, who, mine, fresh, mid, tables, torn, ops>>

FanOutDone(u) ==
    /\ pc[u] = "fanout"
    /\ todo[u] = {}
    /\ Done(u)
    /\ UNCHANGED <<tables, lists, knows, torn, ops>>

-----------------------------------------------------------------------------
\* GROUP_MESSAGE by a member.
RequestMessage(u) ==
    /\ Ready(u, "message")
    /\ role[u] # "none"
    /\ Begin(u, Nobody, "save")
    /\ UNCHANGED <<mine, fresh, todo, mid, tables, lists, knows, torn>>

SaveMessage(u) ==
    /\ pc[u] = "save"
    /\ Live
    /\ msgs < MaxMsgs
    /\ msgs' = msgs + 1
    /\ mid' = [mid EXCEPT ![u] = msgs + 1]
    /\ Goto(u, "snapshot")
    /\ UNCHANGED <<who, mine, fresh, todo, group, owner, role, keys, receipts, lists,
                   knows, torn, ops>>

\* getMembers: the recipients.
Snapshot(u) ==
    /\ pc[u] = "snapshot"
    /\ todo' = [todo EXCEPT ![u] = Members \ {u}]
    /\ Goto(u, "receipts")
    /\ UNCHANGED <<who, mine, fresh, mid, tables, lists, knows, torn, ops>>

\* insertReceiptRows: rows of different users do not interfere.  A statement
\* that fails leaves the rows of S.  The fan-out of the message and the ACK
\* follow.
InsertReceiptRows(u) ==
    /\ pc[u] = "receipts"
    /\ \E S \in SUBSET todo[u] :
          /\ S # {} => Live
          /\ S # todo[u] => "db" \in Faults
          /\ receipts' = receipts \cup {[msg |-> mid[u], user |-> m] : m \in S}
    /\ Done(u)
    /\ UNCHANGED <<group, owner, role, keys, msgs, lists, knows, torn, ops>>

-----------------------------------------------------------------------------
\* DELETE_GROUP by the creator.
RequestDelete(u) ==
    /\ Ready(u, "delete")
    /\ role[u] = "creator"
    /\ Begin(u, Nobody, "collect")
    /\ UNCHANGED <<mine, fresh, todo, mid, tables, lists, knows, torn>>

CollectMembers(u) ==
    /\ pc[u] = "collect"
    /\ todo' = [todo EXCEPT ![u] = Members]
    /\ Goto(u, "telldeleted")
    /\ UNCHANGED <<who, mine, fresh, mid, tables, lists, knows, torn, ops>>

TellDeleted(u, m) ==
    /\ pc[u] = "telldeleted"
    /\ m \in todo[u]
    /\ todo' = [todo EXCEPT ![u] = @ \ {m}]
    /\ lists' = lists \ {m}
    /\ UNCHANGED <<pc, who, mine, fresh, mid, tables, knows, torn, ops>>

\* The DELETE cascades to all tables of the group.
DeleteGroup(u) ==
    /\ pc[u] = "telldeleted"
    /\ todo[u] = {}
    /\ group' = "deleted"
    /\ role' = [m \in Users |-> "none"]
    /\ keys' = {}
    /\ msgs' = 0
    /\ receipts' = {}
    /\ Done(u)
    /\ UNCHANGED <<owner, lists, knows, torn, ops>>

-----------------------------------------------------------------------------
\* What makes the statement a handler is at throw: the database, a missing
\* groups row, a full table (the bound).  In the tables a crash of the server
\* leaves what such throws of all handlers under way leave.
Throws(u) ==
    \/ /\ "db" \in Faults
       /\ pc[u] \notin {"idle", "invite", "announce", "tell", "reply", "fanout"}
    \/ ~Live /\ pc[u] \in {"add", "key", "info", "changed", "save"}
    \/ ~Live /\ pc[u] = "receipts" /\ todo[u] # {}
    \/ msgs = MaxMsgs /\ pc[u] = "save"

HandlerThrows(u) ==
    /\ Throws(u)
    /\ torn' = IF pc[u] \in {"key", "rmmember"} THEN torn \cup {who[u]} ELSE torn
    /\ Done(u)
    /\ UNCHANGED <<tables, lists, knows, ops>>

Request(u) ==
    \/ RequestKey(u) \/ RequestLeave(u) \/ RequestInfo(u) \/ RequestMessage(u)
    \/ RequestDelete(u)
    \/ \E m \in Users : \/ RequestAdd(u, m) \/ RequestKick(u, m)
                        \/ RequestGrant(u, m) \/ RequestRevoke(u, m)

HandlerStep(u) ==
    \/ CreateReply(u) \/ LookupMember(u) \/ AddMember(u) \/ SaveKey(u) \/ Announce(u)
    \/ CheckTarget(u) \/ RefuseTarget(u) \/ RemoveMember(u)
    \/ DeleteReceiptsForMember(u) \/ TellLeft(u)
    \/ CheckAdmin(u) \/ RefuseRevoke(u) \/ UpdateRole(u)
    \/ GetKey(u) \/ RefuseKey(u) \/ FindGroup(u) \/ Reply(u) \/ FanOutDone(u)
    \/ SaveMessage(u) \/ Snapshot(u) \/ InsertReceiptRows(u)
    \/ CollectMembers(u) \/ DeleteGroup(u) \/ HandlerThrows(u)
    \/ \E m \in Users : Invite(u, m) \/ FanOut(u, m) \/ TellDeleted(u, m)

Next ==
    \E u \in Users :
        \/ \E M \in SUBSET Users : CreateGroup(u, M) \/ CreateGroupFails(u, M)
        \/ Request(u)
        \/ HandlerStep(u)

Spec == Init /\ [][Next]_vars

-----------------------------------------------------------------------------
\* Handlers that are about a user have one.
Targets ==
    \A u \in Users :
        pc[u] \in {"lookup", "add", "key", "announce", "target", "rmkey", "rmmember",
                   "rmreceipts", "tell", "grant", "checkadmin", "revoke"}
        => who[u] \in Users

(***************************************************************************)
(* Every variable keeps its type, and a handler that is about a user has   *)
(* one.                                                                    *)
(***************************************************************************)
TypeOK ==
    /\ pc \in [Users -> PCs]
    /\ who \in [Users -> Users \cup {Nobody}]
    /\ mine \in [Users -> Roles]
    /\ fresh \in [Users -> BOOLEAN]
    /\ todo \in [Users -> SUBSET Users]
    /\ mid \in [Users -> Nat]
    /\ group \in {"none", "live", "deleted"}
    /\ owner \in Users \cup {Nobody}
    /\ role \in [Users -> Roles]
    /\ keys \subseteq Users
    /\ msgs \in Nat
    /\ receipts \subseteq [msg : Nat, user : Users]
    /\ lists \subseteq Users
    /\ knows \subseteq Users
    /\ torn \subseteq Users
    /\ ops \in Nat
    /\ Targets

(***************************************************************************)
(* "Key recovery: any member may request their own stored wrapped key"     *)
(* (GroupKeyExchangeHandler.cpp:44): a member has a key row, unless a      *)
(* handler is about to write it or to remove the member, CREATE_GROUP came *)
(* without it, or a fault came between two statements.  This rests on      *)
(* addMember coming before saveKey and on removeMember deleting the key    *)
(* before the member: overlapping handlers never part the two rows.        *)
(***************************************************************************)
MemberHasKey ==
    \A m \in Members :
        \/ m \in keys
        \/ \E u \in Users : who[u] = m /\ pc[u] \in {"key", "rmmember"}
        \/ m \in torn

(***************************************************************************)
(* Deleting the group leaves no row of it, although handlers that started  *)
(* before go on (DeleteGroupHandler.cpp:53-56; 006_groups.sql:14-35).      *)
(***************************************************************************)
NoOrphans ==
    group = "deleted" => Members = {} /\ keys = {} /\ receipts = {} /\ msgs = 0

(***************************************************************************)
(* "creator cannot leave or be kicked" (GroupLeaveHandler.cpp:32): the     *)
(* role is read two statements before the row is deleted, and still no     *)
(* step but the deletion of the group takes the creator's row.             *)
(***************************************************************************)
CreatorNotRemoved ==
    [][\A m \in Users : role[m] = "creator" /\ role'[m] = "none" => group' = "deleted"]_vars

(***************************************************************************)
(* "The creator can neither leave nor be kicked" (GroupLeaveHandler.h:13): *)
(* the user who created the group is in it as long as it exists.           *)
(***************************************************************************)
OwnerStays == Live => role[owner] # "none"

(***************************************************************************)
(* "only the creator can kick an admin" (GroupLeaveHandler.cpp:37).        *)
(***************************************************************************)
OnlyCreatorKicksAdmin ==
    [][\A u, m \in Users :
         /\ role[m] = "admin" /\ role'[m] = "none"
         /\ pc[u] = "rmmember" /\ pc'[u] = "rmreceipts" /\ u # m
         => mine[u] = "creator"]_vars

(***************************************************************************)
(* "re-adding must never demote an existing admin/creator"                 *)
(* (GroupKeyExchangeHandler.cpp:84).                                       *)
(***************************************************************************)
AddNeverDemotes ==
    [][\A u \in Users :
         pc[u] = "add" /\ pc'[u] = "key" => role[who[u]] \in {"none", "member"}]_vars

(***************************************************************************)
(* "Drop the leaver's receipt rows so old messages can still reach         *)
(* seen-by-all" (GroupLeaveHandler.cpp:45): when no handler runs, only     *)
(* members have receipt rows.                                              *)
(***************************************************************************)
ReceiptsOfMembers ==
    (\A u \in Users : pc[u] = "idle") => \A r \in receipts : r.user \in Members

(***************************************************************************)
(* "Collect all members before deleting so we can notify them"             *)
(* (DeleteGroupHandler.cpp:29): when the group is gone and no handler      *)
(* runs, no client lists it.                                               *)
(***************************************************************************)
DeletedNotListed ==
    group = "deleted" /\ (\A u \in Users : pc[u] = "idle") => lists = {}
=============================================================================
