------------------------------ MODULE Receipts ------------------------------
(***************************************************************************)
(* Delivered and seen receipts of group messages: GroupMessageHandler      *)
(* (receipt rows, fan-out, the ACK with the recipient snapshot),           *)
(* AckHandler and ReadReceiptHandler (mark the row, forward or queue), the *)
(* flush of offline_read_receipts in LoginHandler, and on the author's     *)
(* side the dispatch of ACKs, the rows of group_message_recipients and the *)
(* aggregate that becomes the status of the message.                       *)
(*                                                                         *)
(* One author writes to one group; the other users are its members, each   *)
(* with one device.  A read receipt also goes to the other members; their  *)
(* stores have no row for it, so only the author's copy is followed.       *)
(* Statements are autocommitted: handlers of the author and of each member *)
(* interleave between them.  Members leave and do not come back.           *)
(***************************************************************************)
EXTENDS Naturals, Sequences, FiniteSets

CONSTANTS
    Members,   \* the members at the start, without the author
    Author,
    Group,     \* the numeric id of the group, as text
    MaxMsgs,   \* bound: messages the author writes
    Budgets    \* bound: how often each kind of fault happens; a behaviour has one

\* QString(): a field that is not set.
Empty == ""

\* A socket dies; the server crashes; a statement of the server throws
\* DbException; a member's key is not the one of a message (it was rotated
\* after a kick); a member's app restarts; a member leaves.
FaultKinds == {"socket", "crash", "db", "key", "restart", "leave"}

ASSUME ReceiptConstants ==
    /\ Author \notin Members
    /\ Empty \notin Members                  \* no user without a name
    /\ Group \notin {Empty, "delivered"}       \* a number
    /\ IsFiniteSet(Members)
    /\ MaxMsgs \in Nat
    /\ Budgets \subseteq [FaultKinds -> Nat]

VARIABLES
    apc,       \* the author's server thread
    aup,       \* the author's client end of its socket is open
    areg,      \* Server::_clients has the author's session
    inbox,     \* packets on their way to the author
    outbox,    \* the author's messages on their way to the server
    cur,       \* the message GroupMessageHandler works on
    snap,      \* its recipients, as read by getMembers
    pend,      \* positions in queue that the login still has to flush
    mpc,       \* the server thread of each member
    mup,       \* the member's client end is open
    minbox,    \* messages on their way to a member
    moutbox,   \* requests on their way from a member
    mcur,      \* the receipt a member's thread handles
    members,   \* table group_members, without the author
    saved,     \* table group_messages
    rows,      \* table group_message_receipts, as levels
    queue,     \* table offline_read_receipts, the author's rows
    got,       \* per member: messages in its local store
    unread,    \* per member: _unreadTimestamps of the group
    local,     \* the author's group_message_recipients, as levels
    status,    \* the author's group_messages.status; 0: not written yet
    opened,    \* history: messages a member has opened
    told,      \* history: highest receipt a member's client has written
    budget,    \* the faults that may still happen
    lost       \* history: receipts that will not arrive, with the cause

author == <<apc, aup, areg, inbox, outbox, cur, snap, pend>>
member == <<mpc, mup, minbox, moutbox, mcur, got, unread, opened, told>>
tables == <<members, saved, rows, queue>>
store  == <<local, status>>
vars   == <<author, member, tables, store, budget, lost>>

Msgs == 1..MaxMsgs

\* Levels of a receipt row: no row, neither column set, delivered, seen.
NoRow == 0
Sent == 1
Delivered == 2
Seen == 3
Levels == {NoRow, Sent, Delivered, Seen}
Kinds == {Delivered, Seen}

\* Mutant of Raise: the columns are overwritten by the last event.
RaiseOverwrites(level, k) == IF level = NoRow THEN level ELSE k

\* An UPDATE with COALESCE: no effect without a row, and never backwards.
Raise(level, k) == IF level = NoRow \/ level > k THEN level ELSE k

-----------------------------------------------------------------------------
(***************************************************************************)
(* Packets to the author, with the fields the dispatch looks at; Empty and *)
(* 0 are empty.                                                            *)
(***************************************************************************)
Packet(type, from, to, body, ts, err, key) ==
    [type |-> type, from |-> from, to |-> to, body |-> body, ts |-> ts,
     err |-> err, key |-> key]
LoginAck           == Packet("ACK", Empty, Author, 1, 0, Empty, {})
SendAck(m, S)      == Packet("ACK", Empty, Author, 0, m, Group, S)
DeliveredAck(u, m) == Packet("ACK", u, Group, m, 0, "delivered", {})
ReadReceipt(u, m)  == Packet("READ_RECEIPT", u, Group, m, 0, Empty, {})
GroupInfo(S)       == Packet("GROUP_INFO", Empty, Author, 0, 0, Empty, S)
Receipt(u, m, k)   == IF k = Seen THEN ReadReceipt(u, m) ELSE DeliveredAck(u, m)

(***************************************************************************)
(* NetworkManager::onTextMessageReceived: what a packet is taken for.  An  *)
(* ACK has no subtype; which of its fields are empty decides.              *)
(***************************************************************************)
Dispatch(p) ==
    IF p.type # "ACK" THEN p.type
    ELSE IF p.err = "delivered" THEN "group delivered"
    ELSE IF p.err # Empty /\ p.ts # 0 THEN "group send ack"
    ELSE IF p.body # 0 THEN "login ack"
    ELSE IF p.ts # 0 THEN "message delivered"
    ELSE IF p.to = Author THEN "sync complete" ELSE "ignored"

\* The rows of a SELECT with ORDER BY: the one sequence that lists S upwards.
Ascending(S) ==
    {s \in [1..Cardinality(S) -> S] : \A i, j \in DOMAIN s : i < j => s[i] < s[j]}

\* One fault of a kind happens.
Spend(kind) ==
    /\ budget[kind] > 0
    /\ budget' = [budget EXCEPT ![kind] = @ - 1]

Goto(l)     == apc' = l
MGoto(u, l) == mpc' = [mpc EXCEPT ![u] = l]

NoReceipt == [msg |-> 0, kind |-> NoRow]

\* The receipts among the packets of a queue.
InboxReceipts ==
    {<<inbox[i].from, inbox[i].body,
       IF inbox[i].type = "ACK" THEN Delivered ELSE Seen>> :
        i \in {j \in DOMAIN inbox : inbox[j].from # Empty}}
OutboxReceipts(u) ==
    {<<u, moutbox[u][i].msg, moutbox[u][i].kind>> :
        i \in {j \in DOMAIN moutbox[u] : moutbox[u][j].req = "receipt"}}

Because(S, why) == {<<r[1], r[2], r[3], why>> : r \in S}

-----------------------------------------------------------------------------
Init ==
    /\ apc = "idle" /\ aup = TRUE /\ areg = TRUE
    /\ inbox = <<>> /\ outbox = <<>> /\ pend = <<>>
    /\ cur = 0 /\ snap = {}
    /\ mpc = [u \in Members |-> "idle"]
    /\ mup = [u \in Members |-> TRUE]
    /\ minbox = [u \in Members |-> <<>>]
    /\ moutbox = [u \in Members |-> <<>>]
    /\ mcur = [u \in Members |-> NoReceipt]
    /\ members = Members
    /\ saved = {}
    /\ rows = [m \in Msgs |-> [u \in Members |-> NoRow]]
    /\ queue = <<>>
    /\ got = [u \in Members |-> {}]
    /\ unread = [u \in Members |-> <<>>]
    /\ local = [m \in Msgs |-> [u \in Members |-> NoRow]]
    /\ status = [m \in Msgs |-> NoRow]
    /\ opened = [u \in Members |-> {}]
    /\ told = [u \in Members |-> [m \in Msgs |-> NoRow]]
    /\ budget \in Budgets
    /\ lost = {}

-----------------------------------------------------------------------------
(***************************************************************************)
(* The author sends.                                                       *)
(***************************************************************************)
\* NetworkManager::sendGroupMessage with the key at hand.
SendGroupMessage(m) ==
    /\ aup
    /\ status[m] = NoRow
    /\ \A n \in Msgs : n < m => status[n] # NoRow
    /\ outbox' = Append(outbox, m)
    /\ status' = [status EXCEPT ![m] = Sent]
    /\ UNCHANGED <<apc, budget, aup, areg, inbox, cur, snap, pend, member, tables, local,
                   lost>>

\* GroupMessageHandler: the author is a member; the INSERT of the message.
SaveMessage ==
    /\ apc = "idle"
    /\ outbox # <<>>
    /\ cur' = Head(outbox)
    /\ saved' = saved \cup {Head(outbox)}
    /\ outbox' = Tail(outbox)
    /\ Goto("list")
    /\ UNCHANGED <<aup, budget, areg, inbox, snap, pend, member, members, rows, queue,
                   store, lost>>

\* getMembers: "members-at-send minus sender".
ListRecipients ==
    /\ apc = "list"
    /\ snap' = members
    /\ Goto("insert")
    /\ UNCHANGED <<aup, budget, areg, inbox, outbox, cur, pend, member, tables, store, lost>>

\* insertReceiptRows; nothing reads them while the loop runs but UPDATEs of
\* one row each, so the loop is one step.
InsertReceiptRows ==
    /\ apc = "insert"
    /\ rows' = [rows EXCEPT ![cur] =
                  [u \in Members |-> IF u \in snap /\ @[u] = NoRow THEN Sent ELSE @[u]]]
    /\ Goto("fanout")
    /\ UNCHANGED <<aup, budget, areg, inbox, outbox, cur, snap, pend, member, members, saved,
                   queue, store, lost>>

\* The loop of sends.  Each goes to another socket and none waits.
FanOut ==
    /\ apc = "fanout"
    /\ minbox' = [u \in Members |->
                    IF u \in snap /\ mpc[u] # "off" /\ mup[u]
                    THEN Append(minbox[u], cur) ELSE minbox[u]]
    /\ Goto("ack")
    /\ UNCHANGED <<aup, budget, areg, inbox, outbox, cur, snap, pend, mpc, mup, moutbox, mcur,
                   got, unread, opened, told, tables, store, lost>>

\* The ACK with the snapshot, after the fan-out.
AckSender ==
    /\ apc = "ack"
    /\ inbox' = IF aup THEN Append(inbox, SendAck(cur, snap)) ELSE inbox
    /\ cur' = 0 /\ snap' = {}
    /\ Goto("idle")
    /\ UNCHANGED <<aup, budget, areg, outbox, pend, member, tables, store, lost>>

\* A GROUP_INFO reaches the author: somebody's role changed, or the author
\* asked.  Bound: one at a time.
SendGroupInfo ==
    /\ areg /\ aup
    /\ \A i \in DOMAIN inbox : inbox[i].type # "GROUP_INFO"
    /\ \E m \in Msgs : \E u \in Members \ members : local[m][u] # NoRow
    /\ inbox' = Append(inbox, GroupInfo(members))
    /\ UNCHANGED <<apc, budget, aup, areg, outbox, cur, snap, pend, member, tables, store,
                   lost>>

-----------------------------------------------------------------------------
(***************************************************************************)
(* The author receives.                                                    *)
(***************************************************************************)
\* LocalStorage's questions about the rows r of one message.
recipients(r) == {u \in Members : r[u] # NoRow}
allRecipientsSeen(r) == recipients(r) # {} /\ \A u \in recipients(r) : r[u] = Seen
allRecipientsDelivered(r) ==
    recipients(r) # {} /\ \A u \in recipients(r) : r[u] >= Delivered

\* Mutant of Recompute: the first receipt wins, as in version 1.
RecomputeFirst(r, old) ==
    IF \E u \in recipients(r) : r[u] = Seen THEN Seen ELSE old

\* recomputeGroupAggregate
Recompute(r, old) ==
    IF recipients(r) = {} THEN old
    ELSE IF allRecipientsSeen(r) THEN Seen
    ELSE IF allRecipientsDelivered(r) THEN Delivered
    ELSE old

\* handleGroupDelivered and handleReadReceipt: one row, then the aggregate.
ApplyReceipt(u, m, k) ==
    /\ local' = [local EXCEPT ![m][u] = Raise(@, k)]
    /\ status' = [status EXCEPT ![m] = Recompute(local'[m], @)]
    /\ lost' = IF local[m][u] = NoRow
               THEN lost \cup {<<u, m, k, "no row">>} ELSE lost

\* handleGroupSendAck: saveRecipientSnapshot, INSERT OR IGNORE.
ApplySnapshot(m, S) ==
    /\ local' = [local EXCEPT ![m] =
                   [u \in Members |-> IF u \in S /\ @[u] = NoRow THEN Sent ELSE @[u]]]
    /\ UNCHANGED <<status, lost>>

\* handleGroupInfo: removeRecipientsNotIn, then the aggregates it touched.
ApplyInfo(S) ==
    LET touched(m) == /\ \E u \in Members \ S : local[m][u] # NoRow
                      /\ \E u \in S : local[m][u] # NoRow
    IN  /\ local' = [m \in Msgs |-> [u \in Members |->
                        IF u \in S THEN local[m][u] ELSE NoRow]]
        /\ status' = [m \in Msgs |-> IF touched(m) THEN Recompute(local'[m], status[m])
                                     ELSE status[m]]
        /\ UNCHANGED lost

AuthorReceive ==
    /\ aup
    /\ inbox # <<>>
    /\ LET p == Head(inbox)
           what == Dispatch(p)
       IN  \/ what = "group delivered" /\ ApplyReceipt(p.from, p.body, Delivered)
           \/ what = "READ_RECEIPT" /\ ApplyReceipt(p.from, p.body, Seen)
           \/ what = "group send ack" /\ ApplySnapshot(p.ts, p.key)
           \/ what = "GROUP_INFO" /\ ApplyInfo(p.key)
           \/ what = "login ack" /\ UNCHANGED <<store, lost>>
    /\ inbox' = Tail(inbox)
    /\ UNCHANGED <<apc, budget, aup, areg, outbox, cur, snap, pend, member, tables>>

-----------------------------------------------------------------------------
(***************************************************************************)
(* The author's connection: drop, cleanup, login and flush.                *)
(***************************************************************************)
\* The socket dies with what is on it.
AuthorDrop ==
    /\ Spend("socket")
    /\ aup
    /\ aup' = FALSE
    /\ inbox' = <<>>
    /\ outbox' = <<>>
    /\ lost' = lost \cup Because(InboxReceipts, "in flight")
    /\ UNCHANGED <<apc, areg, cur, snap, pend, member, tables, store>>

\* handleRequest's cleanup.
AuthorLeaves ==
    /\ apc = "idle"
    /\ ~aup
    /\ areg' = FALSE
    /\ Goto("off")
    /\ UNCHANGED <<aup, budget, inbox, outbox, cur, snap, pend, member, tables, store, lost>>

AuthorLogin ==
    /\ apc = "off"
    /\ aup' = TRUE
    /\ inbox' = <<LoginAck>>
    /\ Goto("read")
    /\ UNCHANGED <<areg, budget, outbox, cur, snap, pend, member, tables, store, lost>>

Undelivered == {i \in DOMAIN queue : ~queue[i].delivered}

\* flushOfflineReadReceipts: the SELECT, ORDER BY queued_at.
ReadQueue ==
    /\ apc = "read"
    /\ pend' \in Ascending(Undelivered)
    /\ Goto("send")
    /\ UNCHANGED <<aup, budget, areg, inbox, outbox, cur, snap, member, tables, store, lost>>

\* session.send of one receipt; a dead socket throws out of the handler.
SendQueued ==
    /\ apc = "send"
    /\ pend # <<>>
    /\ LET q == queue[Head(pend)] IN
       \/ /\ aup
          /\ inbox' = Append(inbox, Receipt(q.from, q.msg, q.kind))
          /\ Goto("mark")
          /\ UNCHANGED <<pend, lost>>
       \/ /\ ~aup
          /\ Goto("mark")
          /\ lost' = lost \cup {<<q.from, q.msg, q.kind, "in flight">>}
          /\ UNCHANGED <<inbox, pend>>
       \/ /\ ~aup
          /\ pend' = <<>>
          /\ Goto("idle")
          /\ UNCHANGED <<inbox, lost>>
    /\ UNCHANGED <<aup, budget, areg, outbox, cur, snap, member, tables, store>>

\* Mutant of MarkQueued: the UPDATE names the user, not the row.
MarkQueuedAll ==
    /\ apc = "mark"
    /\ queue' = [i \in DOMAIN queue |-> [queue[i] EXCEPT !.delivered = TRUE]]
    /\ pend' = Tail(pend)
    /\ Goto("send")
    /\ UNCHANGED <<aup, budget, areg, inbox, outbox, cur, snap, member, members, saved,
                   rows, store, lost>>

\* UPDATE ... SET delivered = TRUE.  The row stays.
MarkQueued ==
    /\ apc = "mark"
    /\ queue' = [queue EXCEPT ![Head(pend)].delivered = TRUE]
    /\ pend' = Tail(pend)
    /\ Goto("send")
    /\ UNCHANGED <<aup, budget, areg, inbox, outbox, cur, snap, member, members, saved, rows,
                   store, lost>>

\* The handler returns and handleRequest registers the session; after a
\* flush that threw, it does so when a later request has been handled.
AuthorJoins ==
    /\ \/ apc = "send" /\ pend = <<>>
       \/ apc = "idle" /\ aup /\ ~areg
    /\ areg' = TRUE
    /\ Goto("idle")
    /\ UNCHANGED <<aup, budget, inbox, outbox, cur, snap, pend, member, tables, store, lost>>

-----------------------------------------------------------------------------
(***************************************************************************)
(* A member's client.                                                      *)
(***************************************************************************)
\* handleGroupMessage: the ACK goes out before the duplicate check and before
\* the message is decrypted, which throws when the key is not its own.
MemberReceive(u) ==
    /\ mup[u]
    /\ minbox[u] # <<>>
    /\ LET m == Head(minbox[u]) IN
       /\ moutbox' = [moutbox EXCEPT ![u] = Append(@, [req |-> "receipt", kind |-> Delivered, msg |-> m])]
       /\ told' = [told EXCEPT ![u][m] = IF @ < Delivered THEN Delivered ELSE @]
       /\ \/ /\ m \notin got[u]
             /\ got' = [got EXCEPT ![u] = @ \cup {m}]
             /\ unread' = [unread EXCEPT ![u] = Append(@, m)]
             /\ UNCHANGED budget
          \/ /\ m \in got[u]
             /\ UNCHANGED <<budget, got, unread>>
          \/ /\ m \notin got[u]
             /\ Spend("key")
             /\ UNCHANGED <<got, unread>>
    /\ minbox' = [minbox EXCEPT ![u] = Tail(@)]
    /\ UNCHANGED <<author, mpc, mup, mcur, opened, tables, store, lost>>

\* The user opens the group: markConversationRead takes the whole list.
OpenGroup(u) ==
    /\ mup[u]
    /\ unread[u] # <<>>
    /\ LET s == unread[u] IN
       /\ moutbox' = [moutbox EXCEPT ![u] =
                        @ \o [i \in DOMAIN s |->
                               [req |-> "receipt", kind |-> Seen, msg |-> s[i]]]]
       /\ opened' = [opened EXCEPT ![u] = @ \cup {s[i] : i \in DOMAIN s}]
       /\ told' = [told EXCEPT ![u] = [m \in Msgs |->
                     IF m \in {s[i] : i \in DOMAIN s} THEN Seen ELSE @[m]]]
    /\ unread' = [unread EXCEPT ![u] = <<>>]
    /\ UNCHANGED <<author, budget, mpc, mup, minbox, mcur, got, tables, store, lost>>

\* The user leaves the group.
AskLeave(u) ==
    /\ Spend("leave")
    /\ mup[u]
    /\ \A i \in DOMAIN moutbox[u] : moutbox[u][i].req # "leave"
    /\ u \in members /\ mpc[u] = "idle"
    /\ moutbox' = [moutbox EXCEPT ![u] = Append(@, [req |-> "leave", kind |-> NoRow, msg |-> 0])]
    /\ UNCHANGED <<author, mpc, mup, minbox, mcur, got, unread, opened, told, tables, store,
                   lost>>

\* The socket dies with what is on it.
MemberDrop(u) ==
    /\ Spend("socket")
    /\ mup[u]
    /\ mup' = [mup EXCEPT ![u] = FALSE]
    /\ minbox' = [minbox EXCEPT ![u] = <<>>]
    /\ moutbox' = [moutbox EXCEPT ![u] = <<>>]
    /\ lost' = lost \cup Because(OutboxReceipts(u), "in flight")
    /\ UNCHANGED <<author, mpc, mcur, got, unread, opened, told, tables, store>>

\* The app restarts: _unreadTimestamps is only in memory.
MemberRestart(u) ==
    /\ Spend("restart")
    /\ ~mup[u]
    /\ unread[u] # <<>>
    /\ unread' = [unread EXCEPT ![u] = <<>>]
    /\ UNCHANGED <<author, mpc, mup, minbox, moutbox, mcur, got, opened, told, tables, store,
                   lost>>

Newest(S) == CHOOSE n \in S \cup {0} : \A k \in S : k <= n

\* Login, registration and the client's SYNC_HISTORY with its cursor.
MemberLogin(u) ==
    /\ mpc[u] = "off"
    /\ mup' = [mup EXCEPT ![u] = TRUE]
    /\ moutbox' = [moutbox EXCEPT ![u] = 
                    <<[req |-> "sync", kind |-> NoRow, msg |-> Newest(got[u])]>>]
    /\ MGoto(u, "idle")
    /\ UNCHANGED <<author, budget, minbox, mcur, got, unread, opened, told, tables, store, lost>>

-----------------------------------------------------------------------------
(***************************************************************************)
(* A member's server thread.                                               *)
(***************************************************************************)
Request(u, what) ==
    /\ mpc[u] = "idle"
    /\ moutbox[u] # <<>>
    /\ Head(moutbox[u]).req = what
    /\ moutbox' = [moutbox EXCEPT ![u] = Tail(@)]

\* AckHandler and ReadReceiptHandler up to the membership check.
TakeReceipt(u) ==
    /\ Request(u, "receipt")
    /\ LET p == Head(moutbox[u]) IN
       IF u \in members
       THEN /\ mcur' = [mcur EXCEPT ![u] = [msg |-> p.msg, kind |-> p.kind]]
            /\ MGoto(u, "update")
            /\ UNCHANGED lost
       ELSE /\ lost' = lost \cup {<<u, p.msg, p.kind, "not a member">>}
            /\ UNCHANGED <<mcur, mpc>>
    /\ UNCHANGED <<author, budget, mup, minbox, got, unread, opened, told, tables, store>>

\* markReceiptDelivered, markReceiptSeen.  The author is among the senders
\* and the members they return.
MarkReceipt(u) ==
    /\ mpc[u] = "update"
    /\ rows' = [rows EXCEPT ![mcur[u].msg][u] = Raise(@, mcur[u].kind)]
    /\ MGoto(u, "forward")
    /\ UNCHANGED <<author, budget, mup, minbox, moutbox, mcur, got, unread, opened, told,
                   members, saved, queue, store, lost>>

\* findClient(author) and the send, whose failure is swallowed.
Forward(u) ==
    /\ mpc[u] = "forward"
    /\ areg
    /\ LET r == mcur[u] IN
       IF aup THEN inbox' = Append(inbox, Receipt(u, r.msg, r.kind)) /\ UNCHANGED lost
       ELSE lost' = lost \cup {<<u, r.msg, r.kind, "in flight">>} /\ UNCHANGED inbox
    /\ mcur' = [mcur EXCEPT ![u] = NoReceipt]
    /\ MGoto(u, "idle")
    /\ UNCHANGED <<apc, budget, aup, areg, outbox, cur, snap, pend, mup, minbox, moutbox, got,
                   unread, opened, told, tables, store>>

ForwardOffline(u) ==
    /\ mpc[u] = "forward"
    /\ ~areg
    /\ MGoto(u, "queue")
    /\ UNCHANGED <<author, budget, mup, minbox, moutbox, mcur, got, unread, opened, told,
                   tables, store, lost>>

\* Mutant of QueueReceipt: a row for every receipt.
QueueReceiptAlways(u) ==
    /\ mpc[u] = "queue"
    /\ queue' = Append(queue, [from |-> u, msg |-> mcur[u].msg, kind |-> mcur[u].kind,
                               delivered |-> FALSE])
    /\ mcur' = [mcur EXCEPT ![u] = NoReceipt]
    /\ MGoto(u, "idle")
    /\ UNCHANGED <<author, budget, mup, minbox, moutbox, got, unread, opened, told,
                   members, saved, rows, store, lost>>

(***************************************************************************)
(* INSERT ... ON CONFLICT DO NOTHING.  The unique index is on the reader,  *)
(* the author and the timestamp: neither the kind nor the delivered flag   *)
(* of the row that is already there is looked at.                          *)
(***************************************************************************)
QueueReceipt(u) ==
    /\ mpc[u] = "queue"
    /\ LET r == mcur[u]
           same == {i \in DOMAIN queue : queue[i].from = u /\ queue[i].msg = r.msg}
       IN  IF same = {}
           THEN /\ queue' = Append(queue, [from |-> u, msg |-> r.msg, kind |-> r.kind,
                                           delivered |-> FALSE])
                /\ UNCHANGED lost
           ELSE /\ lost' = IF \E i \in same : ~queue[i].delivered /\ queue[i].kind >= r.kind
                           THEN lost
                           ELSE lost \cup {<<u, r.msg, r.kind, "conflict">>}
                /\ UNCHANGED queue
    /\ mcur' = [mcur EXCEPT ![u] = NoReceipt]
    /\ MGoto(u, "idle")
    /\ UNCHANGED <<author, budget, mup, minbox, moutbox, got, unread, opened, told, members,
                   saved, rows, store>>

\* SyncHistoryHandler: the messages after the cursor, to a member.
SyncGroup(u) ==
    /\ Request(u, "sync")
    /\ \E s \in Ascending({m \in saved : m > Head(moutbox[u]).msg}) :
         minbox' = IF u \in members THEN [minbox EXCEPT ![u] = @ \o s] ELSE minbox
    /\ UNCHANGED <<author, budget, mpc, mup, mcur, got, unread, opened, told, tables, store,
                   lost>>

\* GroupLeaveHandler: removeMember, then deleteReceiptsForMember.
RemoveMember(u) ==
    /\ Request(u, "leave")
    /\ members' = members \ {u}
    /\ MGoto(u, "rmreceipts")
    /\ UNCHANGED <<author, budget, mup, minbox, mcur, got, unread, opened, told, saved, rows,
                   queue, store, lost>>

DeleteReceipts(u) ==
    /\ mpc[u] = "rmreceipts"
    /\ rows' = [m \in Msgs |-> [rows[m] EXCEPT ![u] = NoRow]]
    /\ MGoto(u, "idle")
    /\ UNCHANGED <<author, budget, mup, minbox, moutbox, mcur, got, unread, opened, told,
                   members, saved, queue, store, lost>>

MemberLeaves(u) ==
    /\ mpc[u] = "idle"
    /\ ~mup[u]
    /\ MGoto(u, "off")
    /\ UNCHANGED <<author, budget, mup, minbox, moutbox, mcur, got, unread, opened, told,
                   tables, store, lost>>

-----------------------------------------------------------------------------
(***************************************************************************)
(* Statements that throw DbException, and a crash of the server.           *)
(***************************************************************************)
\* GroupMessageHandler: the checks or the INSERT of the message, getMembers,
\* or insertReceiptRows after some of the rows.  The author gets no ACK.
MessageFails ==
    /\ Spend("db")
    /\ \/ apc = "idle" /\ outbox # <<>> /\ outbox' = Tail(outbox) /\ UNCHANGED rows
       \/ apc = "list" /\ UNCHANGED <<outbox, rows>>
       \/ /\ apc = "insert"
          /\ \E S \in SUBSET snap :
               rows' = [rows EXCEPT ![cur] =
                          [u \in Members |-> IF u \in S /\ @[u] = NoRow THEN Sent ELSE @[u]]]
          /\ UNCHANGED outbox
    /\ cur' = 0 /\ snap' = {}
    /\ Goto("idle")
    /\ UNCHANGED <<aup, areg, inbox, pend, member, members, saved, queue, store, lost>>

\* flushOfflineReadReceipts: the SELECT, or an UPDATE after its send.  The
\* DbException ends the handler, and with it the registration.
FlushFails ==
    /\ Spend("db")
    /\ apc \in {"read", "mark"}
    /\ pend' = <<>>
    /\ Goto("idle")
    /\ UNCHANGED <<aup, areg, inbox, outbox, cur, snap, member, tables, store, lost>>

\* A statement of the handler of u's request: the first one, with the
\* request in hand, or a later one.  A READ_RECEIPT is forwarded after
\* getMembers, an ACK with nothing left to read.
RequestFails(u) ==
    /\ Spend("db")
    /\ \E what \in {"receipt", "sync", "leave"} :
        /\ Request(u, what)
        /\ LET p == Head(moutbox[u]) IN
           lost' = IF what = "receipt" THEN lost \cup {<<u, p.msg, p.kind, "database">>}
                   ELSE lost
    /\ UNCHANGED <<author, mpc, mup, minbox, mcur, got, unread, opened, told, tables, store>>

HandlerFails(u) ==
    /\ Spend("db")
    /\ \/ mpc[u] \in {"update", "queue", "rmreceipts"}
       \/ mpc[u] = "forward" /\ mcur[u].kind = Seen
    /\ lost' = IF mpc[u] = "rmreceipts" THEN lost
               ELSE lost \cup {<<u, mcur[u].msg, mcur[u].kind, "database">>}
    /\ mcur' = [mcur EXCEPT ![u] = NoReceipt]
    /\ MGoto(u, "idle")
    /\ UNCHANGED <<author, mup, minbox, moutbox, got, unread, opened, told, tables, store>>

\* The receipts in the hands of the members' threads.
ThreadReceipts ==
    {<<u, mcur[u].msg, mcur[u].kind>> : u \in {v \in Members : mcur[v] # NoReceipt}}

\* The process ends: threads, sessions and sockets are gone, with what they
\* carried; the tables stay.
Crash ==
    /\ Spend("crash")
    /\ apc' = "off" /\ aup' = FALSE /\ areg' = FALSE
    /\ inbox' = <<>> /\ outbox' = <<>> /\ pend' = <<>>
    /\ cur' = 0 /\ snap' = {}
    /\ mpc' = [u \in Members |-> "off"]
    /\ mup' = [u \in Members |-> FALSE]
    /\ minbox' = [u \in Members |-> <<>>]
    /\ moutbox' = [u \in Members |-> <<>>]
    /\ mcur' = [u \in Members |-> NoReceipt]
    /\ lost' = lost \cup Because(InboxReceipts, "in flight")
                     \cup Because(ThreadReceipts, "crash")
                     \cup Because(UNION {OutboxReceipts(u) : u \in Members}, "in flight")
    /\ UNCHANGED <<got, unread, opened, told, tables, store>>

-----------------------------------------------------------------------------
AuthorStep ==
    \/ SaveMessage \/ ListRecipients \/ InsertReceiptRows \/ FanOut \/ AckSender
    \/ AuthorLeaves \/ ReadQueue \/ SendQueued \/ MarkQueued \/ AuthorJoins

MemberStep(u) ==
    \/ TakeReceipt(u) \/ MarkReceipt(u) \/ Forward(u) \/ ForwardOffline(u)
    \/ QueueReceipt(u) \/ SyncGroup(u) \/ RemoveMember(u) \/ DeleteReceipts(u)
    \/ MemberLeaves(u)

Next ==
    \/ \E m \in Msgs : SendGroupMessage(m)
    \/ AuthorStep \/ AuthorReceive \/ AuthorDrop \/ AuthorLogin \/ SendGroupInfo
    \/ MessageFails \/ FlushFails \/ Crash
    \/ \E u \in Members :
        \/ RequestFails(u) \/ HandlerFails(u)
        \/ MemberStep(u) \/ MemberReceive(u) \/ OpenGroup(u) \/ AskLeave(u)
        \/ MemberDrop(u) \/ MemberRestart(u) \/ MemberLogin(u)

Spec == Init /\ [][Next]_vars

-----------------------------------------------------------------------------
(***************************************************************************)
(* The variables keep the types of their C++ and SQL counterparts, and a   *)
(* thread's position says which of its locals are set.                     *)
(***************************************************************************)
TypeOK ==
    /\ apc \in {"off", "read", "send", "mark", "idle", "list", "insert", "fanout", "ack"}
    /\ aup \in BOOLEAN /\ areg \in BOOLEAN
    /\ cur \in Msgs \cup {0}
    /\ (cur # 0) <=> (apc \in {"list", "insert", "fanout", "ack"})
    /\ snap \subseteq Members
    /\ \A i \in DOMAIN pend : pend[i] \in DOMAIN queue
    /\ mpc \in [Members -> {"off", "idle", "update", "forward", "queue", "rmreceipts"}]
    /\ mup \in [Members -> BOOLEAN]
    /\ \A u \in Members : (mcur[u].msg # 0) <=> (mpc[u] \in {"update", "forward", "queue"})
    /\ members \subseteq Members
    /\ saved \subseteq Msgs
    /\ rows \in [Msgs -> [Members -> Levels]]
    /\ local \in [Msgs -> [Members -> Levels]]
    /\ status \in [Msgs -> Levels]
    /\ \A i, j \in DOMAIN queue :
         queue[i].from = queue[j].from /\ queue[i].msg = queue[j].msg => i = j

(***************************************************************************)
(* The author's store never claims more than happened.  A row says seen    *)
(* only if that member opened the message on its device, and delivered     *)
(* only if the device has received it and said so, which it does before it *)
(* has decrypted the message: delivered does not mean stored.  The bubble  *)
(* shows seen, or delivered, only when every recipient of the snapshot who *)
(* is still in the group has opened it, or reported it ("seen by all" and  *)
(* "delivered to all", NetworkManager::recomputeGroupAggregate).           *)
(***************************************************************************)
StatusHonest ==
    \A m \in Msgs :
        /\ \A u \in Members :
            /\ local[m][u] = Seen => m \in opened[u]
            /\ local[m][u] >= Delivered => told[u][m] >= Delivered
        /\ \A u \in members : rows[m][u] # NoRow =>
            /\ status[m] = Seen => m \in opened[u]
            /\ status[m] >= Delivered => told[u][m] >= Delivered

\* A receipt of level k, or a higher one, of u for m is under way.
UnderWay(u, m, k) ==
    \/ \E r \in InboxReceipts : r[1] = u /\ r[2] = m /\ r[3] >= k
    \/ \E r \in OutboxReceipts(u) : r[2] = m /\ r[3] >= k
    \/ mcur[u].msg = m /\ mcur[u].kind >= k
    \/ \E i \in Undelivered :
        queue[i].from = u /\ queue[i].msg = m /\ queue[i].kind >= k

(***************************************************************************)
(* A receipt that a member's client has sent has been applied to the       *)
(* author's row, is under way, or was lost in one of these ways: with a    *)
(* socket, for want of the row (it overtook the snapshot ACK, which a      *)
(* statement that throws withholds for good, or the author has dropped the *)
(* member's rows), to the unique index of the queue, to a statement of its *)
(* handler that threw, in the hands of a server that crashed, or because   *)
(* the member had left.                                                    *)
(***************************************************************************)
ReceiptsAccounted ==
    \A u \in Members, m \in Msgs :
        LET k == told[u][m] IN
        k \in Kinds => \/ local[m][u] >= k
                       \/ UnderWay(u, m, k)
                       \/ \E r \in lost : r[1] = u /\ r[2] = m /\ r[3] = k
                       \/ u \notin members

(***************************************************************************)
(* The status of a message never goes back, whatever order receipts,       *)
(* snapshots and departures arrive in.                                     *)
(***************************************************************************)
StatusForward == [][\A m \in Msgs : status'[m] >= status[m]]_status

(***************************************************************************)
(* "offline receipt queue now carries both event kinds"                    *)
(* (010_group_message_receipts.sql:10): no receipt is dropped because a    *)
(* receipt of the other kind was queued before.                            *)
(***************************************************************************)
BothKindsQueued == \A r \in lost : r[4] # "conflict"
=============================================================================
