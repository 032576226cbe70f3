--------------------------- MODULE ReceiptsProofs ---------------------------
(***************************************************************************)
(* Safety of Receipts for any number of members, messages and faults: dead *)
(* sockets, crashes, statements that throw, rotated keys, restarts.        *)
(***************************************************************************)
EXTENDS Receipts, FiniteSetTheorems, SequenceTheorems, WellFoundedInduction, TLAPS

-----------------------------------------------------------------------------
(***************************************************************************)
(* Types: what may be on each wire, and what a dead socket leaves.         *)
(***************************************************************************)
InPackets ==
    {LoginAck} \cup {SendAck(m, S) : m \in Msgs, S \in SUBSET Members}
      \cup {Receipt(u, m, k) : u \in Members, m \in Msgs, k \in Kinds}
      \cup {GroupInfo(S) : S \in SUBSET Members}

Requests ==
    [req : {"receipt"}, kind : Kinds, msg : Msgs]
      \cup [req : {"sync", "leave"}, kind : {NoRow}, msg : Msgs \cup {0}]

Shapes ==
    /\ inbox \in Seq(InPackets) /\ outbox \in Seq(Msgs) /\ pend \in Seq(Nat)
    /\ apc = "mark" => pend # <<>>
    /\ minbox \in [Members -> Seq(Msgs)] /\ moutbox \in [Members -> Seq(Requests)]
    /\ mcur \in [Members -> [msg : Msgs, kind : Kinds] \cup {NoReceipt}]
    /\ queue \in Seq([from : Members, msg : Msgs, kind : Kinds, delivered : BOOLEAN])
    /\ got \in [Members -> SUBSET Msgs] /\ opened \in [Members -> SUBSET Msgs]
    /\ unread \in [Members -> Seq(Msgs)]
    /\ told \in [Members -> [Msgs -> Levels]]

DeadEnds ==
    /\ apc = "off" => ~aup
    /\ ~aup => inbox = <<>> /\ outbox = <<>>
    /\ \A u \in Members : mpc[u] = "off" => ~mup[u]
    /\ \A u \in Members : ~mup[u] => moutbox[u] = <<>>

Typed == TypeOK /\ Shapes /\ DeadEnds

-----------------------------------------------------------------------------
(***************************************************************************)
(* A message is in one place on its way to the server and back: in the     *)
(* outbox, in the handler, or in the ACK with its snapshot (the packets    *)
(* with a timestamp).  Until the ACK is read the author has no row for it. *)
(***************************************************************************)
Blank(m) == status[m] = Sent /\ \A u \in Members : local[m][u] = NoRow

NoReceiptRows(m) == \A u \in Members : rows[m][u] = NoRow

OnePlace ==
    /\ \A i, j \in DOMAIN outbox : outbox[i] = outbox[j] => i = j
    /\ \A i \in DOMAIN outbox : outbox[i] # cur
    /\ \A i, j \in DOMAIN inbox : inbox[i].ts # 0 /\ inbox[i].ts = inbox[j].ts => i = j
    /\ \A i \in DOMAIN inbox : inbox[i].ts # 0 => inbox[i].ts # cur
    /\ \A i \in DOMAIN inbox : \A j \in DOMAIN outbox : inbox[i].ts # outbox[j]

NotAnswered ==
    /\ \A m \in Msgs : status[m] = NoRow =>
         NoReceiptRows(m) /\ \A u \in Members : local[m][u] = NoRow
    /\ \A i \in DOMAIN outbox : Blank(outbox[i]) /\ NoReceiptRows(outbox[i])
    /\ cur # 0 => Blank(cur)
    /\ apc \in {"list", "insert"} => NoReceiptRows(cur)
    /\ \A i \in DOMAIN inbox : inbox[i].ts # 0 => Blank(inbox[i].ts)

\* The bubble says seen, or delivered, only over rows that all say so.
SeenByAll ==
    \A m \in Msgs :
        /\ status[m] = Seen => \A u \in Members : local[m][u] \in {NoRow, Seen}
        /\ status[m] \in Kinds => \A u \in Members : local[m][u] # Sent

\* The snapshot on its way, and the rows made of it, name every member with
\* a row on the server who has not left; a GROUP_INFO names every member.
SnapshotComplete ==
    /\ apc \in {"fanout", "ack"} => \A u \in members : rows[cur][u] # NoRow => u \in snap
    /\ \A i \in DOMAIN inbox : inbox[i].ts # 0 =>
         \A u \in members : rows[inbox[i].ts][u] # NoRow => u \in inbox[i].key
    /\ \A i \in DOMAIN inbox : inbox[i].type = "GROUP_INFO" => members \subseteq inbox[i].key
    /\ \A m \in Msgs :
         status[m] \in Kinds \/ (\E u \in Members : local[m][u] # NoRow)
           => \A u \in members : rows[m][u] # NoRow => local[m][u] # NoRow

StatusInv == Typed /\ OnePlace /\ NotAnswered /\ SeenByAll /\ SnapshotComplete

-----------------------------------------------------------------------------
(***************************************************************************)
(* Receipts <<member, message, kind>> anywhere between a member's client   *)
(* and the author's store, rows of the queue that were flushed included.   *)
(***************************************************************************)
QueuedReceipts == {<<queue[i].from, queue[i].msg, queue[i].kind>> : i \in DOMAIN queue}

AllReceipts ==
    InboxReceipts \cup (UNION {OutboxReceipts(u) : u \in Members}) \cup ThreadReceipts
      \cup QueuedReceipts

\* No receipt says more than its member's client has sent or than happened.
ReceiptsTrue ==
    \A r \in AllReceipts : /\ r[3] = Seen => r[2] \in opened[r[1]]
                           /\ r[3] <= told[r[1]][r[2]]

\* Nor does a row of the author's store.
RowsTrue ==
    \A m \in Msgs, u \in Members :
        /\ local[m][u] = Seen => m \in opened[u]
        /\ local[m][u] >= Delivered => told[u][m] >= Delivered

HonestInv == StatusInv /\ ReceiptsTrue /\ RowsTrue

-----------------------------------------------------------------------------
\* A receipt of the member's highest kind is with the author or lost for good.
Arrived(u, m, k) ==
    \/ local[m][u] >= k
    \/ \E r \in InboxReceipts : r[1] = u /\ r[2] = m /\ r[3] >= k
    \/ \E r \in lost : r[1] = u /\ r[2] = m /\ r[3] = k
    \/ u \notin members

\* It has still to get there.
Coming(u, m, k) ==
    \/ \E r \in OutboxReceipts(u) : r[2] = m /\ r[3] >= k
    \/ mcur[u].msg = m /\ mcur[u].kind >= k
    \/ \E i \in Undelivered : queue[i].from = u /\ queue[i].msg = m /\ queue[i].kind >= k

\* The flush marks a row only after it has sent the receipt.
SentBeforeMark ==
    apc = "mark" =>
        LET q == queue[Head(pend)]
        IN  told[q.from][q.msg] = q.kind => Arrived(q.from, q.msg, q.kind)

AccountInv == HonestInv /\ SentBeforeMark /\ ReceiptsAccounted
-----------------------------------------------------------------------------
\* A non-empty set of natural numbers has a least element.
LEMMA LeastNatural ==
    ASSUME NEW T \in SUBSET Nat, T # {}
    PROVE  \E n \in T : \A m \in T : n <= m
<1> DEFINE D == {0..n : n \in T}
<1>1. IsWellFoundedOn(StrictSubsetOrdering(Nat), FiniteSubsetsOf(Nat))
  BY FS_StrictSubsetOrderingWellFounded
<1>2. \A n \in T : 0..n \in FiniteSubsetsOf(Nat)
  <2> SUFFICES ASSUME NEW n \in T PROVE 0..n \in FiniteSubsetsOf(Nat)
    OBVIOUS
  <2>1. IsFiniteSet(0..n)
    BY FS_Interval
  <2> QED
    BY <2>1 DEF FiniteSubsetsOf
<1>3. D \subseteq FiniteSubsetsOf(Nat) /\ D # {}
  BY <1>2
<1>4. \E x \in D : \A y \in D : ~(<<y, x>> \in StrictSubsetOrdering(Nat))
  <2> HIDE DEF D
  <2> QED
    BY <1>1, <1>3, WFMin
<1>5. PICK n \in T : \A y \in D : ~(<<y, 0..n>> \in StrictSubsetOrdering(Nat))
  BY <1>4
<1>6. \A m \in T : n <= m
  <2> SUFFICES ASSUME NEW m \in T, m < n
               PROVE  FALSE
    OBVIOUS
  <2>1. ~(<<0..m, 0..n>> \in StrictSubsetOrdering(Nat))
    BY <1>5
  <2>2. 0..m \subseteq 0..n /\ 0..m # 0..n
    OBVIOUS
  <2> QED
    BY <2>1, <2>2 DEF StrictSubsetOrdering
<1> QED
  BY <1>6

\* newestTimestamp of a set of messages is one of them, or 0.
LEMMA NewestType ==
    ASSUME NEW S \in SUBSET Msgs
    PROVE  Newest(S) \in S \cup {0}
<1>0. MaxMsgs \in Nat /\ \A k \in S : k \in Nat /\ k >= 1 /\ k <= MaxMsgs
  BY ReceiptConstants DEF Msgs
<1> DEFINE T == {n \in Nat : \A k \in S : k <= n}
<1>1. T \in SUBSET Nat /\ MaxMsgs \in T
  BY <1>0
<1>2. PICK n \in T : \A m \in T : n <= m
  <2> HIDE DEF T
  <2> QED
    BY <1>1, LeastNatural
<1>3. n \in S \cup {0}
  <2> SUFFICES ASSUME n # 0, n \notin S PROVE FALSE
    OBVIOUS
  <2>1. n - 1 \in Nat /\ \A k \in S : k <= n - 1
    BY <1>0
  <2>2. n <= n - 1
    BY <2>1, <1>2
  <2> QED
    BY <2>2
<1>4. \E x \in S \cup {0} : \A k \in S : k <= x
  BY <1>3
<1> QED
  BY <1>4 DEF Newest

\* What a SELECT with ORDER BY returns is a sequence of the rows it selects.
LEMMA AscendingType ==
    ASSUME NEW n \in Nat, NEW S \in SUBSET (1..n), NEW s \in Ascending(S)
    PROVE  s \in Seq(S)
<1>1. IsFiniteSet(1..n)
  BY FS_Interval
<1>2. IsFiniteSet(S)
  BY <1>1, FS_Subset
<1>3. Cardinality(S) \in Nat
  BY <1>2, FS_CardinalityType
<1>4. s \in [1..Cardinality(S) -> S]
  BY DEF Ascending
<1> QED
  BY <1>3, <1>4

\* The elements of a queue that was read, or appended to.
LEMMA TailElems ==
    ASSUME NEW T, NEW s \in Seq(T), s # <<>>
    PROVE  /\ Tail(s) \in Seq(T) /\ Head(s) \in T /\ Head(s) = s[1] /\ 1 \in DOMAIN s
           /\ \A i \in DOMAIN Tail(s) : i + 1 \in DOMAIN s /\ Tail(s)[i] = s[i + 1]
           /\ \A i \in DOMAIN s : i = 1 \/ (i - 1 \in DOMAIN Tail(s) /\ Tail(s)[i - 1] = s[i])
OBVIOUS

\* One more at the end.
LEMMA AppendElems ==
    ASSUME NEW T, NEW s \in Seq(T), NEW e \in T
    PROVE  /\ Append(s, e) \in Seq(T)
           /\ \A i \in DOMAIN Append(s, e) :
                \/ i \in DOMAIN s /\ Append(s, e)[i] = s[i]
                \/ i \notin DOMAIN s /\ i = Len(s) + 1 /\ Append(s, e)[i] = e
           /\ \A i \in DOMAIN s : i \in DOMAIN Append(s, e) /\ Append(s, e)[i] = s[i]
           /\ Len(s) + 1 \in DOMAIN Append(s, e) /\ Append(s, e)[Len(s) + 1] = e
OBVIOUS

-----------------------------------------------------------------------------
(***************************************************************************)
(* What the dispatch makes of the packets the server sends.                *)
(***************************************************************************)
ReadInbox ==
    /\ aup /\ inbox # <<>> /\ inbox' = Tail(inbox)
    /\ UNCHANGED <<apc, budget, aup, areg, outbox, cur, snap, pend, member, tables>>

ReceiptArrives(u, m, k) ==
    Head(inbox) = Receipt(u, m, k) /\ ApplyReceipt(u, m, k) /\ ReadInbox

SnapshotArrives(m, S) ==
    Head(inbox) = SendAck(m, S) /\ ApplySnapshot(m, S) /\ ReadInbox

InfoArrives(S) == Head(inbox) = GroupInfo(S) /\ ApplyInfo(S) /\ ReadInbox

LoginArrives == Head(inbox) = LoginAck /\ UNCHANGED <<store, lost>> /\ ReadInbox

\* No word of the protocol is empty.
LEMMA Words == Empty # "delivered"
BY Zenon DEF Empty

\* A receipt names its member and message.
LEMMA ReceiptFields ==
    ASSUME NEW u \in Members, NEW m, NEW k \in Kinds
    PROVE  /\ Receipt(u, m, k).from = u /\ Receipt(u, m, k).from # Empty
           /\ Receipt(u, m, k).body = m /\ Receipt(u, m, k).ts = 0
           /\ Receipt(u, m, k).type = IF k = Delivered THEN "ACK" ELSE "READ_RECEIPT"
BY ReceiptConstants DEF Receipt, ReadReceipt, DeliveredAck, Packet, Kinds, Seen, Delivered

\* It is dispatched as what it is.
LEMMA DispatchReceipt ==
    ASSUME NEW u, NEW m
    PROVE  /\ Dispatch(Receipt(u, m, Seen)) = "READ_RECEIPT"
           /\ Dispatch(Receipt(u, m, Delivered)) = "group delivered"
BY DEF Receipt, ReadReceipt, DeliveredAck, Packet, Dispatch, Seen, Delivered

\* So is the ACK with the snapshot.
LEMMA DispatchSnapshot ==
    ASSUME NEW m \in Msgs, NEW S \in SUBSET Members
    PROVE  /\ SendAck(m, S).from = Empty /\ SendAck(m, S).ts = m /\ m # 0
           /\ SendAck(m, S).key = S /\ SendAck(m, S).type = "ACK"
           /\ Dispatch(SendAck(m, S)) = "group send ack"
<1>1. m # 0
  BY ReceiptConstants DEF Msgs
<1> QED
  BY <1>1, ReceiptConstants DEF SendAck, Packet, Dispatch

\* And the packets that are neither.
LEMMA DispatchOther ==
    /\ LoginAck.from = Empty /\ LoginAck.ts = 0 /\ LoginAck.type = "ACK"
    /\ Dispatch(LoginAck) = "login ack"
    /\ \A S : /\ GroupInfo(S).from = Empty /\ GroupInfo(S).ts = 0
              /\ GroupInfo(S).key = S /\ GroupInfo(S).type = "GROUP_INFO"
              /\ Dispatch(GroupInfo(S)) = "GROUP_INFO"
BY Words DEF LoginAck, GroupInfo, Packet, Dispatch

\* AuthorReceive does one of four things.
LEMMA Received ==
    ASSUME Shapes, AuthorReceive
    PROVE  \/ \E u \in Members, m \in Msgs, k \in Kinds : ReceiptArrives(u, m, k)
           \/ \E m \in Msgs, S \in SUBSET Members : SnapshotArrives(m, S)
           \/ \E S \in SUBSET Members : InfoArrives(S)
           \/ LoginArrives
<1> DEFINE p == Head(inbox)
<1>1. p \in InPackets /\ ReadInbox
  <2>1. inbox \in Seq(InPackets) /\ inbox # <<>>
    BY DEF Shapes, AuthorReceive
  <2>2. p \in InPackets
    BY <2>1, TailElems
  <2> QED
    BY <2>2 DEF AuthorReceive, ReadInbox
<1>2. \/ Dispatch(p) = "group delivered" /\ ApplyReceipt(p.from, p.body, Delivered)
      \/ Dispatch(p) = "READ_RECEIPT" /\ ApplyReceipt(p.from, p.body, Seen)
      \/ Dispatch(p) = "group send ack" /\ ApplySnapshot(p.ts, p.key)
      \/ Dispatch(p) = "GROUP_INFO" /\ ApplyInfo(p.key)
      \/ Dispatch(p) = "login ack" /\ UNCHANGED <<store, lost>>
  BY DEF AuthorReceive
<1> HIDE DEF p
<1>3. CASE p = LoginAck
  BY <1>1, <1>2, <1>3, DispatchOther DEF LoginArrives, p
<1>4. ASSUME NEW m \in Msgs, NEW S \in SUBSET Members, p = SendAck(m, S)
      PROVE  SnapshotArrives(m, S)
  <2>1. Dispatch(p) = "group send ack" /\ p.ts = m /\ p.key = S
    BY <1>4, DispatchSnapshot
  <2>2. ApplySnapshot(p.ts, p.key)
    BY <1>2, <2>1
  <2> QED
    BY <1>1, <1>4, <2>1, <2>2 DEF SnapshotArrives, p
<1>5. ASSUME NEW u \in Members, NEW m \in Msgs, NEW k \in Kinds, p = Receipt(u, m, k)
      PROVE  ReceiptArrives(u, m, k)
  <2>1. p.from = u /\ p.body = m
    BY <1>5, ReceiptFields
  <2>2. CASE k = Seen
    <3>1. ApplyReceipt(p.from, p.body, Seen)
      BY <1>2, <1>5, <2>2, DispatchReceipt
    <3> QED
      BY <1>1, <1>5, <2>1, <2>2, <3>1 DEF ReceiptArrives, p
  <2>3. CASE k = Delivered
    <3>1. ApplyReceipt(p.from, p.body, Delivered)
      BY <1>2, <1>5, <2>3, DispatchReceipt
    <3> QED
      BY <1>1, <1>5, <2>1, <2>3, <3>1 DEF ReceiptArrives, p
  <2> QED
    BY <2>2, <2>3 DEF Kinds
<1>6. ASSUME NEW S \in SUBSET Members, p = GroupInfo(S)
      PROVE  InfoArrives(S)
  BY <1>1, <1>2, <1>6, DispatchOther DEF InfoArrives, p
<1> QED
  BY <1>1, <1>3, <1>4, <1>5, <1>6 DEF InPackets

\* A level stays a level.
LEMMA RaiseType ==
    ASSUME NEW l \in Levels, NEW k \in Kinds
    PROVE  /\ Raise(l, k) \in Levels /\ Raise(l, k) >= l
           /\ (Raise(l, k) = NoRow) <=> (l = NoRow)
           /\ l # NoRow => Raise(l, k) >= k
           /\ Raise(l, k) \in {l, k}
BY DEF Raise, Levels, Kinds, NoRow, Sent, Delivered, Seen

\* The aggregate is what it was, or what all the rows say.
LEMMA RecomputeType ==
    ASSUME NEW r, NEW old
    PROVE  \/ Recompute(r, old) = old
           \/ Recompute(r, old) \in Kinds /\ \E u \in Members : r[u] # NoRow
BY DEF Recompute, recipients, Kinds

\* The packets the server makes.
LEMMA InPacketTypes ==
    /\ LoginAck \in InPackets
    /\ \A m \in Msgs, S \in SUBSET Members : SendAck(m, S) \in InPackets
    /\ \A u \in Members, m \in Msgs, k \in Kinds : Receipt(u, m, k) \in InPackets
    /\ \A S \in SUBSET Members : GroupInfo(S) \in InPackets
BY DEF InPackets

\* The next request of a member.
LEMMA NextRequest ==
    ASSUME Shapes, NEW u \in Members, moutbox[u] # <<>>
    PROVE  /\ Head(moutbox[u]) \in Requests /\ Tail(moutbox[u]) \in Seq(Requests)
           /\ Head(moutbox[u]).req = "receipt" =>
                Head(moutbox[u]).msg \in Msgs /\ Head(moutbox[u]).kind \in Kinds
<1>1. moutbox[u] \in Seq(Requests)
  BY DEF Shapes
<1> HIDE DEF Requests
<1>2. Head(moutbox[u]) \in Requests /\ Tail(moutbox[u]) \in Seq(Requests)
  BY <1>1, TailElems
<1> QED
  BY <1>2 DEF Requests

\* A row of the queue, and the receipt a thread has in hand.
LEMMA Rows ==
    ASSUME Shapes
    PROVE  /\ \A i \in DOMAIN queue : /\ queue[i].from \in Members /\ queue[i].msg \in Msgs
                                      /\ queue[i].kind \in Kinds
                                      /\ queue[i].delivered \in BOOLEAN
           /\ DOMAIN queue = 1..Len(queue) /\ Len(queue) \in Nat
           /\ \A u \in Members : mcur[u].msg # 0 =>
                /\ mcur[u].msg \in Msgs /\ mcur[u].kind \in Kinds
                /\ mcur[u] = [msg |-> mcur[u].msg, kind |-> mcur[u].kind]
           /\ \A u \in Members : mcur[u].msg = 0 => mcur[u] = NoReceipt
           /\ NoReceipt.msg = 0 /\ NoReceipt.kind = NoRow
<1> DEFINE Q == [from : Members, msg : Msgs, kind : Kinds, delivered : BOOLEAN]
<1>1. queue \in Seq(Q)
  BY DEF Shapes
<1>2. DOMAIN queue = 1..Len(queue) /\ Len(queue) \in Nat /\ \A i \in DOMAIN queue : queue[i] \in Q
  <2> HIDE DEF Q
  <2> QED
    BY <1>1
<1>3. \A i \in DOMAIN queue : /\ queue[i].from \in Members /\ queue[i].msg \in Msgs
                              /\ queue[i].kind \in Kinds
                              /\ queue[i].delivered \in BOOLEAN
  BY <1>2
<1>4. \A u \in Members : mcur[u] \in [msg : Msgs, kind : Kinds] \cup {NoReceipt}
  BY DEF Shapes
<1>5. \A m \in Msgs : m # 0
  BY ReceiptConstants DEF Msgs
<1>6. NoReceipt.msg = 0 /\ NoReceipt.kind = NoRow
  BY DEF NoReceipt
<1>7. \A u \in Members : mcur[u].msg # 0 =>
                /\ mcur[u].msg \in Msgs /\ mcur[u].kind \in Kinds
                /\ mcur[u] = [msg |-> mcur[u].msg, kind |-> mcur[u].kind]
  BY <1>4, <1>6
<1>8. \A u \in Members : mcur[u].msg = 0 => mcur[u] = NoReceipt
  BY <1>4, <1>5
<1> QED
  BY <1>2, <1>3, <1>6, <1>7, <1>8

\* The fields of the packets on their way to the author.
LEMMA InboxPacket ==
    ASSUME Shapes, NEW i \in DOMAIN inbox
    PROVE  /\ inbox[i] \in InPackets
           /\ inbox[i].ts # 0 => /\ inbox[i].ts \in Msgs /\ inbox[i].key \in SUBSET Members
                                 /\ inbox[i].from = Empty /\ inbox[i].type = "ACK"
           /\ inbox[i].type = "GROUP_INFO" => inbox[i].ts = 0
<1> DEFINE p == inbox[i]
<1>1. p \in InPackets
  BY DEF Shapes
<1> HIDE DEF p
<1> SUFFICES /\ p.ts # 0 => /\ p.ts \in Msgs /\ p.key \in SUBSET Members
                            /\ p.from = Empty /\ p.type = "ACK"
             /\ p.type = "GROUP_INFO" => p.ts = 0
    BY <1>1 DEF p
<1>2. CASE p = LoginAck
  BY <1>2, DispatchOther
<1>3. ASSUME NEW m \in Msgs, NEW S \in SUBSET Members, p = SendAck(m, S)
      PROVE  /\ p.ts \in Msgs /\ p.key \in SUBSET Members
             /\ p.from = Empty /\ p.type = "ACK"
  <2>1. /\ SendAck(m, S).ts = m /\ SendAck(m, S).key = S
        /\ SendAck(m, S).from = Empty /\ SendAck(m, S).type = "ACK"
    BY DEF SendAck, Packet
  <2> QED
    BY <1>3, <2>1
<1>4. ASSUME NEW u \in Members, NEW m \in Msgs, NEW k \in Kinds, p = Receipt(u, m, k)
      PROVE  p.ts = 0
  BY <1>4, ReceiptFields
<1>5. ASSUME NEW S \in SUBSET Members, p = GroupInfo(S)
      PROVE  p.ts = 0
  BY <1>5, DispatchOther
<1> QED
  BY <1>1, <1>2, <1>3, <1>4, <1>5 DEF InPackets

\* What is left when the server has crashed.
LEMMA Crashed ==
    ASSUME Crash
    PROVE  /\ apc' = "off" /\ cur' = 0 /\ inbox' = <<>> /\ outbox' = <<>> /\ pend' = <<>>
           /\ DOMAIN inbox' = {} /\ DOMAIN outbox' = {} /\ DOMAIN pend' = {}
           /\ \A u \in Members : /\ mcur'[u] = NoReceipt /\ mcur'[u].msg = 0
                                 /\ mpc'[u] = "off" /\ moutbox'[u] = <<>>
           /\ mcur' = [u \in Members |-> NoReceipt]
           /\ UNCHANGED <<got, unread, opened, told, members, saved, rows, queue, local, status>>
<1>1. DOMAIN <<>> = {} /\ NoReceipt.msg = 0
  BY DEF NoReceipt
<1>2. /\ inbox' = <<>> /\ outbox' = <<>> /\ pend' = <<>>
      /\ mcur' = [u \in Members |-> NoReceipt]
      /\ mpc' = [u \in Members |-> "off"] /\ moutbox' = [u \in Members |-> <<>>]
  BY DEF Crash
<1>3. \A u \in Members : mcur'[u] = NoReceipt /\ mpc'[u] = "off" /\ moutbox'[u] = <<>>
  BY <1>2
<1> QED
  BY <1>1, <1>2, <1>3 DEF Crash, tables, store

\* What a message leaves whose handler failed.
LEMMA MessageFailed ==
    ASSUME MessageFails
    PROVE  /\ apc' = "idle" /\ cur' = 0
           /\ UNCHANGED <<inbox, status, local, members>>
           /\ \/ rows' = rows /\ (outbox' = outbox \/ (outbox # <<>> /\ outbox' = Tail(outbox)))
              \/ /\ apc = "insert" /\ outbox' = outbox
                 /\ \E S \in SUBSET snap :
                      rows' = [rows EXCEPT ![cur] = [u \in Members |->
                                 IF u \in S /\ @[u] = NoRow THEN Sent ELSE @[u]]]
BY DEF MessageFails, Goto, store
-----------------------------------------------------------------------------

\* Every step keeps the types of the tables and of the threads' locals.
LEMMA TypeStep == Typed /\ [Next]_vars => TypeOK'
<1> SUFFICES ASSUME Typed, [Next]_vars
             PROVE  TypeOK'
    OBVIOUS
<1> USE ReceiptConstants DEF Levels, Kinds, NoRow, Sent, Delivered, Seen
<1>1. ASSUME NEW m \in Msgs, SendGroupMessage(m) PROVE TypeOK'
  BY <1>1 DEF SendGroupMessage, author, member, tables, store, Typed, TypeOK
<1>2. ASSUME SaveMessage PROVE TypeOK'
  <2>1. Head(outbox) \in Msgs
    BY <1>2, TailElems DEF SaveMessage, Typed, Shapes
  <2>2. \A m \in Msgs : m # 0
    BY DEF Msgs
  <2> QED
    BY <1>2, <2>1, <2>2 DEF SaveMessage, Goto, author, member, tables, store, Typed, TypeOK
<1>3. ASSUME ListRecipients PROVE TypeOK'
  BY <1>3 DEF ListRecipients, Goto, author, member, tables, store, Typed, TypeOK
<1>4. ASSUME InsertReceiptRows PROVE TypeOK'
  BY <1>4 DEF InsertReceiptRows, Goto, author, member, tables, store, Typed, TypeOK
<1>5. ASSUME FanOut PROVE TypeOK'
  BY <1>5 DEF FanOut, Goto, author, member, tables, store, Typed, TypeOK
<1>6. ASSUME AckSender PROVE TypeOK'
  BY <1>6 DEF AckSender, Goto, author, member, tables, store, Typed, TypeOK
<1>7. ASSUME SendGroupInfo PROVE TypeOK'
  BY <1>7 DEF SendGroupInfo, author, member, tables, store, Typed, TypeOK
<1>8. ASSUME NEW u \in Members, NEW m \in Msgs, NEW k \in Kinds, ReceiptArrives(u, m, k)
      PROVE  TypeOK'
  <2>1. local \in [Msgs -> [Members -> Levels]] /\ status \in [Msgs -> Levels]
    BY DEF Typed, TypeOK
  <2>2. Raise(local[m][u], k) \in Levels
    BY <2>1, RaiseType
  <2>3. local' \in [Msgs -> [Members -> Levels]]
    BY <1>8, <2>1, <2>2 DEF ReceiptArrives, ApplyReceipt
  <2>4. Recompute(local'[m], status[m]) \in Levels
    BY <2>1, RecomputeType DEF Kinds, Levels
  <2>5. status' \in [Msgs -> Levels]
    BY <1>8, <2>1, <2>4 DEF ReceiptArrives, ApplyReceipt
  <2> QED
    BY <1>8, <2>3, <2>5 DEF ReceiptArrives, ReadInbox, member, tables, Typed, TypeOK
<1>9. ASSUME NEW m \in Msgs, NEW S \in SUBSET Members, SnapshotArrives(m, S)
      PROVE  TypeOK'
  BY <1>9 DEF SnapshotArrives, ApplySnapshot, ReadInbox, author, member, tables, store, Typed,
     TypeOK
<1>10. ASSUME NEW S \in SUBSET Members, InfoArrives(S) PROVE TypeOK'
  <2>1. local \in [Msgs -> [Members -> Levels]] /\ status \in [Msgs -> Levels]
    BY DEF Typed, TypeOK
  <2>2. local' \in [Msgs -> [Members -> Levels]]
    BY <1>10, <2>1 DEF InfoArrives, ApplyInfo, Levels
  <2>3. ASSUME NEW m \in Msgs PROVE Recompute(local'[m], status[m]) \in Levels
    BY <2>1, RecomputeType DEF Kinds, Levels
  <2>4. status' \in [Msgs -> Levels]
    <3> HIDE DEF Levels
    <3> QED
      BY <1>10, <2>1, <2>3 DEF InfoArrives, ApplyInfo
  <2> QED
    BY <1>10, <2>2, <2>4 DEF InfoArrives, ReadInbox, member, tables, Typed, TypeOK
<1>11. ASSUME LoginArrives PROVE TypeOK'
  BY <1>11 DEF LoginArrives, ReadInbox, author, member, tables, store, Typed, TypeOK
<1>12. ASSUME AuthorDrop PROVE TypeOK'
  BY <1>12 DEF AuthorDrop, author, member, tables, store, Typed, TypeOK
<1>13. ASSUME AuthorLeaves PROVE TypeOK'
  BY <1>13 DEF AuthorLeaves, Goto, author, member, tables, store, Typed, TypeOK
<1>14. ASSUME AuthorLogin PROVE TypeOK'
  BY <1>14 DEF AuthorLogin, Goto, author, member, tables, store, Typed, TypeOK
<1>15. ASSUME ReadQueue PROVE TypeOK'
  <2>1. DOMAIN queue = 1..Len(queue) /\ Len(queue) \in Nat
    BY Rows DEF Typed
  <2>2. pend' \in Seq(Undelivered) /\ Undelivered \subseteq DOMAIN queue
    BY <1>15, <2>1, AscendingType DEF ReadQueue, Undelivered
  <2>3. \A i \in DOMAIN pend' : pend'[i] \in DOMAIN queue
    BY <2>2
  <2> QED
    BY <1>15, <2>3 DEF ReadQueue, Goto, author, member, tables, store, Typed, TypeOK
<1>16. ASSUME SendQueued PROVE TypeOK'
  <2>1. \A i \in DOMAIN pend' : pend'[i] \in DOMAIN queue
    <3>1. pend' = pend \/ pend' = <<>>
      BY <1>16 DEF SendQueued
    <3>2. \A i \in DOMAIN pend : pend[i] \in DOMAIN queue
      BY DEF Typed, TypeOK
    <3> QED
      BY <3>1, <3>2
  <2>2. apc' \in {"mark", "idle"}
    BY <1>16 DEF SendQueued, Goto
  <2> QED
    BY <1>16, <2>1, <2>2 DEF SendQueued, author, member, tables, store, Typed, TypeOK
<1>17. ASSUME MarkQueued PROVE TypeOK'
  <2>1. pend # <<>> /\ pend \in Seq(Nat)
    BY <1>17 DEF MarkQueued, Typed, Shapes
  <2>2. pend' = Tail(pend)
    BY <1>17 DEF MarkQueued
  <2>3. \A i \in DOMAIN pend' : pend'[i] \in DOMAIN queue
    <3>1. \A i \in DOMAIN pend : pend[i] \in DOMAIN queue
      BY DEF Typed, TypeOK
    <3> QED
      BY <2>1, <2>2, <3>1, TailElems
  <2>4. DOMAIN queue' = DOMAIN queue
    BY <1>17 DEF MarkQueued
  <2>5. \A i \in DOMAIN queue : queue'[i].from = queue[i].from /\ queue'[i].msg = queue[i].msg
    <3> DEFINE Q == [from : Members, msg : Msgs, kind : Kinds, delivered : BOOLEAN]
    <3>1. queue' = [queue EXCEPT ![Head(pend)].delivered = TRUE]
      BY <1>17 DEF MarkQueued
    <3>2. \A i \in DOMAIN queue : queue[i] \in Q
      <4>1. queue \in Seq(Q)
        BY DEF Typed, Shapes
      <4> HIDE DEF Q
      <4> QED
        BY <4>1
    <3>3. \A i \in DOMAIN queue :
            queue'[i] = IF i = Head(pend) THEN [queue[i] EXCEPT !.delivered = TRUE] ELSE queue[i]
      BY <3>1
    <3> QED
      BY <3>2, <3>3
  <2>6. \A i, j \in DOMAIN queue' :
          queue'[i].from = queue'[j].from /\ queue'[i].msg = queue'[j].msg => i = j
    BY <2>4, <2>5 DEF Typed, TypeOK
  <2> QED
    BY <1>17, <2>3, <2>4, <2>6 DEF MarkQueued, Goto, member, store, Typed, TypeOK
<1>18. ASSUME AuthorJoins PROVE TypeOK'
  BY <1>18 DEF AuthorJoins, Goto, author, member, tables, store, Typed, TypeOK
<1>19. ASSUME NEW u \in Members, MemberReceive(u) PROVE TypeOK'
  BY <1>19 DEF MemberReceive, author, member, tables, store, Typed, TypeOK
<1>20. ASSUME NEW u \in Members, OpenGroup(u) PROVE TypeOK'
  BY <1>20 DEF OpenGroup, author, member, tables, store, Typed, TypeOK
<1>21. ASSUME NEW u \in Members, AskLeave(u) PROVE TypeOK'
  BY <1>21 DEF AskLeave, author, member, tables, store, Typed, TypeOK
<1>22. ASSUME NEW u \in Members, MemberDrop(u) PROVE TypeOK'
  BY <1>22 DEF MemberDrop, author, member, tables, store, Typed, TypeOK
<1>23. ASSUME NEW u \in Members, MemberRestart(u) PROVE TypeOK'
  BY <1>23 DEF MemberRestart, author, member, tables, store, Typed, TypeOK
<1>24. ASSUME NEW u \in Members, MemberLogin(u) PROVE TypeOK'
  BY <1>24 DEF MemberLogin, MGoto, author, member, tables, store, Typed, TypeOK
<1>25. ASSUME NEW u \in Members, TakeReceipt(u) PROVE TypeOK'
  <2> DEFINE p == Head(moutbox[u])
  <2>1. p.msg \in Msgs /\ p.kind \in Kinds
    BY <1>25, NextRequest DEF TakeReceipt, Request, Typed
  <2>2. \A m \in Msgs : m # 0
    BY DEF Msgs
  <2>3. mcur \in [Members -> [msg : Msgs, kind : Kinds] \cup {NoReceipt}]
    BY DEF Typed, Shapes
  <2> HIDE DEF p
  <2>4. CASE u \in members
    <3>1. mcur' = [mcur EXCEPT ![u] = [msg |-> p.msg, kind |-> p.kind]] /\ MGoto(u, "update")
      BY <1>25, <2>4 DEF TakeReceipt, p
    <3>2. \A v \in Members : (mcur'[v].msg # 0) <=> (mpc'[v] \in {"update", "forward", "queue"})
      BY <2>1, <2>2, <2>3, <3>1 DEF MGoto, Typed, TypeOK
    <3> QED
      BY <1>25, <3>1, <3>2 DEF TakeReceipt, MGoto, author, tables, store, Typed, TypeOK
  <2>5. CASE u \notin members
    BY <1>25, <2>5 DEF TakeReceipt, author, tables, store, Typed, TypeOK
  <2> QED
    BY <2>4, <2>5
<1>26. ASSUME NEW u \in Members, MarkReceipt(u) PROVE TypeOK'
  <2>1. mcur[u].msg \in Msgs /\ mcur[u].kind \in Kinds
    BY <1>26, Rows DEF MarkReceipt, Typed, TypeOK
  <2>4. rows[mcur[u].msg][u] \in Levels
    BY <2>1 DEF Typed, TypeOK
  <2>2. Raise(rows[mcur[u].msg][u], mcur[u].kind) \in Levels
    <3> HIDE DEF Levels, Kinds
    <3> QED
      BY <2>1, <2>4, RaiseType
  <2>3. rows' \in [Msgs -> [Members -> Levels]]
    BY <1>26, <2>1, <2>2 DEF MarkReceipt, Typed, TypeOK
  <2> QED
    BY <1>26, <2>3 DEF MarkReceipt, MGoto, author, store, Typed, TypeOK
<1>27. ASSUME NEW u \in Members, Forward(u) PROVE TypeOK'
  <2>1. mcur \in [Members -> [msg : Msgs, kind : Kinds] \cup {NoReceipt}] /\ NoReceipt.msg = 0
    BY Rows DEF Typed, Shapes
  <2>2. \A v \in Members : (mcur'[v].msg # 0) <=> (mpc'[v] \in {"update", "forward", "queue"})
    BY <1>27, <2>1 DEF Forward, MGoto, Typed, TypeOK
  <2>3. mpc' \in [Members -> {"off", "idle", "update", "forward", "queue", "rmreceipts"}]
    BY <1>27 DEF Forward, MGoto, Typed, TypeOK
  <2> QED
    BY <1>27, <2>2, <2>3 DEF Forward, tables, store, Typed, TypeOK
<1>28. ASSUME NEW u \in Members, ForwardOffline(u) PROVE TypeOK'
  BY <1>28 DEF ForwardOffline, MGoto, author, member, tables, store, Typed, TypeOK
<1>29. ASSUME NEW u \in Members, QueueReceipt(u) PROVE TypeOK'
  <2>1. mcur \in [Members -> [msg : Msgs, kind : Kinds] \cup {NoReceipt}] /\ NoReceipt.msg = 0
    BY Rows DEF Typed, Shapes
  <2>2. \A v \in Members : (mcur'[v].msg # 0) <=> (mpc'[v] \in {"update", "forward", "queue"})
    BY <1>29, <2>1 DEF QueueReceipt, MGoto, Typed, TypeOK
  <2>3. mpc' \in [Members -> {"off", "idle", "update", "forward", "queue", "rmreceipts"}]
    BY <1>29 DEF QueueReceipt, MGoto, Typed, TypeOK
  <2>4. /\ \A i \in DOMAIN pend : pend[i] \in DOMAIN queue'
        /\ \A i, j \in DOMAIN queue' :
             queue'[i].from = queue'[j].from /\ queue'[i].msg = queue'[j].msg => i = j
    <3> DEFINE e == [from |-> u, msg |-> mcur[u].msg, kind |-> mcur[u].kind, delivered |-> FALSE]
               Q == [from : Members, msg : Msgs, kind : Kinds, delivered : BOOLEAN]
               same == {i \in DOMAIN queue : queue[i].from = u /\ queue[i].msg = mcur[u].msg}
    <3>1. CASE same = {}
      <4>1. queue' = Append(queue, e)
        BY <1>29, <3>1 DEF QueueReceipt
      <4>2. e \in Q /\ queue \in Seq(Q)
        BY <1>29, Rows DEF QueueReceipt, Typed, TypeOK, Shapes
      <4>3. \A i \in DOMAIN queue : ~(queue[i].from = e.from /\ queue[i].msg = e.msg)
        BY <3>1
      <4>4. /\ \A i, j \in DOMAIN queue :
                 queue[i].from = queue[j].from /\ queue[i].msg = queue[j].msg => i = j
            /\ \A i \in DOMAIN pend : pend[i] \in DOMAIN queue
        BY DEF Typed, TypeOK
      <4> HIDE DEF e, Q, same
      <4>5. /\ \A i \in DOMAIN queue' :
                \/ i \in DOMAIN queue /\ queue'[i] = queue[i]
                \/ i \notin DOMAIN queue /\ i = Len(queue) + 1 /\ queue'[i] = e
            /\ \A i \in DOMAIN queue : i \in DOMAIN queue'
        BY <4>1, <4>2, AppendElems
      <4>6. \A i, j \in DOMAIN queue' :
              queue'[i].from = queue'[j].from /\ queue'[i].msg = queue'[j].msg => i = j
        <5> SUFFICES ASSUME NEW i \in DOMAIN queue', NEW j \in DOMAIN queue',
                            queue'[i].from = queue'[j].from, queue'[i].msg = queue'[j].msg
                     PROVE  i = j
          OBVIOUS
        <5>1. CASE i \in DOMAIN queue /\ j \in DOMAIN queue
          BY <4>4, <4>5, <5>1
        <5>2. CASE i \notin DOMAIN queue /\ j \notin DOMAIN queue
          BY <4>5, <5>2
        <5>3. CASE (i \in DOMAIN queue) # (j \in DOMAIN queue)
          BY <4>3, <4>5, <5>3
        <5> QED
          BY <5>1, <5>2, <5>3
      <4> QED
        BY <4>4, <4>5, <4>6
    <3>2. CASE same # {}
      BY <1>29, <3>2 DEF QueueReceipt, Typed, TypeOK
    <3> QED
      BY <3>1, <3>2
  <2> QED
    BY <1>29, <2>2, <2>3, <2>4 DEF QueueReceipt, author, store, Typed, TypeOK
<1>30. ASSUME NEW u \in Members, SyncGroup(u) PROVE TypeOK'
  BY <1>30 DEF SyncGroup, Request, author, member, tables, store, Typed, TypeOK
<1>31. ASSUME NEW u \in Members, RemoveMember(u) PROVE TypeOK'
  BY <1>31 DEF RemoveMember, MGoto, Request, author, member, tables, store, Typed, TypeOK
<1>32. ASSUME NEW u \in Members, DeleteReceipts(u) PROVE TypeOK'
  BY <1>32 DEF DeleteReceipts, MGoto, author, member, tables, store, Typed, TypeOK
<1>33. ASSUME NEW u \in Members, MemberLeaves(u) PROVE TypeOK'
  BY <1>33 DEF MemberLeaves, MGoto, author, member, tables, store, Typed, TypeOK
<1>34. CASE UNCHANGED vars
  BY <1>34 DEF vars, author, member, tables, store, Typed, TypeOK
<1>35. CASE AuthorReceive
  BY <1>35, <1>8, <1>9, <1>10, <1>11, Received DEF Typed, StatusInv, HonestInv, AccountInv
<1>36. ASSUME MessageFails PROVE TypeOK'
  BY <1>36 DEF MessageFails, Goto, author, member, tables, store, Typed, TypeOK
<1>37. ASSUME FlushFails PROVE TypeOK'
  BY <1>37 DEF FlushFails, Goto, author, member, tables, store, Typed, TypeOK
<1>38. ASSUME Crash PROVE TypeOK'
  BY <1>38, Crashed DEF Crash, tables, store, Typed, TypeOK
<1>39. ASSUME NEW u \in Members, RequestFails(u) PROVE TypeOK'
  BY <1>39 DEF RequestFails, Request, author, member, tables, store, Typed, TypeOK
<1>40. ASSUME NEW u \in Members, HandlerFails(u) PROVE TypeOK'
  <2>1. mcur \in [Members -> [msg : Msgs, kind : Kinds] \cup {NoReceipt}] /\ NoReceipt.msg = 0
    BY Rows DEF Typed, Shapes
  <2>2. \A v \in Members : (mcur'[v].msg # 0) <=> (mpc'[v] \in {"update", "forward", "queue"})
    BY <1>40, <2>1 DEF HandlerFails, MGoto, Typed, TypeOK
  <2>3. mpc' \in [Members -> {"off", "idle", "update", "forward", "queue", "rmreceipts"}]
    BY <1>40 DEF HandlerFails, MGoto, Typed, TypeOK
  <2> QED
    BY <1>40, <2>2, <2>3 DEF HandlerFails, author, tables, store, Typed, TypeOK
<1> QED
  BY <1>1, <1>2, <1>3, <1>4, <1>5, <1>6, <1>7, <1>8, <1>9, <1>10, <1>11, <1>12, <1>13, <1>14,
     <1>15, <1>16, <1>17, <1>18, <1>19, <1>20, <1>21, <1>22, <1>23, <1>24, <1>25, <1>26, <1>27,
     <1>28, <1>29, <1>30, <1>31, <1>32, <1>33, <1>34, <1>35, <1>36, <1>37,
     <1>38, <1>39, <1>40 DEF Next, AuthorStep, MemberStep

\* Every step keeps the types of what is on the wires.
LEMMA ShapesStep == Typed /\ [Next]_vars => Shapes'
<1> SUFFICES ASSUME Typed, [Next]_vars
             PROVE  Shapes'
    OBVIOUS
<1> USE ReceiptConstants
<1>1. ASSUME NEW m \in Msgs, SendGroupMessage(m) PROVE Shapes'
  BY <1>1 DEF SendGroupMessage, author, member, tables, store, Typed, Shapes
<1>2. ASSUME SaveMessage PROVE Shapes'
  BY <1>2 DEF SaveMessage, Goto, author, member, tables, store, Typed, Shapes
<1>3. ASSUME ListRecipients PROVE Shapes'
  BY <1>3 DEF ListRecipients, Goto, author, member, tables, store, Typed, Shapes
<1>4. ASSUME InsertReceiptRows PROVE Shapes'
  BY <1>4 DEF InsertReceiptRows, Goto, author, member, tables, store, Typed, Shapes
<1>5. ASSUME FanOut PROVE Shapes'
  <2>1. \A v \in Members : minbox'[v] = minbox[v] \/ minbox'[v] = Append(minbox[v], cur)
    BY <1>5 DEF FanOut
  <2>2. \A v \in Members : minbox[v] \in Seq(Msgs) /\ cur \in Msgs
    BY <1>5 DEF FanOut, Typed, TypeOK, Shapes
  <2>3. \A v \in Members : minbox'[v] \in Seq(Msgs)
    BY <2>1, <2>2, AppendElems
  <2>4. minbox' \in [Members -> Seq(Msgs)]
    BY <1>5, <2>3 DEF FanOut
  <2> QED
    BY <1>5, <2>4 DEF FanOut, Goto, tables, store, Typed, Shapes
<1>6. ASSUME AckSender PROVE Shapes'
  <2>1. inbox \in Seq(InPackets) /\ SendAck(cur, snap) \in InPackets
    BY <1>6, InPacketTypes DEF AckSender, Typed, TypeOK, Shapes
  <2>2. inbox' \in Seq(InPackets)
    <3>1. inbox' = Append(inbox, SendAck(cur, snap)) \/ inbox' = inbox
      BY <1>6 DEF AckSender
    <3> QED
      BY <2>1, <3>1, AppendElems
  <2> QED
    BY <1>6, <2>2 DEF AckSender, Goto, author, member, tables, store, Typed, Shapes
<1>7. ASSUME SendGroupInfo PROVE Shapes'
  <2>1. inbox \in Seq(InPackets) /\ GroupInfo(members) \in InPackets
    BY InPacketTypes DEF Typed, TypeOK, Shapes
  <2>2. inbox' \in Seq(InPackets)
    BY <1>7, <2>1, AppendElems DEF SendGroupInfo
  <2> QED
    BY <1>7, <2>2 DEF SendGroupInfo, author, member, tables, store, Typed, Shapes
<1>8. ASSUME NEW u \in Members, NEW m \in Msgs, NEW k \in Kinds, ReceiptArrives(u, m, k)
      PROVE  Shapes'
  <2>1. inbox' \in Seq(InPackets)
    BY <1>8, TailElems DEF ReceiptArrives, ReadInbox, Typed, Shapes
  <2> QED
    BY <1>8, <2>1 DEF ReceiptArrives, ReadInbox, member, tables, Typed, Shapes
<1>9. ASSUME NEW m \in Msgs, NEW S \in SUBSET Members, SnapshotArrives(m, S)
      PROVE  Shapes'
  <2>1. inbox' \in Seq(InPackets)
    BY <1>9, TailElems DEF SnapshotArrives, ReadInbox, Typed, Shapes
  <2> QED
    BY <1>9, <2>1 DEF SnapshotArrives, ReadInbox, member, tables, Typed, Shapes
<1>10. ASSUME NEW S \in SUBSET Members, InfoArrives(S) PROVE Shapes'
  <2>1. inbox' \in Seq(InPackets)
    BY <1>10, TailElems DEF InfoArrives, ReadInbox, Typed, Shapes
  <2> QED
    BY <1>10, <2>1 DEF InfoArrives, ReadInbox, member, tables, Typed, Shapes
<1>11. ASSUME LoginArrives PROVE Shapes'
  <2>1. inbox' \in Seq(InPackets)
    BY <1>11, TailElems DEF LoginArrives, ReadInbox, Typed, Shapes
  <2> QED
    BY <1>11, <2>1 DEF LoginArrives, ReadInbox, member, tables, Typed, Shapes
<1>12. ASSUME AuthorDrop PROVE Shapes'
  <2>1. inbox' = <<>> /\ outbox' = <<>>
    BY <1>12 DEF AuthorDrop
  <2>2. inbox' \in Seq(InPackets) /\ outbox' \in Seq(Msgs)
    BY <2>1
  <2> QED
    BY <1>12, <2>1, <2>2 DEF AuthorDrop, member, tables, store, Typed, Shapes
<1>13. ASSUME AuthorLeaves PROVE Shapes'
  BY <1>13 DEF AuthorLeaves, Goto, author, member, tables, store, Typed, Shapes
<1>14. ASSUME AuthorLogin PROVE Shapes'
  <2>1. inbox' \in Seq(InPackets)
    BY <1>14, InPacketTypes DEF AuthorLogin
  <2> QED
    BY <1>14, <2>1 DEF AuthorLogin, Goto, author, member, tables, store, Typed, Shapes
<1>15. ASSUME ReadQueue PROVE Shapes'
  <2>1. DOMAIN queue = 1..Len(queue) /\ Len(queue) \in Nat
    BY Rows DEF Typed
  <2>2. pend' \in Seq(Undelivered) /\ Undelivered \subseteq DOMAIN queue
    BY <1>15, <2>1, AscendingType DEF ReadQueue, Undelivered
  <2>3. pend' \in Seq(Nat)
    BY <2>1, <2>2
  <2> QED
    BY <1>15, <2>3 DEF ReadQueue, Goto, author, member, tables, store, Typed, Shapes
<1>16. ASSUME SendQueued PROVE Shapes'
  <2> DEFINE q == queue[Head(pend)]
  <2>1. inbox \in Seq(InPackets) /\ pend \in Seq(Nat) /\ pend # <<>>
    BY <1>16 DEF SendQueued, Typed, Shapes
  <2>2. Head(pend) \in DOMAIN queue
    BY <2>1, TailElems DEF Typed, TypeOK
  <2>3. Receipt(q.from, q.msg, q.kind) \in InPackets
    BY <2>2, Rows, InPacketTypes DEF Typed
  <2>4. inbox' = Append(inbox, Receipt(q.from, q.msg, q.kind)) \/ inbox' = inbox
    BY <1>16 DEF SendQueued
  <2> HIDE DEF q
  <2>5. inbox' \in Seq(InPackets)
    BY <2>1, <2>3, <2>4, AppendElems, SMTT(30)
  <2>6. pend' \in Seq(Nat) /\ (apc' = "mark" => pend' # <<>>)
    <3>1. pend' = pend \/ (pend' = <<>> /\ apc' = "idle")
      BY <1>16 DEF SendQueued, Goto
    <3>2. CASE pend' = pend
      BY <2>1, <3>2
    <3>3. CASE pend' = <<>> /\ apc' = "idle"
      BY <3>3
    <3> QED
      BY <3>1, <3>2, <3>3
  <2> QED
    BY <1>16, <2>5, <2>6 DEF SendQueued, member, tables, store, Typed, Shapes
<1>17. ASSUME MarkQueued PROVE Shapes'
  <2> DEFINE Q == [from : Members, msg : Msgs, kind : Kinds, delivered : BOOLEAN]
  <2>1. pend # <<>> /\ pend \in Seq(Nat) /\ queue \in Seq(Q)
    BY <1>17 DEF MarkQueued, Typed, Shapes
  <2>2. pend' \in Seq(Nat)
    BY <1>17, <2>1, TailElems DEF MarkQueued
  <2>3. DOMAIN queue = 1..Len(queue) /\ \A i \in DOMAIN queue : queue[i] \in Q
    <3> HIDE DEF Q
    <3> QED
      BY <2>1
  <2>4. queue' = [queue EXCEPT ![Head(pend)].delivered = TRUE]
    BY <1>17 DEF MarkQueued
  <2>5. \A i \in DOMAIN queue :
          queue'[i] = IF i = Head(pend) THEN [queue[i] EXCEPT !.delivered = TRUE] ELSE queue[i]
    BY <2>4
  <2>6. DOMAIN queue' = 1..Len(queue) /\ \A i \in DOMAIN queue' : queue'[i] \in Q
    BY <2>3, <2>4, <2>5
  <2>7. queue' \in Seq(Q)
    <3>1. Len(queue) \in Nat
      BY <2>1
    <3>2. queue' = [i \in DOMAIN queue' |-> queue'[i]]
      BY <2>4
    <3> HIDE DEF Q
    <3> QED
      BY <2>6, <3>1, <3>2
  <2> QED
    BY <1>17, <2>2, <2>7 DEF MarkQueued, Goto, member, store, Typed, Shapes
<1>18. ASSUME AuthorJoins PROVE Shapes'
  BY <1>18 DEF AuthorJoins, Goto, author, member, tables, store, Typed, Shapes
<1>19. ASSUME NEW u \in Members, MemberReceive(u) PROVE Shapes'
  <2> DEFINE m == Head(minbox[u])
             e == [req |-> "receipt", kind |-> Delivered, msg |-> m]
  <2>1. minbox[u] \in Seq(Msgs) /\ minbox[u] # <<>>
    BY <1>19 DEF MemberReceive, Typed, Shapes
  <2>2. m \in Msgs /\ Tail(minbox[u]) \in Seq(Msgs)
    BY <2>1, TailElems
  <2>3. e \in Requests
    BY <2>2 DEF Requests, Kinds
  <2>4. moutbox' = [moutbox EXCEPT ![u] = Append(@, e)]
    BY <1>19 DEF MemberReceive
  <2>5. Append(moutbox[u], e) \in Seq(Requests)
    <3>1. moutbox[u] \in Seq(Requests)
      BY DEF Typed, Shapes
    <3> HIDE DEF e
    <3> QED
      BY <2>3, <3>1, AppendElems
  <2>6. moutbox' \in [Members -> Seq(Requests)]
    <3> HIDE DEF e
    <3> QED
      BY <2>4, <2>5 DEF Typed, Shapes
  <2>7. told' \in [Members -> [Msgs -> Levels]]
    BY <1>19, <2>2 DEF MemberReceive, Typed, Shapes, Levels
  <2>8. unread' \in [Members -> Seq(Msgs)]
    <3>1. unread' = unread \/ unread' = [unread EXCEPT ![u] = Append(@, m)]
      BY <1>19 DEF MemberReceive
    <3>2. Append(unread[u], m) \in Seq(Msgs)
      <4>1. unread[u] \in Seq(Msgs)
        BY DEF Typed, Shapes
      <4> QED
        BY <2>2, <4>1, AppendElems
    <3> HIDE DEF m
    <3> QED
      BY <3>1, <3>2 DEF Typed, Shapes
  <2>9. got' \in [Members -> SUBSET Msgs]
    <3>1. got' = got \/ got' = [got EXCEPT ![u] = @ \cup {m}]
      BY <1>19 DEF MemberReceive
    <3>2. got \in [Members -> SUBSET Msgs]
      BY DEF Typed, Shapes
    <3> HIDE DEF m
    <3>3. got[u] \cup {m} \in SUBSET Msgs
      BY <2>2, <3>2
    <3> QED
      BY <3>1, <3>2, <3>3
  <2>10. minbox' \in [Members -> Seq(Msgs)]
    BY <1>19, <2>2 DEF MemberReceive, Typed, Shapes
  <2> QED
    BY <1>19, <2>6, <2>7, <2>8, <2>9, <2>10 DEF MemberReceive, author, tables, store, Typed,
       Shapes
<1>20. ASSUME NEW u \in Members, OpenGroup(u) PROVE Shapes'
  <2> DEFINE s == unread[u]
             a == [i \in DOMAIN s |-> [req |-> "receipt", kind |-> Seen, msg |-> s[i]]]
  <2>1. s \in Seq(Msgs) /\ DOMAIN s = 1..Len(s) /\ Len(s) \in Nat /\ \A i \in DOMAIN s : s[i] \in Msgs
    BY DEF Typed, Shapes
  <2>2. \A i \in DOMAIN s : [req |-> "receipt", kind |-> Seen, msg |-> s[i]] \in Requests
    BY <2>1 DEF Requests, Kinds
  <2>3. a \in [1..Len(s) -> Requests]
    BY <2>1, <2>2
  <2>4. moutbox' = [moutbox EXCEPT ![u] = @ \o a]
    BY <1>20 DEF OpenGroup
  <2>5. moutbox[u] \o a \in Seq(Requests)
    <3>1. moutbox[u] \in Seq(Requests)
      BY DEF Typed, Shapes
    <3> HIDE DEF a, s
    <3>2. a \in Seq(Requests)
      BY <2>1, <2>3
    <3> QED
      BY <3>1, <3>2, ConcatProperties
  <2>6. moutbox' \in [Members -> Seq(Requests)]
    <3> HIDE DEF a
    <3> QED
      BY <2>4, <2>5 DEF Typed, Shapes
  <2>7. {s[i] : i \in DOMAIN s} \subseteq Msgs
    BY <2>1
  <2>8. told' \in [Members -> [Msgs -> Levels]]
    BY <1>20 DEF OpenGroup, Typed, Shapes, Levels
  <2>9. opened' \in [Members -> SUBSET Msgs]
    BY <1>20, <2>7 DEF OpenGroup, Typed, Shapes
  <2>10. unread' \in [Members -> Seq(Msgs)]
    BY <1>20 DEF OpenGroup, Typed, Shapes
  <2> QED
    BY <1>20, <2>6, <2>8, <2>9, <2>10 DEF OpenGroup, author, tables, store, Typed, Shapes
<1>21. ASSUME NEW u \in Members, AskLeave(u) PROVE Shapes'
  <2> DEFINE e == [req |-> "leave", kind |-> NoRow, msg |-> 0]
  <2>1. e \in Requests /\ moutbox[u] \in Seq(Requests)
    BY DEF Requests, Typed, Shapes
  <2>2. moutbox' = [moutbox EXCEPT ![u] = Append(@, e)]
    BY <1>21 DEF AskLeave
  <2> HIDE DEF e
  <2>3. moutbox' \in [Members -> Seq(Requests)]
    <3>1. Append(moutbox[u], e) \in Seq(Requests)
      BY <2>1, AppendElems
    <3> QED
      BY <2>2, <3>1 DEF Typed, Shapes
  <2> QED
    BY <1>21, <2>3 DEF AskLeave, author, tables, store, Typed, Shapes
<1>22. ASSUME NEW u \in Members, MemberDrop(u) PROVE Shapes'
  <2>2. minbox' \in [Members -> Seq(Msgs)]
    <3>1. minbox \in [Members -> Seq(Msgs)] /\ <<>> \in Seq(Msgs)
      BY DEF Typed, Shapes
    <3> QED
      BY <1>22, <3>1 DEF MemberDrop
  <2>3. moutbox' \in [Members -> Seq(Requests)]
    <3>1. moutbox \in [Members -> Seq(Requests)] /\ <<>> \in Seq(Requests)
      BY DEF Typed, Shapes
    <3> QED
      BY <1>22, <3>1 DEF MemberDrop
  <2> QED
    BY <1>22, <2>2, <2>3 DEF MemberDrop, author, tables, store, Typed, Shapes
<1>23. ASSUME NEW u \in Members, MemberRestart(u) PROVE Shapes'
  BY <1>23 DEF MemberRestart, author, member, tables, store, Typed, Shapes
<1>24. ASSUME NEW u \in Members, MemberLogin(u) PROVE Shapes'
  <2> DEFINE e == [req |-> "sync", kind |-> NoRow, msg |-> Newest(got[u])]
  <2>1. Newest(got[u]) \in Msgs \cup {0}
    BY NewestType DEF Typed, Shapes
  <2>2. e \in Requests
    BY <2>1 DEF Requests
  <2>3. moutbox' = [moutbox EXCEPT ![u] = <<e>>]
    BY <1>24 DEF MemberLogin
  <2> HIDE DEF e
  <2>4. moutbox' \in [Members -> Seq(Requests)]
    BY <2>2, <2>3 DEF Typed, Shapes
  <2> QED
    BY <1>24, <2>4 DEF MemberLogin, MGoto, author, tables, store, Typed, Shapes
<1>25. ASSUME NEW u \in Members, TakeReceipt(u) PROVE Shapes'
  <2> DEFINE p == Head(moutbox[u])
  <2>1. p.msg \in Msgs /\ p.kind \in Kinds /\ Tail(moutbox[u]) \in Seq(Requests)
    BY <1>25, NextRequest DEF TakeReceipt, Request, Typed
  <2>2. moutbox' \in [Members -> Seq(Requests)]
    BY <1>25, <2>1 DEF TakeReceipt, Request, Typed, Shapes
  <2>3. mcur' \in [Members -> [msg : Msgs, kind : Kinds] \cup {NoReceipt}]
    <3>1. mcur' = mcur \/ mcur' = [mcur EXCEPT ![u] = [msg |-> p.msg, kind |-> p.kind]]
      BY <1>25 DEF TakeReceipt
    <3> HIDE DEF p
    <3>2. mcur \in [Members -> [msg : Msgs, kind : Kinds] \cup {NoReceipt}]
      BY DEF Typed, Shapes
    <3> QED
      BY <2>1, <3>1, <3>2
  <2> QED
    BY <1>25, <2>2, <2>3 DEF TakeReceipt, author, tables, store, Typed, Shapes
<1>26. ASSUME NEW u \in Members, MarkReceipt(u) PROVE Shapes'
  BY <1>26 DEF MarkReceipt, MGoto, author, member, tables, store, Typed, Shapes
<1>27. ASSUME NEW u \in Members, Forward(u) PROVE Shapes'
  <2>1. inbox \in Seq(InPackets) /\ Receipt(u, mcur[u].msg, mcur[u].kind) \in InPackets
    BY <1>27, Rows, InPacketTypes DEF Forward, Typed, TypeOK, Shapes
  <2>2. inbox' = Append(inbox, Receipt(u, mcur[u].msg, mcur[u].kind)) \/ inbox' = inbox
    BY <1>27 DEF Forward
  <2>3. inbox' \in Seq(InPackets)
    BY <2>1, <2>2, AppendElems
  <2>4. mcur' \in [Members -> [msg : Msgs, kind : Kinds] \cup {NoReceipt}]
    BY <1>27 DEF Forward, Typed, Shapes
  <2> QED
    BY <1>27, <2>3, <2>4 DEF Forward, tables, store, Typed, Shapes
<1>28. ASSUME NEW u \in Members, ForwardOffline(u) PROVE Shapes'
  BY <1>28 DEF ForwardOffline, MGoto, author, member, tables, store, Typed, Shapes
<1>29. ASSUME NEW u \in Members, QueueReceipt(u) PROVE Shapes'
  <2> DEFINE e == [from |-> u, msg |-> mcur[u].msg, kind |-> mcur[u].kind, delivered |-> FALSE]
             Q == [from : Members, msg : Msgs, kind : Kinds, delivered : BOOLEAN]
  <2>1. e \in Q /\ queue \in Seq(Q)
    BY <1>29, Rows DEF QueueReceipt, Typed, TypeOK, Shapes
  <2>2. queue' = Append(queue, e) \/ queue' = queue
    BY <1>29 DEF QueueReceipt
  <2>3. queue' \in Seq(Q)
    <3> HIDE DEF e, Q
    <3> QED
      BY <2>1, <2>2, AppendElems
  <2>4. mcur' \in [Members -> [msg : Msgs, kind : Kinds] \cup {NoReceipt}]
    BY <1>29 DEF QueueReceipt, Typed, Shapes
  <2> QED
    BY <1>29, <2>3, <2>4 DEF QueueReceipt, author, store, Typed, Shapes
<1>30. ASSUME NEW u \in Members, SyncGroup(u) PROVE Shapes'
  <2> DEFINE S == {m \in saved : m > Head(moutbox[u]).msg}
  <2>1. PICK s \in Ascending(S) :
          minbox' = IF u \in members THEN [minbox EXCEPT ![u] = @ \o s] ELSE minbox
    BY <1>30 DEF SyncGroup
  <2>2. S \in SUBSET (1..MaxMsgs) /\ MaxMsgs \in Nat
    BY DEF Typed, TypeOK, Msgs
  <2>3. s \in Seq(Msgs)
    <3>2. S \subseteq Msgs
      BY DEF Typed, TypeOK
    <3> HIDE DEF S
    <3>1. s \in Seq(S)
      BY <2>2, AscendingType
    <3> QED
      BY <3>1, <3>2
  <2>4. minbox[u] \o s \in Seq(Msgs)
    <3>1. minbox[u] \in Seq(Msgs)
      BY DEF Typed, Shapes
    <3> QED
      BY <2>3, <3>1, ConcatProperties
  <2>5. minbox' \in [Members -> Seq(Msgs)]
    <3>1. minbox' = minbox \/ minbox' = [minbox EXCEPT ![u] = minbox[u] \o s]
      BY <2>1
    <3> QED
      BY <2>4, <3>1 DEF Typed, Shapes
  <2>6. Tail(moutbox[u]) \in Seq(Requests)
    BY <1>30, NextRequest DEF SyncGroup, Request, Typed
  <2>7. moutbox' \in [Members -> Seq(Requests)]
    BY <1>30, <2>6 DEF SyncGroup, Request, Typed, Shapes
  <2> QED
    BY <1>30, <2>5, <2>7 DEF SyncGroup, author, tables, store, Typed, Shapes
<1>31. ASSUME NEW u \in Members, RemoveMember(u) PROVE Shapes'
  <2>1. Tail(moutbox[u]) \in Seq(Requests)
    BY <1>31, NextRequest DEF RemoveMember, Request, Typed
  <2>2. moutbox' \in [Members -> Seq(Requests)]
    BY <1>31, <2>1 DEF RemoveMember, Request, Typed, Shapes
  <2> QED
    BY <1>31, <2>2 DEF RemoveMember, MGoto, author, store, Typed, Shapes
<1>32. ASSUME NEW u \in Members, DeleteReceipts(u) PROVE Shapes'
  BY <1>32 DEF DeleteReceipts, MGoto, author, member, tables, store, Typed, Shapes
<1>33. ASSUME NEW u \in Members, MemberLeaves(u) PROVE Shapes'
  BY <1>33 DEF MemberLeaves, MGoto, author, member, tables, store, Typed, Shapes
<1>34. CASE UNCHANGED vars
  BY <1>34 DEF vars, author, member, tables, store, Typed, Shapes
<1>35. CASE AuthorReceive
  BY <1>35, <1>8, <1>9, <1>10, <1>11, Received DEF Typed, StatusInv, HonestInv, AccountInv
<1>36. ASSUME MessageFails PROVE Shapes'
  <2>1. outbox \in Seq(Msgs)
    BY DEF Typed, Shapes
  <2>2. outbox' \in Seq(Msgs)
    BY <1>36, <2>1, MessageFailed, TailElems
  <2> QED
    BY <1>36, <2>2 DEF MessageFails, Goto, member, store, Typed, Shapes
<1>37. ASSUME FlushFails PROVE Shapes'
  BY <1>37 DEF FlushFails, Goto, author, member, tables, store, Typed, Shapes
<1>38. ASSUME Crash PROVE Shapes'
  <2>1. minbox' \in [Members -> Seq(Msgs)] /\ moutbox' \in [Members -> Seq(Requests)]
    <3>1. <<>> \in Seq(Msgs) /\ <<>> \in Seq(Requests)
      OBVIOUS
    <3>2. minbox' = [u \in Members |-> <<>>] /\ moutbox' = [u \in Members |-> <<>>]
      BY <1>38 DEF Crash
    <3> QED
      BY <3>1, <3>2
  <2>2. mcur' \in [Members -> [msg : Msgs, kind : Kinds] \cup {NoReceipt}]
    BY <1>38 DEF Crash
  <2> QED
    BY <1>38, <2>1, <2>2, Crashed DEF Typed, Shapes
<1>39. ASSUME NEW u \in Members, RequestFails(u) PROVE Shapes'
  BY <1>39 DEF RequestFails, Request, author, member, tables, store, Typed, Shapes
<1>40. ASSUME NEW u \in Members, HandlerFails(u) PROVE Shapes'
  BY <1>40 DEF HandlerFails, MGoto, author, member, tables, store, Typed, Shapes
<1> QED
  BY <1>1, <1>2, <1>3, <1>4, <1>5, <1>6, <1>7, <1>8, <1>9, <1>10, <1>11, <1>12, <1>13, <1>14,
     <1>15, <1>16, <1>17, <1>18, <1>19, <1>20, <1>21, <1>22, <1>23, <1>24, <1>25, <1>26, <1>27,
     <1>28, <1>29, <1>30, <1>31, <1>32, <1>33, <1>34, <1>35, <1>36, <1>37,
     <1>38, <1>39, <1>40 DEF Next, AuthorStep, MemberStep

\* A dead socket stays empty.
LEMMA DeadStep == Typed /\ [Next]_vars => DeadEnds'
<1> SUFFICES ASSUME Typed, [Next]_vars
             PROVE  DeadEnds'
    OBVIOUS
<1>1. ASSUME NEW m \in Msgs, SendGroupMessage(m) PROVE DeadEnds'
  BY <1>1 DEF SendGroupMessage, author, member, tables, store, Typed, TypeOK, Shapes, DeadEnds
<1>2. ASSUME SaveMessage PROVE DeadEnds'
  BY <1>2 DEF SaveMessage, Goto, author, member, tables, store, Typed, TypeOK, Shapes, DeadEnds
<1>3. ASSUME ListRecipients PROVE DeadEnds'
  BY <1>3 DEF ListRecipients, Goto, author, member, tables, store, Typed, TypeOK, Shapes,
     DeadEnds
<1>4. ASSUME InsertReceiptRows PROVE DeadEnds'
  BY <1>4 DEF InsertReceiptRows, Goto, author, member, tables, store, Typed, TypeOK, Shapes,
     DeadEnds
<1>5. ASSUME FanOut PROVE DeadEnds'
  BY <1>5 DEF FanOut, Goto, author, member, tables, store, Typed, TypeOK, Shapes, DeadEnds
<1>6. ASSUME AckSender PROVE DeadEnds'
  BY <1>6 DEF AckSender, Goto, author, member, tables, store, Typed, TypeOK, Shapes, DeadEnds
<1>7. ASSUME SendGroupInfo PROVE DeadEnds'
  BY <1>7 DEF SendGroupInfo, author, member, tables, store, Typed, TypeOK, Shapes, DeadEnds
<1>8. ASSUME NEW u \in Members, NEW m \in Msgs, NEW k \in Kinds, ReceiptArrives(u, m, k)
      PROVE  DeadEnds'
  BY <1>8 DEF ReceiptArrives, ApplyReceipt, ReadInbox, author, member, tables, store, Typed,
     TypeOK, Shapes, DeadEnds
<1>9. ASSUME NEW m \in Msgs, NEW S \in SUBSET Members, SnapshotArrives(m, S)
      PROVE  DeadEnds'
  BY <1>9 DEF SnapshotArrives, ApplySnapshot, ReadInbox, author, member, tables, store, Typed,
     TypeOK, Shapes, DeadEnds
<1>10. ASSUME NEW S \in SUBSET Members, InfoArrives(S) PROVE DeadEnds'
  BY <1>10 DEF InfoArrives, ApplyInfo, ReadInbox, author, member, tables, store, Typed, TypeOK,
     Shapes, DeadEnds
<1>11. ASSUME LoginArrives PROVE DeadEnds'
  BY <1>11 DEF LoginArrives, ReadInbox, author, member, tables, store, Typed, TypeOK, Shapes,
     DeadEnds
<1>12. ASSUME AuthorDrop PROVE DeadEnds'
  BY <1>12 DEF AuthorDrop, author, member, tables, store, Typed, TypeOK, Shapes, DeadEnds
<1>13. ASSUME AuthorLeaves PROVE DeadEnds'
  BY <1>13 DEF AuthorLeaves, Goto, author, member, tables, store, Typed, TypeOK, Shapes,
     DeadEnds
<1>14. ASSUME AuthorLogin PROVE DeadEnds'
  BY <1>14 DEF AuthorLogin, Goto, author, member, tables, store, Typed, TypeOK, Shapes, DeadEnds
<1>15. ASSUME ReadQueue PROVE DeadEnds'
  BY <1>15 DEF ReadQueue, Goto, author, member, tables, store, Typed, TypeOK, Shapes, DeadEnds
<1>16. ASSUME SendQueued PROVE DeadEnds'
  BY <1>16 DEF SendQueued, Goto, author, member, tables, store, Typed, TypeOK, Shapes, DeadEnds
<1>17. ASSUME MarkQueued PROVE DeadEnds'
  BY <1>17 DEF MarkQueued, Goto, author, member, tables, store, Typed, TypeOK, Shapes, DeadEnds
<1>18. ASSUME AuthorJoins PROVE DeadEnds'
  BY <1>18 DEF AuthorJoins, Goto, author, member, tables, store, Typed, TypeOK, Shapes, DeadEnds
<1>19. ASSUME NEW u \in Members, MemberReceive(u) PROVE DeadEnds'
  BY <1>19 DEF MemberReceive, author, member, tables, store, Typed, TypeOK, Shapes, DeadEnds
<1>20. ASSUME NEW u \in Members, OpenGroup(u) PROVE DeadEnds'
  BY <1>20 DEF OpenGroup, author, member, tables, store, Typed, TypeOK, Shapes, DeadEnds
<1>21. ASSUME NEW u \in Members, AskLeave(u) PROVE DeadEnds'
  BY <1>21 DEF AskLeave, author, member, tables, store, Typed, TypeOK, Shapes, DeadEnds
<1>22. ASSUME NEW u \in Members, MemberDrop(u) PROVE DeadEnds'
  BY <1>22 DEF MemberDrop, author, member, tables, store, Typed, TypeOK, Shapes, DeadEnds
<1>23. ASSUME NEW u \in Members, MemberRestart(u) PROVE DeadEnds'
  BY <1>23 DEF MemberRestart, author, member, tables, store, Typed, TypeOK, Shapes, DeadEnds
<1>24. ASSUME NEW u \in Members, MemberLogin(u) PROVE DeadEnds'
  BY <1>24 DEF MemberLogin, MGoto, author, member, tables, store, Typed, TypeOK, Shapes,
     DeadEnds
<1>25. ASSUME NEW u \in Members, TakeReceipt(u) PROVE DeadEnds'
  BY <1>25 DEF TakeReceipt, MGoto, Request, author, member, tables, store, Typed, TypeOK,
     Shapes, DeadEnds
<1>26. ASSUME NEW u \in Members, MarkReceipt(u) PROVE DeadEnds'
  BY <1>26 DEF MarkReceipt, MGoto, author, member, tables, store, Typed, TypeOK, Shapes,
     DeadEnds
<1>27. ASSUME NEW u \in Members, Forward(u) PROVE DeadEnds'
  BY <1>27 DEF Forward, MGoto, author, member, tables, store, Typed, TypeOK, Shapes, DeadEnds
<1>28. ASSUME NEW u \in Members, ForwardOffline(u) PROVE DeadEnds'
  BY <1>28 DEF ForwardOffline, MGoto, author, member, tables, store, Typed, TypeOK, Shapes,
     DeadEnds
<1>29. ASSUME NEW u \in Members, QueueReceipt(u) PROVE DeadEnds'
  BY <1>29 DEF QueueReceipt, MGoto, author, member, tables, store, Typed, TypeOK, Shapes,
     DeadEnds
<1>30. ASSUME NEW u \in Members, SyncGroup(u) PROVE DeadEnds'
  BY <1>30 DEF SyncGroup, Request, author, member, tables, store, Typed, TypeOK, Shapes,
     DeadEnds
<1>31. ASSUME NEW u \in Members, RemoveMember(u) PROVE DeadEnds'
  BY <1>31 DEF RemoveMember, MGoto, Request, author, member, tables, store, Typed, TypeOK,
     Shapes, DeadEnds
<1>32. ASSUME NEW u \in Members, DeleteReceipts(u) PROVE DeadEnds'
  BY <1>32 DEF DeleteReceipts, MGoto, author, member, tables, store, Typed, TypeOK, Shapes,
     DeadEnds
<1>33. ASSUME NEW u \in Members, MemberLeaves(u) PROVE DeadEnds'
  BY <1>33 DEF MemberLeaves, MGoto, author, member, tables, store, Typed, TypeOK, Shapes,
     DeadEnds
<1>34. CASE UNCHANGED vars
  BY <1>34 DEF vars, author, member, tables, store, Typed, TypeOK, Shapes, DeadEnds
<1>35. CASE AuthorReceive
  BY <1>35, <1>8, <1>9, <1>10, <1>11, Received DEF Typed, StatusInv, HonestInv, AccountInv
<1>36. ASSUME MessageFails PROVE DeadEnds'
  BY <1>36 DEF MessageFails, Goto, author, member, tables, store, Typed, TypeOK, Shapes,
     DeadEnds
<1>37. ASSUME FlushFails PROVE DeadEnds'
  BY <1>37 DEF FlushFails, Goto, author, member, tables, store, Typed, TypeOK, Shapes, DeadEnds
<1>38. ASSUME Crash PROVE DeadEnds'
  BY <1>38 DEF Crash, author, member, tables, store, Typed, TypeOK, Shapes, DeadEnds
<1>39. ASSUME NEW u \in Members, RequestFails(u) PROVE DeadEnds'
  BY <1>39 DEF RequestFails, Request, author, member, tables, store, Typed, TypeOK, Shapes, DeadEnds
<1>40. ASSUME NEW u \in Members, HandlerFails(u) PROVE DeadEnds'
  BY <1>40 DEF HandlerFails, MGoto, author, member, tables, store, Typed, TypeOK, Shapes,
     DeadEnds
<1> QED
  BY <1>1, <1>2, <1>3, <1>4, <1>5, <1>6, <1>7, <1>8, <1>9, <1>10, <1>11, <1>12, <1>13, <1>14,
     <1>15, <1>16, <1>17, <1>18, <1>19, <1>20, <1>21, <1>22, <1>23, <1>24, <1>25, <1>26, <1>27,
     <1>28, <1>29, <1>30, <1>31, <1>32, <1>33, <1>34, <1>35, <1>36, <1>37,
     <1>38, <1>39, <1>40 DEF Next, AuthorStep, MemberStep

\* The types hold at the start.
LEMMA TypedInit == Init => Typed
<1> SUFFICES ASSUME Init PROVE Typed
    OBVIOUS
<1> USE ReceiptConstants
<1>1. TypeOK
  BY DEF Init, TypeOK, Rows, Levels, NoRow, NoReceipt
<1>2. Shapes
  BY DEF Init, Shapes, Levels, NoRow, NoReceipt
<1>3. DeadEnds
  BY DEF Init, DeadEnds
<1> QED
  BY <1>1, <1>2, <1>3 DEF Typed

\* So they always hold.
LEMMA TypedStep == Typed /\ [Next]_vars => Typed'
BY TypeStep, ShapesStep, DeadStep DEF Typed

(***************************************************************************)
(* The variables keep the types of their C++ and SQL counterparts, and the *)
(* unique index of offline_read_receipts holds, whatever the interleaving. *)
(***************************************************************************)
THEOREM ReceiptTypes == Spec => []TypeOK
<1>1. Typed => TypeOK
  BY DEF Typed
<1> QED
  BY <1>1, TypedInit, TypedStep, PTL DEF Spec

-----------------------------------------------------------------------------
(***************************************************************************)
(* Every step but the ACK of a message leaves the snapshots on their way   *)
(* to the author as they are, or takes some away.                          *)
(***************************************************************************)
QuietInbox ==
    \/ inbox' = inbox \/ inbox' = <<>> \/ inbox' = <<LoginAck>>
    \/ inbox # <<>> /\ inbox' = Tail(inbox)
    \/ \E p \in InPackets : p.ts = 0 /\ inbox' = Append(inbox, p)

\* The packets with a timestamp were there before, each in one place.
LEMMA QuietElems ==
    ASSUME Shapes, QuietInbox
    PROVE  /\ \A i \in DOMAIN inbox' : inbox'[i].ts # 0 =>
                \E j \in DOMAIN inbox : inbox[j] = inbox'[i]
           /\ (\A i, j \in DOMAIN inbox : inbox[i].ts # 0 /\ inbox[i].ts = inbox[j].ts => i = j)
                => \A i, j \in DOMAIN inbox' :
                     inbox'[i].ts # 0 /\ inbox'[i].ts = inbox'[j].ts => i = j
<1>1. inbox \in Seq(InPackets)
  BY DEF Shapes
<1>2. CASE inbox' = inbox
  BY <1>2
<1>3. CASE inbox' = <<>>
  BY <1>3
<1>4. CASE inbox' = <<LoginAck>>
  <2>1. \A i \in DOMAIN inbox' : inbox'[i] = LoginAck
    BY <1>4
  <2>2. \A i \in DOMAIN inbox' : inbox'[i].ts = 0
    BY <2>1, DispatchOther
  <2> QED
    BY <2>2
<1>5. CASE inbox # <<>> /\ inbox' = Tail(inbox)
  <2>1. \A i \in DOMAIN inbox' : i \in Nat /\ i + 1 \in DOMAIN inbox /\ inbox'[i] = inbox[i + 1]
    BY <1>1, <1>5, TailElems
  <2>2. ASSUME \A i, j \in DOMAIN inbox : inbox[i].ts # 0 /\ inbox[i].ts = inbox[j].ts => i = j,
               NEW i \in DOMAIN inbox', NEW j \in DOMAIN inbox',
               inbox'[i].ts # 0, inbox'[i].ts = inbox'[j].ts
        PROVE  i = j
    <3>1. i + 1 = j + 1
      BY <2>1, <2>2
    <3> QED
      BY <2>1, <3>1
  <2> QED
    BY <2>1, <2>2
<1>6. ASSUME NEW p \in InPackets, p.ts = 0, inbox' = Append(inbox, p)
      PROVE  /\ \A i \in DOMAIN inbox' : inbox'[i].ts # 0 =>
                  \E j \in DOMAIN inbox : inbox[j] = inbox'[i]
             /\ (\A i, j \in DOMAIN inbox :
                   inbox[i].ts # 0 /\ inbox[i].ts = inbox[j].ts => i = j)
                  => \A i, j \in DOMAIN inbox' :
                       inbox'[i].ts # 0 /\ inbox'[i].ts = inbox'[j].ts => i = j
  <2>1. \A i \in DOMAIN inbox' :
          \/ i \in DOMAIN inbox /\ inbox'[i] = inbox[i]
          \/ inbox'[i] = p
    BY <1>1, <1>6, AppendElems
  <2> QED
    BY <1>6, <2>1
<1> QED
  BY <1>2, <1>3, <1>4, <1>5, <1>6 DEF QuietInbox

\* Only AckSender sends a snapshot.
LEMMA InboxQuiet ==
    Typed /\ [Next]_vars => (QuietInbox \/ (apc = "ack" /\ apc' = "idle"))
<1> SUFFICES ASSUME Typed, [Next]_vars
             PROVE  (QuietInbox \/ (apc = "ack" /\ apc' = "idle"))
    OBVIOUS
<1>1. ASSUME NEW m \in Msgs, SendGroupMessage(m)
      PROVE  (QuietInbox \/ (apc = "ack" /\ apc' = "idle"))
  BY <1>1 DEF SendGroupMessage, author, member, tables, store, QuietInbox
<1>2. ASSUME SaveMessage PROVE (QuietInbox \/ (apc = "ack" /\ apc' = "idle"))
  BY <1>2 DEF SaveMessage, Goto, author, member, tables, store, QuietInbox
<1>3. ASSUME ListRecipients
      PROVE  (QuietInbox \/ (apc = "ack" /\ apc' = "idle"))
  BY <1>3 DEF ListRecipients, Goto, author, member, tables, store, QuietInbox
<1>4. ASSUME InsertReceiptRows
      PROVE  (QuietInbox \/ (apc = "ack" /\ apc' = "idle"))
  BY <1>4 DEF InsertReceiptRows, Goto, author, member, tables, store, QuietInbox
<1>5. ASSUME FanOut PROVE (QuietInbox \/ (apc = "ack" /\ apc' = "idle"))
  BY <1>5 DEF FanOut, Goto, author, member, tables, store, QuietInbox
<1>6. ASSUME AckSender PROVE (QuietInbox \/ (apc = "ack" /\ apc' = "idle"))
  BY <1>6 DEF AckSender, Goto
<1>7. ASSUME SendGroupInfo
      PROVE  (QuietInbox \/ (apc = "ack" /\ apc' = "idle"))
  <2>1. GroupInfo(members) \in InPackets /\ GroupInfo(members).ts = 0
    BY InPacketTypes, DispatchOther DEF Typed, TypeOK
  <2> QED
    BY <1>7, <2>1 DEF SendGroupInfo, QuietInbox
<1>8. ASSUME NEW u \in Members, NEW m \in Msgs, NEW k \in Kinds, ReceiptArrives(u, m, k)
      PROVE  (QuietInbox \/ (apc = "ack" /\ apc' = "idle"))
  BY <1>8 DEF ReceiptArrives, ReadInbox, QuietInbox
<1>9. ASSUME NEW m \in Msgs, NEW S \in SUBSET Members, SnapshotArrives(m, S)
      PROVE  (QuietInbox \/ (apc = "ack" /\ apc' = "idle"))
  BY <1>9 DEF SnapshotArrives, ReadInbox, QuietInbox
<1>10. ASSUME NEW S \in SUBSET Members, InfoArrives(S)
      PROVE  (QuietInbox \/ (apc = "ack" /\ apc' = "idle"))
  BY <1>10 DEF InfoArrives, ReadInbox, QuietInbox
<1>11. ASSUME LoginArrives
      PROVE  (QuietInbox \/ (apc = "ack" /\ apc' = "idle"))
  BY <1>11 DEF LoginArrives, ReadInbox, QuietInbox
<1>12. ASSUME AuthorDrop PROVE (QuietInbox \/ (apc = "ack" /\ apc' = "idle"))
  BY <1>12 DEF AuthorDrop, author, member, tables, store, QuietInbox
<1>13. ASSUME AuthorLeaves
      PROVE  (QuietInbox \/ (apc = "ack" /\ apc' = "idle"))
  BY <1>13 DEF AuthorLeaves, Goto, author, member, tables, store, QuietInbox
<1>14. ASSUME AuthorLogin PROVE (QuietInbox \/ (apc = "ack" /\ apc' = "idle"))
  BY <1>14 DEF AuthorLogin, Goto, author, member, tables, store, QuietInbox
<1>15. ASSUME ReadQueue PROVE (QuietInbox \/ (apc = "ack" /\ apc' = "idle"))
  BY <1>15 DEF ReadQueue, Goto, author, member, tables, store, QuietInbox
<1>16. ASSUME SendQueued PROVE (QuietInbox \/ (apc = "ack" /\ apc' = "idle"))
  <2> DEFINE q == queue[Head(pend)]
  <2>1. Head(pend) \in DOMAIN queue
    <3>1. pend \in Seq(Nat) /\ pend # <<>>
      BY <1>16 DEF SendQueued, Typed, Shapes
    <3> QED
      BY <3>1, TailElems DEF Typed, TypeOK
  <2>2. q.from \in Members /\ q.msg \in Msgs /\ q.kind \in Kinds
    BY <2>1, Rows DEF Typed
  <2> DEFINE p == Receipt(q.from, q.msg, q.kind)
  <2>3. inbox' = inbox \/ inbox' = Append(inbox, p)
    BY <1>16 DEF SendQueued
  <2> HIDE DEF q
  <2>4. p \in InPackets /\ p.ts = 0
    BY <2>2, InPacketTypes, ReceiptFields
  <2> HIDE DEF p
  <2> QED
    BY <2>3, <2>4 DEF QuietInbox
<1>17. ASSUME MarkQueued PROVE (QuietInbox \/ (apc = "ack" /\ apc' = "idle"))
  BY <1>17 DEF MarkQueued, Goto, author, member, tables, store, QuietInbox
<1>18. ASSUME AuthorJoins PROVE (QuietInbox \/ (apc = "ack" /\ apc' = "idle"))
  BY <1>18 DEF AuthorJoins, Goto, author, member, tables, store, QuietInbox
<1>19. ASSUME NEW u \in Members, MemberReceive(u)
      PROVE  (QuietInbox \/ (apc = "ack" /\ apc' = "idle"))
  BY <1>19 DEF MemberReceive, author, member, tables, store, QuietInbox
<1>20. ASSUME NEW u \in Members, OpenGroup(u)
      PROVE  (QuietInbox \/ (apc = "ack" /\ apc' = "idle"))
  BY <1>20 DEF OpenGroup, author, member, tables, store, QuietInbox
<1>21. ASSUME NEW u \in Members, AskLeave(u)
      PROVE  (QuietInbox \/ (apc = "ack" /\ apc' = "idle"))
  BY <1>21 DEF AskLeave, author, member, tables, store, QuietInbox
<1>22. ASSUME NEW u \in Members, MemberDrop(u)
      PROVE  (QuietInbox \/ (apc = "ack" /\ apc' = "idle"))
  BY <1>22 DEF MemberDrop, author, member, tables, store, QuietInbox
<1>23. ASSUME NEW u \in Members, MemberRestart(u)
      PROVE  (QuietInbox \/ (apc = "ack" /\ apc' = "idle"))
  BY <1>23 DEF MemberRestart, author, member, tables, store, QuietInbox
<1>24. ASSUME NEW u \in Members, MemberLogin(u)
      PROVE  (QuietInbox \/ (apc = "ack" /\ apc' = "idle"))
  BY <1>24 DEF MemberLogin, MGoto, author, member, tables, store, QuietInbox
<1>25. ASSUME NEW u \in Members, TakeReceipt(u)
      PROVE  (QuietInbox \/ (apc = "ack" /\ apc' = "idle"))
  BY <1>25 DEF TakeReceipt, MGoto, Request, author, member, tables, store, QuietInbox
<1>26. ASSUME NEW u \in Members, MarkReceipt(u)
      PROVE  (QuietInbox \/ (apc = "ack" /\ apc' = "idle"))
  BY <1>26 DEF MarkReceipt, MGoto, author, member, tables, store, QuietInbox
<1>27. ASSUME NEW u \in Members, Forward(u)
      PROVE  (QuietInbox \/ (apc = "ack" /\ apc' = "idle"))
  <2> DEFINE r == mcur[u]
             p == Receipt(u, r.msg, r.kind)
  <2>1. r.msg \in Msgs /\ r.kind \in Kinds
    BY <1>27, Rows DEF Forward, Typed, TypeOK
  <2>2. inbox' = inbox \/ inbox' = Append(inbox, p)
    BY <1>27 DEF Forward
  <2> HIDE DEF r
  <2>3. p \in InPackets /\ p.ts = 0
    BY <2>1, InPacketTypes, ReceiptFields
  <2> HIDE DEF p
  <2> QED
    BY <2>2, <2>3 DEF QuietInbox
<1>28. ASSUME NEW u \in Members, ForwardOffline(u)
      PROVE  (QuietInbox \/ (apc = "ack" /\ apc' = "idle"))
  BY <1>28 DEF ForwardOffline, MGoto, author, member, tables, store, QuietInbox
<1>29. ASSUME NEW u \in Members, QueueReceipt(u)
      PROVE  (QuietInbox \/ (apc = "ack" /\ apc' = "idle"))
  BY <1>29 DEF QueueReceipt, MGoto, author, member, tables, store, QuietInbox
<1>30. ASSUME NEW u \in Members, SyncGroup(u)
      PROVE  (QuietInbox \/ (apc = "ack" /\ apc' = "idle"))
  BY <1>30 DEF SyncGroup, Request, author, member, tables, store, QuietInbox
<1>31. ASSUME NEW u \in Members, RemoveMember(u)
      PROVE  (QuietInbox \/ (apc = "ack" /\ apc' = "idle"))
  BY <1>31 DEF RemoveMember, MGoto, Request, author, member, tables, store, QuietInbox
<1>32. ASSUME NEW u \in Members, DeleteReceipts(u)
      PROVE  (QuietInbox \/ (apc = "ack" /\ apc' = "idle"))
  BY <1>32 DEF DeleteReceipts, MGoto, author, member, tables, store, QuietInbox
<1>33. ASSUME NEW u \in Members, MemberLeaves(u)
      PROVE  (QuietInbox \/ (apc = "ack" /\ apc' = "idle"))
  BY <1>33 DEF MemberLeaves, MGoto, author, member, tables, store, QuietInbox
<1>34. CASE UNCHANGED vars
  BY <1>34 DEF vars, author, member, tables, store, QuietInbox
<1>35. CASE AuthorReceive
  BY <1>35, <1>8, <1>9, <1>10, <1>11, Received DEF Typed, StatusInv, HonestInv, AccountInv
<1>36. ASSUME MessageFails PROVE (QuietInbox \/ (apc = "ack" /\ apc' = "idle"))
  BY <1>36 DEF MessageFails, Goto, author, member, tables, store, QuietInbox
<1>37. ASSUME FlushFails PROVE (QuietInbox \/ (apc = "ack" /\ apc' = "idle"))
  BY <1>37 DEF FlushFails, Goto, author, member, tables, store, QuietInbox
<1>38. ASSUME Crash PROVE (QuietInbox \/ (apc = "ack" /\ apc' = "idle"))
  BY <1>38 DEF Crash, author, member, tables, store, QuietInbox
<1>39. ASSUME NEW u \in Members, RequestFails(u)
      PROVE  (QuietInbox \/ (apc = "ack" /\ apc' = "idle"))
  BY <1>39 DEF RequestFails, Request, author, member, tables, store, QuietInbox
<1>40. ASSUME NEW u \in Members, HandlerFails(u)
      PROVE  (QuietInbox \/ (apc = "ack" /\ apc' = "idle"))
  BY <1>40 DEF HandlerFails, MGoto, author, member, tables, store, QuietInbox
<1> QED
  BY <1>1, <1>2, <1>3, <1>4, <1>5, <1>6, <1>7, <1>8, <1>9, <1>10, <1>11, <1>12, <1>13, <1>14,
     <1>15, <1>16, <1>17, <1>18, <1>19, <1>20, <1>21, <1>22, <1>23, <1>24, <1>25, <1>26, <1>27,
     <1>28, <1>29, <1>30, <1>31, <1>32, <1>33, <1>34, <1>35, <1>36, <1>37,
     <1>38, <1>39, <1>40 DEF Next, AuthorStep, MemberStep

\* The queues of the author's socket untouched, but for packets without one.
LEMMA PlaceStays ==
    ASSUME Typed, OnePlace, QuietInbox, UNCHANGED <<outbox, cur>>
    PROVE  OnePlace'
<1>1. /\ \A i \in DOMAIN inbox' : inbox'[i].ts # 0 =>
           \E j \in DOMAIN inbox : inbox[j] = inbox'[i]
      /\ \A i, j \in DOMAIN inbox' :
           inbox'[i].ts # 0 /\ inbox'[i].ts = inbox'[j].ts => i = j
  BY QuietElems DEF Typed, OnePlace
<1>2. \A j \in DOMAIN outbox : outbox[j] # 0
  BY ReceiptConstants DEF Typed, Shapes, Msgs
<1>3. \A i \in DOMAIN inbox' : inbox'[i].ts # 0 => inbox'[i].ts # cur
  BY <1>1 DEF OnePlace
<1>4. \A i \in DOMAIN inbox' : \A j \in DOMAIN outbox : inbox'[i].ts # outbox[j]
  BY <1>1, <1>2 DEF OnePlace
<1> QED
  BY <1>1, <1>3, <1>4 DEF OnePlace

\* The same for the tables.
Kept(n) ==
    /\ Blank(n) => Blank(n)'
    /\ NoReceiptRows(n) => NoReceiptRows(n)'
    /\ status'[n] = NoRow => status[n] = NoRow
    /\ (\A u \in Members : local[n][u] = NoRow) => \A u \in Members : local'[n][u] = NoRow

\* What is unanswered stays so.
LEMMA AnswerStays ==
    ASSUME Typed, NotAnswered, QuietInbox, UNCHANGED <<outbox, cur>>,
           apc' \in {"list", "insert"} => apc \in {"list", "insert"},
           \A n \in Msgs : Kept(n)
    PROVE  NotAnswered'
<1>1. \A i \in DOMAIN inbox' : inbox'[i].ts # 0 =>
           \E j \in DOMAIN inbox : inbox[j] = inbox'[i]
  BY QuietElems DEF Typed
<1>2. \A i \in DOMAIN outbox : outbox[i] \in Msgs
  BY DEF Typed, Shapes
<1>3. cur # 0 => cur \in Msgs
  BY DEF Typed, TypeOK
<1>4. \A j \in DOMAIN inbox : inbox[j].ts # 0 => inbox[j].ts \in Msgs
  BY InboxPacket DEF Typed
<1>5. (\A i \in DOMAIN inbox : inbox[i].ts # 0 => Blank(inbox[i].ts))'
  <2> SUFFICES ASSUME NEW i \in DOMAIN inbox', inbox'[i].ts # 0
               PROVE  Blank(inbox[i].ts)'
    OBVIOUS
  <2>1. PICK j \in DOMAIN inbox : inbox[j] = inbox'[i]
    BY <1>1
  <2>2. inbox[j].ts \in Msgs /\ Blank(inbox[j].ts) /\ inbox[j].ts = inbox'[i].ts
    BY <1>4, <2>1 DEF NotAnswered
  <2> DEFINE n == inbox[j].ts
  <2>3. Kept(n)
    BY <2>2
  <2> QED
    BY <2>2, <2>3 DEF Kept, Blank
<1>6. \A m \in Msgs : status'[m] = NoRow =>
         NoReceiptRows(m)' /\ \A u \in Members : local'[m][u] = NoRow
  BY DEF NotAnswered, Kept
<1>7. \A i \in DOMAIN outbox : Blank(outbox[i])' /\ NoReceiptRows(outbox[i])'
  BY <1>2 DEF NotAnswered, Kept
<1>8. cur # 0 => Blank(cur)'
  BY <1>3 DEF NotAnswered, Kept
<1>9. apc' \in {"list", "insert"} => NoReceiptRows(cur)'
  <2>1. apc \in {"list", "insert"} => cur # 0
    BY DEF Typed, TypeOK
  <2> QED
    BY <1>3, <2>1 DEF NotAnswered, Kept
<1> QED
  BY <1>5, <1>6, <1>7, <1>8, <1>9 DEF NotAnswered

\* A message stays in one place.
LEMMA PlaceStep ==
    Typed /\ OnePlace /\ NotAnswered /\ [Next]_vars => OnePlace'
<1> SUFFICES ASSUME Typed, OnePlace, NotAnswered, [Next]_vars
             PROVE  OnePlace'
    OBVIOUS
<1>1. ASSUME NEW m \in Msgs, SendGroupMessage(m) PROVE OnePlace'
  <2>1. outbox \in Seq(Msgs) /\ outbox' = Append(outbox, m) /\ inbox' = inbox /\ cur' = cur
    BY <1>1 DEF SendGroupMessage, Typed, Shapes
  <2>2. \A i \in DOMAIN outbox' : \/ i \in DOMAIN outbox /\ outbox'[i] = outbox[i]
                                  \/ i = Len(outbox) + 1 /\ outbox'[i] = m
    BY <2>1, AppendElems
  <2>3. status[m] = NoRow /\ m # 0 /\ NoRow # Sent
    BY <1>1, ReceiptConstants DEF SendGroupMessage, Msgs, NoRow, Sent
  <2>4. \A i \in DOMAIN outbox : outbox[i] # m
    BY <2>3 DEF NotAnswered, Blank
  <2>5. m # cur
    BY <2>3 DEF NotAnswered, Blank
  <2>6. \A i \in DOMAIN inbox : inbox[i].ts # m
    BY <2>3 DEF NotAnswered, Blank
  <2> QED
    BY <2>1, <2>2, <2>4, <2>5, <2>6 DEF OnePlace
<1>2. ASSUME SaveMessage PROVE OnePlace'
  <2>1. outbox \in Seq(Msgs) /\ outbox # <<>>
    BY <1>2 DEF SaveMessage, Typed, Shapes
  <2>2. outbox' = Tail(outbox) /\ inbox' = inbox /\ cur' = Head(outbox)
    BY <1>2 DEF SaveMessage
  <2>3. /\ \A i \in DOMAIN outbox' : i \in Nat /\ i + 1 \in DOMAIN outbox /\ outbox'[i] = outbox[i + 1]
        /\ Head(outbox) = outbox[1] /\ 1 \in DOMAIN outbox
    BY <2>1, <2>2, TailElems
  <2>4. \A i, j \in DOMAIN outbox' : outbox'[i] = outbox'[j] => i = j
    <3> SUFFICES ASSUME NEW i \in DOMAIN outbox', NEW j \in DOMAIN outbox', outbox'[i] = outbox'[j]
                 PROVE  i = j
      OBVIOUS
    <3>1. i + 1 = j + 1
      BY <2>3 DEF OnePlace
    <3> QED
      BY <2>3, <3>1
  <2>5. \A i \in DOMAIN outbox' : outbox'[i] # cur'
    <3> SUFFICES ASSUME NEW i \in DOMAIN outbox', outbox'[i] = cur'
                 PROVE  FALSE
      OBVIOUS
    <3>1. i + 1 = 1 /\ i \in DOMAIN Tail(outbox)
      BY <2>2, <2>3 DEF OnePlace
    <3> QED
      BY <2>1, <3>1
  <2>6. \A i \in DOMAIN inbox : inbox[i].ts # cur'
    BY <2>2, <2>3 DEF OnePlace
  <2>7. \A i \in DOMAIN inbox : \A j \in DOMAIN outbox' : inbox[i].ts # outbox'[j]
    BY <2>3 DEF OnePlace
  <2> QED
    BY <2>2, <2>4, <2>5, <2>6, <2>7 DEF OnePlace
<1>3. ASSUME ListRecipients PROVE OnePlace'
  BY <1>3, PlaceStays, InboxQuiet DEF ListRecipients, Goto, author, member, tables, store
<1>4. ASSUME InsertReceiptRows PROVE OnePlace'
  BY <1>4, PlaceStays, InboxQuiet DEF InsertReceiptRows, Goto, author, member, tables, store
<1>5. ASSUME FanOut PROVE OnePlace'
  BY <1>5, PlaceStays, InboxQuiet DEF FanOut, Goto, author, member, tables, store
<1>6. ASSUME AckSender PROVE OnePlace'
  <2> DEFINE p == SendAck(cur, snap)
  <2>1. inbox \in Seq(InPackets) /\ p \in InPackets /\ cur \in Msgs /\ cur # 0
    BY <1>6, InPacketTypes DEF AckSender, Typed, TypeOK, Shapes
  <2>2. p.ts = cur
    BY DEF SendAck, Packet
  <2>3. inbox' = Append(inbox, p) \/ inbox' = inbox
    BY <1>6 DEF AckSender
  <2>4. outbox' = outbox /\ cur' = 0
    BY <1>6 DEF AckSender
  <2> HIDE DEF p
  <2>5. \A i \in DOMAIN inbox' : \/ i \in DOMAIN inbox /\ inbox'[i] = inbox[i]
                                 \/ i = Len(inbox) + 1 /\ inbox'[i] = p
    BY <2>1, <2>3, AppendElems
  <2>6. \A i \in DOMAIN inbox : inbox[i].ts # cur
    BY <2>1 DEF OnePlace
  <2>7. \A i \in DOMAIN outbox : outbox[i] # 0
    BY ReceiptConstants DEF Typed, Shapes, Msgs
  <2>8. \A i, j \in DOMAIN inbox' : inbox'[i].ts # 0 /\ inbox'[i].ts = inbox'[j].ts => i = j
    BY <2>2, <2>5, <2>6 DEF OnePlace
  <2>9. \A i \in DOMAIN inbox' : \A j \in DOMAIN outbox : inbox'[i].ts # outbox[j]
    BY <2>2, <2>5 DEF OnePlace
  <2> QED
    BY <2>4, <2>7, <2>8, <2>9 DEF OnePlace
<1>7. ASSUME SendGroupInfo PROVE OnePlace'
  BY <1>7, PlaceStays, InboxQuiet DEF SendGroupInfo, author, member, tables, store
<1>8. ASSUME NEW u \in Members, NEW m \in Msgs, NEW k \in Kinds, ReceiptArrives(u, m, k)
      PROVE  OnePlace'
  BY <1>8, PlaceStays, InboxQuiet DEF ReceiptArrives, ApplyReceipt, ReadInbox, author, member,
     tables, store
<1>9. ASSUME NEW m \in Msgs, NEW S \in SUBSET Members, SnapshotArrives(m, S)
      PROVE  OnePlace'
  BY <1>9, PlaceStays, InboxQuiet DEF SnapshotArrives, ApplySnapshot, ReadInbox, author, member,
     tables, store
<1>10. ASSUME NEW S \in SUBSET Members, InfoArrives(S) PROVE OnePlace'
  BY <1>10, PlaceStays, InboxQuiet DEF InfoArrives, ApplyInfo, ReadInbox, author, member,
     tables, store
<1>11. ASSUME LoginArrives PROVE OnePlace'
  BY <1>11, PlaceStays, InboxQuiet DEF LoginArrives, ReadInbox, author, member, tables, store
<1>12. ASSUME AuthorDrop PROVE OnePlace'
  <2>1. inbox' = <<>> /\ outbox' = <<>>
    BY <1>12 DEF AuthorDrop
  <2> QED
    BY <2>1 DEF OnePlace
<1>13. ASSUME AuthorLeaves PROVE OnePlace'
  BY <1>13, PlaceStays, InboxQuiet DEF AuthorLeaves, Goto, author, member, tables, store
<1>14. ASSUME AuthorLogin PROVE OnePlace'
  BY <1>14, PlaceStays, InboxQuiet DEF AuthorLogin, Goto, author, member, tables, store
<1>15. ASSUME ReadQueue PROVE OnePlace'
  BY <1>15, PlaceStays, InboxQuiet DEF ReadQueue, Goto, author, member, tables, store
<1>16. ASSUME SendQueued PROVE OnePlace'
  BY <1>16, PlaceStays, InboxQuiet DEF SendQueued, Goto, author, member, tables, store
<1>17. ASSUME MarkQueued PROVE OnePlace'
  BY <1>17, PlaceStays, InboxQuiet DEF MarkQueued, Goto, author, member, tables, store
<1>18. ASSUME AuthorJoins PROVE OnePlace'
  BY <1>18, PlaceStays, InboxQuiet DEF AuthorJoins, Goto, author, member, tables, store
<1>19. ASSUME NEW u \in Members, MemberReceive(u) PROVE OnePlace'
  BY <1>19, PlaceStays, InboxQuiet DEF MemberReceive, author, member, tables, store
<1>20. ASSUME NEW u \in Members, OpenGroup(u) PROVE OnePlace'
  BY <1>20, PlaceStays, InboxQuiet DEF OpenGroup, author, member, tables, store
<1>21. ASSUME NEW u \in Members, AskLeave(u) PROVE OnePlace'
  BY <1>21, PlaceStays, InboxQuiet DEF AskLeave, author, member, tables, store
<1>22. ASSUME NEW u \in Members, MemberDrop(u) PROVE OnePlace'
  BY <1>22, PlaceStays, InboxQuiet DEF MemberDrop, author, member, tables, store
<1>23. ASSUME NEW u \in Members, MemberRestart(u) PROVE OnePlace'
  BY <1>23, PlaceStays, InboxQuiet DEF MemberRestart, author, member, tables, store
<1>24. ASSUME NEW u \in Members, MemberLogin(u) PROVE OnePlace'
  BY <1>24, PlaceStays, InboxQuiet DEF MemberLogin, MGoto, author, member, tables, store
<1>25. ASSUME NEW u \in Members, TakeReceipt(u) PROVE OnePlace'
  BY <1>25, PlaceStays, InboxQuiet DEF TakeReceipt, MGoto, Request, author, member, tables,
     store
<1>26. ASSUME NEW u \in Members, MarkReceipt(u) PROVE OnePlace'
  BY <1>26, PlaceStays, InboxQuiet DEF MarkReceipt, MGoto, author, member, tables, store
<1>27. ASSUME NEW u \in Members, Forward(u) PROVE OnePlace'
  BY <1>27, PlaceStays, InboxQuiet DEF Forward, MGoto, author, member, tables, store
<1>28. ASSUME NEW u \in Members, ForwardOffline(u) PROVE OnePlace'
  BY <1>28, PlaceStays, InboxQuiet DEF ForwardOffline, MGoto, author, member, tables, store
<1>29. ASSUME NEW u \in Members, QueueReceipt(u) PROVE OnePlace'
  BY <1>29, PlaceStays, InboxQuiet DEF QueueReceipt, MGoto, author, member, tables, store
<1>30. ASSUME NEW u \in Members, SyncGroup(u) PROVE OnePlace'
  BY <1>30, PlaceStays, InboxQuiet DEF SyncGroup, Request, author, member, tables, store
<1>31. ASSUME NEW u \in Members, RemoveMember(u) PROVE OnePlace'
  BY <1>31, PlaceStays, InboxQuiet DEF RemoveMember, MGoto, Request, author, member, tables,
     store
<1>32. ASSUME NEW u \in Members, DeleteReceipts(u) PROVE OnePlace'
  BY <1>32, PlaceStays, InboxQuiet DEF DeleteReceipts, MGoto, author, member, tables, store
<1>33. ASSUME NEW u \in Members, MemberLeaves(u) PROVE OnePlace'
  BY <1>33, PlaceStays, InboxQuiet DEF MemberLeaves, MGoto, author, member, tables, store
<1>34. CASE UNCHANGED vars
  BY <1>34, PlaceStays, InboxQuiet DEF vars, author, member, tables, store
<1>35. CASE AuthorReceive
  BY <1>35, <1>8, <1>9, <1>10, <1>11, Received DEF Typed, StatusInv, HonestInv, AccountInv
<1>36. ASSUME MessageFails PROVE OnePlace'
  <2>1. outbox \in Seq(Msgs) /\ inbox' = inbox /\ cur' = 0
    BY <1>36, MessageFailed DEF Typed, Shapes
  <2>2. /\ \A i \in DOMAIN outbox' : \E j \in DOMAIN outbox : outbox'[i] = outbox[j]
        /\ \A i, j \in DOMAIN outbox' : outbox'[i] = outbox'[j] => i = j
    <3>1. CASE outbox' = outbox
      BY <3>1 DEF OnePlace
    <3>2. CASE outbox # <<>> /\ outbox' = Tail(outbox)
      <4>1. \A i \in DOMAIN outbox' : i \in Nat /\ i + 1 \in DOMAIN outbox /\ outbox'[i] = outbox[i + 1]
        BY <2>1, <3>2, TailElems
      <4>2. ASSUME NEW i \in DOMAIN outbox', NEW j \in DOMAIN outbox', outbox'[i] = outbox'[j]
            PROVE  i = j
        <5>1. i + 1 = j + 1
          BY <4>1, <4>2 DEF OnePlace
        <5> QED
          BY <4>1, <5>1
      <4> QED
        BY <4>1, <4>2
    <3> QED
      BY <1>36, <3>1, <3>2, MessageFailed
  <2>3. \A i \in DOMAIN outbox : outbox[i] # 0
    BY ReceiptConstants DEF Typed, Shapes, Msgs
  <2> QED
    BY <2>1, <2>2, <2>3 DEF OnePlace
<1>37. ASSUME FlushFails PROVE OnePlace'
  BY <1>37, PlaceStays, InboxQuiet DEF FlushFails, Goto, author, member, tables, store
<1>38. ASSUME Crash PROVE OnePlace'
  BY <1>38, Crashed DEF OnePlace
<1>39. ASSUME NEW u \in Members, RequestFails(u) PROVE OnePlace'
  BY <1>39, PlaceStays, InboxQuiet DEF RequestFails, Request, author, member, tables, store
<1>40. ASSUME NEW u \in Members, HandlerFails(u) PROVE OnePlace'
  BY <1>40, PlaceStays, InboxQuiet DEF HandlerFails, MGoto, author, member, tables, store
<1> QED
  BY <1>1, <1>2, <1>3, <1>4, <1>5, <1>6, <1>7, <1>8, <1>9, <1>10, <1>11, <1>12, <1>13, <1>14,
     <1>15, <1>16, <1>17, <1>18, <1>19, <1>20, <1>21, <1>22, <1>23, <1>24, <1>25, <1>26, <1>27,
     <1>28, <1>29, <1>30, <1>31, <1>32, <1>33, <1>34, <1>35, <1>36, <1>37,
     <1>38, <1>39, <1>40 DEF Next, AuthorStep, MemberStep

\* A message has no row before its answer.
LEMMA AnswerStep ==
    Typed /\ OnePlace /\ NotAnswered /\ [Next]_vars => NotAnswered'
<1> SUFFICES ASSUME Typed, OnePlace, NotAnswered, [Next]_vars
             PROVE  NotAnswered'
    OBVIOUS
<1>1. ASSUME NEW m \in Msgs, SendGroupMessage(m) PROVE NotAnswered'
  <2>1. outbox \in Seq(Msgs) /\ outbox' = Append(outbox, m) /\ inbox' = inbox /\ cur' = cur
    BY <1>1 DEF SendGroupMessage, Typed, Shapes
  <2>2. \A i \in DOMAIN outbox' : (i \in DOMAIN outbox /\ outbox'[i] = outbox[i]) \/ outbox'[i] = m
    BY <2>1, AppendElems
  <2>3. /\ status[m] = NoRow /\ status' = [status EXCEPT ![m] = Sent] /\ NoRow # Sent
        /\ local' = local /\ rows' = rows /\ apc' = apc
    BY <1>1 DEF SendGroupMessage, NoRow, Sent, tables
  <2>4. \A n \in Msgs : status'[n] = (IF n = m THEN Sent ELSE status[n])
    BY <2>3 DEF Typed, TypeOK
  <2>5. Blank(m)' /\ NoReceiptRows(m)'
    BY <2>3, <2>4 DEF NotAnswered, Blank, NoReceiptRows
  <2>6. \A n \in Msgs : /\ Blank(n) => Blank(n)'
                        /\ NoReceiptRows(n) => NoReceiptRows(n)'
                        /\ status'[n] = NoRow => status[n] = NoRow
    BY <2>3, <2>4 DEF Blank, NoReceiptRows
  <2>7. /\ \A i \in DOMAIN outbox : outbox[i] \in Msgs
        /\ \A i \in DOMAIN inbox : inbox[i].ts # 0 => inbox[i].ts \in Msgs
        /\ cur # 0 => cur \in Msgs
        /\ apc \in {"list", "insert"} => cur # 0
    BY InboxPacket DEF Typed, TypeOK, Shapes
  <2>8. (\A i \in DOMAIN outbox : Blank(outbox[i]) /\ NoReceiptRows(outbox[i]))'
    <3> SUFFICES ASSUME NEW i \in DOMAIN outbox'
                 PROVE  Blank(outbox[i])' /\ NoReceiptRows(outbox[i])'
      OBVIOUS
    <3>1. CASE outbox'[i] = m
      BY <2>5, <3>1 DEF Blank, NoReceiptRows
    <3>2. CASE i \in DOMAIN outbox /\ outbox'[i] = outbox[i]
      <4> DEFINE n == outbox[i]
      <4>1. n \in Msgs /\ Blank(n) /\ NoReceiptRows(n)
        BY <2>7, <3>2 DEF NotAnswered
      <4>2. Blank(n)' /\ NoReceiptRows(n)'
        BY <2>3, <2>4, <3>2, <4>1 DEF Blank, NoReceiptRows
      <4> QED
        BY <2>2, <3>2, <4>2 DEF Blank, NoReceiptRows
    <3> QED
      BY <2>2, <3>1, <3>2
  <2>9. (\A i \in DOMAIN inbox : inbox[i].ts # 0 => Blank(inbox[i].ts))'
    BY <2>1, <2>6, <2>7 DEF NotAnswered
  <2>10. cur' # 0 => Blank(cur)'
    BY <2>1, <2>6, <2>7 DEF NotAnswered
  <2>11. apc' \in {"list", "insert"} => NoReceiptRows(cur)'
    BY <2>1, <2>3, <2>6, <2>7 DEF NotAnswered
  <2>12. \A n \in Msgs : status'[n] = NoRow =>
           NoReceiptRows(n)' /\ \A u \in Members : local'[n][u] = NoRow
    BY <2>3, <2>6 DEF NotAnswered
  <2> QED
    BY <2>8, <2>9, <2>10, <2>11, <2>12 DEF NotAnswered
<1>2. ASSUME SaveMessage PROVE NotAnswered'
  <2>1. outbox \in Seq(Msgs) /\ outbox # <<>>
    BY <1>2 DEF SaveMessage, Typed, Shapes
  <2>2. outbox' = Tail(outbox) /\ inbox' = inbox /\ cur' = Head(outbox) /\ UNCHANGED <<status, local, rows>>
    BY <1>2 DEF SaveMessage, store
  <2>3. /\ \A i \in DOMAIN outbox' : i + 1 \in DOMAIN outbox /\ outbox'[i] = outbox[i + 1]
        /\ Head(outbox) = outbox[1] /\ 1 \in DOMAIN outbox
    BY <2>1, <2>2, TailElems
  <2>4. \A n : Blank(n)' = Blank(n) /\ NoReceiptRows(n)' = NoReceiptRows(n)
    BY <2>2 DEF Blank, NoReceiptRows
  <2>5. Blank(cur)' /\ NoReceiptRows(cur)'
    BY <2>2, <2>3 DEF NotAnswered, Blank, NoReceiptRows
  <2>6. (\A i \in DOMAIN outbox : Blank(outbox[i]) /\ NoReceiptRows(outbox[i]))'
    BY <2>2, <2>3 DEF NotAnswered, Blank, NoReceiptRows
  <2> QED
    BY <2>2, <2>5, <2>6 DEF NotAnswered, Blank, NoReceiptRows
<1>3. ASSUME ListRecipients PROVE NotAnswered'
  BY <1>3 DEF ListRecipients, Goto, author, member, tables, store, NotAnswered, Blank,
     NoReceiptRows
<1>4. ASSUME InsertReceiptRows PROVE NotAnswered'
  <2>1. /\ \A n \in Msgs : n # cur => rows'[n] = rows[n]
        /\ UNCHANGED <<status, local, inbox, outbox, cur>> /\ apc' = "fanout" /\ cur # 0
    BY <1>4 DEF InsertReceiptRows, Goto, store, Typed, TypeOK
  <2>2. \A i \in DOMAIN outbox : outbox[i] # cur /\ outbox[i] \in Msgs
    BY DEF OnePlace, Typed, Shapes
  <2>3. \A n \in Msgs : status[n] = NoRow => n # cur
    BY <2>1 DEF NotAnswered, Blank, NoRow, Sent
  <2>4. \A n \in Msgs : n # cur /\ NoReceiptRows(n) => NoReceiptRows(n)'
    BY <2>1 DEF NoReceiptRows
  <2>5. \A n : Blank(n) => Blank(n)'
    BY <2>1 DEF Blank
  <2>6. (\A i \in DOMAIN outbox : Blank(outbox[i]) /\ NoReceiptRows(outbox[i]))'
    BY <2>1, <2>2, <2>4, <2>5 DEF NotAnswered
  <2>7. \A n \in Msgs : status'[n] = NoRow =>
           NoReceiptRows(n)' /\ \A u \in Members : local'[n][u] = NoRow
    BY <2>1, <2>3, <2>4 DEF NotAnswered
  <2> QED
    BY <2>1, <2>5, <2>6, <2>7 DEF NotAnswered
<1>5. ASSUME FanOut PROVE NotAnswered'
  BY <1>5, AnswerStays, InboxQuiet DEF FanOut, Goto, author, member, tables, store, Kept, Blank,
     NoReceiptRows
<1>6. ASSUME AckSender PROVE NotAnswered'
  <2> DEFINE p == SendAck(cur, snap)
  <2>1. inbox \in Seq(InPackets) /\ p \in InPackets /\ cur \in Msgs /\ cur # 0
    BY <1>6, InPacketTypes DEF AckSender, Typed, TypeOK, Shapes
  <2>2. p.ts = cur
    BY DEF SendAck, Packet
  <2>3. inbox' = Append(inbox, p) \/ inbox' = inbox
    BY <1>6 DEF AckSender
  <2>4. /\ outbox' = outbox /\ cur' = 0 /\ UNCHANGED <<status, local, rows>>
        /\ apc' = "idle"
    BY <1>6 DEF AckSender, Goto, store, tables
  <2> HIDE DEF p
  <2>5. \A i \in DOMAIN inbox' : (i \in DOMAIN inbox /\ inbox'[i] = inbox[i]) \/ inbox'[i] = p
    BY <2>1, <2>3, AppendElems
  <2>6. \A i \in DOMAIN inbox' : inbox'[i].ts # 0 => Blank(inbox'[i].ts)
    BY <2>1, <2>2, <2>5 DEF NotAnswered
  <2>7. (\A i \in DOMAIN inbox : inbox[i].ts # 0 => Blank(inbox[i].ts))'
    BY <2>4, <2>6 DEF Blank
  <2> QED
    BY <2>4, <2>7 DEF NotAnswered, Blank, NoReceiptRows
<1>7. ASSUME SendGroupInfo PROVE NotAnswered'
  BY <1>7, AnswerStays, InboxQuiet DEF SendGroupInfo, author, member, tables, store, Kept,
     Blank, NoReceiptRows
<1>8. ASSUME NEW u \in Members, NEW m \in Msgs, NEW k \in Kinds, ReceiptArrives(u, m, k)
      PROVE  NotAnswered'
  <2>1. local \in [Msgs -> [Members -> Levels]] /\ status \in [Msgs -> Levels] /\ rows' = rows
    BY <1>8 DEF ReceiptArrives, ReadInbox, tables, Typed, TypeOK
  <2>2. /\ local' = [local EXCEPT ![m][u] = Raise(@, k)]
        /\ status' = [status EXCEPT ![m] = Recompute(local'[m], @)]
    BY <1>8 DEF ReceiptArrives, ApplyReceipt
  <2>3. \A n \in Msgs, v \in Members : (local'[n][v] = NoRow) <=> (local[n][v] = NoRow)
    BY <2>1, <2>2, RaiseType
  <2>4. \A n \in Msgs : \/ status'[n] = status[n]
                        \/ status'[n] \in Kinds /\ \E v \in Members : local'[n][v] # NoRow
    <3>1. \/ Recompute(local'[m], status[m]) = status[m]
          \/ Recompute(local'[m], status[m]) \in Kinds /\ \E v \in Members : local'[m][v] # NoRow
      BY RecomputeType
    <3>2. status' = [status EXCEPT ![m] = Recompute(local'[m], status[m])]
      BY <2>2
    <3> QED
      BY <2>1, <3>1, <3>2
  <2>5. \A n \in Msgs : Kept(n)
    BY <2>1, <2>3, <2>4 DEF Kept, Blank, NoReceiptRows, Kinds, NoRow, Delivered, Seen
  <2> QED
    BY <1>8, <2>5, AnswerStays, InboxQuiet DEF ReceiptArrives, ReadInbox
<1>9. ASSUME NEW m \in Msgs, NEW S \in SUBSET Members, SnapshotArrives(m, S)
      PROVE  NotAnswered'
  <2>1. local \in [Msgs -> [Members -> Levels]] /\ inbox \in Seq(InPackets) /\ inbox # <<>>
    BY <1>9 DEF SnapshotArrives, ReadInbox, Typed, TypeOK, Shapes
  <2>2. /\ \A n \in Msgs : n # m => local'[n] = local[n]
        /\ UNCHANGED <<status, rows, apc, outbox, cur>> /\ inbox' = Tail(inbox)
    BY <1>9, <2>1 DEF SnapshotArrives, ApplySnapshot, ReadInbox, tables
  <2>3. inbox[1].ts = m /\ m # 0 /\ 1 \in DOMAIN inbox
    <3>1. inbox[1] = SendAck(m, S) /\ 1 \in DOMAIN inbox
      BY <1>9, <2>1, TailElems DEF SnapshotArrives
    <3>2. SendAck(m, S).ts = m
      BY DEF SendAck, Packet
    <3>3. m # 0
      BY ReceiptConstants DEF Msgs
    <3> QED
      BY <3>1, <3>2, <3>3
  <2>4. \A i \in DOMAIN inbox' : i \in Nat \ {0} /\ i + 1 \in DOMAIN inbox /\ inbox'[i] = inbox[i + 1]
    BY <2>1, <2>2, TailElems
  <2>5. \A i \in DOMAIN inbox' : inbox'[i].ts # m
    <3> SUFFICES ASSUME NEW i \in DOMAIN inbox', inbox'[i].ts = m PROVE FALSE
      OBVIOUS
    <3>1. i + 1 = 1 /\ i \in Nat \ {0}
      BY <2>3, <2>4 DEF OnePlace
    <3> QED
      BY <3>1
  <2>6. m # cur /\ \A i \in DOMAIN outbox : outbox[i] # m
    BY <2>3 DEF OnePlace
  <2>7. /\ \A i \in DOMAIN outbox : outbox[i] \in Msgs
        /\ \A i \in DOMAIN inbox : inbox[i].ts # 0 => inbox[i].ts \in Msgs
        /\ cur # 0 => cur \in Msgs
        /\ apc \in {"list", "insert"} => cur # 0
    BY InboxPacket DEF Typed, TypeOK, Shapes
  <2>8. \A n \in Msgs : n # m /\ Blank(n) => Blank(n)'
    BY <2>2 DEF Blank
  <2>9. (\A i \in DOMAIN inbox : inbox[i].ts # 0 => Blank(inbox[i].ts))'
    <3> SUFFICES ASSUME NEW i \in DOMAIN inbox', inbox'[i].ts # 0
                 PROVE  Blank(inbox[i].ts)'
      OBVIOUS
    <3> DEFINE n == inbox[i + 1].ts
    <3>1. inbox'[i].ts = n /\ n \in Msgs /\ n # m /\ Blank(n)
      BY <2>4, <2>5, <2>7 DEF NotAnswered
    <3> QED
      BY <2>2, <3>1 DEF Blank
  <2>10. (\A i \in DOMAIN outbox : Blank(outbox[i]) /\ NoReceiptRows(outbox[i]))'
    BY <2>2, <2>6, <2>7 DEF NotAnswered, Blank, NoReceiptRows
  <2>11. /\ cur' # 0 => Blank(cur)'
         /\ apc' \in {"list", "insert"} => NoReceiptRows(cur)'
    BY <2>2, <2>6, <2>7 DEF NotAnswered, Blank, NoReceiptRows
  <2>12. status[m] = Sent
    BY <2>3 DEF NotAnswered, Blank
  <2>13. \A n \in Msgs : status'[n] = NoRow =>
           NoReceiptRows(n)' /\ \A u \in Members : local'[n][u] = NoRow
    BY <2>2, <2>12 DEF NotAnswered, NoReceiptRows, NoRow, Sent
  <2> QED
    BY <2>9, <2>10, <2>11, <2>13 DEF NotAnswered
<1>10. ASSUME NEW S \in SUBSET Members, InfoArrives(S) PROVE NotAnswered'
  <2>1. local \in [Msgs -> [Members -> Levels]] /\ status \in [Msgs -> Levels] /\ rows' = rows
    BY <1>10 DEF InfoArrives, ReadInbox, tables, Typed, TypeOK
  <2>2. \A n \in Msgs, v \in Members : local[n][v] = NoRow => local'[n][v] = NoRow
    BY <1>10 DEF InfoArrives, ApplyInfo
  <2>3. \A n \in Msgs : \/ status'[n] = status[n]
                        \/ /\ status'[n] = Recompute(local'[n], status[n])
                           /\ \E v \in Members : local[n][v] # NoRow
    BY <1>10 DEF InfoArrives, ApplyInfo
  <2>4. \A n \in Msgs : status'[n] = status[n] \/ status'[n] \in Kinds
    BY <2>3, RecomputeType
  <2>5. \A n \in Msgs : Kept(n)
    BY <2>1, <2>2, <2>3, <2>4 DEF Kept, Blank, NoReceiptRows, Kinds, NoRow, Delivered, Seen
  <2> QED
    BY <1>10, <2>5, AnswerStays, InboxQuiet DEF InfoArrives, ReadInbox
<1>11. ASSUME LoginArrives PROVE NotAnswered'
  BY <1>11, AnswerStays, InboxQuiet DEF LoginArrives, ReadInbox, author, member, tables, store,
     Kept, Blank, NoReceiptRows
<1>12. ASSUME AuthorDrop PROVE NotAnswered'
  <2>1. inbox' = <<>> /\ outbox' = <<>>
    BY <1>12 DEF AuthorDrop
  <2>2. DOMAIN inbox' = {} /\ DOMAIN outbox' = {}
    BY <2>1
  <2> QED
    BY <1>12, <2>1, <2>2 DEF AuthorDrop, store, tables, NotAnswered, Blank, NoReceiptRows
<1>13. ASSUME AuthorLeaves PROVE NotAnswered'
  BY <1>13, AnswerStays, InboxQuiet DEF AuthorLeaves, Goto, author, member, tables, store, Kept,
     Blank, NoReceiptRows
<1>14. ASSUME AuthorLogin PROVE NotAnswered'
  BY <1>14, AnswerStays, InboxQuiet DEF AuthorLogin, Goto, author, member, tables, store, Kept,
     Blank, NoReceiptRows
<1>15. ASSUME ReadQueue PROVE NotAnswered'
  BY <1>15, AnswerStays, InboxQuiet DEF ReadQueue, Goto, author, member, tables, store, Kept,
     Blank, NoReceiptRows
<1>16. ASSUME SendQueued PROVE NotAnswered'
  BY <1>16, AnswerStays, InboxQuiet DEF SendQueued, Goto, author, member, tables, store, Kept,
     Blank, NoReceiptRows
<1>17. ASSUME MarkQueued PROVE NotAnswered'
  BY <1>17, AnswerStays, InboxQuiet DEF MarkQueued, Goto, author, member, tables, store, Kept,
     Blank, NoReceiptRows
<1>18. ASSUME AuthorJoins PROVE NotAnswered'
  BY <1>18, AnswerStays, InboxQuiet DEF AuthorJoins, Goto, author, member, tables, store, Kept,
     Blank, NoReceiptRows
<1>19. ASSUME NEW u \in Members, MemberReceive(u) PROVE NotAnswered'
  BY <1>19, AnswerStays, InboxQuiet DEF MemberReceive, author, member, tables, store, Kept,
     Blank, NoReceiptRows
<1>20. ASSUME NEW u \in Members, OpenGroup(u) PROVE NotAnswered'
  BY <1>20, AnswerStays, InboxQuiet DEF OpenGroup, author, member, tables, store, Kept, Blank,
     NoReceiptRows
<1>21. ASSUME NEW u \in Members, AskLeave(u) PROVE NotAnswered'
  BY <1>21, AnswerStays, InboxQuiet DEF AskLeave, author, member, tables, store, Kept, Blank,
     NoReceiptRows
<1>22. ASSUME NEW u \in Members, MemberDrop(u) PROVE NotAnswered'
  BY <1>22, AnswerStays, InboxQuiet DEF MemberDrop, author, member, tables, store, Kept, Blank,
     NoReceiptRows
<1>23. ASSUME NEW u \in Members, MemberRestart(u) PROVE NotAnswered'
  BY <1>23, AnswerStays, InboxQuiet DEF MemberRestart, author, member, tables, store, Kept,
     Blank, NoReceiptRows
<1>24. ASSUME NEW u \in Members, MemberLogin(u) PROVE NotAnswered'
  BY <1>24, AnswerStays, InboxQuiet DEF MemberLogin, MGoto, author, member, tables, store, Kept,
     Blank, NoReceiptRows
<1>25. ASSUME NEW u \in Members, TakeReceipt(u) PROVE NotAnswered'
  BY <1>25, AnswerStays, InboxQuiet DEF TakeReceipt, MGoto, Request, author, member, tables,
     store, Kept, Blank, NoReceiptRows
<1>26. ASSUME NEW u \in Members, MarkReceipt(u) PROVE NotAnswered'
  <2>1. mcur[u].msg \in Msgs /\ mcur[u].kind \in Kinds
    BY <1>26, Rows DEF MarkReceipt, Typed, TypeOK
  <2>2. rows \in [Msgs -> [Members -> Levels]] /\ rows' = [rows EXCEPT ![mcur[u].msg][u] = Raise(@, mcur[u].kind)]
    BY <1>26 DEF MarkReceipt, Typed, TypeOK
  <2>3. \A n \in Msgs, v \in Members : (rows'[n][v] = NoRow) <=> (rows[n][v] = NoRow)
    BY <2>1, <2>2, RaiseType
  <2>4. \A n \in Msgs : Kept(n)
    BY <1>26, <2>3 DEF MarkReceipt, store, Kept, Blank, NoReceiptRows
  <2> QED
    BY <1>26, <2>4, AnswerStays, InboxQuiet DEF MarkReceipt, author
<1>27. ASSUME NEW u \in Members, Forward(u) PROVE NotAnswered'
  BY <1>27, AnswerStays, InboxQuiet DEF Forward, MGoto, author, member, tables, store, Kept,
     Blank, NoReceiptRows
<1>28. ASSUME NEW u \in Members, ForwardOffline(u) PROVE NotAnswered'
  BY <1>28, AnswerStays, InboxQuiet DEF ForwardOffline, MGoto, author, member, tables, store,
     Kept, Blank, NoReceiptRows
<1>29. ASSUME NEW u \in Members, QueueReceipt(u) PROVE NotAnswered'
  BY <1>29, AnswerStays, InboxQuiet DEF QueueReceipt, MGoto, author, member, tables, store,
     Kept, Blank, NoReceiptRows
<1>30. ASSUME NEW u \in Members, SyncGroup(u) PROVE NotAnswered'
  BY <1>30, AnswerStays, InboxQuiet DEF SyncGroup, Request, author, member, tables, store, Kept,
     Blank, NoReceiptRows
<1>31. ASSUME NEW u \in Members, RemoveMember(u) PROVE NotAnswered'
  BY <1>31, AnswerStays, InboxQuiet DEF RemoveMember, MGoto, Request, author, member, tables,
     store, Kept, Blank, NoReceiptRows
<1>32. ASSUME NEW u \in Members, DeleteReceipts(u) PROVE NotAnswered'
  <2>1. \A n \in Msgs : Kept(n)
    BY <1>32 DEF DeleteReceipts, store, Typed, TypeOK, Kept, Blank, NoReceiptRows
  <2> QED
    BY <1>32, <2>1, AnswerStays, InboxQuiet DEF DeleteReceipts, author
<1>33. ASSUME NEW u \in Members, MemberLeaves(u) PROVE NotAnswered'
  BY <1>33, AnswerStays, InboxQuiet DEF MemberLeaves, MGoto, author, member, tables, store,
     Kept, Blank, NoReceiptRows
<1>34. CASE UNCHANGED vars
  BY <1>34, AnswerStays, InboxQuiet DEF vars, author, member, tables, store, Kept, Blank,
     NoReceiptRows
<1>35. CASE AuthorReceive
  BY <1>35, <1>8, <1>9, <1>10, <1>11, Received DEF Typed, StatusInv, HonestInv, AccountInv
<1>36. ASSUME MessageFails PROVE NotAnswered'
  <2>1. /\ outbox \in Seq(Msgs) /\ cur' = 0 /\ apc' = "idle"
        /\ UNCHANGED <<inbox, status, local>>
    BY <1>36, MessageFailed DEF Typed, Shapes
  <2>2. \A i \in DOMAIN outbox' : \E j \in DOMAIN outbox : outbox'[i] = outbox[j]
    <3>1. CASE outbox' = outbox
      BY <3>1
    <3>2. CASE outbox # <<>> /\ outbox' = Tail(outbox)
      BY <2>1, <3>2, TailElems
    <3> QED
      BY <1>36, <3>1, <3>2, MessageFailed
  <2>3. \A n : Blank(n) => Blank(n)'
    BY <2>1 DEF Blank
  <2>4. \A n \in Msgs : n # cur \/ cur = 0 \/ apc # "insert" => rows'[n] = rows[n]
    <3>1. apc = "insert" => cur # 0
      BY DEF Typed, TypeOK
    <3>2. CASE rows' = rows
      BY <3>2
    <3>3. ASSUME apc = "insert",
                 NEW S \in SUBSET snap,
                 rows' = [rows EXCEPT ![cur] = [u \in Members |->
                            IF u \in S /\ @[u] = NoRow THEN Sent ELSE @[u]]]
          PROVE  \A n \in Msgs : n # cur \/ cur = 0 \/ apc # "insert" => rows'[n] = rows[n]
      BY <3>1, <3>3 DEF Typed, TypeOK
    <3> QED
      BY <1>36, <3>2, <3>3, MessageFailed
  <2>5. \A i \in DOMAIN outbox : outbox[i] # cur /\ outbox[i] \in Msgs
    BY DEF OnePlace, Typed, Shapes
  <2>6. (\A i \in DOMAIN outbox : Blank(outbox[i]) /\ NoReceiptRows(outbox[i]))'
    <3> SUFFICES ASSUME NEW i \in DOMAIN outbox'
                 PROVE  Blank(outbox[i])' /\ NoReceiptRows(outbox[i])'
      OBVIOUS
    <3>1. PICK j \in DOMAIN outbox : outbox'[i] = outbox[j]
      BY <2>2
    <3>2. Blank(outbox[j]) /\ NoReceiptRows(outbox[j]) /\ rows'[outbox[j]] = rows[outbox[j]]
      BY <2>4, <2>5 DEF NotAnswered
    <3> QED
      BY <2>1, <3>1, <3>2 DEF Blank, NoReceiptRows
  <2>7. ASSUME NEW n \in Msgs, status'[n] = NoRow
        PROVE  NoReceiptRows(n)' /\ \A u \in Members : local'[n][u] = NoRow
    <3>1. status[n] = NoRow
      BY <2>1, <2>7
    <3>2. n # cur \/ cur = 0
      BY <3>1 DEF NotAnswered, Blank, NoRow, Sent
    <3>3. rows'[n] = rows[n]
      BY <2>4, <3>2
    <3> QED
      BY <2>1, <3>1, <3>3 DEF NotAnswered, NoReceiptRows
  <2>8. (\A i \in DOMAIN inbox : inbox[i].ts # 0 => Blank(inbox[i].ts))'
    BY <2>1, <2>3 DEF NotAnswered, Blank
  <2> QED
    BY <2>1, <2>6, <2>7, <2>8 DEF NotAnswered
<1>37. ASSUME FlushFails PROVE NotAnswered'
  BY <1>37, AnswerStays, InboxQuiet DEF FlushFails, Goto, author, member, tables, store, Kept,
     Blank, NoReceiptRows
<1>38. ASSUME Crash PROVE NotAnswered'
  BY <1>38, Crashed DEF NotAnswered, NoReceiptRows
<1>39. ASSUME NEW u \in Members, RequestFails(u) PROVE NotAnswered'
  BY <1>39, AnswerStays, InboxQuiet DEF RequestFails, Request, author, member, tables, store, Kept,
     Blank, NoReceiptRows
<1>40. ASSUME NEW u \in Members, HandlerFails(u) PROVE NotAnswered'
  BY <1>40, AnswerStays, InboxQuiet DEF HandlerFails, MGoto, author, member, tables, store,
     Kept, Blank, NoReceiptRows
<1> QED
  BY <1>1, <1>2, <1>3, <1>4, <1>5, <1>6, <1>7, <1>8, <1>9, <1>10, <1>11, <1>12, <1>13, <1>14,
     <1>15, <1>16, <1>17, <1>18, <1>19, <1>20, <1>21, <1>22, <1>23, <1>24, <1>25, <1>26, <1>27,
     <1>28, <1>29, <1>30, <1>31, <1>32, <1>33, <1>34, <1>35, <1>36, <1>37,
     <1>38, <1>39, <1>40 DEF Next, AuthorStep, MemberStep

-----------------------------------------------------------------------------
\* The GROUP_INFOs on their way are the ones that were, or name everybody.
InfoComplete ==
    \A i \in DOMAIN inbox' : inbox'[i].type = "GROUP_INFO" =>
        (\E j \in DOMAIN inbox : inbox[j] = inbox'[i]) \/ members \subseteq inbox'[i].key

\* A packet more, and a packet less.
LEMMA InfoAppend ==
    ASSUME Shapes, NEW p \in InPackets, inbox' = Append(inbox, p) \/ inbox' = inbox,
           p.type = "GROUP_INFO" => members \subseteq p.key
    PROVE  InfoComplete
<1>1. inbox \in Seq(InPackets)
  BY DEF Shapes
<1>2. \A i \in DOMAIN inbox' : (i \in DOMAIN inbox /\ inbox'[i] = inbox[i]) \/ inbox'[i] = p
  BY <1>1, AppendElems
<1> QED
  BY <1>2 DEF InfoComplete

\* A packet less.
LEMMA InfoTail ==
    ASSUME Shapes, inbox # <<>>, inbox' = Tail(inbox)
    PROVE  InfoComplete
<1>1. inbox \in Seq(InPackets)
  BY DEF Shapes
<1>2. \A i \in DOMAIN inbox' : i + 1 \in DOMAIN inbox /\ inbox'[i] = inbox[i + 1]
  BY <1>1, TailElems
<1> QED
  BY <1>2 DEF InfoComplete

\* A GROUP_INFO names the members of its time.
LEMMA InfoStep == Typed /\ [Next]_vars => InfoComplete
<1> SUFFICES ASSUME Typed, [Next]_vars
             PROVE  InfoComplete
    OBVIOUS
<1>1. ASSUME NEW m \in Msgs, SendGroupMessage(m) PROVE InfoComplete
  BY <1>1 DEF SendGroupMessage, author, member, tables, store, InfoComplete
<1>2. ASSUME SaveMessage PROVE InfoComplete
  BY <1>2 DEF SaveMessage, Goto, author, member, tables, store, InfoComplete
<1>3. ASSUME ListRecipients PROVE InfoComplete
  BY <1>3 DEF ListRecipients, Goto, author, member, tables, store, InfoComplete
<1>4. ASSUME InsertReceiptRows PROVE InfoComplete
  BY <1>4 DEF InsertReceiptRows, Goto, author, member, tables, store, InfoComplete
<1>5. ASSUME FanOut PROVE InfoComplete
  BY <1>5 DEF FanOut, Goto, author, member, tables, store, InfoComplete
<1>6. ASSUME AckSender PROVE InfoComplete
  <2> DEFINE p == SendAck(cur, snap)
  <2>1. p \in InPackets
    BY <1>6, InPacketTypes DEF AckSender, Typed, TypeOK
  <2>2. p.type = "ACK"
    BY DEF SendAck, Packet
  <2>3. inbox' = Append(inbox, p) \/ inbox' = inbox
    BY <1>6 DEF AckSender
  <2> HIDE DEF p
  <2> QED
    BY <2>1, <2>2, <2>3, InfoAppend DEF Typed
<1>7. ASSUME SendGroupInfo PROVE InfoComplete
  <2>1. GroupInfo(members) \in InPackets /\ GroupInfo(members).key = members
    BY InPacketTypes, DispatchOther DEF Typed, TypeOK
  <2> QED
    BY <1>7, <2>1, InfoAppend DEF SendGroupInfo, Typed
<1>8. ASSUME NEW u \in Members, NEW m \in Msgs, NEW k \in Kinds, ReceiptArrives(u, m, k)
      PROVE  InfoComplete
  BY <1>8, InfoTail DEF ReceiptArrives, ReadInbox, Typed
<1>9. ASSUME NEW m \in Msgs, NEW S \in SUBSET Members, SnapshotArrives(m, S)
      PROVE  InfoComplete
  BY <1>9, InfoTail DEF SnapshotArrives, ReadInbox, Typed
<1>10. ASSUME NEW S \in SUBSET Members, InfoArrives(S) PROVE InfoComplete
  BY <1>10, InfoTail DEF InfoArrives, ReadInbox, Typed
<1>11. ASSUME LoginArrives PROVE InfoComplete
  BY <1>11, InfoTail DEF LoginArrives, ReadInbox, Typed
<1>12. ASSUME AuthorDrop PROVE InfoComplete
  <2>1. inbox' = <<>>
    BY <1>12 DEF AuthorDrop
  <2>2. DOMAIN inbox' = {}
    BY <2>1
  <2> QED
    BY <2>2 DEF InfoComplete
<1>13. ASSUME AuthorLeaves PROVE InfoComplete
  BY <1>13 DEF AuthorLeaves, Goto, author, member, tables, store, InfoComplete
<1>14. ASSUME AuthorLogin PROVE InfoComplete
  <2>1. \A i \in DOMAIN inbox' : inbox'[i] = LoginAck
    BY <1>14 DEF AuthorLogin
  <2> QED
    BY <2>1, DispatchOther DEF InfoComplete
<1>15. ASSUME ReadQueue PROVE InfoComplete
  BY <1>15 DEF ReadQueue, Goto, author, member, tables, store, InfoComplete
<1>16. ASSUME SendQueued PROVE InfoComplete
  <2> DEFINE q == queue[Head(pend)]
  <2>1. Head(pend) \in DOMAIN queue
    <3>1. pend \in Seq(Nat) /\ pend # <<>>
      BY <1>16 DEF SendQueued, Typed, Shapes
    <3> QED
      BY <3>1, TailElems DEF Typed, TypeOK
  <2>2. q.from \in Members /\ q.msg \in Msgs /\ q.kind \in Kinds
    BY <2>1, Rows DEF Typed
  <2> DEFINE p == Receipt(q.from, q.msg, q.kind)
  <2>3. inbox' = inbox \/ inbox' = Append(inbox, p)
    BY <1>16 DEF SendQueued
  <2> HIDE DEF q
  <2>4. p \in InPackets /\ p.type # "GROUP_INFO"
    BY <2>2, InPacketTypes, ReceiptFields
  <2> HIDE DEF p
  <2> QED
    BY <2>3, <2>4, InfoAppend DEF Typed
<1>17. ASSUME MarkQueued PROVE InfoComplete
  BY <1>17 DEF MarkQueued, Goto, author, member, tables, store, InfoComplete
<1>18. ASSUME AuthorJoins PROVE InfoComplete
  BY <1>18 DEF AuthorJoins, Goto, author, member, tables, store, InfoComplete
<1>19. ASSUME NEW u \in Members, MemberReceive(u) PROVE InfoComplete
  BY <1>19 DEF MemberReceive, author, member, tables, store, InfoComplete
<1>20. ASSUME NEW u \in Members, OpenGroup(u) PROVE InfoComplete
  BY <1>20 DEF OpenGroup, author, member, tables, store, InfoComplete
<1>21. ASSUME NEW u \in Members, AskLeave(u) PROVE InfoComplete
  BY <1>21 DEF AskLeave, author, member, tables, store, InfoComplete
<1>22. ASSUME NEW u \in Members, MemberDrop(u) PROVE InfoComplete
  BY <1>22 DEF MemberDrop, author, member, tables, store, InfoComplete
<1>23. ASSUME NEW u \in Members, MemberRestart(u) PROVE InfoComplete
  BY <1>23 DEF MemberRestart, author, member, tables, store, InfoComplete
<1>24. ASSUME NEW u \in Members, MemberLogin(u) PROVE InfoComplete
  BY <1>24 DEF MemberLogin, MGoto, author, member, tables, store, InfoComplete
<1>25. ASSUME NEW u \in Members, TakeReceipt(u) PROVE InfoComplete
  BY <1>25 DEF TakeReceipt, MGoto, Request, author, member, tables, store, InfoComplete
<1>26. ASSUME NEW u \in Members, MarkReceipt(u) PROVE InfoComplete
  BY <1>26 DEF MarkReceipt, MGoto, author, member, tables, store, InfoComplete
<1>27. ASSUME NEW u \in Members, Forward(u) PROVE InfoComplete
  <2> DEFINE r == mcur[u]
             p == Receipt(u, r.msg, r.kind)
  <2>1. r.msg \in Msgs /\ r.kind \in Kinds
    BY <1>27, Rows DEF Forward, Typed, TypeOK
  <2>2. inbox' = inbox \/ inbox' = Append(inbox, p)
    BY <1>27 DEF Forward
  <2> HIDE DEF r
  <2>3. p \in InPackets /\ p.type # "GROUP_INFO"
    BY <2>1, InPacketTypes, ReceiptFields
  <2> HIDE DEF p
  <2> QED
    BY <2>2, <2>3, InfoAppend DEF Typed
<1>28. ASSUME NEW u \in Members, ForwardOffline(u) PROVE InfoComplete
  BY <1>28 DEF ForwardOffline, MGoto, author, member, tables, store, InfoComplete
<1>29. ASSUME NEW u \in Members, QueueReceipt(u) PROVE InfoComplete
  BY <1>29 DEF QueueReceipt, MGoto, author, member, tables, store, InfoComplete
<1>30. ASSUME NEW u \in Members, SyncGroup(u) PROVE InfoComplete
  BY <1>30 DEF SyncGroup, Request, author, member, tables, store, InfoComplete
<1>31. ASSUME NEW u \in Members, RemoveMember(u) PROVE InfoComplete
  BY <1>31 DEF RemoveMember, MGoto, Request, author, member, tables, store, InfoComplete
<1>32. ASSUME NEW u \in Members, DeleteReceipts(u) PROVE InfoComplete
  BY <1>32 DEF DeleteReceipts, MGoto, author, member, tables, store, InfoComplete
<1>33. ASSUME NEW u \in Members, MemberLeaves(u) PROVE InfoComplete
  BY <1>33 DEF MemberLeaves, MGoto, author, member, tables, store, InfoComplete
<1>34. CASE UNCHANGED vars
  BY <1>34 DEF vars, author, member, tables, store, InfoComplete
<1>35. CASE AuthorReceive
  BY <1>35, <1>8, <1>9, <1>10, <1>11, Received DEF Typed, StatusInv, HonestInv, AccountInv
<1>36. ASSUME MessageFails PROVE InfoComplete
  BY <1>36 DEF MessageFails, Goto, author, member, tables, store, InfoComplete
<1>37. ASSUME FlushFails PROVE InfoComplete
  BY <1>37 DEF FlushFails, Goto, author, member, tables, store, InfoComplete
<1>38. ASSUME Crash PROVE InfoComplete
  BY <1>38, Crashed DEF InfoComplete
<1>39. ASSUME NEW u \in Members, RequestFails(u) PROVE InfoComplete
  BY <1>39 DEF RequestFails, Request, author, member, tables, store, InfoComplete
<1>40. ASSUME NEW u \in Members, HandlerFails(u) PROVE InfoComplete
  BY <1>40 DEF HandlerFails, MGoto, author, member, tables, store, InfoComplete
<1> QED
  BY <1>1, <1>2, <1>3, <1>4, <1>5, <1>6, <1>7, <1>8, <1>9, <1>10, <1>11, <1>12, <1>13, <1>14,
     <1>15, <1>16, <1>17, <1>18, <1>19, <1>20, <1>21, <1>22, <1>23, <1>24, <1>25, <1>26, <1>27,
     <1>28, <1>29, <1>30, <1>31, <1>32, <1>33, <1>34, <1>35, <1>36, <1>37,
     <1>38, <1>39, <1>40 DEF Next, AuthorStep, MemberStep

\* A step that makes no row and takes none of a member's away.
Held(n) ==
    /\ \A u \in members' : rows'[n][u] # NoRow => rows[n][u] # NoRow
    /\ \A u \in members' : local[n][u] # NoRow => local'[n][u] # NoRow
    /\ (status'[n] \in Kinds \/ \E u \in Members : local'[n][u] # NoRow)
         => (status[n] \in Kinds \/ \E u \in Members : local[n][u] # NoRow)

\* Such a step keeps the snapshots complete.
LEMMA CompleteStays ==
    ASSUME Typed, SnapshotComplete, QuietInbox, InfoComplete, UNCHANGED <<cur, snap>>,
           apc' \in {"fanout", "ack"} => apc \in {"fanout", "ack"},
           members' \subseteq members, \A n \in Msgs : Held(n)
    PROVE  SnapshotComplete'
<1>1. \A i \in DOMAIN inbox' : inbox'[i].ts # 0 =>
           \E j \in DOMAIN inbox : inbox[j] = inbox'[i]
  BY QuietElems DEF Typed
<1>2. \A i \in DOMAIN inbox : inbox[i].ts # 0 => inbox[i].ts \in Msgs
  BY InboxPacket DEF Typed
<1>3. \A i \in DOMAIN inbox' : inbox'[i].ts # 0 =>
         \A u \in members' : rows'[inbox'[i].ts][u] # NoRow => u \in inbox'[i].key
  <2> SUFFICES ASSUME NEW i \in DOMAIN inbox', inbox'[i].ts # 0, NEW u \in members',
                      rows'[inbox'[i].ts][u] # NoRow
               PROVE  u \in inbox'[i].key
    OBVIOUS
  <2>1. PICK j \in DOMAIN inbox : inbox[j] = inbox'[i]
    BY <1>1
  <2>2. inbox[j].ts \in Msgs /\ rows[inbox[j].ts][u] # NoRow /\ u \in members
    BY <1>2, <2>1 DEF Held
  <2> QED
    BY <2>1, <2>2 DEF SnapshotComplete
<1>4. \A i \in DOMAIN inbox' : inbox'[i].type = "GROUP_INFO" => members' \subseteq inbox'[i].key
  BY DEF InfoComplete, SnapshotComplete
<1>5. apc' \in {"fanout", "ack"} => \A u \in members' : rows'[cur'][u] # NoRow => u \in snap'
  <2>1. apc \in {"fanout", "ack"} => cur \in Msgs
    BY DEF Typed, TypeOK
  <2> QED
    BY <2>1 DEF SnapshotComplete, Held
<1>6. ASSUME NEW m \in Msgs, status'[m] \in Kinds \/ (\E u \in Members : local'[m][u] # NoRow),
             NEW u \in members', rows'[m][u] # NoRow
      PROVE  local'[m][u] # NoRow
  BY <1>6 DEF SnapshotComplete, Held
<1> QED
  BY <1>3, <1>4, <1>5, <1>6 DEF SnapshotComplete

\* No member is missing from a snapshot.
LEMMA CompleteStep ==
    Typed /\ OnePlace /\ NotAnswered /\ SnapshotComplete /\ [Next]_vars => SnapshotComplete'
<1> SUFFICES ASSUME Typed, OnePlace, NotAnswered, SnapshotComplete, [Next]_vars
             PROVE  SnapshotComplete'
    OBVIOUS
<1>1. ASSUME NEW m \in Msgs, SendGroupMessage(m) PROVE SnapshotComplete'
  <2>1. \A n \in Msgs : status'[n] \in Kinds => status[n] \in Kinds
    BY <1>1 DEF SendGroupMessage, Typed, TypeOK, Kinds, Sent, Delivered, Seen
  <2>2. \A n \in Msgs : Held(n)
    BY <1>1, <2>1 DEF SendGroupMessage, tables, Held
  <2> QED
    BY <1>1, <2>2, CompleteStays, InboxQuiet, InfoStep DEF SendGroupMessage, tables
<1>2. ASSUME SaveMessage PROVE SnapshotComplete'
  BY <1>2 DEF SaveMessage, Goto, author, member, tables, store, SnapshotComplete
<1>3. ASSUME ListRecipients PROVE SnapshotComplete'
  BY <1>3 DEF ListRecipients, Goto, author, member, tables, store, SnapshotComplete
<1>4. ASSUME InsertReceiptRows PROVE SnapshotComplete'
  <2>1. cur \in Msgs /\ cur # 0 /\ apc = "insert"
    BY <1>4 DEF InsertReceiptRows, Typed, TypeOK
  <2>2. rows \in [Msgs -> [Members -> Levels]] /\ members \subseteq Members
    BY DEF Typed, TypeOK
  <2>3. /\ \A n \in Msgs : n # cur => rows'[n] = rows[n]
        /\ \A u \in Members : rows'[cur][u] = (IF u \in snap /\ rows[cur][u] = NoRow THEN Sent ELSE rows[cur][u])
    BY <1>4, <2>1, <2>2 DEF InsertReceiptRows
  <2>4. UNCHANGED <<inbox, cur, snap, members, status, local>>
    BY <1>4 DEF InsertReceiptRows, store
  <2>5. NoReceiptRows(cur) /\ Blank(cur)
    BY <2>1 DEF NotAnswered
  <2>6. \A u \in members : rows'[cur][u] # NoRow => u \in snap
    BY <2>2, <2>3, <2>5 DEF NoReceiptRows
  <2>7. \A i \in DOMAIN inbox : inbox[i].ts # 0 =>
          \A u \in members : rows'[inbox[i].ts][u] # NoRow => u \in inbox[i].key
    BY <2>3, InboxPacket DEF OnePlace, SnapshotComplete, Typed
  <2>8. ASSUME NEW m \in Msgs, status[m] \in Kinds \/ (\E u \in Members : local[m][u] # NoRow)
        PROVE  m # cur
    BY <2>5, <2>8 DEF Blank, Kinds, Sent, Delivered, Seen
  <2>9. \A m \in Msgs :
          status[m] \in Kinds \/ (\E u \in Members : local[m][u] # NoRow)
            => \A u \in members : rows'[m][u] # NoRow => local[m][u] # NoRow
    BY <2>3, <2>8 DEF SnapshotComplete
  <2> QED
    BY <2>4, <2>6, <2>7, <2>9 DEF SnapshotComplete
<1>5. ASSUME FanOut PROVE SnapshotComplete'
  BY <1>5 DEF FanOut, Goto, author, member, tables, store, SnapshotComplete
<1>6. ASSUME AckSender PROVE SnapshotComplete'
  <2> DEFINE p == SendAck(cur, snap)
  <2>1. inbox \in Seq(InPackets) /\ p \in InPackets /\ apc = "ack"
    BY <1>6, InPacketTypes DEF AckSender, Typed, TypeOK, Shapes
  <2>2. p.ts = cur /\ p.key = snap /\ p.type = "ACK"
    BY DEF SendAck, Packet
  <2>3. inbox' = Append(inbox, p) \/ inbox' = inbox
    BY <1>6 DEF AckSender
  <2>4. UNCHANGED <<status, local, rows, members>> /\ apc' = "idle"
    BY <1>6 DEF AckSender, Goto, store, tables
  <2> HIDE DEF p
  <2>5. \A i \in DOMAIN inbox' : (i \in DOMAIN inbox /\ inbox'[i] = inbox[i]) \/ inbox'[i] = p
    BY <2>1, <2>3, AppendElems
  <2>6. \A i \in DOMAIN inbox' : inbox'[i].ts # 0 =>
          \A u \in members : rows[inbox'[i].ts][u] # NoRow => u \in inbox'[i].key
    BY <2>1, <2>2, <2>5 DEF SnapshotComplete
  <2>7. \A i \in DOMAIN inbox' : inbox'[i].type = "GROUP_INFO" => members \subseteq inbox'[i].key
    BY <2>2, <2>5 DEF SnapshotComplete
  <2> QED
    BY <2>4, <2>6, <2>7 DEF SnapshotComplete
<1>7. ASSUME SendGroupInfo PROVE SnapshotComplete'
  BY <1>7, CompleteStays, InboxQuiet, InfoStep DEF SendGroupInfo, author, member, tables, store,
     Held
<1>8. ASSUME NEW u \in Members, NEW m \in Msgs, NEW k \in Kinds, ReceiptArrives(u, m, k)
      PROVE  SnapshotComplete'
  <2>1. local \in [Msgs -> [Members -> Levels]] /\ status \in [Msgs -> Levels]
    BY DEF Typed, TypeOK
  <2>2. /\ local' = [local EXCEPT ![m][u] = Raise(@, k)]
        /\ status' = [status EXCEPT ![m] = Recompute(local'[m], @)]
    BY <1>8 DEF ReceiptArrives, ApplyReceipt
  <2>3. \A n \in Msgs, v \in Members : (local'[n][v] = NoRow) <=> (local[n][v] = NoRow)
    BY <2>1, <2>2, RaiseType
  <2>4. \A n \in Msgs : status'[n] = status[n] \/ \E v \in Members : local'[n][v] # NoRow
    <3>1. \/ Recompute(local'[m], status[m]) = status[m]
          \/ \E v \in Members : local'[m][v] # NoRow
      BY RecomputeType
    <3>2. status' = [status EXCEPT ![m] = Recompute(local'[m], status[m])]
      BY <2>2
    <3> QED
      BY <2>1, <3>1, <3>2
  <2>5. rows' = rows /\ members' = members /\ members \subseteq Members
    BY <1>8 DEF ReceiptArrives, ReadInbox, tables, Typed, TypeOK
  <2>6. \A n \in Msgs : Held(n)
    BY <2>3, <2>4, <2>5 DEF Held
  <2> QED
    BY <1>8, <2>5, <2>6, CompleteStays, InboxQuiet, InfoStep DEF ReceiptArrives, ReadInbox
<1>9. ASSUME NEW m \in Msgs, NEW S \in SUBSET Members, SnapshotArrives(m, S)
      PROVE  SnapshotComplete'
  <2>1. local \in [Msgs -> [Members -> Levels]] /\ inbox \in Seq(InPackets) /\ inbox # <<>>
    BY <1>9 DEF SnapshotArrives, ReadInbox, Typed, TypeOK, Shapes
  <2>2. /\ \A n \in Msgs : n # m => local'[n] = local[n]
        /\ \A v \in Members : local'[m][v] = (IF v \in S /\ local[m][v] = NoRow THEN Sent ELSE local[m][v])
    BY <1>9, <2>1 DEF SnapshotArrives, ApplySnapshot
  <2>3. UNCHANGED <<status, rows, members, apc, cur, snap>> /\ inbox' = Tail(inbox)
    BY <1>9 DEF SnapshotArrives, ApplySnapshot, ReadInbox, tables
  <2>4. inbox[1].ts = m /\ m # 0 /\ 1 \in DOMAIN inbox /\ inbox[1].key = S
    <3>1. inbox[1] = SendAck(m, S) /\ 1 \in DOMAIN inbox
      BY <1>9, <2>1, TailElems DEF SnapshotArrives
    <3>2. SendAck(m, S).ts = m /\ SendAck(m, S).key = S
      BY DEF SendAck, Packet
    <3>3. m # 0
      BY ReceiptConstants DEF Msgs
    <3> QED
      BY <3>1, <3>2, <3>3
  <2>5. \A u \in members : rows[m][u] # NoRow => u \in S
    BY <2>4 DEF SnapshotComplete
  <2>6. \A u \in members : rows[m][u] # NoRow => local'[m][u] # NoRow
    BY <2>2, <2>5 DEF NoRow, Sent, Typed, TypeOK
  <2>7. \A n \in Msgs :
          status[n] \in Kinds \/ (\E u \in Members : local'[n][u] # NoRow)
            => \A u \in members : rows[n][u] # NoRow => local'[n][u] # NoRow
    BY <2>2, <2>6 DEF SnapshotComplete
  <2>8. \A i \in DOMAIN inbox' : i + 1 \in DOMAIN inbox /\ inbox'[i] = inbox[i + 1]
    BY <2>1, <2>3, TailElems
  <2> QED
    BY <2>3, <2>7, <2>8 DEF SnapshotComplete
<1>10. ASSUME NEW S \in SUBSET Members, InfoArrives(S) PROVE SnapshotComplete'
  <2>1. inbox \in Seq(InPackets) /\ inbox # <<>> /\ Head(inbox) = GroupInfo(S)
    BY <1>10 DEF InfoArrives, ReadInbox, Typed, Shapes
  <2>2. inbox[1] = GroupInfo(S) /\ 1 \in DOMAIN inbox
    BY <2>1, TailElems
  <2>3. GroupInfo(S).type = "GROUP_INFO" /\ GroupInfo(S).key = S
    BY DEF GroupInfo, Packet
  <2>4. members \subseteq S /\ members \subseteq Members
    BY <2>2, <2>3 DEF SnapshotComplete, Typed, TypeOK
  <2>5. \A n \in Msgs, v \in Members : local'[n][v] = (IF v \in S THEN local[n][v] ELSE NoRow)
    BY <1>10 DEF InfoArrives, ApplyInfo
  <2>6. \A n \in Msgs : status'[n] = status[n] \/ \E v \in Members : local[n][v] # NoRow
    BY <1>10 DEF InfoArrives, ApplyInfo
  <2>7. rows' = rows /\ members' = members
    BY <1>10 DEF InfoArrives, ReadInbox, tables
  <2>8. \A n \in Msgs : Held(n)
    BY <2>4, <2>5, <2>6, <2>7 DEF Held
  <2> QED
    BY <1>10, <2>7, <2>8, CompleteStays, InboxQuiet, InfoStep DEF InfoArrives, ReadInbox
<1>11. ASSUME LoginArrives PROVE SnapshotComplete'
  BY <1>11, CompleteStays, InboxQuiet, InfoStep DEF LoginArrives, ReadInbox, author, member,
     tables, store, Held
<1>12. ASSUME AuthorDrop PROVE SnapshotComplete'
  <2>1. \A n \in Msgs : Held(n)
    BY <1>12 DEF AuthorDrop, store, tables, Held
  <2> QED
    BY <1>12, <2>1, CompleteStays, InboxQuiet, InfoStep DEF AuthorDrop, tables
<1>13. ASSUME AuthorLeaves PROVE SnapshotComplete'
  BY <1>13, CompleteStays, InboxQuiet, InfoStep DEF AuthorLeaves, Goto, author, member, tables,
     store, Held
<1>14. ASSUME AuthorLogin PROVE SnapshotComplete'
  BY <1>14, CompleteStays, InboxQuiet, InfoStep DEF AuthorLogin, Goto, author, member, tables,
     store, Held
<1>15. ASSUME ReadQueue PROVE SnapshotComplete'
  BY <1>15, CompleteStays, InboxQuiet, InfoStep DEF ReadQueue, Goto, author, member, tables,
     store, Held
<1>16. ASSUME SendQueued PROVE SnapshotComplete'
  BY <1>16, CompleteStays, InboxQuiet, InfoStep DEF SendQueued, Goto, author, member, tables,
     store, Held
<1>17. ASSUME MarkQueued PROVE SnapshotComplete'
  BY <1>17, CompleteStays, InboxQuiet, InfoStep DEF MarkQueued, Goto, author, member, tables,
     store, Held
<1>18. ASSUME AuthorJoins PROVE SnapshotComplete'
  BY <1>18, CompleteStays, InboxQuiet, InfoStep DEF AuthorJoins, Goto, author, member, tables,
     store, Held
<1>19. ASSUME NEW u \in Members, MemberReceive(u) PROVE SnapshotComplete'
  BY <1>19, CompleteStays, InboxQuiet, InfoStep DEF MemberReceive, author, member, tables,
     store, Held
<1>20. ASSUME NEW u \in Members, OpenGroup(u) PROVE SnapshotComplete'
  BY <1>20, CompleteStays, InboxQuiet, InfoStep DEF OpenGroup, author, member, tables, store,
     Held
<1>21. ASSUME NEW u \in Members, AskLeave(u) PROVE SnapshotComplete'
  BY <1>21, CompleteStays, InboxQuiet, InfoStep DEF AskLeave, author, member, tables, store,
     Held
<1>22. ASSUME NEW u \in Members, MemberDrop(u) PROVE SnapshotComplete'
  BY <1>22, CompleteStays, InboxQuiet, InfoStep DEF MemberDrop, author, member, tables, store,
     Held
<1>23. ASSUME NEW u \in Members, MemberRestart(u) PROVE SnapshotComplete'
  BY <1>23, CompleteStays, InboxQuiet, InfoStep DEF MemberRestart, author, member, tables,
     store, Held
<1>24. ASSUME NEW u \in Members, MemberLogin(u) PROVE SnapshotComplete'
  BY <1>24, CompleteStays, InboxQuiet, InfoStep DEF MemberLogin, MGoto, author, member, tables,
     store, Held
<1>25. ASSUME NEW u \in Members, TakeReceipt(u) PROVE SnapshotComplete'
  BY <1>25, CompleteStays, InboxQuiet, InfoStep DEF TakeReceipt, MGoto, Request, author, member,
     tables, store, Held
<1>26. ASSUME NEW u \in Members, MarkReceipt(u) PROVE SnapshotComplete'
  <2>1. mcur[u].msg \in Msgs /\ mcur[u].kind \in Kinds
    BY <1>26, Rows DEF MarkReceipt, Typed, TypeOK
  <2>2. rows \in [Msgs -> [Members -> Levels]] /\ rows' = [rows EXCEPT ![mcur[u].msg][u] = Raise(@, mcur[u].kind)]
    BY <1>26 DEF MarkReceipt, Typed, TypeOK
  <2>3. \A n \in Msgs, v \in Members : (rows'[n][v] = NoRow) <=> (rows[n][v] = NoRow)
    BY <2>1, <2>2, RaiseType
  <2>4. members' = members /\ members \subseteq Members
    BY <1>26 DEF MarkReceipt, Typed, TypeOK
  <2>5. \A n \in Msgs : Held(n)
    BY <1>26, <2>3, <2>4 DEF MarkReceipt, store, Held
  <2> QED
    BY <1>26, <2>4, <2>5, CompleteStays, InboxQuiet, InfoStep DEF MarkReceipt, author
<1>27. ASSUME NEW u \in Members, Forward(u) PROVE SnapshotComplete'
  BY <1>27, CompleteStays, InboxQuiet, InfoStep DEF Forward, MGoto, author, member, tables,
     store, Held
<1>28. ASSUME NEW u \in Members, ForwardOffline(u) PROVE SnapshotComplete'
  BY <1>28, CompleteStays, InboxQuiet, InfoStep DEF ForwardOffline, MGoto, author, member,
     tables, store, Held
<1>29. ASSUME NEW u \in Members, QueueReceipt(u) PROVE SnapshotComplete'
  BY <1>29, CompleteStays, InboxQuiet, InfoStep DEF QueueReceipt, MGoto, author, member, tables,
     store, Held
<1>30. ASSUME NEW u \in Members, SyncGroup(u) PROVE SnapshotComplete'
  BY <1>30, CompleteStays, InboxQuiet, InfoStep DEF SyncGroup, Request, author, member, tables,
     store, Held
<1>31. ASSUME NEW u \in Members, RemoveMember(u) PROVE SnapshotComplete'
  BY <1>31, CompleteStays, InboxQuiet, InfoStep DEF RemoveMember, MGoto, Request, author,
     member, tables, store, Held
<1>32. ASSUME NEW u \in Members, DeleteReceipts(u) PROVE SnapshotComplete'
  <2>1. members' = members /\ members \subseteq Members
    BY <1>32 DEF DeleteReceipts, Typed, TypeOK
  <2>2. \A n \in Msgs : Held(n)
    BY <1>32, <2>1 DEF DeleteReceipts, store, Typed, TypeOK, Held
  <2> QED
    BY <1>32, <2>1, <2>2, CompleteStays, InboxQuiet, InfoStep DEF DeleteReceipts, author
<1>33. ASSUME NEW u \in Members, MemberLeaves(u) PROVE SnapshotComplete'
  BY <1>33, CompleteStays, InboxQuiet, InfoStep DEF MemberLeaves, MGoto, author, member, tables,
     store, Held
<1>34. CASE UNCHANGED vars
  BY <1>34, CompleteStays, InboxQuiet, InfoStep DEF vars, author, member, tables, store, Held
<1>35. CASE AuthorReceive
  BY <1>35, <1>8, <1>9, <1>10, <1>11, Received DEF Typed, StatusInv, HonestInv, AccountInv
<1>36. ASSUME MessageFails PROVE SnapshotComplete'
  <2>1. UNCHANGED <<inbox, members, status, local>> /\ apc' = "idle"
    BY <1>36, MessageFailed
  <2>2. \A n \in Msgs : rows'[n] = rows[n] \/ (apc = "insert" /\ n = cur /\ cur # 0)
    <3>1. apc = "insert" => cur # 0
      BY DEF Typed, TypeOK
    <3>2. CASE rows' = rows
      BY <3>2
    <3>3. ASSUME apc = "insert", NEW S \in SUBSET snap,
                 rows' = [rows EXCEPT ![cur] = [u \in Members |->
                            IF u \in S /\ @[u] = NoRow THEN Sent ELSE @[u]]]
          PROVE  \A n \in Msgs : rows'[n] = rows[n] \/ (n = cur /\ cur # 0)
      BY <3>1, <3>3 DEF Typed, TypeOK
    <3> QED
      BY <1>36, <3>2, <3>3, MessageFailed
  <2>3. \A i \in DOMAIN inbox : inbox[i].ts # 0 =>
          \A u \in members : rows'[inbox[i].ts][u] # NoRow => u \in inbox[i].key
    BY <2>2, InboxPacket DEF OnePlace, SnapshotComplete, Typed
  <2>4. ASSUME NEW m \in Msgs, status[m] \in Kinds \/ (\E u \in Members : local[m][u] # NoRow)
        PROVE  m # cur \/ cur = 0
    BY <2>4 DEF NotAnswered, Blank, Kinds, NoRow, Sent, Delivered, Seen
  <2>5. ASSUME NEW m \in Msgs, status[m] \in Kinds \/ (\E u \in Members : local[m][u] # NoRow)
        PROVE  \A u \in members : rows'[m][u] # NoRow => local[m][u] # NoRow
    <3>1. rows'[m] = rows[m]
      BY <2>2, <2>4, <2>5
    <3> QED
      BY <2>5, <3>1 DEF SnapshotComplete
  <2> QED
    BY <2>1, <2>3, <2>5 DEF SnapshotComplete
<1>37. ASSUME FlushFails PROVE SnapshotComplete'
  BY <1>37, CompleteStays, InboxQuiet, InfoStep DEF FlushFails, Goto, author, member, tables,
     store, Held
<1>38. ASSUME Crash PROVE SnapshotComplete'
  BY <1>38, Crashed DEF SnapshotComplete
<1>39. ASSUME NEW u \in Members, RequestFails(u) PROVE SnapshotComplete'
  BY <1>39, CompleteStays, InboxQuiet, InfoStep DEF RequestFails, Request, author, member,
     tables, store, Held
<1>40. ASSUME NEW u \in Members, HandlerFails(u) PROVE SnapshotComplete'
  BY <1>40, CompleteStays, InboxQuiet, InfoStep DEF HandlerFails, MGoto, author, member, tables,
     store, Held
<1> QED
  BY <1>1, <1>2, <1>3, <1>4, <1>5, <1>6, <1>7, <1>8, <1>9, <1>10, <1>11, <1>12, <1>13, <1>14,
     <1>15, <1>16, <1>17, <1>18, <1>19, <1>20, <1>21, <1>22, <1>23, <1>24, <1>25, <1>26, <1>27,
     <1>28, <1>29, <1>30, <1>31, <1>32, <1>33, <1>34, <1>35, <1>36, <1>37,
     <1>38, <1>39, <1>40 DEF Next, AuthorStep, MemberStep

-----------------------------------------------------------------------------
\* What the aggregate says of the rows it was computed from.
LEMMA RecomputeMeans ==
    ASSUME NEW r \in [Members -> Levels], NEW old \in Levels
    PROVE  /\ Recompute(r, old) = Seen =>
                old = Seen \/ \A u \in Members : r[u] \in {NoRow, Seen}
           /\ Recompute(r, old) \in Kinds => old \in Kinds \/ \A u \in Members : r[u] # Sent
           /\ old = Seen /\ (\A u \in Members : r[u] \in {NoRow, Seen}) => Recompute(r, old) = Seen
           /\ Recompute(r, old) >= old \/ old = Seen
BY DEF Recompute, recipients, allRecipientsSeen, allRecipientsDelivered, Levels, Kinds,
       NoRow, Sent, Delivered, Seen

\* What a step may do to the statuses.
NotLowered == \A n \in Msgs : status'[n] >= status[n]

\* An untouched status.
LEMMA SameStatus ==
    ASSUME StatusInv, status' = status
    PROVE  NotLowered
BY DEF NotLowered, StatusInv, Typed, TypeOK, Levels, NoRow, Sent, Delivered, Seen

\* The bubble and the rows agree.
LEMMA SeenStep ==
    Typed /\ NotAnswered /\ SeenByAll /\ [Next]_vars => SeenByAll'
<1> SUFFICES ASSUME Typed, NotAnswered, SeenByAll, [Next]_vars
             PROVE  SeenByAll'
    OBVIOUS
<1>1. ASSUME NEW m \in Msgs, SendGroupMessage(m) PROVE SeenByAll'
  <2>1. \A n \in Msgs : status'[n] = status[n] \/ status'[n] = Sent
    BY <1>1 DEF SendGroupMessage, Typed, TypeOK
  <2> QED
    BY <1>1, <2>1 DEF SendGroupMessage, SeenByAll, Kinds, Sent, Delivered, Seen
<1>2. ASSUME SaveMessage PROVE SeenByAll'
  BY <1>2 DEF SaveMessage, Goto, author, member, tables, store, SeenByAll
<1>3. ASSUME ListRecipients PROVE SeenByAll'
  BY <1>3 DEF ListRecipients, Goto, author, member, tables, store, SeenByAll
<1>4. ASSUME InsertReceiptRows PROVE SeenByAll'
  BY <1>4 DEF InsertReceiptRows, Goto, author, member, tables, store, SeenByAll
<1>5. ASSUME FanOut PROVE SeenByAll'
  BY <1>5 DEF FanOut, Goto, author, member, tables, store, SeenByAll
<1>6. ASSUME AckSender PROVE SeenByAll'
  BY <1>6 DEF AckSender, Goto, author, member, tables, store, SeenByAll
<1>7. ASSUME SendGroupInfo PROVE SeenByAll'
  BY <1>7 DEF SendGroupInfo, author, member, tables, store, SeenByAll
<1>8. ASSUME NEW u \in Members, NEW m \in Msgs, NEW k \in Kinds, ReceiptArrives(u, m, k)
      PROVE  SeenByAll'
  <2>1. local \in [Msgs -> [Members -> Levels]] /\ status \in [Msgs -> Levels]
    BY DEF Typed, TypeOK
  <2>2. /\ local' = [local EXCEPT ![m][u] = Raise(local[m][u], k)]
        /\ status' = [status EXCEPT ![m] = Recompute(local'[m], status[m])]
    BY <1>8 DEF ReceiptArrives, ApplyReceipt
  <2>3. local'[m] \in [Members -> Levels]
    BY <2>1, <2>2, RaiseType
  <2>4. \A v \in Members : local[m][v] \in {NoRow, Seen} => local'[m][v] \in {NoRow, Seen}
    <3>1. local[m][u] \in {NoRow, Seen} => Raise(local[m][u], k) \in {NoRow, Seen}
      BY DEF Raise, Kinds, NoRow, Delivered, Seen
    <3> QED
      BY <2>1, <2>2, <3>1
  <2>5. status'[m] = Seen => \A v \in Members : local'[m][v] \in {NoRow, Seen}
    <3>1. status'[m] = Recompute(local'[m], status[m]) /\ status[m] \in Levels
      BY <2>1, <2>2
    <3>2. Recompute(local'[m], status[m]) = Seen =>
            status[m] = Seen \/ \A v \in Members : local'[m][v] \in {NoRow, Seen}
      BY <2>3, <3>1, RecomputeMeans
    <3> QED
      BY <2>4, <3>1, <3>2 DEF SeenByAll
  <2>7. \A v \in Members : local[m][v] # Sent => local'[m][v] # Sent
    <3>1. local[m][u] # Sent => Raise(local[m][u], k) # Sent
      BY DEF Raise, Kinds, NoRow, Sent, Delivered, Seen
    <3> QED
      BY <2>1, <2>2, <3>1
  <2>8. status'[m] \in Kinds => \A v \in Members : local'[m][v] # Sent
    <3>1. status'[m] = Recompute(local'[m], status[m]) /\ status[m] \in Levels
      BY <2>1, <2>2
    <3>2. Recompute(local'[m], status[m]) \in Kinds =>
            status[m] \in Kinds \/ \A v \in Members : local'[m][v] # Sent
      BY <2>3, <3>1, RecomputeMeans
    <3> QED
      BY <2>7, <3>1, <3>2 DEF SeenByAll
  <2>6. \A n \in Msgs : n # m => local'[n] = local[n] /\ status'[n] = status[n]
    BY <2>1, <2>2
  <2> QED
    BY <2>5, <2>6, <2>8 DEF SeenByAll
<1>9. ASSUME NEW m \in Msgs, NEW S \in SUBSET Members, SnapshotArrives(m, S)
      PROVE  SeenByAll'
  <2>1. local \in [Msgs -> [Members -> Levels]] /\ inbox \in Seq(InPackets) /\ inbox # <<>>
    BY <1>9 DEF SnapshotArrives, ReadInbox, Typed, TypeOK, Shapes
  <2>2. (\A n \in Msgs : n # m => local'[n] = local[n]) /\ status' = status
    BY <1>9, <2>1 DEF SnapshotArrives, ApplySnapshot
  <2>3. inbox[1] = SendAck(m, S) /\ 1 \in DOMAIN inbox
    BY <1>9, <2>1, TailElems DEF SnapshotArrives
  <2>4. SendAck(m, S).ts = m
    BY DEF SendAck, Packet
  <2>5. m # 0
    BY ReceiptConstants DEF Msgs
  <2>6. status[m] = Sent
    BY <2>3, <2>4, <2>5 DEF NotAnswered, Blank
  <2> QED
    BY <2>2, <2>6 DEF SeenByAll, Kinds, Sent, Delivered, Seen
<1>10. ASSUME NEW S \in SUBSET Members, InfoArrives(S) PROVE SeenByAll'
  <2>1. local \in [Msgs -> [Members -> Levels]] /\ status \in [Msgs -> Levels]
    BY DEF Typed, TypeOK
  <2>2. \A n \in Msgs : local'[n] = [v \in Members |-> IF v \in S THEN local[n][v] ELSE NoRow]
    BY <1>10 DEF InfoArrives, ApplyInfo
  <2>3. \A n \in Msgs : status'[n] = status[n] \/ status'[n] = Recompute(local'[n], status[n])
    BY <1>10 DEF InfoArrives, ApplyInfo
  <2>4. \A n \in Msgs : local'[n] \in [Members -> Levels]
    <3> TAKE n \in Msgs
    <3>1. \A v \in Members : local[n][v] \in Levels
      BY <2>1
    <3>2. NoRow \in Levels
      BY DEF Levels
    <3>3. local'[n] = [v \in Members |-> IF v \in S THEN local[n][v] ELSE NoRow]
      BY <2>2
    <3> QED
      BY <3>1, <3>2, <3>3
  <2>5. ASSUME NEW n \in Msgs, status'[n] = Seen, NEW v \in Members
        PROVE  local'[n][v] \in {NoRow, Seen}
    <3>1. CASE status[n] = Seen
      BY <2>2, <3>1 DEF SeenByAll
    <3>2. CASE status[n] # Seen
      <4>1. Recompute(local'[n], status[n]) = Seen /\ status[n] \in Levels
        BY <2>1, <2>3, <2>5, <3>2
      <4> QED
        BY <2>4, <3>2, <4>1, RecomputeMeans
    <3> QED
      BY <3>1, <3>2
  <2>6. ASSUME NEW n \in Msgs, status'[n] \in Kinds, NEW v \in Members
        PROVE  local'[n][v] # Sent
    <3>1. CASE status[n] \in Kinds
      <4>1. local[n][v] # Sent /\ NoRow # Sent
        BY <3>1 DEF SeenByAll, NoRow, Sent
      <4>2. local'[n][v] = IF v \in S THEN local[n][v] ELSE NoRow
        BY <2>2
      <4> QED
        BY <4>1, <4>2
    <3>2. CASE status[n] \notin Kinds
      <4>1. Recompute(local'[n], status[n]) \in Kinds /\ status[n] \in Levels
        BY <2>1, <2>3, <2>6, <3>2
      <4> QED
        BY <2>4, <3>2, <4>1, RecomputeMeans
    <3> QED
      BY <3>1, <3>2
  <2> QED
    BY <2>5, <2>6 DEF SeenByAll
<1>11. ASSUME LoginArrives PROVE SeenByAll'
  BY <1>11 DEF LoginArrives, ReadInbox, author, member, tables, store, SeenByAll
<1>12. ASSUME AuthorDrop PROVE SeenByAll'
  BY <1>12 DEF AuthorDrop, author, member, tables, store, SeenByAll
<1>13. ASSUME AuthorLeaves PROVE SeenByAll'
  BY <1>13 DEF AuthorLeaves, Goto, author, member, tables, store, SeenByAll
<1>14. ASSUME AuthorLogin PROVE SeenByAll'
  BY <1>14 DEF AuthorLogin, Goto, author, member, tables, store, SeenByAll
<1>15. ASSUME ReadQueue PROVE SeenByAll'
  BY <1>15 DEF ReadQueue, Goto, author, member, tables, store, SeenByAll
<1>16. ASSUME SendQueued PROVE SeenByAll'
  BY <1>16 DEF SendQueued, Goto, author, member, tables, store, SeenByAll
<1>17. ASSUME MarkQueued PROVE SeenByAll'
  BY <1>17 DEF MarkQueued, Goto, author, member, tables, store, SeenByAll
<1>18. ASSUME AuthorJoins PROVE SeenByAll'
  BY <1>18 DEF AuthorJoins, Goto, author, member, tables, store, SeenByAll
<1>19. ASSUME NEW u \in Members, MemberReceive(u) PROVE SeenByAll'
  BY <1>19 DEF MemberReceive, author, member, tables, store, SeenByAll
<1>20. ASSUME NEW u \in Members, OpenGroup(u) PROVE SeenByAll'
  BY <1>20 DEF OpenGroup, author, member, tables, store, SeenByAll
<1>21. ASSUME NEW u \in Members, AskLeave(u) PROVE SeenByAll'
  BY <1>21 DEF AskLeave, author, member, tables, store, SeenByAll
<1>22. ASSUME NEW u \in Members, MemberDrop(u) PROVE SeenByAll'
  BY <1>22 DEF MemberDrop, author, member, tables, store, SeenByAll
<1>23. ASSUME NEW u \in Members, MemberRestart(u) PROVE SeenByAll'
  BY <1>23 DEF MemberRestart, author, member, tables, store, SeenByAll
<1>24. ASSUME NEW u \in Members, MemberLogin(u) PROVE SeenByAll'
  BY <1>24 DEF MemberLogin, MGoto, author, member, tables, store, SeenByAll
<1>25. ASSUME NEW u \in Members, TakeReceipt(u) PROVE SeenByAll'
  BY <1>25 DEF TakeReceipt, MGoto, Request, author, member, tables, store, SeenByAll
<1>26. ASSUME NEW u \in Members, MarkReceipt(u) PROVE SeenByAll'
  BY <1>26 DEF MarkReceipt, MGoto, author, member, tables, store, SeenByAll
<1>27. ASSUME NEW u \in Members, Forward(u) PROVE SeenByAll'
  BY <1>27 DEF Forward, MGoto, author, member, tables, store, SeenByAll
<1>28. ASSUME NEW u \in Members, ForwardOffline(u) PROVE SeenByAll'
  BY <1>28 DEF ForwardOffline, MGoto, author, member, tables, store, SeenByAll
<1>29. ASSUME NEW u \in Members, QueueReceipt(u) PROVE SeenByAll'
  BY <1>29 DEF QueueReceipt, MGoto, author, member, tables, store, SeenByAll
<1>30. ASSUME NEW u \in Members, SyncGroup(u) PROVE SeenByAll'
  BY <1>30 DEF SyncGroup, Request, author, member, tables, store, SeenByAll
<1>31. ASSUME NEW u \in Members, RemoveMember(u) PROVE SeenByAll'
  BY <1>31 DEF RemoveMember, MGoto, Request, author, member, tables, store, SeenByAll
<1>32. ASSUME NEW u \in Members, DeleteReceipts(u) PROVE SeenByAll'
  BY <1>32 DEF DeleteReceipts, MGoto, author, member, tables, store, SeenByAll
<1>33. ASSUME NEW u \in Members, MemberLeaves(u) PROVE SeenByAll'
  BY <1>33 DEF MemberLeaves, MGoto, author, member, tables, store, SeenByAll
<1>34. CASE UNCHANGED vars
  BY <1>34 DEF vars, author, member, tables, store, SeenByAll
<1>35. CASE AuthorReceive
  BY <1>35, <1>8, <1>9, <1>10, <1>11, Received DEF Typed, StatusInv, HonestInv, AccountInv
<1>36. ASSUME MessageFails PROVE SeenByAll'
  BY <1>36 DEF MessageFails, Goto, author, member, tables, store, SeenByAll
<1>37. ASSUME FlushFails PROVE SeenByAll'
  BY <1>37 DEF FlushFails, Goto, author, member, tables, store, SeenByAll
<1>38. ASSUME Crash PROVE SeenByAll'
  BY <1>38 DEF Crash, author, member, tables, store, SeenByAll
<1>39. ASSUME NEW u \in Members, RequestFails(u) PROVE SeenByAll'
  BY <1>39 DEF RequestFails, Request, author, member, tables, store, SeenByAll
<1>40. ASSUME NEW u \in Members, HandlerFails(u) PROVE SeenByAll'
  BY <1>40 DEF HandlerFails, MGoto, author, member, tables, store, SeenByAll
<1> QED
  BY <1>1, <1>2, <1>3, <1>4, <1>5, <1>6, <1>7, <1>8, <1>9, <1>10, <1>11, <1>12, <1>13, <1>14,
     <1>15, <1>16, <1>17, <1>18, <1>19, <1>20, <1>21, <1>22, <1>23, <1>24, <1>25, <1>26, <1>27,
     <1>28, <1>29, <1>30, <1>31, <1>32, <1>33, <1>34, <1>35, <1>36, <1>37,
     <1>38, <1>39, <1>40 DEF Next, AuthorStep, MemberStep

\* No step lowers a status.
LEMMA ForwardStep == StatusInv /\ [Next]_vars => NotLowered
<1> SUFFICES ASSUME StatusInv, [Next]_vars
             PROVE  NotLowered
    OBVIOUS
<1>1. ASSUME NEW m \in Msgs, SendGroupMessage(m) PROVE NotLowered
  <2>1. \A n \in Msgs : status'[n] = status[n] \/ (status'[n] = Sent /\ status[n] = NoRow)
    BY <1>1 DEF SendGroupMessage, StatusInv, Typed, TypeOK
  <2> QED
    BY <2>1 DEF NotLowered, StatusInv, Typed, TypeOK, Levels, NoRow, Sent, Delivered, Seen
<1>2. ASSUME SaveMessage PROVE NotLowered
  BY <1>2, SameStatus DEF SaveMessage, Goto, author, member, tables, store
<1>3. ASSUME ListRecipients PROVE NotLowered
  BY <1>3, SameStatus DEF ListRecipients, Goto, author, member, tables, store
<1>4. ASSUME InsertReceiptRows PROVE NotLowered
  BY <1>4, SameStatus DEF InsertReceiptRows, Goto, author, member, tables, store
<1>5. ASSUME FanOut PROVE NotLowered
  BY <1>5, SameStatus DEF FanOut, Goto, author, member, tables, store
<1>6. ASSUME AckSender PROVE NotLowered
  BY <1>6, SameStatus DEF AckSender, Goto, author, member, tables, store
<1>7. ASSUME SendGroupInfo PROVE NotLowered
  BY <1>7, SameStatus DEF SendGroupInfo, author, member, tables, store
<1>8. ASSUME NEW u \in Members, NEW m \in Msgs, NEW k \in Kinds, ReceiptArrives(u, m, k)
      PROVE  NotLowered
  <2>1. local \in [Msgs -> [Members -> Levels]] /\ status \in [Msgs -> Levels]
    BY DEF StatusInv, Typed, TypeOK
  <2>2. /\ local' = [local EXCEPT ![m][u] = Raise(local[m][u], k)]
        /\ status' = [status EXCEPT ![m] = Recompute(local'[m], status[m])]
    BY <1>8 DEF ReceiptArrives, ApplyReceipt
  <2>3. local'[m] \in [Members -> Levels]
    BY <2>1, <2>2, RaiseType
  <2>4. \A v \in Members : local[m][v] \in {NoRow, Seen} => local'[m][v] \in {NoRow, Seen}
    <3>1. local[m][u] \in {NoRow, Seen} => Raise(local[m][u], k) \in {NoRow, Seen}
      BY DEF Raise, Kinds, NoRow, Delivered, Seen
    <3> QED
      BY <2>1, <2>2, <3>1
  <2>5. status[m] = Seen => \A v \in Members : local'[m][v] \in {NoRow, Seen}
    BY <2>4 DEF StatusInv, SeenByAll
  <2>6. Recompute(local'[m], status[m]) >= status[m]
    <3>1. /\ status[m] = Seen => Recompute(local'[m], status[m]) = Seen
          /\ Recompute(local'[m], status[m]) >= status[m] \/ status[m] = Seen
      BY <2>1, <2>3, <2>5, RecomputeMeans
    <3> QED
      BY <3>1 DEF Seen
  <2>7. \A n \in Msgs : status'[n] = status[n] \/ (n = m /\ status'[m] = Recompute(local'[m], status[m]))
    BY <2>1, <2>2
  <2>8. \A n \in Msgs : status[n] >= status[n]
    BY <2>1 DEF Levels, NoRow, Sent, Delivered, Seen
  <2> QED
    BY <2>6, <2>7, <2>8 DEF NotLowered
<1>9. ASSUME NEW m \in Msgs, NEW S \in SUBSET Members, SnapshotArrives(m, S)
      PROVE  NotLowered
  BY <1>9, SameStatus DEF SnapshotArrives, ApplySnapshot
<1>10. ASSUME NEW S \in SUBSET Members, InfoArrives(S) PROVE NotLowered
  <2>1. local \in [Msgs -> [Members -> Levels]] /\ status \in [Msgs -> Levels]
    BY DEF StatusInv, Typed, TypeOK
  <2>2. \A n \in Msgs : local'[n] = [v \in Members |-> IF v \in S THEN local[n][v] ELSE NoRow]
    BY <1>10 DEF InfoArrives, ApplyInfo
  <2>3. \A n \in Msgs : status'[n] = status[n] \/ status'[n] = Recompute(local'[n], status[n])
    BY <1>10 DEF InfoArrives, ApplyInfo
  <2>4. \A n \in Msgs : local'[n] \in [Members -> Levels]
    <3> TAKE n \in Msgs
    <3>1. \A v \in Members : local[n][v] \in Levels
      BY <2>1
    <3>2. NoRow \in Levels
      BY DEF Levels
    <3>3. local'[n] = [v \in Members |-> IF v \in S THEN local[n][v] ELSE NoRow]
      BY <2>2
    <3> QED
      BY <3>1, <3>2, <3>3
  <2>5. ASSUME NEW n \in Msgs
        PROVE  Recompute(local'[n], status[n]) >= status[n]
    <3>1. status[n] = Seen => \A v \in Members : local'[n][v] \in {NoRow, Seen}
      <4>1. local'[n] = [v \in Members |-> IF v \in S THEN local[n][v] ELSE NoRow]
        BY <2>2
      <4>2. status[n] = Seen => \A v \in Members : local[n][v] \in {NoRow, Seen}
        BY DEF StatusInv, SeenByAll
      <4> QED
        BY <4>1, <4>2
    <3>2. /\ status[n] = Seen => Recompute(local'[n], status[n]) = Seen
          /\ Recompute(local'[n], status[n]) >= status[n] \/ status[n] = Seen
      BY <2>1, <2>4, <3>1, RecomputeMeans
    <3> QED
      BY <3>2 DEF Seen
  <2>6. \A n \in Msgs : status[n] >= status[n]
    BY <2>1 DEF Levels, NoRow, Sent, Delivered, Seen
  <2> QED
    BY <2>3, <2>5, <2>6 DEF NotLowered
<1>11. ASSUME LoginArrives PROVE NotLowered
  BY <1>11, SameStatus DEF LoginArrives, ReadInbox, author, member, tables, store
<1>12. ASSUME AuthorDrop PROVE NotLowered
  BY <1>12, SameStatus DEF AuthorDrop, author, member, tables, store
<1>13. ASSUME AuthorLeaves PROVE NotLowered
  BY <1>13, SameStatus DEF AuthorLeaves, Goto, author, member, tables, store
<1>14. ASSUME AuthorLogin PROVE NotLowered
  BY <1>14, SameStatus DEF AuthorLogin, Goto, author, member, tables, store
<1>15. ASSUME ReadQueue PROVE NotLowered
  BY <1>15, SameStatus DEF ReadQueue, Goto, author, member, tables, store
<1>16. ASSUME SendQueued PROVE NotLowered
  BY <1>16, SameStatus DEF SendQueued, Goto, author, member, tables, store
<1>17. ASSUME MarkQueued PROVE NotLowered
  BY <1>17, SameStatus DEF MarkQueued, Goto, author, member, tables, store
<1>18. ASSUME AuthorJoins PROVE NotLowered
  BY <1>18, SameStatus DEF AuthorJoins, Goto, author, member, tables, store
<1>19. ASSUME NEW u \in Members, MemberReceive(u) PROVE NotLowered
  BY <1>19, SameStatus DEF MemberReceive, author, member, tables, store
<1>20. ASSUME NEW u \in Members, OpenGroup(u) PROVE NotLowered
  BY <1>20, SameStatus DEF OpenGroup, author, member, tables, store
<1>21. ASSUME NEW u \in Members, AskLeave(u) PROVE NotLowered
  BY <1>21, SameStatus DEF AskLeave, author, member, tables, store
<1>22. ASSUME NEW u \in Members, MemberDrop(u) PROVE NotLowered
  BY <1>22, SameStatus DEF MemberDrop, author, member, tables, store
<1>23. ASSUME NEW u \in Members, MemberRestart(u) PROVE NotLowered
  BY <1>23, SameStatus DEF MemberRestart, author, member, tables, store
<1>24. ASSUME NEW u \in Members, MemberLogin(u) PROVE NotLowered
  BY <1>24, SameStatus DEF MemberLogin, MGoto, author, member, tables, store
<1>25. ASSUME NEW u \in Members, TakeReceipt(u) PROVE NotLowered
  BY <1>25, SameStatus DEF TakeReceipt, MGoto, Request, author, member, tables, store
<1>26. ASSUME NEW u \in Members, MarkReceipt(u) PROVE NotLowered
  BY <1>26, SameStatus DEF MarkReceipt, MGoto, author, member, tables, store
<1>27. ASSUME NEW u \in Members, Forward(u) PROVE NotLowered
  BY <1>27, SameStatus DEF Forward, MGoto, author, member, tables, store
<1>28. ASSUME NEW u \in Members, ForwardOffline(u) PROVE NotLowered
  BY <1>28, SameStatus DEF ForwardOffline, MGoto, author, member, tables, store
<1>29. ASSUME NEW u \in Members, QueueReceipt(u) PROVE NotLowered
  BY <1>29, SameStatus DEF QueueReceipt, MGoto, author, member, tables, store
<1>30. ASSUME NEW u \in Members, SyncGroup(u) PROVE NotLowered
  BY <1>30, SameStatus DEF SyncGroup, Request, author, member, tables, store
<1>31. ASSUME NEW u \in Members, RemoveMember(u) PROVE NotLowered
  BY <1>31, SameStatus DEF RemoveMember, MGoto, Request, author, member, tables, store
<1>32. ASSUME NEW u \in Members, DeleteReceipts(u) PROVE NotLowered
  BY <1>32, SameStatus DEF DeleteReceipts, MGoto, author, member, tables, store
<1>33. ASSUME NEW u \in Members, MemberLeaves(u) PROVE NotLowered
  BY <1>33, SameStatus DEF MemberLeaves, MGoto, author, member, tables, store
<1>34. CASE UNCHANGED vars
  BY <1>34, SameStatus DEF vars, author, member, tables, store
<1>35. CASE AuthorReceive
  BY <1>35, <1>8, <1>9, <1>10, <1>11, Received DEF Typed, StatusInv, HonestInv, AccountInv
<1>36. ASSUME MessageFails PROVE NotLowered
  BY <1>36, SameStatus DEF MessageFails, Goto, author, member, tables, store
<1>37. ASSUME FlushFails PROVE NotLowered
  BY <1>37, SameStatus DEF FlushFails, Goto, author, member, tables, store
<1>38. ASSUME Crash PROVE NotLowered
  BY <1>38, SameStatus DEF Crash, author, member, tables, store
<1>39. ASSUME NEW u \in Members, RequestFails(u) PROVE NotLowered
  BY <1>39, SameStatus DEF RequestFails, Request, author, member, tables, store
<1>40. ASSUME NEW u \in Members, HandlerFails(u) PROVE NotLowered
  BY <1>40, SameStatus DEF HandlerFails, MGoto, author, member, tables, store
<1> QED
  BY <1>1, <1>2, <1>3, <1>4, <1>5, <1>6, <1>7, <1>8, <1>9, <1>10, <1>11, <1>12, <1>13, <1>14,
     <1>15, <1>16, <1>17, <1>18, <1>19, <1>20, <1>21, <1>22, <1>23, <1>24, <1>25, <1>26, <1>27,
     <1>28, <1>29, <1>30, <1>31, <1>32, <1>33, <1>34, <1>35, <1>36, <1>37,
     <1>38, <1>39, <1>40 DEF Next, AuthorStep, MemberStep

\* The start, and every step.
LEMMA StatusInit == Init => StatusInv
<1> SUFFICES ASSUME Init PROVE StatusInv
    OBVIOUS
<1>1. inbox = <<>> /\ outbox = <<>> /\ cur = 0 /\ apc = "idle"
  BY DEF Init
<1>2. DOMAIN inbox = {} /\ DOMAIN outbox = {}
  BY <1>1
<1>3. /\ \A m \in Msgs : status[m] = NoRow
      /\ \A m \in Msgs, u \in Members : local[m][u] = NoRow /\ rows[m][u] = NoRow
      /\ members = Members
  BY DEF Init
<1>4. OnePlace
  BY <1>2 DEF OnePlace
<1>5. NotAnswered
  BY <1>1, <1>2, <1>3 DEF NotAnswered, NoReceiptRows
<1>6. SeenByAll
  BY <1>3 DEF SeenByAll, Kinds, NoRow, Sent, Delivered, Seen
<1>7. SnapshotComplete
  BY <1>1, <1>2, <1>3 DEF SnapshotComplete
<1> QED
  BY <1>4, <1>5, <1>6, <1>7, TypedInit DEF StatusInv

\* Every step keeps it.
LEMMA StatusStep == StatusInv /\ [Next]_vars => StatusInv'
BY TypedStep, PlaceStep, AnswerStep, SeenStep, CompleteStep DEF StatusInv

(***************************************************************************)
(* The status of a message never goes back: however receipts, the ACK with *)
(* the snapshot and GROUP_INFOs that drop members are ordered on the wire, *)
(* recomputeGroupAggregate writes no lower status than the store has.      *)
(***************************************************************************)
THEOREM StatusNeverBack == Spec => StatusForward
<1>1. StatusInv /\ [Next]_vars => [\A m \in Msgs : status'[m] >= status[m]]_status
  <2> SUFFICES ASSUME StatusInv, [Next]_vars
               PROVE  \A m \in Msgs : status'[m] >= status[m]
    OBVIOUS
  <2> QED
    BY ForwardStep DEF NotLowered
<1> QED
  BY <1>1, StatusInit, StatusStep, PTL DEF Spec, StatusForward

-----------------------------------------------------------------------------
(***************************************************************************)
(* The receipts in a queue of packets to the author, and in a queue of     *)
(* requests of a member.                                                   *)
(***************************************************************************)
Carried(q) ==
    {<<q[i].from, q[i].body, IF q[i].type = "ACK" THEN Delivered ELSE Seen>> :
        i \in {j \in DOMAIN q : q[j].from # Empty}}

Asked(u, s) ==
    {<<u, s[i].msg, s[i].kind>> : i \in {j \in DOMAIN s : s[j].req = "receipt"}}

\* The receipts on a wire, by the sequence that is on it.
LEMMA ReceiptSets ==
    /\ InboxReceipts = Carried(inbox) /\ InboxReceipts' = Carried(inbox')
    /\ \A u : OutboxReceipts(u) = Asked(u, moutbox[u])
              /\ OutboxReceipts(u)' = Asked(u, moutbox'[u])
BY DEF InboxReceipts, OutboxReceipts, Carried, Asked

\* What one packet carries.
LEMMA OneReceipt ==
    ASSUME NEW u \in Members, NEW m, NEW k \in Kinds, NEW p, p = Receipt(u, m, k)
    PROVE  p.from # Empty /\ <<u, m, k>> = <<p.from, p.body, IF p.type = "ACK" THEN Delivered ELSE Seen>>
<1>1. CASE k = Delivered
  BY <1>1, ReceiptConstants DEF Receipt, DeliveredAck, Packet, Delivered, Seen
<1>2. CASE k = Seen
  BY <1>2, ReceiptConstants DEF Receipt, ReadReceipt, Packet, Delivered, Seen
<1> QED
  BY <1>1, <1>2 DEF Kinds

\* A packet more on the wire to the author.
LEMMA CarriedAppend ==
    ASSUME NEW T, NEW q \in Seq(T), NEW p \in T
    PROVE  /\ p.from = Empty => Carried(Append(q, p)) = Carried(q)
           /\ p.from # Empty => Carried(Append(q, p)) = Carried(q) \cup
                {<<p.from, p.body, IF p.type = "ACK" THEN Delivered ELSE Seen>>}
<1>1. /\ \A i \in DOMAIN Append(q, p) : (i \in DOMAIN q /\ Append(q, p)[i] = q[i]) \/ Append(q, p)[i] = p
      /\ \A i \in DOMAIN q : i \in DOMAIN Append(q, p) /\ Append(q, p)[i] = q[i]
      /\ Len(q) + 1 \in DOMAIN Append(q, p) /\ Append(q, p)[Len(q) + 1] = p
  BY AppendElems
<1> DEFINE a == Append(q, p)
<1> HIDE DEF a
<1> QED
  BY <1>1 DEF Carried, a

\* A packet read.
LEMMA CarriedTail ==
    ASSUME NEW T, NEW q \in Seq(T), q # <<>>
    PROVE  /\ Carried(Tail(q)) \subseteq Carried(q)
           /\ Head(q).from = Empty => Carried(Tail(q)) = Carried(q)
           /\ Head(q).from # Empty => Carried(q) = Carried(Tail(q)) \cup
                {<<Head(q).from, Head(q).body, IF Head(q).type = "ACK" THEN Delivered ELSE Seen>>}
<1>1. /\ \A i \in DOMAIN Tail(q) : i + 1 \in DOMAIN q /\ Tail(q)[i] = q[i + 1]
      /\ \A i \in DOMAIN q : i = 1 \/ (i - 1 \in DOMAIN Tail(q) /\ Tail(q)[i - 1] = q[i])
      /\ Head(q) = q[1] /\ 1 \in DOMAIN q
  BY TailElems
<1> DEFINE t == Tail(q)
           h == Head(q)
<1>2. /\ \A i \in DOMAIN t : \E j \in DOMAIN q : t[i] = q[j]
      /\ \A i \in DOMAIN q : q[i] = h \/ \E j \in DOMAIN t : t[j] = q[i]
      /\ \E i \in DOMAIN q : q[i] = h
  BY <1>1
<1> HIDE DEF t, h
<1>3. Carried(t) \subseteq Carried(q)
  BY <1>2 DEF Carried
<1>4. h.from = Empty => Carried(q) \subseteq Carried(t)
  BY <1>2 DEF Carried
<1>5. h.from # Empty => Carried(q) = Carried(t) \cup
        {<<h.from, h.body, IF h.type = "ACK" THEN Delivered ELSE Seen>>}
  BY <1>2 DEF Carried
<1> QED
  BY <1>3, <1>4, <1>5 DEF t, h

\* A request more, and one taken.
LEMMA AskedAppend ==
    ASSUME NEW T, NEW s \in Seq(T), NEW e \in T, NEW u
    PROVE  /\ e.req # "receipt" => Asked(u, Append(s, e)) = Asked(u, s)
           /\ e.req = "receipt" =>
                Asked(u, Append(s, e)) = Asked(u, s) \cup {<<u, e.msg, e.kind>>}
<1>1. /\ \A i \in DOMAIN Append(s, e) : (i \in DOMAIN s /\ Append(s, e)[i] = s[i]) \/ Append(s, e)[i] = e
      /\ \A i \in DOMAIN s : i \in DOMAIN Append(s, e) /\ Append(s, e)[i] = s[i]
      /\ Len(s) + 1 \in DOMAIN Append(s, e) /\ Append(s, e)[Len(s) + 1] = e
  BY AppendElems
<1> DEFINE a == Append(s, e)
<1> HIDE DEF a
<1> QED
  BY <1>1 DEF Asked, a

\* The same for a member's wire.
LEMMA AskedTail ==
    ASSUME NEW T, NEW s \in Seq(T), s # <<>>, NEW u
    PROVE  /\ Asked(u, Tail(s)) \subseteq Asked(u, s)
           /\ Head(s).req # "receipt" => Asked(u, Tail(s)) = Asked(u, s)
           /\ Head(s).req = "receipt" =>
                Asked(u, s) = Asked(u, Tail(s)) \cup {<<u, Head(s).msg, Head(s).kind>>}
<1>1. /\ \A i \in DOMAIN Tail(s) : i + 1 \in DOMAIN s /\ Tail(s)[i] = s[i + 1]
      /\ \A i \in DOMAIN s : i = 1 \/ (i - 1 \in DOMAIN Tail(s) /\ Tail(s)[i - 1] = s[i])
      /\ Head(s) = s[1] /\ 1 \in DOMAIN s
  BY TailElems
<1> DEFINE t == Tail(s)
           h == Head(s)
<1>2. /\ \A i \in DOMAIN t : \E j \in DOMAIN s : t[i] = s[j]
      /\ \A i \in DOMAIN s : s[i] = h \/ \E j \in DOMAIN t : t[j] = s[i]
      /\ \E i \in DOMAIN s : s[i] = h
  BY <1>1
<1> HIDE DEF t, h
<1>3. Asked(u, t) \subseteq Asked(u, s)
  BY <1>2 DEF Asked
<1>4. h.req # "receipt" => Asked(u, s) \subseteq Asked(u, t)
  BY <1>2 DEF Asked
<1>5. h.req = "receipt" => Asked(u, s) = Asked(u, t) \cup {<<u, h.msg, h.kind>>}
  BY <1>2 DEF Asked
<1> QED
  BY <1>3, <1>4, <1>5 DEF t, h

\* The receipts of markConversationRead.
LEMMA AskedSeen ==
    ASSUME NEW s \in Seq(Requests), NEW t \in Seq(Msgs), NEW u
    PROVE  Asked(u, s \o [i \in DOMAIN t |-> [req |-> "receipt", kind |-> Seen, msg |-> t[i]]])
             = Asked(u, s) \cup {<<u, t[i], Seen>> : i \in DOMAIN t}
<1> DEFINE a == [i \in DOMAIN t |-> [req |-> "receipt", kind |-> Seen, msg |-> t[i]]]
           c == s \o a
<1>1. DOMAIN t = 1..Len(t) /\ Len(t) \in Nat /\ DOMAIN s = 1..Len(s) /\ Len(s) \in Nat
  OBVIOUS
<1>2. /\ DOMAIN a = DOMAIN t
      /\ \A i \in DOMAIN t : a[i].req = "receipt" /\ a[i].kind = Seen /\ a[i].msg = t[i]
  OBVIOUS
<1>3. a \in Seq(Requests)
  <2>1. \A i \in DOMAIN t : [req |-> "receipt", kind |-> Seen, msg |-> t[i]] \in Requests
    BY DEF Requests, Kinds
  <2>2. a \in [1..Len(t) -> Requests]
    BY <1>1, <2>1
  <2> HIDE DEF a
  <2> QED
    BY <1>1, <2>2
<1> HIDE DEF a
<1>4. Len(a) = Len(t)
  BY <1>1, <1>2, <1>3
<1>5. /\ DOMAIN c = 1..(Len(s) + Len(t))
      /\ \A i \in 1..(Len(s) + Len(t)) : c[i] = IF i <= Len(s) THEN s[i] ELSE a[i - Len(s)]
  <2>1. /\ Len(c) = Len(s) + Len(a)
        /\ \A i \in 1..(Len(s) + Len(a)) : c[i] = IF i <= Len(s) THEN s[i] ELSE a[i - Len(s)]
    BY <1>3, ConcatProperties
  <2>2. c \in Seq(Requests)
    BY <1>3, ConcatProperties
  <2>3. DOMAIN c = 1..Len(c)
    BY <2>2
  <2> QED
    BY <1>4, <2>1, <2>3
<1>6. /\ \A i \in DOMAIN c : \/ i \in DOMAIN s /\ c[i] = s[i]
                             \/ i - Len(s) \in DOMAIN t /\ c[i] = a[i - Len(s)]
      /\ \A i \in DOMAIN s : i \in DOMAIN c /\ c[i] = s[i]
      /\ \A i \in DOMAIN t : i + Len(s) \in DOMAIN c /\ c[i + Len(s)] = a[i]
  BY <1>1, <1>5
<1> HIDE DEF c
<1>7. /\ \A i \in DOMAIN c : (\E j \in DOMAIN s : c[i] = s[j]) \/ (\E j \in DOMAIN t : c[i] = a[j])
      /\ \A i \in DOMAIN s : \E j \in DOMAIN c : c[j] = s[i]
      /\ \A i \in DOMAIN t : \E j \in DOMAIN c : c[j] = a[i]
  BY <1>6
<1>8. Asked(u, c) = Asked(u, s) \cup {<<u, t[i], Seen>> : i \in DOMAIN t}
  BY <1>2, <1>7 DEF Asked
<1> QED
  BY <1>8 DEF c, a

\* Receipts name members, messages and kinds.
LEMMA AllReceiptsType ==
    ASSUME Typed
    PROVE  AllReceipts \subseteq Members \X Msgs \X Kinds
<1>1. InboxReceipts \subseteq Members \X Msgs \X Kinds
  <2> SUFFICES ASSUME NEW i \in DOMAIN inbox, inbox[i].from # Empty
               PROVE  <<inbox[i].from, inbox[i].body, IF inbox[i].type = "ACK" THEN Delivered ELSE Seen>>
                        \in Members \X Msgs \X Kinds
    BY DEF InboxReceipts
  <2> DEFINE p == inbox[i]
  <2>1. p \in InPackets
    BY InboxPacket DEF Typed
  <2>2. LoginAck.from = Empty /\ \A m, S : SendAck(m, S).from = Empty /\ GroupInfo(S).from = Empty
    BY DEF LoginAck, SendAck, GroupInfo, Packet
  <2> HIDE DEF p
  <2>3. \E u \in Members, m \in Msgs, k \in Kinds : p = Receipt(u, m, k)
    BY <2>1, <2>2 DEF InPackets, p
  <2>4. PICK u \in Members, m \in Msgs, k \in Kinds : p = Receipt(u, m, k)
    BY <2>3
  <2>5. <<u, m, k>> = <<p.from, p.body, IF p.type = "ACK" THEN Delivered ELSE Seen>>
    BY <2>4, OneReceipt
  <2> QED
    BY <2>5 DEF p
<1>2. \A u \in Members : OutboxReceipts(u) \subseteq Members \X Msgs \X Kinds
  <2> SUFFICES ASSUME NEW u \in Members, NEW i \in DOMAIN moutbox[u], moutbox[u][i].req = "receipt"
               PROVE  <<u, moutbox[u][i].msg, moutbox[u][i].kind>> \in Members \X Msgs \X Kinds
    BY DEF OutboxReceipts
  <2>1. moutbox[u] \in Seq(Requests)
    BY DEF Typed, Shapes
  <2>2. moutbox[u][i] \in Requests
    <3> HIDE DEF Requests
    <3> QED
      BY <2>1
  <2> QED
    BY <2>2 DEF Requests
<1>3. ThreadReceipts \subseteq Members \X Msgs \X Kinds
  <2> SUFFICES ASSUME NEW u \in Members, mcur[u] # NoReceipt
               PROVE  <<u, mcur[u].msg, mcur[u].kind>> \in Members \X Msgs \X Kinds
    BY DEF ThreadReceipts
  <2>1. mcur[u].msg # 0
    BY Rows DEF Typed
  <2>2. mcur[u].msg \in Msgs /\ mcur[u].kind \in Kinds
    BY <2>1, Rows DEF Typed
  <2> QED
    BY <2>2
<1>4. QueuedReceipts \subseteq Members \X Msgs \X Kinds
  BY Rows DEF QueuedReceipts, Typed
<1>5. UNION {OutboxReceipts(u) : u \in Members} \subseteq Members \X Msgs \X Kinds
  BY <1>2
<1> DEFINE O == UNION {OutboxReceipts(u) : u \in Members}
<1>6. AllReceipts = InboxReceipts \cup O \cup ThreadReceipts \cup QueuedReceipts
  BY DEF AllReceipts
<1>7. O \subseteq Members \X Msgs \X Kinds
  BY <1>5
<1> HIDE DEF O
<1> QED
  BY <1>1, <1>3, <1>4, <1>5, <1>6, <1>7

-----------------------------------------------------------------------------
(***************************************************************************)
(* What the steps do to the receipts on the wires.                         *)
(***************************************************************************)
LEMMA InboxOther ==
    ASSUME Typed,
           \/ AckSender \/ SendGroupInfo \/ AuthorLogin \/ LoginArrives
           \/ \E m \in Msgs, S \in SUBSET Members : SnapshotArrives(m, S)
           \/ \E S \in SUBSET Members : InfoArrives(S)
    PROVE  InboxReceipts' = InboxReceipts
<1>1. inbox \in Seq(InPackets)
  BY DEF Typed, Shapes
<1>2. LoginAck.from = Empty /\ \A m, S : SendAck(m, S).from = Empty /\ GroupInfo(S).from = Empty
  BY DEF LoginAck, SendAck, GroupInfo, Packet
<1>3. ASSUME NEW p \in InPackets, p.from = Empty, inbox' = Append(inbox, p) \/ inbox' = inbox
      PROVE  InboxReceipts' = InboxReceipts
  <2>1. Carried(Append(inbox, p)) = Carried(inbox)
    BY <1>1, <1>3, CarriedAppend
  <2>2. Carried(inbox') = Carried(inbox)
    BY <1>3, <2>1
  <2> QED
    BY <2>2, ReceiptSets
<1>4. ASSUME Head(inbox).from = Empty, ReadInbox
      PROVE  InboxReceipts' = InboxReceipts
  <2>1. inbox # <<>> /\ inbox' = Tail(inbox)
    BY <1>4 DEF ReadInbox
  <2> QED
    BY <1>1, <1>4, <2>1, CarriedTail, ReceiptSets
<1>5. CASE AckSender
  <2>1. SendAck(cur, snap) \in InPackets
    BY <1>5, InPacketTypes DEF AckSender, Typed, TypeOK
  <2>2. inbox' = Append(inbox, SendAck(cur, snap)) \/ inbox' = inbox
    BY <1>5 DEF AckSender
  <2> QED
    BY <1>2, <1>3, <2>1, <2>2
<1>6. CASE SendGroupInfo
  <2>1. GroupInfo(members) \in InPackets
    BY InPacketTypes DEF Typed, TypeOK
  <2>2. inbox' = Append(inbox, GroupInfo(members))
    BY <1>6 DEF SendGroupInfo
  <2> QED
    BY <1>2, <1>3, <2>1, <2>2
<1>7. CASE AuthorLogin
  <2>1. inbox = <<>> /\ inbox' = <<LoginAck>>
    BY <1>7 DEF AuthorLogin, Typed, DeadEnds
  <2>2. inbox' = Append(inbox, LoginAck) /\ LoginAck \in InPackets
    BY <2>1, InPacketTypes
  <2> QED
    BY <1>2, <1>3, <2>2
<1>8. CASE LoginArrives
  BY <1>2, <1>4, <1>8 DEF LoginArrives
<1>9. ASSUME NEW m \in Msgs, NEW S \in SUBSET Members, SnapshotArrives(m, S)
      PROVE  InboxReceipts' = InboxReceipts
  BY <1>2, <1>4, <1>9 DEF SnapshotArrives
<1>10. ASSUME NEW S \in SUBSET Members, InfoArrives(S)
       PROVE  InboxReceipts' = InboxReceipts
  BY <1>2, <1>4, <1>10 DEF InfoArrives
<1> QED
  BY <1>5, <1>6, <1>7, <1>8, <1>9, <1>10

\* The author reads a receipt.
LEMMA InboxRead ==
    ASSUME Typed, NEW u \in Members, NEW m \in Msgs, NEW k \in Kinds, ReceiptArrives(u, m, k)
    PROVE  InboxReceipts = InboxReceipts' \cup {<<u, m, k>>}
<1> DEFINE p == Head(inbox)
<1>1. inbox \in Seq(InPackets) /\ inbox # <<>> /\ inbox' = Tail(inbox) /\ p = Receipt(u, m, k)
  BY DEF Typed, Shapes, ReceiptArrives, ReadInbox
<1>2. p.from # Empty /\ <<u, m, k>> = <<p.from, p.body, IF p.type = "ACK" THEN Delivered ELSE Seen>>
  <2> HIDE DEF p
  <2> QED
    BY <1>1, OneReceipt
<1>3. Carried(inbox) = Carried(Tail(inbox)) \cup
        {<<p.from, p.body, IF p.type = "ACK" THEN Delivered ELSE Seen>>}
  BY <1>1, <1>2, CarriedTail
<1> QED
  BY <1>1, <1>2, <1>3, ReceiptSets

\* A receipt is sent to the author.
LEMMA InboxSent ==
    ASSUME Typed, NEW u \in Members, NEW m \in Msgs, NEW k \in Kinds,
           inbox' = Append(inbox, Receipt(u, m, k))
    PROVE  InboxReceipts' = InboxReceipts \cup {<<u, m, k>>}
<1> DEFINE p == Receipt(u, m, k)
<1>1. inbox \in Seq(InPackets) /\ p \in InPackets /\ inbox' = Append(inbox, p)
  BY InPacketTypes DEF Typed, Shapes
<1>2. p.from # Empty /\ <<u, m, k>> = <<p.from, p.body, IF p.type = "ACK" THEN Delivered ELSE Seen>>
  BY OneReceipt
<1> HIDE DEF p
<1> QED
  BY <1>1, <1>2, CarriedAppend, ReceiptSets

\* The row that the flush is about to send.
LEMMA FlushedRow ==
    ASSUME Typed, apc = "mark" \/ pend # <<>>
    PROVE  LET q == queue[Head(pend)] IN
           /\ Head(pend) \in DOMAIN queue
           /\ q.from \in Members /\ q.msg \in Msgs /\ q.kind \in Kinds
<1>1. pend \in Seq(Nat) /\ pend # <<>>
  BY DEF Typed, Shapes
<1>2. Head(pend) \in DOMAIN queue
  BY <1>1, TailElems DEF Typed, TypeOK
<1> QED
  BY <1>2, Rows DEF Typed

\* A server thread takes a request.
LEMMA OutboxTaken ==
    ASSUME Typed, NEW u \in Members, NEW what, Request(u, what)
    PROVE  /\ \A v \in Members \ {u} : OutboxReceipts(v)' = OutboxReceipts(v)
           /\ OutboxReceipts(u)' \subseteq OutboxReceipts(u)
           /\ what # "receipt" => OutboxReceipts(u)' = OutboxReceipts(u)
           /\ what = "receipt" => OutboxReceipts(u) =
                OutboxReceipts(u)' \cup {<<u, Head(moutbox[u]).msg, Head(moutbox[u]).kind>>}
<1>1. moutbox[u] \in Seq(Requests) /\ moutbox[u] # <<>> /\ moutbox \in [Members -> Seq(Requests)]
  BY DEF Request, Typed, Shapes
<1>2. moutbox' = [moutbox EXCEPT ![u] = Tail(moutbox[u])] /\ Head(moutbox[u]).req = what
  BY DEF Request
<1>3. moutbox'[u] = Tail(moutbox[u]) /\ \A v \in Members \ {u} : moutbox'[v] = moutbox[v]
  BY <1>1, <1>2
<1>4. \A v \in Members \ {u} : OutboxReceipts(v)' = OutboxReceipts(v)
  BY <1>3, ReceiptSets
<1>5. /\ Asked(u, Tail(moutbox[u])) \subseteq Asked(u, moutbox[u])
      /\ what # "receipt" => Asked(u, Tail(moutbox[u])) = Asked(u, moutbox[u])
      /\ what = "receipt" => Asked(u, moutbox[u]) =
           Asked(u, Tail(moutbox[u])) \cup {<<u, Head(moutbox[u]).msg, Head(moutbox[u]).kind>>}
  BY <1>1, <1>2, AskedTail
<1> QED
  BY <1>3, <1>4, <1>5, ReceiptSets

\* A member's client sends a delivered ACK.
LEMMA OutboxReceived ==
    ASSUME Typed, NEW u \in Members, MemberReceive(u)
    PROVE  /\ \A v \in Members \ {u} : OutboxReceipts(v)' = OutboxReceipts(v)
           /\ Head(minbox[u]) \in Msgs
           /\ OutboxReceipts(u)' = OutboxReceipts(u) \cup {<<u, Head(minbox[u]), Delivered>>}
<1> DEFINE m == Head(minbox[u])
           e == [req |-> "receipt", kind |-> Delivered, msg |-> m]
<1>1. minbox[u] \in Seq(Msgs) /\ minbox[u] # <<>>
  BY DEF MemberReceive, Typed, Shapes
<1>2. m \in Msgs
  BY <1>1, TailElems
<1>3. e \in Requests /\ e.req = "receipt" /\ e.kind = Delivered /\ e.msg = m
  BY <1>2 DEF Requests, Kinds
<1>4. moutbox' = [moutbox EXCEPT ![u] = Append(moutbox[u], e)]
  BY DEF MemberReceive
<1>5. moutbox \in [Members -> Seq(Requests)]
  BY DEF Typed, Shapes
<1> HIDE DEF e
<1>6. moutbox'[u] = Append(moutbox[u], e) /\ \A v \in Members \ {u} : moutbox'[v] = moutbox[v]
  BY <1>4, <1>5
<1>7. Asked(u, Append(moutbox[u], e)) = Asked(u, moutbox[u]) \cup {<<u, m, Delivered>>}
  BY <1>3, <1>5, AskedAppend
<1> QED
  BY <1>2, <1>6, <1>7, ReceiptSets

\* And read receipts.
LEMMA OutboxOpened ==
    ASSUME Typed, NEW u \in Members, OpenGroup(u)
    PROVE  /\ \A v \in Members \ {u} : OutboxReceipts(v)' = OutboxReceipts(v)
           /\ OutboxReceipts(u)' =
                OutboxReceipts(u) \cup {<<u, unread[u][i], Seen>> : i \in DOMAIN unread[u]}
<1> DEFINE t == unread[u]
           a == [i \in DOMAIN t |-> [req |-> "receipt", kind |-> Seen, msg |-> t[i]]]
<1>1. t \in Seq(Msgs) /\ moutbox \in [Members -> Seq(Requests)]
  BY DEF Typed, Shapes
<1>2. moutbox' = [moutbox EXCEPT ![u] = moutbox[u] \o a]
  BY DEF OpenGroup
<1>3. Asked(u, moutbox[u] \o a) = Asked(u, moutbox[u]) \cup {<<u, t[i], Seen>> : i \in DOMAIN t}
  BY <1>1, AskedSeen
<1> HIDE DEF a
<1>4. moutbox'[u] = moutbox[u] \o a /\ \A v \in Members \ {u} : moutbox'[v] = moutbox[v]
  BY <1>1, <1>2
<1> QED
  BY <1>3, <1>4, ReceiptSets

\* The other requests, and a new connection, carry no receipt.
LEMMA OutboxOther ==
    ASSUME Typed, NEW u \in Members, AskLeave(u) \/ MemberLogin(u)
    PROVE  \A v \in Members : OutboxReceipts(v)' = OutboxReceipts(v)
<1>1. moutbox \in [Members -> Seq(Requests)]
  BY DEF Typed, Shapes
<1>2. CASE AskLeave(u)
  <2> DEFINE e == [req |-> "leave", kind |-> NoRow, msg |-> 0]
  <2>1. e \in Requests /\ e.req # "receipt"
    BY DEF Requests
  <2>2. moutbox' = [moutbox EXCEPT ![u] = Append(moutbox[u], e)]
    BY <1>2 DEF AskLeave
  <2> HIDE DEF e
  <2>3. moutbox'[u] = Append(moutbox[u], e) /\ \A v \in Members \ {u} : moutbox'[v] = moutbox[v]
    BY <1>1, <2>2
  <2>4. Asked(u, Append(moutbox[u], e)) = Asked(u, moutbox[u])
    BY <1>1, <2>1, AskedAppend
  <2> QED
    BY <2>3, <2>4, ReceiptSets
<1>3. CASE MemberLogin(u)
  <2> DEFINE e == [req |-> "sync", kind |-> NoRow, msg |-> Newest(got[u])]
  <2>1. e.req # "receipt"
    OBVIOUS
  <2>2. moutbox' = [moutbox EXCEPT ![u] = <<e>>] /\ moutbox[u] = <<>>
    BY <1>3 DEF MemberLogin, Typed, DeadEnds
  <2> HIDE DEF e
  <2>3. moutbox'[u] = <<e>> /\ \A v \in Members \ {u} : moutbox'[v] = moutbox[v]
    BY <1>1, <2>2
  <2>4. Asked(u, <<e>>) = {} /\ Asked(u, <<>>) = {}
    BY <2>1 DEF Asked
  <2> QED
    BY <2>2, <2>3, <2>4, ReceiptSets
<1> QED
  BY <1>2, <1>3

-----------------------------------------------------------------------------
\* What is nowhere cannot come from nowhere.
NoNewReceipt == AllReceipts' \subseteq AllReceipts

\* The four places where receipts are.
LEMMA Somewhere ==
    \A r : /\ r \in AllReceipts <=>
                \/ r \in InboxReceipts \/ (\E v \in Members : r \in OutboxReceipts(v))
                \/ r \in ThreadReceipts \/ r \in QueuedReceipts
           /\ r \in AllReceipts' <=>
                \/ r \in InboxReceipts' \/ (\E v \in Members : r \in OutboxReceipts(v)')
                \/ r \in ThreadReceipts' \/ r \in QueuedReceipts'
BY DEF AllReceipts

\* An untouched place.
LEMMA SamePlaces ==
    /\ inbox' = inbox => InboxReceipts' = InboxReceipts
    /\ moutbox' = moutbox => \A v : OutboxReceipts(v)' = OutboxReceipts(v)
    /\ mcur' = mcur => ThreadReceipts' = ThreadReceipts
    /\ queue' = queue => QueuedReceipts' = QueuedReceipts
BY DEF InboxReceipts, OutboxReceipts, ThreadReceipts, QueuedReceipts

\* The thread of u has passed its receipt on.
LEMMA HandledDone ==
    ASSUME Typed, NEW u \in Members, mcur' = [mcur EXCEPT ![u] = NoReceipt]
    PROVE  ThreadReceipts' \subseteq ThreadReceipts
BY DEF ThreadReceipts, Typed, Shapes

\* The receipt in its hands.
LEMMA InHand ==
    ASSUME Typed, NEW u \in Members, mpc[u] \in {"update", "forward", "queue"}
    PROVE  /\ mcur[u].msg \in Msgs /\ mcur[u].kind \in Kinds
           /\ <<u, mcur[u].msg, mcur[u].kind>> \in ThreadReceipts
<1>1. mcur[u].msg # 0
  BY DEF Typed, TypeOK
<1>2. mcur[u].msg \in Msgs /\ mcur[u].kind \in Kinds /\ mcur[u] # NoReceipt
  BY <1>1, Rows DEF Typed
<1> QED
  BY <1>2 DEF ThreadReceipts

\* What every step does but those in which a member's client reads a message.
Idle ==
    /\ NoNewReceipt
    /\ UNCHANGED <<opened, told>>

\* Then receipts stay true.
LEMMA TrueStays ==
    ASSUME ReceiptsTrue, Idle
    PROVE  ReceiptsTrue'
BY DEF Idle, ReceiptsTrue, NoNewReceipt

\* Only a member's client makes a receipt.
LEMMA NewReceiptStep ==
    Typed /\ [Next]_vars => (Idle \/ \E w \in Members : MemberReceive(w) \/ OpenGroup(w))
<1> SUFFICES ASSUME Typed, [Next]_vars
             PROVE  (Idle \/ \E w \in Members : MemberReceive(w) \/ OpenGroup(w))
    OBVIOUS
<1>1. ASSUME NEW m \in Msgs, SendGroupMessage(m)
      PROVE  (Idle \/ \E w \in Members : MemberReceive(w) \/ OpenGroup(w))
  BY <1>1, SamePlaces, Somewhere DEF SendGroupMessage, author, member, tables, store, Idle,
     NoNewReceipt
<1>2. ASSUME SaveMessage
      PROVE  (Idle \/ \E w \in Members : MemberReceive(w) \/ OpenGroup(w))
  BY <1>2, SamePlaces, Somewhere DEF SaveMessage, Goto, author, member, tables, store, Idle,
     NoNewReceipt
<1>3. ASSUME ListRecipients
      PROVE  (Idle \/ \E w \in Members : MemberReceive(w) \/ OpenGroup(w))
  BY <1>3, SamePlaces, Somewhere DEF ListRecipients, Goto, author, member, tables, store, Idle,
     NoNewReceipt
<1>4. ASSUME InsertReceiptRows
      PROVE  (Idle \/ \E w \in Members : MemberReceive(w) \/ OpenGroup(w))
  BY <1>4, SamePlaces, Somewhere DEF InsertReceiptRows, Goto, author, member, tables, store,
     Idle, NoNewReceipt
<1>5. ASSUME FanOut
      PROVE  (Idle \/ \E w \in Members : MemberReceive(w) \/ OpenGroup(w))
  BY <1>5, SamePlaces, Somewhere DEF FanOut, Goto, author, member, tables, store, Idle,
     NoNewReceipt
<1>6. ASSUME AckSender
      PROVE  (Idle \/ \E w \in Members : MemberReceive(w) \/ OpenGroup(w))
  BY <1>6, InboxOther, SamePlaces, Somewhere DEF AckSender, author, member, tables, store, Idle,
     NoNewReceipt
<1>7. ASSUME SendGroupInfo
      PROVE  (Idle \/ \E w \in Members : MemberReceive(w) \/ OpenGroup(w))
  BY <1>7, InboxOther, SamePlaces, Somewhere DEF SendGroupInfo, author, member, tables, store,
     Idle, NoNewReceipt
<1>8. ASSUME NEW u \in Members, NEW m \in Msgs, NEW k \in Kinds, ReceiptArrives(u, m, k)
      PROVE  (Idle \/ \E w \in Members : MemberReceive(w) \/ OpenGroup(w))
  <2>1. InboxReceipts' \subseteq InboxReceipts
    BY <1>8, InboxRead
  <2> QED
    BY <1>8, <2>1, SamePlaces, Somewhere DEF ReceiptArrives, ReadInbox, member, tables, Idle,
       NoNewReceipt
<1>9. ASSUME NEW m \in Msgs, NEW S \in SUBSET Members, SnapshotArrives(m, S)
      PROVE  (Idle \/ \E w \in Members : MemberReceive(w) \/ OpenGroup(w))
  <2>1. InboxReceipts' = InboxReceipts
    BY <1>9, InboxOther
  <2> QED
    BY <1>9, <2>1, SamePlaces, Somewhere DEF SnapshotArrives, ReadInbox, member, tables, Idle,
       NoNewReceipt
<1>10. ASSUME NEW S \in SUBSET Members, InfoArrives(S)
      PROVE  (Idle \/ \E w \in Members : MemberReceive(w) \/ OpenGroup(w))
  <2>1. InboxReceipts' = InboxReceipts
    BY <1>10, InboxOther
  <2> QED
    BY <1>10, <2>1, SamePlaces, Somewhere DEF InfoArrives, ReadInbox, member, tables, Idle,
       NoNewReceipt
<1>11. ASSUME LoginArrives
      PROVE  (Idle \/ \E w \in Members : MemberReceive(w) \/ OpenGroup(w))
  BY <1>11, InboxOther, SamePlaces, Somewhere DEF LoginArrives, ReadInbox, author, member,
     tables, store, Idle, NoNewReceipt
<1>12. ASSUME AuthorDrop
      PROVE  (Idle \/ \E w \in Members : MemberReceive(w) \/ OpenGroup(w))
  <2>1. Carried(<<>>) = {}
    BY DEF Carried
  <2>2. InboxReceipts' = {}
    BY <1>12, <2>1, ReceiptSets DEF AuthorDrop
  <2> QED
    BY <1>12, <2>2, SamePlaces, Somewhere DEF AuthorDrop, member, tables, Idle, NoNewReceipt
<1>13. ASSUME AuthorLeaves
      PROVE  (Idle \/ \E w \in Members : MemberReceive(w) \/ OpenGroup(w))
  BY <1>13, SamePlaces, Somewhere DEF AuthorLeaves, Goto, author, member, tables, store, Idle,
     NoNewReceipt
<1>14. ASSUME AuthorLogin
      PROVE  (Idle \/ \E w \in Members : MemberReceive(w) \/ OpenGroup(w))
  BY <1>14, InboxOther, SamePlaces, Somewhere DEF AuthorLogin, author, member, tables, store,
     Idle, NoNewReceipt
<1>15. ASSUME ReadQueue
      PROVE  (Idle \/ \E w \in Members : MemberReceive(w) \/ OpenGroup(w))
  BY <1>15, SamePlaces, Somewhere DEF ReadQueue, Goto, author, member, tables, store, Idle,
     NoNewReceipt
<1>16. ASSUME SendQueued
      PROVE  (Idle \/ \E w \in Members : MemberReceive(w) \/ OpenGroup(w))
  <2> DEFINE q == queue[Head(pend)]
  <2>1. Head(pend) \in DOMAIN queue /\ q.from \in Members /\ q.msg \in Msgs /\ q.kind \in Kinds
    BY <1>16, FlushedRow DEF SendQueued
  <2>2. <<q.from, q.msg, q.kind>> \in QueuedReceipts
    BY <2>1 DEF QueuedReceipts
  <2>3. inbox' = inbox \/ inbox' = Append(inbox, Receipt(q.from, q.msg, q.kind))
    BY <1>16 DEF SendQueued
  <2> HIDE DEF q
  <2>4. InboxReceipts' \subseteq InboxReceipts \cup QueuedReceipts
    <3>1. CASE inbox' = inbox
      BY <3>1, SamePlaces
    <3>2. CASE inbox' = Append(inbox, Receipt(q.from, q.msg, q.kind))
      <4>1. InboxReceipts' = InboxReceipts \cup {<<q.from, q.msg, q.kind>>}
        BY <2>1, <3>2, InboxSent
      <4> QED
        BY <2>2, <4>1
    <3> QED
      BY <2>3, <3>1, <3>2
  <2> QED
    BY <1>16, <2>4, SamePlaces, Somewhere DEF SendQueued, member, tables, Idle, NoNewReceipt
<1>17. ASSUME MarkQueued
      PROVE  (Idle \/ \E w \in Members : MemberReceive(w) \/ OpenGroup(w))
  <2> DEFINE Q == [from : Members, msg : Msgs, kind : Kinds, delivered : BOOLEAN]
  <2>1. queue' = [queue EXCEPT ![Head(pend)].delivered = TRUE]
    BY <1>17 DEF MarkQueued
  <2>2. \A i \in DOMAIN queue : queue[i] \in Q
    <3>1. queue \in Seq(Q)
      BY DEF Typed, Shapes
    <3> HIDE DEF Q
    <3> QED
      BY <3>1
  <2>3. \A i \in DOMAIN queue :
          queue'[i] = IF i = Head(pend) THEN [queue[i] EXCEPT !.delivered = TRUE] ELSE queue[i]
    BY <2>1
  <2>4. \A i \in DOMAIN queue : /\ queue'[i].from = queue[i].from /\ queue'[i].msg = queue[i].msg
                                /\ queue'[i].kind = queue[i].kind
    BY <2>2, <2>3
  <2>5. DOMAIN queue' = DOMAIN queue
    BY <2>1
  <2>6. QueuedReceipts' = QueuedReceipts
    <3> HIDE DEF Q
    <3> QED
      BY <2>4, <2>5 DEF QueuedReceipts
  <2> QED
    BY <1>17, <2>6, SamePlaces, Somewhere DEF MarkQueued, member, Idle, NoNewReceipt
<1>18. ASSUME AuthorJoins
      PROVE  (Idle \/ \E w \in Members : MemberReceive(w) \/ OpenGroup(w))
  BY <1>18, SamePlaces, Somewhere DEF AuthorJoins, Goto, author, member, tables, store, Idle,
     NoNewReceipt
<1>19. ASSUME NEW u \in Members, MemberReceive(u)
      PROVE  (Idle \/ \E w \in Members : MemberReceive(w) \/ OpenGroup(w))
  BY <1>19
<1>20. ASSUME NEW u \in Members, OpenGroup(u)
      PROVE  (Idle \/ \E w \in Members : MemberReceive(w) \/ OpenGroup(w))
  BY <1>20
<1>21. ASSUME NEW u \in Members, AskLeave(u)
      PROVE  (Idle \/ \E w \in Members : MemberReceive(w) \/ OpenGroup(w))
  BY <1>21, OutboxOther, SamePlaces, Somewhere DEF AskLeave, author, member, tables, store,
     Idle, NoNewReceipt
<1>22. ASSUME NEW u \in Members, MemberDrop(u)
      PROVE  (Idle \/ \E w \in Members : MemberReceive(w) \/ OpenGroup(w))
  <2>1. moutbox \in [Members -> Seq(Requests)]
    BY DEF Typed, Shapes
  <2>2. moutbox'[u] = <<>> /\ \A v \in Members \ {u} : moutbox'[v] = moutbox[v]
    BY <1>22, <2>1 DEF MemberDrop
  <2>3. Asked(u, <<>>) = {}
    BY DEF Asked
  <2>4. \A v \in Members : OutboxReceipts(v)' \subseteq OutboxReceipts(v)
    BY <2>2, <2>3, ReceiptSets
  <2> QED
    BY <1>22, <2>4, SamePlaces, Somewhere DEF MemberDrop, author, tables, member, Idle,
       NoNewReceipt
<1>23. ASSUME NEW u \in Members, MemberRestart(u)
      PROVE  (Idle \/ \E w \in Members : MemberReceive(w) \/ OpenGroup(w))
  BY <1>23, SamePlaces, Somewhere DEF MemberRestart, author, tables, Idle, NoNewReceipt
<1>24. ASSUME NEW u \in Members, MemberLogin(u)
      PROVE  (Idle \/ \E w \in Members : MemberReceive(w) \/ OpenGroup(w))
  BY <1>24, OutboxOther, SamePlaces, Somewhere DEF MemberLogin, author, member, tables, store,
     Idle, NoNewReceipt
<1>25. ASSUME NEW u \in Members, TakeReceipt(u)
      PROVE  (Idle \/ \E w \in Members : MemberReceive(w) \/ OpenGroup(w))
  <2> DEFINE p == Head(moutbox[u])
  <2>1. Request(u, "receipt")
    BY <1>25 DEF TakeReceipt
  <2>2. /\ \A v \in Members : OutboxReceipts(v)' \subseteq OutboxReceipts(v)
        /\ <<u, p.msg, p.kind>> \in OutboxReceipts(u)
    BY <2>1, OutboxTaken
  <2>3. mcur' = mcur \/ mcur' = [mcur EXCEPT ![u] = [msg |-> p.msg, kind |-> p.kind]]
    BY <1>25 DEF TakeReceipt
  <2>4. ThreadReceipts' \subseteq ThreadReceipts \cup {<<u, p.msg, p.kind>>}
    <3> HIDE DEF p
    <3> QED
      BY <2>3 DEF ThreadReceipts, Typed, Shapes
  <2> QED
    BY <1>25, <2>2, <2>4, SamePlaces, Somewhere DEF TakeReceipt, author, tables, member, Idle,
       NoNewReceipt
<1>26. ASSUME NEW u \in Members, MarkReceipt(u)
      PROVE  (Idle \/ \E w \in Members : MemberReceive(w) \/ OpenGroup(w))
  BY <1>26, SamePlaces, Somewhere DEF MarkReceipt, MGoto, author, member, tables, store, Idle,
     NoNewReceipt
<1>27. ASSUME NEW u \in Members, Forward(u)
      PROVE  (Idle \/ \E w \in Members : MemberReceive(w) \/ OpenGroup(w))
  <2>1. /\ mcur[u].msg \in Msgs /\ mcur[u].kind \in Kinds
        /\ <<u, mcur[u].msg, mcur[u].kind>> \in ThreadReceipts
    BY <1>27, InHand DEF Forward
  <2>2. inbox' = inbox \/ inbox' = Append(inbox, Receipt(u, mcur[u].msg, mcur[u].kind))
    BY <1>27 DEF Forward
  <2>3. InboxReceipts' \subseteq InboxReceipts \cup ThreadReceipts
    <3>1. CASE inbox' = inbox
      BY <3>1, SamePlaces
    <3>2. CASE inbox' = Append(inbox, Receipt(u, mcur[u].msg, mcur[u].kind))
      <4>1. InboxReceipts' = InboxReceipts \cup {<<u, mcur[u].msg, mcur[u].kind>>}
        BY <2>1, <3>2, InboxSent
      <4> QED
        BY <2>1, <4>1
    <3> QED
      BY <2>2, <3>1, <3>2
  <2>4. ThreadReceipts' \subseteq ThreadReceipts
    BY <1>27, HandledDone DEF Forward
  <2> QED
    BY <1>27, <2>3, <2>4, SamePlaces, Somewhere DEF Forward, tables, member, Idle, NoNewReceipt
<1>28. ASSUME NEW u \in Members, ForwardOffline(u)
      PROVE  (Idle \/ \E w \in Members : MemberReceive(w) \/ OpenGroup(w))
  BY <1>28, SamePlaces, Somewhere DEF ForwardOffline, MGoto, author, member, tables, store,
     Idle, NoNewReceipt
<1>29. ASSUME NEW u \in Members, QueueReceipt(u)
      PROVE  (Idle \/ \E w \in Members : MemberReceive(w) \/ OpenGroup(w))
  <2> DEFINE e == [from |-> u, msg |-> mcur[u].msg, kind |-> mcur[u].kind, delivered |-> FALSE]
             Q == [from : Members, msg : Msgs, kind : Kinds, delivered : BOOLEAN]
  <2>1. /\ mcur[u].msg \in Msgs /\ mcur[u].kind \in Kinds
        /\ <<u, mcur[u].msg, mcur[u].kind>> \in ThreadReceipts
    BY <1>29, InHand DEF QueueReceipt
  <2>2. e \in Q /\ queue \in Seq(Q) /\ e.from = u /\ e.msg = mcur[u].msg /\ e.kind = mcur[u].kind
    BY <2>1 DEF Typed, Shapes
  <2>3. queue' = Append(queue, e) \/ queue' = queue
    BY <1>29 DEF QueueReceipt
  <2> HIDE DEF e, Q
  <2>4. \A i \in DOMAIN queue' : (i \in DOMAIN queue /\ queue'[i] = queue[i]) \/ queue'[i] = e
    BY <2>2, <2>3, AppendElems
  <2>5. QueuedReceipts' \subseteq QueuedReceipts \cup ThreadReceipts
    BY <2>1, <2>2, <2>4 DEF QueuedReceipts
  <2>6. ThreadReceipts' \subseteq ThreadReceipts
    BY <1>29, HandledDone DEF QueueReceipt
  <2> QED
    BY <1>29, <2>5, <2>6, SamePlaces, Somewhere DEF QueueReceipt, author, member, Idle,
       NoNewReceipt
<1>30. ASSUME NEW u \in Members, SyncGroup(u)
      PROVE  (Idle \/ \E w \in Members : MemberReceive(w) \/ OpenGroup(w))
  <2>1. \A v \in Members : OutboxReceipts(v)' = OutboxReceipts(v)
    BY <1>30, OutboxTaken DEF SyncGroup
  <2> QED
    BY <1>30, <2>1, SamePlaces, Somewhere DEF SyncGroup, author, tables, member, Idle,
       NoNewReceipt
<1>31. ASSUME NEW u \in Members, RemoveMember(u)
      PROVE  (Idle \/ \E w \in Members : MemberReceive(w) \/ OpenGroup(w))
  <2>1. \A v \in Members : OutboxReceipts(v)' = OutboxReceipts(v)
    BY <1>31, OutboxTaken DEF RemoveMember
  <2> QED
    BY <1>31, <2>1, SamePlaces, Somewhere DEF RemoveMember, author, tables, member, Idle,
       NoNewReceipt
<1>32. ASSUME NEW u \in Members, DeleteReceipts(u)
      PROVE  (Idle \/ \E w \in Members : MemberReceive(w) \/ OpenGroup(w))
  BY <1>32, SamePlaces, Somewhere DEF DeleteReceipts, MGoto, author, member, tables, store,
     Idle, NoNewReceipt
<1>33. ASSUME NEW u \in Members, MemberLeaves(u)
      PROVE  (Idle \/ \E w \in Members : MemberReceive(w) \/ OpenGroup(w))
  BY <1>33, SamePlaces, Somewhere DEF MemberLeaves, MGoto, author, member, tables, store, Idle,
     NoNewReceipt
<1>34. CASE UNCHANGED vars
  BY <1>34, SamePlaces, Somewhere DEF vars, author, member, tables, store, Idle, NoNewReceipt
<1>35. CASE AuthorReceive
  BY <1>35, <1>8, <1>9, <1>10, <1>11, Received DEF Typed, StatusInv, HonestInv, AccountInv
<1>36. ASSUME MessageFails PROVE (Idle \/ \E w \in Members : MemberReceive(w) \/ OpenGroup(w))
  BY <1>36, SamePlaces, Somewhere DEF MessageFails, Goto, author, member, tables, store, Idle,
     NoNewReceipt
<1>37. ASSUME FlushFails PROVE (Idle \/ \E w \in Members : MemberReceive(w) \/ OpenGroup(w))
  BY <1>37, SamePlaces, Somewhere DEF FlushFails, Goto, author, member, tables, store, Idle,
     NoNewReceipt
<1>38. ASSUME Crash PROVE (Idle \/ \E w \in Members : MemberReceive(w) \/ OpenGroup(w))
  <2>1. Carried(<<>>) = {} /\ \A u : Asked(u, <<>>) = {}
    BY DEF Carried, Asked
  <2>2. InboxReceipts' = {} /\ \A u \in Members : OutboxReceipts(u)' = {}
    BY <1>38, <2>1, Crashed, ReceiptSets
  <2>3. ThreadReceipts' = {}
    BY <1>38, Crashed DEF ThreadReceipts
  <2> QED
    BY <1>38, <2>2, <2>3, Crashed, SamePlaces, Somewhere DEF Idle, NoNewReceipt
<1>39. ASSUME NEW u \in Members, RequestFails(u)
      PROVE  (Idle \/ \E w \in Members : MemberReceive(w) \/ OpenGroup(w))
  <2>1. PICK what \in {"receipt", "sync", "leave"} : Request(u, what)
    BY <1>39 DEF RequestFails
  <2>2. \A v \in Members : OutboxReceipts(v)' \subseteq OutboxReceipts(v)
    BY <2>1, OutboxTaken
  <2> QED
    BY <1>39, <2>2, SamePlaces, Somewhere DEF RequestFails, Request, author, tables, Idle, NoNewReceipt
<1>40. ASSUME NEW u \in Members, HandlerFails(u)
      PROVE  (Idle \/ \E w \in Members : MemberReceive(w) \/ OpenGroup(w))
  <2>1. ThreadReceipts' \subseteq ThreadReceipts
    BY <1>40, HandledDone DEF HandlerFails
  <2> QED
    BY <1>40, <2>1, SamePlaces, Somewhere DEF HandlerFails, author, tables, Idle, NoNewReceipt
<1> QED
  BY <1>1, <1>2, <1>3, <1>4, <1>5, <1>6, <1>7, <1>8, <1>9, <1>10, <1>11, <1>12, <1>13, <1>14,
     <1>15, <1>16, <1>17, <1>18, <1>19, <1>20, <1>21, <1>22, <1>23, <1>24, <1>25, <1>26, <1>27,
     <1>28, <1>29, <1>30, <1>31, <1>32, <1>33, <1>34, <1>35, <1>36, <1>37,
     <1>38, <1>39, <1>40 DEF Next, AuthorStep, MemberStep

\* A delivered ACK is sent when the message is read from the socket.
LEMMA ReceiveTrue ==
    ASSUME Typed, ReceiptsTrue, NEW u \in Members, MemberReceive(u)
    PROVE  ReceiptsTrue'
<1> DEFINE m == Head(minbox[u])
<1>1. /\ \A v \in Members \ {u} : OutboxReceipts(v)' = OutboxReceipts(v)
      /\ m \in Msgs /\ OutboxReceipts(u)' = OutboxReceipts(u) \cup {<<u, m, Delivered>>}
  BY OutboxReceived
<1>2. UNCHANGED <<inbox, mcur, queue, opened>>
  BY DEF MemberReceive, author, tables
<1>3. told' = [told EXCEPT ![u][m] = IF @ < Delivered THEN Delivered ELSE @]
  BY DEF MemberReceive
<1> HIDE DEF m
<1>4. AllReceipts' \subseteq AllReceipts \cup {<<u, m, Delivered>>}
  BY <1>1, <1>2, SamePlaces, Somewhere
<1>5. told \in [Members -> [Msgs -> Levels]]
  BY DEF Typed, Shapes
<1>6. /\ \A v \in Members, n \in Msgs : told'[v][n] >= told[v][n] /\ told'[v][n] \in Nat
      /\ told'[u][m] >= Delivered
  BY <1>1, <1>3, <1>5, SMTT(30) DEF Levels, NoRow, Sent, Delivered, Seen
<1>9. ASSUME NEW r \in AllReceipts'
      PROVE  /\ r[3] = Seen => r[2] \in opened'[r[1]]
             /\ r[3] <= told'[r[1]][r[2]]
  <2>1. CASE r \in AllReceipts
    <3>1. r[1] \in Members /\ r[2] \in Msgs /\ r[3] \in Kinds
      BY <2>1, AllReceiptsType
    <3>2. told[r[1]][r[2]] \in Nat /\ r[3] <= told[r[1]][r[2]]
      <4>1. told[r[1]][r[2]] \in Levels
        BY <1>5, <3>1
      <4>2. r[3] <= told[r[1]][r[2]]
        BY <2>1 DEF ReceiptsTrue
      <4> QED
        BY <4>1, <4>2 DEF Levels, NoRow, Sent, Delivered, Seen
    <3>3. r[3] <= told'[r[1]][r[2]]
      BY <1>6, <3>1, <3>2 DEF Kinds, Delivered, Seen
    <3> QED
      BY <1>2, <2>1, <3>3 DEF ReceiptsTrue
  <2>2. CASE r = <<u, m, Delivered>>
    BY <1>6, <2>2 DEF Delivered, Seen
  <2> QED
    BY <1>4, <2>1, <2>2
<1> QED
  BY <1>9 DEF ReceiptsTrue

\* A read receipt is sent when the message is opened.
LEMMA OpenTrue ==
    ASSUME Typed, ReceiptsTrue, NEW u \in Members, OpenGroup(u)
    PROVE  ReceiptsTrue'
<1> DEFINE N == {unread[u][i] : i \in DOMAIN unread[u]}
           R == {<<u, unread[u][i], Seen>> : i \in DOMAIN unread[u]}
<1>1. /\ \A v \in Members \ {u} : OutboxReceipts(v)' = OutboxReceipts(v)
      /\ OutboxReceipts(u)' = OutboxReceipts(u) \cup R
  BY OutboxOpened
<1>2. UNCHANGED <<inbox, mcur, queue>>
  BY DEF OpenGroup, author, tables
<1>3. /\ told' = [told EXCEPT ![u] = [m \in Msgs |-> IF m \in N THEN Seen ELSE @[m]]]
      /\ opened' = [opened EXCEPT ![u] = @ \cup N]
  BY DEF OpenGroup
<1>4. /\ told \in [Members -> [Msgs -> Levels]] /\ opened \in [Members -> SUBSET Msgs]
      /\ unread \in [Members -> Seq(Msgs)]
  BY DEF Typed, Shapes
<1>5. N \subseteq Msgs
  BY <1>4
<1>6. \A r \in R : r[1] = u /\ r[2] \in N /\ r[3] = Seen
  OBVIOUS
<1> HIDE DEF N, R
<1>7. AllReceipts' \subseteq AllReceipts \cup R
  BY <1>1, <1>2, SamePlaces, Somewhere
<1>8. /\ \A v \in Members, n \in Msgs : told'[v][n] >= told[v][n] /\ told'[v][n] \in Nat
      /\ \A n \in N : told'[u][n] = Seen
  <2>1. \A v \in Members, n \in Msgs :
          told'[v][n] = IF v = u /\ n \in N THEN Seen ELSE told[v][n]
    BY <1>3, <1>4
  <2>2. \A v \in Members, n \in Msgs : told[v][n] \in Levels
    BY <1>4
  <2>3. \A l \in Levels : l \in Nat /\ l <= Seen /\ l >= l /\ Seen \in Nat
    BY DEF Levels, NoRow, Sent, Delivered, Seen
  <2>4. \A v \in Members, n \in Msgs : told'[v][n] \in Nat
    BY <2>1, <2>2, <2>3
  <2>5. \A v \in Members, n \in Msgs : told'[v][n] >= told[v][n]
    <3> SUFFICES ASSUME NEW v \in Members, NEW n \in Msgs PROVE told'[v][n] >= told[v][n]
      OBVIOUS
    <3>1. told'[v][n] = told[v][n] \/ told'[v][n] = Seen
      BY <2>1
    <3>2. told[v][n] \in Nat /\ told[v][n] <= Seen /\ Seen \in Nat
      BY <2>2, <2>3
    <3> QED
      BY <3>1, <3>2
  <2> QED
    BY <1>5, <2>1, <2>4, <2>5
<1>9. \A v \in Members : opened[v] \subseteq opened'[v] /\ (v = u => N \subseteq opened'[v])
  BY <1>3, <1>4
<1>10. ASSUME NEW r \in AllReceipts'
       PROVE  /\ r[3] = Seen => r[2] \in opened'[r[1]]
              /\ r[3] <= told'[r[1]][r[2]]
  <2>1. CASE r \in AllReceipts
    <3>1. r[1] \in Members /\ r[2] \in Msgs /\ r[3] \in Kinds
      BY <2>1, AllReceiptsType
    <3>2. told[r[1]][r[2]] \in Nat /\ r[3] <= told[r[1]][r[2]]
      <4>1. told[r[1]][r[2]] \in Levels
        BY <1>4, <3>1
      <4>2. r[3] <= told[r[1]][r[2]]
        BY <2>1 DEF ReceiptsTrue
      <4> QED
        BY <4>1, <4>2 DEF Levels, NoRow, Sent, Delivered, Seen
    <3>3. r[3] <= told'[r[1]][r[2]]
      BY <1>8, <3>1, <3>2 DEF Kinds, Delivered, Seen
    <3> QED
      BY <1>9, <2>1, <3>1, <3>3 DEF ReceiptsTrue
  <2>2. CASE r \in R
    BY <1>6, <1>8, <1>9, <2>2 DEF Seen
  <2> QED
    BY <1>7, <2>1, <2>2
<1> QED
  BY <1>10 DEF ReceiptsTrue

\* Receipts stay true.
LEMMA TrueStep == Typed /\ ReceiptsTrue /\ [Next]_vars => ReceiptsTrue'
BY NewReceiptStep, TrueStays, ReceiveTrue, OpenTrue

-----------------------------------------------------------------------------
\* The store and what it tells of are untouched.
LEMMA RowsStay ==
    ASSUME RowsTrue, UNCHANGED <<local, opened, told>>
    PROVE  RowsTrue'
BY DEF RowsTrue

\* More was read than before.
LEMMA RowsGrow ==
    ASSUME RowsTrue, local' = local,
           \A u \in Members : opened[u] \subseteq opened'[u],
           \A u \in Members, m \in Msgs : told[u][m] >= Delivered => told'[u][m] >= Delivered
    PROVE  RowsTrue'
BY DEF RowsTrue

\* The author's rows stay true.
LEMMA RowsStep ==
    Typed /\ ReceiptsTrue /\ RowsTrue /\ [Next]_vars => RowsTrue'
<1> SUFFICES ASSUME Typed, ReceiptsTrue, RowsTrue, [Next]_vars
             PROVE  RowsTrue'
    OBVIOUS
<1>1. ASSUME NEW m \in Msgs, SendGroupMessage(m) PROVE RowsTrue'
  BY <1>1, RowsStay DEF SendGroupMessage, author, member, tables, store
<1>2. ASSUME SaveMessage PROVE RowsTrue'
  BY <1>2, RowsStay DEF SaveMessage, Goto, author, member, tables, store
<1>3. ASSUME ListRecipients PROVE RowsTrue'
  BY <1>3, RowsStay DEF ListRecipients, Goto, author, member, tables, store
<1>4. ASSUME InsertReceiptRows PROVE RowsTrue'
  BY <1>4, RowsStay DEF InsertReceiptRows, Goto, author, member, tables, store
<1>5. ASSUME FanOut PROVE RowsTrue'
  BY <1>5, RowsStay DEF FanOut, Goto, author, member, tables, store
<1>6. ASSUME AckSender PROVE RowsTrue'
  BY <1>6, RowsStay DEF AckSender, Goto, author, member, tables, store
<1>7. ASSUME SendGroupInfo PROVE RowsTrue'
  BY <1>7, RowsStay DEF SendGroupInfo, author, member, tables, store
<1>8. ASSUME NEW u \in Members, NEW m \in Msgs, NEW k \in Kinds, ReceiptArrives(u, m, k)
      PROVE  RowsTrue'
  <2>1. local \in [Msgs -> [Members -> Levels]] /\ local' = [local EXCEPT ![m][u] = Raise(local[m][u], k)]
    BY <1>8 DEF ReceiptArrives, ApplyReceipt, Typed, TypeOK
  <2>2. UNCHANGED <<opened, told>>
    BY <1>8 DEF ReceiptArrives, ReadInbox, member
  <2>3. \A n \in Msgs, v \in Members :
          local'[n][v] = local[n][v] \/ (n = m /\ v = u /\ local'[n][v] = k)
    BY <2>1, RaiseType
  <2>4. <<u, m, k>> \in AllReceipts
    BY <1>8, InboxRead, Somewhere
  <2>5. told[u][m] >= k /\ told[u][m] >= Delivered /\ (k = Seen => m \in opened[u])
    <3>1. told[u][m] \in Levels
      BY DEF Typed, Shapes
    <3> QED
      BY <2>4, <3>1 DEF ReceiptsTrue, Levels, Kinds, NoRow, Sent, Delivered, Seen
  <2> QED
    BY <2>2, <2>3, <2>5 DEF RowsTrue
<1>9. ASSUME NEW m \in Msgs, NEW S \in SUBSET Members, SnapshotArrives(m, S)
      PROVE  RowsTrue'
  <2>1. local \in [Msgs -> [Members -> Levels]]
    BY DEF Typed, TypeOK
  <2>2. \A n \in Msgs, v \in Members : local'[n][v] = local[n][v] \/ local'[n][v] = Sent
    BY <1>9, <2>1 DEF SnapshotArrives, ApplySnapshot
  <2>3. UNCHANGED <<opened, told>>
    BY <1>9 DEF SnapshotArrives, ReadInbox, member
  <2> QED
    BY <2>2, <2>3 DEF RowsTrue, Sent, Delivered, Seen
<1>10. ASSUME NEW S \in SUBSET Members, InfoArrives(S) PROVE RowsTrue'
  <2>1. \A n \in Msgs, v \in Members : local'[n][v] = local[n][v] \/ local'[n][v] = NoRow
    BY <1>10 DEF InfoArrives, ApplyInfo
  <2>2. UNCHANGED <<opened, told>>
    BY <1>10 DEF InfoArrives, ReadInbox, member
  <2> QED
    BY <2>1, <2>2 DEF RowsTrue, NoRow, Delivered, Seen
<1>11. ASSUME LoginArrives PROVE RowsTrue'
  BY <1>11, RowsStay DEF LoginArrives, ReadInbox, author, member, tables, store
<1>12. ASSUME AuthorDrop PROVE RowsTrue'
  BY <1>12, RowsStay DEF AuthorDrop, author, member, tables, store
<1>13. ASSUME AuthorLeaves PROVE RowsTrue'
  BY <1>13, RowsStay DEF AuthorLeaves, Goto, author, member, tables, store
<1>14. ASSUME AuthorLogin PROVE RowsTrue'
  BY <1>14, RowsStay DEF AuthorLogin, Goto, author, member, tables, store
<1>15. ASSUME ReadQueue PROVE RowsTrue'
  BY <1>15, RowsStay DEF ReadQueue, Goto, author, member, tables, store
<1>16. ASSUME SendQueued PROVE RowsTrue'
  BY <1>16, RowsStay DEF SendQueued, Goto, author, member, tables, store
<1>17. ASSUME MarkQueued PROVE RowsTrue'
  BY <1>17, RowsStay DEF MarkQueued, Goto, author, member, tables, store
<1>18. ASSUME AuthorJoins PROVE RowsTrue'
  BY <1>18, RowsStay DEF AuthorJoins, Goto, author, member, tables, store
<1>19. ASSUME NEW u \in Members, MemberReceive(u) PROVE RowsTrue'
  <2> DEFINE m == Head(minbox[u])
  <2>1. /\ local' = local /\ opened' = opened
        /\ told' = [told EXCEPT ![u][m] = IF @ < Delivered THEN Delivered ELSE @]
    BY <1>19 DEF MemberReceive, store
  <2> HIDE DEF m
  <2>3. told \in [Members -> [Msgs -> Levels]]
    BY DEF Typed, Shapes
  <2>2. \A v \in Members, n \in Msgs : told[v][n] >= Delivered => told'[v][n] >= Delivered
    BY <2>1, <2>3, SMTT(30) DEF Levels, NoRow, Sent, Delivered, Seen
  <2> QED
    BY <2>1, <2>2, RowsGrow
<1>20. ASSUME NEW u \in Members, OpenGroup(u) PROVE RowsTrue'
  <2> DEFINE N == {unread[u][i] : i \in DOMAIN unread[u]}
  <2>1. local' = local
    BY <1>20 DEF OpenGroup, store
  <2>2. \A v \in Members : opened[v] \subseteq opened'[v]
    BY <1>20 DEF OpenGroup, Typed, Shapes
  <2>3. told' = [told EXCEPT ![u] = [m \in Msgs |-> IF m \in N THEN Seen ELSE @[m]]]
    BY <1>20 DEF OpenGroup
  <2>4. told \in [Members -> [Msgs -> Levels]]
    BY DEF Typed, Shapes
  <2> HIDE DEF N
  <2>5. \A v \in Members, n \in Msgs : told'[v][n] = told[v][n] \/ told'[v][n] = Seen
    BY <2>3, <2>4
  <2>6. \A v \in Members, n \in Msgs : told[v][n] >= Delivered => told'[v][n] >= Delivered
    BY <2>5 DEF Delivered, Seen
  <2> QED
    BY <2>1, <2>2, <2>6, RowsGrow
<1>21. ASSUME NEW u \in Members, AskLeave(u) PROVE RowsTrue'
  BY <1>21, RowsStay DEF AskLeave, author, member, tables, store
<1>22. ASSUME NEW u \in Members, MemberDrop(u) PROVE RowsTrue'
  BY <1>22, RowsStay DEF MemberDrop, author, member, tables, store
<1>23. ASSUME NEW u \in Members, MemberRestart(u) PROVE RowsTrue'
  BY <1>23, RowsStay DEF MemberRestart, author, member, tables, store
<1>24. ASSUME NEW u \in Members, MemberLogin(u) PROVE RowsTrue'
  BY <1>24, RowsStay DEF MemberLogin, MGoto, author, member, tables, store
<1>25. ASSUME NEW u \in Members, TakeReceipt(u) PROVE RowsTrue'
  BY <1>25, RowsStay DEF TakeReceipt, MGoto, Request, author, member, tables, store
<1>26. ASSUME NEW u \in Members, MarkReceipt(u) PROVE RowsTrue'
  BY <1>26, RowsStay DEF MarkReceipt, MGoto, author, member, tables, store
<1>27. ASSUME NEW u \in Members, Forward(u) PROVE RowsTrue'
  BY <1>27, RowsStay DEF Forward, MGoto, author, member, tables, store
<1>28. ASSUME NEW u \in Members, ForwardOffline(u) PROVE RowsTrue'
  BY <1>28, RowsStay DEF ForwardOffline, MGoto, author, member, tables, store
<1>29. ASSUME NEW u \in Members, QueueReceipt(u) PROVE RowsTrue'
  BY <1>29, RowsStay DEF QueueReceipt, MGoto, author, member, tables, store
<1>30. ASSUME NEW u \in Members, SyncGroup(u) PROVE RowsTrue'
  BY <1>30, RowsStay DEF SyncGroup, Request, author, member, tables, store
<1>31. ASSUME NEW u \in Members, RemoveMember(u) PROVE RowsTrue'
  BY <1>31, RowsStay DEF RemoveMember, MGoto, Request, author, member, tables, store
<1>32. ASSUME NEW u \in Members, DeleteReceipts(u) PROVE RowsTrue'
  BY <1>32, RowsStay DEF DeleteReceipts, MGoto, author, member, tables, store
<1>33. ASSUME NEW u \in Members, MemberLeaves(u) PROVE RowsTrue'
  BY <1>33, RowsStay DEF MemberLeaves, MGoto, author, member, tables, store
<1>34. CASE UNCHANGED vars
  BY <1>34, RowsStay DEF vars, author, member, tables, store
<1>35. CASE AuthorReceive
  BY <1>35, <1>8, <1>9, <1>10, <1>11, Received DEF Typed, StatusInv, HonestInv, AccountInv
<1>36. ASSUME MessageFails PROVE RowsTrue'
  BY <1>36, RowsStay DEF MessageFails, Goto, author, member, tables, store
<1>37. ASSUME FlushFails PROVE RowsTrue'
  BY <1>37, RowsStay DEF FlushFails, Goto, author, member, tables, store
<1>38. ASSUME Crash PROVE RowsTrue'
  BY <1>38, RowsStay DEF Crash, author, member, tables, store
<1>39. ASSUME NEW u \in Members, RequestFails(u) PROVE RowsTrue'
  BY <1>39, RowsStay DEF RequestFails, Request, author, member, tables, store
<1>40. ASSUME NEW u \in Members, HandlerFails(u) PROVE RowsTrue'
  BY <1>40, RowsStay DEF HandlerFails, MGoto, author, member, tables, store
<1> QED
  BY <1>1, <1>2, <1>3, <1>4, <1>5, <1>6, <1>7, <1>8, <1>9, <1>10, <1>11, <1>12, <1>13, <1>14,
     <1>15, <1>16, <1>17, <1>18, <1>19, <1>20, <1>21, <1>22, <1>23, <1>24, <1>25, <1>26, <1>27,
     <1>28, <1>29, <1>30, <1>31, <1>32, <1>33, <1>34, <1>35, <1>36, <1>37,
     <1>38, <1>39, <1>40 DEF Next, AuthorStep, MemberStep

\* At the start nothing is claimed.
LEMMA HonestInit == Init => HonestInv
<1> SUFFICES ASSUME Init PROVE HonestInv
    OBVIOUS
<1>1. StatusInv
  BY StatusInit
<1>2. DOMAIN inbox = {} /\ DOMAIN queue = {} /\ \A u \in Members : DOMAIN moutbox[u] = {}
  BY DEF Init
<1>3. InboxReceipts = {} /\ QueuedReceipts = {} /\ \A u \in Members : OutboxReceipts(u) = {}
  BY <1>2 DEF InboxReceipts, QueuedReceipts, OutboxReceipts
<1>4. ThreadReceipts = {}
  BY DEF Init, ThreadReceipts
<1>5. AllReceipts = {}
  BY <1>3, <1>4, Somewhere
<1>7. ReceiptsTrue
  BY <1>5 DEF ReceiptsTrue
<1>8. \A m \in Msgs, u \in Members : local[m][u] = NoRow
  BY DEF Init
<1>9. RowsTrue
  BY <1>8 DEF RowsTrue, NoRow, Delivered, Seen
<1> QED
  BY <1>1, <1>7, <1>9 DEF HonestInv

\* No step claims more than happened.
LEMMA HonestStep == HonestInv /\ [Next]_vars => HonestInv'
<1> SUFFICES ASSUME HonestInv, [Next]_vars PROVE HonestInv'
    OBVIOUS
<1>1. StatusInv /\ Typed /\ ReceiptsTrue /\ RowsTrue
  BY DEF HonestInv, StatusInv
<1> QED
  BY <1>1, StatusStep, TrueStep, RowsStep DEF HonestInv

\* The bubble stands on rows that all say what it says, and no member with
\* a row on the server is missing from them.
LEMMA HonestStatus == HonestInv => StatusHonest
<1> SUFFICES ASSUME HonestInv PROVE StatusHonest
    OBVIOUS
<1>1. ASSUME NEW m \in Msgs, NEW u \in members, rows[m][u] # NoRow
      PROVE  /\ status[m] = Seen => m \in opened[u]
             /\ status[m] >= Delivered => told[u][m] >= Delivered
  <2>1. u \in Members /\ status[m] \in Levels /\ local[m][u] \in Levels
    BY DEF HonestInv, StatusInv, Typed, TypeOK
  <2>2. status[m] >= Delivered => status[m] \in Kinds
    BY <2>1 DEF Levels, Kinds, NoRow, Sent, Delivered, Seen
  <2>3. status[m] \in Kinds => local[m][u] # NoRow
    BY <1>1 DEF HonestInv, StatusInv, SnapshotComplete
  <2>4. status[m] = Seen => local[m][u] = Seen
    BY <2>1, <2>3 DEF HonestInv, StatusInv, SeenByAll, Kinds
  <2>5. status[m] \in Kinds => local[m][u] >= Delivered
    <3>1. status[m] \in Kinds => local[m][u] # Sent
      BY <2>1 DEF HonestInv, StatusInv, SeenByAll
    <3> QED
      BY <2>1, <2>3, <3>1 DEF Levels, NoRow, Sent, Delivered, Seen
  <2> QED
    BY <2>1, <2>2, <2>4, <2>5 DEF HonestInv, RowsTrue
<1> QED
  BY <1>1 DEF HonestInv, RowsTrue, StatusHonest

(***************************************************************************)
(* The author's store never claims more than happened, whatever order the  *)
(* receipts, the snapshot and the departures are handled in, and whatever  *)
(* statement throws or when the server crashes: a row says delivered only  *)
(* of a member whose client has reported the message, seen only of one who *)
(* has opened it, and the bubble says either only when every recipient     *)
(* still in the group has (handleReadReceipt, handleGroupDelivered,        *)
(* recomputeGroupAggregate).                                               *)
(***************************************************************************)
THEOREM NeverOverstated == Spec => []StatusHonest
BY HonestInit, HonestStep, HonestStatus, PTL DEF Spec

-----------------------------------------------------------------------------
(***************************************************************************)
(* Where a receipt goes from each of the places it can be.                 *)
(***************************************************************************)
GoesLost(r) == \E x \in lost' : x[1] = r[1] /\ x[2] = r[2] /\ x[3] = r[3]

\* From the author's store and the list of lost ones: nowhere.
StoreKept ==
    /\ lost \subseteq lost'
    /\ members' \subseteq members
    /\ \A n \in Msgs, v \in members' : local'[n][v] >= local[n][v]

\* From the author's wire: into the store, or it is lost.
InboxKept ==
    \A r \in InboxReceipts : r \in InboxReceipts' \/ GoesLost(r) \/ local'[r[2]][r[1]] >= r[3]

\* From a member's wire: to its server thread, or it is lost.
OutboxKept ==
    \A v \in Members : \A r \in OutboxReceipts(v) :
        \/ r \in OutboxReceipts(v)' \/ GoesLost(r)
        \/ mcur'[v].msg = r[2] /\ mcur'[v].kind = r[3]

\* From the thread: to the author's wire, or into the queue, or it is lost.
HandKept ==
    \A v \in Members : mcur[v].msg # 0 =>
        LET r == <<v, mcur[v].msg, mcur[v].kind>> IN
        \/ mcur'[v] = mcur[v] \/ r \in InboxReceipts' \/ GoesLost(r)
        \/ \E i \in Undelivered' : /\ queue'[i].from = r[1] /\ queue'[i].msg = r[2]
                                   /\ queue'[i].kind >= r[3]

\* From the queue: only the flush takes it.
QueueKept ==
    \A i \in DOMAIN queue :
        /\ i \in DOMAIN queue' /\ queue'[i].from = queue[i].from
        /\ queue'[i].msg = queue[i].msg /\ queue'[i].kind = queue[i].kind
        /\ queue'[i].delivered = queue[i].delivered \/ (apc = "mark" /\ i = Head(pend))

\* An untouched store.
LEMMA StoreSame ==
    ASSUME Typed, UNCHANGED <<local, members>>, lost \subseteq lost'
    PROVE  StoreKept
<1>1. \A n \in Msgs, v \in members : local[n][v] \in Levels
  BY DEF Typed, TypeOK
<1>2. \A l \in Levels : l >= l
  BY DEF Levels, NoRow, Sent, Delivered, Seen
<1> QED
  BY <1>1, <1>2 DEF StoreKept

\* No receipt read.
LEMMA InboxSame ==
    ASSUME InboxReceipts \subseteq InboxReceipts'
    PROVE  InboxKept
BY DEF InboxKept

\* No receipt taken.
LEMMA OutboxSame ==
    ASSUME \A v \in Members : OutboxReceipts(v) \subseteq OutboxReceipts(v)'
    PROVE  OutboxKept
BY DEF OutboxKept

\* No receipt handled.
LEMMA HandSame ==
    ASSUME mcur' = mcur
    PROVE  HandKept
BY DEF HandKept

\* An untouched queue.
LEMMA QueueSame ==
    ASSUME queue' = queue
    PROVE  QueueKept
BY DEF QueueKept

\* A receipt that has been listed as lost.
LEMMA Listed ==
    ASSUME NEW u, NEW m, NEW k, NEW why, <<u, m, k, why>> \in lost'
    PROVE  GoesLost(<<u, m, k>>)
BY DEF GoesLost

\* The store keeps what it has of the members.
LEMMA StoreStep == Typed /\ SnapshotComplete /\ [Next]_vars => StoreKept
<1> SUFFICES ASSUME Typed, SnapshotComplete, [Next]_vars
             PROVE  StoreKept
    OBVIOUS
<1>1. ASSUME NEW m \in Msgs, SendGroupMessage(m) PROVE StoreKept
  BY <1>1, StoreSame DEF SendGroupMessage, author, member, tables, store
<1>2. ASSUME SaveMessage PROVE StoreKept
  BY <1>2, StoreSame DEF SaveMessage, Goto, author, member, tables, store
<1>3. ASSUME ListRecipients PROVE StoreKept
  BY <1>3, StoreSame DEF ListRecipients, Goto, author, member, tables, store
<1>4. ASSUME InsertReceiptRows PROVE StoreKept
  BY <1>4, StoreSame DEF InsertReceiptRows, Goto, author, member, tables, store
<1>5. ASSUME FanOut PROVE StoreKept
  BY <1>5, StoreSame DEF FanOut, Goto, author, member, tables, store
<1>6. ASSUME AckSender PROVE StoreKept
  BY <1>6, StoreSame DEF AckSender, Goto, author, member, tables, store
<1>7. ASSUME SendGroupInfo PROVE StoreKept
  BY <1>7, StoreSame DEF SendGroupInfo, author, member, tables, store
<1>8. ASSUME NEW u \in Members, NEW m \in Msgs, NEW k \in Kinds, ReceiptArrives(u, m, k)
      PROVE  StoreKept
  <2>1. local \in [Msgs -> [Members -> Levels]] /\ local' = [local EXCEPT ![m][u] = Raise(local[m][u], k)]
    BY <1>8 DEF ReceiptArrives, ApplyReceipt, Typed, TypeOK
  <2>2. members' = members /\ members \subseteq Members /\ lost \subseteq lost'
    BY <1>8 DEF ReceiptArrives, ApplyReceipt, ReadInbox, tables, Typed, TypeOK
  <2>3. Raise(local[m][u], k) >= local[m][u]
    BY <2>1, RaiseType
  <2>4. \A l \in Levels : l >= l
    BY DEF Levels, NoRow, Sent, Delivered, Seen
  <2>5. \A n \in Msgs, v \in Members : local'[n][v] >= local[n][v]
    BY <2>1, <2>3, <2>4
  <2> QED
    BY <2>2, <2>5 DEF StoreKept
<1>9. ASSUME NEW m \in Msgs, NEW S \in SUBSET Members, SnapshotArrives(m, S)
      PROVE  StoreKept
  <2>1. local \in [Msgs -> [Members -> Levels]]
    BY DEF Typed, TypeOK
  <2>2. \A n \in Msgs, v \in Members : local'[n][v] = local[n][v] \/ (local[n][v] = NoRow /\ local'[n][v] = Sent)
    BY <1>9, <2>1 DEF SnapshotArrives, ApplySnapshot
  <2>3. members' = members /\ members \subseteq Members /\ lost \subseteq lost'
    BY <1>9 DEF SnapshotArrives, ApplySnapshot, ReadInbox, tables, Typed, TypeOK
  <2>4. (\A l \in Levels : l >= l) /\ Sent >= NoRow
    BY DEF Levels, NoRow, Sent, Delivered, Seen
  <2>5. \A n \in Msgs, v \in Members : local'[n][v] >= local[n][v]
    BY <2>1, <2>2, <2>4
  <2> QED
    BY <2>3, <2>5 DEF StoreKept
<1>10. ASSUME NEW S \in SUBSET Members, InfoArrives(S) PROVE StoreKept
  <2>1. inbox \in Seq(InPackets) /\ inbox # <<>> /\ Head(inbox) = GroupInfo(S)
    BY <1>10 DEF InfoArrives, ReadInbox, Typed, Shapes
  <2>2. inbox[1] = GroupInfo(S) /\ 1 \in DOMAIN inbox
    BY <2>1, TailElems
  <2>3. GroupInfo(S).type = "GROUP_INFO" /\ GroupInfo(S).key = S
    BY DEF GroupInfo, Packet
  <2>4. members \subseteq S /\ members \subseteq Members
    BY <2>2, <2>3 DEF SnapshotComplete, Typed, TypeOK
  <2>5. \A n \in Msgs, v \in members : local'[n][v] = local[n][v] /\ local[n][v] \in Levels
    BY <1>10, <2>4 DEF InfoArrives, ApplyInfo, Typed, TypeOK
  <2>6. \A l \in Levels : l >= l
    BY DEF Levels, NoRow, Sent, Delivered, Seen
  <2>7. members' = members /\ lost \subseteq lost'
    BY <1>10 DEF InfoArrives, ApplyInfo, ReadInbox, tables
  <2> QED
    BY <2>5, <2>6, <2>7 DEF StoreKept
<1>11. ASSUME LoginArrives PROVE StoreKept
  BY <1>11, StoreSame DEF LoginArrives, ReadInbox, author, member, tables, store
<1>12. ASSUME AuthorDrop PROVE StoreKept
  BY <1>12, StoreSame DEF AuthorDrop, author, member, tables, store
<1>13. ASSUME AuthorLeaves PROVE StoreKept
  BY <1>13, StoreSame DEF AuthorLeaves, Goto, author, member, tables, store
<1>14. ASSUME AuthorLogin PROVE StoreKept
  BY <1>14, StoreSame DEF AuthorLogin, Goto, author, member, tables, store
<1>15. ASSUME ReadQueue PROVE StoreKept
  BY <1>15, StoreSame DEF ReadQueue, Goto, author, member, tables, store
<1>16. ASSUME SendQueued PROVE StoreKept
  BY <1>16, StoreSame DEF SendQueued, Goto, author, member, tables, store
<1>17. ASSUME MarkQueued PROVE StoreKept
  BY <1>17, StoreSame DEF MarkQueued, Goto, author, member, tables, store
<1>18. ASSUME AuthorJoins PROVE StoreKept
  BY <1>18, StoreSame DEF AuthorJoins, Goto, author, member, tables, store
<1>19. ASSUME NEW u \in Members, MemberReceive(u) PROVE StoreKept
  BY <1>19, StoreSame DEF MemberReceive, author, member, tables, store
<1>20. ASSUME NEW u \in Members, OpenGroup(u) PROVE StoreKept
  BY <1>20, StoreSame DEF OpenGroup, author, member, tables, store
<1>21. ASSUME NEW u \in Members, AskLeave(u) PROVE StoreKept
  BY <1>21, StoreSame DEF AskLeave, author, member, tables, store
<1>22. ASSUME NEW u \in Members, MemberDrop(u) PROVE StoreKept
  BY <1>22, StoreSame DEF MemberDrop, author, member, tables, store
<1>23. ASSUME NEW u \in Members, MemberRestart(u) PROVE StoreKept
  BY <1>23, StoreSame DEF MemberRestart, author, member, tables, store
<1>24. ASSUME NEW u \in Members, MemberLogin(u) PROVE StoreKept
  BY <1>24, StoreSame DEF MemberLogin, MGoto, author, member, tables, store
<1>25. ASSUME NEW u \in Members, TakeReceipt(u) PROVE StoreKept
  BY <1>25, StoreSame DEF TakeReceipt, MGoto, Request, author, member, tables, store
<1>26. ASSUME NEW u \in Members, MarkReceipt(u) PROVE StoreKept
  BY <1>26, StoreSame DEF MarkReceipt, MGoto, author, member, tables, store
<1>27. ASSUME NEW u \in Members, Forward(u) PROVE StoreKept
  BY <1>27, StoreSame DEF Forward, MGoto, author, member, tables, store
<1>28. ASSUME NEW u \in Members, ForwardOffline(u) PROVE StoreKept
  BY <1>28, StoreSame DEF ForwardOffline, MGoto, author, member, tables, store
<1>29. ASSUME NEW u \in Members, QueueReceipt(u) PROVE StoreKept
  BY <1>29, StoreSame DEF QueueReceipt, MGoto, author, member, tables, store
<1>30. ASSUME NEW u \in Members, SyncGroup(u) PROVE StoreKept
  BY <1>30, StoreSame DEF SyncGroup, Request, author, member, tables, store
<1>31. ASSUME NEW u \in Members, RemoveMember(u) PROVE StoreKept
  <2>1. members' \subseteq members /\ members \subseteq Members /\ lost' = lost /\ local' = local
    BY <1>31 DEF RemoveMember, store, Typed, TypeOK
  <2>2. \A n \in Msgs, v \in members : local[n][v] \in Levels
    BY <2>1 DEF Typed, TypeOK
  <2>3. \A l \in Levels : l >= l
    BY DEF Levels, NoRow, Sent, Delivered, Seen
  <2> QED
    BY <2>1, <2>2, <2>3 DEF StoreKept
<1>32. ASSUME NEW u \in Members, DeleteReceipts(u) PROVE StoreKept
  BY <1>32, StoreSame DEF DeleteReceipts, MGoto, author, member, tables, store
<1>33. ASSUME NEW u \in Members, MemberLeaves(u) PROVE StoreKept
  BY <1>33, StoreSame DEF MemberLeaves, MGoto, author, member, tables, store
<1>34. CASE UNCHANGED vars
  BY <1>34, StoreSame DEF vars, author, member, tables, store
<1>35. CASE AuthorReceive
  BY <1>35, <1>8, <1>9, <1>10, <1>11, Received DEF Typed, StatusInv, HonestInv, AccountInv
<1>36. ASSUME MessageFails PROVE StoreKept
  BY <1>36, StoreSame DEF MessageFails, Goto, author, member, tables, store
<1>37. ASSUME FlushFails PROVE StoreKept
  BY <1>37, StoreSame DEF FlushFails, Goto, author, member, tables, store
<1>38. ASSUME Crash PROVE StoreKept
  BY <1>38, StoreSame DEF Crash, author, member, tables, store
<1>39. ASSUME NEW u \in Members, RequestFails(u) PROVE StoreKept
  BY <1>39, StoreSame DEF RequestFails, Request, author, member, tables, store
<1>40. ASSUME NEW u \in Members, HandlerFails(u) PROVE StoreKept
  BY <1>40, StoreSame DEF HandlerFails, MGoto, author, member, tables, store
<1> QED
  BY <1>1, <1>2, <1>3, <1>4, <1>5, <1>6, <1>7, <1>8, <1>9, <1>10, <1>11, <1>12, <1>13, <1>14,
     <1>15, <1>16, <1>17, <1>18, <1>19, <1>20, <1>21, <1>22, <1>23, <1>24, <1>25, <1>26, <1>27,
     <1>28, <1>29, <1>30, <1>31, <1>32, <1>33, <1>34, <1>35, <1>36, <1>37,
     <1>38, <1>39, <1>40 DEF Next, AuthorStep, MemberStep

\* The author's wire.
LEMMA WireStep == Typed /\ [Next]_vars => InboxKept
<1> SUFFICES ASSUME Typed, [Next]_vars
             PROVE  InboxKept
    OBVIOUS
<1>1. ASSUME NEW m \in Msgs, SendGroupMessage(m) PROVE InboxKept
  BY <1>1, SamePlaces, InboxSame DEF SendGroupMessage, author, member, tables, store
<1>2. ASSUME SaveMessage PROVE InboxKept
  BY <1>2, SamePlaces, InboxSame DEF SaveMessage, Goto, author, member, tables, store
<1>3. ASSUME ListRecipients PROVE InboxKept
  BY <1>3, SamePlaces, InboxSame DEF ListRecipients, Goto, author, member, tables, store
<1>4. ASSUME InsertReceiptRows PROVE InboxKept
  BY <1>4, SamePlaces, InboxSame DEF InsertReceiptRows, Goto, author, member, tables, store
<1>5. ASSUME FanOut PROVE InboxKept
  BY <1>5, SamePlaces, InboxSame DEF FanOut, Goto, author, member, tables, store
<1>6. ASSUME AckSender PROVE InboxKept
  BY <1>6, InboxOther, InboxSame
<1>7. ASSUME SendGroupInfo PROVE InboxKept
  BY <1>7, InboxOther, InboxSame
<1>8. ASSUME NEW u \in Members, NEW m \in Msgs, NEW k \in Kinds, ReceiptArrives(u, m, k)
      PROVE  InboxKept
  <2>1. InboxReceipts = InboxReceipts' \cup {<<u, m, k>>}
    BY <1>8, InboxRead
  <2>2. local \in [Msgs -> [Members -> Levels]]
    BY DEF Typed, TypeOK
  <2>3. /\ local' = [local EXCEPT ![m][u] = Raise(local[m][u], k)]
        /\ local[m][u] = NoRow => <<u, m, k, "no row">> \in lost'
    BY <1>8 DEF ReceiptArrives, ApplyReceipt
  <2>4. CASE local[m][u] = NoRow
    BY <2>1, <2>3, <2>4, Listed DEF InboxKept
  <2>5. CASE local[m][u] # NoRow
    <3>1. local'[m][u] >= k
      <4>1. local'[m][u] = Raise(local[m][u], k)
        BY <2>2, <2>3
      <4>2. Raise(local[m][u], k) >= k
        BY <2>2, <2>5, RaiseType
      <4> QED
        BY <4>1, <4>2
    <3> QED
      BY <2>1, <3>1 DEF InboxKept
  <2> QED
    BY <2>4, <2>5
<1>9. ASSUME NEW m \in Msgs, NEW S \in SUBSET Members, SnapshotArrives(m, S)
      PROVE  InboxKept
  BY <1>9, InboxOther, InboxSame
<1>10. ASSUME NEW S \in SUBSET Members, InfoArrives(S) PROVE InboxKept
  BY <1>10, InboxOther, InboxSame
<1>11. ASSUME LoginArrives PROVE InboxKept
  BY <1>11, InboxOther, InboxSame
<1>12. ASSUME AuthorDrop PROVE InboxKept
  <2>1. Because(InboxReceipts, "in flight") \subseteq lost'
    BY <1>12 DEF AuthorDrop
  <2>2. \A r \in InboxReceipts : <<r[1], r[2], r[3], "in flight">> \in lost'
    BY <2>1 DEF Because
  <2>3. \A r \in InboxReceipts : GoesLost(r)
    BY <2>2 DEF GoesLost
  <2> QED
    BY <2>3 DEF InboxKept
<1>13. ASSUME AuthorLeaves PROVE InboxKept
  BY <1>13, SamePlaces, InboxSame DEF AuthorLeaves, Goto, author, member, tables, store
<1>14. ASSUME AuthorLogin PROVE InboxKept
  BY <1>14, InboxOther, InboxSame
<1>15. ASSUME ReadQueue PROVE InboxKept
  BY <1>15, SamePlaces, InboxSame DEF ReadQueue, Goto, author, member, tables, store
<1>16. ASSUME SendQueued PROVE InboxKept
  <2> DEFINE q == queue[Head(pend)]
  <2>1. q.from \in Members /\ q.msg \in Msgs /\ q.kind \in Kinds
    BY <1>16, FlushedRow DEF SendQueued
  <2>2. inbox' = inbox \/ inbox' = Append(inbox, Receipt(q.from, q.msg, q.kind))
    BY <1>16 DEF SendQueued
  <2> HIDE DEF q
  <2>3. InboxReceipts \subseteq InboxReceipts'
    BY <2>1, <2>2, InboxSent, SamePlaces
  <2> QED
    BY <2>3, InboxSame
<1>17. ASSUME MarkQueued PROVE InboxKept
  BY <1>17, SamePlaces, InboxSame DEF MarkQueued, Goto, author, member, tables, store
<1>18. ASSUME AuthorJoins PROVE InboxKept
  BY <1>18, SamePlaces, InboxSame DEF AuthorJoins, Goto, author, member, tables, store
<1>19. ASSUME NEW u \in Members, MemberReceive(u) PROVE InboxKept
  BY <1>19, SamePlaces, InboxSame DEF MemberReceive, author, member, tables, store
<1>20. ASSUME NEW u \in Members, OpenGroup(u) PROVE InboxKept
  BY <1>20, SamePlaces, InboxSame DEF OpenGroup, author, member, tables, store
<1>21. ASSUME NEW u \in Members, AskLeave(u) PROVE InboxKept
  BY <1>21, SamePlaces, InboxSame DEF AskLeave, author, member, tables, store
<1>22. ASSUME NEW u \in Members, MemberDrop(u) PROVE InboxKept
  BY <1>22, SamePlaces, InboxSame DEF MemberDrop, author, member, tables, store
<1>23. ASSUME NEW u \in Members, MemberRestart(u) PROVE InboxKept
  BY <1>23, SamePlaces, InboxSame DEF MemberRestart, author, member, tables, store
<1>24. ASSUME NEW u \in Members, MemberLogin(u) PROVE InboxKept
  BY <1>24, SamePlaces, InboxSame DEF MemberLogin, MGoto, author, member, tables, store
<1>25. ASSUME NEW u \in Members, TakeReceipt(u) PROVE InboxKept
  BY <1>25, SamePlaces, InboxSame DEF TakeReceipt, MGoto, Request, author, member, tables, store
<1>26. ASSUME NEW u \in Members, MarkReceipt(u) PROVE InboxKept
  BY <1>26, SamePlaces, InboxSame DEF MarkReceipt, MGoto, author, member, tables, store
<1>27. ASSUME NEW u \in Members, Forward(u) PROVE InboxKept
  <2>1. mcur[u].msg \in Msgs /\ mcur[u].kind \in Kinds
    BY <1>27, InHand DEF Forward
  <2>2. inbox' = inbox \/ inbox' = Append(inbox, Receipt(u, mcur[u].msg, mcur[u].kind))
    BY <1>27 DEF Forward
  <2>3. InboxReceipts \subseteq InboxReceipts'
    BY <2>1, <2>2, InboxSent, SamePlaces
  <2> QED
    BY <2>3, InboxSame
<1>28. ASSUME NEW u \in Members, ForwardOffline(u) PROVE InboxKept
  BY <1>28, SamePlaces, InboxSame DEF ForwardOffline, MGoto, author, member, tables, store
<1>29. ASSUME NEW u \in Members, QueueReceipt(u) PROVE InboxKept
  BY <1>29, SamePlaces, InboxSame DEF QueueReceipt, MGoto, author, member, tables, store
<1>30. ASSUME NEW u \in Members, SyncGroup(u) PROVE InboxKept
  BY <1>30, SamePlaces, InboxSame DEF SyncGroup, Request, author, member, tables, store
<1>31. ASSUME NEW u \in Members, RemoveMember(u) PROVE InboxKept
  BY <1>31, SamePlaces, InboxSame DEF RemoveMember, MGoto, Request, author, member, tables,
     store
<1>32. ASSUME NEW u \in Members, DeleteReceipts(u) PROVE InboxKept
  BY <1>32, SamePlaces, InboxSame DEF DeleteReceipts, MGoto, author, member, tables, store
<1>33. ASSUME NEW u \in Members, MemberLeaves(u) PROVE InboxKept
  BY <1>33, SamePlaces, InboxSame DEF MemberLeaves, MGoto, author, member, tables, store
<1>34. CASE UNCHANGED vars
  BY <1>34, SamePlaces, InboxSame DEF vars, author, member, tables, store
<1>35. CASE AuthorReceive
  BY <1>35, <1>8, <1>9, <1>10, <1>11, Received DEF Typed, StatusInv, HonestInv, AccountInv
<1>36. ASSUME MessageFails PROVE InboxKept
  BY <1>36, SamePlaces, InboxSame DEF MessageFails, Goto, author, member, tables, store
<1>37. ASSUME FlushFails PROVE InboxKept
  BY <1>37, SamePlaces, InboxSame DEF FlushFails, Goto, author, member, tables, store
<1>38. ASSUME Crash PROVE InboxKept
  <2>1. Because(InboxReceipts, "in flight") \subseteq lost'
    BY <1>38 DEF Crash
  <2>2. \A r \in InboxReceipts : <<r[1], r[2], r[3], "in flight">> \in lost'
    BY <2>1 DEF Because
  <2>3. \A r \in InboxReceipts : GoesLost(r)
    BY <2>2 DEF GoesLost
  <2> QED
    BY <2>3 DEF InboxKept
<1>39. ASSUME NEW u \in Members, RequestFails(u) PROVE InboxKept
  BY <1>39, SamePlaces, InboxSame DEF RequestFails, Request, author, member, tables, store
<1>40. ASSUME NEW u \in Members, HandlerFails(u) PROVE InboxKept
  BY <1>40, SamePlaces, InboxSame DEF HandlerFails, MGoto, author, member, tables, store
<1> QED
  BY <1>1, <1>2, <1>3, <1>4, <1>5, <1>6, <1>7, <1>8, <1>9, <1>10, <1>11, <1>12, <1>13, <1>14,
     <1>15, <1>16, <1>17, <1>18, <1>19, <1>20, <1>21, <1>22, <1>23, <1>24, <1>25, <1>26, <1>27,
     <1>28, <1>29, <1>30, <1>31, <1>32, <1>33, <1>34, <1>35, <1>36, <1>37,
     <1>38, <1>39, <1>40 DEF Next, AuthorStep, MemberStep

\* The wires of the members.
LEMMA WiresStep == Typed /\ [Next]_vars => OutboxKept
<1> SUFFICES ASSUME Typed, [Next]_vars
             PROVE  OutboxKept
    OBVIOUS
<1>1. ASSUME NEW m \in Msgs, SendGroupMessage(m) PROVE OutboxKept
  BY <1>1, SamePlaces, OutboxSame DEF SendGroupMessage, author, member, tables, store
<1>2. ASSUME SaveMessage PROVE OutboxKept
  BY <1>2, SamePlaces, OutboxSame DEF SaveMessage, Goto, author, member, tables, store
<1>3. ASSUME ListRecipients PROVE OutboxKept
  BY <1>3, SamePlaces, OutboxSame DEF ListRecipients, Goto, author, member, tables, store
<1>4. ASSUME InsertReceiptRows PROVE OutboxKept
  BY <1>4, SamePlaces, OutboxSame DEF InsertReceiptRows, Goto, author, member, tables, store
<1>5. ASSUME FanOut PROVE OutboxKept
  BY <1>5, SamePlaces, OutboxSame DEF FanOut, Goto, author, member, tables, store
<1>6. ASSUME AckSender PROVE OutboxKept
  BY <1>6, SamePlaces, OutboxSame DEF AckSender, Goto, author, member, tables, store
<1>7. ASSUME SendGroupInfo PROVE OutboxKept
  BY <1>7, SamePlaces, OutboxSame DEF SendGroupInfo, author, member, tables, store
<1>8. ASSUME NEW u \in Members, NEW m \in Msgs, NEW k \in Kinds, ReceiptArrives(u, m, k)
      PROVE  OutboxKept
  BY <1>8, SamePlaces, OutboxSame DEF ReceiptArrives, ApplyReceipt, ReadInbox, author, member,
     tables, store
<1>9. ASSUME NEW m \in Msgs, NEW S \in SUBSET Members, SnapshotArrives(m, S)
      PROVE  OutboxKept
  BY <1>9, SamePlaces, OutboxSame DEF SnapshotArrives, ApplySnapshot, ReadInbox, author, member,
     tables, store
<1>10. ASSUME NEW S \in SUBSET Members, InfoArrives(S) PROVE OutboxKept
  BY <1>10, SamePlaces, OutboxSame DEF InfoArrives, ApplyInfo, ReadInbox, author, member,
     tables, store
<1>11. ASSUME LoginArrives PROVE OutboxKept
  BY <1>11, SamePlaces, OutboxSame DEF LoginArrives, ReadInbox, author, member, tables, store
<1>12. ASSUME AuthorDrop PROVE OutboxKept
  BY <1>12, SamePlaces, OutboxSame DEF AuthorDrop, author, member, tables, store
<1>13. ASSUME AuthorLeaves PROVE OutboxKept
  BY <1>13, SamePlaces, OutboxSame DEF AuthorLeaves, Goto, author, member, tables, store
<1>14. ASSUME AuthorLogin PROVE OutboxKept
  BY <1>14, SamePlaces, OutboxSame DEF AuthorLogin, Goto, author, member, tables, store
<1>15. ASSUME ReadQueue PROVE OutboxKept
  BY <1>15, SamePlaces, OutboxSame DEF ReadQueue, Goto, author, member, tables, store
<1>16. ASSUME SendQueued PROVE OutboxKept
  BY <1>16, SamePlaces, OutboxSame DEF SendQueued, Goto, author, member, tables, store
<1>17. ASSUME MarkQueued PROVE OutboxKept
  BY <1>17, SamePlaces, OutboxSame DEF MarkQueued, Goto, author, member, tables, store
<1>18. ASSUME AuthorJoins PROVE OutboxKept
  BY <1>18, SamePlaces, OutboxSame DEF AuthorJoins, Goto, author, member, tables, store
<1>19. ASSUME NEW u \in Members, MemberReceive(u) PROVE OutboxKept
  <2>1. \A v \in Members : OutboxReceipts(v) \subseteq OutboxReceipts(v)'
    BY <1>19, OutboxReceived
  <2> QED
    BY <2>1, OutboxSame
<1>20. ASSUME NEW u \in Members, OpenGroup(u) PROVE OutboxKept
  <2>1. \A v \in Members : OutboxReceipts(v) \subseteq OutboxReceipts(v)'
    BY <1>20, OutboxOpened
  <2> QED
    BY <2>1, OutboxSame
<1>21. ASSUME NEW u \in Members, AskLeave(u) PROVE OutboxKept
  BY <1>21, OutboxOther, OutboxSame
<1>22. ASSUME NEW u \in Members, MemberDrop(u) PROVE OutboxKept
  <2>1. Because(OutboxReceipts(u), "in flight") \subseteq lost'
    BY <1>22 DEF MemberDrop
  <2>2. \A r \in OutboxReceipts(u) : <<r[1], r[2], r[3], "in flight">> \in lost'
    BY <2>1 DEF Because
  <2>3. \A r \in OutboxReceipts(u) : GoesLost(r)
    BY <2>2 DEF GoesLost
  <2>4. \A v \in Members \ {u} : moutbox'[v] = moutbox[v]
    BY <1>22 DEF MemberDrop, Typed, Shapes
  <2>5. \A v \in Members \ {u} : OutboxReceipts(v)' = OutboxReceipts(v)
    BY <2>4, ReceiptSets
  <2> QED
    BY <2>3, <2>5 DEF OutboxKept
<1>23. ASSUME NEW u \in Members, MemberRestart(u) PROVE OutboxKept
  BY <1>23, SamePlaces, OutboxSame DEF MemberRestart, author, member, tables, store
<1>24. ASSUME NEW u \in Members, MemberLogin(u) PROVE OutboxKept
  BY <1>24, OutboxOther, OutboxSame
<1>25. ASSUME NEW u \in Members, TakeReceipt(u) PROVE OutboxKept
  <2> DEFINE p == Head(moutbox[u])
  <2>1. Request(u, "receipt")
    BY <1>25 DEF TakeReceipt
  <2>2. /\ \A v \in Members \ {u} : OutboxReceipts(v)' = OutboxReceipts(v)
        /\ OutboxReceipts(u) = OutboxReceipts(u)' \cup {<<u, p.msg, p.kind>>}
    BY <2>1, OutboxTaken
  <2>3. \/ mcur' = [mcur EXCEPT ![u] = [msg |-> p.msg, kind |-> p.kind]]
        \/ <<u, p.msg, p.kind, "not a member">> \in lost'
    BY <1>25 DEF TakeReceipt
  <2>4. mcur \in [Members -> [msg : Msgs, kind : Kinds] \cup {NoReceipt}]
    BY DEF Typed, Shapes
  <2> HIDE DEF p
  <2>5. (mcur'[u].msg = p.msg /\ mcur'[u].kind = p.kind) \/ GoesLost(<<u, p.msg, p.kind>>)
    <3>1. CASE mcur' = [mcur EXCEPT ![u] = [msg |-> p.msg, kind |-> p.kind]]
      BY <2>4, <3>1
    <3>2. CASE <<u, p.msg, p.kind, "not a member">> \in lost'
      BY <3>2, Listed
    <3> QED
      BY <2>3, <3>1, <3>2
  <2> QED
    BY <2>2, <2>5 DEF OutboxKept
<1>26. ASSUME NEW u \in Members, MarkReceipt(u) PROVE OutboxKept
  BY <1>26, SamePlaces, OutboxSame DEF MarkReceipt, MGoto, author, member, tables, store
<1>27. ASSUME NEW u \in Members, Forward(u) PROVE OutboxKept
  BY <1>27, SamePlaces, OutboxSame DEF Forward, MGoto, author, member, tables, store
<1>28. ASSUME NEW u \in Members, ForwardOffline(u) PROVE OutboxKept
  BY <1>28, SamePlaces, OutboxSame DEF ForwardOffline, MGoto, author, member, tables, store
<1>29. ASSUME NEW u \in Members, QueueReceipt(u) PROVE OutboxKept
  BY <1>29, SamePlaces, OutboxSame DEF QueueReceipt, MGoto, author, member, tables, store
<1>30. ASSUME NEW u \in Members, SyncGroup(u) PROVE OutboxKept
  <2>1. \A v \in Members : OutboxReceipts(v)' = OutboxReceipts(v)
    BY <1>30, OutboxTaken DEF SyncGroup
  <2> QED
    BY <2>1, OutboxSame
<1>31. ASSUME NEW u \in Members, RemoveMember(u) PROVE OutboxKept
  <2>1. \A v \in Members : OutboxReceipts(v)' = OutboxReceipts(v)
    BY <1>31, OutboxTaken DEF RemoveMember
  <2> QED
    BY <2>1, OutboxSame
<1>32. ASSUME NEW u \in Members, DeleteReceipts(u) PROVE OutboxKept
  BY <1>32, SamePlaces, OutboxSame DEF DeleteReceipts, MGoto, author, member, tables, store
<1>33. ASSUME NEW u \in Members, MemberLeaves(u) PROVE OutboxKept
  BY <1>33, SamePlaces, OutboxSame DEF MemberLeaves, MGoto, author, member, tables, store
<1>34. CASE UNCHANGED vars
  BY <1>34, SamePlaces, OutboxSame DEF vars, author, member, tables, store
<1>35. CASE AuthorReceive
  BY <1>35, <1>8, <1>9, <1>10, <1>11, Received DEF Typed, StatusInv, HonestInv, AccountInv
<1>36. ASSUME MessageFails PROVE OutboxKept
  BY <1>36, SamePlaces, OutboxSame DEF MessageFails, Goto, author, member, tables, store
<1>37. ASSUME FlushFails PROVE OutboxKept
  BY <1>37, SamePlaces, OutboxSame DEF FlushFails, Goto, author, member, tables, store
<1>38. ASSUME Crash PROVE OutboxKept
  <2>1. Because(UNION {OutboxReceipts(u) : u \in Members}, "in flight") \subseteq lost'
    BY <1>38 DEF Crash
  <2>2. \A v \in Members : \A r \in OutboxReceipts(v) :
          <<r[1], r[2], r[3], "in flight">> \in lost'
    BY <2>1 DEF Because
  <2>3. \A v \in Members : \A r \in OutboxReceipts(v) : GoesLost(r)
    BY <2>2 DEF GoesLost
  <2> QED
    BY <2>3 DEF OutboxKept
<1>39. ASSUME NEW u \in Members, RequestFails(u) PROVE OutboxKept
  <2> DEFINE p == Head(moutbox[u])
  <2>1. PICK what \in {"receipt", "sync", "leave"} :
          /\ Request(u, what)
          /\ what = "receipt" => <<u, p.msg, p.kind, "database">> \in lost'
    BY <1>39 DEF RequestFails
  <2>2. \A v \in Members \ {u} : OutboxReceipts(v)' = OutboxReceipts(v)
    BY <2>1, OutboxTaken
  <2>3. CASE what # "receipt"
    <3>1. OutboxReceipts(u)' = OutboxReceipts(u)
      BY <2>1, <2>3, OutboxTaken
    <3> QED
      BY <2>2, <3>1, OutboxSame
  <2>4. CASE what = "receipt"
    <3>1. OutboxReceipts(u) = OutboxReceipts(u)' \cup {<<u, p.msg, p.kind>>}
      BY <2>1, <2>4, OutboxTaken
    <3> HIDE DEF p
    <3>2. GoesLost(<<u, p.msg, p.kind>>)
      BY <2>1, <2>4, Listed
    <3> QED
      BY <2>2, <3>1, <3>2 DEF OutboxKept
  <2> QED
    BY <2>3, <2>4
<1>40. ASSUME NEW u \in Members, HandlerFails(u) PROVE OutboxKept
  BY <1>40, SamePlaces, OutboxSame DEF HandlerFails, MGoto, author, member, tables, store
<1> QED
  BY <1>1, <1>2, <1>3, <1>4, <1>5, <1>6, <1>7, <1>8, <1>9, <1>10, <1>11, <1>12, <1>13, <1>14,
     <1>15, <1>16, <1>17, <1>18, <1>19, <1>20, <1>21, <1>22, <1>23, <1>24, <1>25, <1>26, <1>27,
     <1>28, <1>29, <1>30, <1>31, <1>32, <1>33, <1>34, <1>35, <1>36, <1>37,
     <1>38, <1>39, <1>40 DEF Next, AuthorStep, MemberStep

\* The threads of the members.
LEMMA HandStep == Typed /\ [Next]_vars => HandKept
<1> SUFFICES ASSUME Typed, [Next]_vars
             PROVE  HandKept
    OBVIOUS
<1>1. ASSUME NEW m \in Msgs, SendGroupMessage(m) PROVE HandKept
  BY <1>1, HandSame DEF SendGroupMessage, author, member, tables, store
<1>2. ASSUME SaveMessage PROVE HandKept
  BY <1>2, HandSame DEF SaveMessage, Goto, author, member, tables, store
<1>3. ASSUME ListRecipients PROVE HandKept
  BY <1>3, HandSame DEF ListRecipients, Goto, author, member, tables, store
<1>4. ASSUME InsertReceiptRows PROVE HandKept
  BY <1>4, HandSame DEF InsertReceiptRows, Goto, author, member, tables, store
<1>5. ASSUME FanOut PROVE HandKept
  BY <1>5, HandSame DEF FanOut, Goto, author, member, tables, store
<1>6. ASSUME AckSender PROVE HandKept
  BY <1>6, HandSame DEF AckSender, Goto, author, member, tables, store
<1>7. ASSUME SendGroupInfo PROVE HandKept
  BY <1>7, HandSame DEF SendGroupInfo, author, member, tables, store
<1>8. ASSUME NEW u \in Members, NEW m \in Msgs, NEW k \in Kinds, ReceiptArrives(u, m, k)
      PROVE  HandKept
  BY <1>8, HandSame DEF ReceiptArrives, ApplyReceipt, ReadInbox, author, member, tables, store
<1>9. ASSUME NEW m \in Msgs, NEW S \in SUBSET Members, SnapshotArrives(m, S)
      PROVE  HandKept
  BY <1>9, HandSame DEF SnapshotArrives, ApplySnapshot, ReadInbox, author, member, tables, store
<1>10. ASSUME NEW S \in SUBSET Members, InfoArrives(S) PROVE HandKept
  BY <1>10, HandSame DEF InfoArrives, ApplyInfo, ReadInbox, author, member, tables, store
<1>11. ASSUME LoginArrives PROVE HandKept
  BY <1>11, HandSame DEF LoginArrives, ReadInbox, author, member, tables, store
<1>12. ASSUME AuthorDrop PROVE HandKept
  BY <1>12, HandSame DEF AuthorDrop, author, member, tables, store
<1>13. ASSUME AuthorLeaves PROVE HandKept
  BY <1>13, HandSame DEF AuthorLeaves, Goto, author, member, tables, store
<1>14. ASSUME AuthorLogin PROVE HandKept
  BY <1>14, HandSame DEF AuthorLogin, Goto, author, member, tables, store
<1>15. ASSUME ReadQueue PROVE HandKept
  BY <1>15, HandSame DEF ReadQueue, Goto, author, member, tables, store
<1>16. ASSUME SendQueued PROVE HandKept
  BY <1>16, HandSame DEF SendQueued, Goto, author, member, tables, store
<1>17. ASSUME MarkQueued PROVE HandKept
  BY <1>17, HandSame DEF MarkQueued, Goto, author, member, tables, store
<1>18. ASSUME AuthorJoins PROVE HandKept
  BY <1>18, HandSame DEF AuthorJoins, Goto, author, member, tables, store
<1>19. ASSUME NEW u \in Members, MemberReceive(u) PROVE HandKept
  BY <1>19, HandSame DEF MemberReceive, author, member, tables, store
<1>20. ASSUME NEW u \in Members, OpenGroup(u) PROVE HandKept
  BY <1>20, HandSame DEF OpenGroup, author, member, tables, store
<1>21. ASSUME NEW u \in Members, AskLeave(u) PROVE HandKept
  BY <1>21, HandSame DEF AskLeave, author, member, tables, store
<1>22. ASSUME NEW u \in Members, MemberDrop(u) PROVE HandKept
  BY <1>22, HandSame DEF MemberDrop, author, member, tables, store
<1>23. ASSUME NEW u \in Members, MemberRestart(u) PROVE HandKept
  BY <1>23, HandSame DEF MemberRestart, author, member, tables, store
<1>24. ASSUME NEW u \in Members, MemberLogin(u) PROVE HandKept
  BY <1>24, HandSame DEF MemberLogin, MGoto, author, member, tables, store
<1>25. ASSUME NEW u \in Members, TakeReceipt(u) PROVE HandKept
  <2>1. mpc[u] = "idle" /\ (mcur' = mcur \/ \E e : mcur' = [mcur EXCEPT ![u] = e])
    BY <1>25 DEF TakeReceipt, Request
  <2>2. mcur[u].msg = 0
    BY <2>1 DEF Typed, TypeOK
  <2>3. \A v \in Members : v # u => mcur'[v] = mcur[v]
    BY <2>1 DEF Typed, Shapes
  <2> QED
    BY <2>2, <2>3 DEF HandKept
<1>26. ASSUME NEW u \in Members, MarkReceipt(u) PROVE HandKept
  BY <1>26, HandSame DEF MarkReceipt, MGoto, author, member, tables, store
<1>27. ASSUME NEW u \in Members, Forward(u) PROVE HandKept
  <2> DEFINE r == <<u, mcur[u].msg, mcur[u].kind>>
  <2>1. mcur[u].msg \in Msgs /\ mcur[u].kind \in Kinds
    BY <1>27, InHand DEF Forward
  <2>2. \/ inbox' = Append(inbox, Receipt(u, mcur[u].msg, mcur[u].kind))
        \/ <<u, mcur[u].msg, mcur[u].kind, "in flight">> \in lost'
    BY <1>27 DEF Forward
  <2>3. r \in InboxReceipts' \/ GoesLost(r)
    BY <2>1, <2>2, InboxSent, Listed
  <2>4. \A v \in Members : v # u => mcur'[v] = mcur[v]
    BY <1>27 DEF Forward, Typed, Shapes
  <2> QED
    BY <2>3, <2>4 DEF HandKept
<1>28. ASSUME NEW u \in Members, ForwardOffline(u) PROVE HandKept
  BY <1>28, HandSame DEF ForwardOffline, MGoto, author, member, tables, store
<1>29. ASSUME NEW u \in Members, QueueReceipt(u) PROVE HandKept
  <2> DEFINE m == mcur[u].msg
             k == mcur[u].kind
             e == [from |-> u, msg |-> m, kind |-> k, delivered |-> FALSE]
             Q == [from : Members, msg : Msgs, kind : Kinds, delivered : BOOLEAN]
             same == {i \in DOMAIN queue : queue[i].from = u /\ queue[i].msg = m}
  <2>1. m \in Msgs /\ k \in Kinds
    BY <1>29, InHand DEF QueueReceipt
  <2>2. /\ e \in Q /\ queue \in Seq(Q)
        /\ e.from = u /\ e.msg = m /\ e.kind = k /\ ~e.delivered
    BY <2>1 DEF Typed, Shapes
  <2>3. \/ queue' = Append(queue, e)
        \/ queue' = queue /\ \E i \in same : ~queue[i].delivered /\ queue[i].kind >= k
        \/ <<u, m, k, "conflict">> \in lost'
    BY <1>29 DEF QueueReceipt
  <2>4. \A v \in Members : v # u => mcur'[v] = mcur[v]
    BY <1>29 DEF QueueReceipt, Typed, Shapes
  <2>5. k >= k
    BY <2>1 DEF Kinds, Delivered, Seen
  <2>6. CASE queue' = Append(queue, e)
    <3> HIDE DEF e, Q
    <3>1. Len(queue) + 1 \in DOMAIN queue' /\ queue'[Len(queue) + 1] = e
      BY <2>2, <2>6, AppendElems
    <3>2. \E i \in Undelivered' : queue'[i].from = u /\ queue'[i].msg = m /\ queue'[i].kind >= k
      BY <2>2, <2>5, <3>1 DEF Undelivered
    <3> QED
      BY <2>4, <3>2 DEF HandKept
  <2>7. CASE queue' = queue /\ \E i \in same : ~queue[i].delivered /\ queue[i].kind >= k
    <3>1. \E i \in Undelivered' : queue'[i].from = u /\ queue'[i].msg = m /\ queue'[i].kind >= k
      BY <2>7 DEF Undelivered
    <3> QED
      BY <2>4, <3>1 DEF HandKept
  <2>8. CASE <<u, m, k, "conflict">> \in lost'
    BY <2>4, <2>8, Listed DEF HandKept
  <2> QED
    BY <2>3, <2>6, <2>7, <2>8
<1>30. ASSUME NEW u \in Members, SyncGroup(u) PROVE HandKept
  BY <1>30, HandSame DEF SyncGroup, Request, author, member, tables, store
<1>31. ASSUME NEW u \in Members, RemoveMember(u) PROVE HandKept
  BY <1>31, HandSame DEF RemoveMember, MGoto, Request, author, member, tables, store
<1>32. ASSUME NEW u \in Members, DeleteReceipts(u) PROVE HandKept
  BY <1>32, HandSame DEF DeleteReceipts, MGoto, author, member, tables, store
<1>33. ASSUME NEW u \in Members, MemberLeaves(u) PROVE HandKept
  BY <1>33, HandSame DEF MemberLeaves, MGoto, author, member, tables, store
<1>34. CASE UNCHANGED vars
  BY <1>34, HandSame DEF vars, author, member, tables, store
<1>35. CASE AuthorReceive
  BY <1>35, <1>8, <1>9, <1>10, <1>11, Received DEF Typed, StatusInv, HonestInv, AccountInv
<1>36. ASSUME MessageFails PROVE HandKept
  BY <1>36, HandSame DEF MessageFails, Goto, author, member, tables, store
<1>37. ASSUME FlushFails PROVE HandKept
  BY <1>37, HandSame DEF FlushFails, Goto, author, member, tables, store
<1>38. ASSUME Crash PROVE HandKept
  <2>1. Because(ThreadReceipts, "crash") \subseteq lost'
    BY <1>38 DEF Crash
  <2>2. ASSUME NEW v \in Members, mcur[v].msg # 0
        PROVE  GoesLost(<<v, mcur[v].msg, mcur[v].kind>>)
    <3>1. <<v, mcur[v].msg, mcur[v].kind>> \in ThreadReceipts
      BY <2>2, InHand DEF Typed, TypeOK
    <3>2. <<v, mcur[v].msg, mcur[v].kind, "crash">> \in lost'
      BY <2>1, <3>1 DEF Because
    <3> QED
      BY <3>2, Listed
  <2> QED
    BY <2>2 DEF HandKept
<1>39. ASSUME NEW u \in Members, RequestFails(u) PROVE HandKept
  BY <1>39, HandSame DEF RequestFails, Request, author, member, tables, store
<1>40. ASSUME NEW u \in Members, HandlerFails(u) PROVE HandKept
  <2>1. \A v \in Members : v # u => mcur'[v] = mcur[v]
    BY <1>40 DEF HandlerFails, Typed, Shapes
  <2>2. mcur[u].msg # 0 => GoesLost(<<u, mcur[u].msg, mcur[u].kind>>)
    <3> SUFFICES ASSUME mcur[u].msg # 0
                 PROVE  GoesLost(<<u, mcur[u].msg, mcur[u].kind>>)
      OBVIOUS
    <3>1. mpc[u] # "rmreceipts"
      BY DEF Typed, TypeOK
    <3>2. <<u, mcur[u].msg, mcur[u].kind, "database">> \in lost'
      BY <1>40, <3>1 DEF HandlerFails
    <3> QED
      BY <3>2, Listed
  <2> QED
    BY <2>1, <2>2 DEF HandKept
<1> QED
  BY <1>1, <1>2, <1>3, <1>4, <1>5, <1>6, <1>7, <1>8, <1>9, <1>10, <1>11, <1>12, <1>13, <1>14,
     <1>15, <1>16, <1>17, <1>18, <1>19, <1>20, <1>21, <1>22, <1>23, <1>24, <1>25, <1>26, <1>27,
     <1>28, <1>29, <1>30, <1>31, <1>32, <1>33, <1>34, <1>35, <1>36, <1>37,
     <1>38, <1>39, <1>40 DEF Next, AuthorStep, MemberStep

\* The queue of the author.
LEMMA QueueStep == Typed /\ [Next]_vars => QueueKept
<1> SUFFICES ASSUME Typed, [Next]_vars
             PROVE  QueueKept
    OBVIOUS
<1>1. ASSUME NEW m \in Msgs, SendGroupMessage(m) PROVE QueueKept
  BY <1>1, QueueSame DEF SendGroupMessage, author, member, tables, store
<1>2. ASSUME SaveMessage PROVE QueueKept
  BY <1>2, QueueSame DEF SaveMessage, Goto, author, member, tables, store
<1>3. ASSUME ListRecipients PROVE QueueKept
  BY <1>3, QueueSame DEF ListRecipients, Goto, author, member, tables, store
<1>4. ASSUME InsertReceiptRows PROVE QueueKept
  BY <1>4, QueueSame DEF InsertReceiptRows, Goto, author, member, tables, store
<1>5. ASSUME FanOut PROVE QueueKept
  BY <1>5, QueueSame DEF FanOut, Goto, author, member, tables, store
<1>6. ASSUME AckSender PROVE QueueKept
  BY <1>6, QueueSame DEF AckSender, Goto, author, member, tables, store
<1>7. ASSUME SendGroupInfo PROVE QueueKept
  BY <1>7, QueueSame DEF SendGroupInfo, author, member, tables, store
<1>8. ASSUME NEW u \in Members, NEW m \in Msgs, NEW k \in Kinds, ReceiptArrives(u, m, k)
      PROVE  QueueKept
  BY <1>8, QueueSame DEF ReceiptArrives, ApplyReceipt, ReadInbox, author, member, tables, store
<1>9. ASSUME NEW m \in Msgs, NEW S \in SUBSET Members, SnapshotArrives(m, S)
      PROVE  QueueKept
  BY <1>9, QueueSame DEF SnapshotArrives, ApplySnapshot, ReadInbox, author, member, tables,
     store
<1>10. ASSUME NEW S \in SUBSET Members, InfoArrives(S) PROVE QueueKept
  BY <1>10, QueueSame DEF InfoArrives, ApplyInfo, ReadInbox, author, member, tables, store
<1>11. ASSUME LoginArrives PROVE QueueKept
  BY <1>11, QueueSame DEF LoginArrives, ReadInbox, author, member, tables, store
<1>12. ASSUME AuthorDrop PROVE QueueKept
  BY <1>12, QueueSame DEF AuthorDrop, author, member, tables, store
<1>13. ASSUME AuthorLeaves PROVE QueueKept
  BY <1>13, QueueSame DEF AuthorLeaves, Goto, author, member, tables, store
<1>14. ASSUME AuthorLogin PROVE QueueKept
  BY <1>14, QueueSame DEF AuthorLogin, Goto, author, member, tables, store
<1>15. ASSUME ReadQueue PROVE QueueKept
  BY <1>15, QueueSame DEF ReadQueue, Goto, author, member, tables, store
<1>16. ASSUME SendQueued PROVE QueueKept
  BY <1>16, QueueSame DEF SendQueued, Goto, author, member, tables, store
<1>17. ASSUME MarkQueued PROVE QueueKept
  <2>1. queue' = [queue EXCEPT ![Head(pend)].delivered = TRUE] /\ apc = "mark"
    BY <1>17 DEF MarkQueued
  <2>2. \A i \in DOMAIN queue : queue[i] \in [from : Members, msg : Msgs, kind : Kinds, delivered : BOOLEAN]
    <3> DEFINE Q == [from : Members, msg : Msgs, kind : Kinds, delivered : BOOLEAN]
    <3>1. queue \in Seq(Q)
      BY DEF Typed, Shapes
    <3> HIDE DEF Q
    <3>2. \A i \in DOMAIN queue : queue[i] \in Q
      BY <3>1
    <3> QED
      BY <3>2 DEF Q
  <2>3. DOMAIN queue' = DOMAIN queue /\ \A i \in DOMAIN queue :
          queue'[i] = IF i = Head(pend) THEN [queue[i] EXCEPT !.delivered = TRUE] ELSE queue[i]
    BY <2>1
  <2>4. \A i \in DOMAIN queue : /\ queue'[i].from = queue[i].from /\ queue'[i].msg = queue[i].msg
                                /\ queue'[i].kind = queue[i].kind
                                /\ i # Head(pend) => queue'[i].delivered = queue[i].delivered
    BY <2>2, <2>3
  <2> QED
    BY <2>1, <2>3, <2>4 DEF QueueKept
<1>18. ASSUME AuthorJoins PROVE QueueKept
  BY <1>18, QueueSame DEF AuthorJoins, Goto, author, member, tables, store
<1>19. ASSUME NEW u \in Members, MemberReceive(u) PROVE QueueKept
  BY <1>19, QueueSame DEF MemberReceive, author, member, tables, store
<1>20. ASSUME NEW u \in Members, OpenGroup(u) PROVE QueueKept
  BY <1>20, QueueSame DEF OpenGroup, author, member, tables, store
<1>21. ASSUME NEW u \in Members, AskLeave(u) PROVE QueueKept
  BY <1>21, QueueSame DEF AskLeave, author, member, tables, store
<1>22. ASSUME NEW u \in Members, MemberDrop(u) PROVE QueueKept
  BY <1>22, QueueSame DEF MemberDrop, author, member, tables, store
<1>23. ASSUME NEW u \in Members, MemberRestart(u) PROVE QueueKept
  BY <1>23, QueueSame DEF MemberRestart, author, member, tables, store
<1>24. ASSUME NEW u \in Members, MemberLogin(u) PROVE QueueKept
  BY <1>24, QueueSame DEF MemberLogin, MGoto, author, member, tables, store
<1>25. ASSUME NEW u \in Members, TakeReceipt(u) PROVE QueueKept
  BY <1>25, QueueSame DEF TakeReceipt, MGoto, Request, author, member, tables, store
<1>26. ASSUME NEW u \in Members, MarkReceipt(u) PROVE QueueKept
  BY <1>26, QueueSame DEF MarkReceipt, MGoto, author, member, tables, store
<1>27. ASSUME NEW u \in Members, Forward(u) PROVE QueueKept
  BY <1>27, QueueSame DEF Forward, MGoto, author, member, tables, store
<1>28. ASSUME NEW u \in Members, ForwardOffline(u) PROVE QueueKept
  BY <1>28, QueueSame DEF ForwardOffline, MGoto, author, member, tables, store
<1>29. ASSUME NEW u \in Members, QueueReceipt(u) PROVE QueueKept
  <2> DEFINE e == [from |-> u, msg |-> mcur[u].msg, kind |-> mcur[u].kind, delivered |-> FALSE]
             Q == [from : Members, msg : Msgs, kind : Kinds, delivered : BOOLEAN]
  <2>1. mcur[u].msg \in Msgs /\ mcur[u].kind \in Kinds
    BY <1>29, InHand DEF QueueReceipt
  <2>2. e \in Q /\ queue \in Seq(Q)
    BY <2>1 DEF Typed, Shapes
  <2>3. queue' = Append(queue, e) \/ queue' = queue
    BY <1>29 DEF QueueReceipt
  <2> HIDE DEF e, Q
  <2>4. \A i \in DOMAIN queue : i \in DOMAIN queue' /\ queue'[i] = queue[i]
    BY <2>2, <2>3, AppendElems
  <2> QED
    BY <2>4 DEF QueueKept
<1>30. ASSUME NEW u \in Members, SyncGroup(u) PROVE QueueKept
  BY <1>30, QueueSame DEF SyncGroup, Request, author, member, tables, store
<1>31. ASSUME NEW u \in Members, RemoveMember(u) PROVE QueueKept
  BY <1>31, QueueSame DEF RemoveMember, MGoto, Request, author, member, tables, store
<1>32. ASSUME NEW u \in Members, DeleteReceipts(u) PROVE QueueKept
  BY <1>32, QueueSame DEF DeleteReceipts, MGoto, author, member, tables, store
<1>33. ASSUME NEW u \in Members, MemberLeaves(u) PROVE QueueKept
  BY <1>33, QueueSame DEF MemberLeaves, MGoto, author, member, tables, store
<1>34. CASE UNCHANGED vars
  BY <1>34, QueueSame DEF vars, author, member, tables, store
<1>35. CASE AuthorReceive
  BY <1>35, <1>8, <1>9, <1>10, <1>11, Received DEF Typed, StatusInv, HonestInv, AccountInv
<1>36. ASSUME MessageFails PROVE QueueKept
  BY <1>36, QueueSame DEF MessageFails, Goto, author, member, tables, store
<1>37. ASSUME FlushFails PROVE QueueKept
  BY <1>37, QueueSame DEF FlushFails, Goto, author, member, tables, store
<1>38. ASSUME Crash PROVE QueueKept
  BY <1>38, QueueSame DEF Crash, author, member, tables, store
<1>39. ASSUME NEW u \in Members, RequestFails(u) PROVE QueueKept
  BY <1>39, QueueSame DEF RequestFails, Request, author, member, tables, store
<1>40. ASSUME NEW u \in Members, HandlerFails(u) PROVE QueueKept
  BY <1>40, QueueSame DEF HandlerFails, MGoto, author, member, tables, store
<1> QED
  BY <1>1, <1>2, <1>3, <1>4, <1>5, <1>6, <1>7, <1>8, <1>9, <1>10, <1>11, <1>12, <1>13, <1>14,
     <1>15, <1>16, <1>17, <1>18, <1>19, <1>20, <1>21, <1>22, <1>23, <1>24, <1>25, <1>26, <1>27,
     <1>28, <1>29, <1>30, <1>31, <1>32, <1>33, <1>34, <1>35, <1>36, <1>37,
     <1>38, <1>39, <1>40 DEF Next, AuthorStep, MemberStep

-----------------------------------------------------------------------------
\* All of it.
AllKept == StoreKept /\ InboxKept /\ OutboxKept /\ HandKept /\ QueueKept

\* Every step keeps every place.
LEMMA KeptStep == HonestInv /\ [Next]_vars => AllKept
<1> SUFFICES ASSUME HonestInv, [Next]_vars PROVE AllKept
    OBVIOUS
<1>1. Typed /\ SnapshotComplete
  BY DEF HonestInv, StatusInv
<1> QED
  BY <1>1, StoreStep, WireStep, WiresStep, HandStep, QueueStep DEF AllKept

\* Receipts are levels, and the levels are ordered.
LEMMA ReceiptLevels ==
    ASSUME Typed, ReceiptsTrue, NEW r \in AllReceipts
    PROVE  /\ r[1] \in Members /\ r[2] \in Msgs /\ r[3] \in Kinds
           /\ told[r[1]][r[2]] \in Levels /\ r[3] <= told[r[1]][r[2]]
<1>1. r[1] \in Members /\ r[2] \in Msgs /\ r[3] \in Kinds
  BY AllReceiptsType
<1>2. told[r[1]][r[2]] \in Levels
  BY <1>1 DEF Typed, Shapes
<1> QED
  BY <1>1, <1>2 DEF ReceiptsTrue

\* Levels and kinds are ordered like numbers.
LEMMA Ordered ==
    /\ \A j, k \in Kinds : (j >= k /\ j <= k) => j = k
    /\ \A k \in Kinds : k \in Levels /\ k <= k /\ k >= k
    /\ \A a, b, c \in Levels : a >= b /\ b >= c => a >= c
BY DEF Kinds, Levels, NoRow, Sent, Delivered, Seen

\* What has arrived at its highest level stays arrived.
LEMMA ArrivedStays ==
    ASSUME Typed, Typed', ReceiptsTrue, AllKept,
           NEW v \in Members, NEW n \in Msgs, NEW k \in Kinds, told[v][n] = k,
           Arrived(v, n, k)
    PROVE  Arrived(v, n, k)'
<1>1. /\ lost \subseteq lost' /\ members' \subseteq members
      /\ v \in members' => local'[n][v] >= local[n][v]
      /\ local[n][v] \in Levels /\ local'[n][v] \in Levels /\ k \in Levels
  BY Ordered DEF AllKept, StoreKept, Typed, TypeOK
<1>2. CASE local[n][v] >= k
  BY <1>1, <1>2, Ordered DEF Arrived
<1>3. ASSUME NEW r \in InboxReceipts, r[1] = v, r[2] = n, r[3] >= k
      PROVE  Arrived(v, n, k)'
  <2>1. r \in AllReceipts
    BY Somewhere
  <2>2. r[3] \in Kinds /\ r[3] <= k
    BY <1>3, <2>1, ReceiptLevels
  <2>3. r[3] = k
    BY <1>3, <2>2, Ordered
  <2>4. r \in InboxReceipts' \/ GoesLost(r) \/ local'[n][v] >= k
    BY <1>3, <2>3 DEF AllKept, InboxKept
  <2>5. CASE r \in InboxReceipts'
    BY <1>3, <2>5 DEF Arrived
  <2>6. CASE GoesLost(r)
    BY <1>3, <2>3, <2>6 DEF Arrived, GoesLost
  <2>7. CASE local'[n][v] >= k
    BY <2>7 DEF Arrived
  <2> QED
    BY <2>4, <2>5, <2>6, <2>7
<1>4. CASE \E r \in lost : r[1] = v /\ r[2] = n /\ r[3] = k
  BY <1>1, <1>4 DEF Arrived
<1>5. CASE v \notin members
  BY <1>1, <1>5 DEF Arrived
<1> QED
  BY <1>2, <1>3, <1>4, <1>5 DEF Arrived

\* What is lost, or on the author's wire, has arrived.
LEMMA NowArrived ==
    ASSUME NEW v, NEW n, NEW k \in Kinds,
           <<v, n, k>> \in InboxReceipts' \/ GoesLost(<<v, n, k>>)
    PROVE  Arrived(v, n, k)'
<1>1. k >= k
  BY Ordered
<1>2. CASE <<v, n, k>> \in InboxReceipts'
  BY <1>1, <1>2 DEF Arrived
<1>3. CASE GoesLost(<<v, n, k>>)
  BY <1>3 DEF Arrived, GoesLost
<1> QED
  BY <1>2, <1>3

\* What is coming goes on coming, or arrives.
LEMMA ComingStays ==
    ASSUME Typed, Typed', ReceiptsTrue, SentBeforeMark, AllKept,
           NEW v \in Members, NEW n \in Msgs, NEW k \in Kinds, told[v][n] = k,
           Coming(v, n, k)
    PROVE  Coming(v, n, k)' \/ Arrived(v, n, k)'
<1>0. n # 0
  BY ReceiptConstants DEF Msgs
<1>1. ASSUME NEW r \in OutboxReceipts(v), r[2] = n, r[3] >= k
      PROVE  Coming(v, n, k)' \/ Arrived(v, n, k)'
  <2>1. r \in AllReceipts
    BY Somewhere
  <2>2. r[1] = v
    BY DEF OutboxReceipts
  <2>3. r[3] \in Kinds /\ r[3] <= k
    BY <1>1, <2>1, <2>2, ReceiptLevels
  <2>4. r[3] = k
    BY <1>1, <2>3, Ordered
  <2>5. r \in OutboxReceipts(v)' \/ GoesLost(r) \/ (mcur'[v].msg = n /\ mcur'[v].kind = k)
    BY <1>1, <2>4 DEF AllKept, OutboxKept
  <2>6. CASE r \in OutboxReceipts(v)'
    BY <1>1, <2>6 DEF Coming
  <2>7. CASE GoesLost(r)
    BY <1>1, <2>2, <2>4, <2>7 DEF Arrived, GoesLost
  <2>8. CASE mcur'[v].msg = n /\ mcur'[v].kind = k
    BY <2>8, Ordered DEF Coming
  <2> QED
    BY <2>5, <2>6, <2>7, <2>8
<1>2. CASE mcur[v].msg = n /\ mcur[v].kind >= k
  <2>1. mcur[v].kind \in Kinds /\ mcur[v] # NoReceipt
    BY <1>0, <1>2, Rows DEF Typed
  <2>2. <<v, n, mcur[v].kind>> \in AllReceipts
    BY <1>2, <2>1, Somewhere DEF ThreadReceipts
  <2>3. mcur[v].kind <= k
    BY <2>2, ReceiptLevels
  <2>4. mcur[v].kind = k
    BY <1>2, <2>1, <2>3, Ordered
  <2>5. \/ mcur'[v] = mcur[v] \/ <<v, n, k>> \in InboxReceipts' \/ GoesLost(<<v, n, k>>)
        \/ \E i \in Undelivered' : queue'[i].from = v /\ queue'[i].msg = n /\ queue'[i].kind >= k
    BY <1>0, <1>2, <2>4 DEF AllKept, HandKept
  <2>6. CASE mcur'[v] = mcur[v]
    BY <1>2, <2>6 DEF Coming
  <2>7. CASE <<v, n, k>> \in InboxReceipts' \/ GoesLost(<<v, n, k>>)
    BY <2>7, NowArrived
  <2>8. CASE \E i \in Undelivered' : queue'[i].from = v /\ queue'[i].msg = n /\ queue'[i].kind >= k
    BY <2>8 DEF Coming
  <2> QED
    BY <2>5, <2>6, <2>7, <2>8
<1>3. ASSUME NEW i \in Undelivered, queue[i].from = v, queue[i].msg = n, queue[i].kind >= k
      PROVE  Coming(v, n, k)' \/ Arrived(v, n, k)'
  <2>1. i \in DOMAIN queue /\ ~queue[i].delivered
    BY DEF Undelivered
  <2>2. <<v, n, queue[i].kind>> \in AllReceipts
    BY <1>3, <2>1, Somewhere DEF QueuedReceipts
  <2>3. queue[i].kind \in Kinds /\ queue[i].kind <= k
    BY <2>2, ReceiptLevels
  <2>4. queue[i].kind = k
    BY <1>3, <2>3, Ordered
  <2>5. /\ i \in DOMAIN queue' /\ queue'[i].from = v /\ queue'[i].msg = n /\ queue'[i].kind = k
        /\ queue'[i].delivered = queue[i].delivered \/ (apc = "mark" /\ i = Head(pend))
    BY <1>3, <2>1, <2>4 DEF AllKept, QueueKept
  <2>6. CASE queue'[i].delivered = queue[i].delivered
    <3>1. i \in Undelivered'
      BY <2>1, <2>5, <2>6 DEF Undelivered
    <3> QED
      BY <2>5, <3>1, Ordered DEF Coming
  <2>7. CASE apc = "mark" /\ i = Head(pend)
    <3>1. Arrived(v, n, k)
      BY <1>3, <2>4, <2>7 DEF SentBeforeMark
    <3> QED
      BY <3>1, ArrivedStays
  <2> QED
    BY <2>5, <2>6, <2>7
<1> QED
  BY <1>1, <1>2, <1>3 DEF Coming

-----------------------------------------------------------------------------
\* A member's client has said no more than before, or has just put it on its
\* wire.
Said ==
    \A v \in Members, n \in Msgs :
        \/ told'[v][n] = told[v][n]
        \/ /\ <<v, n, told'[v][n]>> \in OutboxReceipts(v)'
           /\ told'[v][n] >= told[v][n]

\* Nothing said.
LEMMA SaidSame ==
    ASSUME told' = told
    PROVE  Said
BY DEF Said

\* What the members' clients say.
LEMMA SaidStep == Typed /\ [Next]_vars => Said
<1> SUFFICES ASSUME Typed, [Next]_vars
             PROVE  Said
    OBVIOUS
<1>1. ASSUME NEW m \in Msgs, SendGroupMessage(m) PROVE Said
  BY <1>1, SaidSame DEF SendGroupMessage, author, member, tables, store
<1>2. ASSUME SaveMessage PROVE Said
  BY <1>2, SaidSame DEF SaveMessage, Goto, author, member, tables, store
<1>3. ASSUME ListRecipients PROVE Said
  BY <1>3, SaidSame DEF ListRecipients, Goto, author, member, tables, store
<1>4. ASSUME InsertReceiptRows PROVE Said
  BY <1>4, SaidSame DEF InsertReceiptRows, Goto, author, member, tables, store
<1>5. ASSUME FanOut PROVE Said
  BY <1>5, SaidSame DEF FanOut, Goto, author, member, tables, store
<1>6. ASSUME AckSender PROVE Said
  BY <1>6, SaidSame DEF AckSender, Goto, author, member, tables, store
<1>7. ASSUME SendGroupInfo PROVE Said
  BY <1>7, SaidSame DEF SendGroupInfo, author, member, tables, store
<1>8. ASSUME NEW u \in Members, NEW m \in Msgs, NEW k \in Kinds, ReceiptArrives(u, m, k)
      PROVE  Said
  BY <1>8, SaidSame DEF ReceiptArrives, ApplyReceipt, ReadInbox, author, member, tables, store
<1>9. ASSUME NEW m \in Msgs, NEW S \in SUBSET Members, SnapshotArrives(m, S)
      PROVE  Said
  BY <1>9, SaidSame DEF SnapshotArrives, ApplySnapshot, ReadInbox, author, member, tables, store
<1>10. ASSUME NEW S \in SUBSET Members, InfoArrives(S) PROVE Said
  BY <1>10, SaidSame DEF InfoArrives, ApplyInfo, ReadInbox, author, member, tables, store
<1>11. ASSUME LoginArrives PROVE Said
  BY <1>11, SaidSame DEF LoginArrives, ReadInbox, author, member, tables, store
<1>12. ASSUME AuthorDrop PROVE Said
  BY <1>12, SaidSame DEF AuthorDrop, author, member, tables, store
<1>13. ASSUME AuthorLeaves PROVE Said
  BY <1>13, SaidSame DEF AuthorLeaves, Goto, author, member, tables, store
<1>14. ASSUME AuthorLogin PROVE Said
  BY <1>14, SaidSame DEF AuthorLogin, Goto, author, member, tables, store
<1>15. ASSUME ReadQueue PROVE Said
  BY <1>15, SaidSame DEF ReadQueue, Goto, author, member, tables, store
<1>16. ASSUME SendQueued PROVE Said
  BY <1>16, SaidSame DEF SendQueued, Goto, author, member, tables, store
<1>17. ASSUME MarkQueued PROVE Said
  BY <1>17, SaidSame DEF MarkQueued, Goto, author, member, tables, store
<1>18. ASSUME AuthorJoins PROVE Said
  BY <1>18, SaidSame DEF AuthorJoins, Goto, author, member, tables, store
<1>19. ASSUME NEW u \in Members, MemberReceive(u) PROVE Said
  <2> DEFINE m == Head(minbox[u])
  <2>1. m \in Msgs /\ <<u, m, Delivered>> \in OutboxReceipts(u)'
    BY <1>19, OutboxReceived
  <2>2. told \in [Members -> [Msgs -> Levels]]
    BY DEF Typed, Shapes
  <2>3. told' = [told EXCEPT ![u][m] = IF told[u][m] < Delivered THEN Delivered ELSE told[u][m]]
    BY <1>19 DEF MemberReceive
  <2> HIDE DEF m
  <2>4. \A v \in Members, n \in Msgs :
          \/ told'[v][n] = told[v][n]
          \/ v = u /\ n = m /\ told'[v][n] = Delivered /\ told[v][n] < Delivered
    BY <2>1, <2>2, <2>3
  <2>5. told[u][m] < Delivered => Delivered >= told[u][m]
    BY <2>1, <2>2 DEF Levels, NoRow, Sent, Delivered, Seen
  <2> QED
    BY <2>1, <2>4, <2>5 DEF Said
<1>20. ASSUME NEW u \in Members, OpenGroup(u) PROVE Said
  <2> DEFINE N == {unread[u][i] : i \in DOMAIN unread[u]}
  <2>1. \A n \in N : <<u, n, Seen>> \in OutboxReceipts(u)'
    BY <1>20, OutboxOpened
  <2>2. told \in [Members -> [Msgs -> Levels]]
    BY DEF Typed, Shapes
  <2>3. told' = [told EXCEPT ![u] = [m \in Msgs |-> IF m \in N THEN Seen ELSE @[m]]]
    BY <1>20 DEF OpenGroup
  <2> HIDE DEF N
  <2>4. \A v \in Members, n \in Msgs :
          told'[v][n] = told[v][n] \/ (v = u /\ n \in N /\ told'[v][n] = Seen)
    BY <2>2, <2>3
  <2>5. \A v \in Members, n \in Msgs : Seen >= told[v][n]
    BY <2>2 DEF Levels, NoRow, Sent, Delivered, Seen
  <2> QED
    BY <2>1, <2>4, <2>5 DEF Said
<1>21. ASSUME NEW u \in Members, AskLeave(u) PROVE Said
  BY <1>21, SaidSame DEF AskLeave, author, member, tables, store
<1>22. ASSUME NEW u \in Members, MemberDrop(u) PROVE Said
  BY <1>22, SaidSame DEF MemberDrop, author, member, tables, store
<1>23. ASSUME NEW u \in Members, MemberRestart(u) PROVE Said
  BY <1>23, SaidSame DEF MemberRestart, author, member, tables, store
<1>24. ASSUME NEW u \in Members, MemberLogin(u) PROVE Said
  BY <1>24, SaidSame DEF MemberLogin, MGoto, author, member, tables, store
<1>25. ASSUME NEW u \in Members, TakeReceipt(u) PROVE Said
  BY <1>25, SaidSame DEF TakeReceipt, MGoto, Request, author, member, tables, store
<1>26. ASSUME NEW u \in Members, MarkReceipt(u) PROVE Said
  BY <1>26, SaidSame DEF MarkReceipt, MGoto, author, member, tables, store
<1>27. ASSUME NEW u \in Members, Forward(u) PROVE Said
  BY <1>27, SaidSame DEF Forward, MGoto, author, member, tables, store
<1>28. ASSUME NEW u \in Members, ForwardOffline(u) PROVE Said
  BY <1>28, SaidSame DEF ForwardOffline, MGoto, author, member, tables, store
<1>29. ASSUME NEW u \in Members, QueueReceipt(u) PROVE Said
  BY <1>29, SaidSame DEF QueueReceipt, MGoto, author, member, tables, store
<1>30. ASSUME NEW u \in Members, SyncGroup(u) PROVE Said
  BY <1>30, SaidSame DEF SyncGroup, Request, author, member, tables, store
<1>31. ASSUME NEW u \in Members, RemoveMember(u) PROVE Said
  BY <1>31, SaidSame DEF RemoveMember, MGoto, Request, author, member, tables, store
<1>32. ASSUME NEW u \in Members, DeleteReceipts(u) PROVE Said
  BY <1>32, SaidSame DEF DeleteReceipts, MGoto, author, member, tables, store
<1>33. ASSUME NEW u \in Members, MemberLeaves(u) PROVE Said
  BY <1>33, SaidSame DEF MemberLeaves, MGoto, author, member, tables, store
<1>34. CASE UNCHANGED vars
  BY <1>34, SaidSame DEF vars, author, member, tables, store
<1>35. CASE AuthorReceive
  BY <1>35, <1>8, <1>9, <1>10, <1>11, Received DEF Typed, StatusInv, HonestInv, AccountInv
<1>36. ASSUME MessageFails PROVE Said
  BY <1>36, SaidSame DEF MessageFails, Goto, author, member, tables, store
<1>37. ASSUME FlushFails PROVE Said
  BY <1>37, SaidSame DEF FlushFails, Goto, author, member, tables, store
<1>38. ASSUME Crash PROVE Said
  BY <1>38, SaidSame DEF Crash, author, member, tables, store
<1>39. ASSUME NEW u \in Members, RequestFails(u) PROVE Said
  BY <1>39, SaidSame DEF RequestFails, Request, author, member, tables, store
<1>40. ASSUME NEW u \in Members, HandlerFails(u) PROVE Said
  BY <1>40, SaidSame DEF HandlerFails, MGoto, author, member, tables, store
<1> QED
  BY <1>1, <1>2, <1>3, <1>4, <1>5, <1>6, <1>7, <1>8, <1>9, <1>10, <1>11, <1>12, <1>13, <1>14,
     <1>15, <1>16, <1>17, <1>18, <1>19, <1>20, <1>21, <1>22, <1>23, <1>24, <1>25, <1>26, <1>27,
     <1>28, <1>29, <1>30, <1>31, <1>32, <1>33, <1>34, <1>35, <1>36, <1>37,
     <1>38, <1>39, <1>40 DEF Next, AuthorStep, MemberStep

\* The row the flush is about to mark has been sent, in this step or before.
Marking ==
    apc' = "mark" =>
        LET q == queue[Head(pend)] IN
        /\ queue'[Head(pend')] = q
        /\ \/ apc = "mark"
           \/ /\ q.from \in Members /\ q.msg \in Msgs /\ q.kind \in Kinds
              /\ \/ <<q.from, q.msg, q.kind>> \in InboxReceipts'
                 \/ GoesLost(<<q.from, q.msg, q.kind>>)

\* How the flush gets there.
LEMMA MarkStep == Typed /\ [Next]_vars => Marking
<1> SUFFICES ASSUME Typed, [Next]_vars
             PROVE  Marking
    OBVIOUS
<1>1. ASSUME NEW m \in Msgs, SendGroupMessage(m) PROVE Marking
  BY <1>1 DEF SendGroupMessage, author, member, tables, store, Marking
<1>2. ASSUME SaveMessage PROVE Marking
  BY <1>2 DEF SaveMessage, Goto, author, member, tables, store, Marking
<1>3. ASSUME ListRecipients PROVE Marking
  BY <1>3 DEF ListRecipients, Goto, author, member, tables, store, Marking
<1>4. ASSUME InsertReceiptRows PROVE Marking
  BY <1>4 DEF InsertReceiptRows, Goto, author, member, tables, store, Marking
<1>5. ASSUME FanOut PROVE Marking
  BY <1>5 DEF FanOut, Goto, author, member, tables, store, Marking
<1>6. ASSUME AckSender PROVE Marking
  BY <1>6 DEF AckSender, Goto, author, member, tables, store, Marking
<1>7. ASSUME SendGroupInfo PROVE Marking
  BY <1>7 DEF SendGroupInfo, author, member, tables, store, Marking
<1>8. ASSUME NEW u \in Members, NEW m \in Msgs, NEW k \in Kinds, ReceiptArrives(u, m, k)
      PROVE  Marking
  BY <1>8 DEF ReceiptArrives, ApplyReceipt, ReadInbox, author, member, tables, store, Marking
<1>9. ASSUME NEW m \in Msgs, NEW S \in SUBSET Members, SnapshotArrives(m, S)
      PROVE  Marking
  BY <1>9 DEF SnapshotArrives, ApplySnapshot, ReadInbox, author, member, tables, store, Marking
<1>10. ASSUME NEW S \in SUBSET Members, InfoArrives(S) PROVE Marking
  BY <1>10 DEF InfoArrives, ApplyInfo, ReadInbox, author, member, tables, store, Marking
<1>11. ASSUME LoginArrives PROVE Marking
  BY <1>11 DEF LoginArrives, ReadInbox, author, member, tables, store, Marking
<1>12. ASSUME AuthorDrop PROVE Marking
  BY <1>12 DEF AuthorDrop, author, member, tables, store, Marking
<1>13. ASSUME AuthorLeaves PROVE Marking
  BY <1>13 DEF AuthorLeaves, Goto, author, member, tables, store, Marking
<1>14. ASSUME AuthorLogin PROVE Marking
  BY <1>14 DEF AuthorLogin, Goto, author, member, tables, store, Marking
<1>15. ASSUME ReadQueue PROVE Marking
  BY <1>15 DEF ReadQueue, Goto, author, member, tables, store, Marking
<1>16. ASSUME SendQueued PROVE Marking
  <2> DEFINE q == queue[Head(pend)]
  <2>1. q.from \in Members /\ q.msg \in Msgs /\ q.kind \in Kinds
    BY <1>16, FlushedRow DEF SendQueued
  <2>2. CASE apc' # "mark"
    BY <2>2 DEF Marking
  <2>3. CASE apc' = "mark"
    <3>1. queue' = queue /\ pend' = pend /\ apc # "mark"
      BY <1>16, <2>3 DEF SendQueued, Goto, tables
    <3>2. \/ inbox' = Append(inbox, Receipt(q.from, q.msg, q.kind))
          \/ <<q.from, q.msg, q.kind, "in flight">> \in lost'
      BY <1>16, <2>3 DEF SendQueued, Goto
    <3> HIDE DEF q
    <3>3. <<q.from, q.msg, q.kind>> \in InboxReceipts' \/ GoesLost(<<q.from, q.msg, q.kind>>)
      BY <2>1, <3>2, InboxSent, Listed
    <3> QED
      BY <2>1, <3>1, <3>3 DEF Marking, q
  <2> QED
    BY <2>2, <2>3
<1>17. ASSUME MarkQueued PROVE Marking
  BY <1>17 DEF MarkQueued, Goto, author, member, tables, store, Marking
<1>18. ASSUME AuthorJoins PROVE Marking
  BY <1>18 DEF AuthorJoins, Goto, author, member, tables, store, Marking
<1>19. ASSUME NEW u \in Members, MemberReceive(u) PROVE Marking
  BY <1>19 DEF MemberReceive, author, member, tables, store, Marking
<1>20. ASSUME NEW u \in Members, OpenGroup(u) PROVE Marking
  BY <1>20 DEF OpenGroup, author, member, tables, store, Marking
<1>21. ASSUME NEW u \in Members, AskLeave(u) PROVE Marking
  BY <1>21 DEF AskLeave, author, member, tables, store, Marking
<1>22. ASSUME NEW u \in Members, MemberDrop(u) PROVE Marking
  BY <1>22 DEF MemberDrop, author, member, tables, store, Marking
<1>23. ASSUME NEW u \in Members, MemberRestart(u) PROVE Marking
  BY <1>23 DEF MemberRestart, author, member, tables, store, Marking
<1>24. ASSUME NEW u \in Members, MemberLogin(u) PROVE Marking
  BY <1>24 DEF MemberLogin, MGoto, author, member, tables, store, Marking
<1>25. ASSUME NEW u \in Members, TakeReceipt(u) PROVE Marking
  BY <1>25 DEF TakeReceipt, MGoto, Request, author, member, tables, store, Marking
<1>26. ASSUME NEW u \in Members, MarkReceipt(u) PROVE Marking
  BY <1>26 DEF MarkReceipt, MGoto, author, member, tables, store, Marking
<1>27. ASSUME NEW u \in Members, Forward(u) PROVE Marking
  BY <1>27 DEF Forward, MGoto, author, member, tables, store, Marking
<1>28. ASSUME NEW u \in Members, ForwardOffline(u) PROVE Marking
  BY <1>28 DEF ForwardOffline, MGoto, author, member, tables, store, Marking
<1>29. ASSUME NEW u \in Members, QueueReceipt(u) PROVE Marking
  <2> DEFINE e == [from |-> u, msg |-> mcur[u].msg, kind |-> mcur[u].kind, delivered |-> FALSE]
             Q == [from : Members, msg : Msgs, kind : Kinds, delivered : BOOLEAN]
  <2>1. mcur[u].msg \in Msgs /\ mcur[u].kind \in Kinds
    BY <1>29, InHand DEF QueueReceipt
  <2>2. e \in Q /\ queue \in Seq(Q)
    BY <2>1 DEF Typed, Shapes
  <2>3. (queue' = Append(queue, e) \/ queue' = queue) /\ UNCHANGED <<apc, pend>>
    BY <1>29 DEF QueueReceipt, author
  <2> HIDE DEF e, Q
  <2>4. \A i \in DOMAIN queue : queue'[i] = queue[i]
    BY <2>2, <2>3, AppendElems
  <2>5. apc = "mark" => Head(pend) \in DOMAIN queue
    BY FlushedRow
  <2> QED
    BY <2>3, <2>4, <2>5 DEF Marking
<1>30. ASSUME NEW u \in Members, SyncGroup(u) PROVE Marking
  BY <1>30 DEF SyncGroup, Request, author, member, tables, store, Marking
<1>31. ASSUME NEW u \in Members, RemoveMember(u) PROVE Marking
  BY <1>31 DEF RemoveMember, MGoto, Request, author, member, tables, store, Marking
<1>32. ASSUME NEW u \in Members, DeleteReceipts(u) PROVE Marking
  BY <1>32 DEF DeleteReceipts, MGoto, author, member, tables, store, Marking
<1>33. ASSUME NEW u \in Members, MemberLeaves(u) PROVE Marking
  BY <1>33 DEF MemberLeaves, MGoto, author, member, tables, store, Marking
<1>34. CASE UNCHANGED vars
  BY <1>34 DEF vars, author, member, tables, store, Marking
<1>35. CASE AuthorReceive
  BY <1>35, <1>8, <1>9, <1>10, <1>11, Received DEF Typed, StatusInv, HonestInv, AccountInv
<1>36. ASSUME MessageFails PROVE Marking
  BY <1>36 DEF MessageFails, Goto, author, member, tables, store, Marking
<1>37. ASSUME FlushFails PROVE Marking
  BY <1>37 DEF FlushFails, Goto, author, member, tables, store, Marking
<1>38. ASSUME Crash PROVE Marking
  BY <1>38 DEF Crash, author, member, tables, store, Marking
<1>39. ASSUME NEW u \in Members, RequestFails(u) PROVE Marking
  BY <1>39 DEF RequestFails, Request, author, member, tables, store, Marking
<1>40. ASSUME NEW u \in Members, HandlerFails(u) PROVE Marking
  BY <1>40 DEF HandlerFails, MGoto, author, member, tables, store, Marking
<1> QED
  BY <1>1, <1>2, <1>3, <1>4, <1>5, <1>6, <1>7, <1>8, <1>9, <1>10, <1>11, <1>12, <1>13, <1>14,
     <1>15, <1>16, <1>17, <1>18, <1>19, <1>20, <1>21, <1>22, <1>23, <1>24, <1>25, <1>26, <1>27,
     <1>28, <1>29, <1>30, <1>31, <1>32, <1>33, <1>34, <1>35, <1>36, <1>37,
     <1>38, <1>39, <1>40 DEF Next, AuthorStep, MemberStep

-----------------------------------------------------------------------------
\* A row is marked after its receipt has gone out.
LEMMA SentFirstStep ==
    ASSUME AccountInv, HonestInv', AllKept, Said, Marking
    PROVE  SentBeforeMark'
<1>1. Typed /\ Typed' /\ ReceiptsTrue /\ SentBeforeMark
  BY DEF AccountInv, HonestInv, StatusInv
<1>2. ASSUME apc' = "mark", NEW v \in Members, NEW n \in Msgs, NEW k \in Kinds,
             queue[Head(pend)].from = v, queue[Head(pend)].msg = n, queue[Head(pend)].kind = k,
             told'[v][n] = k
      PROVE  Arrived(v, n, k)'
  <2>1. CASE apc = "mark"
    <3>1. Head(pend) \in DOMAIN queue
      BY <1>1, <2>1, FlushedRow
    <3>2. <<v, n, k>> \in AllReceipts
      BY <1>2, <3>1, Somewhere DEF QueuedReceipts
    <3>3. told[v][n] \in Levels /\ k <= told[v][n]
      BY <1>1, <3>2, ReceiptLevels
    <3>4. told'[v][n] = told[v][n] \/ told'[v][n] >= told[v][n]
      BY DEF Said
    <3>5. told[v][n] = k
      BY <1>2, <3>3, <3>4 DEF Levels, Kinds, NoRow, Sent, Delivered, Seen
    <3>6. Arrived(v, n, k)
      BY <1>1, <1>2, <2>1, <3>5 DEF SentBeforeMark
    <3> QED
      BY <1>1, <3>5, <3>6, ArrivedStays
  <2>2. CASE apc # "mark"
    BY <1>2, <2>2, NowArrived DEF Marking
  <2> QED
    BY <2>1, <2>2
<1>3. ASSUME apc' = "mark"
      PROVE  /\ queue'[Head(pend')] = queue[Head(pend)]
             /\ queue[Head(pend)].from \in Members /\ queue[Head(pend)].msg \in Msgs
             /\ queue[Head(pend)].kind \in Kinds
  BY <1>1, <1>3, FlushedRow DEF Marking
<1>4. ASSUME apc' = "mark", NEW v, NEW n, NEW k,
             queue'[Head(pend')].from = v, queue'[Head(pend')].msg = n,
             queue'[Head(pend')].kind = k, told'[v][n] = k
      PROVE  Arrived(v, n, k)'
  <2>1. v \in Members /\ n \in Msgs /\ k \in Kinds
    BY <1>3, <1>4
  <2>2. queue[Head(pend)].from = v /\ queue[Head(pend)].msg = n /\ queue[Head(pend)].kind = k
    BY <1>3, <1>4
  <2> QED
    BY <1>2, <1>4, <2>1, <2>2
<1> QED
  BY <1>4 DEF SentBeforeMark

\* The account, in the two parts that the steps keep.
LEMMA InParts ==
    \A u, m, k : (\/ local[m][u] >= k
                  \/ UnderWay(u, m, k)
                  \/ \E r \in lost : r[1] = u /\ r[2] = m /\ r[3] = k
                  \/ u \notin members)
                 <=> Arrived(u, m, k) \/ Coming(u, m, k)
BY DEF UnderWay, Arrived, Coming

\* So of the whole account.
LEMMA AccountParts ==
    ReceiptsAccounted <=>
        \A v \in Members, n \in Msgs :
            told[v][n] \in Kinds => Arrived(v, n, told[v][n]) \/ Coming(v, n, told[v][n])
BY InParts DEF ReceiptsAccounted

\* Every receipt stays accounted for.
LEMMA AccountedStep ==
    ASSUME AccountInv, HonestInv', AllKept, Said
    PROVE  ReceiptsAccounted'
<1>1. Typed /\ Typed' /\ ReceiptsTrue /\ SentBeforeMark
  BY DEF AccountInv, HonestInv, StatusInv
<1>2. ASSUME NEW v \in Members, NEW n \in Msgs, NEW k \in Kinds, told'[v][n] = k
      PROVE  Arrived(v, n, k)' \/ Coming(v, n, k)'
  <2>1. CASE told[v][n] = k
    <3>1. Arrived(v, n, k) \/ Coming(v, n, k)
      BY <2>1, AccountParts DEF AccountInv
    <3> QED
      BY <1>1, <2>1, <3>1, ArrivedStays, ComingStays
  <2>2. CASE told[v][n] # k
    <3>1. <<v, n, k>> \in OutboxReceipts(v)'
      BY <1>2, <2>2 DEF Said
    <3> QED
      BY <3>1, Ordered DEF Coming
  <2> QED
    BY <2>1, <2>2
<1>3. \A u, m, k : (\/ local'[m][u] >= k
                    \/ UnderWay(u, m, k)'
                    \/ \E r \in lost' : r[1] = u /\ r[2] = m /\ r[3] = k
                    \/ u \notin members')
                   <=> Arrived(u, m, k)' \/ Coming(u, m, k)'
  BY DEF UnderWay, Arrived, Coming
<1>4. ASSUME NEW v \in Members, NEW n \in Msgs, NEW k \in Kinds, told'[v][n] = k
      PROVE  \/ local'[n][v] >= k
             \/ UnderWay(v, n, k)'
             \/ \E r \in lost' : r[1] = v /\ r[2] = n /\ r[3] = k
             \/ v \notin members'
  BY <1>2, <1>3, <1>4
<1> QED
  BY <1>4 DEF ReceiptsAccounted

\* At the start there is nothing to account for.
LEMMA AccountInit == Init => AccountInv
<1> SUFFICES ASSUME Init PROVE AccountInv
    OBVIOUS
<1>1. apc = "idle" /\ \A u \in Members, m \in Msgs : told[u][m] = NoRow
  BY DEF Init
<1>2. NoRow \notin Kinds
  BY DEF Kinds, NoRow, Delivered, Seen
<1> QED
  BY <1>1, <1>2, HonestInit DEF AccountInv, SentBeforeMark, ReceiptsAccounted

\* Every step keeps the account.
LEMMA AccountStep == AccountInv /\ [Next]_vars => AccountInv'
<1> SUFFICES ASSUME AccountInv, [Next]_vars PROVE AccountInv'
    OBVIOUS
<1>1. HonestInv /\ Typed
  BY DEF AccountInv, HonestInv, StatusInv
<1>2. HonestInv'
  BY <1>1, HonestStep
<1>3. AllKept /\ Said /\ Marking
  BY <1>1, KeptStep, SaidStep, MarkStep
<1> QED
  BY <1>2, <1>3, SentFirstStep, AccountedStep DEF AccountInv

(***************************************************************************)
(* No receipt disappears without a cause: one that a member's client has   *)
(* written is applied, under way, or lost with a socket, for want of the   *)
(* row, to the unique index of the queue, to a statement that threw, with  *)
(* the server, or because the member left.  flushOfflineReadReceipts marks *)
(* a row only after its send, and that is what the invariant needs to say  *)
(* of it: a flush that fails is done again.                                *)
(***************************************************************************)
THEOREM NoneDisappears == Spec => []ReceiptsAccounted
<1>1. AccountInv => ReceiptsAccounted
  BY DEF AccountInv
<1> QED
  BY <1>1, AccountInit, AccountStep, PTL DEF Spec
=============================================================================
