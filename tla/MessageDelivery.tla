--------------------------- MODULE MessageDelivery ---------------------------
(***************************************************************************)
(* The path of a 1:1 message from the sender's client to the recipient's   *)
(* local store: MessageHandler (persist, route, queue, echo), the flush of *)
(* offline_queue in LoginHandler, SyncHistoryHandler, the hourly purge of  *)
(* the queue, and the client's deduplication and sync cursor.              *)
(*                                                                         *)
(* A connection is one WebSocket with its server thread; SessionRegistry   *)
(* has the details of logging in and registering, which are one step each  *)
(* here.  Every device is logged in as one user.  A vector of _clients is  *)
(* kept without its repetitions: they do not move the front, and a second  *)
(* echo is dropped by the client like any duplicate.                       *)
(***************************************************************************)
EXTENDS Naturals, Sequences, FiniteSets, SequencesExt

CONSTANTS
    Conns,        \* connections
    Devices,      \* client installations
    Users,
    DeviceOf,     \* the device that opens a connection
    UserOf,       \* the user a device belongs to
    Talkers,      \* devices whose user writes messages
    None,         \* nullptr
    Faults,       \* "drop": a socket dies with packets in flight
                  \* "ghost": a device returns before the server saw it go
                  \* "crash": the server process dies and is restarted
    MaxAttempts,  \* MAX_DELIVERY_ATTEMPTS
    MaxSends      \* bound: messages written

ASSUME DeliveryConstants ==
    /\ DeviceOf \in [Conns -> Devices]
    /\ UserOf \in [Devices -> Users]
    /\ Talkers \subseteq Devices
    /\ None \notin Conns
    /\ Faults \subseteq {"drop", "ghost", "crash"}
    /\ MaxAttempts \in Nat \ {0}
    /\ MaxSends \in Nat

VARIABLES
    pc,       \* the server thread of each connection
    up,       \* the client's end of it is open
    inbox,    \* packets on their way to the client
    outbox,   \* packets on their way to the server
    cur,      \* row id of the message a thread handles
    last,     \* row id the reload of the offline branch found
    tgt,      \* the session findClient returned
    pend,     \* queue rows, as read, that a login still has to flush
    clients,  \* Server::_clients
    rows,     \* table messages: row i has id i
    queue,    \* table offline_queue
    queued,   \* number of queue rows ever inserted
    shown,    \* per device: what its chat shows, which is what it stored
    sends,    \* messages written so far: the clock all devices share
    wrote     \* history: rows written to some socket of the recipient

thread == <<pc, cur, last, tgt, pend>>
net    == <<up, inbox, outbox>>
tables == <<rows, queue, queued, wrote>>
client == <<shown, sends>>
vars   == <<thread, net, clients, tables, client>>

User(c) == UserOf[DeviceOf[c]]
Ids == 1..Len(rows)

-----------------------------------------------------------------------------
(***************************************************************************)
(* Timestamps.  A live packet carries the sender's ISO text, a replay the  *)
(* text PostgreSQL prints; both stand for the instant t.                   *)
(***************************************************************************)
Iso(t) == [t |-> t, fmt |-> "iso"]
Pg(t)  == [t |-> t, fmt |-> "pg"]

\* Mutant of canonical: PostgreSQL text is kept as it came.
CanonicalKeepsText(ts) == ts

\* TimestampUtil::canonical
canonical(ts) == Iso(ts.t)

LoginAck == [kind |-> "ack"]
Forwarded(i, ts, echo) ==
    [kind |-> "message", from |-> rows[i].from, to |-> rows[i].to, ts |-> ts,
     echo |-> echo]

\* The rows of a SELECT with ORDER BY: the sequences that list the finite
\* set S in increasing order of key.
Sorted(S, key) ==
    {q \in [1..Cardinality(S) -> S] :
        \A i, j \in DOMAIN q : i < j => q[i] # q[j] /\ key[q[i]] <= key[q[j]]}

\* LocalStorage::newestTimestamp: the newest stored timestamp, own ones too.
newestTimestamp(d) ==
    LET stored == {shown[d][k].ts.t : k \in DOMAIN shown[d]} \cup {0}
    IN  CHOOSE t \in stored : \A s \in stored : s <= t

\* LocalStorage::isDuplicate: same peer, sender and timestamp text.
isDuplicate(d, m) == \E k \in DOMAIN shown[d] : shown[d][k] = m

\* Mutant of findAllForUser: only what the user sent.
findAllForSender(u, cursor) ==
    Sorted({i \in Ids : u = rows[i].from /\ rows[i].t > cursor},
           [i \in Ids |-> rows[i].t])

\* MessageRepository::findAllForUser: later than the cursor, by created_at.
findAllForUser(u, cursor) ==
    Sorted({i \in Ids : u \in {rows[i].from, rows[i].to} /\ rows[i].t > cursor},
           [i \in Ids |-> rows[i].t])

\* Mutant of findUndeliveredByRecipient: no limit on the attempts.
findUndeliveredUnlimited(u) ==
    Sorted({q \in queue : rows[q.msg].to = u /\ ~q.delivered},
           [q \in queue |-> q.id])

\* OfflineQueueRepository::findUndeliveredByRecipient, by queued_at.
findUndeliveredByRecipient(u) ==
    Sorted({q \in queue : /\ rows[q.msg].to = u
                          /\ ~q.delivered
                          /\ q.attempts < MaxAttempts},
           [q \in queue |-> q.id])

\* The id of findByRecipient(u).back(): the newest created_at, not the
\* newest row.
LastByRecipient(u) ==
    LET mine == {i \in Ids : rows[i].to = u}
    IN  {i \in mine : \A j \in mine : rows[j].t <= rows[i].t}

Goto(c, l) == pc' = [pc EXCEPT ![c] = l]

\* addClient; removeClient.
Register(c) ==
    LET v == clients[User(c)] IN
    clients' = IF \E k \in DOMAIN v : v[k] = c
               THEN clients
               ELSE [clients EXCEPT ![User(c)] = Append(v, c)]
Unregister(c) ==
    clients' = [clients EXCEPT ![User(c)] = RemoveFirst(@, c)]

-----------------------------------------------------------------------------
Init ==
    /\ pc = [c \in Conns |-> "off"]
    /\ up = [c \in Conns |-> FALSE]
    /\ inbox = [c \in Conns |-> <<>>]
    /\ outbox = [c \in Conns |-> <<>>]
    /\ cur = [c \in Conns |-> 0]
    /\ last = [c \in Conns |-> 0]
    /\ tgt = [c \in Conns |-> None]
    /\ pend = [c \in Conns |-> <<>>]
    /\ clients = [u \in Users |-> <<>>]
    /\ rows = <<>>
    /\ queue = {}
    /\ queued = 0
    /\ shown = [d \in Devices |-> <<>>]
    /\ sends = 0
    /\ wrote = {}

(***************************************************************************)
(* A client connects and logs in; LoginHandler sends the ACK.  A client    *)
(* has one socket.  A connection stands for a new ClientSession, so none   *)
(* that another thread still points to.                                    *)
(***************************************************************************)
Login(c) ==
    /\ pc[c] = "off"
    /\ \A e \in Conns \ {c} : DeviceOf[e] = DeviceOf[c] =>
            ~up[e] /\ ("ghost" \in Faults \/ pc[e] = "off")
    /\ \A e \in Conns : tgt[e] # c
    /\ up' = [up EXCEPT ![c] = TRUE]
    /\ inbox' = [inbox EXCEPT ![c] = <<LoginAck>>]
    /\ Goto(c, "read")
    /\ UNCHANGED <<outbox, cur, last, tgt, pend, clients, tables, client>>

\* LoginHandler, the flush: what is pending is read once.
ReadPending(c) ==
    /\ pc[c] = "read"
    /\ \E found \in findUndeliveredByRecipient(User(c)) :
            pend' = [pend EXCEPT ![c] = found]
    /\ Goto(c, "bump")
    /\ UNCHANGED <<cur, last, tgt, net, clients, tables, client>>

\* incrementAttempts, before the send.  The row may be purged by now.
IncrementAttempts(c) ==
    /\ pc[c] = "bump"
    /\ pend[c] # <<>>
    /\ queue' = {IF q.id = Head(pend[c]).id
                 THEN [q EXCEPT !.attempts = @ + 1] ELSE q : q \in queue}
    /\ Goto(c, "send")
    /\ UNCHANGED <<cur, last, tgt, pend, net, clients, rows, queued, wrote, client>>

\* Mutant of SendPending: a send that throws is followed by markDelivered.
SendPendingIgnoresFailure(c) ==
    /\ pc[c] = "send"
    /\ LET i == Head(pend[c]).msg IN
       \/ /\ up[c]
          /\ inbox' = [inbox EXCEPT ![c] =
                         Append(@, Forwarded(i, Pg(rows[i].t), FALSE))]
          /\ wrote' = wrote \cup {i}
       \/ ~up[c] /\ UNCHANGED <<inbox, wrote>>
    /\ Goto(c, "mark")
    /\ UNCHANGED <<up, outbox, cur, last, tgt, pend, clients, rows, queue, queued,
                   client>>

(***************************************************************************)
(* The replay of one entry.  A dead socket swallows it or throws           *)
(* NetworkException, which ends the loop.                                  *)
(***************************************************************************)
SendPending(c) ==
    /\ pc[c] = "send"
    /\ LET i == Head(pend[c]).msg IN
       \/ /\ up[c]
          /\ inbox' = [inbox EXCEPT ![c] =
                         Append(@, Forwarded(i, Pg(rows[i].t), FALSE))]
          /\ wrote' = wrote \cup {i}
          /\ Goto(c, "mark")
          /\ UNCHANGED pend
       \/ /\ ~up[c]
          /\ wrote' = wrote \cup {i}
          /\ Goto(c, "mark")
          /\ UNCHANGED <<inbox, pend>>
       \/ /\ ~up[c]
          /\ pend' = [pend EXCEPT ![c] = <<>>]
          /\ Goto(c, "bump")
          /\ UNCHANGED <<inbox, wrote>>
    /\ UNCHANGED <<up, outbox, cur, last, tgt, clients, rows, queue, queued, client>>

MarkDelivered(c) ==
    /\ pc[c] = "mark"
    /\ queue' = {IF q.id = Head(pend[c]).id
                 THEN [q EXCEPT !.delivered = TRUE] ELSE q : q \in queue}
    /\ pend' = [pend EXCEPT ![c] = Tail(@)]
    /\ Goto(c, "bump")
    /\ UNCHANGED <<cur, last, tgt, net, clients, rows, queued, wrote, client>>

\* The flush is over; handleRequest registers the session.
Join(c) ==
    /\ pc[c] = "bump"
    /\ pend[c] = <<>>
    /\ Register(c)
    /\ Goto(c, "idle")
    /\ UNCHANGED <<cur, last, tgt, pend, net, tables, client>>

\* The flush of receipts throws on a dead socket: no registration.
JoinFails(c) ==
    /\ pc[c] = "bump"
    /\ pend[c] = <<>>
    /\ ~up[c]
    /\ Goto(c, "idle")
    /\ UNCHANGED <<cur, last, tgt, pend, net, clients, tables, client>>

-----------------------------------------------------------------------------
(***************************************************************************)
(* NetworkManager: handleLoginAck asks for the history after the newest    *)
(* stored timestamp; handleIncomingMessage stores and shows what it does   *)
(* not have.                                                               *)
(***************************************************************************)
ClientRead(c) ==
    /\ up[c]
    /\ inbox[c] # <<>>
    /\ LET d == DeviceOf[c]
           p == Head(inbox[c])
       IN  IF p.kind = "ack"
           THEN /\ outbox' = [outbox EXCEPT ![c] =
                      Append(@, [kind |-> "sync", cursor |-> newestTimestamp(d)])]
                /\ UNCHANGED shown
           ELSE LET m == [from |-> p.from, to |-> p.to, ts |-> canonical(p.ts)] IN
                /\ shown' = IF isDuplicate(d, m)
                            THEN shown
                            ELSE [shown EXCEPT ![d] = Append(@, m)]
                /\ UNCHANGED outbox
    /\ inbox' = [inbox EXCEPT ![c] = Tail(@)]
    /\ UNCHANGED <<thread, up, clients, tables, sends>>

\* NetworkManager::encryptAndSend: to the socket and to the local store.
ClientSend(c, u) ==
    /\ up[c]
    /\ DeviceOf[c] \in Talkers
    /\ u # User(c)
    /\ \A k \in DOMAIN inbox[c] : inbox[c][k] # LoginAck
    /\ sends < MaxSends
    /\ sends' = sends + 1
    /\ outbox' = [outbox EXCEPT ![c] =
                     Append(@, [kind |-> "message", to |-> u, t |-> sends + 1])]
    /\ shown' = [shown EXCEPT ![DeviceOf[c]] =
                    Append(@, [from |-> User(c), to |-> u, ts |-> Iso(sends + 1)])]
    /\ UNCHANGED <<thread, up, inbox, clients, tables>>

-----------------------------------------------------------------------------
\* MessageHandler: the INSERT into messages.
SaveMessage(c) ==
    /\ pc[c] = "idle"
    /\ outbox[c] # <<>>
    /\ LET p == Head(outbox[c]) IN
       /\ p.kind = "message"
       /\ rows' = Append(rows, [from |-> User(c), to |-> p.to, t |-> p.t])
    /\ cur' = [cur EXCEPT ![c] = Len(rows) + 1]
    /\ outbox' = [outbox EXCEPT ![c] = Tail(@)]
    /\ Goto(c, "route")
    /\ UNCHANGED <<last, tgt, pend, up, inbox, clients, queue, queued, wrote, client>>

\* findClient: the first registered session, or none.
Route(c) ==
    /\ pc[c] = "route"
    /\ LET v == clients[rows[cur[c]].to] IN
       IF v # <<>>
       THEN tgt' = [tgt EXCEPT ![c] = Head(v)] /\ Goto(c, "forward")
       ELSE Goto(c, "reload") /\ UNCHANGED tgt
    /\ UNCHANGED <<cur, last, pend, net, clients, tables, client>>

\* The session found may have lost its peer, or its thread, since.
Forward(c) ==
    /\ pc[c] = "forward"
    /\ LET r == tgt[c] IN
       inbox' = IF up[r]
                THEN [inbox EXCEPT ![r] =
                        Append(@, Forwarded(cur[c], Iso(rows[cur[c]].t), FALSE))]
                ELSE inbox
    /\ wrote' = wrote \cup {cur[c]}
    /\ tgt' = [tgt EXCEPT ![c] = None]
    /\ Goto(c, "echo")
    /\ UNCHANGED <<cur, last, pend, up, outbox, clients, rows, queue, queued, client>>

\* The send throws: no queue row, no echo, and ERR to the sender.
ForwardThrows(c) ==
    /\ pc[c] = "forward"
    /\ ~up[tgt[c]]
    /\ tgt' = [tgt EXCEPT ![c] = None]
    /\ cur' = [cur EXCEPT ![c] = 0]
    /\ Goto(c, "idle")
    /\ UNCHANGED <<last, pend, net, clients, tables, client>>

\* Offline: "reload to get the generated id", by created_at.
Reload(c) ==
    /\ pc[c] = "reload"
    /\ \E i \in LastByRecipient(rows[cur[c]].to) :
            last' = [last EXCEPT ![c] = i]
    /\ Goto(c, "enqueue")
    /\ UNCHANGED <<cur, tgt, pend, net, clients, tables, client>>

\* Mutant of Enqueue: the id of the object that was saved, which stays 0.
EnqueueUnsavedId(c) ==
    /\ pc[c] = "enqueue"
    /\ queue' = queue \cup {[id |-> queued + 1, msg |-> 0,
                             delivered |-> FALSE, attempts |-> 0]}
    /\ queued' = queued + 1
    /\ last' = [last EXCEPT ![c] = 0]
    /\ Goto(c, "echo")
    /\ UNCHANGED <<cur, tgt, pend, net, clients, rows, wrote, client>>

Enqueue(c) ==
    /\ pc[c] = "enqueue"
    /\ queue' = queue \cup {[id |-> queued + 1, msg |-> last[c],
                             delivered |-> FALSE, attempts |-> 0]}
    /\ queued' = queued + 1
    /\ last' = [last EXCEPT ![c] = 0]
    /\ Goto(c, "echo")
    /\ UNCHANGED <<cur, tgt, pend, net, clients, rows, wrote, client>>

(***************************************************************************)
(* The copies to the sender's other sessions and the ACK, then the         *)
(* registration in handleRequest.                                          *)
(***************************************************************************)
Echo(c) ==
    /\ pc[c] = "echo"
    /\ LET v == clients[User(c)]
           siblings == {v[k] : k \in DOMAIN v} \ {c}
       IN  inbox' = [e \in Conns |->
                      IF e \in siblings /\ up[e]
                      THEN Append(inbox[e],
                                  Forwarded(cur[c], Iso(rows[cur[c]].t), TRUE))
                      ELSE inbox[e]]
    /\ cur' = [cur EXCEPT ![c] = 0]
    /\ Register(c)
    /\ Goto(c, "idle")
    /\ UNCHANGED <<last, tgt, pend, up, outbox, tables, client>>

\* SyncHistoryHandler: one SELECT, then a replay packet for every row.
Sync(c) ==
    /\ pc[c] = "idle"
    /\ outbox[c] # <<>>
    /\ LET p == Head(outbox[c]) IN
       /\ p.kind = "sync"
       /\ \E found \in findAllForUser(User(c), p.cursor) :
            inbox' = [inbox EXCEPT ![c] = @ \o
                 [k \in DOMAIN found |->
                    Forwarded(found[k], Pg(rows[found[k]].t),
                              rows[found[k]].from = User(c))]]
    /\ outbox' = [outbox EXCEPT ![c] = Tail(@)]
    /\ Register(c)
    /\ UNCHANGED <<thread, up, tables, client>>

-----------------------------------------------------------------------------
(***************************************************************************)
(* The client's end closes.  Without "drop" the client is idle then: it    *)
(* has read what was sent to it and its requests are answered.  The server *)
(* notices later, in Leave.                                                *)
(***************************************************************************)
Close(c) ==
    /\ up[c]
    /\ "drop" \in Faults \/ (inbox[c] = <<>> /\ outbox[c] = <<>> /\ pc[c] = "idle")
    /\ up' = [up EXCEPT ![c] = FALSE]
    /\ inbox' = [inbox EXCEPT ![c] = <<>>]
    /\ outbox' = [outbox EXCEPT ![c] = <<>>]
    /\ UNCHANGED <<thread, clients, tables, client>>

\* The server's end: receive() fails, and the session leaves the map.
Leave(c) ==
    /\ pc[c] = "idle"
    /\ ~up[c]
    /\ Unregister(c)
    /\ Goto(c, "off")
    /\ UNCHANGED <<cur, last, tgt, pend, net, tables, client>>

\* The hourly timer: cleanupDelivered drops delivered rows that are a week
\* old by then, cleanupExhausted those out of attempts.
PurgeQueue ==
    /\ \E q \in queue : q.delivered \/ q.attempts >= MaxAttempts
    /\ \E old \in SUBSET {q \in queue : q.delivered} :
          queue' = {q \in queue \ old : q.delivered \/ q.attempts < MaxAttempts}
    /\ UNCHANGED <<thread, net, clients, rows, queued, wrote, client>>

\* The server dies: threads, sessions and packets go, the tables stay.
Crash ==
    /\ "crash" \in Faults
    /\ \E c \in Conns : pc[c] # "off"
    /\ pc' = [c \in Conns |-> "off"]
    /\ up' = [c \in Conns |-> FALSE]
    /\ inbox' = [c \in Conns |-> <<>>]
    /\ outbox' = [c \in Conns |-> <<>>]
    /\ cur' = [c \in Conns |-> 0]
    /\ last' = [c \in Conns |-> 0]
    /\ tgt' = [c \in Conns |-> None]
    /\ pend' = [c \in Conns |-> <<>>]
    /\ clients' = [u \in Users |-> <<>>]
    /\ UNCHANGED <<tables, client>>

ThreadStep(c) ==
    \/ ReadPending(c) \/ IncrementAttempts(c) \/ SendPending(c)
    \/ MarkDelivered(c) \/ Join(c) \/ JoinFails(c)
    \/ SaveMessage(c) \/ Route(c) \/ Forward(c) \/ ForwardThrows(c)
    \/ Reload(c) \/ Enqueue(c) \/ Echo(c) \/ Sync(c) \/ Leave(c)

Next ==
    \/ \E c \in Conns :
        \/ Login(c) \/ ClientRead(c) \/ Close(c) \/ ThreadStep(c)
        \/ \E u \in Users : ClientSend(c, u)
    \/ PurgeQueue
    \/ Crash

Spec == Init /\ [][Next]_vars

(***************************************************************************)
(* Server threads and the client's event loop keep running, and a user     *)
(* whose device is disconnected logs in again some time: delivery is       *)
(* promised for "when recipient reconnects".                               *)
(***************************************************************************)
FairSpec ==
    /\ Spec
    /\ \A c \in Conns : WF_vars(ThreadStep(c)) /\ WF_vars(ClientRead(c))
    /\ \A d \in Devices : WF_vars(\E c \in Conns : DeviceOf[c] = d /\ Login(c))

-----------------------------------------------------------------------------
Stored == [from : Users, to : Users, ts : [t : Nat, fmt : {"iso", "pg"}]]

(***************************************************************************)
(* Queue rows name messages that exist, threads sessions that do, and the  *)
(* position of a thread says which of its locals are set.                  *)
(***************************************************************************)
TypeOK ==
    /\ up \in [Conns -> BOOLEAN]
    /\ \A c \in Conns :
        /\ cur[c] \in Ids \cup {0}
        /\ (cur[c] # 0) <=> (pc[c] \in {"route", "forward", "reload", "enqueue", "echo"})
        /\ last[c] \in Ids \cup {0}
        /\ (tgt[c] \in Conns) <=> (pc[c] = "forward")
        /\ (pend[c] # <<>>) => (pc[c] \in {"bump", "send", "mark"})
        /\ ~up[c] => inbox[c] = <<>> /\ outbox[c] = <<>>
    /\ \A q \in queue : /\ q.id \in 1..queued /\ q.msg \in Ids
                         /\ q.delivered \in BOOLEAN /\ q.attempts \in Nat
    /\ \A d \in Devices : \A k \in DOMAIN shown[d] : shown[d][k] \in Stored
    /\ wrote \subseteq Ids

(***************************************************************************)
(* A chat never shows a message twice, although live forwarding, echoes,   *)
(* the queue and the sync may all bring it, in two timestamp formats       *)
(* (NetworkManager.cpp:245-309; docs/ "Duplicate messages on history       *)
(* sync").                                                                 *)
(***************************************************************************)
ShownOnce ==
    \A d \in Devices : \A j, k \in DOMAIN shown[d] :
        /\ shown[d][j].from = shown[d][k].from
        /\ shown[d][j].ts.t = shown[d][k].ts.t
        => j = k

(***************************************************************************)
(* A queue row is marked delivered only after its message was written to   *)
(* a socket of the recipient (LoginHandler.cpp:156-161).                   *)
(***************************************************************************)
DeliveredWasWritten == \A q \in queue : q.delivered => q.msg \in wrote

\* Message i is on device d, or one of the ways it can still get there is open.
Accounted(i, d) ==
    \/ \E k \in DOMAIN shown[d] :
         shown[d][k].from = rows[i].from /\ shown[d][k].ts.t = rows[i].t
    \/ rows[i].t > newestTimestamp(d)
    \/ \E q \in queue : q.msg = i /\ ~q.delivered /\ q.attempts < MaxAttempts
    \/ \E c \in Conns : cur[c] = i /\ pc[c] \in {"route", "forward", "reload", "enqueue"}
    \/ \E c \in Conns : DeviceOf[c] = d /\
         \/ \E k \in DOMAIN inbox[c] : /\ inbox[c][k].kind = "message"
                                       /\ inbox[c][k].from = rows[i].from
                                       /\ inbox[c][k].ts.t = rows[i].t
         \/ \E k \in DOMAIN outbox[c] : /\ outbox[c][k].kind = "sync"
                                        /\ outbox[c][k].cursor < rows[i].t

(***************************************************************************)
(* Every message in the table reaches each device of its recipient, or can *)
(* still do so: it is stored there, on its way, in the queue, asked for by *)
(* a sync request, being handled by its sender's thread, or newer than all *)
(* the device knows, so that the next login's sync will bring it           *)
(* (README.md:11, "messages delivered when recipient reconnects";          *)
(* MessageHandler.h:11-12).                                                *)
(***************************************************************************)
NothingLost ==
    \A i \in Ids : \A d \in Devices : UserOf[d] = rows[i].to => Accounted(i, d)

(***************************************************************************)
(* MAX_DELIVERY_ATTEMPTS counts logins that tried the entry: the limit is  *)
(* checked when the queue is read and the counter raised later, so each    *)
(* further connection that read the row in between adds at most one        *)
(* (OfflineQueueRepository.cpp:97-100; LoginHandler.cpp:137-141).          *)
(***************************************************************************)
AttemptsBounded ==
    \A q \in queue :
        q.attempts <= MaxAttempts - 1 +
                      Cardinality({c \in Conns : User(c) = rows[q.msg].to})

(***************************************************************************)
(* A message in the table is shown on the recipient's device in the end.   *)
(***************************************************************************)
EventuallyShown ==
    \A i \in 1..MaxSends, d \in Devices :
        (i \in Ids /\ UserOf[d] = rows[i].to) ~>
            (i \in Ids /\ \E k \in DOMAIN shown[d] :
                shown[d][k].from = rows[i].from /\ shown[d][k].ts.t = rows[i].t)

(***************************************************************************)
(* "Reload to get the generated id (save() used id=0 for insert)"          *)
(* (MessageHandler.cpp:42): the row that goes to the queue is the one this *)
(* handler saved.                                                          *)
(***************************************************************************)
ReloadsOwnId == \A c \in Conns : pc[c] = "enqueue" => last[c] = cur[c]
=============================================================================
