------------------------ MODULE ConversationDeletion ------------------------
(***************************************************************************)
(* Deleting the conversation of two users, "for both participants":        *)
(* DeleteConversationHandler and MessageRepository::deleteConversation     *)
(* against the message handler, the flush of a login and the history sync  *)
(* of the other threads, and the local copies of both clients.             *)
(*                                                                         *)
(* Each user has one device, and one connection at a time; the registry,   *)
(* several devices and the attempts of a queue row are the subject of      *)
(* SessionRegistry and MessageDelivery.  Statements of the handlers fail,  *)
(* and the server crashes.  Message i is the i-th written; i stands for    *)
(* its timestamp as well.                                                  *)
(***************************************************************************)
EXTENDS Naturals, SequencesExt, FiniteSetsExt

CONSTANTS
    Users,      \* the two participants
    MaxMsgs,    \* bound: messages written
    MaxDeletes, \* bound: deletions asked for
    MaxLogins,  \* bound: logins
    MaxFaults   \* bound: statements that fail and crashes of the server

ASSUME DeletionConstants ==
    /\ IsFiniteSet(Users) /\ Cardinality(Users) = 2
    /\ {MaxMsgs, MaxDeletes, MaxLogins, MaxFaults} \subseteq Nat

VARIABLES
    online,  \* the client is logged in and its socket open
    inbox,   \* packets on their way to the client
    outbox,  \* packets on their way to the server
    pc,      \* the server thread of the connection
    cur,     \* the message a thread handles
    pend,    \* messages a login or a sync still has to send
    batch,   \* notifications findAndClear returned
    cleared, \* queue rows the open transaction of a deletion has deleted
    reg,     \* users in Server::_clients
    rows,    \* table messages
    queue,   \* table offline_queue, by message
    notes,   \* table pending_notifications: deletions each user is to hear of
    store,   \* local copy of the conversation
    from,    \* the author of each message
    asked,   \* deletions asked for so far
    logins,  \* logins so far
    faults,  \* failed statements and crashes so far
    cursor,  \* the newest timestamp a client had at its login
    hidden,  \* history: messages a user deleted from his device
    erased,  \* history: messages a deletion removed from the server
    crossed, \* history: messages that reached a device after their deletion
    unheard, \* history: users a notification to whom was lost
    missed   \* history: users whose last login, or a sync since, failed

client  == <<online, inbox, outbox, store, from, asked, logins, cursor>>
thread  == <<pc, cur, pend, batch, cleared>>
tables  == <<rows, queue, notes>>
history == <<hidden, erased, crossed, unheard, missed, faults>>
vars    == <<client, thread, reg, tables, history>>

Ids == DOMAIN from
Other(u) == CHOOSE v \in Users : v # u

Message(i) == [kind |-> "message", id |-> i]
Delete     == [kind |-> "delete"]
LoginAck   == [kind |-> "ack"]
Sync(c)    == [kind |-> "sync", cursor |-> c]

\* ClientSession::send: written to a socket, or lost with it.
Delivered(v, q) == inbox' = [inbox EXCEPT ![v] = IF online[v] THEN @ \o q ELSE @]

Goto(u, l) == pc' = [pc EXCEPT ![u] = l]

\* A SELECT with ORDER BY: the thread has the messages of S, in order of time.
Select(u, S) ==
    \E s \in [1..Cardinality(S) -> S] :
        /\ \A i, j \in DOMAIN s : i < j => s[i] < s[j]
        /\ pend' = [pend EXCEPT ![u] = s]

Init ==
    /\ online = [u \in Users |-> FALSE]
    /\ inbox = [u \in Users |-> <<>>] /\ outbox = [u \in Users |-> <<>>]
    /\ pc = [u \in Users |-> "off"]
    /\ cur = [u \in Users |-> 0]
    /\ pend = [u \in Users |-> <<>>]
    /\ batch = [u \in Users |-> 0]
    /\ cleared = [u \in Users |-> {}]
    /\ reg = {} /\ rows = {} /\ queue = {}
    /\ notes = [u \in Users |-> 0]
    /\ store = [u \in Users |-> {}]
    /\ from = <<>>
    /\ asked = 0 /\ logins = 0
    /\ cursor = [u \in Users |-> 0]
    /\ hidden = [u \in Users |-> {}]
    /\ erased = {}
    /\ crossed = [u \in Users |-> {}]
    /\ unheard = {} /\ missed = {}
    /\ faults = 0

-----------------------------------------------------------------------------
(***************************************************************************)
(* The clients.                                                            *)
(***************************************************************************)
\* The login ACK has been read: the chat page is there.
Ready(u) == online[u] /\ \A k \in DOMAIN inbox[u] : inbox[u][k] # LoginAck

Ask(u, p) == outbox' = [outbox EXCEPT ![u] = Append(@, p)]

\* encryptAndSend: sent, then stored.
Write(u) ==
    /\ Ready(u) /\ Len(from) < MaxMsgs
    /\ from' = Append(from, u)
    /\ store' = [store EXCEPT ![u] = @ \cup {Len(from) + 1}]
    /\ Ask(u, Message(Len(from) + 1))
    /\ UNCHANGED <<online, inbox, asked, logins, cursor, thread, reg, tables, history>>

\* LocalStorage::deleteConversation, for the one who asks for it.
Forget(u) ==
    /\ Ready(u) /\ asked < MaxDeletes
    /\ asked' = asked + 1
    /\ store' = [store EXCEPT ![u] = {}]
    /\ hidden' = [hidden EXCEPT ![u] = @ \cup store[u]]
    /\ UNCHANGED <<online, inbox, from, logins, cursor, thread, reg, tables, erased, crossed,
                   unheard, missed, faults>>

\* deleteConversation
DeleteHere(u) == Forget(u) /\ UNCHANGED outbox

\* deleteConversationForEveryone: the server is told once.
DeleteForEveryone(u) == Forget(u) /\ Ask(u, Delete)

\* sendSyncHistory: from the newest timestamp that is stored.
newestTimestamp(u) == Max(store[u] \cup {0})

\* Deletions of u the server has not committed yet.
Asking(u) ==
    \/ pc[u] \in {"purge", "erase"}
    \/ \E k \in DOMAIN outbox[u] : outbox[u][k] = Delete

\* handleLoginAck, handleIncomingMessage, handleDeleteConversation.
ReceiveAck(u) ==
    /\ cursor' = [cursor EXCEPT ![u] = newestTimestamp(u)]
    /\ Ask(u, Sync(newestTimestamp(u)))
    /\ UNCHANGED <<store, crossed>>

ReceiveMessage(u, i) ==
    /\ store' = [store EXCEPT ![u] = @ \cup {i}]
    /\ crossed' = IF i \in erased \/ Asking(u)
                  THEN [crossed EXCEPT ![u] = @ \cup {i}] ELSE crossed
    /\ UNCHANGED <<outbox, cursor>>

ReceiveDelete(u) ==
    /\ store' = [store EXCEPT ![u] = {}]
    /\ UNCHANGED <<outbox, cursor, crossed>>

Receive(u) ==
    /\ online[u] /\ inbox[u] # <<>>
    /\ inbox' = [inbox EXCEPT ![u] = Tail(@)]
    /\ LET p == Head(inbox[u]) IN
       \/ p = LoginAck /\ ReceiveAck(u)
       \/ p.kind = "message" /\ ReceiveMessage(u, p.id)
       \/ p = Delete /\ ReceiveDelete(u)
    /\ UNCHANGED <<online, from, asked, logins, thread, reg, tables, hidden, erased, unheard,
                   missed, faults>>

\* The connection is lost with what is on it.
Disconnect(u) ==
    /\ online[u]
    /\ online' = [online EXCEPT ![u] = FALSE]
    /\ inbox' = [inbox EXCEPT ![u] = <<>>]
    /\ outbox' = [outbox EXCEPT ![u] = <<>>]
    /\ unheard' = IF \E k \in DOMAIN inbox[u] : inbox[u][k] = Delete
                  THEN unheard \cup {u} ELSE unheard
    /\ UNCHANGED <<store, from, asked, logins, cursor, thread, reg, tables, hidden, erased,
                   crossed, missed, faults>>

-----------------------------------------------------------------------------
(***************************************************************************)
(* LoginHandler: ACK, queued messages, queued notifications; the session   *)
(* is added to Server::_clients when the handler has returned.             *)
(***************************************************************************)
Login(u) ==
    /\ pc[u] = "off" /\ logins < MaxLogins
    /\ logins' = logins + 1
    /\ online' = [online EXCEPT ![u] = TRUE]
    /\ inbox' = [inbox EXCEPT ![u] = <<LoginAck>>]
    /\ missed' = missed \ {u}
    /\ Goto(u, "login")
    /\ UNCHANGED <<outbox, store, from, asked, cursor, cur, pend, batch, cleared, reg, tables,
                   hidden, erased, crossed, unheard, faults>>

\* findUndeliveredByRecipient
ReadQueue(u) ==
    /\ pc[u] = "login"
    /\ Select(u, {i \in queue : from[i] # u})
    /\ Goto(u, "flush")
    /\ UNCHANGED <<client, cur, batch, cleared, reg, tables, history>>

\* One queue entry: findById, send, markDelivered.  A dead socket that throws
\* ends the loop, one that does not takes the message with it.
Flush(u) ==
    /\ pc[u] = "flush" /\ pend[u] # <<>>
    /\ LET i == Head(pend[u]) IN
       \/ /\ i \in rows
          /\ Delivered(u, <<Message(i)>>)
          /\ queue' = queue \ {i}
          /\ pend' = [pend EXCEPT ![u] = Tail(@)]
       \/ /\ i \notin rows
          /\ pend' = [pend EXCEPT ![u] = Tail(@)]
          /\ UNCHANGED <<inbox, queue>>
       \/ /\ i \in rows /\ ~online[u]
          /\ pend' = [pend EXCEPT ![u] = <<>>]
          /\ UNCHANGED <<inbox, queue>>
    /\ UNCHANGED <<online, outbox, store, from, asked, logins, cursor, pc, cur, batch, cleared,
                   reg, rows, notes, history>>

\* findAndClear, its SELECT.
ReadNotes(u) ==
    /\ pc[u] = "flush" /\ pend[u] = <<>>
    /\ batch' = [batch EXCEPT ![u] = notes[u]]
    /\ Goto(u, "clear")
    /\ UNCHANGED <<client, cur, pend, cleared, reg, tables, history>>

\* Its DELETE, which takes a row inserted since along.
ClearNotes(u) ==
    /\ pc[u] = "clear"
    /\ notes' = [notes EXCEPT ![u] = 0]
    /\ unheard' = IF notes[u] > batch[u] THEN unheard \cup {u} ELSE unheard
    /\ Goto(u, "notes")
    /\ UNCHANGED <<client, cur, pend, batch, cleared, reg, rows, queue, hidden, erased, crossed,
                   missed, faults>>

\* What was read is sent; then handleLogin registers the session.
SendNotes(u) ==
    /\ pc[u] = "notes"
    /\ Delivered(u, [k \in 1..batch[u] |-> Delete])
    /\ unheard' = IF ~online[u] /\ batch[u] > 0 THEN unheard \cup {u} ELSE unheard
    /\ batch' = [batch EXCEPT ![u] = 0]
    /\ Goto(u, "register")
    /\ UNCHANGED <<online, outbox, store, from, asked, logins, cursor, cur, pend, cleared, reg,
                   tables, hidden, erased, crossed, missed, faults>>

\* A statement for one entry of the queue throws, before the message is sent or
\* after: the entry waits for the next login and the loop goes on.
FlushFails(u) ==
    /\ pc[u] = "flush" /\ pend[u] # <<>>
    /\ faults < MaxFaults
    /\ faults' = faults + 1
    /\ pend' = [pend EXCEPT ![u] = Tail(@)]
    /\ \/ UNCHANGED inbox
       \/ Head(pend[u]) \in rows /\ Delivered(u, <<Message(Head(pend[u]))>>)
    /\ UNCHANGED <<online, outbox, store, from, asked, logins, cursor, pc, cur, batch, cleared,
                   reg, tables, hidden, erased, crossed, unheard, missed>>

\* Any other statement of the login throws, and the handler with it: the session
\* is authenticated but not registered.  The notifications stay, unless the
\* DELETE of findAndClear was committed and only its reply was lost.
LoginFails(u) ==
    /\ pc[u] \in {"login", "clear"} \/ (pc[u] = "flush" /\ pend[u] = <<>>)
    /\ faults < MaxFaults
    /\ faults' = faults + 1
    /\ \/ UNCHANGED <<notes, unheard>>
       \/ /\ pc[u] = "clear"
          /\ notes' = [notes EXCEPT ![u] = 0]
          /\ unheard' = IF notes[u] > 0 THEN unheard \cup {u} ELSE unheard
    /\ batch' = [batch EXCEPT ![u] = 0]
    /\ missed' = missed \cup {u}
    /\ Goto(u, "idle")
    /\ UNCHANGED <<client, cur, pend, cleared, reg, rows, queue, hidden, erased, crossed>>

\* addClient: after the login, or after a later request of a session whose login
\* failed (Server.cpp:80-89).
Register(u) ==
    /\ pc[u] = "register" \/ (pc[u] = "idle" /\ u \notin reg)
    /\ reg' = reg \cup {u}
    /\ Goto(u, "idle")
    /\ UNCHANGED <<client, cur, pend, batch, cleared, tables, history>>

\* The read of the next packet fails: removeClient, and the thread ends.
Leave(u) ==
    /\ pc[u] = "idle" /\ ~online[u]
    /\ reg' = reg \ {u}
    /\ Goto(u, "off")
    /\ UNCHANGED <<client, cur, pend, batch, cleared, tables, history>>

-----------------------------------------------------------------------------
(***************************************************************************)
(* Handlers of the packets of a registered session.                        *)
(***************************************************************************)
Take(u) ==
    /\ pc[u] = "idle" /\ outbox[u] # <<>>
    /\ outbox' = [outbox EXCEPT ![u] = Tail(@)]
    /\ LET p == Head(outbox[u]) IN
       \/ p.kind = "message" /\ cur' = [cur EXCEPT ![u] = p.id] /\ Goto(u, "save")
       \/ p.kind = "sync" /\ cur' = [cur EXCEPT ![u] = p.cursor] /\ Goto(u, "sync")
       \/ p = Delete /\ UNCHANGED cur /\ Goto(u, "purge")
    /\ UNCHANGED <<online, inbox, store, from, asked, logins, cursor, pend, batch, cleared, reg,
                   tables, history>>

Save(u) ==
    /\ pc[u] = "save"
    /\ rows' = rows \cup {cur[u]}
    /\ Goto(u, "route")
    /\ UNCHANGED <<client, cur, pend, batch, cleared, reg, queue, notes, history>>

\* A recipient that is registered gets the message, if his socket still lives.
Route(u) ==
    /\ pc[u] = "route"
    /\ IF Other(u) \in reg
       THEN Delivered(Other(u), <<Message(cur[u])>>) /\ Goto(u, "idle")
       ELSE UNCHANGED inbox /\ Goto(u, "reload")
    /\ UNCHANGED <<online, outbox, store, from, asked, logins, cursor, cur, pend, batch, cleared,
                   reg, tables, history>>

\* findByRecipient(...).back(): the newest message to the recipient, if there
\* is one.
Reload(u) ==
    /\ pc[u] = "reload"
    /\ LET saved == {i \in rows : from[i] = u} IN
       IF saved = {} THEN UNCHANGED cur /\ Goto(u, "idle")
       ELSE cur' = [cur EXCEPT ![u] = Max(saved)] /\ Goto(u, "queue")
    /\ UNCHANGED <<client, pend, batch, cleared, reg, tables, history>>

\* OfflineQueueRepository::save: the foreign key wants the message; without
\* it the handler fails.
Queue(u) ==
    /\ pc[u] = "queue"
    /\ queue' = IF cur[u] \in rows THEN queue \cup {cur[u]} ELSE queue
    /\ Goto(u, "idle")
    /\ UNCHANGED <<client, cur, pend, batch, cleared, reg, rows, notes, history>>

\* Mutant of ReadHistory: only what the user sent.
ReadHistorySent(u) ==
    /\ pc[u] = "sync"
    /\ Select(u, {i \in rows : i > cur[u] /\ from[i] = u})
    /\ Goto(u, "replay")
    /\ UNCHANGED <<client, cur, batch, cleared, reg, tables, history>>

\* SyncHistoryHandler: findAllForUser after the cursor, in order of time.
ReadHistory(u) ==
    /\ pc[u] = "sync"
    /\ Select(u, {i \in rows : i > cur[u]})
    /\ Goto(u, "replay")
    /\ UNCHANGED <<client, cur, batch, cleared, reg, tables, history>>

\* ... one message at a time; a dead socket ends the handler.
Replay(u) ==
    /\ pc[u] = "replay"
    /\ IF pend[u] # <<>>
       THEN /\ Delivered(u, <<Message(Head(pend[u]))>>)
            /\ pend' = [pend EXCEPT ![u] = IF online[u] THEN Tail(@) ELSE <<>>]
            /\ UNCHANGED pc
       ELSE UNCHANGED <<inbox, pend>> /\ Goto(u, "idle")
    /\ UNCHANGED <<online, outbox, store, from, asked, logins, cursor, cur, batch, cleared, reg,
                   tables, history>>

-----------------------------------------------------------------------------
(***************************************************************************)
(* DeleteConversationHandler.  deleteConversation is one transaction of    *)
(* two statements: the queue rows first, then the messages.  A queue row   *)
(* another thread has inserted in between makes the second one fail, and   *)
(* nothing is deleted.                                                     *)
(***************************************************************************)
Purge(u) ==
    /\ pc[u] = "purge"
    /\ cleared' = [cleared EXCEPT ![u] = queue]
    /\ Goto(u, "erase")
    /\ UNCHANGED <<client, cur, pend, batch, reg, tables, history>>

\* Mutant of Erase: the queue rows of the conversation stay.
EraseKeepsQueue(u) ==
    /\ pc[u] = "erase"
    /\ cleared' = [cleared EXCEPT ![u] = {}]
    /\ rows' = {}
    /\ erased' = erased \cup rows
    /\ Goto(u, "notify")
    /\ UNCHANGED <<client, cur, pend, batch, reg, queue, notes, hidden, crossed, unheard, missed,
                   faults>>

Erase(u) ==
    /\ pc[u] = "erase"
    /\ cleared' = [cleared EXCEPT ![u] = {}]
    /\ IF queue \subseteq cleared[u]
       THEN /\ rows' = {} /\ queue' = {}
            /\ erased' = erased \cup rows
            /\ Goto(u, "notify")
       ELSE UNCHANGED <<rows, queue, erased>> /\ Goto(u, "idle")
    /\ UNCHANGED <<client, cur, pend, batch, reg, notes, hidden, crossed, unheard, missed, faults>>

\* The notification: sent to a registered peer, or queued.  A dead socket may
\* or may not say that it is dead.
Notify(u) ==
    /\ pc[u] = "notify"
    /\ LET v == Other(u) IN
       \/ /\ v \in reg
          /\ Delivered(v, <<Delete>>)
          /\ unheard' = IF online[v] THEN unheard ELSE unheard \cup {v}
          /\ Goto(u, "idle")
       \/ /\ v \in reg => ~online[v]
          /\ UNCHANGED <<inbox, unheard>>
          /\ Goto(u, "note")
    /\ UNCHANGED <<online, outbox, store, from, asked, logins, cursor, cur, pend, batch, cleared,
                   reg, tables, hidden, erased, crossed, missed, faults>>

\* Mutant of Note: nothing is queued for a peer that is offline.
NoteDropped(u) ==
    /\ pc[u] = "note"
    /\ Goto(u, "idle")
    /\ UNCHANGED <<client, cur, pend, batch, cleared, reg, tables, history>>

\* PendingNotificationRepository::queue
Note(u) ==
    /\ pc[u] = "note"
    /\ notes' = [notes EXCEPT ![Other(u)] = @ + 1]
    /\ Goto(u, "idle")
    /\ UNCHANGED <<client, cur, pend, batch, cleared, reg, rows, queue, history>>

-----------------------------------------------------------------------------
\* A statement of a handler throws: the transaction is rolled back, the handler
\* ends, and the connection goes on with the next packet.
Fails(u) ==
    /\ faults < MaxFaults
    /\ pc[u] \in {"save", "reload", "queue", "sync", "purge", "erase", "note"}
    /\ faults' = faults + 1
    /\ cleared' = [cleared EXCEPT ![u] = {}]
    /\ unheard' = IF pc[u] = "note" THEN unheard \cup {Other(u)} ELSE unheard
    /\ missed' = IF pc[u] = "sync" THEN missed \cup {u} ELSE missed
    /\ Goto(u, "idle")
    /\ UNCHANGED <<client, cur, pend, batch, reg, tables, hidden, erased, crossed>>

\* The server ends in the middle of everything and is started again: threads,
\* sockets and Server::_clients are gone, the tables are what was committed.
Crash ==
    /\ faults < MaxFaults
    /\ faults' = faults + 1
    /\ online' = [u \in Users |-> FALSE]
    /\ inbox' = [u \in Users |-> <<>>] /\ outbox' = [u \in Users |-> <<>>]
    /\ pc' = [u \in Users |-> "off"]
    /\ pend' = [u \in Users |-> <<>>]
    /\ batch' = [u \in Users |-> 0]
    /\ cleared' = [u \in Users |-> {}]
    /\ reg' = {}
    /\ unheard' = unheard \cup {u \in Users :
            \/ pc[Other(u)] \in {"notify", "note"}
            \/ pc[u] = "notes" /\ batch[u] > 0
            \/ \E k \in DOMAIN inbox[u] : inbox[u][k] = Delete}
    /\ UNCHANGED <<store, from, asked, logins, cursor, cur, tables, hidden, erased, crossed,
                   missed>>

Step(u) ==
    \/ Write(u) \/ DeleteHere(u) \/ DeleteForEveryone(u) \/ Receive(u) \/ Disconnect(u)
    \/ Login(u) \/ ReadQueue(u) \/ Flush(u) \/ ReadNotes(u) \/ ClearNotes(u)
    \/ SendNotes(u) \/ Register(u) \/ Leave(u) \/ FlushFails(u) \/ LoginFails(u)
    \/ Take(u) \/ Save(u) \/ Route(u) \/ Reload(u) \/ Queue(u)
    \/ ReadHistory(u) \/ Replay(u)
    \/ Purge(u) \/ Erase(u) \/ Notify(u) \/ Note(u)
    \/ Fails(u)

Next == Crash \/ \E u \in Users : Step(u)

Spec == Init /\ [][Next]_vars

-----------------------------------------------------------------------------
Resting(u) == pc[u] \in {"off", "idle"}

\* Nothing is on its way to the device of u, or to the server.
Settled(u) ==
    /\ u \in reg /\ online[u]
    /\ inbox[u] = <<>> /\ outbox[u] = <<>>
    /\ \A v \in Users : Resting(v)

(***************************************************************************)
(* Tables, threads and packets have their types; a queue row has its       *)
(* message (the foreign key of offline_queue), and only a thread that is   *)
(* inside deleteConversation has an open transaction.                      *)
(***************************************************************************)
TypeOK ==
    /\ online \in [Users -> BOOLEAN]
    /\ reg \subseteq Users
    /\ rows \cup erased \subseteq Ids
    /\ queue \subseteq rows
    /\ \A u \in Users :
        /\ store[u] \cup hidden[u] \cup crossed[u] \subseteq Ids
        /\ cleared[u] # {} => pc[u] = "erase"
        /\ notes[u] \in 0..MaxDeletes /\ batch[u] \in 0..MaxDeletes
        /\ u \in reg => pc[u] \notin {"off", "login", "flush", "clear", "notes", "register"}

(***************************************************************************)
(* A queued DELETE_CONVERSATION is flushed after the queued messages       *)
(* (LoginHandler.cpp:140-172) and wipes them from the device, those that   *)
(* were written after the deletion too.  The sync that the client asked    *)
(* for with the cursor it had before the flush (NetworkManager.cpp:87-97,  *)
(* 238-239) brings them back: unless a statement of the login or of the    *)
(* sync failed, a settled device has what the peer wrote since its cursor  *)
(* and the server has, but for what its user deleted and what waits for    *)
(* the next login.                                                         *)
(* What the device had before the login is wiped too, newer than the       *)
(* deletion or not, and no sync brings it back: see OwnStay.               *)
(***************************************************************************)
WipedComesBack ==
    \A u \in Users : Settled(u) /\ u \notin missed =>
        \A i \in rows : from[i] # u /\ i > cursor[u] =>
            i \in store[u] \cup queue \cup hidden[u]

(***************************************************************************)
(* "Delete a conversation for both participants" (NetworkManager.h:115),   *)
(* as far as it goes: a message the server has erased stays on a settled   *)
(* device only if it got there when it was already being deleted, or if    *)
(* the notification is still queued or was lost: with a connection, in the *)
(* flush of a login, because the statement that queues it failed after the *)
(* deletion was committed, or with the server.                             *)
(***************************************************************************)
DeletedCauses ==
    \A u \in Users : Settled(u) =>
        \A i \in store[u] \cap erased :
            i \in crossed[u] \/ u \in unheard \/ notes[u] > 0

(***************************************************************************)
(* "the server hard-deletes the messages and notifies the peer"            *)
(* (NetworkManager.h:118-119): with no notification lost or waiting, an    *)
(* erased message is on neither device.                                    *)
(***************************************************************************)
DeletedForBoth ==
    \A u \in Users : Settled(u) =>
        \A i \in store[u] \cap erased : u \in unheard \/ notes[u] > 0

(***************************************************************************)
(* A deletion takes nothing that was written after it: what a user wrote   *)
(* and the server has is on his device, unless he deleted it there.  The   *)
(* code does not keep this: the DELETE_CONVERSATION of a peer wipes what   *)
(* was written between the commit and its arrival                          *)
(* (NetworkManager.cpp:761-765).                                           *)
(***************************************************************************)
OwnStay ==
    \A u \in Users : Settled(u) =>
        \A i \in rows : from[i] = u => i \in store[u] \cup hidden[u]
=============================================================================
