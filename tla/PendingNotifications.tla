------------------------ MODULE PendingNotifications ------------------------
(***************************************************************************)
(* Store-and-forward of control packets to one user through the table      *)
(* pending_notifications.  CreateGroupHandler, GroupKeyExchangeHandler,    *)
(* DeleteGroupHandler and DeleteConversationHandler all produce them the   *)
(* same way: look the user's session up, send, and queue when there is no  *)
(* session or the send throws.  LoginHandler::flushPendingNotifications    *)
(* consumes them: findAndClear is a SELECT and a DELETE, each committed by *)
(* itself, and the session joins Server::_clients only after the flush.    *)
(* Any of these statements may throw a DbException, which ends its handler *)
(* and not the connection, and the server may crash between two steps.     *)
(***************************************************************************)
EXTENDS Naturals, SequencesExt

CONSTANTS
    Producers,  \* threads of the users who cause notifications
    Conns,      \* connections of the recipient
    None,       \* nullptr
    MaxNotes,   \* bound: notifications
    MaxFaults   \* bound: statements that fail and crashes of the server

ASSUME NotificationConstants ==
    /\ None \notin Conns
    /\ MaxNotes \in Nat
    /\ MaxFaults \in Nat

VARIABLES
    pc,       \* producers: where the handler is
    note,     \* producers: the notification, 0 when there is none
    tgt,      \* producers: the session findClient returned
    login,    \* connections: where the thread is
    batch,    \* connections: rows read by findAndClear and not yet sent
    up,       \* connections: the peer is there
    clients,  \* the recipient's vector in Server::_clients, without repetitions
    pending,  \* the recipient's rows of pending_notifications
    issued,   \* notifications so far: 1..issued
    got,      \* how often each one was sent to a peer that was there
    blind,    \* history: those whose send met a dead socket
    late,     \* history: rows inserted while a login was about to DELETE
    faults,   \* statements that failed and crashes so far
    cut       \* history: those that were in no table when a fault came

producer  == <<pc, note, tgt>>
recipient == <<login, batch, up, clients>>
vars == <<producer, recipient, pending, issued, got, blind, late, faults, cut>>

Notes == 1..MaxNotes

Init ==
    /\ pc = [p \in Producers |-> "idle"]
    /\ note = [p \in Producers |-> 0]
    /\ tgt = [p \in Producers |-> None]
    /\ login = [c \in Conns |-> "off"]
    /\ batch = [c \in Conns |-> {}]
    /\ up = [c \in Conns |-> FALSE]
    /\ clients = <<>>
    /\ pending = {}
    /\ issued = 0
    /\ got = [n \in Notes |-> 0]
    /\ blind = {}
    /\ late = {}
    /\ faults = 0
    /\ cut = {}

-----------------------------------------------------------------------------
\* A handler has changed the tables and has somebody to tell.
Produce(p) ==
    /\ pc[p] = "idle"
    /\ issued < MaxNotes
    /\ issued' = issued + 1
    /\ note' = [note EXCEPT ![p] = issued + 1]
    /\ pc' = [pc EXCEPT ![p] = "find"]
    /\ UNCHANGED <<tgt, recipient, pending, got, blind, late, faults, cut>>

\* Mutant of FindClient: no test for nullptr.
FindClientUnchecked(p) ==
    /\ pc[p] = "find"
    /\ tgt' = [tgt EXCEPT ![p] = IF clients = <<>> THEN None ELSE Head(clients)]
    /\ pc' = [pc EXCEPT ![p] = "send"]
    /\ UNCHANGED <<note, recipient, pending, issued, got, blind, late, faults, cut>>

\* Server::findClient, and the branch on its result.
FindClient(p) ==
    /\ pc[p] = "find"
    /\ IF clients # <<>>
       THEN /\ tgt' = [tgt EXCEPT ![p] = Head(clients)]
            /\ pc' = [pc EXCEPT ![p] = "send"]
       ELSE /\ pc' = [pc EXCEPT ![p] = "queue"]
            /\ UNCHANGED tgt
    /\ UNCHANGED <<note, recipient, pending, issued, got, blind, late, faults, cut>>

\* The send returns; a socket whose peer has just gone takes the packet too.
Send(p) ==
    /\ pc[p] = "send"
    /\ IF up[tgt[p]]
       THEN got' = [got EXCEPT ![note[p]] = @ + 1] /\ UNCHANGED blind
       ELSE blind' = blind \cup {note[p]} /\ UNCHANGED got
    /\ pc' = [pc EXCEPT ![p] = "idle"]
    /\ note' = [note EXCEPT ![p] = 0]
    /\ tgt' = [tgt EXCEPT ![p] = None]
    /\ UNCHANGED <<recipient, pending, issued, late, faults, cut>>

\* Mutant of SendThrows: the exception drops the notification.
SendThrowsDrops(p) ==
    /\ pc[p] = "send"
    /\ ~up[tgt[p]]
    /\ pc' = [pc EXCEPT ![p] = "idle"]
    /\ note' = [note EXCEPT ![p] = 0]
    /\ tgt' = [tgt EXCEPT ![p] = None]
    /\ UNCHANGED <<recipient, pending, issued, got, blind, late, faults, cut>>

\* NetworkException: queue instead.
SendThrows(p) ==
    /\ pc[p] = "send"
    /\ ~up[tgt[p]]
    /\ pc' = [pc EXCEPT ![p] = "queue"]
    /\ tgt' = [tgt EXCEPT ![p] = None]
    /\ UNCHANGED <<note, recipient, pending, issued, got, blind, late, faults, cut>>

\* Mutant of Queue: the handler comes back to its loop with the same user.
QueueAgain(p) ==
    /\ pc[p] = "queue"
    /\ pending' = pending \cup {note[p]}
    /\ late' = IF \E c \in Conns : login[c] = "clear" THEN late \cup {note[p]} ELSE late
    /\ pc' = [pc EXCEPT ![p] = "find"]
    /\ UNCHANGED <<note, tgt, recipient, issued, got, blind, faults, cut>>

\* PendingNotificationRepository::queue
Queue(p) ==
    /\ pc[p] = "queue"
    /\ pending' = pending \cup {note[p]}
    /\ late' = IF \E c \in Conns : login[c] = "clear" THEN late \cup {note[p]} ELSE late
    /\ pc' = [pc EXCEPT ![p] = "idle"]
    /\ note' = [note EXCEPT ![p] = 0]
    /\ UNCHANGED <<tgt, recipient, issued, got, blind, faults, cut>>

\* The INSERT throws and the handler ends: the table it changed stays changed
\* and nobody is told.  (One that was committed all the same is a Queue.)
QueueFails(p) ==
    /\ pc[p] = "queue"
    /\ faults < MaxFaults
    /\ faults' = faults + 1
    /\ cut' = cut \cup {note[p]}
    /\ pc' = [pc EXCEPT ![p] = "idle"]
    /\ note' = [note EXCEPT ![p] = 0]
    /\ UNCHANGED <<tgt, recipient, pending, issued, got, blind, late>>

-----------------------------------------------------------------------------
\* A login has got as far as the flush of notifications.
Login(c) ==
    /\ login[c] = "off"
    /\ \A p \in Producers : tgt[p] # c
    /\ up' = [up EXCEPT ![c] = TRUE]
    /\ login' = [login EXCEPT ![c] = "select"]
    /\ UNCHANGED <<producer, batch, clients, pending, issued, got, blind, late, faults, cut>>

\* findAndClear, the SELECT ...
Select(c) ==
    /\ login[c] = "select"
    /\ batch' = [batch EXCEPT ![c] = pending]
    /\ login' = [login EXCEPT ![c] = "clear"]
    /\ UNCHANGED <<producer, up, clients, pending, issued, got, blind, late, faults, cut>>

\* Mutant of Clear: the rows are left in the table.
ClearNothing(c) ==
    /\ login[c] = "clear"
    /\ login' = [login EXCEPT ![c] = "flush"]
    /\ UNCHANGED <<producer, batch, up, clients, pending, issued, got, blind, late, faults, cut>>

\* ... and the DELETE, of whatever rows the recipient has by now.
Clear(c) ==
    /\ login[c] = "clear"
    /\ pending' = {}
    /\ login' = [login EXCEPT ![c] = "flush"]
    /\ UNCHANGED <<producer, batch, up, clients, issued, got, blind, late, faults, cut>>

\* A statement of findAndClear throws, and the login with it: the session is
\* authenticated but not in the map.  The rows stay, unless the DELETE was
\* committed and only its reply was lost.
FindAndClearFails(c) ==
    /\ login[c] \in {"select", "clear"}
    /\ faults < MaxFaults
    /\ faults' = faults + 1
    /\ \/ UNCHANGED <<pending, cut>>
       \/ login[c] = "clear" /\ pending' = {} /\ cut' = cut \cup pending
    /\ batch' = [batch EXCEPT ![c] = {}]
    /\ login' = [login EXCEPT ![c] = "unlisted"]
    /\ UNCHANGED <<producer, up, clients, issued, got, blind, late>>

\* The rows go out in the order of created_at; a failure is only logged.
FlushOne(c) ==
    /\ login[c] = "flush"
    /\ \E n \in batch[c] :
          /\ \A k \in batch[c] : n <= k
          /\ IF up[c]
             THEN got' = [got EXCEPT ![n] = @ + 1] /\ UNCHANGED blind
             ELSE blind' = blind \cup {n} /\ UNCHANGED got
          /\ batch' = [batch EXCEPT ![c] = @ \ {n}]
    /\ UNCHANGED <<producer, login, up, clients, pending, issued, late, faults, cut>>

\* The handler returns and handleRequest calls addClient; after a login that
\* threw, the next request of the connection does (Server.cpp:80-89).
Join(c) ==
    /\ login[c] \in {"flush", "unlisted"}
    /\ batch[c] = {}
    /\ clients' = Append(clients, c)
    /\ login' = [login EXCEPT ![c] = "idle"]
    /\ UNCHANGED <<producer, batch, up, pending, issued, got, blind, late, faults, cut>>

Close(c) ==
    /\ up[c]
    /\ up' = [up EXCEPT ![c] = FALSE]
    /\ UNCHANGED <<producer, login, batch, clients, pending, issued, got, blind, late, faults, cut>>

\* removeClient; the vector has the session once.
Leave(c) ==
    /\ login[c] \in {"idle", "unlisted"}
    /\ ~up[c]
    /\ clients' = RemoveFirst(clients, c)
    /\ login' = [login EXCEPT ![c] = "off"]
    /\ UNCHANGED <<producer, batch, up, pending, issued, got, blind, late, faults, cut>>

\* The server dies and starts again: the tables stay, threads, sockets and
\* what findAndClear returned are gone.
Crash ==
    /\ faults < MaxFaults
    /\ faults' = faults + 1
    /\ cut' = cut \cup {note[p] : p \in {q \in Producers : pc[q] # "idle"}}
                  \cup {n \in 1..issued : \E c \in Conns : login[c] = "flush" /\ n \in batch[c]}
    /\ pc' = [p \in Producers |-> "idle"]
    /\ note' = [p \in Producers |-> 0]
    /\ tgt' = [p \in Producers |-> None]
    /\ login' = [c \in Conns |-> "off"]
    /\ batch' = [c \in Conns |-> {}]
    /\ up' = [c \in Conns |-> FALSE]
    /\ clients' = <<>>
    /\ UNCHANGED <<pending, issued, got, blind, late>>

ProducerStep(p) ==
    FindClient(p) \/ Send(p) \/ SendThrows(p) \/ Queue(p)

LoginStep(c) ==
    Select(c) \/ Clear(c) \/ FlushOne(c) \/ Join(c) \/ Leave(c)

Next ==
    \/ \E p \in Producers : Produce(p) \/ ProducerStep(p) \/ QueueFails(p)
    \/ \E c \in Conns : Login(c) \/ Close(c) \/ LoginStep(c) \/ FindAndClearFails(c)
    \/ Crash

Spec == Init /\ [][Next]_vars

(***************************************************************************)
(* Threads keep running, peers do not stay for ever and the recipient logs *)
(* in again; faults, of which there are finitely many, need not come.      *)
(***************************************************************************)
FairSpec ==
    /\ Spec
    /\ \A p \in Producers : WF_vars(ProducerStep(p))
    /\ \A c \in Conns : WF_vars(LoginStep(c)) /\ WF_vars(Close(c)) /\ WF_vars(Login(c))

-----------------------------------------------------------------------------
(***************************************************************************)
(* Every variable keeps its type, and locals are set where they are used.  *)
(***************************************************************************)
TypeOK ==
    /\ pc \in [Producers -> {"idle", "find", "send", "queue"}]
    /\ note \in [Producers -> 0..issued]
    /\ tgt \in [Producers -> Conns \cup {None}]
    /\ \A p \in Producers : /\ (note[p] = 0) <=> (pc[p] = "idle")
                            /\ (tgt[p] = None) <=> (pc[p] # "send")
    /\ login \in [Conns -> {"off", "select", "clear", "flush", "unlisted", "idle"}]
    /\ batch \in [Conns -> SUBSET (1..issued)]
    /\ up \in [Conns -> BOOLEAN]
    /\ clients \in Seq(Conns)
    /\ pending \subseteq 1..issued
    /\ issued \in 0..MaxNotes
    /\ got \in [Notes -> Nat]
    /\ blind \subseteq 1..issued
    /\ late \subseteq 1..issued
    /\ faults \in 0..MaxFaults
    /\ cut \subseteq 1..issued

(***************************************************************************)
(* With one connection of the recipient at a time no notification is sent  *)
(* twice: a live send and a queued row exclude each other, also when a     *)
(* send fails and is queued instead (DeleteConversationHandler.cpp:20-38). *)
(***************************************************************************)
SentOnce == \A n \in Notes : got[n] <= 1

(***************************************************************************)
(* What becomes of a notification: it is with its handler, in the table,   *)
(* with a login that has deleted its row, or it was sent.  It is lost to a *)
(* send that met a dead socket, to an INSERT between the SELECT and the    *)
(* DELETE of a login (PendingNotificationRepository.cpp:43-60), or to a    *)
(* failing statement or a crash while it was in no row: a row survives     *)
(* both, until a DELETE has taken it.                                      *)
(***************************************************************************)
LossCauses ==
    \A n \in 1..issued :
        \/ got[n] > 0
        \/ n \in pending
        \/ \E p \in Producers : note[p] = n
        \/ \E c \in Conns : login[c] = "flush" /\ n \in batch[c]
        \/ n \in blind \cup late \cup cut

(***************************************************************************)
(* A queued notification does not stay in the table for ever: the next     *)
(* login takes it out.                                                     *)
(***************************************************************************)
QueueDrains == \A n \in Notes : n \in pending ~> n \notin pending

(***************************************************************************)
(* "Queue a packet for delivery the next time recipient logs in"           *)
(* (PendingNotificationRepository.h:35): a notification that was queued    *)
(* for an offline user stays in the table until it is read for a login.    *)
(***************************************************************************)
QueuedIsKept ==
    [][\A n \in pending : n \notin pending' => \E c \in Conns : n \in batch[c]]_vars

(***************************************************************************)
(* "Consume-once semantics" (PendingNotificationRepository.h:50): no row   *)
(* is read for two logins.                                                 *)
(***************************************************************************)
ConsumedOnce ==
    \A c, d \in Conns : c # d => batch[c] \cap batch[d] = {}
=============================================================================
