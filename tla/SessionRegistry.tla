--------------------------- MODULE SessionRegistry ---------------------------
(***************************************************************************)
(* The connection side of the BitATM server: one thread per WebSocket      *)
(* (ConnectionHandler::handleRequest), the map Server::_clients from user  *)
(* names to the sessions messages are routed to, and the sessions table    *)
(* of PostgreSQL.  A thread runs authentication handlers, registers its    *)
(* ClientSession after every packet it handled, and cleans up on the way   *)
(* out.  Statements are autocommitted and _clientsMutex covers one map     *)
(* operation, so each of them is one action and threads interleave there.  *)
(*                                                                         *)
(* The map holds shared pointers; removeClient compares raw addresses.     *)
(* Addrs is the set of addresses the allocator hands out: an address is    *)
(* given to a new ClientSession once nothing owns the previous one.        *)
(***************************************************************************)
EXTENDS Naturals, FiniteSets

CONSTANTS
    Conns,      \* connection threads of the Poco pool
    Addrs,      \* addresses of ClientSession objects
    NoAddr,     \* nullptr
    Users,      \* user names
    NoUser,     \* the empty string
    Faults,     \* which failures a run injects: "db" and "crash"
    MaxTokens,  \* bound: rows of the sessions table
    MaxRegs     \* bound: packets are received while fewer addClient calls ran

ASSUME RegistryConstants ==
    /\ NoUser \notin Users
    /\ NoAddr \notin Addrs
    /\ Faults \subseteq {"db", "crash"}
    /\ MaxTokens \in Nat
    /\ MaxRegs \in Nat

VARIABLES
    pc,        \* where each thread is
    sock,      \* is the peer still there
    addr,      \* address of the thread's ClientSession (sessionPtr)
    req,       \* packet.from of the LOGIN or REGISTER being handled
    sessUser,  \* ClientSession: user name, NoUser until authenticated
    sessTok,   \* ClientSession: session token, 0 when empty
    name,      \* handleRequest's local username
    tok,       \* handleRequest's local sessionToken
    clients,   \* Server::_clients; "at" orders the entries of a vector
    regs,      \* number of addClient calls so far
    accounts,  \* rows of users
    issued,    \* rows of sessions: tokens 1..issued
    owner,     \* sessions.user_id
    active,    \* sessions.is_active
    expired,   \* rows whose expires_at is past
    swept,     \* history: rows that existed when this login revoked old ones
    sweptBy    \* history: the value of swept of the login that made the row

thread == <<pc, sock, addr, req, sessUser, sessTok, name, tok, swept>>
table  == <<issued, owner, active, expired, sweptBy>>
vars   == <<thread, clients, regs, accounts, table>>

Tokens  == 1..MaxTokens
Entries == [ptr : Addrs, at : Nat]
PCs == {"none", "idle", "newuser", "revoke", "save", "flush", "exec",
        "evict", "add", "remove", "deactivate"}

(***************************************************************************)
(* A thread that owns its ClientSession through the local shared_ptr.      *)
(* The pointer's scope ends with the try block, before the cleanup code.   *)
(***************************************************************************)
Holds(t) == pc[t] \notin {"none", "remove", "deactivate"}

\* No owner is left: neither a thread's local nor a copy in the map.
Free(a) ==
    /\ \A t \in Conns : Holds(t) => addr[t] # a
    /\ \A u \in Users : \A e \in clients[u] : e.ptr # a

\* Server::findClient: the front of the vector, the oldest entry.
Front(u) == CHOOSE e \in clients[u] : \A f \in clients[u] : e.at <= f.at

\* Mutant of RemoveClient: the entry of the user goes, with all its sessions.
RemoveClientAll(u, a) == clients' = [clients EXCEPT ![u] = {}]

\* Server::removeClient: every copy of the pointer leaves the vector.
RemoveClient(u, a) ==
    clients' = [clients EXCEPT ![u] = {e \in @ : e.ptr # a}]

\* Server::addClient: push_back, without a look at what the vector holds.
AddClient(u, a) ==
    /\ clients' = [clients EXCEPT ![u] = @ \cup {[ptr |-> a, at |-> regs + 1]}]
    /\ regs' = regs + 1

DbFails == "db" \in Faults

Goto(t, l) == pc' = [pc EXCEPT ![t] = l]

\* A handler returns or throws: its packet and its locals are gone.
EndHandler(t) ==
    /\ req' = [req EXCEPT ![t] = NoUser]
    /\ swept' = [swept EXCEPT ![t] = 0]

\* handleRequest returns; its locals are gone.
Return(t) ==
    /\ Goto(t, "none")
    /\ addr' = [addr EXCEPT ![t] = NoAddr]
    /\ sessUser' = [sessUser EXCEPT ![t] = NoUser]
    /\ sessTok' = [sessTok EXCEPT ![t] = 0]
    /\ name' = [name EXCEPT ![t] = NoUser]
    /\ tok' = [tok EXCEPT ![t] = 0]

-----------------------------------------------------------------------------
Init ==
    /\ pc = [t \in Conns |-> "none"]
    /\ sock = [t \in Conns |-> FALSE]
    /\ addr = [t \in Conns |-> NoAddr]
    /\ req = [t \in Conns |-> NoUser]
    /\ sessUser = [t \in Conns |-> NoUser]
    /\ sessTok = [t \in Conns |-> 0]
    /\ name = [t \in Conns |-> NoUser]
    /\ tok = [t \in Conns |-> 0]
    /\ swept = [t \in Conns |-> 0]
    /\ clients = [u \in Users |-> {}]
    /\ regs = 0
    /\ accounts = {}
    /\ issued = 0
    /\ owner = [k \in Tokens |-> NoUser]
    /\ active = {}
    /\ expired = {}
    /\ sweptBy = [k \in Tokens |-> 0]

\* Mutant of Connect: sessionPtr is never set to the new session.
ConnectNoPointer(t) ==
    /\ pc[t] = "none"
    /\ \E a \in Addrs : Free(a)
    /\ Goto(t, "idle")
    /\ sock' = [sock EXCEPT ![t] = TRUE]
    /\ UNCHANGED <<addr, req, sessUser, sessTok, name, tok, swept,
                   clients, regs, accounts, table>>

\* A WebSocket is accepted and a ClientSession allocated at a free address.
Connect(t) ==
    /\ pc[t] = "none"
    /\ \E a \in Addrs : Free(a) /\ addr' = [addr EXCEPT ![t] = a]
    /\ Goto(t, "idle")
    /\ sock' = [sock EXCEPT ![t] = TRUE]
    /\ UNCHANGED <<req, sessUser, sessTok, name, tok, swept,
                   clients, regs, accounts, table>>

\* The peer closes or dies; the thread notices in a send or in receive.
PeerDrop(t) ==
    /\ sock[t]
    /\ sock' = [sock EXCEPT ![t] = FALSE]
    /\ UNCHANGED <<pc, addr, req, sessUser, sessTok, name, tok, swept,
                   clients, regs, accounts, table>>

CanReceive(t) == pc[t] = "idle" /\ sock[t] /\ regs < MaxRegs

(***************************************************************************)
(* LOGIN with the right password.  A wrong password or an unknown user     *)
(* sends ERR and changes nothing.  authorize() accepts any session, so an  *)
(* authenticated connection may log in again as somebody else.             *)
(***************************************************************************)
ReceiveLogin(t, u) ==
    /\ CanReceive(t)
    /\ u \in accounts
    /\ req' = [req EXCEPT ![t] = u]
    /\ Goto(t, "revoke")
    /\ UNCHANGED <<sock, addr, sessUser, sessTok, name, tok, swept,
                   clients, regs, accounts, table>>

\* Mutant of DeactivateAllForUser: only the user's expired rows are revoked.
DeactivateAllExpiredOnly(t) ==
    /\ pc[t] = "revoke"
    /\ active' = {k \in active : owner[k] # req[t] \/ k \notin expired}
    /\ swept' = [swept EXCEPT ![t] = issued]
    /\ Goto(t, "save")
    /\ UNCHANGED <<sock, addr, req, sessUser, sessTok, name, tok, clients, regs,
                   accounts, issued, owner, expired, sweptBy>>

\* LoginHandler: deactivateAllForUser, the first statement of two.
DeactivateAllForUser(t) ==
    /\ pc[t] = "revoke"
    /\ active' = {k \in active : owner[k] # req[t]}
    /\ swept' = [swept EXCEPT ![t] = issued]
    /\ Goto(t, "save")
    /\ UNCHANGED <<sock, addr, req, sessUser, sessTok, name, tok, clients, regs,
                   accounts, issued, owner, expired, sweptBy>>

\* REGISTER of a name that findByUsername does not find.
ReceiveRegister(t, u) ==
    /\ CanReceive(t)
    /\ u \notin accounts
    /\ req' = [req EXCEPT ![t] = u]
    /\ Goto(t, "newuser")
    /\ UNCHANGED <<sock, addr, sessUser, sessTok, name, tok, swept,
                   clients, regs, accounts, table>>

\* INSERT into users; the UNIQUE constraint rejects the loser of a race.
SaveUser(t) ==
    /\ pc[t] = "newuser"
    /\ req[t] \notin accounts
    /\ accounts' = accounts \cup {req[t]}
    /\ swept' = [swept EXCEPT ![t] = issued]
    /\ Goto(t, "save")
    /\ UNCHANGED <<sock, addr, req, sessUser, sessTok, name, tok,
                   clients, regs, table>>

(***************************************************************************)
(* INSERT of the session row, then the three setters of ClientSession.     *)
(* A full table (the bound) is a failed INSERT, see HandlerThrows.         *)
(***************************************************************************)
SaveSession(t) ==
    /\ pc[t] = "save"
    /\ issued < MaxTokens
    /\ issued' = issued + 1
    /\ owner' = [owner EXCEPT ![issued + 1] = req[t]]
    /\ sweptBy' = [sweptBy EXCEPT ![issued + 1] = swept[t]]
    /\ active' = active \cup {issued + 1}
    /\ sessUser' = [sessUser EXCEPT ![t] = req[t]]
    /\ sessTok' = [sessTok EXCEPT ![t] = issued + 1]
    /\ Goto(t, "flush")
    /\ UNCHANGED <<sock, addr, req, name, tok, swept, clients, regs, accounts,
                   expired>>

\* The ACK and everything the handler flushes after it succeed.
Flush(t) ==
    /\ pc[t] = "flush"
    /\ EndHandler(t)
    /\ Goto(t, "evict")
    /\ UNCHANGED <<sock, addr, sessUser, sessTok, name, tok,
                   clients, regs, accounts, table>>

\* Any other packet: BaseAuthHandler::authorize looks the token up again.
ReceivePacket(t) ==
    /\ CanReceive(t)
    /\ sessUser[t] # NoUser
    /\ sessTok[t] \in active \ expired
    /\ Goto(t, "exec")
    /\ UNCHANGED <<sock, addr, req, sessUser, sessTok, name, tok, swept,
                   clients, regs, accounts, table>>

\* execute() of that handler returns.
Execute(t) ==
    /\ pc[t] = "exec"
    /\ Goto(t, "evict")
    /\ UNCHANGED <<sock, addr, req, sessUser, sessTok, name, tok, swept,
                   clients, regs, accounts, table>>

\* What makes the statement a handler is at throw.
Throws(t) ==
    \/ DbFails /\ pc[t] \in {"newuser", "revoke", "save", "flush", "exec"}
    \/ ~sock[t] /\ pc[t] \in {"flush", "exec"}
    \/ req[t] \in accounts /\ pc[t] = "newuser"
    \/ issued = MaxTokens /\ pc[t] = "save"

\* Mutant of HandlerThrows: the catch block unregisters, but not the local.
HandlerThrowsUnregisters(t) ==
    /\ Throws(t)
    /\ EndHandler(t)
    /\ Goto(t, "idle")
    /\ clients' = [u \in Users |-> {e \in clients[u] : e.ptr # addr[t]}]
    /\ UNCHANGED <<sock, addr, sessUser, sessTok, name, tok,
                   regs, accounts, table>>

(***************************************************************************)
(* A failed query, a send on a dead socket or the UNIQUE constraint on     *)
(* users.username throws past the registration in handleRequest: ERR is    *)
(* sent and the loop goes on with whatever the handler had set by then.    *)
(***************************************************************************)
HandlerThrows(t) ==
    /\ Throws(t)
    /\ EndHandler(t)
    /\ Goto(t, "idle")
    /\ UNCHANGED <<sock, addr, sessUser, sessTok, name, tok,
                   clients, regs, accounts, table>>

\* Mutant of Evict: an account switch leaves the old name in the map.
EvictKeepsOldName(t) ==
    /\ pc[t] = "evict"
    /\ name' = [name EXCEPT ![t] = sessUser[t]]
    /\ tok' = [tok EXCEPT ![t] = sessTok[t]]
    /\ Goto(t, "add")
    /\ UNCHANGED <<sock, addr, req, sessUser, sessTok, swept, clients, regs,
                   accounts, table>>

\* Mutant of Evict: the local token keeps the value of the first login.
EvictKeepsFirstToken(t) ==
    /\ pc[t] = "evict"
    /\ IF name[t] # NoUser /\ name[t] # sessUser[t]
       THEN RemoveClient(name[t], addr[t])
       ELSE UNCHANGED clients
    /\ name' = [name EXCEPT ![t] = sessUser[t]]
    /\ tok' = IF tok[t] = 0 THEN [tok EXCEPT ![t] = sessTok[t]] ELSE tok
    /\ Goto(t, "add")
    /\ UNCHANGED <<sock, addr, req, sessUser, sessTok, swept, regs, accounts,
                   table>>

\* Registration: drop the old name of a switched account, take the new one.
Evict(t) ==
    /\ pc[t] = "evict"
    /\ IF name[t] # NoUser /\ name[t] # sessUser[t]
       THEN RemoveClient(name[t], addr[t])
       ELSE UNCHANGED clients
    /\ name' = [name EXCEPT ![t] = sessUser[t]]
    /\ tok' = [tok EXCEPT ![t] = sessTok[t]]
    /\ Goto(t, "add")
    /\ UNCHANGED <<sock, addr, req, sessUser, sessTok, swept, regs, accounts,
                   table>>

Add(t) ==
    /\ pc[t] = "add"
    /\ AddClient(name[t], addr[t])
    /\ Goto(t, "idle")
    /\ UNCHANGED <<sock, addr, req, sessUser, sessTok, name, tok, swept,
                   accounts, table>>

\* Mutant of Leave: an exception out of receive() skips the cleanup code.
LeaveWithoutCleanup(t) ==
    /\ pc[t] = "idle"
    /\ ~sock[t]
    /\ name[t] # NoUser
    /\ Return(t)
    /\ UNCHANGED <<sock, req, swept, clients, regs, accounts, table>>

\* receive() reports the closed socket; the try block and its locals end.
Leave(t) ==
    /\ pc[t] = "idle"
    /\ ~sock[t]
    /\ name[t] # NoUser
    /\ Goto(t, "remove")
    /\ UNCHANGED <<sock, addr, req, sessUser, sessTok, name, tok, swept,
                   clients, regs, accounts, table>>

\* The same with an empty local username: there is nothing to clean up.
LeaveUnnamed(t) ==
    /\ pc[t] = "idle"
    /\ ~sock[t]
    /\ name[t] = NoUser
    /\ Return(t)
    /\ UNCHANGED <<sock, req, swept, clients, regs, accounts, table>>

\* Cleanup, first part: removeClient with the raw pointer kept from before.
Remove(t) ==
    /\ pc[t] = "remove"
    /\ RemoveClient(name[t], addr[t])
    /\ Goto(t, "deactivate")
    /\ UNCHANGED <<sock, addr, req, sessUser, sessTok, name, tok, swept, regs,
                   accounts, table>>

\* Cleanup, second part: deactivateByToken, whose failure is only logged.
DeactivateByToken(t) ==
    /\ pc[t] = "deactivate"
    /\ active' = active \ {tok[t]}
    /\ Return(t)
    /\ UNCHANGED <<sock, req, swept, clients, regs, accounts, issued, owner,
                   expired, sweptBy>>

DeactivateByTokenFails(t) ==
    /\ pc[t] = "deactivate"
    /\ DbFails
    /\ Return(t)
    /\ UNCHANGED <<sock, req, swept, clients, regs, accounts, table>>

\* 24 hours pass for a row.
Expire(k) ==
    /\ k \in 1..issued \ expired
    /\ expired' = expired \cup {k}
    /\ UNCHANGED <<thread, clients, regs, accounts, issued, owner, active,
                   sweptBy>>

\* Mutant of OnCleanupTimer: only the rows of connected sessions are visited.
OnCleanupTimerConnected ==
    /\ active \cap expired # {}
    /\ active' = active \ (expired \cap {tok[t] : t \in Conns})
    /\ UNCHANGED <<thread, clients, regs, accounts, issued, owner, expired,
                   sweptBy>>

\* The hourly timer: deactivateExpired.
OnCleanupTimer ==
    /\ active \cap expired # {}
    /\ active' = active \ expired
    /\ UNCHANGED <<thread, clients, regs, accounts, issued, owner, expired,
                   sweptBy>>

\* The process dies: threads and map are gone, the tables stay.
Crash ==
    /\ "crash" \in Faults
    /\ \E t \in Conns : pc[t] # "none"
    /\ pc' = [t \in Conns |-> "none"]
    /\ sock' = [t \in Conns |-> FALSE]
    /\ addr' = [t \in Conns |-> NoAddr]
    /\ req' = [t \in Conns |-> NoUser]
    /\ sessUser' = [t \in Conns |-> NoUser]
    /\ sessTok' = [t \in Conns |-> 0]
    /\ name' = [t \in Conns |-> NoUser]
    /\ tok' = [t \in Conns |-> 0]
    /\ swept' = [t \in Conns |-> 0]
    /\ clients' = [u \in Users |-> {}]
    /\ UNCHANGED <<regs, accounts, table>>

\* The steps a running thread takes by itself.
ThreadStep(t) ==
    \/ DeactivateAllForUser(t) \/ SaveUser(t) \/ SaveSession(t) \/ Flush(t)
    \/ Execute(t) \/ HandlerThrows(t) \/ Evict(t) \/ Add(t)
    \/ Leave(t) \/ LeaveUnnamed(t) \/ Remove(t)
    \/ DeactivateByToken(t) \/ DeactivateByTokenFails(t)

Next ==
    \/ \E t \in Conns :
        \/ Connect(t) \/ PeerDrop(t) \/ ReceivePacket(t) \/ ThreadStep(t)
        \/ \E u \in Users : ReceiveLogin(t, u) \/ ReceiveRegister(t, u)
    \/ \E k \in Tokens : Expire(k)
    \/ OnCleanupTimer
    \/ Crash

Spec == Init /\ [][Next]_vars

(***************************************************************************)
(* Threads are scheduled preemptively and never wait for one another, and  *)
(* the timer fires every hour.  Nothing is assumed of peers.               *)
(***************************************************************************)
FairSpec ==
    /\ Spec
    /\ \A t \in Conns : WF_vars(ThreadStep(t))
    /\ WF_vars(OnCleanupTimer)

-----------------------------------------------------------------------------
(***************************************************************************)
(* Every variable keeps the type its C++ or SQL counterpart has.           *)
(***************************************************************************)
TypeOK ==
    /\ pc \in [Conns -> PCs]
    /\ sock \in [Conns -> BOOLEAN]
    /\ addr \in [Conns -> Addrs \cup {NoAddr}]
    /\ req \in [Conns -> Users \cup {NoUser}]
    /\ sessUser \in [Conns -> Users \cup {NoUser}]
    /\ sessTok \in [Conns -> Nat]
    /\ name \in [Conns -> Users \cup {NoUser}]
    /\ tok \in [Conns -> Nat]
    /\ swept \in [Conns -> Nat]
    /\ clients \in [Users -> SUBSET Entries]
    /\ regs \in Nat
    /\ accounts \subseteq Users
    /\ issued \in 0..MaxTokens
    /\ owner \in [Tokens -> Users \cup {NoUser}]
    /\ active \subseteq Tokens
    /\ expired \subseteq Tokens
    /\ sweptBy \in [Tokens -> Nat]

(***************************************************************************)
(* No dangling entry: whatever _clients routes to is the session of a      *)
(* thread that still runs and will remove it, because that name is the one *)
(* in the thread's local username (Server.cpp:82-89 against 119-120).      *)
(***************************************************************************)
RegistryOwned ==
    \A u \in Users : \A e \in clients[u] :
        \E t \in Conns :
            /\ addr[t] = e.ptr
            /\ name[t] = u
            /\ pc[t] \notin {"none", "deactivate"}

(***************************************************************************)
(* removeClient may compare raw addresses (Server.cpp:174-185): while a    *)
(* thread still has an address to remove, no other thread's ClientSession  *)
(* lives at it, although its own shared_ptr is out of scope by then.       *)
(***************************************************************************)
PointerUnambiguous ==
    \A t1, t2 \in Conns :
        /\ t1 # t2
        /\ Holds(t1)
        /\ Holds(t2) \/ pc[t2] = "remove"
        => addr[t1] # addr[t2]

(***************************************************************************)
(* The token a thread will deactivate on its way out, and the one it is    *)
(* authorized by, belong to the user it is registered or logged in as, and *)
(* no other connection is authorized by the same one (Server.cpp:86-87,    *)
(* 132; LoginHandler.cpp:115-117).                                         *)
(***************************************************************************)
TokenOwnership ==
    \A t \in Conns :
        /\ name[t] # NoUser => tok[t] # 0 /\ owner[tok[t]] = name[t]
        /\ sessUser[t] # NoUser => sessTok[t] # 0 /\ owner[sessTok[t]] = sessUser[t]
        /\ \A s \in Conns \ {t} :
            sessTok[t] # 0 => sessTok[s] # sessTok[t] /\ tok[s] # sessTok[t]

(***************************************************************************)
(* "Logout everywhere" (SessionRepository.h:29): when a user has two       *)
(* active rows, their logins overlapped.  The younger row's login revoked  *)
(* the user's sessions before the older row was inserted; a login that     *)
(* starts after another one finished leaves that one no active row.        *)
(***************************************************************************)
OnlyOverlappingLoginsCoexist ==
    \A k1, k2 \in active :
        k1 < k2 /\ owner[k1] = owner[k2] => sweptBy[k2] < k1

(***************************************************************************)
(* The refinement mapping to Presence: a connection is listed under a name *)
(* while the vector of that name holds its pointer and it has not been     *)
(* through removeClient.                                                   *)
(***************************************************************************)
Listed ==
    {p \in Conns \X Users :
        /\ pc[p[1]] \notin {"none", "deactivate"}
        /\ \E e \in clients[p[2]] : e.ptr = addr[p[1]]}

Open == {t \in Conns : pc[t] # "none"}

P == INSTANCE Presence WITH open <- Open, listed <- Listed

(***************************************************************************)
(* Threads, map and raw pointers together implement Presence: whatever the *)
(* interleaving of evictions, registrations and cleanups (Server.cpp:80-89 *)
(* and 119-120), no connection is reachable under two names and no step    *)
(* of one connection takes another one out of the map.                     *)
(***************************************************************************)
ImplementsPresence == P!Spec

(***************************************************************************)
(* A connection whose peer is gone leaves the map, whatever it was doing   *)
(* ("Always runs", Server.cpp:117): no message is routed to it for ever.   *)
(***************************************************************************)
DeadPeerUnregistered ==
    \A t \in Conns, a \in Addrs :
        (addr[t] = a /\ ~sock[t]) ~>
            (\A u \in Users : \A e \in clients[u] : e.ptr # a)

(***************************************************************************)
(* The hourly timer gets every expired row deactivated, also rows no       *)
(* thread knows of any more, after a crash or a failed cleanup.            *)
(***************************************************************************)
ExpiredDeactivated ==
    \A k \in Tokens : (k \in expired) ~> (k \notin active)

(***************************************************************************)
(* Routing: the session findClient returns for a user is logged in as that *)
(* user ("On re-login (account switch), evict the old username first",     *)
(* Server.cpp:81; "Look up the first active session for a user",           *)
(* Server.h:34).                                                           *)
(***************************************************************************)
RoutesToUser ==
    \A u \in Users : clients[u] # {} =>
        \A t \in Conns :
            pc[t] = "idle" /\ addr[t] = Front(u).ptr => sessUser[t] = u

(***************************************************************************)
(* "its own disconnect handling already deactivated the old session token" *)
(* (NetworkManager.cpp:824): an active row is the token of a connection    *)
(* that has not finished its disconnect handling.                          *)
(***************************************************************************)
ActiveRowHasConnection ==
    \A k \in active : \E t \in Conns : pc[t] # "none" /\ k \in {tok[t], sessTok[t]}

(***************************************************************************)
(* "require a non-authenticated session (rejects double-login)"            *)
(* (LoginHandler.h:9): no step replaces the user of a logged-in session.   *)
(***************************************************************************)
NoDoubleLogin ==
    [][\A t \in Conns :
         sessUser[t] # NoUser /\ pc'[t] # "none" => sessTok'[t] = sessTok[t]]_vars
=============================================================================
