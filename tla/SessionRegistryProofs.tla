------------------------ MODULE SessionRegistryProofs ------------------------
(***************************************************************************)
(* Safety of SessionRegistry for any number of threads, addresses, users,  *)
(* tokens and registrations, and any subset of the injected failures.      *)
(***************************************************************************)
EXTENDS SessionRegistry, TLAPS

\* What the position of a thread says about its locals and its session.
LocalsOf(t) ==
    /\ pc[t] = "none" => /\ addr[t] = NoAddr
                         /\ name[t] = NoUser /\ tok[t] = 0
                         /\ sessUser[t] = NoUser /\ sessTok[t] = 0
    /\ pc[t] # "none" => addr[t] \in Addrs
    /\ pc[t] \in {"newuser", "revoke", "save"} => req[t] \in Users
    /\ pc[t] \in {"revoke", "save"} => req[t] \in accounts
    /\ pc[t] \in {"flush", "exec", "evict"} => sessUser[t] \in Users
    /\ pc[t] \in {"add", "remove", "deactivate"} => name[t] \in Users

Locals == \A t \in Conns : LocalsOf(t)

(***************************************************************************)
(* The counterpart of RegistryOwned: a thread with a local username is in  *)
(* the map under it, but between Evict and Add and after Remove.  It keeps *)
(* the address taken until removeClient has run.                           *)
(***************************************************************************)
Registered ==
    \A t \in Conns :
        name[t] # NoUser /\ pc[t] \notin {"add", "deactivate"} =>
            \E e \in clients[name[t]] : e.ptr = addr[t]

\* Two threads that still have use for an address have different ones.
AddressesDiffer ==
    \A t1, t2 \in Conns :
        /\ t1 # t2
        /\ pc[t1] \notin {"none", "deactivate"}
        /\ pc[t2] \notin {"none", "deactivate"}
        => addr[t1] # addr[t2]

RegistryInv ==
    TypeOK /\ Locals /\ RegistryOwned /\ Registered /\ AddressesDiffer

-----------------------------------------------------------------------------
\* The initial state: no thread runs and the map is empty.
LEMMA RegistryInit == Init => RegistryInv
BY RegistryConstants
   DEF Init, RegistryInv, TypeOK, Locals, LocalsOf, RegistryOwned,
       Registered, AddressesDiffer, PCs, Entries, Tokens

\* TypeOK and the thread-local facts are preserved by every step.
LEMMA TypeStep == TypeOK /\ Locals /\ [Next]_vars => TypeOK' /\ Locals'
<1> SUFFICES ASSUME TypeOK, Locals, [Next]_vars
             PROVE  TypeOK' /\ Locals'
    OBVIOUS
<1> USE RegistryConstants
<1>1. ASSUME NEW t \in Conns, Connect(t) PROVE TypeOK' /\ Locals'
  <2>1. TypeOK'
    BY <1>1 DEF TypeOK, Locals, LocalsOf, Connect, Goto, table, Tokens, PCs
  <2>2. ASSUME NEW s \in Conns PROVE LocalsOf(s)'
    <3>1. LocalsOf(s)
      BY DEF Locals
    <3> QED
      BY <1>1, <3>1 DEF TypeOK, LocalsOf, Connect, Goto, table, Tokens, PCs
  <2> QED
    BY <2>1, <2>2 DEF Locals
<1>2. ASSUME NEW t \in Conns, PeerDrop(t) PROVE TypeOK' /\ Locals'
  <2>1. TypeOK'
    BY <1>2 DEF TypeOK, Locals, LocalsOf, PeerDrop, table, Tokens, PCs
  <2>2. ASSUME NEW s \in Conns PROVE LocalsOf(s)'
    <3>1. LocalsOf(s)
      BY DEF Locals
    <3> QED
      BY <1>2, <3>1 DEF TypeOK, LocalsOf, PeerDrop, table, Tokens, PCs
  <2> QED
    BY <2>1, <2>2 DEF Locals
<1>3. ASSUME NEW t \in Conns, ReceivePacket(t) PROVE TypeOK' /\ Locals'
  <2>1. TypeOK'
    BY <1>3 DEF TypeOK, Locals, LocalsOf, ReceivePacket, CanReceive, Goto, table, Tokens, PCs
  <2>2. ASSUME NEW s \in Conns PROVE LocalsOf(s)'
    <3>1. LocalsOf(s)
      BY DEF Locals
    <3> QED
      BY <1>3, <3>1 DEF TypeOK, LocalsOf, ReceivePacket, CanReceive, Goto, table, Tokens, PCs
  <2> QED
    BY <2>1, <2>2 DEF Locals
<1>4. ASSUME NEW t \in Conns, NEW u \in Users, ReceiveLogin(t, u)
      PROVE TypeOK' /\ Locals'
  <2>1. TypeOK'
    BY <1>4 DEF TypeOK, Locals, LocalsOf, ReceiveLogin, CanReceive, Goto, table, Tokens, PCs
  <2>2. ASSUME NEW s \in Conns PROVE LocalsOf(s)'
    <3>1. LocalsOf(s)
      BY DEF Locals
    <3> QED
      BY <1>4, <3>1 DEF TypeOK, LocalsOf, ReceiveLogin, CanReceive, Goto, table, Tokens, PCs
  <2> QED
    BY <2>1, <2>2 DEF Locals
<1>5. ASSUME NEW t \in Conns, NEW u \in Users, ReceiveRegister(t, u)
      PROVE TypeOK' /\ Locals'
  <2>1. TypeOK'
    BY <1>5 DEF TypeOK, Locals, LocalsOf, ReceiveRegister, CanReceive, Goto, table, Tokens, PCs
  <2>2. ASSUME NEW s \in Conns PROVE LocalsOf(s)'
    <3>1. LocalsOf(s)
      BY DEF Locals
    <3> QED
      BY <1>5, <3>1 DEF TypeOK, LocalsOf, ReceiveRegister, CanReceive, Goto, table, Tokens, PCs
  <2> QED
    BY <2>1, <2>2 DEF Locals
<1>6. ASSUME NEW t \in Conns, DeactivateAllForUser(t) PROVE TypeOK' /\ Locals'
  <2>1. TypeOK'
    <3>1. active' \subseteq Tokens
      BY <1>6 DEF TypeOK, DeactivateAllForUser
    <3> QED
      BY <1>6, <3>1 DEF TypeOK, DeactivateAllForUser, Goto, PCs
  <2>2. ASSUME NEW s \in Conns PROVE LocalsOf(s)'
    <3>1. LocalsOf(s)
      BY DEF Locals
    <3> QED
      BY <1>6, <3>1 DEF TypeOK, LocalsOf, DeactivateAllForUser, Goto, Tokens, PCs
  <2> QED
    BY <2>1, <2>2 DEF Locals
<1>7. ASSUME NEW t \in Conns, SaveUser(t) PROVE TypeOK' /\ Locals'
  <2>1. TypeOK'
    BY <1>7 DEF TypeOK, Locals, LocalsOf, SaveUser, Goto, table, Tokens, PCs
  <2>2. ASSUME NEW s \in Conns PROVE LocalsOf(s)'
    <3>1. LocalsOf(s)
      BY DEF Locals
    <3> QED
      BY <1>7, <3>1 DEF TypeOK, LocalsOf, SaveUser, Goto, table, Tokens, PCs
  <2> QED
    BY <2>1, <2>2 DEF Locals
<1>8. ASSUME NEW t \in Conns, SaveSession(t) PROVE TypeOK' /\ Locals'
  <2>1. TypeOK'
    BY <1>8 DEF TypeOK, Locals, LocalsOf, SaveSession, Goto, Tokens, PCs
  <2>2. ASSUME NEW s \in Conns PROVE LocalsOf(s)'
    <3>1. LocalsOf(s)
      BY DEF Locals
    <3> QED
      BY <1>8, <3>1 DEF TypeOK, LocalsOf, SaveSession, Goto, Tokens, PCs
  <2> QED
    BY <2>1, <2>2 DEF Locals
<1>9. ASSUME NEW t \in Conns, Flush(t) PROVE TypeOK' /\ Locals'
  <2>1. TypeOK'
    BY <1>9 DEF TypeOK, Locals, LocalsOf, Flush, EndHandler, Goto, table, Tokens, PCs
  <2>2. ASSUME NEW s \in Conns PROVE LocalsOf(s)'
    <3>1. LocalsOf(s)
      BY DEF Locals
    <3> QED
      BY <1>9, <3>1 DEF TypeOK, LocalsOf, Flush, EndHandler, Goto, table, Tokens, PCs
  <2> QED
    BY <2>1, <2>2 DEF Locals
<1>10. ASSUME NEW t \in Conns, Execute(t) PROVE TypeOK' /\ Locals'
  <2>1. TypeOK'
    BY <1>10 DEF TypeOK, Locals, LocalsOf, Execute, Goto, table, Tokens, PCs
  <2>2. ASSUME NEW s \in Conns PROVE LocalsOf(s)'
    <3>1. LocalsOf(s)
      BY DEF Locals
    <3> QED
      BY <1>10, <3>1 DEF TypeOK, LocalsOf, Execute, Goto, table, Tokens, PCs
  <2> QED
    BY <2>1, <2>2 DEF Locals
<1>11. ASSUME NEW t \in Conns, HandlerThrows(t) PROVE TypeOK' /\ Locals'
  <2>1. TypeOK'
    BY <1>11 DEF TypeOK, Locals, LocalsOf, HandlerThrows, Throws, EndHandler, Goto, table, Tokens, PCs
  <2>2. ASSUME NEW s \in Conns PROVE LocalsOf(s)'
    <3>1. LocalsOf(s)
      BY DEF Locals
    <3> QED
      BY <1>11, <3>1 DEF TypeOK, LocalsOf, HandlerThrows, Throws, EndHandler, Goto, table, Tokens, PCs
  <2> QED
    BY <2>1, <2>2 DEF Locals
<1>12. ASSUME NEW t \in Conns, Evict(t) PROVE TypeOK' /\ Locals'
  <2>1. TypeOK'
    <3>1. clients' \in [Users -> SUBSET Entries]
      BY <1>12 DEF TypeOK, Evict, RemoveClient
    <3> QED
      BY <1>12, <3>1 DEF TypeOK, Evict, Goto, table, PCs
  <2>2. ASSUME NEW s \in Conns PROVE LocalsOf(s)'
    <3>1. LocalsOf(s)
      BY DEF Locals
    <3> QED
      BY <1>12, <3>1 DEF TypeOK, LocalsOf, Evict, RemoveClient, Goto, table, Tokens, PCs
  <2> QED
    BY <2>1, <2>2 DEF Locals
<1>13. ASSUME NEW t \in Conns, Add(t) PROVE TypeOK' /\ Locals'
  <2>1. TypeOK'
    <3>1. name[t] \in Users /\ addr[t] \in Addrs
      BY <1>13 DEF Locals, LocalsOf, Add
    <3>2. [ptr |-> addr[t], at |-> regs + 1] \in Entries /\ regs' \in Nat
      BY <1>13, <3>1 DEF TypeOK, Entries, Add, AddClient
    <3>3. clients' \in [Users -> SUBSET Entries]
      BY <1>13, <3>1, <3>2 DEF TypeOK, Add, AddClient
    <3> QED
      BY <1>13, <3>2, <3>3 DEF TypeOK, Add, Goto, table, PCs
  <2>2. ASSUME NEW s \in Conns PROVE LocalsOf(s)'
    <3>1. LocalsOf(s)
      BY DEF Locals
    <3> QED
      BY <1>13, <3>1 DEF TypeOK, LocalsOf, Add, AddClient, Goto, Entries, table, Tokens, PCs
  <2> QED
    BY <2>1, <2>2 DEF Locals
<1>14. ASSUME NEW t \in Conns, Leave(t) PROVE TypeOK' /\ Locals'
  <2>1. TypeOK'
    BY <1>14 DEF TypeOK, Locals, LocalsOf, Leave, Goto, table, Tokens, PCs
  <2>2. ASSUME NEW s \in Conns PROVE LocalsOf(s)'
    <3>1. LocalsOf(s)
      BY DEF Locals
    <3> QED
      BY <1>14, <3>1 DEF TypeOK, LocalsOf, Leave, Goto, table, Tokens, PCs
  <2> QED
    BY <2>1, <2>2 DEF Locals
<1>15. ASSUME NEW t \in Conns, LeaveUnnamed(t) PROVE TypeOK' /\ Locals'
  <2>1. TypeOK'
    BY <1>15 DEF TypeOK, Locals, LocalsOf, LeaveUnnamed, Return, Goto, table, Tokens, PCs
  <2>2. ASSUME NEW s \in Conns PROVE LocalsOf(s)'
    <3>1. LocalsOf(s)
      BY DEF Locals
    <3> QED
      BY <1>15, <3>1 DEF TypeOK, LocalsOf, LeaveUnnamed, Return, Goto, table, Tokens, PCs
  <2> QED
    BY <2>1, <2>2 DEF Locals
<1>16. ASSUME NEW t \in Conns, Remove(t) PROVE TypeOK' /\ Locals'
  <2>1. TypeOK'
    BY <1>16 DEF TypeOK, Locals, LocalsOf, Remove, RemoveClient, Goto, table, Tokens, PCs
  <2>2. ASSUME NEW s \in Conns PROVE LocalsOf(s)'
    <3>1. LocalsOf(s)
      BY DEF Locals
    <3> QED
      BY <1>16, <3>1 DEF TypeOK, LocalsOf, Remove, RemoveClient, Goto, table, Tokens, PCs
  <2> QED
    BY <2>1, <2>2 DEF Locals
<1>17. ASSUME NEW t \in Conns, DeactivateByToken(t) PROVE TypeOK' /\ Locals'
  <2>1. TypeOK'
    BY <1>17 DEF TypeOK, Locals, LocalsOf, DeactivateByToken, Return, Goto, Tokens, PCs
  <2>2. ASSUME NEW s \in Conns PROVE LocalsOf(s)'
    <3>1. LocalsOf(s)
      BY DEF Locals
    <3> QED
      BY <1>17, <3>1 DEF TypeOK, LocalsOf, DeactivateByToken, Return, Goto, Tokens, PCs
  <2> QED
    BY <2>1, <2>2 DEF Locals
<1>18. ASSUME NEW t \in Conns, DeactivateByTokenFails(t) PROVE TypeOK' /\ Locals'
  <2>1. TypeOK'
    BY <1>18 DEF TypeOK, Locals, LocalsOf, DeactivateByTokenFails, Return, Goto, table, Tokens, PCs
  <2>2. ASSUME NEW s \in Conns PROVE LocalsOf(s)'
    <3>1. LocalsOf(s)
      BY DEF Locals
    <3> QED
      BY <1>18, <3>1 DEF TypeOK, LocalsOf, DeactivateByTokenFails, Return, Goto, table, Tokens, PCs
  <2> QED
    BY <2>1, <2>2 DEF Locals
<1>19. ASSUME NEW k \in Tokens, Expire(k) PROVE TypeOK' /\ Locals'
  <2>1. TypeOK'
    BY <1>19 DEF TypeOK, Locals, LocalsOf, Expire, thread, Tokens, PCs
  <2>2. ASSUME NEW s \in Conns PROVE LocalsOf(s)'
    <3>1. LocalsOf(s)
      BY DEF Locals
    <3> QED
      BY <1>19, <3>1 DEF TypeOK, LocalsOf, Expire, thread, Tokens, PCs
  <2> QED
    BY <2>1, <2>2 DEF Locals
<1>20. CASE OnCleanupTimer
  <2>1. TypeOK'
    BY <1>20 DEF TypeOK, Locals, LocalsOf, OnCleanupTimer, thread, Tokens, PCs
  <2>2. ASSUME NEW s \in Conns PROVE LocalsOf(s)'
    <3>1. LocalsOf(s)
      BY DEF Locals
    <3> QED
      BY <1>20, <3>1 DEF TypeOK, LocalsOf, OnCleanupTimer, thread, Tokens, PCs
  <2> QED
    BY <2>1, <2>2 DEF Locals
<1>21. CASE Crash
  <2>1. TypeOK'
    BY <1>21 DEF TypeOK, Locals, LocalsOf, Crash, table, Tokens, PCs
  <2>2. ASSUME NEW s \in Conns PROVE LocalsOf(s)'
    <3>1. LocalsOf(s)
      BY DEF Locals
    <3> QED
      BY <1>21, <3>1 DEF TypeOK, LocalsOf, Crash, table, Tokens, PCs
  <2> QED
    BY <2>1, <2>2 DEF Locals
<1>22. CASE UNCHANGED vars
  BY <1>22 DEF TypeOK, Locals, LocalsOf, vars, thread, table
<1> QED
  BY <1>1, <1>2, <1>3, <1>4, <1>5, <1>6, <1>7, <1>8, <1>9, <1>10, <1>11, <1>12, <1>13, <1>14, <1>15, <1>16, <1>17, <1>18, <1>19, <1>20, <1>21, <1>22
     DEF Next, ThreadStep

-----------------------------------------------------------------------------
MapInv == RegistryOwned /\ Registered /\ AddressesDiffer

\* A step that leaves the map, the names and the addresses alone, and moves
\* threads only between positions MapInv does not tell apart.
Quiet ==
    /\ UNCHANGED <<clients, name, addr>>
    /\ \A s \in Conns :
        \/ pc'[s] = pc[s]
        \/ /\ pc[s] \notin {"none", "add", "deactivate"}
           /\ pc'[s] \notin {"none", "add", "deactivate"}

\* Receiving, the handlers and the timer do not disturb the map.
LEMMA QuietStep == MapInv /\ Quiet => MapInv'
BY DEF MapInv, Quiet, RegistryOwned, Registered, AddressesDiffer

\* The steps that are quiet.
LEMMA QuietActions ==
    ASSUME TypeOK,
           \/ \E t \in Conns :
                \/ PeerDrop(t) \/ ReceivePacket(t) \/ DeactivateAllForUser(t)
                \/ SaveUser(t) \/ SaveSession(t) \/ Flush(t) \/ Execute(t)
                \/ HandlerThrows(t) \/ Leave(t)
                \/ \E u \in Users : ReceiveLogin(t, u) \/ ReceiveRegister(t, u)
           \/ \E k \in Tokens : Expire(k)
           \/ OnCleanupTimer
           \/ UNCHANGED vars
    PROVE  Quiet
BY DEF TypeOK, Quiet, PeerDrop, ReceivePacket, DeactivateAllForUser, SaveUser,
       SaveSession, Flush, Execute, HandlerThrows, Throws, Leave, ReceiveLogin,
       ReceiveRegister, CanReceive, EndHandler, Goto, Expire, OnCleanupTimer,
       vars, thread

\* A free address is no other thread's, not even one in its cleanup code:
\* Registered keeps a copy of that one's pointer in the map.
LEMMA FreshAddress ==
    ASSUME TypeOK, Locals, Registered, NEW a \in Addrs, Free(a), NEW s \in Conns,
           pc[s] \notin {"none", "deactivate"}
    PROVE  addr[s] # a
<1>1. CASE pc[s] = "remove"
  <2>1. name[s] \in Users /\ name[s] # NoUser
    BY <1>1, RegistryConstants DEF Locals, LocalsOf
  <2>2. PICK e \in clients[name[s]] : e.ptr = addr[s]
    BY <1>1, <2>1 DEF Registered
  <2> QED
    BY <2>1, <2>2 DEF Free
<1>2. CASE pc[s] # "remove"
  BY <1>2 DEF Free, Holds
<1> QED
  BY <1>1, <1>2

\* The map facts are preserved by every step.
LEMMA MapStep == TypeOK /\ Locals /\ MapInv /\ [Next]_vars => MapInv'
<1> SUFFICES ASSUME TypeOK, Locals, MapInv, [Next]_vars
             PROVE  MapInv'
    OBVIOUS
<1> USE RegistryConstants
<1>1. ASSUME NEW t \in Conns, Connect(t) PROVE MapInv'
  <2>1. PICK a \in Addrs : Free(a) /\ addr' = [addr EXCEPT ![t] = a]
    BY <1>1 DEF Connect
  <2>2. pc[t] = "none" /\ name[t] = NoUser /\ UNCHANGED <<clients, name>>
        /\ pc' = [pc EXCEPT ![t] = "idle"]
    BY <1>1 DEF Connect, Goto, Locals, LocalsOf
  <2>3. RegistryOwned'
    BY <2>1, <2>2 DEF MapInv, RegistryOwned, TypeOK
  <2>4. Registered'
    BY <2>1, <2>2 DEF MapInv, Registered, TypeOK
  <2>5. AddressesDiffer'
    <3>1. \A s \in Conns : pc[s] \notin {"none", "deactivate"} => addr[s] # a
      BY <2>1, FreshAddress DEF MapInv
    <3> QED
      BY <2>1, <2>2, <3>1 DEF MapInv, AddressesDiffer, TypeOK
  <2> QED
    BY <2>3, <2>4, <2>5 DEF MapInv
<1>2. ASSUME NEW t \in Conns, Evict(t) PROVE MapInv'
  <2> DEFINE switch == name[t] # NoUser /\ name[t] # sessUser[t]
  <2>1. /\ pc[t] = "evict" /\ pc' = [pc EXCEPT ![t] = "add"]
        /\ name' = [name EXCEPT ![t] = sessUser[t]] /\ UNCHANGED addr
        /\ sessUser[t] \in Users
        /\ switch => clients' =
             [clients EXCEPT ![name[t]] = {e \in @ : e.ptr # addr[t]}]
        /\ ~switch => UNCHANGED clients
    BY <1>2 DEF Evict, RemoveClient, Goto, Locals, LocalsOf
  <2>2. ASSUME NEW u \in Users
        PROVE  clients'[u] = IF switch /\ u = name[t]
                             THEN {e \in clients[u] : e.ptr # addr[t]}
                             ELSE clients[u]
    BY <2>1 DEF TypeOK
  <2>3. RegistryOwned'
    <3> SUFFICES ASSUME NEW u \in Users, NEW e \in clients'[u]
                 PROVE  \E s \in Conns :
                          /\ addr'[s] = e.ptr /\ name'[s] = u
                          /\ pc'[s] \notin {"none", "deactivate"}
        BY DEF RegistryOwned
    <3>1. e \in clients[u]
      BY <2>2
    <3>2. PICK s \in Conns : /\ addr[s] = e.ptr /\ name[s] = u
                             /\ pc[s] \notin {"none", "deactivate"}
      BY <3>1 DEF MapInv, RegistryOwned
    <3>3. CASE s # t
      BY <2>1, <3>2, <3>3 DEF TypeOK
    <3>4. CASE s = t
      <4>1. ~ switch
        BY <2>2, <3>2, <3>4
      <4>2. name'[t] = u
        BY <2>1, <3>2, <3>4, <4>1 DEF TypeOK
      <4> QED
        BY <2>1, <3>2, <3>4, <4>2 DEF TypeOK
    <3> QED
      BY <3>3, <3>4
  <2>4. Registered'
    <3> SUFFICES ASSUME NEW s \in Conns, name'[s] # NoUser,
                        pc'[s] \notin {"add", "deactivate"}
                 PROVE  \E e \in clients'[name'[s]] : e.ptr = addr'[s]
        BY DEF Registered
    <3>1. /\ s # t /\ name'[s] = name[s] /\ pc'[s] = pc[s] /\ addr'[s] = addr[s]
          /\ name[s] \in Users
      BY <2>1 DEF TypeOK
    <3>2. PICK e \in clients[name[s]] : e.ptr = addr[s]
      BY <3>1 DEF MapInv, Registered
    <3>3. pc[s] # "none"
      BY <3>1 DEF Locals, LocalsOf
    <3>4. addr[s] # addr[t]
      BY <2>1, <3>1, <3>3 DEF MapInv, AddressesDiffer
    <3>5. e \in clients'[name[s]]
      BY <2>2, <3>1, <3>2, <3>4
    <3> QED
      BY <3>1, <3>2, <3>5
  <2>5. AddressesDiffer'
    BY <2>1 DEF MapInv, AddressesDiffer, TypeOK
  <2> QED
    BY <2>3, <2>4, <2>5 DEF MapInv
<1>3. ASSUME NEW t \in Conns, Add(t) PROVE MapInv'
  <2> DEFINE new == [ptr |-> addr[t], at |-> regs + 1]
  <2>1. /\ pc[t] = "add" /\ pc' = [pc EXCEPT ![t] = "idle"]
        /\ UNCHANGED <<name, addr>> /\ name[t] \in Users
        /\ clients' = [clients EXCEPT ![name[t]] = @ \cup {new}]
    BY <1>3 DEF Add, AddClient, Goto, Locals, LocalsOf
  <2>2. ASSUME NEW u \in Users
        PROVE  clients'[u] = IF u = name[t] THEN clients[u] \cup {new} ELSE clients[u]
    BY <2>1 DEF TypeOK
  <2>3. new.ptr = addr[t]
    OBVIOUS
  <2> HIDE DEF new
  <2>4. RegistryOwned'
    <3> SUFFICES ASSUME NEW u \in Users, NEW e \in clients'[u]
                 PROVE  \E s \in Conns :
                          /\ addr'[s] = e.ptr /\ name'[s] = u
                          /\ pc'[s] \notin {"none", "deactivate"}
        BY DEF RegistryOwned
    <3>1. CASE e = new /\ u = name[t]
      BY <2>1, <2>3, <3>1 DEF TypeOK
    <3>2. CASE e \in clients[u]
      <4>1. PICK s \in Conns : /\ addr[s] = e.ptr /\ name[s] = u
                               /\ pc[s] \notin {"none", "deactivate"}
        BY <3>2 DEF MapInv, RegistryOwned
      <4> QED
        BY <2>1, <4>1 DEF TypeOK
    <3>3. (e = new /\ u = name[t]) \/ e \in clients[u]
      BY <2>2
    <3> QED
      BY <3>1, <3>2, <3>3
  <2>5. Registered'
    <3> SUFFICES ASSUME NEW s \in Conns, name'[s] # NoUser,
                        pc'[s] \notin {"add", "deactivate"}
                 PROVE  \E e \in clients'[name'[s]] : e.ptr = addr'[s]
        BY DEF Registered
    <3>1. name'[s] = name[s] /\ addr'[s] = addr[s] /\ name[s] \in Users
      BY <2>1 DEF TypeOK
    <3>2. CASE s = t
      BY <2>2, <2>3, <3>1, <3>2
    <3>3. CASE s # t
      <4>1. pc'[s] = pc[s]
        BY <2>1, <3>3 DEF TypeOK
      <4>2. PICK e \in clients[name[s]] : e.ptr = addr[s]
        BY <3>1, <4>1 DEF MapInv, Registered
      <4> QED
        BY <2>2, <3>1, <4>2
    <3> QED
      BY <3>2, <3>3
  <2>6. AddressesDiffer'
    BY <2>1 DEF MapInv, AddressesDiffer, TypeOK
  <2> QED
    BY <2>4, <2>5, <2>6 DEF MapInv
<1>4. ASSUME NEW t \in Conns, LeaveUnnamed(t) PROVE MapInv'
  <2>1. /\ pc[t] = "idle" /\ name[t] = NoUser /\ UNCHANGED clients
        /\ pc' = [pc EXCEPT ![t] = "none"] /\ addr' = [addr EXCEPT ![t] = NoAddr]
        /\ name' = [name EXCEPT ![t] = NoUser]
    BY <1>4 DEF LeaveUnnamed, Return, Goto
  <2> QED
    BY <2>1 DEF MapInv, RegistryOwned, Registered, AddressesDiffer, TypeOK
<1>5. ASSUME NEW t \in Conns, Remove(t) PROVE MapInv'
  <2>1. /\ pc[t] = "remove" /\ pc' = [pc EXCEPT ![t] = "deactivate"]
        /\ UNCHANGED <<name, addr>> /\ name[t] \in Users
        /\ clients' = [clients EXCEPT ![name[t]] = {e \in @ : e.ptr # addr[t]}]
    BY <1>5 DEF Remove, RemoveClient, Goto, Locals, LocalsOf
  <2>2. ASSUME NEW u \in Users
        PROVE  clients'[u] = IF u = name[t]
                             THEN {e \in clients[u] : e.ptr # addr[t]}
                             ELSE clients[u]
    BY <2>1 DEF TypeOK
  <2>3. RegistryOwned'
    <3> SUFFICES ASSUME NEW u \in Users, NEW e \in clients'[u]
                 PROVE  \E s \in Conns :
                          /\ addr'[s] = e.ptr /\ name'[s] = u
                          /\ pc'[s] \notin {"none", "deactivate"}
        BY DEF RegistryOwned
    <3>1. e \in clients[u]
      BY <2>2
    <3>2. PICK s \in Conns : /\ addr[s] = e.ptr /\ name[s] = u
                             /\ pc[s] \notin {"none", "deactivate"}
      BY <3>1 DEF MapInv, RegistryOwned
    <3>3. ASSUME s = t PROVE FALSE
      <4>1. u = name[t] /\ e.ptr = addr[t]
        BY <3>2, <3>3
      <4>2. e.ptr # addr[t]
        BY <2>2, <4>1
      <4> QED
        BY <4>1, <4>2
    <3> QED
      BY <2>1, <3>2, <3>3 DEF TypeOK
  <2>4. Registered'
    <3> SUFFICES ASSUME NEW s \in Conns, name'[s] # NoUser,
                        pc'[s] \notin {"add", "deactivate"}
                 PROVE  \E e \in clients'[name'[s]] : e.ptr = addr'[s]
        BY DEF Registered
    <3>1. /\ s # t /\ name'[s] = name[s] /\ pc'[s] = pc[s] /\ addr'[s] = addr[s]
          /\ name[s] \in Users
      BY <2>1 DEF TypeOK
    <3>2. PICK e \in clients[name[s]] : e.ptr = addr[s]
      BY <3>1 DEF MapInv, Registered
    <3>3. pc[s] # "none"
      BY <3>1 DEF Locals, LocalsOf
    <3>4. addr[s] # addr[t]
      BY <2>1, <3>1, <3>3 DEF MapInv, AddressesDiffer
    <3>5. e \in clients'[name[s]]
      BY <2>2, <3>1, <3>2, <3>4
    <3> QED
      BY <3>1, <3>2, <3>5
  <2>5. AddressesDiffer'
    BY <2>1 DEF MapInv, AddressesDiffer, TypeOK
  <2> QED
    BY <2>3, <2>4, <2>5 DEF MapInv
<1>6. ASSUME NEW t \in Conns, DeactivateByToken(t) \/ DeactivateByTokenFails(t)
      PROVE MapInv'
  <2>1. /\ pc[t] = "deactivate" /\ UNCHANGED clients
        /\ pc' = [pc EXCEPT ![t] = "none"] /\ addr' = [addr EXCEPT ![t] = NoAddr]
        /\ name' = [name EXCEPT ![t] = NoUser]
    BY <1>6 DEF DeactivateByToken, DeactivateByTokenFails, Return, Goto
  <2> QED
    BY <2>1 DEF MapInv, RegistryOwned, Registered, AddressesDiffer, TypeOK
<1>7. CASE Crash
  BY <1>7 DEF Crash, MapInv, RegistryOwned, Registered, AddressesDiffer
<1>8. CASE Quiet
  BY <1>8, QuietStep
<1> QED
  BY <1>1, <1>2, <1>3, <1>4, <1>5, <1>6, <1>7, <1>8, QuietActions
     DEF Next, ThreadStep

-----------------------------------------------------------------------------
(***************************************************************************)
(* TypeOK holds in every reachable state, for every instance.              *)
(***************************************************************************)
THEOREM TypeCorrect == Spec => []TypeOK
<1>1. Init => TypeOK /\ Locals
  BY RegistryInit DEF RegistryInv
<1> QED
  BY <1>1, TypeStep, PTL DEF Spec

\* The inductive invariant of the map.
LEMMA RegistryInvariant == Spec => []RegistryInv
<1>1. RegistryInv /\ [Next]_vars => RegistryInv'
  BY TypeStep, MapStep DEF RegistryInv, MapInv
<1> QED
  BY <1>1, RegistryInit, PTL DEF Spec

(***************************************************************************)
(* No entry of Server::_clients outlives the thread that must remove it.   *)
(***************************************************************************)
THEOREM NoDanglingEntry == Spec => []RegistryOwned
<1>1. RegistryInv => RegistryOwned
  BY DEF RegistryInv
<1> QED
  BY <1>1, RegistryInvariant, PTL

(***************************************************************************)
(* removeClient's comparison of raw addresses never hits another           *)
(* connection's session.                                                   *)
(***************************************************************************)
THEOREM RawPointerSafe == Spec => []PointerUnambiguous
<1>1. RegistryInv => PointerUnambiguous
  BY DEF RegistryInv, AddressesDiffer, PointerUnambiguous, Holds
<1> QED
  BY <1>1, RegistryInvariant, PTL

-----------------------------------------------------------------------------
\* Rows are numbered 1..issued, and every row has an owner with an account.
RowsOK ==
    /\ \A k \in active \cup expired : k <= issued
    /\ \A k \in Tokens : k <= issued => owner[k] \in accounts

\* The tokens of one thread exist and belong to the names next to them.
TokensOf(t) ==
    /\ sessTok[t] <= issued /\ tok[t] <= issued
    /\ sessUser[t] # NoUser => sessTok[t] # 0 /\ owner[sessTok[t]] = sessUser[t]
    /\ name[t] # NoUser => tok[t] # 0 /\ owner[tok[t]] = name[t]

\* A session token is in the hands of one connection.
TokensDiffer ==
    \A t \in Conns : \A s \in Conns \ {t} :
        sessTok[t] # 0 => sessTok[s] # sessTok[t] /\ tok[s] # sessTok[t]

\* A login about to insert its row: what is active for the user is younger
\* than its revocation.
SweptOf(t) ==
    pc[t] = "save" =>
        /\ swept[t] <= issued
        /\ \A k \in active : owner[k] = req[t] => swept[t] < k

TokenInv ==
    /\ RowsOK
    /\ \A t \in Conns : TokensOf(t) /\ SweptOf(t)
    /\ TokensDiffer
    /\ OnlyOverlappingLoginsCoexist

\* No token has been issued yet.
LEMMA TokenInit == Init => TokenInv
BY RegistryConstants
   DEF Init, TokenInv, RowsOK, TokensOf, TokensDiffer, SweptOf,
       OnlyOverlappingLoginsCoexist, Tokens

\* Steps that leave rows and tokens alone and enter no "save".
LEMMA TokenQuiet ==
    ASSUME TokenInv,
           UNCHANGED <<sessUser, sessTok, name, tok, accounts, issued, owner,
                       sweptBy>>,
           active' \subseteq active,
           expired' \subseteq expired \cup 1..issued,
           \A s \in Conns : pc'[s] = "save" =>
                pc[s] = "save" /\ swept'[s] = swept[s] /\ req'[s] = req[s]
    PROVE  TokenInv'
BY DEF TokenInv, RowsOK, TokensOf, TokensDiffer, SweptOf,
       OnlyOverlappingLoginsCoexist

\* The token facts are preserved by every step.
LEMMA TokenStep == TypeOK /\ Locals /\ TokenInv /\ [Next]_vars => TokenInv'
<1> SUFFICES ASSUME TypeOK, Locals, TokenInv, [Next]_vars
             PROVE  TokenInv'
    OBVIOUS
<1> USE RegistryConstants
<1>1. ASSUME NEW t \in Conns, Connect(t) PROVE TokenInv'
  BY <1>1, TokenQuiet DEF TypeOK, Connect, Goto, table
<1>2. ASSUME NEW t \in Conns, PeerDrop(t) PROVE TokenInv'
  BY <1>2, TokenQuiet DEF TypeOK, PeerDrop, table
<1>3. ASSUME NEW t \in Conns, ReceivePacket(t) PROVE TokenInv'
  BY <1>3, TokenQuiet DEF TypeOK, ReceivePacket, CanReceive, Goto, table
<1>4. ASSUME NEW t \in Conns, NEW u \in Users, ReceiveLogin(t, u) PROVE TokenInv'
  BY <1>4, TokenQuiet DEF TypeOK, ReceiveLogin, CanReceive, Goto, table
<1>5. ASSUME NEW t \in Conns, NEW u \in Users, ReceiveRegister(t, u) PROVE TokenInv'
  BY <1>5, TokenQuiet DEF TypeOK, ReceiveRegister, CanReceive, Goto, table
<1>6. ASSUME NEW t \in Conns, Flush(t) PROVE TokenInv'
  BY <1>6, TokenQuiet DEF TypeOK, Flush, EndHandler, Goto, table
<1>7. ASSUME NEW t \in Conns, Execute(t) PROVE TokenInv'
  BY <1>7, TokenQuiet DEF TypeOK, Execute, Goto, table
<1>8. ASSUME NEW t \in Conns, HandlerThrows(t) PROVE TokenInv'
  BY <1>8, TokenQuiet DEF TypeOK, HandlerThrows, Throws, EndHandler, Goto, table
<1>9. ASSUME NEW t \in Conns, Add(t) PROVE TokenInv'
  BY <1>9, TokenQuiet DEF TypeOK, Add, AddClient, Goto, table
<1>10. ASSUME NEW t \in Conns, Leave(t) PROVE TokenInv'
  BY <1>10, TokenQuiet DEF TypeOK, Leave, Goto, table
<1>11. ASSUME NEW t \in Conns, Remove(t) PROVE TokenInv'
  BY <1>11, TokenQuiet DEF TypeOK, Remove, RemoveClient, Goto, table
<1>12. ASSUME NEW k \in Tokens, Expire(k) PROVE TokenInv'
  BY <1>12, TokenQuiet DEF TypeOK, Expire, thread
<1>13. CASE OnCleanupTimer
  BY <1>13, TokenQuiet DEF TypeOK, OnCleanupTimer, thread
<1>14. CASE UNCHANGED vars
  BY <1>14, TokenQuiet DEF vars, thread, table
<1>15. ASSUME NEW t \in Conns, DeactivateAllForUser(t) PROVE TokenInv'
  <2>1. /\ pc[t] = "revoke" /\ pc' = [pc EXCEPT ![t] = "save"]
        /\ active' = {k \in active : owner[k] # req[t]}
        /\ swept' = [swept EXCEPT ![t] = issued]
        /\ UNCHANGED <<req, sessUser, sessTok, name, tok, accounts, issued, owner,
                       expired, sweptBy>>
    BY <1>15 DEF DeactivateAllForUser, Goto
  <2>2. RowsOK' /\ TokensDiffer' /\ OnlyOverlappingLoginsCoexist'
    BY <2>1 DEF TokenInv, RowsOK, TokensDiffer, OnlyOverlappingLoginsCoexist
  <2>3. ASSUME NEW s \in Conns PROVE TokensOf(s)' /\ SweptOf(s)'
    <3>1. TokensOf(s) /\ SweptOf(s)
      BY DEF TokenInv
    <3> QED
      BY <2>1, <3>1 DEF TokensOf, SweptOf, TypeOK
  <2> QED
    BY <2>2, <2>3 DEF TokenInv
<1>16. ASSUME NEW t \in Conns, SaveUser(t) PROVE TokenInv'
  <2>1. /\ pc[t] = "newuser" /\ pc' = [pc EXCEPT ![t] = "save"]
        /\ req[t] \notin accounts /\ accounts' = accounts \cup {req[t]}
        /\ swept' = [swept EXCEPT ![t] = issued]
        /\ UNCHANGED <<req, sessUser, sessTok, name, tok, active, issued, owner,
                       expired, sweptBy>>
    BY <1>16 DEF SaveUser, Goto, table
  <2>2. RowsOK' /\ TokensDiffer' /\ OnlyOverlappingLoginsCoexist'
    BY <2>1 DEF TokenInv, RowsOK, TokensDiffer, OnlyOverlappingLoginsCoexist
  <2>3. ASSUME NEW s \in Conns PROVE TokensOf(s)' /\ SweptOf(s)'
    <3>1. TokensOf(s) /\ SweptOf(s) /\ RowsOK
      BY DEF TokenInv
    <3>2. \A k \in active : owner[k] # req[t]
      BY <2>1, <3>1 DEF RowsOK, TypeOK
    <3> QED
      BY <2>1, <3>1, <3>2 DEF TokensOf, SweptOf, TypeOK
  <2> QED
    BY <2>2, <2>3 DEF TokenInv
<1>17. ASSUME NEW t \in Conns, SaveSession(t) PROVE TokenInv'
  <2> DEFINE k0 == issued + 1
  <2>1. /\ pc[t] = "save" /\ issued < MaxTokens /\ issued' = k0
        /\ owner' = [owner EXCEPT ![k0] = req[t]]
        /\ sweptBy' = [sweptBy EXCEPT ![k0] = swept[t]]
        /\ active' = active \cup {k0}
        /\ sessUser' = [sessUser EXCEPT ![t] = req[t]]
        /\ sessTok' = [sessTok EXCEPT ![t] = k0]
        /\ pc' = [pc EXCEPT ![t] = "flush"]
        /\ UNCHANGED <<req, name, tok, swept, accounts, expired>>
    BY <1>17 DEF SaveSession, Goto
  <2>2. /\ k0 \in Tokens /\ issued \in Nat /\ req[t] \in accounts
        /\ \A k \in active \cup expired : k \in Nat /\ k < k0
        /\ \A s \in Conns : /\ sessTok[s] \in Nat /\ sessTok[s] < k0
                            /\ tok[s] \in Nat /\ tok[s] < k0
    BY <2>1 DEF TypeOK, Tokens, Locals, LocalsOf, TokenInv, RowsOK, TokensOf
  <2>3. \A k \in Tokens : k # k0 => owner'[k] = owner[k] /\ sweptBy'[k] = sweptBy[k]
    BY <2>1 DEF TypeOK
  <2>4. owner'[k0] = req[t] /\ sweptBy'[k0] = swept[t]
    BY <2>1, <2>2 DEF TypeOK
  <2>5. RowsOK'
    <3>1. \A k \in Tokens : k \in Nat
      BY DEF Tokens
    <3> QED
      BY <2>1, <2>2, <2>3, <2>4, <3>1 DEF TokenInv, RowsOK, TypeOK
  <2>6. ASSUME NEW s \in Conns PROVE TokensOf(s)'
    <3>1. TokensOf(s)
      BY DEF TokenInv
    <3>2. /\ tok[s] # 0 => tok[s] \in Tokens /\ tok[s] # k0
          /\ sessTok[s] # 0 => sessTok[s] \in Tokens /\ sessTok[s] # k0
      BY <2>1, <2>2 DEF Tokens, TypeOK
    <3>3. CASE s = t
      BY <2>1, <2>2, <2>3, <2>4, <3>1, <3>2, <3>3 DEF TokensOf, TypeOK
    <3>4. CASE s # t
      BY <2>1, <2>2, <2>3, <3>1, <3>2, <3>4 DEF TokensOf, TypeOK
    <3> QED
      BY <3>3, <3>4
  <2>7. ASSUME NEW s \in Conns PROVE SweptOf(s)'
    <3>1. SweptOf(s) /\ swept[s] \in Nat
      BY DEF TokenInv, TypeOK
    <3> SUFFICES ASSUME pc'[s] = "save"
                 PROVE  /\ swept'[s] <= issued'
                        /\ \A k \in active' : owner'[k] = req'[s] => swept'[s] < k
        BY DEF SweptOf
    <3>2. pc[s] = "save" /\ swept'[s] = swept[s] /\ req'[s] = req[s]
      BY <2>1 DEF TypeOK
    <3>3. swept[s] <= issued /\ \A k \in active : owner[k] = req[s] => swept[s] < k
      BY <3>1, <3>2 DEF SweptOf
    <3>4. \A k \in active : owner'[k] = owner[k]
      BY <2>2, <2>3 DEF TypeOK
    <3> QED
      BY <2>1, <2>2, <3>1, <3>2, <3>3, <3>4
  <2>8. TokensDiffer'
    BY <2>1, <2>2 DEF TokenInv, TokensDiffer, TypeOK
  <2>9. OnlyOverlappingLoginsCoexist'
    <3> SUFFICES ASSUME NEW k1 \in active', NEW k2 \in active', k1 < k2,
                        owner'[k1] = owner'[k2]
                 PROVE  sweptBy'[k2] < k1
        BY DEF OnlyOverlappingLoginsCoexist
    <3>1. k1 \in active /\ owner'[k1] = owner[k1]
      BY <2>1, <2>2, <2>3 DEF TypeOK
    <3>2. CASE k2 = k0
      <4>1. owner[k1] = req[t]
        BY <2>4, <3>1, <3>2
      <4>2. SweptOf(t)
        BY DEF TokenInv
      <4> QED
        BY <2>1, <2>4, <3>1, <3>2, <4>1, <4>2 DEF SweptOf
    <3>3. CASE k2 # k0
      <4>1. k2 \in active /\ owner'[k2] = owner[k2] /\ sweptBy'[k2] = sweptBy[k2]
        BY <2>1, <2>3, <3>3 DEF TypeOK
      <4> QED
        BY <3>1, <4>1 DEF TokenInv, OnlyOverlappingLoginsCoexist
    <3> QED
      BY <3>2, <3>3
  <2> QED
    BY <2>5, <2>6, <2>7, <2>8, <2>9 DEF TokenInv
<1>18. ASSUME NEW t \in Conns, Evict(t) PROVE TokenInv'
  <2>1. /\ pc[t] = "evict" /\ pc' = [pc EXCEPT ![t] = "add"]
        /\ name' = [name EXCEPT ![t] = sessUser[t]]
        /\ tok' = [tok EXCEPT ![t] = sessTok[t]]
        /\ UNCHANGED <<req, swept, sessUser, sessTok, accounts, issued, owner,
                       active, expired, sweptBy>>
    BY <1>18 DEF Evict, Goto, table
  <2>2. RowsOK' /\ OnlyOverlappingLoginsCoexist'
    BY <2>1 DEF TokenInv, RowsOK, OnlyOverlappingLoginsCoexist
  <2>3. TokensDiffer'
    BY <2>1 DEF TokenInv, TokensDiffer, TypeOK
  <2>4. ASSUME NEW s \in Conns PROVE TokensOf(s)' /\ SweptOf(s)'
    <3>1. TokensOf(s) /\ SweptOf(s)
      BY DEF TokenInv
    <3> QED
      BY <2>1, <3>1 DEF TokensOf, SweptOf, TypeOK
  <2> QED
    BY <2>2, <2>3, <2>4 DEF TokenInv
<1>19. ASSUME NEW t \in Conns,
              LeaveUnnamed(t) \/ DeactivateByToken(t) \/ DeactivateByTokenFails(t)
       PROVE TokenInv'
  <2>1. /\ pc' = [pc EXCEPT ![t] = "none"]
        /\ name' = [name EXCEPT ![t] = NoUser] /\ tok' = [tok EXCEPT ![t] = 0]
        /\ sessUser' = [sessUser EXCEPT ![t] = NoUser]
        /\ sessTok' = [sessTok EXCEPT ![t] = 0]
        /\ active' \subseteq active
        /\ UNCHANGED <<req, swept, accounts, issued, owner, expired, sweptBy>>
    BY <1>19 DEF LeaveUnnamed, DeactivateByToken, DeactivateByTokenFails, Return,
                 Goto, table
  <2>2. RowsOK' /\ OnlyOverlappingLoginsCoexist'
    BY <2>1 DEF TokenInv, RowsOK, OnlyOverlappingLoginsCoexist
  <2>3. TokensDiffer'
    BY <2>1 DEF TokenInv, TokensDiffer, TypeOK
  <2>4. ASSUME NEW s \in Conns PROVE TokensOf(s)' /\ SweptOf(s)'
    <3>1. TokensOf(s) /\ SweptOf(s)
      BY DEF TokenInv
    <3> QED
      BY <2>1, <3>1 DEF TokensOf, SweptOf, TypeOK
  <2> QED
    BY <2>2, <2>3, <2>4 DEF TokenInv
<1>20. CASE Crash
  <2>1. /\ pc' = [t \in Conns |-> "none"]
        /\ name' = [t \in Conns |-> NoUser] /\ tok' = [t \in Conns |-> 0]
        /\ sessUser' = [t \in Conns |-> NoUser] /\ sessTok' = [t \in Conns |-> 0]
        /\ UNCHANGED <<accounts, issued, owner, active, expired, sweptBy>>
    BY <1>20 DEF Crash, table
  <2> QED
    BY <2>1 DEF TokenInv, RowsOK, TokensOf, SweptOf, TokensDiffer,
                OnlyOverlappingLoginsCoexist, TypeOK
<1> QED
  BY <1>1, <1>2, <1>3, <1>4, <1>5, <1>6, <1>7, <1>8, <1>9, <1>10, <1>11, <1>12,
     <1>13, <1>14, <1>15, <1>16, <1>17, <1>18, <1>19, <1>20
     DEF Next, ThreadStep

\* The inductive invariant of the sessions table.
LEMMA TokenInvariant == Spec => []TokenInv
<1>1. Init => TypeOK /\ Locals /\ TokenInv
  BY RegistryInit, TokenInit DEF RegistryInv
<1>2. TypeOK /\ Locals /\ TokenInv /\ [Next]_vars => (TypeOK /\ Locals /\ TokenInv)'
  BY TypeStep, TokenStep
<1> QED
  BY <1>1, <1>2, PTL DEF Spec

(***************************************************************************)
(* The disconnect code deactivates, and authorize() looks up, only a token *)
(* of the connection's own user, and no two connections share one.         *)
(***************************************************************************)
THEOREM TokensOwned == Spec => []TokenOwnership
<1>1. TokenInv => TokenOwnership
  BY DEF TokenInv, TokensOf, TokensDiffer, TokenOwnership
<1> QED
  BY <1>1, TokenInvariant, PTL

(***************************************************************************)
(* A user has two active session rows only if the two logins overlapped.   *)
(***************************************************************************)
THEOREM LoginRevokesEarlierOnes == Spec => []OnlyOverlappingLoginsCoexist
<1>1. TokenInv => OnlyOverlappingLoginsCoexist
  BY DEF TokenInv
<1> QED
  BY <1>1, TokenInvariant, PTL
-----------------------------------------------------------------------------
\* Membership in the refinement mapping.
LEMMA ListedDef ==
    ASSUME NEW t \in Conns, NEW u \in Users
    PROVE  <<t, u>> \in Listed <=> /\ pc[t] \notin {"none", "deactivate"}
                                  /\ \E e \in clients[u] : e.ptr = addr[t]
BY DEF Listed

\* A connection is listed under its local username only.
LEMMA ListedUnderName ==
    ASSUME RegistryInv, NEW t \in Conns, NEW u \in Users, <<t, u>> \in Listed
    PROVE  u = name[t]
<1>1. PICK e \in clients[u] : e.ptr = addr[t]
  BY ListedDef
<1>2. PICK s \in Conns : /\ addr[s] = e.ptr /\ name[s] = u
                         /\ pc[s] \notin {"none", "deactivate"}
  BY DEF RegistryInv, RegistryOwned
<1>3. pc[t] \notin {"none", "deactivate"}
  BY ListedDef
<1>4. s = t
  BY <1>1, <1>2, <1>3 DEF RegistryInv, AddressesDiffer
<1> QED
  BY <1>2, <1>4

\* Two states with the same pairs have the same list.
LEMMA ListedSame ==
    ASSUME \A t \in Conns, u \in Users : <<t, u>> \in Listed' <=> <<t, u>> \in Listed
    PROVE  Listed' = Listed
<1>1. Listed \subseteq Conns \X Users /\ Listed' \subseteq Conns \X Users
  BY DEF Listed
<1> QED
  BY <1>1

\* removeClient for the connection's own name withdraws it and nobody else.
LEMMA RemoveWithdraws ==
    ASSUME RegistryInv, NEW t \in Conns, name[t] \in Users,
           pc[t] \in {"evict", "remove"},
           RemoveClient(name[t], addr[t]), addr' = addr,
           \A s \in Conns \ {t} : pc'[s] = pc[s],
           pc'[t] # "none"
    PROVE  P!Withdraw(t, name[t])
<1> DEFINE n == name[t]
<1>1. <<t, n>> \in Listed
  <2>1. \E e \in clients[n] : e.ptr = addr[t]
    BY RegistryConstants DEF RegistryInv, Registered
  <2> QED
    BY <2>1, ListedDef
<1>2. clients' = [clients EXCEPT ![n] = {e \in @ : e.ptr # addr[t]}]
  BY DEF RemoveClient
<1>3. ASSUME NEW s \in Conns, NEW u \in Users
      PROVE  <<s, u>> \in Listed' <=> <<s, u>> \in Listed /\ <<s, u>> # <<t, n>>
  <2>1. <<s, u>> \in Listed' <=> /\ pc'[s] \notin {"none", "deactivate"}
                                /\ \E e \in clients'[u] : e.ptr = addr[s]
    BY DEF Listed
  <2>2. CASE s = t
    <3>1. u # n => <<t, u>> \notin Listed
      BY ListedUnderName
    <3>2. u = n => \A e \in clients'[u] : e.ptr # addr[t]
      BY <1>2 DEF RegistryInv, TypeOK
    <3>3. u # n => clients'[u] = clients[u]
      BY <1>2 DEF RegistryInv, TypeOK
    <3>4. pc[t] \notin {"none", "deactivate"}
      OBVIOUS
    <3> QED
      BY <2>1, <2>2, <3>1, <3>2, <3>3, <3>4, ListedDef
  <2>3. CASE s # t /\ pc[s] \notin {"none", "deactivate"}
    <3>1. addr[s] # addr[t]
      BY <2>3 DEF RegistryInv, AddressesDiffer
    <3>2. (\E e \in clients'[u] : e.ptr = addr[s]) <=> (\E e \in clients[u] : e.ptr = addr[s])
      BY <1>2, <3>1 DEF RegistryInv, TypeOK
    <3> QED
      BY <2>1, <2>3, <3>2, ListedDef
  <2>4. CASE s # t /\ pc[s] \in {"none", "deactivate"}
    BY <2>1, <2>4, ListedDef
  <2> QED
    BY <2>2, <2>3, <2>4
<1>4. Listed \subseteq Conns \X Users /\ Listed' \subseteq Conns \X Users
  BY DEF Listed
<1>5. Listed' = Listed \ {<<t, n>>}
  BY <1>3, <1>4
<1>6. Open' = Open
  BY DEF Open
<1> QED
  BY <1>1, <1>5, <1>6 DEF P!Withdraw

\* Quiet steps, and the end of the cleanup, do not change the list.
LEMMA QuietKeepsList ==
    ASSUME RegistryInv, Quiet
    PROVE  Open' = Open /\ Listed' = Listed
<1>1. Open' = Open
  BY DEF Quiet, Open
<1>2. ASSUME NEW t \in Conns, NEW u \in Users
      PROVE  <<t, u>> \in Listed' <=> <<t, u>> \in Listed
  BY DEF Listed, Quiet
<1> QED
  BY <1>1, <1>2, ListedSame

\* Every step of the registry is a step of Presence or none.
LEMMA PresenceStep ==
    RegistryInv /\ [Next]_vars => [P!Next]_<<Open, Listed>>
<1> SUFFICES ASSUME RegistryInv, [Next]_vars
             PROVE  P!Next \/ UNCHANGED <<Open, Listed>>
    OBVIOUS
<1> USE RegistryConstants
<1>1. ASSUME NEW t \in Conns, Connect(t) PROVE P!Accept(t)
  <2>1. PICK a \in Addrs : Free(a) /\ addr' = [addr EXCEPT ![t] = a]
    BY <1>1 DEF Connect
  <2>2. pc[t] = "none" /\ UNCHANGED clients /\ pc' = [pc EXCEPT ![t] = "idle"]
    BY <1>1 DEF Connect, Goto
  <2>3. Open' = Open \cup {t} /\ t \notin Open
    BY <2>2 DEF Open, RegistryInv, TypeOK
  <2>4. ASSUME NEW s \in Conns, NEW u \in Users
        PROVE  <<s, u>> \in Listed' <=> <<s, u>> \in Listed
    <3>1. CASE s = t
      BY <2>1, <2>2, <3>1 DEF Listed, Free, RegistryInv, TypeOK
    <3>2. CASE s # t
      BY <2>1, <2>2, <3>2 DEF Listed, RegistryInv, TypeOK
    <3> QED
      BY <3>1, <3>2
  <2> QED
    BY <2>3, <2>4, ListedSame DEF P!Accept
<1>2. ASSUME NEW t \in Conns, Evict(t)
      PROVE  (P!Withdraw(t, name[t]) /\ name[t] \in Users) \/ UNCHANGED <<Open, Listed>>
  <2>1. /\ pc[t] = "evict" /\ pc' = [pc EXCEPT ![t] = "add"] /\ addr' = addr
    BY <1>2 DEF Evict, Goto
  <2>2. CASE name[t] # NoUser /\ name[t] # sessUser[t]
    <3>1. name[t] \in Users
      BY <2>2 DEF RegistryInv, TypeOK
    <3>2. RemoveClient(name[t], addr[t])
      BY <1>2, <2>2 DEF Evict
    <3>3. pc'[t] # "none" /\ \A s \in Conns \ {t} : pc'[s] = pc[s]
      BY <2>1 DEF RegistryInv, TypeOK
    <3> QED
      BY <2>1, <3>1, <3>2, <3>3, RemoveWithdraws
  <2>3. CASE ~(name[t] # NoUser /\ name[t] # sessUser[t])
    <3>1. clients' = clients
      BY <1>2, <2>3 DEF Evict
    <3>2. Open' = Open
      BY <2>1 DEF Open, RegistryInv, TypeOK
    <3>3. ASSUME NEW s \in Conns, NEW u \in Users
          PROVE  <<s, u>> \in Listed' <=> <<s, u>> \in Listed
      BY <2>1, <3>1 DEF Listed, RegistryInv, TypeOK
    <3> QED
      BY <3>2, <3>3, ListedSame
  <2> QED
    BY <2>2, <2>3
<1>3. ASSUME NEW t \in Conns, Add(t) PROVE P!Enter(t, name[t]) /\ name[t] \in Users
  <2> DEFINE n == name[t]
  <2>1. /\ pc[t] = "add" /\ pc' = [pc EXCEPT ![t] = "idle"] /\ addr' = addr
        /\ clients' = [clients EXCEPT ![n] = @ \cup {[ptr |-> addr[t], at |-> regs + 1]}]
    BY <1>3 DEF Add, AddClient, Goto
  <2>2. n \in Users
    BY <2>1 DEF RegistryInv, Locals, LocalsOf
  <2>3. ASSUME NEW s \in Conns, NEW u \in Users
        PROVE  <<s, u>> \in Listed' <=> <<s, u>> \in Listed \/ <<s, u>> = <<t, n>>
    <3>1. <<s, u>> \in Listed' <=> /\ pc'[s] \notin {"none", "deactivate"}
                                  /\ \E e \in clients'[u] : e.ptr = addr[s]
      BY <2>1 DEF Listed
    <3>2. pc'[s] \notin {"none", "deactivate"} <=> pc[s] \notin {"none", "deactivate"}
      BY <2>1 DEF RegistryInv, TypeOK
    <3>3. CASE u # n
      BY <2>1, <3>1, <3>2, <3>3, ListedDef DEF RegistryInv, TypeOK
    <3>4. CASE u = n /\ s = t
      <4>1. [ptr |-> addr[t], at |-> regs + 1] \in clients'[n]
        BY <2>1, <2>2 DEF RegistryInv, TypeOK
      <4> QED
        BY <2>1, <3>1, <3>2, <3>4, <4>1
    <3>5. CASE u = n /\ s # t
      <4>1. pc[s] \notin {"none", "deactivate"} => addr[s] # addr[t]
        BY <2>1, <3>5 DEF RegistryInv, AddressesDiffer
      <4>2. clients'[u] = clients[u] \cup {[ptr |-> addr[t], at |-> regs + 1]}
        BY <2>1, <2>2, <3>5 DEF RegistryInv, TypeOK
      <4>3. [ptr |-> addr[t], at |-> regs + 1].ptr = addr[t]
        OBVIOUS
      <4> QED
        BY <3>1, <3>2, <3>5, <4>1, <4>2, <4>3, ListedDef
    <3> QED
      BY <3>3, <3>4, <3>5
  <2>4. Listed \subseteq Conns \X Users /\ Listed' \subseteq Conns \X Users
    BY DEF Listed
  <2>5. Listed' = Listed \cup {<<t, n>>}
    BY <2>2, <2>3, <2>4
  <2>6. Open' = Open /\ t \in Open
    BY <2>1 DEF Open, RegistryInv, TypeOK
  <2>7. \A v \in Users : <<t, v>> \in Listed => v = n
    BY ListedUnderName
  <2> QED
    BY <2>2, <2>5, <2>6, <2>7 DEF P!Enter
<1>4. ASSUME NEW t \in Conns, Remove(t) PROVE P!Withdraw(t, name[t]) /\ name[t] \in Users
  <2>1. /\ pc[t] = "remove" /\ pc' = [pc EXCEPT ![t] = "deactivate"] /\ addr' = addr
        /\ RemoveClient(name[t], addr[t])
    BY <1>4 DEF Remove, Goto
  <2>2. name[t] \in Users
    BY <2>1 DEF RegistryInv, Locals, LocalsOf
  <2>3. pc'[t] # "none" /\ \A s \in Conns \ {t} : pc'[s] = pc[s]
    BY <2>1 DEF RegistryInv, TypeOK
  <2> QED
    BY <2>1, <2>2, <2>3, RemoveWithdraws
<1>5. ASSUME NEW t \in Conns,
             LeaveUnnamed(t) \/ DeactivateByToken(t) \/ DeactivateByTokenFails(t)
      PROVE  P!Close(t)
  <2>1. /\ pc[t] \in {"idle", "deactivate"}
        /\ pc[t] = "idle" => name[t] = NoUser
        /\ pc' = [pc EXCEPT ![t] = "none"] /\ addr' = [addr EXCEPT ![t] = NoAddr]
        /\ clients' = clients
    BY <1>5 DEF LeaveUnnamed, DeactivateByToken, DeactivateByTokenFails, Return, Goto
  <2>2. ASSUME NEW u \in Users PROVE <<t, u>> \notin Listed
    BY <2>1, ListedUnderName, ListedDef
  <2>3. t \in Open /\ Open' = Open \ {t}
    BY <2>1 DEF Open, RegistryInv, TypeOK
  <2>4. ASSUME NEW s \in Conns, NEW u \in Users
        PROVE  <<s, u>> \in Listed' <=> <<s, u>> \in Listed
    <3>1. CASE s = t
      BY <2>1, <2>2, <3>1 DEF Listed, RegistryInv, TypeOK
    <3>2. CASE s # t
      BY <2>1, <3>2 DEF Listed, RegistryInv, TypeOK
    <3> QED
      BY <3>1, <3>2
  <2> QED
    BY <2>2, <2>3, <2>4, ListedSame DEF P!Close
<1>6. CASE Crash
  <2>1. Open' = {} /\ Listed' = {}
    BY <1>6 DEF Crash, Open, Listed
  <2> QED
    BY <2>1 DEF P!Next, P!Vanish
<1>7. CASE Quiet
  BY <1>7, QuietKeepsList
<1>8. \A t \in Conns, u \in Users :
        P!Accept(t) \/ P!Close(t) \/ P!Enter(t, u) \/ P!Withdraw(t, u) => P!Next
  BY DEF P!Next
<1>9. \A t \in Conns : P!Accept(t) \/ P!Close(t) => P!Next
  BY DEF P!Next
<1>10. TypeOK
  BY DEF RegistryInv
<1> QED
  BY <1>1, <1>2, <1>3, <1>4, <1>5, <1>6, <1>7, <1>8, <1>9, <1>10, QuietActions
     DEF Next, ThreadStep

(***************************************************************************)
(* The threads with their map, locals and raw pointers implement Presence: *)
(* for any number of them, each connection is reachable under one name at  *)
(* a time and only its own thread takes it off the list.                   *)
(***************************************************************************)
THEOREM RegistryImplementsPresence == Spec => ImplementsPresence
<1>1. Init => P!Init
  BY DEF Init, P!Init, Open, Listed
<1> QED
  BY <1>1, PresenceStep, RegistryInvariant, PTL DEF Spec, ImplementsPresence, P!Spec

=============================================================================
