--------------------- MODULE ConversationDeletionProofs ---------------------
(***************************************************************************)
(* Safety of ConversationDeletion for any number of messages, deletions    *)
(* and logins.                                                             *)
(***************************************************************************)
EXTENDS ConversationDeletion, FiniteSetTheorems, FunctionTheorems, SequenceTheorems,
        WellFoundedInduction, TLAPS

ToClient == {LoginAck, Delete} \cup {Message(i) : i \in Nat}
ToServer == {Delete} \cup {Message(i) : i \in Nat} \cup {Sync(c) : c \in Nat}

\* The steps of LoginHandler, and no thread at all.
Arriving == {"off", "login", "flush", "clear", "notes", "register"}
Labels   == Arriving \cup {"idle", "save", "route", "reload", "queue", "sync", "replay",
                           "purge", "erase", "notify", "note"}

Wires == /\ online \in [Users -> BOOLEAN]
         /\ inbox \in [Users -> Seq(ToClient)] /\ outbox \in [Users -> Seq(ToServer)]

Threads == /\ pc \in [Users -> Labels] /\ cur \in [Users -> Nat]
           /\ pend \in [Users -> Seq(Nat)] /\ cleared \in [Users -> SUBSET Nat]
           /\ reg \subseteq Users

Counters == /\ batch \in [Users -> Nat] /\ notes \in [Users -> Nat] /\ asked \in Nat

Copies == /\ from \in Seq(Users)
          /\ store \in [Users -> SUBSET Nat] /\ hidden \in [Users -> SUBSET Nat]
          /\ crossed \in [Users -> SUBSET Nat] /\ cursor \in [Users -> Nat]
          /\ rows \subseteq Ids /\ erased \subseteq Ids /\ queue \subseteq rows

Shapes == Wires /\ Threads /\ Counters /\ Copies

\* A message there is anywhere has been written.
Held    == \A u \in Users : store[u] \cup hidden[u] \cup crossed[u] \subseteq Ids
Carried == \A u \in Users, i \in Nat : \A k \in DOMAIN inbox[u] :
               inbox[u][k] = Message(i) => i \in Ids
Listed  == \A u \in Users : \A k \in DOMAIN pend[u] : pend[u][k] \in Ids

\* A connection carries messages its user wrote, and its thread handles them;
\* a login flushes those of the peer.
Outgoing == \A u \in Users, i \in Nat : \A k \in DOMAIN outbox[u] :
                outbox[u][k] = Message(i) => i \in Ids /\ from[i] = u
Handled  == \A u \in Users : pc[u] \in {"save", "route", "reload", "queue"} =>
                cur[u] \in Ids /\ from[cur[u]] = u
Flushed  == \A u \in Users : pc[u] = "flush" =>
                \A k \in DOMAIN pend[u] : from[pend[u][k]] # u

Known   == Held /\ Carried /\ Listed
Authors == Outgoing /\ Handled /\ Flushed

\* Which thread may be where, and what it has then.
Phases ==
    \A u \in Users :
        /\ cleared[u] # {} => pc[u] = "erase"
        /\ u \in reg => pc[u] \notin Arriving
        /\ u \notin reg => pc[u] \in Arriving \/ u \in missed
        /\ ~online[u] => inbox[u] = <<>> /\ outbox[u] = <<>>
        /\ pc[u] = "off" => ~online[u]
        /\ batch[u] > 0 => pc[u] \in {"clear", "notes"}

\* Packets of a queue that are in P.
Hits(s, P) == Cardinality({k \in DOMAIN s : s[k] \in P})

Deleting(u) == IF pc[u] \in {"purge", "erase", "notify", "note"} THEN 1 ELSE 0

\* Every notification that waits, and every deletion under way, was asked for.
Bounded ==
    /\ asked <= MaxDeletes
    /\ \A u \in Users :
        /\ Hits(outbox[u], {Delete}) + Deleting(u) + notes[Other(u)] <= asked
        /\ batch[u] <= MaxDeletes

Typed == Shapes /\ Known /\ Authors /\ Phases

\* A packet is in a queue, behind its n-th packet, or behind every one that is d.
Has(s, x)      == \E k \in DOMAIN s : s[k] = x
Past(s, n, x)  == \E k \in DOMAIN s : k > n /\ s[k] = x
After(s, x, d) == \A j, k \in DOMAIN s : s[j] = x /\ s[k] = d => k < j

\* A message on its way to the server, behind every deletion that is.
Behind(u, i) ==
    /\ from[i] = u /\ i \notin rows
    /\ ~(pc[u] = "save" /\ cur[u] = i)
    /\ After(outbox[u], Message(i), Delete)

\* While a user waits for his deletion, his device has no message it concerns,
\* but for those that crossed it.
AskedForgotten ==
    \A u \in Users : Asking(u) => \A i \in store[u] : i \in crossed[u] \/ Behind(u, i)

\* A notification for u is being made, waits or is on its way.
Owed(u) ==
    \/ pc[Other(u)] \in {"notify", "note"}
    \/ notes[u] > 0
    \/ pc[u] = "notes" /\ batch[u] > 0
    \/ Has(inbox[u], Delete)

\* A device that has an erased message is to hear of it.
ErasedOwed ==
    \A u \in Users : \A i \in store[u] \cap erased :
        i \in crossed[u] \/ u \in unheard \/ Owed(u)

DeletedInv == Typed /\ AskedForgotten /\ ErasedOwed

\* A thread that is to notify has erased what its user wrote.
Emptied == \A u \in Users : pc[u] = "notify" => \A i \in rows : from[i] # u

\* The sync of this login has not been read.
Unsynced(u) == Has(outbox[u], Sync(cursor[u]))

\* It is read when the login is done.
SyncLast == \A u \in Users : Ready(u) /\ pc[u] \in Arriving => Unsynced(u)

\* Message i is to be sent to u, or need not be.
Due(u, i) ==
    \/ i \in queue \/ i \in hidden[u] \/ i <= cursor[u]
    \/ Unsynced(u) \/ u \in missed
    \/ pc[u] = "sync" /\ cur[u] = cursor[u]
    \/ pc[u] = "replay" /\ Has(pend[u], i)
    \/ pc[Other(u)] = "route" /\ cur[Other(u)] = i

\* It will reach u behind the n-th packet of his inbox.
Coming(u, i, n) == Due(u, i) \/ Past(inbox[u], n, Message(i))

\* A device that has read its login ACK has each message or is to get it, and
\* gets it again behind every notification that wipes it.
RestoredFor(u) == Ready(u) => \A i \in rows : from[i] # u =>
    /\ i \in store[u] \/ Coming(u, i, 0)
    /\ \A n \in DOMAIN inbox[u] : inbox[u][n] = Delete => Coming(u, i, n)

Restored == \A u \in Users : RestoredFor(u)

StaysInv == Typed /\ Emptied /\ SyncLast /\ Restored

-----------------------------------------------------------------------------
\* A non-empty finite set of natural numbers has a greatest element.
LEMMA GreatestNatural ==
    ASSUME NEW T \in SUBSET Nat, IsFiniteSet(T), T # {}
    PROVE  \E n \in T : \A m \in T : m <= n
<1> DEFINE Above(n) == {m \in T : m > n}
           D == {Above(n) : n \in T}
<1>1. IsWellFoundedOn(StrictSubsetOrdering(Nat), FiniteSubsetsOf(Nat))
  BY FS_StrictSubsetOrderingWellFounded
<1>2. \A n \in T : Above(n) \in FiniteSubsetsOf(Nat)
  BY FS_Subset DEF FiniteSubsetsOf
<1>3. D \subseteq FiniteSubsetsOf(Nat) /\ D # {}
  BY <1>2
<1>4. \E x \in D : \A y \in D : ~(<<y, x>> \in StrictSubsetOrdering(Nat))
  <2> HIDE DEF D
  <2> QED
    BY <1>1, <1>3, WFMin
<1>5. PICK n \in T : \A y \in D : ~(<<y, Above(n)>> \in StrictSubsetOrdering(Nat))
  BY <1>4
<1>6. \A m \in T : m <= n
  <2> SUFFICES ASSUME NEW m \in T, m > n
               PROVE  FALSE
    OBVIOUS
  <2>1. ~(<<Above(m), Above(n)>> \in StrictSubsetOrdering(Nat))
    BY <1>5
  <2>2. m \in Above(n) /\ m \notin Above(m) /\ Above(n) \subseteq Nat
    <3>1. m \in Nat /\ ~(m > m)
      OBVIOUS
    <3> QED
      BY <3>1
  <2>3. Above(m) \subseteq Above(n)
    <3> SUFFICES ASSUME NEW k \in T, k > m PROVE k > n
      OBVIOUS
    <3> QED
      OBVIOUS
  <2>4. Above(m) # Above(n)
    BY <2>2
  <2> QED
    BY <2>1, <2>2, <2>3, <2>4 DEF StrictSubsetOrdering
<1> QED
  BY <1>6

\* The hits in a queue are finitely many.
LEMMA HitsFinite ==
    ASSUME NEW S, NEW s \in Seq(S), NEW P
    PROVE  IsFiniteSet({i \in DOMAIN s : s[i] \in P}) /\ Hits(s, P) \in Nat
<1>1. IsFiniteSet(1..Len(s))
  BY FS_Interval
<1>2. {i \in DOMAIN s : s[i] \in P} \in SUBSET (1..Len(s))
  OBVIOUS
<1>3. IsFiniteSet({i \in DOMAIN s : s[i] \in P})
  BY <1>1, <1>2, FS_Subset
<1> QED
  BY <1>3, FS_CardinalityType DEF Hits

\* A queue without any has none.
LEMMA HitsNone ==
    ASSUME NEW s, NEW P, \A i \in DOMAIN s : s[i] \notin P
    PROVE  Hits(s, P) = 0
<1>1. {i \in DOMAIN s : s[i] \in P} = {}
  OBVIOUS
<1> QED
  BY <1>1, FS_EmptySet DEF Hits

\* One more at the end.
LEMMA HitsAppend ==
    ASSUME NEW S, NEW s \in Seq(S), NEW e \in S, NEW P
    PROVE  Hits(Append(s, e), P) = Hits(s, P) + (IF e \in P THEN 1 ELSE 0)
<1> DEFINE D == {i \in DOMAIN s : s[i] \in P}
           E == {i \in DOMAIN Append(s, e) : Append(s, e)[i] \in P}
<1>1. IsFiniteSet(D) /\ Cardinality(D) \in Nat
  BY HitsFinite DEF Hits
<1>2. Len(s) + 1 \notin D
  OBVIOUS
<1>3. CASE e \in P
  <2>1. E = D \cup {Len(s) + 1}
    BY <1>3
  <2> HIDE DEF D, E
  <2>2. Cardinality(E) = Cardinality(D) + 1
    BY <1>1, <1>2, <2>1, FS_AddElement
  <2>3. Hits(Append(s, e), P) = Cardinality(E) /\ Hits(s, P) = Cardinality(D)
    BY DEF Hits, D, E
  <2> QED
    BY <1>3, <2>2, <2>3
<1>4. CASE e \notin P
  <2>1. E = D
    BY <1>4
  <2>2. Hits(Append(s, e), P) = Cardinality(E) /\ Hits(s, P) = Cardinality(D)
    BY DEF Hits
  <2> HIDE DEF D, E
  <2> QED
    BY <1>1, <1>4, <2>1, <2>2
<1> QED
  BY <1>3, <1>4

\* One less in front.
LEMMA HitsTail ==
    ASSUME NEW S, NEW s \in Seq(S), s # <<>>, NEW P
    PROVE  Hits(Tail(s), P) = Hits(s, P) - (IF Head(s) \in P THEN 1 ELSE 0)
<1> DEFINE D == {i \in DOMAIN s : s[i] \in P}
           E == {i \in DOMAIN Tail(s) : Tail(s)[i] \in P}
           f == [i \in E |-> i + 1]
<1>1. IsFiniteSet(D) /\ Cardinality(D) \in Nat
  BY HitsFinite DEF Hits
<1>2. IsFiniteSet(D \ {1})
      /\ Cardinality(D \ {1}) = IF 1 \in D THEN Cardinality(D) - 1 ELSE Cardinality(D)
  <2> HIDE DEF D
  <2> QED
    BY <1>1, FS_RemoveElement
<1>3. \A i \in E : i + 1 \in D \ {1}
  OBVIOUS
<1>4. \A j \in D \ {1} : j - 1 \in E /\ (j - 1) + 1 = j
  OBVIOUS
<1>5. IsFiniteSet(E)
  <2>1. Tail(s) \in Seq(S)
    OBVIOUS
  <2> QED
    BY <2>1, HitsFinite
<1>6. f \in Bijection(E, D \ {1})
  <2>1. f \in [E -> D \ {1}]
    BY <1>3
  <2>2. \A a, b \in E : f[a] = f[b] => a = b
    OBVIOUS
  <2>3. \A j \in D \ {1} : \E a \in E : f[a] = j
    BY <1>4
  <2> HIDE DEF D, E, f
  <2> QED
    BY <2>1, <2>2, <2>3 DEF Bijection, Injection, Surjection, IsInjective
<1>7. Cardinality(E) = Cardinality(D \ {1})
  <2> HIDE DEF D, E, f
  <2> QED
    BY <1>5, <1>6, FS_Bijection DEF ExistsBijection
<1>8. 1 \in D <=> Head(s) \in P
  OBVIOUS
<1>9. Hits(Tail(s), P) = Cardinality(E) /\ Hits(s, P) = Cardinality(D)
  BY DEF Hits
<1> HIDE DEF D, E
<1> QED
  BY <1>1, <1>2, <1>7, <1>8, <1>9

-----------------------------------------------------------------------------
\* The peer is the other one of the two participants.
LEMMA TwoUsers ==
    \A u \in Users : /\ Other(u) \in Users /\ Other(u) # u /\ Other(Other(u)) = u
                     /\ \A v \in Users : v = u \/ v = Other(u)
<1>1. \A u \in Users : \E s : Users \ {u} = {s}
  <2> TAKE u \in Users
  <2>1. IsFiniteSet(Users \ {u}) /\ Cardinality(Users \ {u}) = 1
    BY DeletionConstants, FS_RemoveElement
  <2> QED BY <2>1, FS_Singleton
<1>2. \A u \in Users : Other(u) \in Users /\ Other(u) # u
  BY <1>1 DEF Other
<1>3. \A u, v \in Users : v = u \/ v = Other(u)
  BY <1>1, <1>2
<1> QED BY <1>2, <1>3

\* Packets of different kinds differ, and a message has one id.
LEMMA PacketKinds ==
    /\ \A i, j : Message(i) = Message(j) => i = j
    /\ \A i : Message(i) # Delete /\ Message(i) # LoginAck
    /\ \A i, c : Message(i) # Sync(c)
    /\ \A c, d : Sync(c) = Sync(d) => c = d
    /\ \A c : Sync(c) # Delete
    /\ Delete # LoginAck
<1>1. /\ \A i : Message(i).kind = "message" /\ Message(i).id = i
      /\ \A c : Sync(c).kind = "sync" /\ Sync(c).cursor = c
      /\ Delete.kind = "delete" /\ LoginAck.kind = "ack"
  BY DEF Message, Sync, Delete, LoginAck
<1> QED BY <1>1

\* What is on a connection.
LEMMA PacketTypes ==
    /\ LoginAck \in ToClient /\ Delete \in ToClient /\ Delete \in ToServer
    /\ \A i \in Nat : Message(i) \in ToClient /\ Message(i) \in ToServer
    /\ \A c \in Nat : Sync(c) \in ToServer
BY DEF ToClient, ToServer

\* The newest of a set of messages.
LEMMA MaxFound ==
    ASSUME NEW n \in Nat, NEW S, S \subseteq 0..n, S # {}
    PROVE  Max(S) \in S /\ \A i \in S : i <= Max(S)
<1>1. IsFiniteSet(0..n)
  BY FS_Interval
<1>2. IsFiniteSet(S) /\ S \in SUBSET Nat
  <2>1. \A x \in 0..n : x \in Nat
    OBVIOUS
  <2>2. S \in SUBSET Nat
    BY <2>1
  <2> QED BY <1>1, <2>2, FS_Subset
<1>3. \E x \in S : \A y \in S : y <= x
  BY <1>2, GreatestNatural
<1>4. Max(S) = CHOOSE x \in S : \A y \in S : x >= y
  BY DEF Max
<1>5. \E x \in S : \A y \in S : x >= y
  BY <1>2, <1>3
<1>6. Max(S) \in S /\ \A y \in S : Max(S) >= y
  BY <1>4, <1>5
<1> QED BY <1>2, <1>6

\* All of S in a list.
Lists(s, S) ==
    /\ s \in Seq(Nat)
    /\ \A k \in DOMAIN s : s[k] \in S
    /\ \A x \in S : \E k \in DOMAIN s : s[k] = x

\* What a SELECT returns is all of what it selects.
LEMMA Selected ==
    ASSUME NEW n \in Nat, NEW S, S \subseteq 1..n, NEW s \in [1..Cardinality(S) -> S],
           \A i, j \in DOMAIN s : i < j => s[i] < s[j]
    PROVE  Lists(s, S)
<1>0. IsFiniteSet(1..n)
  BY FS_Interval
<1>1. IsFiniteSet(S)
  BY <1>0, FS_Subset
<1>n. S \subseteq Nat
  <2>1. \A x \in 1..n : x \in Nat
    OBVIOUS
  <2> QED BY <2>1
<1>2. PICK m \in Nat : m = Cardinality(S)
  BY <1>1, FS_CardinalityType
<1>3. s \in [1..m -> S] /\ DOMAIN s = 1..m
  BY <1>2
<1>4. \A i, j \in 1..m : i # j => s[i] # s[j]
  <2> SUFFICES ASSUME NEW i \in 1..m, NEW j \in 1..m, i # j PROVE s[i] # s[j]
    OBVIOUS
  <2>1. i < j \/ j < i
    OBVIOUS
  <2>2. s[i] \in Nat /\ s[j] \in Nat
    BY <1>3, <1>n
  <2> QED BY <1>3, <2>1, <2>2
<1>5. s \in Injection(1..m, S)
  BY <1>3, <1>4 DEF Injection, IsInjective
<1>6. Cardinality(1..m) = m
  BY FS_Interval
<1>7. s \in Surjection(1..m, S)
  BY <1>1, <1>2, <1>5, <1>6, FS_Injection
<1>8. \A x \in S : \E i \in 1..m : s[i] = x
  BY <1>7 DEF Surjection
<1>9. s \in Seq(Nat)
  <2>1. s \in [1..m -> Nat]
    BY <1>3, <1>n
  <2> QED BY <2>1
<1> QED BY <1>3, <1>8, <1>9 DEF Lists

-----------------------------------------------------------------------------
(***************************************************************************)
(* Queues of packets: one is added, or one is taken.                       *)
(***************************************************************************)
Grown(s, t, p) ==
    /\ Len(s) \in Nat
    /\ \A k \in DOMAIN s : k \in Nat /\ k \in DOMAIN t /\ t[k] = s[k] /\ k < Len(s) + 1
    /\ Len(s) + 1 \in DOMAIN t /\ t[Len(s) + 1] = p
    /\ \A k \in DOMAIN t : k \in DOMAIN s \/ k = Len(s) + 1

Shrunk(s, t) ==
    /\ \A k \in DOMAIN s : k \in Nat /\ (k = 1 \/ (k - 1 \in DOMAIN t /\ t[k - 1] = s[k]))
    /\ \A k \in DOMAIN t : k \in Nat /\ k + 1 \in DOMAIN s /\ t[k] = s[k + 1] /\ k >= 1
    /\ 1 \in DOMAIN s /\ Head(s) = s[1]

\* Append adds one.
LEMMA AppendGrows ==
    ASSUME NEW T, NEW s \in Seq(T), NEW p \in T
    PROVE  Append(s, p) \in Seq(T) /\ Grown(s, Append(s, p), p)
BY DEF Grown

\* Tail takes one.
LEMMA TailShrinks ==
    ASSUME NEW T, NEW s \in Seq(T), s # <<>>
    PROVE  Tail(s) \in Seq(T) /\ Shrunk(s, Tail(s)) /\ Head(s) \in T
BY DEF Shrunk

\* Every element of t is one of s.
Within(t, s) == \A k \in DOMAIN t : \E j \in DOMAIN s : t[k] = s[j]

\* Nothing is new in what is left.
LEMMA ShrunkWithin == ASSUME NEW s, NEW t, Shrunk(s, t) PROVE Within(t, s)
BY DEF Shrunk, Within

\* A packet is sent to v, if his socket still lives.
Sent(v, p) ==
    /\ inbox' \in [Users -> Seq(ToClient)]
    /\ \A w \in Users \ {v} : inbox'[w] = inbox[w]
    /\ ~online[v] => inbox'[v] = inbox[v]
    /\ online[v] => Grown(inbox[v], inbox'[v], p)

\* That is what Delivered does.
LEMMA DeliveredSent ==
    ASSUME Wires, NEW v \in Users, NEW p \in ToClient, Delivered(v, <<p>>)
    PROVE  Sent(v, p)
<1>1. inbox[v] \in Seq(ToClient)
  BY DEF Wires
<1>2. inbox[v] \o <<p>> = Append(inbox[v], p)
  BY <1>1
<1>3. inbox' = [inbox EXCEPT ![v] = IF online[v] THEN Append(inbox[v], p) ELSE inbox[v]]
  BY <1>2 DEF Delivered
<1>4. Append(inbox[v], p) \in Seq(ToClient) /\ Grown(inbox[v], Append(inbox[v], p), p)
  BY <1>1, AppendGrows
<1> QED BY <1>1, <1>3, <1>4 DEF Wires, Sent

\* A client packet is put on its way.
Asks(u, p) ==
    /\ outbox' \in [Users -> Seq(ToServer)]
    /\ \A w \in Users \ {u} : outbox'[w] = outbox[w]
    /\ Grown(outbox[u], outbox'[u], p) /\ outbox'[u] = Append(outbox[u], p)

\* That is what Ask does.
LEMMA AskSent ==
    ASSUME Wires, NEW u \in Users, NEW p \in ToServer, Ask(u, p)
    PROVE  Asks(u, p)
<1>1. outbox[u] \in Seq(ToServer)
  BY DEF Wires
<1>2. Append(outbox[u], p) \in Seq(ToServer) /\ Grown(outbox[u], Append(outbox[u], p), p)
  BY <1>1, AppendGrows
<1> QED BY <1>1, <1>2 DEF Wires, Ask, Asks

-----------------------------------------------------------------------------
(***************************************************************************)
(* The actions by what they do to the queues, one for each case.           *)
(***************************************************************************)
FromGrown(u) ==
    /\ from' \in Seq(Users) /\ Len(from) \in Nat /\ Len(from) + 1 \notin Ids
    /\ DOMAIN from' = Ids \cup {Len(from) + 1} /\ from'[Len(from) + 1] = u
    /\ \A i \in Ids : i \in Nat /\ from'[i] = from[i] /\ i < Len(from) + 1

Writes(u) ==
    /\ Ready(u) /\ FromGrown(u) /\ Asks(u, Message(Len(from) + 1))
    /\ store' = [store EXCEPT ![u] = @ \cup {Len(from) + 1}]
    /\ UNCHANGED <<online, inbox, asked, logins, cursor, thread, reg, tables, history>>

AsksDelete(u) == Forget(u) /\ Asks(u, Delete)

InTaken(u) ==
    /\ online[u] /\ inbox' \in [Users -> Seq(ToClient)]
    /\ \A w \in Users \ {u} : inbox'[w] = inbox[w]
    /\ Shrunk(inbox[u], inbox'[u])
    /\ UNCHANGED <<online, from, asked, logins, thread, reg, tables, hidden, erased, unheard,
                   missed>>

AckRead(u, c) ==
    /\ InTaken(u) /\ inbox[u][1] = LoginAck
    /\ cursor' = [cursor EXCEPT ![u] = c] /\ Asks(u, Sync(c))
    /\ UNCHANGED <<store, crossed>>

MessageRead(u, i) == InTaken(u) /\ inbox[u][1] = Message(i) /\ ReceiveMessage(u, i)

DeleteRead(u) == InTaken(u) /\ inbox[u][1] = Delete /\ ReceiveDelete(u)

PendOnly(u) ==
    pend' \in [Users -> Seq(Nat)] /\ \A w \in Users \ {u} : pend'[w] = pend[w]

PendRead(u, S) ==
    /\ PendOnly(u)
    /\ \A k \in DOMAIN pend'[u] : pend'[u][k] \in S
    /\ \A x \in S : \E k \in DOMAIN pend'[u] : pend'[u][k] = x

PendLess(u) ==
    /\ PendOnly(u)
    /\ \A k \in DOMAIN pend'[u] : \E j \in DOMAIN pend[u] : pend'[u][k] = pend[u][j]

ReadsQueue(u) ==
    /\ pc[u] = "login" /\ PendRead(u, {i \in queue : from[i] # u}) /\ Goto(u, "flush")
    /\ UNCHANGED <<client, cur, batch, cleared, reg, tables, history>>

FlushSent(u, i) ==
    /\ pc[u] = "flush" /\ i \in rows /\ \E j \in DOMAIN pend[u] : pend[u][j] = i
    /\ PendLess(u) /\ Sent(u, Message(i))
    /\ queue' \in {queue, queue \ {i}}
    /\ UNCHANGED <<online, outbox, store, from, asked, logins, cursor, pc, cur, batch, cleared,
                   reg, rows, notes, hidden, erased, crossed, unheard, missed>>

FlushQuiet(u) ==
    /\ pc[u] = "flush" /\ PendLess(u)
    /\ UNCHANGED <<client, pc, cur, batch, cleared, reg, tables, hidden, erased, crossed,
                   unheard, missed>>

SendsNotes(u) ==
    /\ pc[u] = "notes" /\ inbox' \in [Users -> Seq(ToClient)]
    /\ \A w \in Users \ {u} : inbox'[w] = inbox[w]
    /\ ~online[u] => inbox'[u] = inbox[u]
    /\ \A k \in DOMAIN inbox[u] : k \in DOMAIN inbox'[u] /\ inbox'[u][k] = inbox[u][k]
    /\ \A k \in DOMAIN inbox'[u] : k \in DOMAIN inbox[u] \/ inbox'[u][k] = Delete
    /\ online[u] /\ batch[u] > 0 => \E k \in DOMAIN inbox'[u] : inbox'[u][k] = Delete
    /\ unheard' = IF ~online[u] /\ batch[u] > 0 THEN unheard \cup {u} ELSE unheard
    /\ batch' = [batch EXCEPT ![u] = 0] /\ Goto(u, "register")
    /\ UNCHANGED <<online, outbox, store, from, asked, logins, cursor, cur, pend, cleared, reg,
                   tables, hidden, erased, crossed, missed>>

OutTaken(u) ==
    /\ pc[u] = "idle" /\ outbox[u] # <<>> /\ outbox'[u] = Tail(outbox[u])
    /\ outbox' \in [Users -> Seq(ToServer)]
    /\ \A w \in Users \ {u} : outbox'[w] = outbox[w]
    /\ Shrunk(outbox[u], outbox'[u])
    /\ UNCHANGED <<online, inbox, store, from, asked, logins, cursor, pend, batch, cleared, reg,
                   tables, history>>

TakesMessage(u, i) ==
    OutTaken(u) /\ outbox[u][1] = Message(i) /\ cur' = [cur EXCEPT ![u] = i] /\ Goto(u, "save")

TakesSync(u, c) ==
    OutTaken(u) /\ outbox[u][1] = Sync(c) /\ cur' = [cur EXCEPT ![u] = c] /\ Goto(u, "sync")

TakesDelete(u) ==
    OutTaken(u) /\ outbox[u][1] = Delete /\ UNCHANGED cur /\ Goto(u, "purge")

RouteSent(u) ==
    /\ pc[u] = "route" /\ Other(u) \in reg
    /\ Sent(Other(u), Message(cur[u])) /\ Goto(u, "idle")
    /\ UNCHANGED <<online, outbox, store, from, asked, logins, cursor, cur, pend, batch, cleared,
                   reg, tables, history>>

RouteAway(u) ==
    /\ pc[u] = "route" /\ Other(u) \notin reg /\ Goto(u, "reload")
    /\ UNCHANGED <<client, cur, pend, batch, cleared, reg, tables, history>>

ReloadNone(u) ==
    /\ pc[u] = "reload" /\ {i \in rows : from[i] = u} = {} /\ Goto(u, "idle")
    /\ UNCHANGED <<client, cur, pend, batch, cleared, reg, tables, history>>

ReloadFound(u, m) ==
    /\ pc[u] = "reload" /\ m \in rows /\ from[m] = u
    /\ \A i \in rows : from[i] = u => i <= m
    /\ cur' = [cur EXCEPT ![u] = m] /\ Goto(u, "queue")
    /\ UNCHANGED <<client, pend, batch, cleared, reg, tables, history>>

ReadsHistory(u) ==
    /\ pc[u] = "sync" /\ PendRead(u, {i \in rows : i > cur[u]}) /\ Goto(u, "replay")
    /\ UNCHANGED <<client, cur, batch, cleared, reg, tables, history>>

ReplaySent(u, i) ==
    /\ pc[u] = "replay" /\ PendLess(u) /\ Sent(u, Message(i))
    /\ \E j \in DOMAIN pend[u] : pend[u][j] = i
    /\ online[u] => \A j \in DOMAIN pend[u] :
        pend[u][j] = i \/ \E k \in DOMAIN pend'[u] : pend'[u][k] = pend[u][j]
    /\ UNCHANGED <<online, outbox, store, from, asked, logins, cursor, pc, cur, batch, cleared,
                   reg, tables, history>>

ReplayDone(u) ==
    /\ pc[u] = "replay" /\ DOMAIN pend[u] = {} /\ Goto(u, "idle")
    /\ UNCHANGED <<client, cur, pend, batch, cleared, reg, tables, history>>

EraseDone(u) ==
    /\ pc[u] = "erase" /\ cleared' = [cleared EXCEPT ![u] = {}]
    /\ rows' = {} /\ queue' = {} /\ erased' = erased \cup rows
    /\ Goto(u, "notify")
    /\ UNCHANGED <<client, cur, pend, batch, reg, notes, hidden, crossed, unheard, missed>>

EraseFailed(u) ==
    /\ pc[u] = "erase" /\ cleared' = [cleared EXCEPT ![u] = {}] /\ Goto(u, "idle")
    /\ UNCHANGED <<client, cur, pend, batch, reg, tables, history>>

NotifySent(u) ==
    /\ pc[u] = "notify" /\ Other(u) \in reg
    /\ Sent(Other(u), Delete) /\ Goto(u, "idle")
    /\ unheard' = IF online[Other(u)] THEN unheard ELSE unheard \cup {Other(u)}
    /\ UNCHANGED <<online, outbox, store, from, asked, logins, cursor, cur, pend, batch, cleared,
                   reg, tables, hidden, erased, crossed, missed>>

NotifyNote(u) ==
    /\ pc[u] = "notify" /\ Goto(u, "note")
    /\ UNCHANGED <<client, cur, pend, batch, cleared, reg, tables, history>>

\* encryptAndSend adds one message and one packet.
LEMMA WriteCase == ASSUME Shapes, NEW u \in Users, Write(u) PROVE Writes(u)
<1>1. from \in Seq(Users) /\ Len(from) \in Nat
  BY DEF Shapes, Copies
<1>2. from' = Append(from, u)
  BY DEF Write
<1>3. FromGrown(u)
  BY <1>1, <1>2 DEF FromGrown, Ids
<1>4. Message(Len(from) + 1) \in ToServer
  BY <1>1, PacketTypes
<1>5. Asks(u, Message(Len(from) + 1))
  BY <1>4, AskSent DEF Shapes, Write
<1> QED BY <1>3, <1>5 DEF Write, Writes

\* deleteConversationForEveryone adds one packet.
LEMMA DeleteCase == ASSUME Shapes, NEW u \in Users, DeleteForEveryone(u) PROVE AsksDelete(u)
BY AskSent, PacketTypes DEF Shapes, DeleteForEveryone, AsksDelete

\* The newest timestamp is a number.
LEMMA NewestType ==
    ASSUME Shapes, Known, NEW u \in Users
    PROVE  newestTimestamp(u) \in Nat
<1>1. PICK n \in Nat : n = Len(from)
  BY DEF Shapes, Copies
<1>2. Ids = 1..n
  BY <1>1 DEF Shapes, Copies, Ids
<1>3. store[u] \subseteq 1..n
  BY <1>2 DEF Known, Held
<1>4. PICK S : S = store[u] \cup {0}
  OBVIOUS
<1>5. S \subseteq 0..n /\ S # {}
  BY <1>3, <1>4
<1>6. Max(S) \in S
  BY <1>5, MaxFound
<1>7. Max(S) \in 0..n
  BY <1>5, <1>6
<1> QED BY <1>4, <1>7 DEF newestTimestamp

\* A client reads an ACK, a message or a deletion.
LEMMA ReceiveCase ==
    ASSUME Shapes, Known, NEW u \in Users, Receive(u)
    PROVE  \/ \E c \in Nat : AckRead(u, c)
           \/ \E i \in Nat : MessageRead(u, i)
           \/ DeleteRead(u)
<1>1. inbox[u] \in Seq(ToClient) /\ inbox[u] # <<>>
  BY DEF Shapes, Wires, Receive
<1>2. /\ Tail(inbox[u]) \in Seq(ToClient) /\ Shrunk(inbox[u], Tail(inbox[u]))
      /\ Head(inbox[u]) \in ToClient
  BY <1>1, TailShrinks
<1>3. inbox[u][1] = Head(inbox[u])
  BY <1>2 DEF Shrunk
<1>4. inbox' = [inbox EXCEPT ![u] = Tail(inbox[u])]
  BY DEF Receive
<1>5. /\ inbox' \in [Users -> Seq(ToClient)] /\ inbox'[u] = Tail(inbox[u])
      /\ \A w \in Users \ {u} : inbox'[w] = inbox[w]
  BY <1>2, <1>4 DEF Shapes, Wires
<1>6. InTaken(u)
  BY <1>2, <1>5 DEF InTaken, Receive
<1>7. PICK p : p = Head(inbox[u])
  OBVIOUS
<1>8. \/ p = LoginAck /\ ReceiveAck(u)
      \/ p.kind = "message" /\ ReceiveMessage(u, p.id)
      \/ p = Delete /\ ReceiveDelete(u)
  BY <1>7 DEF Receive
<1>9. CASE p = LoginAck /\ ReceiveAck(u)
  <2>1. PICK c \in Nat : c = newestTimestamp(u)
    BY NewestType
  <2>2. Asks(u, Sync(c))
    BY <1>9, <2>1, AskSent, PacketTypes DEF ReceiveAck, Shapes
  <2> QED BY <1>3, <1>6, <1>7, <1>9, <2>1, <2>2 DEF ReceiveAck, AckRead
<1>10. CASE p.kind = "message" /\ ReceiveMessage(u, p.id)
  <2>1. p \in ToClient /\ p # LoginAck /\ p # Delete
    BY <1>2, <1>7, <1>10 DEF LoginAck, Delete
  <2>2. PICK i \in Nat : p = Message(i)
    BY <2>1 DEF ToClient
  <2>3. p.id = i
    BY <2>2 DEF Message
  <2> QED BY <1>3, <1>6, <1>7, <1>10, <2>2, <2>3 DEF MessageRead
<1>11. CASE p = Delete /\ ReceiveDelete(u)
  BY <1>3, <1>6, <1>7, <1>11 DEF DeleteRead
<1> QED BY <1>8, <1>9, <1>10, <1>11

\* A SELECT with ORDER BY reads every row it selects.
LEMMA SelectReads ==
    ASSUME Shapes, NEW u \in Users, NEW S, S \subseteq Ids, Select(u, S)
    PROVE  PendRead(u, S)
<1>1. PICK n \in Nat : n = Len(from)
  BY DEF Shapes, Copies
<1>2. S \subseteq 1..n
  BY <1>1 DEF Shapes, Copies, Ids
<1>3. PICK s \in [1..Cardinality(S) -> S] :
        /\ \A i, j \in DOMAIN s : i < j => s[i] < s[j]
        /\ pend' = [pend EXCEPT ![u] = s]
  BY DEF Select
<1>4. Lists(s, S)
  <2>1. \A i, j \in DOMAIN s : i < j => s[i] < s[j]
    BY <1>3
  <2> QED BY <1>2, <2>1, Selected
<1>5. pend \in [Users -> Seq(Nat)]
  BY DEF Shapes, Threads
<1>6. /\ pend' \in [Users -> Seq(Nat)] /\ pend'[u] = s
      /\ \A w \in Users \ {u} : pend'[w] = pend[w]
  BY <1>3, <1>4, <1>5 DEF Lists
<1> QED BY <1>4, <1>6 DEF PendRead, PendOnly, Lists

\* findUndeliveredByRecipient reads the queue.
LEMMA QueueCase == ASSUME Shapes, NEW u \in Users, ReadQueue(u) PROVE ReadsQueue(u)
<1>1. {i \in queue : from[i] # u} \subseteq Ids
  BY DEF Shapes, Copies
<1>2. PendRead(u, {i \in queue : from[i] # u})
  BY <1>1, SelectReads DEF ReadQueue
<1> QED BY <1>2 DEF ReadQueue, ReadsQueue

\* findAllForUser reads the messages behind the cursor.
LEMMA HistoryCase == ASSUME Shapes, NEW u \in Users, ReadHistory(u) PROVE ReadsHistory(u)
<1>1. {i \in rows : i > cur[u]} \subseteq Ids
  BY DEF Shapes, Copies
<1>2. PendRead(u, {i \in rows : i > cur[u]})
  BY <1>1, SelectReads DEF ReadHistory
<1> QED BY <1>2 DEF ReadHistory, ReadsHistory

\* The rest of a list that was read.
LEMMA PendTail ==
    ASSUME Shapes, NEW u \in Users, pend[u] # <<>>, pend' = [pend EXCEPT ![u] = Tail(pend[u])]
    PROVE  /\ PendLess(u) /\ Head(pend[u]) \in Nat
           /\ \E j \in DOMAIN pend[u] : pend[u][j] = Head(pend[u])
           /\ \A j \in DOMAIN pend[u] : \/ pend[u][j] = Head(pend[u])
                                        \/ \E k \in DOMAIN pend'[u] : pend'[u][k] = pend[u][j]
<1>1. pend \in [Users -> Seq(Nat)] /\ pend[u] \in Seq(Nat)
  BY DEF Shapes, Threads
<1>2. /\ Tail(pend[u]) \in Seq(Nat) /\ Shrunk(pend[u], Tail(pend[u])) /\ Head(pend[u]) \in Nat
  BY <1>1, TailShrinks
<1>3. /\ pend' \in [Users -> Seq(Nat)] /\ pend'[u] = Tail(pend[u])
      /\ \A w \in Users \ {u} : pend'[w] = pend[w]
  BY <1>1, <1>2
<1> QED BY <1>2, <1>3 DEF PendLess, PendOnly, Shrunk

\* The list is given up.
LEMMA PendDropped ==
    ASSUME Shapes, NEW u \in Users, pend' = [pend EXCEPT ![u] = <<>>]
    PROVE  PendLess(u)
<1>1. pend \in [Users -> Seq(Nat)]
  BY DEF Shapes, Threads
<1>2. <<>> \in Seq(Nat) /\ DOMAIN <<>> = {}
  OBVIOUS
<1>3. /\ pend' \in [Users -> Seq(Nat)] /\ pend'[u] = <<>>
      /\ \A w \in Users \ {u} : pend'[w] = pend[w]
  BY <1>1, <1>2
<1> QED BY <1>2, <1>3 DEF PendLess, PendOnly

\* A queue entry is sent, or not.
LEMMA FlushCase ==
    ASSUME Shapes, NEW u \in Users, Flush(u)
    PROVE  FlushQuiet(u) \/ \E i \in Nat : FlushSent(u, i)
<1>1. PICK i : i = Head(pend[u])
  OBVIOUS
<1>2. pend[u] # <<>>
  BY DEF Flush
<1>3. CASE /\ i \in rows /\ Delivered(u, <<Message(i)>>) /\ queue' = queue \ {i}
           /\ pend' = [pend EXCEPT ![u] = Tail(@)]
  <2>1. pend' = [pend EXCEPT ![u] = Tail(pend[u])]
    BY <1>3
  <2>2. /\ PendLess(u) /\ i \in Nat
        /\ \E j \in DOMAIN pend[u] : pend[u][j] = i
    BY <1>1, <1>2, <2>1, PendTail
  <2>3. Sent(u, Message(i))
    BY <1>3, <2>2, DeliveredSent, PacketTypes DEF Shapes
  <2>4. FlushSent(u, i)
    BY <1>3, <2>2, <2>3 DEF Flush, FlushSent, history
  <2> QED BY <2>2, <2>4
<1>4. CASE pend' = [pend EXCEPT ![u] = Tail(@)] /\ UNCHANGED <<inbox, queue>>
  <2>1. pend' = [pend EXCEPT ![u] = Tail(pend[u])]
    BY <1>4
  <2>2. PendLess(u)
    BY <1>2, <2>1, PendTail
  <2> QED BY <1>4, <2>2 DEF Flush, FlushQuiet, client, tables, history
<1>5. CASE pend' = [pend EXCEPT ![u] = <<>>] /\ UNCHANGED <<inbox, queue>>
  <2>1. PendLess(u)
    BY <1>5, PendDropped
  <2> QED BY <1>5, <2>1 DEF Flush, FlushQuiet, client, tables, history
<1> QED BY <1>1, <1>3, <1>4, <1>5 DEF Flush

\* An entry whose statement fails stays in the queue, sent or not.
LEMMA FlushFailsCase ==
    ASSUME Shapes, NEW u \in Users, FlushFails(u)
    PROVE  FlushQuiet(u) \/ \E i \in Nat : FlushSent(u, i)
<1>1. PICK i : i = Head(pend[u])
  OBVIOUS
<1>2. pend[u] # <<>> /\ pend' = [pend EXCEPT ![u] = Tail(pend[u])]
  BY DEF FlushFails
<1>3. /\ PendLess(u) /\ i \in Nat
      /\ \E j \in DOMAIN pend[u] : pend[u][j] = i
  BY <1>1, <1>2, PendTail
<1>4. CASE i \in rows /\ Delivered(u, <<Message(i)>>)
  <2>1. Sent(u, Message(i))
    BY <1>3, <1>4, DeliveredSent, PacketTypes DEF Shapes
  <2>2. FlushSent(u, i)
    BY <1>3, <1>4, <2>1 DEF FlushFails, FlushSent, tables
  <2> QED BY <1>3, <2>2
<1>5. CASE UNCHANGED inbox
  BY <1>3, <1>5 DEF FlushFails, FlushQuiet, client, tables
<1> QED BY <1>1, <1>4, <1>5 DEF FlushFails

\* The notifications are put behind what is on the connection.
LEMMA NotesCase == ASSUME Shapes, NEW u \in Users, SendNotes(u) PROVE SendsNotes(u)
<1>1. PICK s \in Seq(ToClient) : s = inbox[u]
  BY DEF Shapes, Wires
<1>2. PICK n \in Nat : n = batch[u]
  BY DEF Shapes, Counters
<1>3. PICK t : t = [k \in 1..n |-> Delete]
  OBVIOUS
<1>4. /\ t \in Seq(ToClient) /\ Len(t) = n /\ DOMAIN t = 1..n
      /\ \A k \in 1..n : t[k] = Delete
  <2>1. t \in [1..n -> ToClient]
    BY <1>3, PacketTypes
  <2> QED BY <1>3, <2>1
<1>5. /\ s \o t \in Seq(ToClient) /\ Len(s \o t) = Len(s) + n
      /\ \A k \in 1..(Len(s) + n) : (s \o t)[k] = IF k <= Len(s) THEN s[k] ELSE t[k - Len(s)]
  BY <1>4, ConcatProperties
<1>6. PICK r : r = s \o t
  OBVIOUS
<1>7. /\ DOMAIN s = 1..Len(s) /\ Len(s) \in Nat
      /\ r \in Seq(ToClient) /\ DOMAIN r = 1..(Len(s) + n)
  BY <1>5, <1>6
<1>8. /\ \A k \in DOMAIN s : k \in DOMAIN r /\ r[k] = s[k]
      /\ \A k \in DOMAIN r : k \in DOMAIN s \/ r[k] = Delete
  <2>1. \A k \in DOMAIN s : k \in DOMAIN r /\ r[k] = s[k]
    BY <1>5, <1>6, <1>7
  <2>2. ASSUME NEW k \in DOMAIN r, k \notin DOMAIN s PROVE r[k] = Delete
    <3>1. k \in 1..(Len(s) + n) /\ ~(k <= Len(s)) /\ k - Len(s) \in 1..n
      BY <2>2, <1>7
    <3>2. r[k] = t[k - Len(s)]
      BY <3>1, <1>5, <1>6
    <3> QED BY <3>1, <3>2, <1>4
  <2> QED BY <2>1, <2>2
<1>9. n > 0 => \E k \in DOMAIN r : r[k] = Delete
  <2> SUFFICES ASSUME n > 0 PROVE \E k \in DOMAIN r : r[k] = Delete
    OBVIOUS
  <2>1. Len(s) + 1 \in DOMAIN r /\ Len(s) + 1 \notin DOMAIN s
    BY <1>7
  <2> QED BY <1>8, <2>1
<1>10. inbox' = [inbox EXCEPT ![u] = IF online[u] THEN r ELSE inbox[u]]
  BY <1>1, <1>2, <1>3, <1>6 DEF SendNotes, Delivered
<1>11. /\ inbox' \in [Users -> Seq(ToClient)]
       /\ \A w \in Users \ {u} : inbox'[w] = inbox[w]
       /\ inbox'[u] = IF online[u] THEN r ELSE s
  BY <1>1, <1>7, <1>10 DEF Shapes, Wires
<1>12. /\ \A k \in DOMAIN inbox[u] : k \in DOMAIN inbox'[u] /\ inbox'[u][k] = inbox[u][k]
       /\ \A k \in DOMAIN inbox'[u] : k \in DOMAIN inbox[u] \/ inbox'[u][k] = Delete
       /\ ~online[u] => inbox'[u] = inbox[u]
  BY <1>1, <1>8, <1>11
<1>13. online[u] /\ batch[u] > 0 => \E k \in DOMAIN inbox'[u] : inbox'[u][k] = Delete
  BY <1>2, <1>9, <1>11
<1> QED BY <1>11, <1>12, <1>13 DEF SendNotes, SendsNotes

\* A thread takes the packet in front.
LEMMA TakeCase ==
    ASSUME Shapes, NEW u \in Users, Take(u)
    PROVE  \/ \E i \in Nat : TakesMessage(u, i)
           \/ \E c \in Nat : TakesSync(u, c)
           \/ TakesDelete(u)
<1>1. outbox[u] \in Seq(ToServer) /\ outbox[u] # <<>>
  BY DEF Shapes, Wires, Take
<1>2. /\ Tail(outbox[u]) \in Seq(ToServer) /\ Shrunk(outbox[u], Tail(outbox[u]))
      /\ Head(outbox[u]) \in ToServer
  BY <1>1, TailShrinks
<1>3. outbox[u][1] = Head(outbox[u])
  BY <1>2 DEF Shrunk
<1>4. outbox' = [outbox EXCEPT ![u] = Tail(outbox[u])]
  BY DEF Take
<1>5. /\ outbox' \in [Users -> Seq(ToServer)] /\ outbox'[u] = Tail(outbox[u])
      /\ \A w \in Users \ {u} : outbox'[w] = outbox[w]
  BY <1>2, <1>4 DEF Shapes, Wires
<1>6. OutTaken(u)
  BY <1>1, <1>2, <1>5 DEF OutTaken, Take
<1>7. PICK p : p = Head(outbox[u])
  OBVIOUS
<1>8. \/ p.kind = "message" /\ cur' = [cur EXCEPT ![u] = p.id] /\ Goto(u, "save")
      \/ p.kind = "sync" /\ cur' = [cur EXCEPT ![u] = p.cursor] /\ Goto(u, "sync")
      \/ p = Delete /\ UNCHANGED cur /\ Goto(u, "purge")
  BY <1>7 DEF Take
<1>k. /\ \A i : Message(i).kind = "message" /\ Message(i).id = i
      /\ \A c : Sync(c).kind = "sync" /\ Sync(c).cursor = c
      /\ Delete.kind = "delete"
  BY DEF Message, Sync, Delete
<1>9. CASE p.kind = "message" /\ cur' = [cur EXCEPT ![u] = p.id] /\ Goto(u, "save")
  <2>1. PICK i \in Nat : p = Message(i)
    BY <1>2, <1>7, <1>9, <1>k DEF ToServer
  <2> QED BY <1>3, <1>6, <1>7, <1>9, <1>k, <2>1 DEF TakesMessage
<1>10. CASE p.kind = "sync" /\ cur' = [cur EXCEPT ![u] = p.cursor] /\ Goto(u, "sync")
  <2>1. PICK c \in Nat : p = Sync(c)
    BY <1>2, <1>7, <1>10, <1>k DEF ToServer
  <2> QED BY <1>3, <1>6, <1>7, <1>10, <1>k, <2>1 DEF TakesSync
<1>11. CASE p = Delete /\ UNCHANGED cur /\ Goto(u, "purge")
  BY <1>3, <1>6, <1>7, <1>11 DEF TakesDelete
<1> QED BY <1>8, <1>9, <1>10, <1>11

\* A message is sent to a registered recipient.
LEMMA RouteCase ==
    ASSUME Shapes, NEW u \in Users, Route(u)
    PROVE  RouteSent(u) \/ RouteAway(u)
<1>1. CASE Other(u) \in reg
  <2>1. Message(cur[u]) \in ToClient
    BY PacketTypes DEF Shapes, Threads
  <2>2. Sent(Other(u), Message(cur[u]))
    BY <1>1, <2>1, TwoUsers, DeliveredSent DEF Route, Shapes
  <2> QED BY <1>1, <2>2 DEF Route, RouteSent
<1>2. CASE Other(u) \notin reg
  BY <1>2 DEF Route, RouteAway, client
<1> QED BY <1>1, <1>2

\* findByRecipient(...).back() finds the newest message of the author.
LEMMA ReloadCase ==
    ASSUME Shapes, NEW u \in Users, Reload(u)
    PROVE  ReloadNone(u) \/ \E m \in Nat : ReloadFound(u, m)
<1>1. PICK n \in Nat : n = Len(from)
  BY DEF Shapes, Copies
<1>2. PICK S : S = {i \in rows : from[i] = u}
  OBVIOUS
<1>3. S \subseteq 0..n
  BY <1>1, <1>2 DEF Shapes, Copies, Ids
<1>4. CASE S = {}
  BY <1>2, <1>4 DEF Reload, ReloadNone
<1>5. CASE S # {}
  <2>1. Max(S) \in S /\ \A i \in S : i <= Max(S)
    BY <1>3, <1>5, MaxFound
  <2>2. Max(S) \in Nat
    <3>1. Max(S) \in 0..n
      BY <1>3, <2>1
    <3> QED BY <3>1
  <2>3. ReloadFound(u, Max(S))
    BY <1>2, <1>5, <2>1 DEF Reload, ReloadFound
  <2> QED BY <2>2, <2>3
<1> QED BY <1>4, <1>5

\* A message of the history is sent, or the sync is done.
LEMMA ReplayCase ==
    ASSUME Shapes, NEW u \in Users, Replay(u)
    PROVE  ReplayDone(u) \/ \E i \in Nat : ReplaySent(u, i)
<1>1. PICK i : i = Head(pend[u])
  OBVIOUS
<1>2. CASE pend[u] # <<>>
  <2>0. pend[u] \in Seq(Nat)
    BY DEF Shapes, Threads
  <2>1. i \in Nat /\ \E j \in DOMAIN pend[u] : pend[u][j] = i
    BY <1>1, <1>2, <2>0
  <2>2. Sent(u, Message(i))
    BY <1>1, <1>2, <2>1, DeliveredSent, PacketTypes DEF Replay, Shapes
  <2>3. CASE online[u]
    <3>1. pend' = [pend EXCEPT ![u] = Tail(pend[u])]
      BY <1>2, <2>3 DEF Replay
    <3>2. /\ PendLess(u)
          /\ \A j \in DOMAIN pend[u] :
               pend[u][j] = i \/ \E k \in DOMAIN pend'[u] : pend'[u][k] = pend[u][j]
      BY <1>1, <1>2, <3>1, PendTail
    <3> QED BY <1>2, <2>1, <2>2, <3>2 DEF Replay, ReplaySent
  <2>4. CASE ~online[u]
    <3>1. pend' = [pend EXCEPT ![u] = <<>>]
      BY <1>2, <2>4 DEF Replay
    <3>2. PendLess(u)
      BY <3>1, PendDropped
    <3> QED BY <1>2, <2>1, <2>2, <2>4, <3>2 DEF Replay, ReplaySent
  <2> QED BY <2>3, <2>4
<1>3. CASE pend[u] = <<>>
  <2>1. DOMAIN pend[u] = {}
    BY <1>3
  <2> QED BY <1>3, <2>1 DEF Replay, ReplayDone, client
<1> QED BY <1>2, <1>3

\* A deletion is committed, or fails.
LEMMA EraseCase ==
    ASSUME NEW u \in Users, Erase(u)
    PROVE  EraseDone(u) \/ EraseFailed(u)
BY DEF Erase, EraseDone, EraseFailed, tables, history

\* A notification is sent to a registered peer, or is to be queued.
LEMMA NotifyCase ==
    ASSUME Shapes, NEW u \in Users, Notify(u)
    PROVE  NotifySent(u) \/ NotifyNote(u)
<1>1. CASE /\ Other(u) \in reg /\ Delivered(Other(u), <<Delete>>) /\ Goto(u, "idle")
           /\ unheard' = IF online[Other(u)] THEN unheard ELSE unheard \cup {Other(u)}
  <2>1. Sent(Other(u), Delete)
    BY <1>1, TwoUsers, DeliveredSent, PacketTypes DEF Shapes
  <2> QED BY <1>1, <2>1 DEF Notify, NotifySent
<1>2. CASE UNCHANGED <<inbox, unheard>> /\ Goto(u, "note")
  BY <1>2 DEF Notify, NotifyNote, client, history
<1> QED BY <1>1, <1>2 DEF Notify

\* One of the cases above.
Cases(u) ==
    \/ Writes(u)
    \/ DeleteHere(u)
    \/ AsksDelete(u)
    \/ \E c \in Nat : AckRead(u, c)
    \/ \E i \in Nat : MessageRead(u, i)
    \/ DeleteRead(u)
    \/ Disconnect(u)
    \/ Login(u)
    \/ ReadsQueue(u)
    \/ \E i \in Nat : FlushSent(u, i)
    \/ FlushQuiet(u)
    \/ ReadNotes(u)
    \/ ClearNotes(u)
    \/ SendsNotes(u)
    \/ Register(u)
    \/ Leave(u)
    \/ \E i \in Nat : TakesMessage(u, i)
    \/ \E c \in Nat : TakesSync(u, c)
    \/ TakesDelete(u)
    \/ Save(u)
    \/ RouteSent(u)
    \/ RouteAway(u)
    \/ ReloadNone(u)
    \/ \E m \in Nat : ReloadFound(u, m)
    \/ Queue(u)
    \/ ReadsHistory(u)
    \/ \E i \in Nat : ReplaySent(u, i)
    \/ ReplayDone(u)
    \/ Purge(u)
    \/ EraseDone(u)
    \/ EraseFailed(u)
    \/ NotifySent(u)
    \/ NotifyNote(u)
    \/ Note(u)
    \/ Fails(u)
    \/ LoginFails(u)

\* Every step is one of them.
LEMMA StepCases ==
    ASSUME Shapes, Known, Next
    PROVE  Crash \/ \E u \in Users : Cases(u)
<1>1. ASSUME NEW u \in Users, Write(u) PROVE Cases(u)
  BY <1>1, WriteCase DEF Cases
<1>2. ASSUME NEW u \in Users, DeleteHere(u) PROVE Cases(u)
  BY <1>2 DEF Cases
<1>3. ASSUME NEW u \in Users, DeleteForEveryone(u) PROVE Cases(u)
  BY <1>3, DeleteCase DEF Cases
<1>4. ASSUME NEW u \in Users, Receive(u) PROVE Cases(u)
  BY <1>4, ReceiveCase DEF Cases
<1>5. ASSUME NEW u \in Users, Disconnect(u) PROVE Cases(u)
  BY <1>5 DEF Cases
<1>6. ASSUME NEW u \in Users, Login(u) PROVE Cases(u)
  BY <1>6 DEF Cases
<1>7. ASSUME NEW u \in Users, ReadQueue(u) PROVE Cases(u)
  BY <1>7, QueueCase DEF Cases
<1>8. ASSUME NEW u \in Users, Flush(u) PROVE Cases(u)
  BY <1>8, FlushCase DEF Cases
<1>9. ASSUME NEW u \in Users, ReadNotes(u) PROVE Cases(u)
  BY <1>9 DEF Cases
<1>10. ASSUME NEW u \in Users, ClearNotes(u) PROVE Cases(u)
  BY <1>10 DEF Cases
<1>11. ASSUME NEW u \in Users, SendNotes(u) PROVE Cases(u)
  BY <1>11, NotesCase DEF Cases
<1>12. ASSUME NEW u \in Users, Register(u) PROVE Cases(u)
  BY <1>12 DEF Cases
<1>13. ASSUME NEW u \in Users, Leave(u) PROVE Cases(u)
  BY <1>13 DEF Cases
<1>14. ASSUME NEW u \in Users, Take(u) PROVE Cases(u)
  BY <1>14, TakeCase DEF Cases
<1>15. ASSUME NEW u \in Users, Save(u) PROVE Cases(u)
  BY <1>15 DEF Cases
<1>16. ASSUME NEW u \in Users, Route(u) PROVE Cases(u)
  BY <1>16, RouteCase DEF Cases
<1>17. ASSUME NEW u \in Users, Reload(u) PROVE Cases(u)
  BY <1>17, ReloadCase DEF Cases
<1>18. ASSUME NEW u \in Users, Queue(u) PROVE Cases(u)
  BY <1>18 DEF Cases
<1>19. ASSUME NEW u \in Users, ReadHistory(u) PROVE Cases(u)
  BY <1>19, HistoryCase DEF Cases
<1>20. ASSUME NEW u \in Users, Replay(u) PROVE Cases(u)
  BY <1>20, ReplayCase DEF Cases
<1>21. ASSUME NEW u \in Users, Purge(u) PROVE Cases(u)
  BY <1>21 DEF Cases
<1>22. ASSUME NEW u \in Users, Erase(u) PROVE Cases(u)
  BY <1>22, EraseCase DEF Cases
<1>23. ASSUME NEW u \in Users, Notify(u) PROVE Cases(u)
  BY <1>23, NotifyCase DEF Cases
<1>24. ASSUME NEW u \in Users, Note(u) PROVE Cases(u)
  BY <1>24 DEF Cases
<1>25. ASSUME NEW u \in Users, Fails(u) PROVE Cases(u)
  BY <1>25 DEF Cases
<1>26. ASSUME NEW u \in Users, FlushFails(u) PROVE Cases(u)
  BY <1>26, FlushFailsCase DEF Cases
<1>27. ASSUME NEW u \in Users, LoginFails(u) PROVE Cases(u)
  BY <1>27 DEF Cases
<1> QED BY <1>1, <1>2, <1>3, <1>4, <1>5, <1>6, <1>7, <1>8, <1>9, <1>10, <1>11, <1>12, <1>13,
   <1>14, <1>15, <1>16, <1>17, <1>18, <1>19, <1>20, <1>21, <1>22, <1>23, <1>24, <1>25, <1>26,
   <1>27 DEF Next, Step

-----------------------------------------------------------------------------
(***************************************************************************)
(* Types.                                                                  *)
(***************************************************************************)
\* Connections carry packets.
LEMMA WiresStep ==
    ASSUME Typed, [Next]_vars
    PROVE  Wires'
<1>t. Wires /\ Threads /\ Counters /\ Copies /\ Held /\ Carried /\ Listed
      /\ Outgoing /\ Handled /\ Flushed /\ Phases
  BY DEF Typed, Shapes, Known, Authors
<1>1. ASSUME NEW u \in Users, Writes(u) PROVE Wires'
  BY <1>1, <1>t DEF Writes, Asks, thread, tables, history, Wires
<1>2. ASSUME NEW u \in Users, DeleteHere(u) PROVE Wires'
  BY <1>2, <1>t DEF DeleteHere, Forget, thread, tables, Wires
<1>3. ASSUME NEW u \in Users, AsksDelete(u) PROVE Wires'
  BY <1>3, <1>t DEF AsksDelete, Forget, Asks, thread, tables, Wires
<1>4. ASSUME NEW u \in Users, NEW c \in Nat, AckRead(u, c) PROVE Wires'
  BY <1>4, <1>t DEF AckRead, InTaken, Asks, thread, tables, Wires
<1>5. ASSUME NEW u \in Users, NEW i \in Nat, MessageRead(u, i) PROVE Wires'
  BY <1>5, <1>t DEF MessageRead, InTaken, ReceiveMessage, thread, tables, Wires
<1>6. ASSUME NEW u \in Users, DeleteRead(u) PROVE Wires'
  BY <1>6, <1>t DEF DeleteRead, InTaken, ReceiveDelete, thread, tables, Wires
<1>7. ASSUME NEW u \in Users, Disconnect(u) PROVE Wires'
  <2>0. <<>> \in Seq(ToClient) /\ <<>> \in Seq(ToServer) /\ <<LoginAck>> \in Seq(ToClient)
    BY PacketTypes
  <2> QED BY <1>7, <1>t, <2>0 DEF Disconnect, thread, tables, Wires
<1>8. ASSUME NEW u \in Users, Login(u) PROVE Wires'
  <2>0. <<>> \in Seq(ToClient) /\ <<>> \in Seq(ToServer) /\ <<LoginAck>> \in Seq(ToClient)
    BY PacketTypes
  <2> QED BY <1>8, <1>t, <2>0 DEF Login, tables, history, Wires
<1>9. ASSUME NEW u \in Users, ReadsQueue(u) PROVE Wires'
  BY <1>9, <1>t DEF ReadsQueue, client, tables, history, Wires
<1>10. ASSUME NEW u \in Users, NEW i \in Nat, FlushSent(u, i) PROVE Wires'
  BY <1>10, <1>t DEF FlushSent, Sent, Wires
<1>11. ASSUME NEW u \in Users, FlushQuiet(u) PROVE Wires'
  BY <1>11, <1>t DEF FlushQuiet, client, tables, history, Wires
<1>12. ASSUME NEW u \in Users, ReadNotes(u) PROVE Wires'
  BY <1>12, <1>t DEF ReadNotes, client, tables, history, Wires
<1>13. ASSUME NEW u \in Users, ClearNotes(u) PROVE Wires'
  BY <1>13, <1>t DEF ClearNotes, client, Wires
<1>14. ASSUME NEW u \in Users, SendsNotes(u) PROVE Wires'
  BY <1>14, <1>t DEF SendsNotes, tables, Wires
<1>15. ASSUME NEW u \in Users, Register(u) PROVE Wires'
  BY <1>15, <1>t DEF Register, client, tables, history, Wires
<1>16. ASSUME NEW u \in Users, Leave(u) PROVE Wires'
  BY <1>16, <1>t DEF Leave, client, tables, history, Wires
<1>17. ASSUME NEW u \in Users, NEW i \in Nat, TakesMessage(u, i) PROVE Wires'
  BY <1>17, <1>t DEF TakesMessage, OutTaken, tables, history, Wires
<1>18. ASSUME NEW u \in Users, NEW c \in Nat, TakesSync(u, c) PROVE Wires'
  BY <1>18, <1>t DEF TakesSync, OutTaken, tables, history, Wires
<1>19. ASSUME NEW u \in Users, TakesDelete(u) PROVE Wires'
  BY <1>19, <1>t DEF TakesDelete, OutTaken, tables, history, Wires
<1>20. ASSUME NEW u \in Users, Save(u) PROVE Wires'
  BY <1>20, <1>t DEF Save, client, history, Wires
<1>21. ASSUME NEW u \in Users, RouteSent(u) PROVE Wires'
  BY <1>21, <1>t DEF RouteSent, Sent, tables, history, Wires
<1>22. ASSUME NEW u \in Users, RouteAway(u) PROVE Wires'
  BY <1>22, <1>t DEF RouteAway, client, tables, history, Wires
<1>23. ASSUME NEW u \in Users, ReloadNone(u) PROVE Wires'
  BY <1>23, <1>t DEF ReloadNone, client, tables, history, Wires
<1>24. ASSUME NEW u \in Users, NEW m \in Nat, ReloadFound(u, m) PROVE Wires'
  BY <1>24, <1>t DEF ReloadFound, client, tables, history, Wires
<1>25. ASSUME NEW u \in Users, Queue(u) PROVE Wires'
  BY <1>25, <1>t DEF Queue, client, history, Wires
<1>26. ASSUME NEW u \in Users, ReadsHistory(u) PROVE Wires'
  BY <1>26, <1>t DEF ReadsHistory, client, tables, history, Wires
<1>27. ASSUME NEW u \in Users, NEW i \in Nat, ReplaySent(u, i) PROVE Wires'
  BY <1>27, <1>t DEF ReplaySent, Sent, tables, history, Wires
<1>28. ASSUME NEW u \in Users, ReplayDone(u) PROVE Wires'
  BY <1>28, <1>t DEF ReplayDone, client, tables, history, Wires
<1>29. ASSUME NEW u \in Users, Purge(u) PROVE Wires'
  BY <1>29, <1>t DEF Purge, client, tables, history, Wires
<1>30. ASSUME NEW u \in Users, EraseDone(u) PROVE Wires'
  BY <1>30, <1>t DEF EraseDone, client, Wires
<1>31. ASSUME NEW u \in Users, EraseFailed(u) PROVE Wires'
  BY <1>31, <1>t DEF EraseFailed, client, tables, history, Wires
<1>32. ASSUME NEW u \in Users, NotifySent(u) PROVE Wires'
  BY <1>32, <1>t DEF NotifySent, Sent, tables, Wires
<1>33. ASSUME NEW u \in Users, NotifyNote(u) PROVE Wires'
  BY <1>33, <1>t DEF NotifyNote, client, tables, history, Wires
<1>34. ASSUME NEW u \in Users, Note(u) PROVE Wires'
  BY <1>34, <1>t DEF Note, client, history, Wires
<1>35. CASE UNCHANGED vars
  BY <1>35, <1>t DEF vars, client, thread, tables, history, Wires
<1>36. ASSUME NEW u \in Users, Fails(u) PROVE Wires'
  BY <1>36, <1>t DEF Fails, client, tables, history, Wires
<1>37. ASSUME Crash PROVE Wires'
  BY <1>37, <1>t, TwoUsers DEF Crash, tables, Wires
<1>38. ASSUME NEW u \in Users, LoginFails(u) PROVE Wires'
  BY <1>38, <1>t DEF LoginFails, client, Wires
<1> QED BY <1>1, <1>2, <1>3, <1>4, <1>5, <1>6, <1>7, <1>8, <1>9, <1>10, <1>11, <1>12, <1>13,
   <1>14, <1>15, <1>16, <1>17, <1>18, <1>19, <1>20, <1>21, <1>22, <1>23, <1>24, <1>25, <1>26,
   <1>27, <1>28, <1>29, <1>30, <1>31, <1>32, <1>33, <1>34, <1>35, <1>36,
   <1>37, <1>38, StepCases DEF Cases, Typed

\* Threads have their types.
LEMMA ThreadsStep ==
    ASSUME Typed, [Next]_vars
    PROVE  Threads'
<1>t. Wires /\ Threads /\ Counters /\ Copies /\ Held /\ Carried /\ Listed
      /\ Outgoing /\ Handled /\ Flushed /\ Phases
  BY DEF Typed, Shapes, Known, Authors
<1>1. ASSUME NEW u \in Users, Writes(u) PROVE Threads'
  BY <1>1, <1>t DEF Writes, thread, tables, history, Threads, Labels, Arriving
<1>2. ASSUME NEW u \in Users, DeleteHere(u) PROVE Threads'
  BY <1>2, <1>t DEF DeleteHere, Forget, thread, tables, Threads, Labels, Arriving
<1>3. ASSUME NEW u \in Users, AsksDelete(u) PROVE Threads'
  BY <1>3, <1>t DEF AsksDelete, Forget, thread, tables, Threads, Labels, Arriving
<1>4. ASSUME NEW u \in Users, NEW c \in Nat, AckRead(u, c) PROVE Threads'
  BY <1>4, <1>t DEF AckRead, InTaken, thread, tables, Threads, Labels, Arriving
<1>5. ASSUME NEW u \in Users, NEW i \in Nat, MessageRead(u, i) PROVE Threads'
  BY <1>5, <1>t DEF MessageRead, InTaken, ReceiveMessage, thread, tables, Threads, Labels,
     Arriving
<1>6. ASSUME NEW u \in Users, DeleteRead(u) PROVE Threads'
  BY <1>6, <1>t DEF DeleteRead, InTaken, ReceiveDelete, thread, tables, Threads, Labels,
     Arriving
<1>7. ASSUME NEW u \in Users, Disconnect(u) PROVE Threads'
  BY <1>7, <1>t DEF Disconnect, thread, tables, Threads, Labels, Arriving
<1>8. ASSUME NEW u \in Users, Login(u) PROVE Threads'
  BY <1>8, <1>t DEF Login, Goto, tables, history, Threads, Labels, Arriving
<1>9. ASSUME NEW u \in Users, ReadsQueue(u) PROVE Threads'
  BY <1>9, <1>t DEF ReadsQueue, PendRead, PendOnly, Goto, client, tables, history, Threads,
     Labels, Arriving
<1>10. ASSUME NEW u \in Users, NEW i \in Nat, FlushSent(u, i) PROVE Threads'
  BY <1>10, <1>t DEF FlushSent, PendLess, PendOnly, Threads, Labels, Arriving
<1>11. ASSUME NEW u \in Users, FlushQuiet(u) PROVE Threads'
  BY <1>11, <1>t DEF FlushQuiet, PendLess, PendOnly, client, tables, history, Threads, Labels,
     Arriving
<1>12. ASSUME NEW u \in Users, ReadNotes(u) PROVE Threads'
  BY <1>12, <1>t DEF ReadNotes, Goto, client, tables, history, Threads, Labels, Arriving
<1>13. ASSUME NEW u \in Users, ClearNotes(u) PROVE Threads'
  BY <1>13, <1>t DEF ClearNotes, Goto, client, Threads, Labels, Arriving
<1>14. ASSUME NEW u \in Users, SendsNotes(u) PROVE Threads'
  BY <1>14, <1>t DEF SendsNotes, Goto, tables, Threads, Labels, Arriving
<1>15. ASSUME NEW u \in Users, Register(u) PROVE Threads'
  BY <1>15, <1>t DEF Register, Goto, client, tables, history, Threads, Labels, Arriving
<1>16. ASSUME NEW u \in Users, Leave(u) PROVE Threads'
  BY <1>16, <1>t DEF Leave, Goto, client, tables, history, Threads, Labels, Arriving
<1>17. ASSUME NEW u \in Users, NEW i \in Nat, TakesMessage(u, i) PROVE Threads'
  BY <1>17, <1>t DEF TakesMessage, OutTaken, Goto, tables, history, Threads, Labels, Arriving
<1>18. ASSUME NEW u \in Users, NEW c \in Nat, TakesSync(u, c) PROVE Threads'
  BY <1>18, <1>t DEF TakesSync, OutTaken, Goto, tables, history, Threads, Labels, Arriving
<1>19. ASSUME NEW u \in Users, TakesDelete(u) PROVE Threads'
  BY <1>19, <1>t DEF TakesDelete, OutTaken, Goto, tables, history, Threads, Labels, Arriving
<1>20. ASSUME NEW u \in Users, Save(u) PROVE Threads'
  BY <1>20, <1>t DEF Save, Goto, client, history, Threads, Labels, Arriving
<1>21. ASSUME NEW u \in Users, RouteSent(u) PROVE Threads'
  BY <1>21, <1>t DEF RouteSent, Goto, tables, history, Threads, Labels, Arriving
<1>22. ASSUME NEW u \in Users, RouteAway(u) PROVE Threads'
  BY <1>22, <1>t DEF RouteAway, Goto, client, tables, history, Threads, Labels, Arriving
<1>23. ASSUME NEW u \in Users, ReloadNone(u) PROVE Threads'
  BY <1>23, <1>t DEF ReloadNone, Goto, client, tables, history, Threads, Labels, Arriving
<1>24. ASSUME NEW u \in Users, NEW m \in Nat, ReloadFound(u, m) PROVE Threads'
  BY <1>24, <1>t DEF ReloadFound, Goto, client, tables, history, Threads, Labels, Arriving
<1>25. ASSUME NEW u \in Users, Queue(u) PROVE Threads'
  BY <1>25, <1>t DEF Queue, Goto, client, history, Threads, Labels, Arriving
<1>26. ASSUME NEW u \in Users, ReadsHistory(u) PROVE Threads'
  BY <1>26, <1>t DEF ReadsHistory, PendRead, PendOnly, Goto, client, tables, history, Threads,
     Labels, Arriving
<1>27. ASSUME NEW u \in Users, NEW i \in Nat, ReplaySent(u, i) PROVE Threads'
  BY <1>27, <1>t DEF ReplaySent, PendLess, PendOnly, tables, history, Threads, Labels, Arriving
<1>28. ASSUME NEW u \in Users, ReplayDone(u) PROVE Threads'
  BY <1>28, <1>t DEF ReplayDone, Goto, client, tables, history, Threads, Labels, Arriving
<1>29. ASSUME NEW u \in Users, Purge(u) PROVE Threads'
  <2>0. queue \in SUBSET Nat
    BY <1>t DEF Copies, Ids
  <2> QED BY <1>29, <1>t, <2>0 DEF Purge, Goto, client, tables, history, Threads, Labels,
     Arriving
<1>30. ASSUME NEW u \in Users, EraseDone(u) PROVE Threads'
  BY <1>30, <1>t DEF EraseDone, Goto, client, Threads, Labels, Arriving
<1>31. ASSUME NEW u \in Users, EraseFailed(u) PROVE Threads'
  BY <1>31, <1>t DEF EraseFailed, Goto, client, tables, history, Threads, Labels, Arriving
<1>32. ASSUME NEW u \in Users, NotifySent(u) PROVE Threads'
  BY <1>32, <1>t DEF NotifySent, Goto, tables, Threads, Labels, Arriving
<1>33. ASSUME NEW u \in Users, NotifyNote(u) PROVE Threads'
  BY <1>33, <1>t DEF NotifyNote, Goto, client, tables, history, Threads, Labels, Arriving
<1>34. ASSUME NEW u \in Users, Note(u) PROVE Threads'
  BY <1>34, <1>t DEF Note, Goto, client, history, Threads, Labels, Arriving
<1>35. CASE UNCHANGED vars
  BY <1>35, <1>t DEF vars, client, thread, tables, history, Threads, Labels, Arriving
<1>36. ASSUME NEW u \in Users, Fails(u) PROVE Threads'
  BY <1>36, <1>t DEF Fails, Goto, client, tables, history, Threads, Labels, Arriving
<1>37. ASSUME Crash PROVE Threads'
  BY <1>37, <1>t, TwoUsers DEF Crash, tables, Threads, Labels, Arriving
<1>38. ASSUME NEW u \in Users, LoginFails(u) PROVE Threads'
  BY <1>38, <1>t DEF LoginFails, Goto, client, Threads, Labels, Arriving
<1> QED BY <1>1, <1>2, <1>3, <1>4, <1>5, <1>6, <1>7, <1>8, <1>9, <1>10, <1>11, <1>12, <1>13,
   <1>14, <1>15, <1>16, <1>17, <1>18, <1>19, <1>20, <1>21, <1>22, <1>23, <1>24, <1>25, <1>26,
   <1>27, <1>28, <1>29, <1>30, <1>31, <1>32, <1>33, <1>34, <1>35, <1>36,
   <1>37, <1>38, StepCases DEF Cases, Typed

\* Counters are numbers.
LEMMA CountersStep ==
    ASSUME Typed, [Next]_vars
    PROVE  Counters'
<1>t. Wires /\ Threads /\ Counters /\ Copies /\ Held /\ Carried /\ Listed
      /\ Outgoing /\ Handled /\ Flushed /\ Phases
  BY DEF Typed, Shapes, Known, Authors
<1>1. ASSUME NEW u \in Users, Writes(u) PROVE Counters'
  BY <1>1, <1>t DEF Writes, thread, tables, history, Counters
<1>2. ASSUME NEW u \in Users, DeleteHere(u) PROVE Counters'
  BY <1>2, <1>t DEF DeleteHere, Forget, thread, tables, Counters
<1>3. ASSUME NEW u \in Users, AsksDelete(u) PROVE Counters'
  BY <1>3, <1>t DEF AsksDelete, Forget, thread, tables, Counters
<1>4. ASSUME NEW u \in Users, NEW c \in Nat, AckRead(u, c) PROVE Counters'
  BY <1>4, <1>t DEF AckRead, InTaken, thread, tables, Counters
<1>5. ASSUME NEW u \in Users, NEW i \in Nat, MessageRead(u, i) PROVE Counters'
  BY <1>5, <1>t DEF MessageRead, InTaken, ReceiveMessage, thread, tables, Counters
<1>6. ASSUME NEW u \in Users, DeleteRead(u) PROVE Counters'
  BY <1>6, <1>t DEF DeleteRead, InTaken, ReceiveDelete, thread, tables, Counters
<1>7. ASSUME NEW u \in Users, Disconnect(u) PROVE Counters'
  BY <1>7, <1>t DEF Disconnect, thread, tables, Counters
<1>8. ASSUME NEW u \in Users, Login(u) PROVE Counters'
  BY <1>8, <1>t DEF Login, tables, history, Counters
<1>9. ASSUME NEW u \in Users, ReadsQueue(u) PROVE Counters'
  BY <1>9, <1>t DEF ReadsQueue, client, tables, history, Counters
<1>10. ASSUME NEW u \in Users, NEW i \in Nat, FlushSent(u, i) PROVE Counters'
  BY <1>10, <1>t DEF FlushSent, Counters
<1>11. ASSUME NEW u \in Users, FlushQuiet(u) PROVE Counters'
  BY <1>11, <1>t DEF FlushQuiet, client, tables, history, Counters
<1>12. ASSUME NEW u \in Users, ReadNotes(u) PROVE Counters'
  BY <1>12, <1>t DEF ReadNotes, client, tables, history, Counters
<1>13. ASSUME NEW u \in Users, ClearNotes(u) PROVE Counters'
  BY <1>13, <1>t DEF ClearNotes, client, Counters
<1>14. ASSUME NEW u \in Users, SendsNotes(u) PROVE Counters'
  BY <1>14, <1>t DEF SendsNotes, tables, Counters
<1>15. ASSUME NEW u \in Users, Register(u) PROVE Counters'
  BY <1>15, <1>t DEF Register, client, tables, history, Counters
<1>16. ASSUME NEW u \in Users, Leave(u) PROVE Counters'
  BY <1>16, <1>t DEF Leave, client, tables, history, Counters
<1>17. ASSUME NEW u \in Users, NEW i \in Nat, TakesMessage(u, i) PROVE Counters'
  BY <1>17, <1>t DEF TakesMessage, OutTaken, tables, history, Counters
<1>18. ASSUME NEW u \in Users, NEW c \in Nat, TakesSync(u, c) PROVE Counters'
  BY <1>18, <1>t DEF TakesSync, OutTaken, tables, history, Counters
<1>19. ASSUME NEW u \in Users, TakesDelete(u) PROVE Counters'
  BY <1>19, <1>t DEF TakesDelete, OutTaken, tables, history, Counters
<1>20. ASSUME NEW u \in Users, Save(u) PROVE Counters'
  BY <1>20, <1>t DEF Save, client, history, Counters
<1>21. ASSUME NEW u \in Users, RouteSent(u) PROVE Counters'
  BY <1>21, <1>t DEF RouteSent, tables, history, Counters
<1>22. ASSUME NEW u \in Users, RouteAway(u) PROVE Counters'
  BY <1>22, <1>t DEF RouteAway, client, tables, history, Counters
<1>23. ASSUME NEW u \in Users, ReloadNone(u) PROVE Counters'
  BY <1>23, <1>t DEF ReloadNone, client, tables, history, Counters
<1>24. ASSUME NEW u \in Users, NEW m \in Nat, ReloadFound(u, m) PROVE Counters'
  BY <1>24, <1>t DEF ReloadFound, client, tables, history, Counters
<1>25. ASSUME NEW u \in Users, Queue(u) PROVE Counters'
  BY <1>25, <1>t DEF Queue, client, history, Counters
<1>26. ASSUME NEW u \in Users, ReadsHistory(u) PROVE Counters'
  BY <1>26, <1>t DEF ReadsHistory, client, tables, history, Counters
<1>27. ASSUME NEW u \in Users, NEW i \in Nat, ReplaySent(u, i) PROVE Counters'
  BY <1>27, <1>t DEF ReplaySent, tables, history, Counters
<1>28. ASSUME NEW u \in Users, ReplayDone(u) PROVE Counters'
  BY <1>28, <1>t DEF ReplayDone, client, tables, history, Counters
<1>29. ASSUME NEW u \in Users, Purge(u) PROVE Counters'
  BY <1>29, <1>t DEF Purge, client, tables, history, Counters
<1>30. ASSUME NEW u \in Users, EraseDone(u) PROVE Counters'
  BY <1>30, <1>t DEF EraseDone, client, Counters
<1>31. ASSUME NEW u \in Users, EraseFailed(u) PROVE Counters'
  BY <1>31, <1>t DEF EraseFailed, client, tables, history, Counters
<1>32. ASSUME NEW u \in Users, NotifySent(u) PROVE Counters'
  BY <1>32, <1>t DEF NotifySent, tables, Counters
<1>33. ASSUME NEW u \in Users, NotifyNote(u) PROVE Counters'
  BY <1>33, <1>t DEF NotifyNote, client, tables, history, Counters
<1>34. ASSUME NEW u \in Users, Note(u) PROVE Counters'
  BY <1>34, <1>t, TwoUsers DEF Note, client, history, Counters
<1>35. CASE UNCHANGED vars
  BY <1>35, <1>t DEF vars, client, thread, tables, history, Counters
<1>36. ASSUME NEW u \in Users, Fails(u) PROVE Counters'
  BY <1>36, <1>t DEF Fails, client, tables, history, Counters
<1>37. ASSUME Crash PROVE Counters'
  BY <1>37, <1>t, TwoUsers DEF Crash, tables, Counters
<1>38. ASSUME NEW u \in Users, LoginFails(u) PROVE Counters'
  BY <1>38, <1>t DEF LoginFails, client, Counters
<1> QED BY <1>1, <1>2, <1>3, <1>4, <1>5, <1>6, <1>7, <1>8, <1>9, <1>10, <1>11, <1>12, <1>13,
   <1>14, <1>15, <1>16, <1>17, <1>18, <1>19, <1>20, <1>21, <1>22, <1>23, <1>24, <1>25, <1>26,
   <1>27, <1>28, <1>29, <1>30, <1>31, <1>32, <1>33, <1>34, <1>35, <1>36,
   <1>37, <1>38, StepCases DEF Cases, Typed

\* Tables and local copies hold messages.
LEMMA CopiesStep ==
    ASSUME Typed, [Next]_vars
    PROVE  Copies'
<1>t. Wires /\ Threads /\ Counters /\ Copies /\ Held /\ Carried /\ Listed
      /\ Outgoing /\ Handled /\ Flushed /\ Phases
  BY DEF Typed, Shapes, Known, Authors
<1>1. ASSUME NEW u \in Users, Writes(u) PROVE Copies'
  BY <1>1, <1>t DEF Writes, FromGrown, thread, tables, history, Copies, Ids
<1>2. ASSUME NEW u \in Users, DeleteHere(u) PROVE Copies'
  BY <1>2, <1>t DEF DeleteHere, Forget, thread, tables, Copies, Ids
<1>3. ASSUME NEW u \in Users, AsksDelete(u) PROVE Copies'
  BY <1>3, <1>t DEF AsksDelete, Forget, thread, tables, Copies, Ids
<1>4. ASSUME NEW u \in Users, NEW c \in Nat, AckRead(u, c) PROVE Copies'
  BY <1>4, <1>t DEF AckRead, InTaken, thread, tables, Copies, Ids
<1>5. ASSUME NEW u \in Users, NEW i \in Nat, MessageRead(u, i) PROVE Copies'
  BY <1>5, <1>t DEF MessageRead, InTaken, ReceiveMessage, thread, tables, Copies, Ids
<1>6. ASSUME NEW u \in Users, DeleteRead(u) PROVE Copies'
  BY <1>6, <1>t DEF DeleteRead, InTaken, ReceiveDelete, thread, tables, Copies, Ids
<1>7. ASSUME NEW u \in Users, Disconnect(u) PROVE Copies'
  BY <1>7, <1>t DEF Disconnect, thread, tables, Copies, Ids
<1>8. ASSUME NEW u \in Users, Login(u) PROVE Copies'
  BY <1>8, <1>t DEF Login, tables, history, Copies, Ids
<1>9. ASSUME NEW u \in Users, ReadsQueue(u) PROVE Copies'
  BY <1>9, <1>t DEF ReadsQueue, client, tables, history, Copies, Ids
<1>10. ASSUME NEW u \in Users, NEW i \in Nat, FlushSent(u, i) PROVE Copies'
  BY <1>10, <1>t DEF FlushSent, Copies, Ids
<1>11. ASSUME NEW u \in Users, FlushQuiet(u) PROVE Copies'
  BY <1>11, <1>t DEF FlushQuiet, client, tables, history, Copies, Ids
<1>12. ASSUME NEW u \in Users, ReadNotes(u) PROVE Copies'
  BY <1>12, <1>t DEF ReadNotes, client, tables, history, Copies, Ids
<1>13. ASSUME NEW u \in Users, ClearNotes(u) PROVE Copies'
  BY <1>13, <1>t DEF ClearNotes, client, Copies, Ids
<1>14. ASSUME NEW u \in Users, SendsNotes(u) PROVE Copies'
  BY <1>14, <1>t DEF SendsNotes, tables, Copies, Ids
<1>15. ASSUME NEW u \in Users, Register(u) PROVE Copies'
  BY <1>15, <1>t DEF Register, client, tables, history, Copies, Ids
<1>16. ASSUME NEW u \in Users, Leave(u) PROVE Copies'
  BY <1>16, <1>t DEF Leave, client, tables, history, Copies, Ids
<1>17. ASSUME NEW u \in Users, NEW i \in Nat, TakesMessage(u, i) PROVE Copies'
  BY <1>17, <1>t DEF TakesMessage, OutTaken, tables, history, Copies, Ids
<1>18. ASSUME NEW u \in Users, NEW c \in Nat, TakesSync(u, c) PROVE Copies'
  BY <1>18, <1>t DEF TakesSync, OutTaken, tables, history, Copies, Ids
<1>19. ASSUME NEW u \in Users, TakesDelete(u) PROVE Copies'
  BY <1>19, <1>t DEF TakesDelete, OutTaken, tables, history, Copies, Ids
<1>20. ASSUME NEW u \in Users, Save(u) PROVE Copies'
  <2>0. cur[u] \in Ids
    BY <1>20, <1>t DEF Save, Handled
  <2> QED BY <1>20, <1>t, <2>0 DEF Save, client, history, Copies, Ids
<1>21. ASSUME NEW u \in Users, RouteSent(u) PROVE Copies'
  BY <1>21, <1>t DEF RouteSent, tables, history, Copies, Ids
<1>22. ASSUME NEW u \in Users, RouteAway(u) PROVE Copies'
  BY <1>22, <1>t DEF RouteAway, client, tables, history, Copies, Ids
<1>23. ASSUME NEW u \in Users, ReloadNone(u) PROVE Copies'
  BY <1>23, <1>t DEF ReloadNone, client, tables, history, Copies, Ids
<1>24. ASSUME NEW u \in Users, NEW m \in Nat, ReloadFound(u, m) PROVE Copies'
  BY <1>24, <1>t DEF ReloadFound, client, tables, history, Copies, Ids
<1>25. ASSUME NEW u \in Users, Queue(u) PROVE Copies'
  BY <1>25, <1>t DEF Queue, client, history, Copies, Ids
<1>26. ASSUME NEW u \in Users, ReadsHistory(u) PROVE Copies'
  BY <1>26, <1>t DEF ReadsHistory, client, tables, history, Copies, Ids
<1>27. ASSUME NEW u \in Users, NEW i \in Nat, ReplaySent(u, i) PROVE Copies'
  BY <1>27, <1>t DEF ReplaySent, tables, history, Copies, Ids
<1>28. ASSUME NEW u \in Users, ReplayDone(u) PROVE Copies'
  BY <1>28, <1>t DEF ReplayDone, client, tables, history, Copies, Ids
<1>29. ASSUME NEW u \in Users, Purge(u) PROVE Copies'
  BY <1>29, <1>t DEF Purge, client, tables, history, Copies, Ids
<1>30. ASSUME NEW u \in Users, EraseDone(u) PROVE Copies'
  BY <1>30, <1>t DEF EraseDone, client, Copies, Ids
<1>31. ASSUME NEW u \in Users, EraseFailed(u) PROVE Copies'
  BY <1>31, <1>t DEF EraseFailed, client, tables, history, Copies, Ids
<1>32. ASSUME NEW u \in Users, NotifySent(u) PROVE Copies'
  BY <1>32, <1>t DEF NotifySent, tables, Copies, Ids
<1>33. ASSUME NEW u \in Users, NotifyNote(u) PROVE Copies'
  BY <1>33, <1>t DEF NotifyNote, client, tables, history, Copies, Ids
<1>34. ASSUME NEW u \in Users, Note(u) PROVE Copies'
  BY <1>34, <1>t DEF Note, client, history, Copies, Ids
<1>35. CASE UNCHANGED vars
  BY <1>35, <1>t DEF vars, client, thread, tables, history, Copies, Ids
<1>36. ASSUME NEW u \in Users, Fails(u) PROVE Copies'
  BY <1>36, <1>t DEF Fails, client, tables, history, Copies, Ids
<1>37. ASSUME Crash PROVE Copies'
  BY <1>37, <1>t, TwoUsers DEF Crash, tables, Copies, Ids
<1>38. ASSUME NEW u \in Users, LoginFails(u) PROVE Copies'
  BY <1>38, <1>t DEF LoginFails, client, Copies, Ids
<1> QED BY <1>1, <1>2, <1>3, <1>4, <1>5, <1>6, <1>7, <1>8, <1>9, <1>10, <1>11, <1>12, <1>13,
   <1>14, <1>15, <1>16, <1>17, <1>18, <1>19, <1>20, <1>21, <1>22, <1>23, <1>24, <1>25, <1>26,
   <1>27, <1>28, <1>29, <1>30, <1>31, <1>32, <1>33, <1>34, <1>35, <1>36,
   <1>37, <1>38, StepCases DEF Cases, Typed

\* Messages on a device have been written.
LEMMA HeldStep ==
    ASSUME Typed, [Next]_vars
    PROVE  Held'
<1>t. Wires /\ Threads /\ Counters /\ Copies /\ Held /\ Carried /\ Listed
      /\ Outgoing /\ Handled /\ Flushed /\ Phases
  BY DEF Typed, Shapes, Known, Authors
<1>1. ASSUME NEW u \in Users, Writes(u) PROVE Held'
  BY <1>1, <1>t DEF Writes, FromGrown, thread, tables, history, Held, Copies, Ids
<1>2. ASSUME NEW u \in Users, DeleteHere(u) PROVE Held'
  BY <1>2, <1>t DEF DeleteHere, Forget, thread, tables, Held, Copies, Ids
<1>3. ASSUME NEW u \in Users, AsksDelete(u) PROVE Held'
  BY <1>3, <1>t DEF AsksDelete, Forget, thread, tables, Held, Copies, Ids
<1>4. ASSUME NEW u \in Users, NEW c \in Nat, AckRead(u, c) PROVE Held'
  BY <1>4, <1>t DEF AckRead, InTaken, thread, tables, Held, Ids
<1>5. ASSUME NEW u \in Users, NEW i \in Nat, MessageRead(u, i) PROVE Held'
  <2>0. i \in Ids
    BY <1>5, <1>t DEF MessageRead, InTaken, Shrunk, Carried
  <2> QED BY <1>5, <1>t, <2>0 DEF MessageRead, InTaken, ReceiveMessage, thread, tables, Held,
     Copies, Ids
<1>6. ASSUME NEW u \in Users, DeleteRead(u) PROVE Held'
  BY <1>6, <1>t DEF DeleteRead, InTaken, ReceiveDelete, thread, tables, Held, Copies, Ids
<1>7. ASSUME NEW u \in Users, Disconnect(u) PROVE Held'
  BY <1>7, <1>t DEF Disconnect, thread, tables, Held, Ids
<1>8. ASSUME NEW u \in Users, Login(u) PROVE Held'
  BY <1>8, <1>t DEF Login, tables, history, Held, Ids
<1>9. ASSUME NEW u \in Users, ReadsQueue(u) PROVE Held'
  BY <1>9, <1>t DEF ReadsQueue, client, tables, history, Held, Ids
<1>10. ASSUME NEW u \in Users, NEW i \in Nat, FlushSent(u, i) PROVE Held'
  BY <1>10, <1>t DEF FlushSent, Held, Ids
<1>11. ASSUME NEW u \in Users, FlushQuiet(u) PROVE Held'
  BY <1>11, <1>t DEF FlushQuiet, client, tables, history, Held, Ids
<1>12. ASSUME NEW u \in Users, ReadNotes(u) PROVE Held'
  BY <1>12, <1>t DEF ReadNotes, client, tables, history, Held, Ids
<1>13. ASSUME NEW u \in Users, ClearNotes(u) PROVE Held'
  BY <1>13, <1>t DEF ClearNotes, client, Held, Ids
<1>14. ASSUME NEW u \in Users, SendsNotes(u) PROVE Held'
  BY <1>14, <1>t DEF SendsNotes, tables, Held, Ids
<1>15. ASSUME NEW u \in Users, Register(u) PROVE Held'
  BY <1>15, <1>t DEF Register, client, tables, history, Held, Ids
<1>16. ASSUME NEW u \in Users, Leave(u) PROVE Held'
  BY <1>16, <1>t DEF Leave, client, tables, history, Held, Ids
<1>17. ASSUME NEW u \in Users, NEW i \in Nat, TakesMessage(u, i) PROVE Held'
  BY <1>17, <1>t DEF TakesMessage, OutTaken, tables, history, Held, Ids
<1>18. ASSUME NEW u \in Users, NEW c \in Nat, TakesSync(u, c) PROVE Held'
  BY <1>18, <1>t DEF TakesSync, OutTaken, tables, history, Held, Ids
<1>19. ASSUME NEW u \in Users, TakesDelete(u) PROVE Held'
  BY <1>19, <1>t DEF TakesDelete, OutTaken, tables, history, Held, Ids
<1>20. ASSUME NEW u \in Users, Save(u) PROVE Held'
  BY <1>20, <1>t DEF Save, client, history, Held, Ids
<1>21. ASSUME NEW u \in Users, RouteSent(u) PROVE Held'
  BY <1>21, <1>t DEF RouteSent, tables, history, Held, Ids
<1>22. ASSUME NEW u \in Users, RouteAway(u) PROVE Held'
  BY <1>22, <1>t DEF RouteAway, client, tables, history, Held, Ids
<1>23. ASSUME NEW u \in Users, ReloadNone(u) PROVE Held'
  BY <1>23, <1>t DEF ReloadNone, client, tables, history, Held, Ids
<1>24. ASSUME NEW u \in Users, NEW m \in Nat, ReloadFound(u, m) PROVE Held'
  BY <1>24, <1>t DEF ReloadFound, client, tables, history, Held, Ids
<1>25. ASSUME NEW u \in Users, Queue(u) PROVE Held'
  BY <1>25, <1>t DEF Queue, client, history, Held, Ids
<1>26. ASSUME NEW u \in Users, ReadsHistory(u) PROVE Held'
  BY <1>26, <1>t DEF ReadsHistory, client, tables, history, Held, Ids
<1>27. ASSUME NEW u \in Users, NEW i \in Nat, ReplaySent(u, i) PROVE Held'
  BY <1>27, <1>t DEF ReplaySent, tables, history, Held, Ids
<1>28. ASSUME NEW u \in Users, ReplayDone(u) PROVE Held'
  BY <1>28, <1>t DEF ReplayDone, client, tables, history, Held, Ids
<1>29. ASSUME NEW u \in Users, Purge(u) PROVE Held'
  BY <1>29, <1>t DEF Purge, client, tables, history, Held, Ids
<1>30. ASSUME NEW u \in Users, EraseDone(u) PROVE Held'
  BY <1>30, <1>t DEF EraseDone, client, Held, Ids
<1>31. ASSUME NEW u \in Users, EraseFailed(u) PROVE Held'
  BY <1>31, <1>t DEF EraseFailed, client, tables, history, Held, Ids
<1>32. ASSUME NEW u \in Users, NotifySent(u) PROVE Held'
  BY <1>32, <1>t DEF NotifySent, tables, Held, Ids
<1>33. ASSUME NEW u \in Users, NotifyNote(u) PROVE Held'
  BY <1>33, <1>t DEF NotifyNote, client, tables, history, Held, Ids
<1>34. ASSUME NEW u \in Users, Note(u) PROVE Held'
  BY <1>34, <1>t DEF Note, client, history, Held, Ids
<1>35. CASE UNCHANGED vars
  BY <1>35, <1>t DEF vars, client, thread, tables, history, Held, Ids
<1>36. ASSUME NEW u \in Users, Fails(u) PROVE Held'
  BY <1>36, <1>t DEF Fails, client, tables, history, Held, Ids
<1>37. ASSUME Crash PROVE Held'
  BY <1>37, <1>t, TwoUsers DEF Crash, tables, Held, Ids
<1>38. ASSUME NEW u \in Users, LoginFails(u) PROVE Held'
  BY <1>38, <1>t DEF LoginFails, client, Held, Ids
<1> QED BY <1>1, <1>2, <1>3, <1>4, <1>5, <1>6, <1>7, <1>8, <1>9, <1>10, <1>11, <1>12, <1>13,
   <1>14, <1>15, <1>16, <1>17, <1>18, <1>19, <1>20, <1>21, <1>22, <1>23, <1>24, <1>25, <1>26,
   <1>27, <1>28, <1>29, <1>30, <1>31, <1>32, <1>33, <1>34, <1>35, <1>36,
   <1>37, <1>38, StepCases DEF Cases, Typed

\* Messages on their way to a device have been written.
LEMMA CarriedStep ==
    ASSUME Typed, [Next]_vars
    PROVE  Carried'
<1>t. Wires /\ Threads /\ Counters /\ Copies /\ Held /\ Carried /\ Listed
      /\ Outgoing /\ Handled /\ Flushed /\ Phases
  BY DEF Typed, Shapes, Known, Authors
<1>1. ASSUME NEW u \in Users, Writes(u) PROVE Carried'
  BY <1>1, <1>t, PacketKinds DEF Writes, FromGrown, thread, tables, history, Carried, Ids
<1>2. ASSUME NEW u \in Users, DeleteHere(u) PROVE Carried'
  BY <1>2, <1>t, PacketKinds DEF DeleteHere, Forget, thread, tables, Carried, Ids
<1>3. ASSUME NEW u \in Users, AsksDelete(u) PROVE Carried'
  BY <1>3, <1>t, PacketKinds DEF AsksDelete, Forget, thread, tables, Carried, Ids
<1>4. ASSUME NEW u \in Users, NEW c \in Nat, AckRead(u, c) PROVE Carried'
  <2>1. Within(inbox'[u], inbox[u])
    BY <1>4, ShrunkWithin DEF AckRead, InTaken
  <2>2. \A w \in Users : Within(inbox'[w], inbox[w])
    BY <1>4, <2>1 DEF AckRead, InTaken, Within
  <2>3. Ids' = Ids
    BY <1>4 DEF AckRead, InTaken, Ids
  <2> QED BY <1>t, <2>2, <2>3 DEF Carried, Within
<1>5. ASSUME NEW u \in Users, NEW i \in Nat, MessageRead(u, i) PROVE Carried'
  <2>1. Within(inbox'[u], inbox[u])
    BY <1>5, ShrunkWithin DEF MessageRead, InTaken
  <2>2. \A w \in Users : Within(inbox'[w], inbox[w])
    BY <1>5, <2>1 DEF MessageRead, InTaken, Within
  <2>3. Ids' = Ids
    BY <1>5 DEF MessageRead, InTaken, Ids
  <2> QED BY <1>t, <2>2, <2>3 DEF Carried, Within
<1>6. ASSUME NEW u \in Users, DeleteRead(u) PROVE Carried'
  <2>1. Within(inbox'[u], inbox[u])
    BY <1>6, ShrunkWithin DEF DeleteRead, InTaken
  <2>2. \A w \in Users : Within(inbox'[w], inbox[w])
    BY <1>6, <2>1 DEF DeleteRead, InTaken, Within
  <2>3. Ids' = Ids
    BY <1>6 DEF DeleteRead, InTaken, Ids
  <2> QED BY <1>t, <2>2, <2>3 DEF Carried, Within
<1>7. ASSUME NEW u \in Users, Disconnect(u) PROVE Carried'
  BY <1>7, <1>t, PacketKinds DEF Disconnect, thread, tables, Carried, Ids, Wires
<1>8. ASSUME NEW u \in Users, Login(u) PROVE Carried'
  <2>0. \A k \in DOMAIN <<LoginAck>> : <<LoginAck>>[k] = LoginAck
    OBVIOUS
  <2> QED BY <1>8, <1>t, PacketKinds, <2>0 DEF Login, tables, history, Carried, Ids, Wires
<1>9. ASSUME NEW u \in Users, ReadsQueue(u) PROVE Carried'
  BY <1>9, <1>t, PacketKinds DEF ReadsQueue, client, tables, history, Carried, Ids
<1>10. ASSUME NEW u \in Users, NEW i \in Nat, FlushSent(u, i) PROVE Carried'
  <2>1. i \in Ids /\ i \in Nat
    BY <1>10, <1>t DEF FlushSent, Copies
  <2>2. \A w \in Users : \A k \in DOMAIN inbox'[w] :
          inbox'[w][k] = Message(i) \/ (k \in DOMAIN inbox[w] /\ inbox'[w][k] = inbox[w][k])
    BY <1>10, <1>t, TwoUsers DEF FlushSent, Sent, Grown
  <2>3. Ids' = Ids
    BY <1>10 DEF FlushSent, Ids
  <2> QED BY <1>t, <2>1, <2>2, <2>3, PacketKinds DEF Carried
<1>11. ASSUME NEW u \in Users, FlushQuiet(u) PROVE Carried'
  BY <1>11, <1>t, PacketKinds DEF FlushQuiet, client, tables, history, Carried, Ids
<1>12. ASSUME NEW u \in Users, ReadNotes(u) PROVE Carried'
  BY <1>12, <1>t, PacketKinds DEF ReadNotes, client, tables, history, Carried, Ids
<1>13. ASSUME NEW u \in Users, ClearNotes(u) PROVE Carried'
  BY <1>13, <1>t, PacketKinds DEF ClearNotes, client, Carried, Ids
<1>14. ASSUME NEW u \in Users, SendsNotes(u) PROVE Carried'
  BY <1>14, <1>t, PacketKinds DEF SendsNotes, tables, Carried, Ids
<1>15. ASSUME NEW u \in Users, Register(u) PROVE Carried'
  BY <1>15, <1>t, PacketKinds DEF Register, client, tables, history, Carried, Ids
<1>16. ASSUME NEW u \in Users, Leave(u) PROVE Carried'
  BY <1>16, <1>t, PacketKinds DEF Leave, client, tables, history, Carried, Ids
<1>17. ASSUME NEW u \in Users, NEW i \in Nat, TakesMessage(u, i) PROVE Carried'
  BY <1>17, <1>t, PacketKinds DEF TakesMessage, OutTaken, tables, history, Carried, Ids
<1>18. ASSUME NEW u \in Users, NEW c \in Nat, TakesSync(u, c) PROVE Carried'
  BY <1>18, <1>t, PacketKinds DEF TakesSync, OutTaken, tables, history, Carried, Ids
<1>19. ASSUME NEW u \in Users, TakesDelete(u) PROVE Carried'
  BY <1>19, <1>t, PacketKinds DEF TakesDelete, OutTaken, tables, history, Carried, Ids
<1>20. ASSUME NEW u \in Users, Save(u) PROVE Carried'
  BY <1>20, <1>t, PacketKinds DEF Save, client, history, Carried, Ids
<1>21. ASSUME NEW u \in Users, RouteSent(u) PROVE Carried'
  <2>1. cur[u] \in Ids /\ cur[u] \in Nat
    BY <1>21, <1>t DEF RouteSent, Handled, Threads
  <2>2. \A w \in Users : \A k \in DOMAIN inbox'[w] :
          inbox'[w][k] = Message(cur[u]) \/ (k \in DOMAIN inbox[w] /\ inbox'[w][k] = inbox[w][k])
    BY <1>21, <1>t, TwoUsers DEF RouteSent, Sent, Grown
  <2>3. Ids' = Ids
    BY <1>21 DEF RouteSent, tables, history, Ids
  <2> QED BY <1>t, <2>1, <2>2, <2>3, PacketKinds DEF Carried
<1>22. ASSUME NEW u \in Users, RouteAway(u) PROVE Carried'
  BY <1>22, <1>t, PacketKinds DEF RouteAway, client, tables, history, Carried, Ids
<1>23. ASSUME NEW u \in Users, ReloadNone(u) PROVE Carried'
  BY <1>23, <1>t, PacketKinds DEF ReloadNone, client, tables, history, Carried, Ids
<1>24. ASSUME NEW u \in Users, NEW m \in Nat, ReloadFound(u, m) PROVE Carried'
  BY <1>24, <1>t, PacketKinds DEF ReloadFound, client, tables, history, Carried, Ids
<1>25. ASSUME NEW u \in Users, Queue(u) PROVE Carried'
  BY <1>25, <1>t, PacketKinds DEF Queue, client, history, Carried, Ids
<1>26. ASSUME NEW u \in Users, ReadsHistory(u) PROVE Carried'
  BY <1>26, <1>t, PacketKinds DEF ReadsHistory, client, tables, history, Carried, Ids
<1>27. ASSUME NEW u \in Users, NEW i \in Nat, ReplaySent(u, i) PROVE Carried'
  <2>1. i \in Ids /\ i \in Nat
    BY <1>27, <1>t DEF ReplaySent, Listed
  <2>2. \A w \in Users : \A k \in DOMAIN inbox'[w] :
          inbox'[w][k] = Message(i) \/ (k \in DOMAIN inbox[w] /\ inbox'[w][k] = inbox[w][k])
    BY <1>27, <1>t, TwoUsers DEF ReplaySent, Sent, Grown
  <2>3. Ids' = Ids
    BY <1>27 DEF ReplaySent, tables, history, Ids
  <2> QED BY <1>t, <2>1, <2>2, <2>3, PacketKinds DEF Carried
<1>28. ASSUME NEW u \in Users, ReplayDone(u) PROVE Carried'
  BY <1>28, <1>t, PacketKinds DEF ReplayDone, client, tables, history, Carried, Ids
<1>29. ASSUME NEW u \in Users, Purge(u) PROVE Carried'
  BY <1>29, <1>t, PacketKinds DEF Purge, client, tables, history, Carried, Ids
<1>30. ASSUME NEW u \in Users, EraseDone(u) PROVE Carried'
  BY <1>30, <1>t, PacketKinds DEF EraseDone, client, Carried, Ids
<1>31. ASSUME NEW u \in Users, EraseFailed(u) PROVE Carried'
  BY <1>31, <1>t, PacketKinds DEF EraseFailed, client, tables, history, Carried, Ids
<1>32. ASSUME NEW u \in Users, NotifySent(u) PROVE Carried'
  BY <1>32, <1>t, PacketKinds DEF NotifySent, Sent, Grown, tables, Carried, Ids
<1>33. ASSUME NEW u \in Users, NotifyNote(u) PROVE Carried'
  BY <1>33, <1>t, PacketKinds DEF NotifyNote, client, tables, history, Carried, Ids
<1>34. ASSUME NEW u \in Users, Note(u) PROVE Carried'
  BY <1>34, <1>t, PacketKinds DEF Note, client, history, Carried, Ids
<1>35. CASE UNCHANGED vars
  BY <1>35, <1>t DEF vars, client, thread, tables, history, Carried, Ids
<1>36. ASSUME NEW u \in Users, Fails(u) PROVE Carried'
  BY <1>36, <1>t, PacketKinds DEF Fails, client, tables, history, Carried, Ids
<1>37. ASSUME Crash PROVE Carried'
  BY <1>37, <1>t, PacketKinds, TwoUsers DEF Crash, tables, Carried, Ids
<1>38. ASSUME NEW u \in Users, LoginFails(u) PROVE Carried'
  BY <1>38, <1>t, PacketKinds DEF LoginFails, client, Carried, Ids
<1> QED BY <1>1, <1>2, <1>3, <1>4, <1>5, <1>6, <1>7, <1>8, <1>9, <1>10, <1>11, <1>12, <1>13,
   <1>14, <1>15, <1>16, <1>17, <1>18, <1>19, <1>20, <1>21, <1>22, <1>23, <1>24, <1>25, <1>26,
   <1>27, <1>28, <1>29, <1>30, <1>31, <1>32, <1>33, <1>34, <1>35, <1>36,
   <1>37, <1>38, StepCases DEF Cases, Typed

\* Messages a thread has to send have been written.
LEMMA ListedStep ==
    ASSUME Typed, [Next]_vars
    PROVE  Listed'
<1>t. Wires /\ Threads /\ Counters /\ Copies /\ Held /\ Carried /\ Listed
      /\ Outgoing /\ Handled /\ Flushed /\ Phases
  BY DEF Typed, Shapes, Known, Authors
<1>1. ASSUME NEW u \in Users, Writes(u) PROVE Listed'
  BY <1>1, <1>t DEF Writes, FromGrown, thread, tables, history, Listed, Ids
<1>2. ASSUME NEW u \in Users, DeleteHere(u) PROVE Listed'
  BY <1>2, <1>t DEF DeleteHere, Forget, thread, tables, Listed, Ids
<1>3. ASSUME NEW u \in Users, AsksDelete(u) PROVE Listed'
  BY <1>3, <1>t DEF AsksDelete, Forget, thread, tables, Listed, Ids
<1>4. ASSUME NEW u \in Users, NEW c \in Nat, AckRead(u, c) PROVE Listed'
  BY <1>4, <1>t DEF AckRead, InTaken, thread, tables, Listed, Ids
<1>5. ASSUME NEW u \in Users, NEW i \in Nat, MessageRead(u, i) PROVE Listed'
  BY <1>5, <1>t DEF MessageRead, InTaken, ReceiveMessage, thread, tables, Listed, Ids
<1>6. ASSUME NEW u \in Users, DeleteRead(u) PROVE Listed'
  BY <1>6, <1>t DEF DeleteRead, InTaken, ReceiveDelete, thread, tables, Listed, Ids
<1>7. ASSUME NEW u \in Users, Disconnect(u) PROVE Listed'
  BY <1>7, <1>t DEF Disconnect, thread, tables, Listed, Ids
<1>8. ASSUME NEW u \in Users, Login(u) PROVE Listed'
  BY <1>8, <1>t DEF Login, tables, history, Listed, Ids
<1>9. ASSUME NEW u \in Users, ReadsQueue(u) PROVE Listed'
  BY <1>9, <1>t DEF ReadsQueue, PendRead, PendOnly, client, tables, history, Listed, Ids, Copies
<1>10. ASSUME NEW u \in Users, NEW i \in Nat, FlushSent(u, i) PROVE Listed'
  BY <1>10, <1>t DEF FlushSent, PendLess, PendOnly, Listed, Ids
<1>11. ASSUME NEW u \in Users, FlushQuiet(u) PROVE Listed'
  BY <1>11, <1>t DEF FlushQuiet, PendLess, PendOnly, client, tables, history, Listed, Ids
<1>12. ASSUME NEW u \in Users, ReadNotes(u) PROVE Listed'
  BY <1>12, <1>t DEF ReadNotes, client, tables, history, Listed, Ids
<1>13. ASSUME NEW u \in Users, ClearNotes(u) PROVE Listed'
  BY <1>13, <1>t DEF ClearNotes, client, Listed, Ids
<1>14. ASSUME NEW u \in Users, SendsNotes(u) PROVE Listed'
  BY <1>14, <1>t DEF SendsNotes, tables, Listed, Ids
<1>15. ASSUME NEW u \in Users, Register(u) PROVE Listed'
  BY <1>15, <1>t DEF Register, client, tables, history, Listed, Ids
<1>16. ASSUME NEW u \in Users, Leave(u) PROVE Listed'
  BY <1>16, <1>t DEF Leave, client, tables, history, Listed, Ids
<1>17. ASSUME NEW u \in Users, NEW i \in Nat, TakesMessage(u, i) PROVE Listed'
  BY <1>17, <1>t DEF TakesMessage, OutTaken, tables, history, Listed, Ids
<1>18. ASSUME NEW u \in Users, NEW c \in Nat, TakesSync(u, c) PROVE Listed'
  BY <1>18, <1>t DEF TakesSync, OutTaken, tables, history, Listed, Ids
<1>19. ASSUME NEW u \in Users, TakesDelete(u) PROVE Listed'
  BY <1>19, <1>t DEF TakesDelete, OutTaken, tables, history, Listed, Ids
<1>20. ASSUME NEW u \in Users, Save(u) PROVE Listed'
  BY <1>20, <1>t DEF Save, client, history, Listed, Ids
<1>21. ASSUME NEW u \in Users, RouteSent(u) PROVE Listed'
  BY <1>21, <1>t DEF RouteSent, tables, history, Listed, Ids
<1>22. ASSUME NEW u \in Users, RouteAway(u) PROVE Listed'
  BY <1>22, <1>t DEF RouteAway, client, tables, history, Listed, Ids
<1>23. ASSUME NEW u \in Users, ReloadNone(u) PROVE Listed'
  BY <1>23, <1>t DEF ReloadNone, client, tables, history, Listed, Ids
<1>24. ASSUME NEW u \in Users, NEW m \in Nat, ReloadFound(u, m) PROVE Listed'
  BY <1>24, <1>t DEF ReloadFound, client, tables, history, Listed, Ids
<1>25. ASSUME NEW u \in Users, Queue(u) PROVE Listed'
  BY <1>25, <1>t DEF Queue, client, history, Listed, Ids
<1>26. ASSUME NEW u \in Users, ReadsHistory(u) PROVE Listed'
  BY <1>26, <1>t DEF ReadsHistory, PendRead, PendOnly, client, tables, history, Listed, Ids,
     Copies
<1>27. ASSUME NEW u \in Users, NEW i \in Nat, ReplaySent(u, i) PROVE Listed'
  BY <1>27, <1>t DEF ReplaySent, PendLess, PendOnly, tables, history, Listed, Ids
<1>28. ASSUME NEW u \in Users, ReplayDone(u) PROVE Listed'
  BY <1>28, <1>t DEF ReplayDone, client, tables, history, Listed, Ids
<1>29. ASSUME NEW u \in Users, Purge(u) PROVE Listed'
  BY <1>29, <1>t DEF Purge, client, tables, history, Listed, Ids
<1>30. ASSUME NEW u \in Users, EraseDone(u) PROVE Listed'
  BY <1>30, <1>t DEF EraseDone, client, Listed, Ids
<1>31. ASSUME NEW u \in Users, EraseFailed(u) PROVE Listed'
  BY <1>31, <1>t DEF EraseFailed, client, tables, history, Listed, Ids
<1>32. ASSUME NEW u \in Users, NotifySent(u) PROVE Listed'
  BY <1>32, <1>t DEF NotifySent, tables, Listed, Ids
<1>33. ASSUME NEW u \in Users, NotifyNote(u) PROVE Listed'
  BY <1>33, <1>t DEF NotifyNote, client, tables, history, Listed, Ids
<1>34. ASSUME NEW u \in Users, Note(u) PROVE Listed'
  BY <1>34, <1>t DEF Note, client, history, Listed, Ids
<1>35. CASE UNCHANGED vars
  BY <1>35, <1>t DEF vars, client, thread, tables, history, Listed, Ids
<1>36. ASSUME NEW u \in Users, Fails(u) PROVE Listed'
  BY <1>36, <1>t DEF Fails, client, tables, history, Listed, Ids
<1>37. ASSUME Crash PROVE Listed'
  BY <1>37, <1>t, TwoUsers DEF Crash, tables, Listed, Ids
<1>38. ASSUME NEW u \in Users, LoginFails(u) PROVE Listed'
  BY <1>38, <1>t DEF LoginFails, client, Listed, Ids
<1> QED BY <1>1, <1>2, <1>3, <1>4, <1>5, <1>6, <1>7, <1>8, <1>9, <1>10, <1>11, <1>12, <1>13,
   <1>14, <1>15, <1>16, <1>17, <1>18, <1>19, <1>20, <1>21, <1>22, <1>23, <1>24, <1>25, <1>26,
   <1>27, <1>28, <1>29, <1>30, <1>31, <1>32, <1>33, <1>34, <1>35, <1>36,
   <1>37, <1>38, StepCases DEF Cases, Typed

\* A connection carries the messages of its user.
LEMMA OutgoingStep ==
    ASSUME Typed, [Next]_vars
    PROVE  Outgoing'
<1>t. Wires /\ Threads /\ Counters /\ Copies /\ Held /\ Carried /\ Listed
      /\ Outgoing /\ Handled /\ Flushed /\ Phases
  BY DEF Typed, Shapes, Known, Authors
<1>1. ASSUME NEW u \in Users, Writes(u) PROVE Outgoing'
  <2>2. \A w \in Users : \A k \in DOMAIN outbox'[w] :
          \/ outbox'[w][k] = Message(Len(from) + 1)
          \/ \E j \in DOMAIN outbox[w] : outbox'[w][k] = outbox[w][j]
    BY <1>1, <1>t DEF Writes, Asks, Grown
  <2>3. /\ Ids' = Ids \cup {Len(from) + 1} /\ Len(from) + 1 \in Nat
        /\ from'[Len(from) + 1] = u /\ \A j \in Ids : from'[j] = from[j]
    BY <1>1 DEF Writes, FromGrown, Ids
  <2>4. \A w \in Users \ {u} : outbox'[w] = outbox[w]
    BY <1>1 DEF Writes, Asks
  <2>5. ASSUME NEW w \in Users, NEW i \in Nat, NEW k \in DOMAIN outbox'[w],
               outbox'[w][k] = Message(i)
        PROVE  i \in Ids' /\ from'[i] = w
    <3>1. CASE \E j \in DOMAIN outbox[w] : outbox'[w][k] = outbox[w][j]
      BY <3>1, <2>3, <2>5, <1>t DEF Outgoing
    <3>2. CASE outbox'[w][k] = Message(Len(from) + 1) /\ w = u
      BY <3>2, <2>3, <2>5, PacketKinds
    <3> QED BY <2>2, <2>4, <3>1, <3>2
  <2> QED BY <2>5 DEF Outgoing
<1>2. ASSUME NEW u \in Users, DeleteHere(u) PROVE Outgoing'
  BY <1>2, <1>t, PacketKinds DEF DeleteHere, Forget, thread, tables, Outgoing, Ids
<1>3. ASSUME NEW u \in Users, AsksDelete(u) PROVE Outgoing'
  <2>2. \A w \in Users : \A k \in DOMAIN outbox'[w] :
          outbox'[w][k] = Delete \/ \E j \in DOMAIN outbox[w] : outbox'[w][k] = outbox[w][j]
    BY <1>3, <1>t DEF AsksDelete, Asks, Grown
  <2>3. Ids' = Ids /\ from' = from
    BY <1>3 DEF AsksDelete, Forget, thread, tables, Ids
  <2> QED BY <1>t, <2>2, <2>3, PacketKinds DEF Outgoing
<1>4. ASSUME NEW u \in Users, NEW c \in Nat, AckRead(u, c) PROVE Outgoing'
  <2>2. \A w \in Users : \A k \in DOMAIN outbox'[w] :
          outbox'[w][k] = Sync(c) \/ \E j \in DOMAIN outbox[w] : outbox'[w][k] = outbox[w][j]
    BY <1>4, <1>t DEF AckRead, Asks, Grown
  <2>3. Ids' = Ids /\ from' = from
    BY <1>4 DEF AckRead, InTaken, thread, tables, Ids
  <2> QED BY <1>t, <2>2, <2>3, PacketKinds DEF Outgoing
<1>5. ASSUME NEW u \in Users, NEW i \in Nat, MessageRead(u, i) PROVE Outgoing'
  BY <1>5, <1>t, PacketKinds DEF MessageRead, InTaken, ReceiveMessage, thread, tables, Outgoing,
     Ids
<1>6. ASSUME NEW u \in Users, DeleteRead(u) PROVE Outgoing'
  BY <1>6, <1>t, PacketKinds DEF DeleteRead, InTaken, ReceiveDelete, thread, tables, Outgoing,
     Ids
<1>7. ASSUME NEW u \in Users, Disconnect(u) PROVE Outgoing'
  BY <1>7, <1>t, PacketKinds DEF Disconnect, thread, tables, Outgoing, Ids, Wires
<1>8. ASSUME NEW u \in Users, Login(u) PROVE Outgoing'
  BY <1>8, <1>t, PacketKinds DEF Login, tables, history, Outgoing, Ids
<1>9. ASSUME NEW u \in Users, ReadsQueue(u) PROVE Outgoing'
  BY <1>9, <1>t, PacketKinds DEF ReadsQueue, client, tables, history, Outgoing, Ids
<1>10. ASSUME NEW u \in Users, NEW i \in Nat, FlushSent(u, i) PROVE Outgoing'
  BY <1>10, <1>t, PacketKinds DEF FlushSent, Outgoing, Ids
<1>11. ASSUME NEW u \in Users, FlushQuiet(u) PROVE Outgoing'
  BY <1>11, <1>t, PacketKinds DEF FlushQuiet, client, tables, history, Outgoing, Ids
<1>12. ASSUME NEW u \in Users, ReadNotes(u) PROVE Outgoing'
  BY <1>12, <1>t, PacketKinds DEF ReadNotes, client, tables, history, Outgoing, Ids
<1>13. ASSUME NEW u \in Users, ClearNotes(u) PROVE Outgoing'
  BY <1>13, <1>t, PacketKinds DEF ClearNotes, client, Outgoing, Ids
<1>14. ASSUME NEW u \in Users, SendsNotes(u) PROVE Outgoing'
  BY <1>14, <1>t, PacketKinds DEF SendsNotes, tables, Outgoing, Ids
<1>15. ASSUME NEW u \in Users, Register(u) PROVE Outgoing'
  BY <1>15, <1>t, PacketKinds DEF Register, client, tables, history, Outgoing, Ids
<1>16. ASSUME NEW u \in Users, Leave(u) PROVE Outgoing'
  BY <1>16, <1>t, PacketKinds DEF Leave, client, tables, history, Outgoing, Ids
<1>17. ASSUME NEW u \in Users, NEW i \in Nat, TakesMessage(u, i) PROVE Outgoing'
  <2>1. Within(outbox'[u], outbox[u])
    BY <1>17, ShrunkWithin DEF TakesMessage, OutTaken
  <2>o. \A w \in Users \ {u} : outbox'[w] = outbox[w]
    BY <1>17 DEF TakesMessage, OutTaken
  <2>2. \A w \in Users : \A k \in DOMAIN outbox'[w] :
          \E j \in DOMAIN outbox[w] : outbox'[w][k] = outbox[w][j]
    BY <2>1, <2>o DEF Within
  <2>3. Ids' = Ids /\ from' = from
    BY <1>17 DEF TakesMessage, OutTaken, tables, history, Ids
  <2> QED BY <1>t, <2>2, <2>3, PacketKinds DEF Outgoing
<1>18. ASSUME NEW u \in Users, NEW c \in Nat, TakesSync(u, c) PROVE Outgoing'
  <2>1. Within(outbox'[u], outbox[u])
    BY <1>18, ShrunkWithin DEF TakesSync, OutTaken
  <2>o. \A w \in Users \ {u} : outbox'[w] = outbox[w]
    BY <1>18 DEF TakesSync, OutTaken
  <2>2. \A w \in Users : \A k \in DOMAIN outbox'[w] :
          \E j \in DOMAIN outbox[w] : outbox'[w][k] = outbox[w][j]
    BY <2>1, <2>o DEF Within
  <2>3. Ids' = Ids /\ from' = from
    BY <1>18 DEF TakesSync, OutTaken, tables, history, Ids
  <2> QED BY <1>t, <2>2, <2>3, PacketKinds DEF Outgoing
<1>19. ASSUME NEW u \in Users, TakesDelete(u) PROVE Outgoing'
  <2>1. Within(outbox'[u], outbox[u])
    BY <1>19, ShrunkWithin DEF TakesDelete, OutTaken
  <2>o. \A w \in Users \ {u} : outbox'[w] = outbox[w]
    BY <1>19 DEF TakesDelete, OutTaken
  <2>2. \A w \in Users : \A k \in DOMAIN outbox'[w] :
          \E j \in DOMAIN outbox[w] : outbox'[w][k] = outbox[w][j]
    BY <2>1, <2>o DEF Within
  <2>3. Ids' = Ids /\ from' = from
    BY <1>19 DEF TakesDelete, OutTaken, tables, history, Ids
  <2> QED BY <1>t, <2>2, <2>3, PacketKinds DEF Outgoing
<1>20. ASSUME NEW u \in Users, Save(u) PROVE Outgoing'
  BY <1>20, <1>t, PacketKinds DEF Save, client, history, Outgoing, Ids
<1>21. ASSUME NEW u \in Users, RouteSent(u) PROVE Outgoing'
  BY <1>21, <1>t, PacketKinds DEF RouteSent, tables, history, Outgoing, Ids
<1>22. ASSUME NEW u \in Users, RouteAway(u) PROVE Outgoing'
  BY <1>22, <1>t, PacketKinds DEF RouteAway, client, tables, history, Outgoing, Ids
<1>23. ASSUME NEW u \in Users, ReloadNone(u) PROVE Outgoing'
  BY <1>23, <1>t, PacketKinds DEF ReloadNone, client, tables, history, Outgoing, Ids
<1>24. ASSUME NEW u \in Users, NEW m \in Nat, ReloadFound(u, m) PROVE Outgoing'
  BY <1>24, <1>t, PacketKinds DEF ReloadFound, client, tables, history, Outgoing, Ids
<1>25. ASSUME NEW u \in Users, Queue(u) PROVE Outgoing'
  BY <1>25, <1>t, PacketKinds DEF Queue, client, history, Outgoing, Ids
<1>26. ASSUME NEW u \in Users, ReadsHistory(u) PROVE Outgoing'
  BY <1>26, <1>t, PacketKinds DEF ReadsHistory, client, tables, history, Outgoing, Ids
<1>27. ASSUME NEW u \in Users, NEW i \in Nat, ReplaySent(u, i) PROVE Outgoing'
  BY <1>27, <1>t, PacketKinds DEF ReplaySent, tables, history, Outgoing, Ids
<1>28. ASSUME NEW u \in Users, ReplayDone(u) PROVE Outgoing'
  BY <1>28, <1>t, PacketKinds DEF ReplayDone, client, tables, history, Outgoing, Ids
<1>29. ASSUME NEW u \in Users, Purge(u) PROVE Outgoing'
  BY <1>29, <1>t, PacketKinds DEF Purge, client, tables, history, Outgoing, Ids
<1>30. ASSUME NEW u \in Users, EraseDone(u) PROVE Outgoing'
  BY <1>30, <1>t, PacketKinds DEF EraseDone, client, Outgoing, Ids
<1>31. ASSUME NEW u \in Users, EraseFailed(u) PROVE Outgoing'
  BY <1>31, <1>t, PacketKinds DEF EraseFailed, client, tables, history, Outgoing, Ids
<1>32. ASSUME NEW u \in Users, NotifySent(u) PROVE Outgoing'
  BY <1>32, <1>t, PacketKinds DEF NotifySent, tables, Outgoing, Ids
<1>33. ASSUME NEW u \in Users, NotifyNote(u) PROVE Outgoing'
  BY <1>33, <1>t, PacketKinds DEF NotifyNote, client, tables, history, Outgoing, Ids
<1>34. ASSUME NEW u \in Users, Note(u) PROVE Outgoing'
  BY <1>34, <1>t, PacketKinds DEF Note, client, history, Outgoing, Ids
<1>35. CASE UNCHANGED vars
  BY <1>35, <1>t DEF vars, client, thread, tables, history, Outgoing, Ids
<1>36. ASSUME NEW u \in Users, Fails(u) PROVE Outgoing'
  BY <1>36, <1>t, PacketKinds DEF Fails, client, tables, history, Outgoing, Ids
<1>37. ASSUME Crash PROVE Outgoing'
  BY <1>37, <1>t, PacketKinds, TwoUsers DEF Crash, tables, Outgoing, Ids
<1>38. ASSUME NEW u \in Users, LoginFails(u) PROVE Outgoing'
  BY <1>38, <1>t, PacketKinds DEF LoginFails, client, Outgoing, Ids
<1> QED BY <1>1, <1>2, <1>3, <1>4, <1>5, <1>6, <1>7, <1>8, <1>9, <1>10, <1>11, <1>12, <1>13,
   <1>14, <1>15, <1>16, <1>17, <1>18, <1>19, <1>20, <1>21, <1>22, <1>23, <1>24, <1>25, <1>26,
   <1>27, <1>28, <1>29, <1>30, <1>31, <1>32, <1>33, <1>34, <1>35, <1>36,
   <1>37, <1>38, StepCases DEF Cases, Typed

\* A thread handles messages of its user.
LEMMA HandledStep ==
    ASSUME Typed, [Next]_vars
    PROVE  Handled'
<1>t. Wires /\ Threads /\ Counters /\ Copies /\ Held /\ Carried /\ Listed
      /\ Outgoing /\ Handled /\ Flushed /\ Phases
  BY DEF Typed, Shapes, Known, Authors
<1>1. ASSUME NEW u \in Users, Writes(u) PROVE Handled'
  BY <1>1, <1>t DEF Writes, FromGrown, thread, tables, history, Handled, Ids, Threads
<1>2. ASSUME NEW u \in Users, DeleteHere(u) PROVE Handled'
  BY <1>2, <1>t DEF DeleteHere, Forget, thread, tables, Handled, Ids, Threads
<1>3. ASSUME NEW u \in Users, AsksDelete(u) PROVE Handled'
  BY <1>3, <1>t DEF AsksDelete, Forget, thread, tables, Handled, Ids, Threads
<1>4. ASSUME NEW u \in Users, NEW c \in Nat, AckRead(u, c) PROVE Handled'
  BY <1>4, <1>t DEF AckRead, InTaken, thread, tables, Handled, Ids, Threads
<1>5. ASSUME NEW u \in Users, NEW i \in Nat, MessageRead(u, i) PROVE Handled'
  BY <1>5, <1>t DEF MessageRead, InTaken, ReceiveMessage, thread, tables, Handled, Ids, Threads
<1>6. ASSUME NEW u \in Users, DeleteRead(u) PROVE Handled'
  BY <1>6, <1>t DEF DeleteRead, InTaken, ReceiveDelete, thread, tables, Handled, Ids, Threads
<1>7. ASSUME NEW u \in Users, Disconnect(u) PROVE Handled'
  BY <1>7, <1>t DEF Disconnect, thread, tables, Handled, Ids, Threads
<1>8. ASSUME NEW u \in Users, Login(u) PROVE Handled'
  BY <1>8, <1>t DEF Login, Goto, tables, history, Handled, Ids, Threads
<1>9. ASSUME NEW u \in Users, ReadsQueue(u) PROVE Handled'
  BY <1>9, <1>t DEF ReadsQueue, Goto, client, tables, history, Handled, Ids, Threads
<1>10. ASSUME NEW u \in Users, NEW i \in Nat, FlushSent(u, i) PROVE Handled'
  BY <1>10, <1>t DEF FlushSent, Handled, Ids, Threads
<1>11. ASSUME NEW u \in Users, FlushQuiet(u) PROVE Handled'
  BY <1>11, <1>t DEF FlushQuiet, client, tables, history, Handled, Ids, Threads
<1>12. ASSUME NEW u \in Users, ReadNotes(u) PROVE Handled'
  BY <1>12, <1>t DEF ReadNotes, Goto, client, tables, history, Handled, Ids, Threads
<1>13. ASSUME NEW u \in Users, ClearNotes(u) PROVE Handled'
  BY <1>13, <1>t DEF ClearNotes, Goto, client, Handled, Ids, Threads
<1>14. ASSUME NEW u \in Users, SendsNotes(u) PROVE Handled'
  BY <1>14, <1>t DEF SendsNotes, Goto, tables, Handled, Ids, Threads
<1>15. ASSUME NEW u \in Users, Register(u) PROVE Handled'
  BY <1>15, <1>t DEF Register, Goto, client, tables, history, Handled, Ids, Threads
<1>16. ASSUME NEW u \in Users, Leave(u) PROVE Handled'
  BY <1>16, <1>t DEF Leave, Goto, client, tables, history, Handled, Ids, Threads
<1>17. ASSUME NEW u \in Users, NEW i \in Nat, TakesMessage(u, i) PROVE Handled'
  <2>0. i \in Ids /\ from[i] = u
    BY <1>17, <1>t DEF TakesMessage, OutTaken, Shrunk, Outgoing
  <2> QED BY <1>17, <1>t, <2>0 DEF TakesMessage, OutTaken, Goto, tables, history, Handled, Ids,
     Threads
<1>18. ASSUME NEW u \in Users, NEW c \in Nat, TakesSync(u, c) PROVE Handled'
  BY <1>18, <1>t DEF TakesSync, OutTaken, Goto, tables, history, Handled, Ids, Threads
<1>19. ASSUME NEW u \in Users, TakesDelete(u) PROVE Handled'
  BY <1>19, <1>t DEF TakesDelete, OutTaken, Goto, tables, history, Handled, Ids, Threads
<1>20. ASSUME NEW u \in Users, Save(u) PROVE Handled'
  BY <1>20, <1>t DEF Save, Goto, client, history, Handled, Ids, Threads
<1>21. ASSUME NEW u \in Users, RouteSent(u) PROVE Handled'
  BY <1>21, <1>t DEF RouteSent, Goto, tables, history, Handled, Ids, Threads
<1>22. ASSUME NEW u \in Users, RouteAway(u) PROVE Handled'
  BY <1>22, <1>t DEF RouteAway, Goto, client, tables, history, Handled, Ids, Threads
<1>23. ASSUME NEW u \in Users, ReloadNone(u) PROVE Handled'
  BY <1>23, <1>t DEF ReloadNone, Goto, client, tables, history, Handled, Ids, Threads
<1>24. ASSUME NEW u \in Users, NEW m \in Nat, ReloadFound(u, m) PROVE Handled'
  BY <1>24, <1>t DEF ReloadFound, Goto, client, tables, history, Handled, Ids, Threads, Copies
<1>25. ASSUME NEW u \in Users, Queue(u) PROVE Handled'
  BY <1>25, <1>t DEF Queue, Goto, client, history, Handled, Ids, Threads
<1>26. ASSUME NEW u \in Users, ReadsHistory(u) PROVE Handled'
  BY <1>26, <1>t DEF ReadsHistory, Goto, client, tables, history, Handled, Ids, Threads
<1>27. ASSUME NEW u \in Users, NEW i \in Nat, ReplaySent(u, i) PROVE Handled'
  BY <1>27, <1>t DEF ReplaySent, tables, history, Handled, Ids, Threads
<1>28. ASSUME NEW u \in Users, ReplayDone(u) PROVE Handled'
  BY <1>28, <1>t DEF ReplayDone, Goto, client, tables, history, Handled, Ids, Threads
<1>29. ASSUME NEW u \in Users, Purge(u) PROVE Handled'
  BY <1>29, <1>t DEF Purge, Goto, client, tables, history, Handled, Ids, Threads
<1>30. ASSUME NEW u \in Users, EraseDone(u) PROVE Handled'
  BY <1>30, <1>t DEF EraseDone, Goto, client, Handled, Ids, Threads
<1>31. ASSUME NEW u \in Users, EraseFailed(u) PROVE Handled'
  BY <1>31, <1>t DEF EraseFailed, Goto, client, tables, history, Handled, Ids, Threads
<1>32. ASSUME NEW u \in Users, NotifySent(u) PROVE Handled'
  BY <1>32, <1>t DEF NotifySent, Goto, tables, Handled, Ids, Threads
<1>33. ASSUME NEW u \in Users, NotifyNote(u) PROVE Handled'
  BY <1>33, <1>t DEF NotifyNote, Goto, client, tables, history, Handled, Ids, Threads
<1>34. ASSUME NEW u \in Users, Note(u) PROVE Handled'
  BY <1>34, <1>t DEF Note, Goto, client, history, Handled, Ids, Threads
<1>35. CASE UNCHANGED vars
  BY <1>35, <1>t DEF vars, client, thread, tables, history, Handled, Ids, Threads
<1>36. ASSUME NEW u \in Users, Fails(u) PROVE Handled'
  BY <1>36, <1>t DEF Fails, Goto, client, tables, history, Handled, Ids, Threads
<1>37. ASSUME Crash PROVE Handled'
  BY <1>37, <1>t, TwoUsers DEF Crash, tables, Handled, Ids, Threads
<1>38. ASSUME NEW u \in Users, LoginFails(u) PROVE Handled'
  BY <1>38, <1>t DEF LoginFails, Goto, client, Handled, Ids, Threads
<1> QED BY <1>1, <1>2, <1>3, <1>4, <1>5, <1>6, <1>7, <1>8, <1>9, <1>10, <1>11, <1>12, <1>13,
   <1>14, <1>15, <1>16, <1>17, <1>18, <1>19, <1>20, <1>21, <1>22, <1>23, <1>24, <1>25, <1>26,
   <1>27, <1>28, <1>29, <1>30, <1>31, <1>32, <1>33, <1>34, <1>35, <1>36,
   <1>37, <1>38, StepCases DEF Cases, Typed

\* A login flushes the messages of the peer.
LEMMA FlushedStep ==
    ASSUME Typed, [Next]_vars
    PROVE  Flushed'
<1>t. Wires /\ Threads /\ Counters /\ Copies /\ Held /\ Carried /\ Listed
      /\ Outgoing /\ Handled /\ Flushed /\ Phases
  BY DEF Typed, Shapes, Known, Authors
<1>1. ASSUME NEW u \in Users, Writes(u) PROVE Flushed'
  BY <1>1, <1>t DEF Writes, FromGrown, thread, tables, history, Flushed, Threads, Listed, Ids
<1>2. ASSUME NEW u \in Users, DeleteHere(u) PROVE Flushed'
  BY <1>2, <1>t DEF DeleteHere, Forget, thread, tables, Flushed, Threads
<1>3. ASSUME NEW u \in Users, AsksDelete(u) PROVE Flushed'
  BY <1>3, <1>t DEF AsksDelete, Forget, thread, tables, Flushed, Threads
<1>4. ASSUME NEW u \in Users, NEW c \in Nat, AckRead(u, c) PROVE Flushed'
  BY <1>4, <1>t DEF AckRead, InTaken, thread, tables, Flushed, Threads
<1>5. ASSUME NEW u \in Users, NEW i \in Nat, MessageRead(u, i) PROVE Flushed'
  BY <1>5, <1>t DEF MessageRead, InTaken, ReceiveMessage, thread, tables, Flushed, Threads
<1>6. ASSUME NEW u \in Users, DeleteRead(u) PROVE Flushed'
  BY <1>6, <1>t DEF DeleteRead, InTaken, ReceiveDelete, thread, tables, Flushed, Threads
<1>7. ASSUME NEW u \in Users, Disconnect(u) PROVE Flushed'
  BY <1>7, <1>t DEF Disconnect, thread, tables, Flushed, Threads
<1>8. ASSUME NEW u \in Users, Login(u) PROVE Flushed'
  BY <1>8, <1>t DEF Login, Goto, tables, history, Flushed, Threads
<1>9. ASSUME NEW u \in Users, ReadsQueue(u) PROVE Flushed'
  BY <1>9, <1>t DEF ReadsQueue, PendRead, PendOnly, Goto, client, tables, history, Flushed,
     Threads
<1>10. ASSUME NEW u \in Users, NEW i \in Nat, FlushSent(u, i) PROVE Flushed'
  BY <1>10, <1>t DEF FlushSent, PendLess, PendOnly, Flushed, Threads
<1>11. ASSUME NEW u \in Users, FlushQuiet(u) PROVE Flushed'
  <2>0. PendLess(u)
    BY <1>11 DEF FlushQuiet
  <2>1. \A w \in Users : Within(pend'[w], pend[w])
    BY <2>0 DEF PendLess, PendOnly, Within
  <2>2. from' = from /\ pc' = pc
    BY <1>11 DEF FlushQuiet, client, tables, history
  <2> QED BY <1>t, <2>1, <2>2 DEF Flushed, Within
<1>12. ASSUME NEW u \in Users, ReadNotes(u) PROVE Flushed'
  BY <1>12, <1>t DEF ReadNotes, Goto, client, tables, history, Flushed, Threads
<1>13. ASSUME NEW u \in Users, ClearNotes(u) PROVE Flushed'
  BY <1>13, <1>t DEF ClearNotes, Goto, client, Flushed, Threads
<1>14. ASSUME NEW u \in Users, SendsNotes(u) PROVE Flushed'
  BY <1>14, <1>t DEF SendsNotes, Goto, tables, Flushed, Threads
<1>15. ASSUME NEW u \in Users, Register(u) PROVE Flushed'
  BY <1>15, <1>t DEF Register, Goto, client, tables, history, Flushed, Threads
<1>16. ASSUME NEW u \in Users, Leave(u) PROVE Flushed'
  BY <1>16, <1>t DEF Leave, Goto, client, tables, history, Flushed, Threads
<1>17. ASSUME NEW u \in Users, NEW i \in Nat, TakesMessage(u, i) PROVE Flushed'
  BY <1>17, <1>t DEF TakesMessage, OutTaken, Goto, tables, history, Flushed, Threads
<1>18. ASSUME NEW u \in Users, NEW c \in Nat, TakesSync(u, c) PROVE Flushed'
  BY <1>18, <1>t DEF TakesSync, OutTaken, Goto, tables, history, Flushed, Threads
<1>19. ASSUME NEW u \in Users, TakesDelete(u) PROVE Flushed'
  BY <1>19, <1>t DEF TakesDelete, OutTaken, Goto, tables, history, Flushed, Threads
<1>20. ASSUME NEW u \in Users, Save(u) PROVE Flushed'
  BY <1>20, <1>t DEF Save, Goto, client, history, Flushed, Threads
<1>21. ASSUME NEW u \in Users, RouteSent(u) PROVE Flushed'
  BY <1>21, <1>t DEF RouteSent, Goto, tables, history, Flushed, Threads
<1>22. ASSUME NEW u \in Users, RouteAway(u) PROVE Flushed'
  BY <1>22, <1>t DEF RouteAway, Goto, client, tables, history, Flushed, Threads
<1>23. ASSUME NEW u \in Users, ReloadNone(u) PROVE Flushed'
  BY <1>23, <1>t DEF ReloadNone, Goto, client, tables, history, Flushed, Threads
<1>24. ASSUME NEW u \in Users, NEW m \in Nat, ReloadFound(u, m) PROVE Flushed'
  BY <1>24, <1>t DEF ReloadFound, Goto, client, tables, history, Flushed, Threads
<1>25. ASSUME NEW u \in Users, Queue(u) PROVE Flushed'
  BY <1>25, <1>t DEF Queue, Goto, client, history, Flushed, Threads
<1>26. ASSUME NEW u \in Users, ReadsHistory(u) PROVE Flushed'
  BY <1>26, <1>t DEF ReadsHistory, PendRead, PendOnly, Goto, client, tables, history, Flushed,
     Threads
<1>27. ASSUME NEW u \in Users, NEW i \in Nat, ReplaySent(u, i) PROVE Flushed'
  <2>0. PendLess(u)
    BY <1>27 DEF ReplaySent
  <2>1. \A w \in Users : Within(pend'[w], pend[w])
    BY <2>0 DEF PendLess, PendOnly, Within
  <2>2. from' = from /\ pc' = pc
    BY <1>27 DEF ReplaySent, tables, history
  <2> QED BY <1>t, <2>1, <2>2 DEF Flushed, Within
<1>28. ASSUME NEW u \in Users, ReplayDone(u) PROVE Flushed'
  BY <1>28, <1>t DEF ReplayDone, Goto, client, tables, history, Flushed, Threads
<1>29. ASSUME NEW u \in Users, Purge(u) PROVE Flushed'
  BY <1>29, <1>t DEF Purge, Goto, client, tables, history, Flushed, Threads
<1>30. ASSUME NEW u \in Users, EraseDone(u) PROVE Flushed'
  BY <1>30, <1>t DEF EraseDone, Goto, client, Flushed, Threads
<1>31. ASSUME NEW u \in Users, EraseFailed(u) PROVE Flushed'
  BY <1>31, <1>t DEF EraseFailed, Goto, client, tables, history, Flushed, Threads
<1>32. ASSUME NEW u \in Users, NotifySent(u) PROVE Flushed'
  BY <1>32, <1>t DEF NotifySent, Goto, tables, Flushed, Threads
<1>33. ASSUME NEW u \in Users, NotifyNote(u) PROVE Flushed'
  BY <1>33, <1>t DEF NotifyNote, Goto, client, tables, history, Flushed, Threads
<1>34. ASSUME NEW u \in Users, Note(u) PROVE Flushed'
  BY <1>34, <1>t DEF Note, Goto, client, history, Flushed, Threads
<1>35. CASE UNCHANGED vars
  BY <1>35, <1>t DEF vars, client, thread, tables, history, Flushed, Threads
<1>36. ASSUME NEW u \in Users, Fails(u) PROVE Flushed'
  BY <1>36, <1>t DEF Fails, Goto, client, tables, history, Flushed, Threads
<1>37. ASSUME Crash PROVE Flushed'
  BY <1>37, <1>t, TwoUsers DEF Crash, tables, Flushed, Threads
<1>38. ASSUME NEW u \in Users, LoginFails(u) PROVE Flushed'
  BY <1>38, <1>t DEF LoginFails, Goto, client, Flushed, Threads
<1> QED BY <1>1, <1>2, <1>3, <1>4, <1>5, <1>6, <1>7, <1>8, <1>9, <1>10, <1>11, <1>12, <1>13,
   <1>14, <1>15, <1>16, <1>17, <1>18, <1>19, <1>20, <1>21, <1>22, <1>23, <1>24, <1>25, <1>26,
   <1>27, <1>28, <1>29, <1>30, <1>31, <1>32, <1>33, <1>34, <1>35, <1>36,
   <1>37, <1>38, StepCases DEF Cases, Typed

\* Threads have open transactions, sessions and notifications where they may.
LEMMA PhasesStep ==
    ASSUME Typed, [Next]_vars
    PROVE  Phases'
<1>t. Wires /\ Threads /\ Counters /\ Copies /\ Held /\ Carried /\ Listed
      /\ Outgoing /\ Handled /\ Flushed /\ Phases
  BY DEF Typed, Shapes, Known, Authors
<1>1. ASSUME NEW u \in Users, Writes(u) PROVE Phases'
  BY <1>1, <1>t DEF Writes, Asks, thread, tables, history, Phases, Threads, Wires, Counters,
     Arriving, Ready
<1>2. ASSUME NEW u \in Users, DeleteHere(u) PROVE Phases'
  BY <1>2, <1>t DEF DeleteHere, Forget, thread, tables, Phases, Threads, Wires, Counters,
     Arriving, Ready
<1>3. ASSUME NEW u \in Users, AsksDelete(u) PROVE Phases'
  BY <1>3, <1>t DEF AsksDelete, Forget, Asks, thread, tables, Phases, Threads, Wires, Counters,
     Arriving, Ready
<1>4. ASSUME NEW u \in Users, NEW c \in Nat, AckRead(u, c) PROVE Phases'
  BY <1>4, <1>t DEF AckRead, InTaken, Asks, thread, tables, Phases, Threads, Wires, Counters,
     Arriving
<1>5. ASSUME NEW u \in Users, NEW i \in Nat, MessageRead(u, i) PROVE Phases'
  BY <1>5, <1>t DEF MessageRead, InTaken, ReceiveMessage, thread, tables, Phases, Threads,
     Wires, Counters, Arriving
<1>6. ASSUME NEW u \in Users, DeleteRead(u) PROVE Phases'
  BY <1>6, <1>t DEF DeleteRead, InTaken, ReceiveDelete, thread, tables, Phases, Threads, Wires,
     Counters, Arriving
<1>7. ASSUME NEW u \in Users, Disconnect(u) PROVE Phases'
  BY <1>7, <1>t DEF Disconnect, thread, tables, Phases, Threads, Wires, Counters, Arriving
<1>8. ASSUME NEW u \in Users, Login(u) PROVE Phases'
  BY <1>8, <1>t DEF Login, Goto, tables, history, Phases, Threads, Wires, Counters, Arriving
<1>9. ASSUME NEW u \in Users, ReadsQueue(u) PROVE Phases'
  BY <1>9, <1>t DEF ReadsQueue, Goto, client, tables, history, Phases, Threads, Wires, Counters,
     Arriving
<1>10. ASSUME NEW u \in Users, NEW i \in Nat, FlushSent(u, i) PROVE Phases'
  BY <1>10, <1>t DEF FlushSent, Sent, Phases, Threads, Wires, Counters, Arriving
<1>11. ASSUME NEW u \in Users, FlushQuiet(u) PROVE Phases'
  BY <1>11, <1>t DEF FlushQuiet, client, tables, history, Phases, Threads, Wires, Counters,
     Arriving
<1>12. ASSUME NEW u \in Users, ReadNotes(u) PROVE Phases'
  BY <1>12, <1>t DEF ReadNotes, Goto, client, tables, history, Phases, Threads, Wires, Counters,
     Arriving
<1>13. ASSUME NEW u \in Users, ClearNotes(u) PROVE Phases'
  BY <1>13, <1>t DEF ClearNotes, Goto, client, Phases, Threads, Wires, Counters, Arriving
<1>14. ASSUME NEW u \in Users, SendsNotes(u) PROVE Phases'
  BY <1>14, <1>t DEF SendsNotes, Goto, tables, Phases, Threads, Wires, Counters, Arriving
<1>15. ASSUME NEW u \in Users, Register(u) PROVE Phases'
  BY <1>15, <1>t DEF Register, Goto, client, tables, history, Phases, Threads, Wires, Counters,
     Arriving
<1>16. ASSUME NEW u \in Users, Leave(u) PROVE Phases'
  BY <1>16, <1>t DEF Leave, Goto, client, tables, history, Phases, Threads, Wires, Counters,
     Arriving
<1>17. ASSUME NEW u \in Users, NEW i \in Nat, TakesMessage(u, i) PROVE Phases'
  BY <1>17, <1>t DEF TakesMessage, OutTaken, Goto, tables, history, Phases, Threads, Wires,
     Counters, Arriving
<1>18. ASSUME NEW u \in Users, NEW c \in Nat, TakesSync(u, c) PROVE Phases'
  BY <1>18, <1>t DEF TakesSync, OutTaken, Goto, tables, history, Phases, Threads, Wires,
     Counters, Arriving
<1>19. ASSUME NEW u \in Users, TakesDelete(u) PROVE Phases'
  BY <1>19, <1>t DEF TakesDelete, OutTaken, Goto, tables, history, Phases, Threads, Wires,
     Counters, Arriving
<1>20. ASSUME NEW u \in Users, Save(u) PROVE Phases'
  BY <1>20, <1>t DEF Save, Goto, client, history, Phases, Threads, Wires, Counters, Arriving
<1>21. ASSUME NEW u \in Users, RouteSent(u) PROVE Phases'
  BY <1>21, <1>t, TwoUsers DEF RouteSent, Sent, Goto, tables, history, Phases, Threads, Wires,
     Counters, Arriving
<1>22. ASSUME NEW u \in Users, RouteAway(u) PROVE Phases'
  BY <1>22, <1>t DEF RouteAway, Goto, client, tables, history, Phases, Threads, Wires, Counters,
     Arriving
<1>23. ASSUME NEW u \in Users, ReloadNone(u) PROVE Phases'
  BY <1>23, <1>t DEF ReloadNone, Goto, client, tables, history, Phases, Threads, Wires,
     Counters, Arriving
<1>24. ASSUME NEW u \in Users, NEW m \in Nat, ReloadFound(u, m) PROVE Phases'
  BY <1>24, <1>t DEF ReloadFound, Goto, client, tables, history, Phases, Threads, Wires,
     Counters, Arriving
<1>25. ASSUME NEW u \in Users, Queue(u) PROVE Phases'
  BY <1>25, <1>t DEF Queue, Goto, client, history, Phases, Threads, Wires, Counters, Arriving
<1>26. ASSUME NEW u \in Users, ReadsHistory(u) PROVE Phases'
  BY <1>26, <1>t DEF ReadsHistory, Goto, client, tables, history, Phases, Threads, Wires,
     Counters, Arriving
<1>27. ASSUME NEW u \in Users, NEW i \in Nat, ReplaySent(u, i) PROVE Phases'
  BY <1>27, <1>t DEF ReplaySent, Sent, tables, history, Phases, Threads, Wires, Counters,
     Arriving
<1>28. ASSUME NEW u \in Users, ReplayDone(u) PROVE Phases'
  BY <1>28, <1>t DEF ReplayDone, Goto, client, tables, history, Phases, Threads, Wires,
     Counters, Arriving
<1>29. ASSUME NEW u \in Users, Purge(u) PROVE Phases'
  BY <1>29, <1>t DEF Purge, Goto, client, tables, history, Phases, Threads, Wires, Counters,
     Arriving
<1>30. ASSUME NEW u \in Users, EraseDone(u) PROVE Phases'
  BY <1>30, <1>t DEF EraseDone, Goto, client, Phases, Threads, Wires, Counters, Arriving
<1>31. ASSUME NEW u \in Users, EraseFailed(u) PROVE Phases'
  BY <1>31, <1>t DEF EraseFailed, Goto, client, tables, history, Phases, Threads, Wires,
     Counters, Arriving
<1>32. ASSUME NEW u \in Users, NotifySent(u) PROVE Phases'
  BY <1>32, <1>t, TwoUsers DEF NotifySent, Sent, Goto, tables, Phases, Threads, Wires, Counters,
     Arriving
<1>33. ASSUME NEW u \in Users, NotifyNote(u) PROVE Phases'
  BY <1>33, <1>t DEF NotifyNote, Goto, client, tables, history, Phases, Threads, Wires,
     Counters, Arriving
<1>34. ASSUME NEW u \in Users, Note(u) PROVE Phases'
  BY <1>34, <1>t, TwoUsers DEF Note, Goto, client, history, Phases, Threads, Wires, Counters,
     Arriving
<1>35. CASE UNCHANGED vars
  BY <1>35, <1>t DEF vars, client, thread, tables, history, Phases, Threads, Wires, Counters,
     Arriving
<1>36. ASSUME NEW u \in Users, Fails(u) PROVE Phases'
  BY <1>36, <1>t DEF Fails, Goto, client, tables, history, Phases, Threads, Wires,
     Counters, Arriving
<1>37. ASSUME Crash PROVE Phases'
  BY <1>37, <1>t, TwoUsers DEF Crash, tables, Phases, Threads, Wires, Counters, Arriving
<1>38. ASSUME NEW u \in Users, LoginFails(u) PROVE Phases'
  BY <1>38, <1>t DEF LoginFails, Goto, client, Phases, Threads, Wires, Counters, Arriving
<1> QED BY <1>1, <1>2, <1>3, <1>4, <1>5, <1>6, <1>7, <1>8, <1>9, <1>10, <1>11, <1>12, <1>13,
   <1>14, <1>15, <1>16, <1>17, <1>18, <1>19, <1>20, <1>21, <1>22, <1>23, <1>24, <1>25, <1>26,
   <1>27, <1>28, <1>29, <1>30, <1>31, <1>32, <1>33, <1>34, <1>35, <1>36,
   <1>37, <1>38, StepCases DEF Cases, Typed

\* The types are kept.
LEMMA TypedStep == Typed /\ [Next]_vars => Typed'
BY WiresStep, ThreadsStep, CountersStep, CopiesStep, HeldStep, CarriedStep, ListedStep,
   OutgoingStep, HandledStep, FlushedStep, PhasesStep DEF Typed, Shapes, Known, Authors

\* They hold at first.
LEMMA TypedInit == Init => Typed
<1> SUFFICES ASSUME Init PROVE Typed
  OBVIOUS
<1>1. /\ <<>> \in Seq(ToClient) /\ <<>> \in Seq(ToServer) /\ <<>> \in Seq(Nat)
      /\ <<>> \in Seq(Users) /\ DOMAIN <<>> = {}
  OBVIOUS
<1>2. Wires
  BY <1>1 DEF Init, Wires
<1>3. Threads
  BY <1>1 DEF Init, Threads, Labels, Arriving
<1>4. Counters
  BY DEF Init, Counters
<1>5. Copies
  BY <1>1 DEF Init, Copies, Ids
<1>6. Held /\ Carried /\ Listed
  BY <1>1 DEF Init, Held, Carried, Listed
<1>7. Outgoing /\ Handled /\ Flushed
  BY <1>1 DEF Init, Outgoing, Handled, Flushed
<1>8. Phases
  BY DEF Init, Phases, Arriving
<1> QED BY <1>2, <1>3, <1>4, <1>5, <1>6, <1>7, <1>8 DEF Typed, Shapes, Known, Authors

-----------------------------------------------------------------------------
(***************************************************************************)
(* No more notifications than deletions.                                   *)
(***************************************************************************)
\* A waiting notification was asked for.
LEMMA BoundedStep ==
    ASSUME Typed, Bounded, [Next]_vars
    PROVE  Bounded'
<1>t. Wires /\ Threads /\ Counters /\ Copies /\ Held /\ Carried /\ Listed
      /\ Outgoing /\ Handled /\ Flushed /\ Phases
  BY DEF Typed, Shapes, Known, Authors
<1>b. Bounded
  OBVIOUS
<1>p. /\ pc \in [Users -> Labels] /\ batch \in [Users -> Nat]
      /\ notes \in [Users -> Nat] /\ asked \in Nat
  BY <1>t DEF Threads, Counters
<1>h. \A v \in Users : Hits(outbox[v], {Delete}) \in Nat
  BY <1>t, HitsFinite DEF Wires
<1>m. MaxDeletes \in Nat
  BY DeletionConstants
<1>1. ASSUME NEW u \in Users, Writes(u) PROVE Bounded'
  <2>0. Message(Len(from) + 1) \in ToServer /\ Message(Len(from) + 1) \notin {Delete}
    BY <1>1, PacketTypes, PacketKinds DEF Writes, FromGrown
  <2>1. outbox[u] \in Seq(ToServer) /\ outbox'[u] = Append(outbox[u], Message(Len(from) + 1))
    BY <1>1, <1>t DEF Writes, Asks, Wires
  <2>2. Hits(outbox'[u], {Delete}) = Hits(outbox[u], {Delete})
    <3>1. Hits(outbox[u], {Delete}) \in Nat
      BY <1>h
    <3>2. Hits(Append(outbox[u], Message(Len(from) + 1)), {Delete}) = Hits(outbox[u], {Delete}) + 0
      BY <2>0, <2>1, HitsAppend
    <3> QED BY <2>1, <3>1, <3>2
  <2>3. \A w \in Users \ {u} : outbox'[w] = outbox[w]
    BY <1>1 DEF Writes, Asks
  <2> QED BY <1>1, <1>p, <1>b, <1>h, <1>m, TwoUsers, <2>2, <2>3 DEF Writes, thread, tables,
     history, Bounded, Deleting
<1>2. ASSUME NEW u \in Users, DeleteHere(u) PROVE Bounded'
  <2>1. /\ outbox' = outbox /\ pc' = pc /\ batch' = batch /\ notes' = notes
        /\ asked' = asked + 1 /\ asked < MaxDeletes
    BY <1>2 DEF DeleteHere, Forget, thread, tables
  <2>2. \A v \in Users : Deleting(v)' = Deleting(v) /\ Deleting(v) \in {0, 1}
                          /\ notes[Other(v)] \in Nat
    BY <1>p, <2>1, TwoUsers DEF Deleting
  <2> QED BY <1>p, <1>b, <1>h, <1>m, <2>1, <2>2 DEF Bounded
<1>3. ASSUME NEW u \in Users, AsksDelete(u) PROVE Bounded'
  <2>0. Delete \in ToServer /\ Delete \in {Delete}
    BY PacketTypes
  <2>1. outbox[u] \in Seq(ToServer) /\ outbox'[u] = Append(outbox[u], Delete)
    BY <1>3, <1>t DEF AsksDelete, Asks, Wires
  <2>2. Hits(outbox'[u], {Delete}) = Hits(outbox[u], {Delete}) + 1
    <3>1. Hits(outbox[u], {Delete}) \in Nat
      BY <1>h
    <3>2. Hits(Append(outbox[u], Delete), {Delete}) = Hits(outbox[u], {Delete}) + 1
      BY <2>0, <2>1, HitsAppend
    <3> QED BY <2>1, <3>1, <3>2
  <2>3. \A w \in Users \ {u} : outbox'[w] = outbox[w]
    BY <1>3 DEF AsksDelete, Asks
  <2> QED BY <1>3, <1>p, <1>b, <1>h, <1>m, TwoUsers, <2>2, <2>3 DEF AsksDelete, Forget, thread,
     tables, Bounded, Deleting
<1>4. ASSUME NEW u \in Users, NEW c \in Nat, AckRead(u, c) PROVE Bounded'
  <2>0. Sync(c) \in ToServer /\ Sync(c) \notin {Delete}
    BY PacketTypes, PacketKinds
  <2>1. outbox[u] \in Seq(ToServer) /\ outbox'[u] = Append(outbox[u], Sync(c))
    BY <1>4, <1>t DEF AckRead, Asks, Wires
  <2>2. Hits(outbox'[u], {Delete}) = Hits(outbox[u], {Delete})
    <3>1. Hits(outbox[u], {Delete}) \in Nat
      BY <1>h
    <3>2. Hits(Append(outbox[u], Sync(c)), {Delete}) = Hits(outbox[u], {Delete}) + 0
      BY <2>0, <2>1, HitsAppend
    <3> QED BY <2>1, <3>1, <3>2
  <2>3. \A w \in Users \ {u} : outbox'[w] = outbox[w]
    BY <1>4 DEF AckRead, Asks
  <2> QED BY <1>4, <1>p, <1>b, <1>h, <1>m, TwoUsers, <2>2, <2>3 DEF AckRead, InTaken, thread,
     tables, Bounded, Deleting
<1>5. ASSUME NEW u \in Users, NEW i \in Nat, MessageRead(u, i) PROVE Bounded'
  BY <1>5, <1>p, <1>b, <1>h, <1>m, TwoUsers DEF MessageRead, InTaken, ReceiveMessage, thread,
     tables, Bounded, Deleting
<1>6. ASSUME NEW u \in Users, DeleteRead(u) PROVE Bounded'
  BY <1>6, <1>p, <1>b, <1>h, <1>m, TwoUsers DEF DeleteRead, InTaken, ReceiveDelete, thread,
     tables, Bounded, Deleting
<1>7. ASSUME NEW u \in Users, Disconnect(u) PROVE Bounded'
  <2>1. outbox'[u] = <<>> /\ \A w \in Users \ {u} : outbox'[w] = outbox[w]
    BY <1>7, <1>t DEF Disconnect, Wires
  <2>2. Hits(outbox'[u], {Delete}) = 0
    BY <2>1, HitsNone
  <2>f. pc' = pc /\ notes' = notes /\ batch' = batch /\ asked' = asked
    BY <1>7, <1>p DEF Disconnect, thread, tables
  <2>4. ASSUME NEW v \in Users
        PROVE  Hits(outbox'[v], {Delete}) + Deleting(v)' + notes'[Other(v)] <= asked'
    <3>1. /\ Hits(outbox[v], {Delete}) + Deleting(v) + notes[Other(v)] <= asked
          /\ Hits(outbox[v], {Delete}) \in Nat /\ notes[Other(v)] \in Nat
          /\ Other(v) \in Users /\ Other(v) # v /\ asked \in Nat
      BY <1>b, <1>h, <1>p, TwoUsers DEF Bounded
    <3>2. CASE v = u
      BY <1>p, <2>f, <2>1, <2>2, <3>1, <3>2 DEF Deleting
    <3>3. CASE v # u
      <4>1. Other(v) = u
        BY <3>3, TwoUsers
      <4> QED BY <1>p, <2>f, <2>1, <2>2, <3>1, <3>3, <4>1 DEF Deleting
    <3> QED BY <3>2, <3>3
  <2>5. asked' <= MaxDeletes /\ \A v \in Users : batch'[v] <= MaxDeletes
    BY <1>p, <1>b, <1>m, <2>f DEF Bounded
  <2> QED BY <2>4, <2>5 DEF Bounded
<1>8. ASSUME NEW u \in Users, Login(u) PROVE Bounded'
  BY <1>8, <1>p, <1>b, <1>h, <1>m, TwoUsers DEF Login, Goto, tables, history, Bounded, Deleting
<1>9. ASSUME NEW u \in Users, ReadsQueue(u) PROVE Bounded'
  BY <1>9, <1>p, <1>b, <1>h, <1>m, TwoUsers DEF ReadsQueue, Goto, client, tables, history,
     Bounded, Deleting
<1>10. ASSUME NEW u \in Users, NEW i \in Nat, FlushSent(u, i) PROVE Bounded'
  BY <1>10, <1>p, <1>b, <1>h, <1>m, TwoUsers DEF FlushSent, Bounded, Deleting
<1>11. ASSUME NEW u \in Users, FlushQuiet(u) PROVE Bounded'
  BY <1>11, <1>p, <1>b, <1>h, <1>m, TwoUsers DEF FlushQuiet, client, tables, history, Bounded,
     Deleting
<1>12. ASSUME NEW u \in Users, ReadNotes(u) PROVE Bounded'
  <2>n. notes[u] <= MaxDeletes /\ notes[u] \in Nat
    <3>1. /\ Hits(outbox[Other(u)], {Delete}) + Deleting(Other(u)) + notes[u] <= asked
          /\ Hits(outbox[Other(u)], {Delete}) \in Nat /\ asked <= MaxDeletes
      BY <1>b, <1>h, TwoUsers DEF Bounded
    <3>2. Deleting(Other(u)) \in {0, 1}
      BY DEF Deleting
    <3> QED BY <1>p, <1>m, <3>1, <3>2
  <2>f. /\ pc' = [pc EXCEPT ![u] = "clear"] /\ batch' = [batch EXCEPT ![u] = notes[u]]
        /\ notes' = notes /\ outbox' = outbox /\ asked' = asked
    BY <1>12, <1>p DEF ReadNotes, Goto, client, tables, history
  <2>4. ASSUME NEW v \in Users
        PROVE  Hits(outbox'[v], {Delete}) + Deleting(v)' + notes'[Other(v)] <= asked'
    <3>1. /\ Hits(outbox[v], {Delete}) + Deleting(v) + notes[Other(v)] <= asked
          /\ Hits(outbox[v], {Delete}) \in Nat /\ notes[Other(v)] \in Nat
          /\ Other(v) \in Users /\ Other(v) # v /\ asked \in Nat
      BY <1>b, <1>h, <1>p, TwoUsers DEF Bounded
    <3>2. CASE v = u
      BY <1>p, <2>f, <3>1, <3>2 DEF Deleting
    <3>3. CASE v # u
      <4>1. Other(v) = u
        BY <3>3, TwoUsers
      <4> QED BY <1>p, <2>f, <3>1, <3>3, <4>1 DEF Deleting
    <3> QED BY <3>2, <3>3
  <2>5. asked' <= MaxDeletes /\ \A v \in Users : batch'[v] <= MaxDeletes
    BY <1>p, <1>b, <1>m, <2>f, <2>n DEF Bounded
  <2> QED BY <2>4, <2>5 DEF Bounded
<1>13. ASSUME NEW u \in Users, ClearNotes(u) PROVE Bounded'
  <2>1. /\ pc[u] = "clear" /\ pc' = [pc EXCEPT ![u] = "notes"] /\ outbox' = outbox
        /\ batch' = batch /\ asked' = asked
        /\ notes' = [notes EXCEPT ![u] = 0]
    BY <1>13 DEF ClearNotes, Goto, client
  <2>2. ASSUME NEW v \in Users
        PROVE  Hits(outbox[v], {Delete}) + Deleting(v)' + notes'[Other(v)] <= asked
    <3>1. /\ Hits(outbox[v], {Delete}) + Deleting(v) + notes[Other(v)] <= asked
          /\ Hits(outbox[v], {Delete}) \in Nat /\ notes[Other(v)] \in Nat /\ asked \in Nat
      BY <1>b, <1>h, <1>p, TwoUsers DEF Bounded
    <3>2. Deleting(v)' \in {0, 1} /\ Deleting(v) \in {0, 1} /\ Deleting(v)' <= Deleting(v)
      BY <1>p, <2>1 DEF Deleting
    <3>3. notes'[Other(v)] \in Nat /\ notes'[Other(v)] <= notes[Other(v)]
      BY <1>p, <2>1, TwoUsers
    <3> QED BY <3>1, <3>2, <3>3
  <2> QED BY <1>b, <2>1, <2>2 DEF Bounded
<1>14. ASSUME NEW u \in Users, SendsNotes(u) PROVE Bounded'
  <2>f. /\ pc' = [pc EXCEPT ![u] = "register"] /\ batch' = [batch EXCEPT ![u] = 0]
        /\ notes' = notes /\ outbox' = outbox /\ asked' = asked
    BY <1>14, <1>p DEF SendsNotes, Goto, tables
  <2>4. ASSUME NEW v \in Users
        PROVE  Hits(outbox'[v], {Delete}) + Deleting(v)' + notes'[Other(v)] <= asked'
    <3>1. /\ Hits(outbox[v], {Delete}) + Deleting(v) + notes[Other(v)] <= asked
          /\ Hits(outbox[v], {Delete}) \in Nat /\ notes[Other(v)] \in Nat
          /\ Other(v) \in Users /\ Other(v) # v /\ asked \in Nat
      BY <1>b, <1>h, <1>p, TwoUsers DEF Bounded
    <3>2. CASE v = u
      BY <1>p, <2>f, <3>1, <3>2 DEF Deleting
    <3>3. CASE v # u
      <4>1. Other(v) = u
        BY <3>3, TwoUsers
      <4> QED BY <1>p, <2>f, <3>1, <3>3, <4>1 DEF Deleting
    <3> QED BY <3>2, <3>3
  <2>5. asked' <= MaxDeletes /\ \A v \in Users : batch'[v] <= MaxDeletes
    BY <1>p, <1>b, <1>m, <2>f DEF Bounded
  <2> QED BY <2>4, <2>5 DEF Bounded
<1>15. ASSUME NEW u \in Users, Register(u) PROVE Bounded'
  BY <1>15, <1>p, <1>b, <1>h, <1>m, TwoUsers DEF Register, Goto, client, tables, history,
     Bounded, Deleting
<1>16. ASSUME NEW u \in Users, Leave(u) PROVE Bounded'
  BY <1>16, <1>p, <1>b, <1>h, <1>m, TwoUsers DEF Leave, Goto, client, tables, history, Bounded,
     Deleting
<1>17. ASSUME NEW u \in Users, NEW i \in Nat, TakesMessage(u, i) PROVE Bounded'
  <2>1. outbox[u] \in Seq(ToServer) /\ outbox[u] # <<>> /\ outbox'[u] = Tail(outbox[u])
    BY <1>17, <1>t DEF TakesMessage, OutTaken, Wires
  <2>0. Head(outbox[u]) \notin {Delete}
    BY <1>17, PacketKinds DEF TakesMessage, OutTaken, Shrunk
  <2>2. Hits(outbox'[u], {Delete}) = Hits(outbox[u], {Delete})
    <3>1. Hits(outbox[u], {Delete}) \in Nat
      BY <1>h
    <3>2. Hits(Tail(outbox[u]), {Delete}) = Hits(outbox[u], {Delete}) - 0
      BY <2>0, <2>1, HitsTail
    <3> QED BY <2>1, <3>1, <3>2
  <2>3. \A w \in Users \ {u} : outbox'[w] = outbox[w]
    BY <1>17 DEF TakesMessage, OutTaken
  <2> QED BY <1>17, <1>p, <1>b, <1>h, <1>m, TwoUsers, <2>2, <2>3 DEF TakesMessage, OutTaken,
     Goto, tables, history, Bounded, Deleting
<1>18. ASSUME NEW u \in Users, NEW c \in Nat, TakesSync(u, c) PROVE Bounded'
  <2>1. outbox[u] \in Seq(ToServer) /\ outbox[u] # <<>> /\ outbox'[u] = Tail(outbox[u])
    BY <1>18, <1>t DEF TakesSync, OutTaken, Wires
  <2>0. Head(outbox[u]) \notin {Delete}
    BY <1>18, PacketKinds DEF TakesSync, OutTaken, Shrunk
  <2>2. Hits(outbox'[u], {Delete}) = Hits(outbox[u], {Delete})
    <3>1. Hits(outbox[u], {Delete}) \in Nat
      BY <1>h
    <3>2. Hits(Tail(outbox[u]), {Delete}) = Hits(outbox[u], {Delete}) - 0
      BY <2>0, <2>1, HitsTail
    <3> QED BY <2>1, <3>1, <3>2
  <2>3. \A w \in Users \ {u} : outbox'[w] = outbox[w]
    BY <1>18 DEF TakesSync, OutTaken
  <2> QED BY <1>18, <1>p, <1>b, <1>h, <1>m, TwoUsers, <2>2, <2>3 DEF TakesSync, OutTaken, Goto,
     tables, history, Bounded, Deleting
<1>19. ASSUME NEW u \in Users, TakesDelete(u) PROVE Bounded'
  <2>1. outbox[u] \in Seq(ToServer) /\ outbox[u] # <<>> /\ outbox'[u] = Tail(outbox[u])
    BY <1>19, <1>t DEF TakesDelete, OutTaken, Wires
  <2>0. Head(outbox[u]) \in {Delete}
    BY <1>19, PacketKinds DEF TakesDelete, OutTaken, Shrunk
  <2>2. Hits(outbox'[u], {Delete}) = Hits(outbox[u], {Delete}) - 1
    <3>1. Hits(outbox[u], {Delete}) \in Nat
      BY <1>h
    <3>2. Hits(Tail(outbox[u]), {Delete}) = Hits(outbox[u], {Delete}) - 1
      BY <2>0, <2>1, HitsTail
    <3> QED BY <2>1, <3>1, <3>2
  <2>3. \A w \in Users \ {u} : outbox'[w] = outbox[w]
    BY <1>19 DEF TakesDelete, OutTaken
  <2>f. /\ pc[u] = "idle" /\ pc' = [pc EXCEPT ![u] = "purge"]
        /\ notes' = notes /\ batch' = batch /\ asked' = asked
    BY <1>19, <1>p DEF TakesDelete, OutTaken, Goto, tables, history
  <2>4. ASSUME NEW v \in Users
        PROVE  Hits(outbox'[v], {Delete}) + Deleting(v)' + notes'[Other(v)] <= asked'
    <3>1. /\ Hits(outbox[v], {Delete}) + Deleting(v) + notes[Other(v)] <= asked
          /\ Hits(outbox[v], {Delete}) \in Nat /\ notes[Other(v)] \in Nat
          /\ Other(v) \in Users /\ Other(v) # v /\ asked \in Nat
      BY <1>b, <1>h, <1>p, TwoUsers DEF Bounded
    <3>2. CASE v = u
      BY <1>p, <2>f, <2>2, <2>3, <3>1, <3>2 DEF Deleting
    <3>3. CASE v # u
      <4>1. Other(v) = u
        BY <3>3, TwoUsers
      <4> QED BY <1>p, <2>f, <2>2, <2>3, <3>1, <3>3, <4>1 DEF Deleting
    <3> QED BY <3>2, <3>3
  <2>5. asked' <= MaxDeletes /\ \A v \in Users : batch'[v] <= MaxDeletes
    BY <1>p, <1>b, <1>m, <2>f DEF Bounded
  <2> QED BY <2>4, <2>5 DEF Bounded
<1>20. ASSUME NEW u \in Users, Save(u) PROVE Bounded'
  BY <1>20, <1>p, <1>b, <1>h, <1>m, TwoUsers DEF Save, Goto, client, history, Bounded, Deleting
<1>21. ASSUME NEW u \in Users, RouteSent(u) PROVE Bounded'
  BY <1>21, <1>p, <1>b, <1>h, <1>m, TwoUsers DEF RouteSent, Goto, tables, history, Bounded,
     Deleting
<1>22. ASSUME NEW u \in Users, RouteAway(u) PROVE Bounded'
  BY <1>22, <1>p, <1>b, <1>h, <1>m, TwoUsers DEF RouteAway, Goto, client, tables, history,
     Bounded, Deleting
<1>23. ASSUME NEW u \in Users, ReloadNone(u) PROVE Bounded'
  BY <1>23, <1>p, <1>b, <1>h, <1>m, TwoUsers DEF ReloadNone, Goto, client, tables, history,
     Bounded, Deleting
<1>24. ASSUME NEW u \in Users, NEW m \in Nat, ReloadFound(u, m) PROVE Bounded'
  BY <1>24, <1>p, <1>b, <1>h, <1>m, TwoUsers DEF ReloadFound, Goto, client, tables, history,
     Bounded, Deleting
<1>25. ASSUME NEW u \in Users, Queue(u) PROVE Bounded'
  BY <1>25, <1>p, <1>b, <1>h, <1>m, TwoUsers DEF Queue, Goto, client, history, Bounded, Deleting
<1>26. ASSUME NEW u \in Users, ReadsHistory(u) PROVE Bounded'
  BY <1>26, <1>p, <1>b, <1>h, <1>m, TwoUsers DEF ReadsHistory, Goto, client, tables, history,
     Bounded, Deleting
<1>27. ASSUME NEW u \in Users, NEW i \in Nat, ReplaySent(u, i) PROVE Bounded'
  BY <1>27, <1>p, <1>b, <1>h, <1>m, TwoUsers DEF ReplaySent, tables, history, Bounded, Deleting
<1>28. ASSUME NEW u \in Users, ReplayDone(u) PROVE Bounded'
  BY <1>28, <1>p, <1>b, <1>h, <1>m, TwoUsers DEF ReplayDone, Goto, client, tables, history,
     Bounded, Deleting
<1>29. ASSUME NEW u \in Users, Purge(u) PROVE Bounded'
  BY <1>29, <1>p, <1>b, <1>h, <1>m, TwoUsers DEF Purge, Goto, client, tables, history, Bounded,
     Deleting
<1>30. ASSUME NEW u \in Users, EraseDone(u) PROVE Bounded'
  BY <1>30, <1>p, <1>b, <1>h, <1>m, TwoUsers DEF EraseDone, Goto, client, Bounded, Deleting
<1>31. ASSUME NEW u \in Users, EraseFailed(u) PROVE Bounded'
  BY <1>31, <1>p, <1>b, <1>h, <1>m, TwoUsers DEF EraseFailed, Goto, client, tables, history,
     Bounded, Deleting
<1>32. ASSUME NEW u \in Users, NotifySent(u) PROVE Bounded'
  <2>1. /\ pc[u] = "notify" /\ pc' = [pc EXCEPT ![u] = "idle"] /\ outbox' = outbox
        /\ batch' = batch /\ asked' = asked
        /\ notes' = notes
    BY <1>32 DEF NotifySent, Goto, tables
  <2>2. ASSUME NEW v \in Users
        PROVE  Hits(outbox[v], {Delete}) + Deleting(v)' + notes'[Other(v)] <= asked
    <3>1. /\ Hits(outbox[v], {Delete}) + Deleting(v) + notes[Other(v)] <= asked
          /\ Hits(outbox[v], {Delete}) \in Nat /\ notes[Other(v)] \in Nat /\ asked \in Nat
      BY <1>b, <1>h, <1>p, TwoUsers DEF Bounded
    <3>2. Deleting(v)' \in {0, 1} /\ Deleting(v) \in {0, 1} /\ Deleting(v)' <= Deleting(v)
      BY <1>p, <2>1 DEF Deleting
    <3>3. notes'[Other(v)] \in Nat /\ notes'[Other(v)] <= notes[Other(v)]
      BY <1>p, <2>1, TwoUsers
    <3> QED BY <3>1, <3>2, <3>3
  <2> QED BY <1>b, <2>1, <2>2 DEF Bounded
<1>33. ASSUME NEW u \in Users, NotifyNote(u) PROVE Bounded'
  BY <1>33, <1>p, <1>b, <1>h, <1>m, TwoUsers DEF NotifyNote, Goto, client, tables, history,
     Bounded, Deleting
<1>34. ASSUME NEW u \in Users, Note(u) PROVE Bounded'
  <2>o. Other(u) \in Users /\ Other(u) # u
    BY TwoUsers
  <2>f. /\ pc[u] = "note" /\ pc' = [pc EXCEPT ![u] = "idle"]
        /\ notes' = [notes EXCEPT ![Other(u)] = notes[Other(u)] + 1]
        /\ outbox' = outbox /\ batch' = batch /\ asked' = asked
    BY <1>34, <1>p DEF Note, Goto, client, history
  <2>4. ASSUME NEW v \in Users
        PROVE  Hits(outbox'[v], {Delete}) + Deleting(v)' + notes'[Other(v)] <= asked'
    <3>1. /\ Hits(outbox[v], {Delete}) + Deleting(v) + notes[Other(v)] <= asked
          /\ Hits(outbox[v], {Delete}) \in Nat /\ notes[Other(v)] \in Nat
          /\ Other(v) \in Users /\ Other(v) # v /\ asked \in Nat
      BY <1>b, <1>h, <1>p, TwoUsers DEF Bounded
    <3>2. CASE v = u
      BY <1>p, <2>f, <3>1, <3>2 DEF Deleting
    <3>3. CASE v # u
      <4>1. Other(v) = u
        BY <3>3, TwoUsers
      <4> QED BY <1>p, <2>f, <3>1, <3>3, <4>1, <2>o DEF Deleting
    <3> QED BY <3>2, <3>3
  <2>5. asked' <= MaxDeletes /\ \A v \in Users : batch'[v] <= MaxDeletes
    BY <1>p, <1>b, <1>m, <2>f DEF Bounded
  <2> QED BY <2>4, <2>5 DEF Bounded
<1>35. CASE UNCHANGED vars
  BY <1>35, <1>t, <1>b DEF vars, client, thread, tables, history, Bounded, Deleting
<1>36. ASSUME NEW u \in Users, Fails(u) PROVE Bounded'
  <2>1. /\ pc' = [pc EXCEPT ![u] = "idle"] /\ outbox' = outbox /\ batch' = batch
        /\ notes' = notes /\ asked' = asked
    BY <1>36 DEF Fails, Goto, client, tables
  <2>2. ASSUME NEW v \in Users
        PROVE  Hits(outbox[v], {Delete}) + Deleting(v)' + notes[Other(v)] <= asked
    <3>1. /\ Hits(outbox[v], {Delete}) + Deleting(v) + notes[Other(v)] <= asked
          /\ Hits(outbox[v], {Delete}) \in Nat /\ notes[Other(v)] \in Nat /\ asked \in Nat
      BY <1>b, <1>h, <1>p, TwoUsers DEF Bounded
    <3>2. Deleting(v)' \in {0, 1} /\ Deleting(v) \in {0, 1} /\ Deleting(v)' <= Deleting(v)
      BY <1>p, <2>1 DEF Deleting
    <3> QED BY <3>1, <3>2
  <2> QED BY <1>b, <2>1, <2>2 DEF Bounded
<1>37. ASSUME Crash PROVE Bounded'
  <2>1. /\ \A v \in Users : outbox'[v] = <<>> /\ pc'[v] = "off" /\ batch'[v] = 0
        /\ notes' = notes /\ asked' = asked
    BY <1>37 DEF Crash, tables
  <2>2. Hits(<<>>, {Delete}) = 0
    BY HitsNone
  <2>3. ASSUME NEW v \in Users PROVE notes[Other(v)] <= asked
    <3>1. /\ Hits(outbox[v], {Delete}) + Deleting(v) + notes[Other(v)] <= asked
          /\ Hits(outbox[v], {Delete}) \in Nat /\ notes[Other(v)] \in Nat
          /\ Deleting(v) \in {0, 1} /\ asked \in Nat
      BY <1>b, <1>h, <1>p, TwoUsers DEF Bounded, Deleting
    <3> QED BY <3>1
  <2>4. \A v \in Users : Deleting(v)' = 0 /\ notes[Other(v)] \in Nat /\ batch'[v] <= MaxDeletes
    BY <1>p, <1>m, <2>1, TwoUsers DEF Deleting
  <2> QED BY <1>b, <2>1, <2>2, <2>3, <2>4 DEF Bounded
<1>38. ASSUME NEW u \in Users, LoginFails(u) PROVE Bounded'
  <2>1. /\ pc' = [pc EXCEPT ![u] = "idle"] /\ outbox' = outbox
        /\ batch' = [batch EXCEPT ![u] = 0] /\ asked' = asked
        /\ notes' = notes \/ notes' = [notes EXCEPT ![u] = 0]
    BY <1>38 DEF LoginFails, Goto, client
  <2>2. ASSUME NEW v \in Users
        PROVE  Hits(outbox[v], {Delete}) + Deleting(v)' + notes'[Other(v)] <= asked
    <3>1. /\ Hits(outbox[v], {Delete}) + Deleting(v) + notes[Other(v)] <= asked
          /\ Hits(outbox[v], {Delete}) \in Nat /\ notes[Other(v)] \in Nat /\ asked \in Nat
      BY <1>b, <1>h, <1>p, TwoUsers DEF Bounded
    <3>2. Deleting(v)' \in {0, 1} /\ Deleting(v) \in {0, 1} /\ Deleting(v)' <= Deleting(v)
      BY <1>p, <2>1 DEF Deleting
    <3>3. notes'[Other(v)] \in Nat /\ notes'[Other(v)] <= notes[Other(v)]
      BY <1>p, <2>1, TwoUsers
    <3> QED BY <3>1, <3>2, <3>3
  <2>3. \A v \in Users : batch'[v] <= MaxDeletes
    BY <1>b, <1>m, <1>p, <2>1 DEF Bounded
  <2> QED BY <1>b, <2>1, <2>2, <2>3 DEF Bounded
<1> QED BY <1>1, <1>2, <1>3, <1>4, <1>5, <1>6, <1>7, <1>8, <1>9, <1>10, <1>11, <1>12, <1>13,
   <1>14, <1>15, <1>16, <1>17, <1>18, <1>19, <1>20, <1>21, <1>22, <1>23, <1>24, <1>25, <1>26,
   <1>27, <1>28, <1>29, <1>30, <1>31, <1>32, <1>33, <1>34, <1>35, <1>36,
   <1>37, <1>38, StepCases DEF Cases, Typed

\* Nothing waits at first.
LEMMA BoundedInit == Init => Bounded
<1> SUFFICES ASSUME Init PROVE Bounded
  OBVIOUS
<1>1. Hits(<<>>, {Delete}) = 0
  BY HitsNone
<1>2. MaxDeletes \in Nat
  BY DeletionConstants
<1> QED BY <1>1, <1>2, TwoUsers DEF Init, Bounded, Deleting

\* The bound of a counter, and the types, give the type invariant.
LEMMA TypedBounded == Typed /\ Bounded => TypeOK
<1> SUFFICES ASSUME Typed, Bounded PROVE TypeOK
  OBVIOUS
<1>1. Wires /\ Threads /\ Counters /\ Copies /\ Held /\ Phases
  BY DEF Typed, Shapes, Known
<1>2. \A v \in Users : Hits(outbox[v], {Delete}) \in Nat
  BY <1>1, HitsFinite DEF Wires
<1>3. ASSUME NEW u \in Users PROVE notes[u] \in 0..MaxDeletes /\ batch[u] \in 0..MaxDeletes
  <2>1. Hits(outbox[Other(u)], {Delete}) + Deleting(Other(u)) + notes[u] <= asked
    BY TwoUsers DEF Bounded
  <2>2. Deleting(Other(u)) \in {0, 1} /\ Hits(outbox[Other(u)], {Delete}) \in Nat
    BY <1>2, TwoUsers DEF Deleting
  <2>3. MaxDeletes \in Nat
    BY DeletionConstants
  <2>4. notes[u] \in Nat /\ batch[u] \in Nat /\ asked \in Nat
    BY <1>1 DEF Counters
  <2> QED BY <2>1, <2>2, <2>3, <2>4 DEF Bounded
<1>4. rows \cup erased \subseteq Ids /\ queue \subseteq rows
  BY <1>1 DEF Copies
<1>5. \A u \in Users : /\ store[u] \cup hidden[u] \cup crossed[u] \subseteq Ids
                       /\ cleared[u] # {} => pc[u] = "erase"
                       /\ u \in reg => pc[u] \notin Arriving
  BY <1>1 DEF Held, Phases
<1> QED BY <1>1, <1>3, <1>4, <1>5 DEF TypeOK, Wires, Threads, Arriving

(***************************************************************************)
(* TypeOK: tables, threads and packets keep their types; a queue row has   *)
(* its message, only deleteConversation has an open transaction, and no    *)
(* more notifications wait for a user than deletions were asked for.       *)
(***************************************************************************)
THEOREM DeletionTypes == Spec => []TypeOK
<1>1. Init => Typed /\ Bounded
  BY TypedInit, BoundedInit
<1>2. Typed /\ Bounded /\ [Next]_vars => (Typed /\ Bounded)'
  BY TypedStep, BoundedStep
<1>3. Typed /\ Bounded => TypeOK
  BY TypedBounded
<1> QED BY <1>1, <1>2, <1>3, PTL DEF Spec

-----------------------------------------------------------------------------
(***************************************************************************)
(* What queues hold.                                                       *)
(***************************************************************************)
\* A packet is added: the queue has it too.
LEMMA HasGrown ==
    ASSUME NEW s, NEW t, NEW p, Grown(s, t, p)
    PROVE  \A x : Has(t, x) <=> Has(s, x) \/ x = p
BY DEF Grown, Has

\* The packet in front is taken: the queue has all others.
LEMMA HasShrunk ==
    ASSUME NEW s, NEW t, Shrunk(s, t)
    PROVE  \A x : /\ Has(t, x) => Has(s, x)
                  /\ Has(s, x) => s[1] = x \/ Has(t, x)
<1>1. \A k \in DOMAIN t : k + 1 \in DOMAIN s /\ t[k] = s[k + 1]
  BY DEF Shrunk
<1>2. \A k \in DOMAIN s : k = 1 \/ (k - 1 \in DOMAIN t /\ t[k - 1] = s[k])
  BY DEF Shrunk
<1> QED BY <1>1, <1>2 DEF Has

\* An empty queue has nothing.
LEMMA HasEmpty == \A x, d, n : ~Has(<<>>, x) /\ ~Past(<<>>, n, x) /\ After(<<>>, x, d)
<1>1. DOMAIN <<>> = {}
  OBVIOUS
<1> QED BY <1>1 DEF Has, Past, After

\* What is behind every d stays there when something else is added.
LEMMA AfterGrown ==
    ASSUME NEW s, NEW t, NEW p, Grown(s, t, p), NEW d, p # d
    PROVE  \A x : After(s, x, d) => After(t, x, d)
<1> SUFFICES ASSUME NEW x, After(s, x, d), NEW j \in DOMAIN t, NEW k \in DOMAIN t,
                    t[j] = x, t[k] = d
             PROVE  k < j
  BY DEF After
<1>1. k \in DOMAIN s /\ s[k] = d /\ k < Len(s) + 1
  BY DEF Grown
<1>2. CASE j \in DOMAIN s
  <2>1. s[j] = x
    BY <1>2 DEF Grown
  <2> QED BY <1>1, <1>2, <2>1 DEF After
<1>3. CASE j = Len(s) + 1
  BY <1>1, <1>3
<1> QED BY <1>2, <1>3 DEF Grown

\* ... and when the packet in front is taken.
LEMMA AfterShrunk ==
    ASSUME NEW s, NEW t, Shrunk(s, t)
    PROVE  \A x, d : After(s, x, d) => After(t, x, d)
<1> SUFFICES ASSUME NEW x, NEW d, After(s, x, d), NEW j \in DOMAIN t, NEW k \in DOMAIN t,
                    t[j] = x, t[k] = d
             PROVE  k < j
  BY DEF After
<1>1. /\ j + 1 \in DOMAIN s /\ s[j + 1] = x /\ j \in Nat
      /\ k + 1 \in DOMAIN s /\ s[k + 1] = d /\ k \in Nat
  BY DEF Shrunk
<1>2. k + 1 < j + 1
  BY <1>1 DEF After
<1> QED BY <1>1, <1>2

\* A packet in front that is behind every d is followed by none.
LEMMA AfterFirst ==
    ASSUME NEW s, NEW t, Shrunk(s, t), NEW d, After(s, s[1], d)
    PROVE  ~Has(t, d)
<1> SUFFICES ASSUME NEW k \in DOMAIN t, t[k] = d PROVE FALSE
  BY DEF Has
<1>1. k + 1 \in DOMAIN s /\ s[k + 1] = d /\ k \in Nat /\ 1 \in DOMAIN s /\ k >= 1
  BY DEF Shrunk
<1>2. k + 1 < 1
  BY <1>1 DEF After
<1> QED BY <1>1, <1>2

\* A packet that is added is behind those there are.
LEMMA PastGrown ==
    ASSUME NEW s, NEW t, NEW p, Grown(s, t, p)
    PROVE  /\ \A n, x : Past(s, n, x) => Past(t, n, x)
           /\ \A n \in DOMAIN s : Past(t, n, p)
           /\ Past(t, 0, p)
<1>1. /\ \A k \in DOMAIN s : k \in DOMAIN t /\ t[k] = s[k] /\ k < Len(s) + 1 /\ k \in Nat
      /\ Len(s) + 1 \in DOMAIN t /\ t[Len(s) + 1] = p /\ Len(s) \in Nat
  BY DEF Grown
<1>2. \A n, x : Past(s, n, x) => Past(t, n, x)
  BY <1>1 DEF Past
<1>3. ASSUME NEW n \in DOMAIN s PROVE Past(t, n, p)
  <2>1. Len(s) + 1 > n
    BY <1>1
  <2> QED BY <1>1, <2>1 DEF Past
<1>4. Past(t, 0, p)
  <2>1. Len(s) + 1 > 0
    BY <1>1
  <2> QED BY <1>1, <2>1 DEF Past
<1> QED BY <1>2, <1>3, <1>4

\* Positions move by one when the packet in front is taken.
LEMMA PastShrunk ==
    ASSUME NEW s, NEW t, Shrunk(s, t)
    PROVE  /\ \A n \in DOMAIN t : \A x : Past(s, n + 1, x) => Past(t, n, x)
           /\ \A x : Past(s, 1, x) => Past(t, 0, x)
           /\ \A x : Past(s, 0, x) => s[1] = x \/ Past(t, 0, x)
<1>1. ASSUME NEW n \in Nat, NEW x, Past(s, n + 1, x) PROVE Past(t, n, x)
  <2>1. PICK k \in DOMAIN s : k > n + 1 /\ s[k] = x
    BY <1>1 DEF Past
  <2>2. k \in Nat /\ k # 1
    BY <2>1 DEF Shrunk
  <2>3. k - 1 \in DOMAIN t /\ t[k - 1] = x
    BY <2>1, <2>2 DEF Shrunk
  <2>4. k - 1 > n
    BY <2>1, <2>2
  <2> QED BY <2>3, <2>4 DEF Past
<1>2. \A n \in DOMAIN t : n \in Nat
  BY DEF Shrunk
<1>3. \A x : Past(s, 1, x) => Past(t, 0, x)
  <2> SUFFICES ASSUME NEW x, Past(s, 1, x) PROVE Past(t, 0, x)
    OBVIOUS
  <2>1. 0 \in Nat /\ 0 + 1 = 1
    OBVIOUS
  <2>2. Past(s, 0 + 1, x)
    BY <2>1
  <2> QED BY <1>1, <2>1, <2>2
<1>4. \A x : Past(s, 0, x) => s[1] = x \/ Past(t, 0, x)
  <2> SUFFICES ASSUME NEW x, Past(s, 0, x), s[1] # x PROVE Past(t, 0, x)
    OBVIOUS
  <2>1. PICK k \in DOMAIN s : s[k] = x
    BY DEF Past
  <2>2. k \in Nat /\ k - 1 \in DOMAIN t /\ t[k - 1] = x
    BY <2>1 DEF Shrunk
  <2>3. k - 1 > 0
    BY <2>2 DEF Shrunk
  <2> QED BY <2>2, <2>3 DEF Past
<1> QED BY <1>1, <1>2, <1>3, <1>4

-----------------------------------------------------------------------------
(***************************************************************************)
(* Where an erased message may still be.                                   *)
(***************************************************************************)
\* An author's deletion is under way or waits on his connection.
LEMMA AskingHas == \A u : Asking(u) <=> pc[u] \in {"purge", "erase"} \/ Has(outbox[u], Delete)
BY DEF Asking, Has

\* Nothing is sent to the server or saved, and no one starts to delete.
AskedSame ==
    /\ outbox' = outbox /\ from' = from /\ crossed' = crossed /\ rows' \subseteq rows
    /\ \A v \in Users :
        /\ store'[v] \subseteq store[v]
        /\ pc'[v] \in {"purge", "erase"} => pc[v] \in {"purge", "erase"}
        /\ pc'[v] = "save" => pc[v] = "save" /\ cur'[v] = cur[v]

\* Then nothing changes for a user who waits for his deletion.
LEMMA AskedQuiet == AskedForgotten /\ AskedSame => AskedForgotten'
<1> SUFFICES ASSUME AskedForgotten, AskedSame, NEW v \in Users, Asking(v)', NEW i \in store'[v]
             PROVE  i \in crossed'[v] \/ Behind(v, i)'
  BY DEF AskedForgotten
<1>1. Asking(v)
  BY DEF AskedSame, Asking
<1>2. i \in crossed[v] \/ Behind(v, i)
  BY <1>1 DEF AskedForgotten, AskedSame
<1> QED BY <1>2 DEF AskedSame, Behind

\* A packet in front is in the queue.
LEMMA HasFirst == ASSUME NEW s, NEW t, Shrunk(s, t) PROVE Has(s, s[1])
BY DEF Shrunk, Has

\* A device keeps nothing that is being deleted but what crossed it.
LEMMA AskedForgottenStep ==
    ASSUME Typed, AskedForgotten, [Next]_vars
    PROVE  AskedForgotten'
<1>t. /\ pc \in [Users -> Labels] /\ cur \in [Users -> Nat] /\ outbox \in [Users -> Seq(ToServer)]
      /\ store \in [Users -> SUBSET Nat] /\ crossed \in [Users -> SUBSET Nat]
      /\ rows \subseteq Ids /\ Held /\ Outgoing /\ Handled
  BY DEF Typed, Shapes, Known, Authors, Wires, Threads, Copies
<1>a. AskedForgotten
  OBVIOUS
<1>1. ASSUME NEW u \in Users, Writes(u) PROVE AskedForgotten'
  <2>0. PICK n \in Nat : n = Len(from) + 1
    BY <1>1 DEF Writes, FromGrown
  <2>1. /\ Grown(outbox[u], outbox'[u], Message(n))
        /\ \A w \in Users \ {u} : outbox'[w] = outbox[w]
    BY <1>1, <2>0 DEF Writes, Asks
  <2>2. \A x : Has(outbox'[u], x) <=> Has(outbox[u], x) \/ x = Message(n)
    BY <2>1, HasGrown
  <2>3. \A x : After(outbox[u], x, Delete) => After(outbox'[u], x, Delete)
    BY <2>1, AfterGrown, PacketKinds
  <2>4. /\ pc' = pc /\ cur' = cur /\ rows' = rows /\ crossed' = crossed
        /\ store' = [store EXCEPT ![u] = store[u] \cup {n}]
        /\ n \notin Ids /\ from'[n] = u /\ \A j \in Ids : from'[j] = from[j]
    BY <1>1, <2>0 DEF Writes, FromGrown, thread, tables, history
  <2>5. ASSUME NEW v \in Users, Asking(v)', NEW j \in store'[v]
        PROVE  j \in crossed[v] \/ Behind(v, j)'
    <3>1. Asking(v)
      <4>1. pc[v] \in {"purge", "erase"} \/ Has(outbox'[v], Delete)
        BY <2>4, <2>5 DEF Asking, Has
      <4>2. Has(outbox'[v], Delete) => Has(outbox[v], Delete)
        BY <2>1, <2>2, PacketKinds
      <4> QED BY <4>1, <4>2, AskingHas
    <3>2. CASE j \in store[v]
      <4>1. j \in crossed[v] \/ Behind(v, j)
        BY <3>1, <3>2 DEF AskedForgotten
      <4>2. j \in Ids
        BY <1>t, <3>2 DEF Held
      <4> QED BY <1>t, <2>1, <2>3, <2>4, <4>1, <4>2 DEF Behind
    <3>3. CASE v = u /\ j = n
      <4>1. n \notin rows /\ ~(pc[u] = "save" /\ cur[u] = n)
        BY <1>t, <2>4 DEF Handled
      <4>2. After(outbox[u], Message(n), Delete)
        BY <1>t, <2>0, <2>4 DEF After, Outgoing
      <4> QED BY <2>3, <2>4, <3>3, <4>1, <4>2 DEF Behind
    <3> QED BY <1>t, <2>4, <3>2, <3>3
  <2> QED BY <2>4, <2>5 DEF AskedForgotten
<1>2. ASSUME NEW u \in Users, DeleteHere(u) PROVE AskedForgotten'
  <2>1. AskedSame
    BY <1>2, <1>t DEF DeleteHere, Forget, thread, tables, AskedSame
  <2> QED BY <1>a, <2>1, AskedQuiet
<1>3. ASSUME NEW u \in Users, AsksDelete(u) PROVE AskedForgotten'
  <2>1. /\ pc' = pc /\ cur' = cur /\ rows' = rows /\ from' = from /\ crossed' = crossed
        /\ store' = [store EXCEPT ![u] = {}]
        /\ \A w \in Users \ {u} : outbox'[w] = outbox[w]
    BY <1>3 DEF AsksDelete, Forget, Asks, thread, tables
  <2> QED BY <1>t, <2>1 DEF AskedForgotten, Asking, Behind
<1>4. ASSUME NEW u \in Users, NEW c \in Nat, AckRead(u, c) PROVE AskedForgotten'
  <2>1. /\ Grown(outbox[u], outbox'[u], Sync(c))
        /\ \A w \in Users \ {u} : outbox'[w] = outbox[w]
    BY <1>4 DEF AckRead, Asks
  <2>2. \A x : Has(outbox'[u], x) <=> Has(outbox[u], x) \/ x = Sync(c)
    BY <2>1, HasGrown
  <2>3. \A x : After(outbox[u], x, Delete) => After(outbox'[u], x, Delete)
    BY <2>1, AfterGrown, PacketKinds
  <2>4. /\ pc' = pc /\ cur' = cur /\ rows' = rows /\ from' = from
        /\ crossed' = crossed /\ store' = store
    BY <1>4 DEF AckRead, InTaken, thread, tables
  <2>5. ASSUME NEW v \in Users, Asking(v)', NEW j \in store[v]
        PROVE  j \in crossed[v] \/ Behind(v, j)'
    <3>1. Asking(v)
      BY <1>t, <2>1, <2>2, <2>4, <2>5, AskingHas, PacketKinds DEF Asking, Has
    <3>2. j \in crossed[v] \/ Behind(v, j)
      BY <3>1 DEF AskedForgotten
    <3> QED BY <1>t, <2>1, <2>3, <2>4, <3>2 DEF Behind
  <2> QED BY <2>4, <2>5 DEF AskedForgotten
<1>5. ASSUME NEW u \in Users, NEW i \in Nat, MessageRead(u, i) PROVE AskedForgotten'
  BY <1>5, <1>t, <1>a DEF MessageRead, InTaken, ReceiveMessage, thread, tables, AskedForgotten,
     Asking, Behind
<1>6. ASSUME NEW u \in Users, DeleteRead(u) PROVE AskedForgotten'
  <2>1. AskedSame
    BY <1>6, <1>t DEF DeleteRead, InTaken, ReceiveDelete, thread, tables, AskedSame
  <2> QED BY <1>a, <2>1, AskedQuiet
<1>7. ASSUME NEW u \in Users, Disconnect(u) PROVE AskedForgotten'
  <2>1. /\ pc' = pc /\ cur' = cur /\ rows' = rows /\ from' = from
        /\ crossed' = crossed /\ store' = store
        /\ outbox'[u] = <<>> /\ \A w \in Users \ {u} : outbox'[w] = outbox[w]
    BY <1>7, <1>t DEF Disconnect, thread, tables
  <2>2. ASSUME NEW v \in Users, Asking(v)', NEW j \in store[v]
        PROVE  j \in crossed[v] \/ Behind(v, j)'
    <3>1. Asking(v)
      BY <1>t, <2>1, <2>2, HasEmpty, AskingHas DEF Asking, Has
    <3>2. j \in crossed[v] \/ Behind(v, j)
      BY <3>1 DEF AskedForgotten
    <3>3. CASE v = u
      <4>1. After(outbox'[v], Message(j), Delete)
        BY <2>1, <3>3, HasEmpty
      <4> QED BY <2>1, <3>2, <4>1 DEF Behind
    <3>4. CASE v # u
      BY <2>1, <3>2, <3>4 DEF Behind
    <3> QED BY <3>3, <3>4
  <2> QED BY <2>1, <2>2 DEF AskedForgotten
<1>8. ASSUME NEW u \in Users, Login(u) PROVE AskedForgotten'
  <2>1. AskedSame
    BY <1>8, <1>t DEF Login, Goto, tables, history, AskedSame
  <2> QED BY <1>a, <2>1, AskedQuiet
<1>9. ASSUME NEW u \in Users, ReadsQueue(u) PROVE AskedForgotten'
  <2>1. AskedSame
    BY <1>9, <1>t DEF ReadsQueue, Goto, client, tables, history, AskedSame
  <2> QED BY <1>a, <2>1, AskedQuiet
<1>10. ASSUME NEW u \in Users, NEW i \in Nat, FlushSent(u, i) PROVE AskedForgotten'
  <2>1. AskedSame
    BY <1>10, <1>t DEF FlushSent, AskedSame
  <2> QED BY <1>a, <2>1, AskedQuiet
<1>11. ASSUME NEW u \in Users, FlushQuiet(u) PROVE AskedForgotten'
  <2>1. AskedSame
    BY <1>11, <1>t DEF FlushQuiet, client, tables, history, AskedSame
  <2> QED BY <1>a, <2>1, AskedQuiet
<1>12. ASSUME NEW u \in Users, ReadNotes(u) PROVE AskedForgotten'
  <2>1. AskedSame
    BY <1>12, <1>t DEF ReadNotes, Goto, client, tables, history, AskedSame
  <2> QED BY <1>a, <2>1, AskedQuiet
<1>13. ASSUME NEW u \in Users, ClearNotes(u) PROVE AskedForgotten'
  <2>1. AskedSame
    BY <1>13, <1>t DEF ClearNotes, Goto, client, AskedSame
  <2> QED BY <1>a, <2>1, AskedQuiet
<1>14. ASSUME NEW u \in Users, SendsNotes(u) PROVE AskedForgotten'
  <2>1. AskedSame
    BY <1>14, <1>t DEF SendsNotes, Goto, tables, AskedSame
  <2> QED BY <1>a, <2>1, AskedQuiet
<1>15. ASSUME NEW u \in Users, Register(u) PROVE AskedForgotten'
  <2>1. AskedSame
    BY <1>15, <1>t DEF Register, Goto, client, tables, history, AskedSame
  <2> QED BY <1>a, <2>1, AskedQuiet
<1>16. ASSUME NEW u \in Users, Leave(u) PROVE AskedForgotten'
  <2>1. AskedSame
    BY <1>16, <1>t DEF Leave, Goto, client, tables, history, AskedSame
  <2> QED BY <1>a, <2>1, AskedQuiet
<1>17. ASSUME NEW u \in Users, NEW i \in Nat, TakesMessage(u, i) PROVE AskedForgotten'
  <2>1. Shrunk(outbox[u], outbox'[u]) /\ \A w \in Users \ {u} : outbox'[w] = outbox[w]
    BY <1>17 DEF TakesMessage, OutTaken
  <2>2. \A x : /\ Has(outbox'[u], x) => Has(outbox[u], x)
               /\ Has(outbox[u], x) => outbox[u][1] = x \/ Has(outbox'[u], x)
    BY <2>1, HasShrunk
  <2>3. \A x, d : After(outbox[u], x, d) => After(outbox'[u], x, d)
    BY <2>1, AfterShrunk
  <2>4. /\ pc[u] = "idle" /\ pc' = [pc EXCEPT ![u] = "save"] /\ cur' = [cur EXCEPT ![u] = i]
        /\ outbox[u][1] = Message(i)
        /\ rows' = rows /\ from' = from /\ store' = store /\ crossed' = crossed
    BY <1>17 DEF TakesMessage, OutTaken, Goto, tables, history
  <2>5. ASSUME NEW v \in Users, Asking(v)', NEW j \in store[v]
        PROVE  j \in crossed[v] \/ Behind(v, j)'
    <3>1. CASE v # u
      <4>1. Asking(v)
        BY <1>t, <2>1, <2>4, <2>5, <3>1 DEF Asking
      <4>2. j \in crossed[v] \/ Behind(v, j)
        BY <4>1 DEF AskedForgotten
      <4> QED BY <1>t, <2>1, <2>4, <3>1, <4>2 DEF Behind
    <3>2. CASE v = u
      <4>0. Has(outbox'[u], Delete)
        BY <1>t, <2>4, <2>5, <3>2, AskingHas DEF Asking, Has
      <4>1. Asking(u)
        <5>1. Has(outbox[u], Delete)
          BY <2>2, <4>0
        <5> QED BY <5>1, AskingHas
      <4>2. j \in crossed[u] \/ Behind(u, j)
        BY <2>5, <3>2, <4>1 DEF AskedForgotten
      <4>3. ASSUME Behind(u, j) PROVE Behind(u, j)'
        <5>1. j # i
          <6> SUFFICES ASSUME j = i PROVE FALSE
            OBVIOUS
          <6>1. After(outbox[u], outbox[u][1], Delete)
            BY <2>4, <4>3 DEF Behind
          <6> QED BY <2>1, <4>0, <6>1, AfterFirst
        <5> QED BY <1>t, <2>3, <2>4, <4>3, <5>1 DEF Behind
      <4> QED BY <3>2, <4>2, <4>3
    <3> QED BY <3>1, <3>2
  <2> QED BY <2>4, <2>5 DEF AskedForgotten
<1>18. ASSUME NEW u \in Users, NEW c \in Nat, TakesSync(u, c) PROVE AskedForgotten'
  <2>1. Shrunk(outbox[u], outbox'[u]) /\ \A w \in Users \ {u} : outbox'[w] = outbox[w]
    BY <1>18 DEF TakesSync, OutTaken
  <2>2. \A x : /\ Has(outbox'[u], x) => Has(outbox[u], x)
               /\ Has(outbox[u], x) => outbox[u][1] = x \/ Has(outbox'[u], x)
    BY <2>1, HasShrunk
  <2>3. \A x, d : After(outbox[u], x, d) => After(outbox'[u], x, d)
    BY <2>1, AfterShrunk
  <2>4. /\ pc[u] = "idle" /\ pc' = [pc EXCEPT ![u] = "sync"] /\ cur' = [cur EXCEPT ![u] = c]
        /\ outbox[u][1] = Sync(c)
        /\ rows' = rows /\ from' = from /\ store' = store /\ crossed' = crossed
    BY <1>18 DEF TakesSync, OutTaken, Goto, tables, history
  <2>5. ASSUME NEW v \in Users, Asking(v)', NEW j \in store[v]
        PROVE  j \in crossed[v] \/ Behind(v, j)'
    <3>1. CASE v # u
      <4>1. Asking(v)
        BY <1>t, <2>1, <2>4, <2>5, <3>1 DEF Asking
      <4>2. j \in crossed[v] \/ Behind(v, j)
        BY <4>1 DEF AskedForgotten
      <4> QED BY <1>t, <2>1, <2>4, <3>1, <4>2 DEF Behind
    <3>2. CASE v = u
      <4>0. Has(outbox'[u], Delete)
        BY <1>t, <2>4, <2>5, <3>2, AskingHas DEF Asking, Has
      <4>1. Asking(u)
        <5>1. Has(outbox[u], Delete)
          BY <2>2, <4>0
        <5> QED BY <5>1, AskingHas
      <4>2. j \in crossed[u] \/ Behind(u, j)
        BY <2>5, <3>2, <4>1 DEF AskedForgotten
      <4>3. ASSUME Behind(u, j) PROVE Behind(u, j)'
        BY <1>t, <2>3, <2>4, <4>3 DEF Behind
      <4> QED BY <3>2, <4>2, <4>3
    <3> QED BY <3>1, <3>2
  <2> QED BY <2>4, <2>5 DEF AskedForgotten
<1>19. ASSUME NEW u \in Users, TakesDelete(u) PROVE AskedForgotten'
  <2>1. Shrunk(outbox[u], outbox'[u]) /\ \A w \in Users \ {u} : outbox'[w] = outbox[w]
    BY <1>19 DEF TakesDelete, OutTaken
  <2>2. \A x : /\ Has(outbox'[u], x) => Has(outbox[u], x)
               /\ Has(outbox[u], x) => outbox[u][1] = x \/ Has(outbox'[u], x)
    BY <2>1, HasShrunk
  <2>3. \A x, d : After(outbox[u], x, d) => After(outbox'[u], x, d)
    BY <2>1, AfterShrunk
  <2>4. /\ pc[u] = "idle" /\ pc' = [pc EXCEPT ![u] = "purge"] /\ cur' = cur
        /\ outbox[u][1] = Delete
        /\ rows' = rows /\ from' = from /\ store' = store /\ crossed' = crossed
    BY <1>19 DEF TakesDelete, OutTaken, Goto, tables, history
  <2>5. ASSUME NEW v \in Users, Asking(v)', NEW j \in store[v]
        PROVE  j \in crossed[v] \/ Behind(v, j)'
    <3>1. CASE v # u
      <4>1. Asking(v)
        BY <1>t, <2>1, <2>4, <2>5, <3>1 DEF Asking
      <4>2. j \in crossed[v] \/ Behind(v, j)
        BY <4>1 DEF AskedForgotten
      <4> QED BY <1>t, <2>1, <2>4, <3>1, <4>2 DEF Behind
    <3>2. CASE v = u
      <4>1. Asking(u)
        <5>1. Has(outbox[u], Delete)
          BY <2>1, <2>4, HasFirst
        <5> QED BY <5>1, AskingHas
      <4>2. j \in crossed[u] \/ Behind(u, j)
        BY <2>5, <3>2, <4>1 DEF AskedForgotten
      <4>3. ASSUME Behind(u, j) PROVE Behind(u, j)'
        BY <1>t, <2>3, <2>4, <4>3 DEF Behind
      <4> QED BY <3>2, <4>2, <4>3
    <3> QED BY <3>1, <3>2
  <2> QED BY <2>4, <2>5 DEF AskedForgotten
<1>20. ASSUME NEW u \in Users, Save(u) PROVE AskedForgotten'
  <2>1. /\ outbox' = outbox /\ from' = from /\ crossed' = crossed /\ store' = store /\ cur' = cur
        /\ rows' = rows \cup {cur[u]} /\ pc[u] = "save" /\ pc' = [pc EXCEPT ![u] = "route"]
    BY <1>20 DEF Save, Goto, client, history
  <2>2. from[cur[u]] = u
    BY <1>t, <2>1 DEF Handled
  <2>3. ASSUME NEW v \in Users, Asking(v)', NEW j \in store[v]
        PROVE  j \in crossed[v] \/ Behind(v, j)'
    <3>1. Asking(v)
      BY <1>t, <2>1, <2>3 DEF Asking
    <3>2. j \in crossed[v] \/ Behind(v, j)
      BY <3>1 DEF AskedForgotten
    <3>3. ASSUME Behind(v, j) PROVE j # cur[u]
      BY <2>1, <2>2, <3>3 DEF Behind
    <3> QED BY <1>t, <2>1, <3>2, <3>3 DEF Behind
  <2> QED BY <2>1, <2>3 DEF AskedForgotten
<1>21. ASSUME NEW u \in Users, RouteSent(u) PROVE AskedForgotten'
  <2>1. AskedSame
    BY <1>21, <1>t DEF RouteSent, Goto, tables, history, AskedSame
  <2> QED BY <1>a, <2>1, AskedQuiet
<1>22. ASSUME NEW u \in Users, RouteAway(u) PROVE AskedForgotten'
  <2>1. AskedSame
    BY <1>22, <1>t DEF RouteAway, Goto, client, tables, history, AskedSame
  <2> QED BY <1>a, <2>1, AskedQuiet
<1>23. ASSUME NEW u \in Users, ReloadNone(u) PROVE AskedForgotten'
  <2>1. AskedSame
    BY <1>23, <1>t DEF ReloadNone, Goto, client, tables, history, AskedSame
  <2> QED BY <1>a, <2>1, AskedQuiet
<1>24. ASSUME NEW u \in Users, NEW m \in Nat, ReloadFound(u, m) PROVE AskedForgotten'
  <2>1. AskedSame
    BY <1>24, <1>t DEF ReloadFound, Goto, client, tables, history, AskedSame
  <2> QED BY <1>a, <2>1, AskedQuiet
<1>25. ASSUME NEW u \in Users, Queue(u) PROVE AskedForgotten'
  <2>1. AskedSame
    BY <1>25, <1>t DEF Queue, Goto, client, history, AskedSame
  <2> QED BY <1>a, <2>1, AskedQuiet
<1>26. ASSUME NEW u \in Users, ReadsHistory(u) PROVE AskedForgotten'
  <2>1. AskedSame
    BY <1>26, <1>t DEF ReadsHistory, Goto, client, tables, history, AskedSame
  <2> QED BY <1>a, <2>1, AskedQuiet
<1>27. ASSUME NEW u \in Users, NEW i \in Nat, ReplaySent(u, i) PROVE AskedForgotten'
  <2>1. AskedSame
    BY <1>27, <1>t DEF ReplaySent, tables, history, AskedSame
  <2> QED BY <1>a, <2>1, AskedQuiet
<1>28. ASSUME NEW u \in Users, ReplayDone(u) PROVE AskedForgotten'
  <2>1. AskedSame
    BY <1>28, <1>t DEF ReplayDone, Goto, client, tables, history, AskedSame
  <2> QED BY <1>a, <2>1, AskedQuiet
<1>29. ASSUME NEW u \in Users, Purge(u) PROVE AskedForgotten'
  <2>1. AskedSame
    BY <1>29, <1>t DEF Purge, Goto, client, tables, history, AskedSame
  <2> QED BY <1>a, <2>1, AskedQuiet
<1>30. ASSUME NEW u \in Users, EraseDone(u) PROVE AskedForgotten'
  <2>1. AskedSame
    BY <1>30, <1>t DEF EraseDone, Goto, client, AskedSame
  <2> QED BY <1>a, <2>1, AskedQuiet
<1>31. ASSUME NEW u \in Users, EraseFailed(u) PROVE AskedForgotten'
  <2>1. AskedSame
    BY <1>31, <1>t DEF EraseFailed, Goto, client, tables, history, AskedSame
  <2> QED BY <1>a, <2>1, AskedQuiet
<1>32. ASSUME NEW u \in Users, NotifySent(u) PROVE AskedForgotten'
  <2>1. AskedSame
    BY <1>32, <1>t DEF NotifySent, Goto, tables, AskedSame
  <2> QED BY <1>a, <2>1, AskedQuiet
<1>33. ASSUME NEW u \in Users, NotifyNote(u) PROVE AskedForgotten'
  <2>1. AskedSame
    BY <1>33, <1>t DEF NotifyNote, Goto, client, tables, history, AskedSame
  <2> QED BY <1>a, <2>1, AskedQuiet
<1>34. ASSUME NEW u \in Users, Note(u) PROVE AskedForgotten'
  <2>1. AskedSame
    BY <1>34, <1>t DEF Note, Goto, client, history, AskedSame
  <2> QED BY <1>a, <2>1, AskedQuiet
<1>35. CASE UNCHANGED vars
  BY <1>35, <1>t, <1>a DEF vars, client, thread, tables, history, AskedForgotten, Asking, Behind
<1>36. ASSUME NEW u \in Users, Fails(u) PROVE AskedForgotten'
  <2>1. AskedSame
    BY <1>36, <1>t DEF Fails, Goto, client, tables, history, AskedSame
  <2> QED BY <1>a, <2>1, AskedQuiet
<1>37. ASSUME Crash PROVE AskedForgotten'
  <2>1. \A v \in Users : pc'[v] = "off" /\ outbox'[v] = <<>>
    BY <1>37 DEF Crash
  <2>2. \A v \in Users : ~Asking(v)'
    <3>1. DOMAIN <<>> = {}
      OBVIOUS
    <3> QED BY <2>1, <3>1 DEF Asking
  <2> QED BY <2>2 DEF AskedForgotten
<1>38. ASSUME NEW u \in Users, LoginFails(u) PROVE AskedForgotten'
  <2>1. AskedSame
    BY <1>38, <1>t DEF LoginFails, Goto, client, AskedSame
  <2> QED BY <1>a, <2>1, AskedQuiet
<1> QED BY <1>1, <1>2, <1>3, <1>4, <1>5, <1>6, <1>7, <1>8, <1>9, <1>10, <1>11, <1>12, <1>13,
   <1>14, <1>15, <1>16, <1>17, <1>18, <1>19, <1>20, <1>21, <1>22, <1>23, <1>24, <1>25, <1>26,
   <1>27, <1>28, <1>29, <1>30, <1>31, <1>32, <1>33, <1>34, <1>35, <1>36,
   <1>37, <1>38, StepCases DEF Cases, Typed

\* No device gets an erased message that does not cross its deletion, and no
\* notification is dropped.
OwedKept ==
    \A v \in Users :
        /\ store'[v] \cap erased' \subseteq (store[v] \cap erased) \cup crossed'[v]
        /\ crossed[v] \subseteq crossed'[v]
        /\ v \in unheard => v \in unheard'
        /\ Owed(v) => Owed(v)' \/ v \in unheard' \/ store'[v] = {}

\* Then every erased message is still owed.
LEMMA OwedQuiet == ErasedOwed /\ OwedKept => ErasedOwed'
BY DEF ErasedOwed, OwedKept

\* A device that has an erased message is to hear of it.
LEMMA ErasedOwedStep ==
    ASSUME Typed, AskedForgotten, ErasedOwed, [Next]_vars
    PROVE  ErasedOwed'
<1>t. /\ pc \in [Users -> Labels] /\ batch \in [Users -> Nat] /\ notes \in [Users -> Nat]
      /\ store \in [Users -> SUBSET Nat] /\ crossed \in [Users -> SUBSET Nat]
      /\ inbox \in [Users -> Seq(ToClient)] /\ erased \subseteq Ids /\ Phases
  BY DEF Typed, Shapes, Counters, Wires, Threads, Copies
<1>a. ErasedOwed
  OBVIOUS
<1>1. ASSUME NEW u \in Users, Writes(u) PROVE ErasedOwed'
  <2>1. OwedKept
    BY <1>1, <1>t, TwoUsers DEF Writes, FromGrown, thread, tables, history, OwedKept, Owed, Ids
  <2> QED BY <1>a, <2>1, OwedQuiet
<1>2. ASSUME NEW u \in Users, DeleteHere(u) PROVE ErasedOwed'
  <2>1. OwedKept
    BY <1>2, <1>t, TwoUsers DEF DeleteHere, Forget, thread, tables, OwedKept, Owed
  <2> QED BY <1>a, <2>1, OwedQuiet
<1>3. ASSUME NEW u \in Users, AsksDelete(u) PROVE ErasedOwed'
  <2>1. OwedKept
    BY <1>3, <1>t, TwoUsers DEF AsksDelete, Forget, thread, tables, OwedKept, Owed
  <2> QED BY <1>a, <2>1, OwedQuiet
<1>4. ASSUME NEW u \in Users, NEW c \in Nat, AckRead(u, c) PROVE ErasedOwed'
  <2>s. /\ \A v \in Users \ {u} : inbox'[v] = inbox[v]
        /\ Shrunk(inbox[u], inbox'[u]) /\ inbox[u][1] = LoginAck
    BY <1>4 DEF AckRead, InTaken
  <2>h. \A v \in Users : Has(inbox[v], Delete) => Has(inbox'[v], Delete)
    <3>1. Has(inbox[u], Delete) => Has(inbox'[u], Delete)
      BY <2>s, HasShrunk, PacketKinds
    <3> QED BY <2>s, <3>1
  <2>1. OwedKept
    BY <1>4, <1>t, <2>h, TwoUsers DEF AckRead, InTaken, thread, tables, OwedKept, Owed
  <2> QED BY <1>a, <2>1, OwedQuiet
<1>5. ASSUME NEW u \in Users, NEW i \in Nat, MessageRead(u, i) PROVE ErasedOwed'
  <2>s. /\ \A v \in Users \ {u} : inbox'[v] = inbox[v]
        /\ Shrunk(inbox[u], inbox'[u]) /\ inbox[u][1] = Message(i)
    BY <1>5 DEF MessageRead, InTaken
  <2>h. \A v \in Users : Has(inbox[v], Delete) => Has(inbox'[v], Delete)
    <3>1. Has(inbox[u], Delete) => Has(inbox'[u], Delete)
      BY <2>s, HasShrunk, PacketKinds
    <3> QED BY <2>s, <3>1
  <2>1. OwedKept
    BY <1>5, <1>t, <2>h, TwoUsers DEF MessageRead, InTaken, ReceiveMessage, thread, tables,
       OwedKept, Owed
  <2> QED BY <1>a, <2>1, OwedQuiet
<1>6. ASSUME NEW u \in Users, DeleteRead(u) PROVE ErasedOwed'
  <2>1. /\ \A v \in Users \ {u} : inbox'[v] = inbox[v]
        /\ store' = [store EXCEPT ![u] = {}] /\ crossed' = crossed /\ unheard' = unheard
        /\ erased' = erased /\ pc' = pc /\ notes' = notes /\ batch' = batch
    BY <1>6 DEF DeleteRead, InTaken, ReceiveDelete, thread, tables
  <2>2. OwedKept
    BY <1>t, <2>1 DEF OwedKept, Owed
  <2> QED BY <1>a, <2>2, OwedQuiet
<1>7. ASSUME NEW u \in Users, Disconnect(u) PROVE ErasedOwed'
  <2>1. /\ \A v \in Users \ {u} : inbox'[v] = inbox[v]
        /\ Has(inbox[u], Delete) => u \in unheard'
        /\ unheard \subseteq unheard'
        /\ store' = store /\ crossed' = crossed
        /\ erased' = erased /\ pc' = pc /\ notes' = notes /\ batch' = batch
    BY <1>7, <1>t DEF Disconnect, thread, tables, Has
  <2>2. OwedKept
    BY <1>t, <2>1 DEF OwedKept, Owed
  <2> QED BY <1>a, <2>2, OwedQuiet
<1>8. ASSUME NEW u \in Users, Login(u) PROVE ErasedOwed'
  <2>1. /\ \A v \in Users \ {u} : inbox'[v] = inbox[v]
        /\ inbox[u] = <<>> /\ pc[u] = "off" /\ pc' = [pc EXCEPT ![u] = "login"]
        /\ store' = store /\ crossed' = crossed /\ unheard' = unheard
        /\ erased' = erased /\ notes' = notes /\ batch' = batch
    BY <1>8, <1>t DEF Login, Goto, tables, history, Phases
  <2>2. ~Has(inbox[u], Delete)
    BY <2>1, HasEmpty
  <2>3. OwedKept
    BY <1>t, <2>1, <2>2, TwoUsers DEF OwedKept, Owed
  <2> QED BY <1>a, <2>3, OwedQuiet
<1>9. ASSUME NEW u \in Users, ReadsQueue(u) PROVE ErasedOwed'
  <2>1. OwedKept
    BY <1>9, <1>t, TwoUsers DEF ReadsQueue, Goto, client, tables, history, OwedKept, Owed
  <2> QED BY <1>a, <2>1, OwedQuiet
<1>10. ASSUME NEW u \in Users, NEW i \in Nat, FlushSent(u, i) PROVE ErasedOwed'
  <2>s. /\ \A v \in Users \ {u} : inbox'[v] = inbox[v]
        /\ ~online[u] => inbox'[u] = inbox[u]
        /\ online[u] => Grown(inbox[u], inbox'[u], Message(i))
    BY <1>10 DEF FlushSent, Sent
  <2>h. \A v \in Users : Has(inbox[v], Delete) => Has(inbox'[v], Delete)
    <3>1. online[u] => (Has(inbox[u], Delete) => Has(inbox'[u], Delete))
      BY <2>s, HasGrown
    <3> QED BY <2>s, <3>1
  <2>1. OwedKept
    BY <1>10, <1>t, <2>h, TwoUsers DEF FlushSent, OwedKept, Owed
  <2> QED BY <1>a, <2>1, OwedQuiet
<1>11. ASSUME NEW u \in Users, FlushQuiet(u) PROVE ErasedOwed'
  <2>1. OwedKept
    BY <1>11, <1>t, TwoUsers DEF FlushQuiet, client, tables, history, OwedKept, Owed
  <2> QED BY <1>a, <2>1, OwedQuiet
<1>12. ASSUME NEW u \in Users, ReadNotes(u) PROVE ErasedOwed'
  <2>1. /\ inbox' = inbox /\ pc[u] = "flush" /\ pc' = [pc EXCEPT ![u] = "clear"]
        /\ store' = store /\ crossed' = crossed /\ unheard' = unheard
        /\ erased' = erased /\ notes' = notes /\ batch' = [batch EXCEPT ![u] = notes[u]]
    BY <1>12 DEF ReadNotes, Goto, client, tables, history
  <2>2. ~(batch[u] > 0)
    BY <1>t, <2>1 DEF Phases
  <2>3. OwedKept
    BY <1>t, <2>1, <2>2, TwoUsers DEF OwedKept, Owed
  <2> QED BY <1>a, <2>3, OwedQuiet
<1>13. ASSUME NEW u \in Users, ClearNotes(u) PROVE ErasedOwed'
  <2>1. OwedKept
    BY <1>13, <1>t, TwoUsers DEF ClearNotes, Goto, client, OwedKept, Owed
  <2> QED BY <1>a, <2>1, OwedQuiet
<1>14. ASSUME NEW u \in Users, SendsNotes(u) PROVE ErasedOwed'
  <2>1. /\ \A v \in Users \ {u} : inbox'[v] = inbox[v]
        /\ pc[u] = "notes" /\ pc' = [pc EXCEPT ![u] = "register"]
        /\ store' = store /\ crossed' = crossed
        /\ unheard' = IF ~online[u] /\ batch[u] > 0 THEN unheard \cup {u} ELSE unheard
        /\ erased' = erased /\ notes' = notes /\ batch' = [batch EXCEPT ![u] = 0]
    BY <1>14 DEF SendsNotes, Goto, tables
  <2>2. /\ Has(inbox[u], Delete) => Has(inbox'[u], Delete)
        /\ online[u] /\ batch[u] > 0 => Has(inbox'[u], Delete)
    BY <1>14 DEF SendsNotes, Has
  <2>3. OwedKept
    BY <1>t, <2>1, <2>2, TwoUsers DEF OwedKept, Owed
  <2> QED BY <1>a, <2>3, OwedQuiet
<1>15. ASSUME NEW u \in Users, Register(u) PROVE ErasedOwed'
  <2>1. OwedKept
    BY <1>15, <1>t, TwoUsers DEF Register, Goto, client, tables, history, OwedKept, Owed
  <2> QED BY <1>a, <2>1, OwedQuiet
<1>16. ASSUME NEW u \in Users, Leave(u) PROVE ErasedOwed'
  <2>1. OwedKept
    BY <1>16, <1>t, TwoUsers DEF Leave, Goto, client, tables, history, OwedKept, Owed
  <2> QED BY <1>a, <2>1, OwedQuiet
<1>17. ASSUME NEW u \in Users, NEW i \in Nat, TakesMessage(u, i) PROVE ErasedOwed'
  <2>1. OwedKept
    BY <1>17, <1>t, TwoUsers DEF TakesMessage, OutTaken, Goto, tables, history, OwedKept, Owed
  <2> QED BY <1>a, <2>1, OwedQuiet
<1>18. ASSUME NEW u \in Users, NEW c \in Nat, TakesSync(u, c) PROVE ErasedOwed'
  <2>1. OwedKept
    BY <1>18, <1>t, TwoUsers DEF TakesSync, OutTaken, Goto, tables, history, OwedKept, Owed
  <2> QED BY <1>a, <2>1, OwedQuiet
<1>19. ASSUME NEW u \in Users, TakesDelete(u) PROVE ErasedOwed'
  <2>1. OwedKept
    BY <1>19, <1>t, TwoUsers DEF TakesDelete, OutTaken, Goto, tables, history, OwedKept, Owed
  <2> QED BY <1>a, <2>1, OwedQuiet
<1>20. ASSUME NEW u \in Users, Save(u) PROVE ErasedOwed'
  <2>1. OwedKept
    BY <1>20, <1>t, TwoUsers DEF Save, Goto, client, history, OwedKept, Owed
  <2> QED BY <1>a, <2>1, OwedQuiet
<1>21. ASSUME NEW u \in Users, RouteSent(u) PROVE ErasedOwed'
  <2>s. /\ \A v \in Users \ {Other(u)} : inbox'[v] = inbox[v]
        /\ ~online[Other(u)] => inbox'[Other(u)] = inbox[Other(u)]
        /\ online[Other(u)] => Grown(inbox[Other(u)], inbox'[Other(u)], Message(cur[u]))
    BY <1>21 DEF RouteSent, Sent
  <2>h. \A v \in Users : Has(inbox[v], Delete) => Has(inbox'[v], Delete)
    <3>1. online[Other(u)] => (Has(inbox[Other(u)], Delete) => Has(inbox'[Other(u)], Delete))
      BY <2>s, HasGrown
    <3> QED BY <2>s, <3>1
  <2>1. OwedKept
    BY <1>21, <1>t, <2>h, TwoUsers DEF RouteSent, Goto, tables, history, OwedKept, Owed
  <2> QED BY <1>a, <2>1, OwedQuiet
<1>22. ASSUME NEW u \in Users, RouteAway(u) PROVE ErasedOwed'
  <2>1. OwedKept
    BY <1>22, <1>t, TwoUsers DEF RouteAway, Goto, client, tables, history, OwedKept, Owed
  <2> QED BY <1>a, <2>1, OwedQuiet
<1>23. ASSUME NEW u \in Users, ReloadNone(u) PROVE ErasedOwed'
  <2>1. OwedKept
    BY <1>23, <1>t, TwoUsers DEF ReloadNone, Goto, client, tables, history, OwedKept, Owed
  <2> QED BY <1>a, <2>1, OwedQuiet
<1>24. ASSUME NEW u \in Users, NEW m \in Nat, ReloadFound(u, m) PROVE ErasedOwed'
  <2>1. OwedKept
    BY <1>24, <1>t, TwoUsers DEF ReloadFound, Goto, client, tables, history, OwedKept, Owed
  <2> QED BY <1>a, <2>1, OwedQuiet
<1>25. ASSUME NEW u \in Users, Queue(u) PROVE ErasedOwed'
  <2>1. OwedKept
    BY <1>25, <1>t, TwoUsers DEF Queue, Goto, client, history, OwedKept, Owed
  <2> QED BY <1>a, <2>1, OwedQuiet
<1>26. ASSUME NEW u \in Users, ReadsHistory(u) PROVE ErasedOwed'
  <2>1. OwedKept
    BY <1>26, <1>t, TwoUsers DEF ReadsHistory, Goto, client, tables, history, OwedKept, Owed
  <2> QED BY <1>a, <2>1, OwedQuiet
<1>27. ASSUME NEW u \in Users, NEW i \in Nat, ReplaySent(u, i) PROVE ErasedOwed'
  <2>s. /\ \A v \in Users \ {u} : inbox'[v] = inbox[v]
        /\ ~online[u] => inbox'[u] = inbox[u]
        /\ online[u] => Grown(inbox[u], inbox'[u], Message(i))
    BY <1>27 DEF ReplaySent, Sent
  <2>h. \A v \in Users : Has(inbox[v], Delete) => Has(inbox'[v], Delete)
    <3>1. online[u] => (Has(inbox[u], Delete) => Has(inbox'[u], Delete))
      BY <2>s, HasGrown
    <3> QED BY <2>s, <3>1
  <2>1. OwedKept
    BY <1>27, <1>t, <2>h, TwoUsers DEF ReplaySent, tables, history, OwedKept, Owed
  <2> QED BY <1>a, <2>1, OwedQuiet
<1>28. ASSUME NEW u \in Users, ReplayDone(u) PROVE ErasedOwed'
  <2>1. OwedKept
    BY <1>28, <1>t, TwoUsers DEF ReplayDone, Goto, client, tables, history, OwedKept, Owed
  <2> QED BY <1>a, <2>1, OwedQuiet
<1>29. ASSUME NEW u \in Users, Purge(u) PROVE ErasedOwed'
  <2>1. OwedKept
    BY <1>29, <1>t, TwoUsers DEF Purge, Goto, client, tables, history, OwedKept, Owed
  <2> QED BY <1>a, <2>1, OwedQuiet
<1>30. ASSUME NEW u \in Users, EraseDone(u) PROVE ErasedOwed'
  <2>1. /\ pc[u] = "erase" /\ pc' = [pc EXCEPT ![u] = "notify"]
        /\ store' = store /\ crossed' = crossed /\ unheard' = unheard
        /\ erased' = erased \cup rows /\ notes' = notes /\ batch' = batch /\ inbox' = inbox
    BY <1>30 DEF EraseDone, Goto, client
  <2>2. \A i \in store[u] \cap rows : i \in crossed[u]
    BY <2>1 DEF AskedForgotten, Asking, Behind
  <2>3. Owed(u) => Owed(u)'
    BY <1>t, <2>1, TwoUsers DEF Owed
  <2>4. Owed(Other(u))'
    BY <1>t, <2>1, TwoUsers DEF Owed
  <2>5. ASSUME NEW v \in Users, NEW i \in store[v] \cap (erased \cup rows)
        PROVE  i \in crossed[v] \/ v \in unheard \/ Owed(v)'
    <3>1. CASE v = u
      BY <2>2, <2>3, <2>5, <3>1 DEF ErasedOwed
    <3>2. CASE v # u
      <4>1. v = Other(u)
        BY <3>2, TwoUsers
      <4> QED BY <2>4, <4>1
    <3> QED BY <3>1, <3>2
  <2> QED BY <2>1, <2>5 DEF ErasedOwed
<1>31. ASSUME NEW u \in Users, EraseFailed(u) PROVE ErasedOwed'
  <2>1. OwedKept
    BY <1>31, <1>t, TwoUsers DEF EraseFailed, Goto, client, tables, history, OwedKept, Owed
  <2> QED BY <1>a, <2>1, OwedQuiet
<1>32. ASSUME NEW u \in Users, NotifySent(u) PROVE ErasedOwed'
  <2>s. /\ \A v \in Users \ {Other(u)} : inbox'[v] = inbox[v]
        /\ ~online[Other(u)] => inbox'[Other(u)] = inbox[Other(u)]
        /\ online[Other(u)] => Grown(inbox[Other(u)], inbox'[Other(u)], Delete)
    BY <1>32 DEF NotifySent, Sent
  <2>h. \A v \in Users : Has(inbox[v], Delete) => Has(inbox'[v], Delete)
    <3>1. online[Other(u)] => (Has(inbox[Other(u)], Delete) => Has(inbox'[Other(u)], Delete))
      BY <2>s, HasGrown
    <3> QED BY <2>s, <3>1
  <2>1. /\ pc[u] = "notify" /\ pc' = [pc EXCEPT ![u] = "idle"]
        /\ store' = store /\ crossed' = crossed /\ erased' = erased
        /\ notes' = notes /\ batch' = batch
        /\ unheard' = IF online[Other(u)] THEN unheard ELSE unheard \cup {Other(u)}
    BY <1>32 DEF NotifySent, Goto, tables
  <2>2. Has(inbox'[Other(u)], Delete) \/ Other(u) \in unheard'
    BY <2>s, <2>1, HasGrown
  <2>3. OwedKept
    BY <1>t, <2>h, <2>1, <2>2, TwoUsers DEF OwedKept, Owed
  <2> QED BY <1>a, <2>3, OwedQuiet
<1>33. ASSUME NEW u \in Users, NotifyNote(u) PROVE ErasedOwed'
  <2>1. OwedKept
    BY <1>33, <1>t, TwoUsers DEF NotifyNote, Goto, client, tables, history, OwedKept, Owed
  <2> QED BY <1>a, <2>1, OwedQuiet
<1>34. ASSUME NEW u \in Users, Note(u) PROVE ErasedOwed'
  <2>1. /\ pc[u] = "note" /\ pc' = [pc EXCEPT ![u] = "idle"] /\ inbox' = inbox
        /\ notes' = [notes EXCEPT ![Other(u)] = notes[Other(u)] + 1]
        /\ batch' = batch /\ store' = store /\ crossed' = crossed
        /\ unheard' = unheard /\ erased' = erased
    BY <1>34 DEF Note, Goto, client, history
  <2>2. Owed(Other(u))'
    <3>1. notes'[Other(u)] > 0
      BY <1>t, <2>1, TwoUsers
    <3> QED BY <3>1 DEF Owed
  <2>3. Owed(u) => Owed(u)'
    BY <1>t, <2>1, TwoUsers DEF Owed
  <2>4. OwedKept
    BY <2>1, <2>2, <2>3, TwoUsers DEF OwedKept
  <2> QED BY <1>a, <2>4, OwedQuiet
<1>35. CASE UNCHANGED vars
  BY <1>35, <1>t, <1>a DEF vars, client, thread, tables, history, ErasedOwed, Owed
<1>36. ASSUME NEW u \in Users, Fails(u) PROVE ErasedOwed'
  <2>1. OwedKept
    BY <1>36, <1>t, TwoUsers DEF Fails, Goto, client, tables, history, OwedKept, Owed
  <2> QED BY <1>a, <2>1, OwedQuiet
<1>37. ASSUME Crash PROVE ErasedOwed'
  <2>1. /\ store' = store /\ crossed' = crossed /\ erased' = erased /\ notes' = notes
        /\ unheard \subseteq unheard'
    BY <1>37 DEF Crash, tables
  <2>2. ASSUME NEW v \in Users, Owed(v) PROVE v \in unheard' \/ notes[v] > 0
    BY <1>37, <2>2 DEF Crash, Owed, Has
  <2>3. \A v \in Users : notes[v] > 0 => Owed(v)'
    BY <2>1 DEF Owed
  <2>4. OwedKept
    BY <2>1, <2>2, <2>3 DEF OwedKept
  <2> QED BY <1>a, <2>4, OwedQuiet
<1>38. ASSUME NEW u \in Users, LoginFails(u) PROVE ErasedOwed'
  <2>1. OwedKept
    BY <1>38, <1>t, TwoUsers DEF LoginFails, Goto, client, OwedKept, Owed
  <2> QED BY <1>a, <2>1, OwedQuiet
<1> QED BY <1>1, <1>2, <1>3, <1>4, <1>5, <1>6, <1>7, <1>8, <1>9, <1>10, <1>11, <1>12, <1>13,
   <1>14, <1>15, <1>16, <1>17, <1>18, <1>19, <1>20, <1>21, <1>22, <1>23, <1>24, <1>25, <1>26,
   <1>27, <1>28, <1>29, <1>30, <1>31, <1>32, <1>33, <1>34, <1>35, <1>36,
   <1>37, <1>38, StepCases DEF Cases, Typed

\* What is kept for DeletedCauses.
LEMMA DeletedStep == DeletedInv /\ [Next]_vars => DeletedInv'
BY TypedStep, AskedForgottenStep, ErasedOwedStep DEF DeletedInv

\* It holds at first.
LEMMA DeletedInit == Init => DeletedInv
<1> SUFFICES ASSUME Init PROVE DeletedInv
  OBVIOUS
<1>1. AskedForgotten /\ ErasedOwed
  BY DEF Init, AskedForgotten, ErasedOwed
<1> QED BY <1>1, TypedInit DEF DeletedInv

\* On a settled device nothing is owed but a queued notification.
LEMMA DeletedSettled == DeletedInv => DeletedCauses
<1> SUFFICES ASSUME DeletedInv, NEW u \in Users, Settled(u), NEW i \in store[u] \cap erased
             PROVE  i \in crossed[u] \/ u \in unheard \/ notes[u] > 0
  BY DEF DeletedCauses
<1>1. i \in crossed[u] \/ u \in unheard \/ Owed(u)
  BY DEF DeletedInv, ErasedOwed
<1>2. ~Has(inbox[u], Delete)
  BY HasEmpty DEF Settled
<1>3. pc[u] \in {"off", "idle"} /\ pc[Other(u)] \in {"off", "idle"}
  BY TwoUsers DEF Settled, Resting
<1>4. ~(batch[u] > 0)
  BY <1>3 DEF DeletedInv, Typed, Phases
<1> QED BY <1>1, <1>2, <1>3, <1>4 DEF Owed

(***************************************************************************)
(* DeletedCauses: a message the server has erased stays on a settled       *)
(* device only if it came while it was being deleted, or if the            *)
(* notification is still queued or was lost: with a connection, with a     *)
(* statement that failed, or with the server.                              *)
(***************************************************************************)
THEOREM DeletionHeard == Spec => []DeletedCauses
<1>1. Init => DeletedInv
  BY DeletedInit
<1>2. DeletedInv /\ [Next]_vars => DeletedInv'
  BY DeletedStep
<1>3. DeletedInv => DeletedCauses
  BY DeletedSettled
<1> QED BY <1>1, <1>2, <1>3, PTL DEF Spec

-----------------------------------------------------------------------------
\* A thread that is to notify has erased what its user wrote.
LEMMA EmptiedStep ==
    ASSUME Typed, Emptied, [Next]_vars
    PROVE  Emptied'
<1>t. /\ pc \in [Users -> Labels] /\ rows \subseteq Ids /\ Handled
  BY DEF Typed, Shapes, Authors, Threads, Copies
<1>a. Emptied
  OBVIOUS
<1>1. ASSUME NEW u \in Users, Writes(u) PROVE Emptied'
  BY <1>1, <1>t, <1>a DEF Writes, FromGrown, thread, tables, history, Emptied
<1>2. ASSUME NEW u \in Users, DeleteHere(u) PROVE Emptied'
  BY <1>2, <1>t, <1>a DEF DeleteHere, Forget, thread, tables, Emptied
<1>3. ASSUME NEW u \in Users, AsksDelete(u) PROVE Emptied'
  BY <1>3, <1>t, <1>a DEF AsksDelete, Forget, thread, tables, Emptied
<1>4. ASSUME NEW u \in Users, NEW c \in Nat, AckRead(u, c) PROVE Emptied'
  BY <1>4, <1>t, <1>a DEF AckRead, InTaken, thread, tables, Emptied
<1>5. ASSUME NEW u \in Users, NEW i \in Nat, MessageRead(u, i) PROVE Emptied'
  BY <1>5, <1>t, <1>a DEF MessageRead, InTaken, ReceiveMessage, thread, tables, Emptied
<1>6. ASSUME NEW u \in Users, DeleteRead(u) PROVE Emptied'
  BY <1>6, <1>t, <1>a DEF DeleteRead, InTaken, ReceiveDelete, thread, tables, Emptied
<1>7. ASSUME NEW u \in Users, Disconnect(u) PROVE Emptied'
  BY <1>7, <1>t, <1>a DEF Disconnect, thread, tables, Emptied
<1>8. ASSUME NEW u \in Users, Login(u) PROVE Emptied'
  BY <1>8, <1>t, <1>a DEF Login, Goto, tables, history, Emptied
<1>9. ASSUME NEW u \in Users, ReadsQueue(u) PROVE Emptied'
  BY <1>9, <1>t, <1>a DEF ReadsQueue, Goto, client, tables, history, Emptied
<1>10. ASSUME NEW u \in Users, NEW i \in Nat, FlushSent(u, i) PROVE Emptied'
  BY <1>10, <1>t, <1>a DEF FlushSent, Emptied
<1>11. ASSUME NEW u \in Users, FlushQuiet(u) PROVE Emptied'
  BY <1>11, <1>t, <1>a DEF FlushQuiet, client, tables, history, Emptied
<1>12. ASSUME NEW u \in Users, ReadNotes(u) PROVE Emptied'
  BY <1>12, <1>t, <1>a DEF ReadNotes, Goto, client, tables, history, Emptied
<1>13. ASSUME NEW u \in Users, ClearNotes(u) PROVE Emptied'
  BY <1>13, <1>t, <1>a DEF ClearNotes, Goto, client, Emptied
<1>14. ASSUME NEW u \in Users, SendsNotes(u) PROVE Emptied'
  BY <1>14, <1>t, <1>a DEF SendsNotes, Goto, tables, Emptied
<1>15. ASSUME NEW u \in Users, Register(u) PROVE Emptied'
  BY <1>15, <1>t, <1>a DEF Register, Goto, client, tables, history, Emptied
<1>16. ASSUME NEW u \in Users, Leave(u) PROVE Emptied'
  BY <1>16, <1>t, <1>a DEF Leave, Goto, client, tables, history, Emptied
<1>17. ASSUME NEW u \in Users, NEW i \in Nat, TakesMessage(u, i) PROVE Emptied'
  BY <1>17, <1>t, <1>a DEF TakesMessage, OutTaken, Goto, tables, history, Emptied
<1>18. ASSUME NEW u \in Users, NEW c \in Nat, TakesSync(u, c) PROVE Emptied'
  BY <1>18, <1>t, <1>a DEF TakesSync, OutTaken, Goto, tables, history, Emptied
<1>19. ASSUME NEW u \in Users, TakesDelete(u) PROVE Emptied'
  BY <1>19, <1>t, <1>a DEF TakesDelete, OutTaken, Goto, tables, history, Emptied
<1>20. ASSUME NEW u \in Users, Save(u) PROVE Emptied'
  BY <1>20, <1>t, <1>a DEF Save, Goto, client, history, Emptied, Handled
<1>21. ASSUME NEW u \in Users, RouteSent(u) PROVE Emptied'
  BY <1>21, <1>t, <1>a DEF RouteSent, Goto, tables, history, Emptied
<1>22. ASSUME NEW u \in Users, RouteAway(u) PROVE Emptied'
  BY <1>22, <1>t, <1>a DEF RouteAway, Goto, client, tables, history, Emptied
<1>23. ASSUME NEW u \in Users, ReloadNone(u) PROVE Emptied'
  BY <1>23, <1>t, <1>a DEF ReloadNone, Goto, client, tables, history, Emptied
<1>24. ASSUME NEW u \in Users, NEW m \in Nat, ReloadFound(u, m) PROVE Emptied'
  BY <1>24, <1>t, <1>a DEF ReloadFound, Goto, client, tables, history, Emptied
<1>25. ASSUME NEW u \in Users, Queue(u) PROVE Emptied'
  BY <1>25, <1>t, <1>a DEF Queue, Goto, client, history, Emptied
<1>26. ASSUME NEW u \in Users, ReadsHistory(u) PROVE Emptied'
  BY <1>26, <1>t, <1>a DEF ReadsHistory, Goto, client, tables, history, Emptied
<1>27. ASSUME NEW u \in Users, NEW i \in Nat, ReplaySent(u, i) PROVE Emptied'
  BY <1>27, <1>t, <1>a DEF ReplaySent, tables, history, Emptied
<1>28. ASSUME NEW u \in Users, ReplayDone(u) PROVE Emptied'
  BY <1>28, <1>t, <1>a DEF ReplayDone, Goto, client, tables, history, Emptied
<1>29. ASSUME NEW u \in Users, Purge(u) PROVE Emptied'
  BY <1>29, <1>t, <1>a DEF Purge, Goto, client, tables, history, Emptied
<1>30. ASSUME NEW u \in Users, EraseDone(u) PROVE Emptied'
  BY <1>30, <1>t, <1>a DEF EraseDone, Goto, client, Emptied
<1>31. ASSUME NEW u \in Users, EraseFailed(u) PROVE Emptied'
  BY <1>31, <1>t, <1>a DEF EraseFailed, Goto, client, tables, history, Emptied
<1>32. ASSUME NEW u \in Users, NotifySent(u) PROVE Emptied'
  BY <1>32, <1>t, <1>a DEF NotifySent, Goto, tables, Emptied
<1>33. ASSUME NEW u \in Users, NotifyNote(u) PROVE Emptied'
  BY <1>33, <1>t, <1>a DEF NotifyNote, Goto, client, tables, history, Emptied
<1>34. ASSUME NEW u \in Users, Note(u) PROVE Emptied'
  BY <1>34, <1>t, <1>a DEF Note, Goto, client, history, Emptied
<1>35. CASE UNCHANGED vars
  BY <1>35, <1>t, <1>a DEF vars, client, thread, tables, history, Emptied
<1>36. ASSUME NEW u \in Users, Fails(u) PROVE Emptied'
  BY <1>36, <1>t, <1>a DEF Fails, Goto, client, tables, history, Emptied
<1>37. ASSUME Crash PROVE Emptied'
  BY <1>37, <1>t, <1>a, TwoUsers, HasEmpty DEF Crash, tables, Emptied
<1>38. ASSUME NEW u \in Users, LoginFails(u) PROVE Emptied'
  BY <1>38, <1>t, <1>a DEF LoginFails, Goto, client, Emptied
<1> QED BY <1>1, <1>2, <1>3, <1>4, <1>5, <1>6, <1>7, <1>8, <1>9, <1>10, <1>11, <1>12, <1>13,
   <1>14, <1>15, <1>16, <1>17, <1>18, <1>19, <1>20, <1>21, <1>22, <1>23, <1>24, <1>25, <1>26,
   <1>27, <1>28, <1>29, <1>30, <1>31, <1>32, <1>33, <1>34, <1>35, <1>36,
   <1>37, <1>38, StepCases DEF Cases, Typed

-----------------------------------------------------------------------------
(***************************************************************************)
(* The sync of a login.                                                    *)
(***************************************************************************)
\* A device is ready when it is online and its ACK is not on its way.
LEMMA ReadyHas ==
    \A v \in Users : /\ Ready(v) <=> online[v] /\ ~Has(inbox[v], LoginAck)
                     /\ Ready(v)' <=> online'[v] /\ ~Has(inbox'[v], LoginAck)
BY DEF Ready, Has

\* No device becomes ready, no thread arrives and no sync is read.
SyncKept ==
    \A v \in Users : Ready(v)' /\ pc'[v] \in Arriving =>
        Unsynced(v)' \/ (Ready(v) /\ pc[v] \in Arriving /\ ~Unsynced(v))

\* Then the sync of a login is still to be read.
LEMMA SyncQuiet == SyncLast /\ SyncKept => SyncLast'
BY DEF SyncLast, SyncKept

\* The sync of a login is read when the login is done.
LEMMA SyncLastStep ==
    ASSUME Typed, SyncLast, [Next]_vars
    PROVE  SyncLast'
<1>t. /\ pc \in [Users -> Labels] /\ online \in [Users -> BOOLEAN] /\ cursor \in [Users -> Nat]
      /\ inbox \in [Users -> Seq(ToClient)]
  BY DEF Typed, Shapes, Wires, Threads, Copies
<1>a. SyncLast
  OBVIOUS
<1>1. ASSUME NEW u \in Users, Writes(u) PROVE SyncLast'
  <2>1. /\ online' = online /\ inbox' = inbox /\ cursor' = cursor /\ pc' = pc
        /\ Grown(outbox[u], outbox'[u], Message(Len(from) + 1))
        /\ \A w \in Users \ {u} : outbox'[w] = outbox[w]
    BY <1>1 DEF Writes, Asks, thread
  <2>2. \A v \in Users : \A x : Has(outbox[v], x) => Has(outbox'[v], x)
    BY <2>1, HasGrown
  <2>q. SyncKept
    BY <2>1, <2>2, ReadyHas DEF SyncKept, Unsynced
  <2> QED BY <1>a, <2>q, SyncQuiet
<1>2. ASSUME NEW u \in Users, DeleteHere(u) PROVE SyncLast'
  <2>1. /\ online' = online /\ inbox' = inbox /\ outbox' = outbox /\ cursor' = cursor
        /\ \A v \in Users : pc'[v] \in Arriving => pc[v] \in Arriving
    BY <1>2, <1>t DEF DeleteHere, Forget, thread, tables, Arriving
  <2>q. SyncKept
    BY <2>1, ReadyHas DEF SyncKept, Unsynced
  <2> QED BY <1>a, <2>q, SyncQuiet
<1>3. ASSUME NEW u \in Users, AsksDelete(u) PROVE SyncLast'
  <2>1. /\ online' = online /\ inbox' = inbox /\ cursor' = cursor /\ pc' = pc
        /\ Grown(outbox[u], outbox'[u], Delete)
        /\ \A w \in Users \ {u} : outbox'[w] = outbox[w]
    BY <1>3 DEF AsksDelete, Forget, Asks, thread
  <2>2. \A v \in Users : \A x : Has(outbox[v], x) => Has(outbox'[v], x)
    BY <2>1, HasGrown
  <2>q. SyncKept
    BY <2>1, <2>2, ReadyHas DEF SyncKept, Unsynced
  <2> QED BY <1>a, <2>q, SyncQuiet
<1>4. ASSUME NEW u \in Users, NEW c \in Nat, AckRead(u, c) PROVE SyncLast'
  <2>1. /\ online' = online /\ pc' = pc /\ cursor'[u] = c
        /\ Grown(outbox[u], outbox'[u], Sync(c))
        /\ \A w \in Users \ {u} :
             inbox'[w] = inbox[w] /\ outbox'[w] = outbox[w] /\ cursor'[w] = cursor[w]
    BY <1>4, <1>t DEF AckRead, InTaken, Asks, thread
  <2>2. Has(outbox'[u], Sync(c))
    BY <2>1, HasGrown
  <2>q. SyncKept
    BY <2>1, <2>2, ReadyHas DEF SyncKept, Unsynced
  <2> QED BY <1>a, <2>q, SyncQuiet
<1>5. ASSUME NEW u \in Users, NEW i \in Nat, MessageRead(u, i) PROVE SyncLast'
  <2>1. /\ online' = online /\ outbox' = outbox /\ cursor' = cursor
        /\ \A v \in Users : pc'[v] \in Arriving => pc[v] \in Arriving
    BY <1>5, <1>t DEF MessageRead, InTaken, ReceiveMessage, thread, tables, Arriving
  <2>s. /\ \A v \in Users \ {u} : inbox'[v] = inbox[v]
        /\ Shrunk(inbox[u], inbox'[u]) /\ inbox[u][1] = Message(i)
    BY <1>5 DEF MessageRead, InTaken
  <2>h. \A v \in Users : Has(inbox[v], LoginAck) => Has(inbox'[v], LoginAck)
    <3>1. Has(inbox[u], LoginAck) => Has(inbox'[u], LoginAck)
      BY <2>s, HasShrunk, PacketKinds
    <3> QED BY <2>s, <3>1
  <2>q. SyncKept
    BY <2>1, <2>h, ReadyHas DEF SyncKept, Unsynced
  <2> QED BY <1>a, <2>q, SyncQuiet
<1>6. ASSUME NEW u \in Users, DeleteRead(u) PROVE SyncLast'
  <2>1. /\ online' = online /\ outbox' = outbox /\ cursor' = cursor
        /\ \A v \in Users : pc'[v] \in Arriving => pc[v] \in Arriving
    BY <1>6, <1>t DEF DeleteRead, InTaken, ReceiveDelete, thread, tables, Arriving
  <2>s. /\ \A v \in Users \ {u} : inbox'[v] = inbox[v]
        /\ Shrunk(inbox[u], inbox'[u]) /\ inbox[u][1] = Delete
    BY <1>6 DEF DeleteRead, InTaken
  <2>h. \A v \in Users : Has(inbox[v], LoginAck) => Has(inbox'[v], LoginAck)
    <3>1. Has(inbox[u], LoginAck) => Has(inbox'[u], LoginAck)
      BY <2>s, HasShrunk, PacketKinds
    <3> QED BY <2>s, <3>1
  <2>q. SyncKept
    BY <2>1, <2>h, ReadyHas DEF SyncKept, Unsynced
  <2> QED BY <1>a, <2>q, SyncQuiet
<1>7. ASSUME NEW u \in Users, Disconnect(u) PROVE SyncLast'
  <2>1. /\ ~online'[u] /\ pc' = pc /\ cursor' = cursor
        /\ \A w \in Users \ {u} :
             inbox'[w] = inbox[w] /\ outbox'[w] = outbox[w] /\ online'[w] = online[w]
    BY <1>7, <1>t DEF Disconnect, thread
  <2>q. SyncKept
    BY <2>1, ReadyHas DEF SyncKept, Unsynced
  <2> QED BY <1>a, <2>q, SyncQuiet
<1>8. ASSUME NEW u \in Users, Login(u) PROVE SyncLast'
  <2>1. /\ inbox'[u] = <<LoginAck>> /\ outbox' = outbox /\ cursor' = cursor
        /\ \A w \in Users \ {u} :
             inbox'[w] = inbox[w] /\ pc'[w] = pc[w] /\ online'[w] = online[w]
    BY <1>8, <1>t DEF Login, Goto
  <2>2. Has(<<LoginAck>>, LoginAck)
    <3>1. 1 \in DOMAIN <<LoginAck>> /\ <<LoginAck>>[1] = LoginAck
      OBVIOUS
    <3> QED BY <3>1 DEF Has
  <2>q. SyncKept
    BY <2>1, <2>2, ReadyHas DEF SyncKept, Unsynced
  <2> QED BY <1>a, <2>q, SyncQuiet
<1>9. ASSUME NEW u \in Users, ReadsQueue(u) PROVE SyncLast'
  <2>1. /\ online' = online /\ inbox' = inbox /\ outbox' = outbox /\ cursor' = cursor
        /\ \A v \in Users : pc'[v] \in Arriving => pc[v] \in Arriving
    BY <1>9, <1>t DEF ReadsQueue, Goto, client, tables, history, Arriving
  <2>q. SyncKept
    BY <2>1, ReadyHas DEF SyncKept, Unsynced
  <2> QED BY <1>a, <2>q, SyncQuiet
<1>10. ASSUME NEW u \in Users, NEW i \in Nat, FlushSent(u, i) PROVE SyncLast'
  <2>1. /\ online' = online /\ outbox' = outbox /\ cursor' = cursor
        /\ \A v \in Users : pc'[v] \in Arriving => pc[v] \in Arriving
    BY <1>10, <1>t DEF FlushSent, Arriving
  <2>s. /\ \A v \in Users \ {u} : inbox'[v] = inbox[v]
        /\ ~online[u] => inbox'[u] = inbox[u]
        /\ online[u] => Grown(inbox[u], inbox'[u], Message(i))
    BY <1>10 DEF FlushSent, Sent
  <2>h. \A v \in Users : Has(inbox[v], LoginAck) => Has(inbox'[v], LoginAck)
    <3>1. online[u] => (Has(inbox[u], LoginAck) => Has(inbox'[u], LoginAck))
      BY <2>s, HasGrown
    <3> QED BY <2>s, <3>1
  <2>q. SyncKept
    BY <2>1, <2>h, ReadyHas DEF SyncKept, Unsynced
  <2> QED BY <1>a, <2>q, SyncQuiet
<1>11. ASSUME NEW u \in Users, FlushQuiet(u) PROVE SyncLast'
  <2>1. /\ online' = online /\ inbox' = inbox /\ outbox' = outbox /\ cursor' = cursor
        /\ \A v \in Users : pc'[v] \in Arriving => pc[v] \in Arriving
    BY <1>11, <1>t DEF FlushQuiet, client, tables, history, Arriving
  <2>q. SyncKept
    BY <2>1, ReadyHas DEF SyncKept, Unsynced
  <2> QED BY <1>a, <2>q, SyncQuiet
<1>12. ASSUME NEW u \in Users, ReadNotes(u) PROVE SyncLast'
  <2>1. /\ online' = online /\ inbox' = inbox /\ outbox' = outbox /\ cursor' = cursor
        /\ \A v \in Users : pc'[v] \in Arriving => pc[v] \in Arriving
    BY <1>12, <1>t DEF ReadNotes, Goto, client, tables, history, Arriving
  <2>q. SyncKept
    BY <2>1, ReadyHas DEF SyncKept, Unsynced
  <2> QED BY <1>a, <2>q, SyncQuiet
<1>13. ASSUME NEW u \in Users, ClearNotes(u) PROVE SyncLast'
  <2>1. /\ online' = online /\ inbox' = inbox /\ outbox' = outbox /\ cursor' = cursor
        /\ \A v \in Users : pc'[v] \in Arriving => pc[v] \in Arriving
    BY <1>13, <1>t DEF ClearNotes, Goto, client, Arriving
  <2>q. SyncKept
    BY <2>1, ReadyHas DEF SyncKept, Unsynced
  <2> QED BY <1>a, <2>q, SyncQuiet
<1>14. ASSUME NEW u \in Users, SendsNotes(u) PROVE SyncLast'
  <2>1. /\ online' = online /\ outbox' = outbox /\ cursor' = cursor
        /\ \A v \in Users : pc'[v] \in Arriving => pc[v] \in Arriving
    BY <1>14, <1>t DEF SendsNotes, Goto, tables, Arriving
  <2>h. \A v \in Users : Has(inbox[v], LoginAck) => Has(inbox'[v], LoginAck)
    BY <1>14 DEF SendsNotes, Has
  <2>q. SyncKept
    BY <2>1, <2>h, ReadyHas DEF SyncKept, Unsynced
  <2> QED BY <1>a, <2>q, SyncQuiet
<1>15. ASSUME NEW u \in Users, Register(u) PROVE SyncLast'
  <2>1. /\ online' = online /\ inbox' = inbox /\ outbox' = outbox /\ cursor' = cursor
        /\ \A v \in Users : pc'[v] \in Arriving => pc[v] \in Arriving
    BY <1>15, <1>t DEF Register, Goto, client, tables, history, Arriving
  <2>q. SyncKept
    BY <2>1, ReadyHas DEF SyncKept, Unsynced
  <2> QED BY <1>a, <2>q, SyncQuiet
<1>16. ASSUME NEW u \in Users, Leave(u) PROVE SyncLast'
  <2>1. /\ online' = online /\ inbox' = inbox /\ outbox' = outbox /\ cursor' = cursor
        /\ ~online[u] /\ \A v \in Users \ {u} : pc'[v] = pc[v]
    BY <1>16, <1>t DEF Leave, Goto, client
  <2>q. SyncKept
    BY <2>1, ReadyHas DEF SyncKept, Unsynced
  <2> QED BY <1>a, <2>q, SyncQuiet
<1>17. ASSUME NEW u \in Users, NEW i \in Nat, TakesMessage(u, i) PROVE SyncLast'
  <2>1. /\ online' = online /\ inbox' = inbox /\ cursor' = cursor /\ pc'[u] \notin Arriving
        /\ \A w \in Users \ {u} : outbox'[w] = outbox[w] /\ pc'[w] = pc[w]
    BY <1>17, <1>t DEF TakesMessage, OutTaken, Goto, Arriving
  <2>q. SyncKept
    BY <2>1, ReadyHas DEF SyncKept, Unsynced
  <2> QED BY <1>a, <2>q, SyncQuiet
<1>18. ASSUME NEW u \in Users, NEW c \in Nat, TakesSync(u, c) PROVE SyncLast'
  <2>1. /\ online' = online /\ inbox' = inbox /\ cursor' = cursor /\ pc'[u] \notin Arriving
        /\ \A w \in Users \ {u} : outbox'[w] = outbox[w] /\ pc'[w] = pc[w]
    BY <1>18, <1>t DEF TakesSync, OutTaken, Goto, Arriving
  <2>q. SyncKept
    BY <2>1, ReadyHas DEF SyncKept, Unsynced
  <2> QED BY <1>a, <2>q, SyncQuiet
<1>19. ASSUME NEW u \in Users, TakesDelete(u) PROVE SyncLast'
  <2>1. /\ online' = online /\ inbox' = inbox /\ cursor' = cursor /\ pc'[u] \notin Arriving
        /\ \A w \in Users \ {u} : outbox'[w] = outbox[w] /\ pc'[w] = pc[w]
    BY <1>19, <1>t DEF TakesDelete, OutTaken, Goto, Arriving
  <2>q. SyncKept
    BY <2>1, ReadyHas DEF SyncKept, Unsynced
  <2> QED BY <1>a, <2>q, SyncQuiet
<1>20. ASSUME NEW u \in Users, Save(u) PROVE SyncLast'
  <2>1. /\ online' = online /\ inbox' = inbox /\ outbox' = outbox /\ cursor' = cursor
        /\ \A v \in Users : pc'[v] \in Arriving => pc[v] \in Arriving
    BY <1>20, <1>t DEF Save, Goto, client, history, Arriving
  <2>q. SyncKept
    BY <2>1, ReadyHas DEF SyncKept, Unsynced
  <2> QED BY <1>a, <2>q, SyncQuiet
<1>21. ASSUME NEW u \in Users, RouteSent(u) PROVE SyncLast'
  <2>1. /\ online' = online /\ outbox' = outbox /\ cursor' = cursor
        /\ \A v \in Users : pc'[v] \in Arriving => pc[v] \in Arriving
    BY <1>21, <1>t DEF RouteSent, Goto, tables, history, Arriving
  <2>s. /\ \A v \in Users \ {Other(u)} : inbox'[v] = inbox[v]
        /\ ~online[Other(u)] => inbox'[Other(u)] = inbox[Other(u)]
        /\ online[Other(u)] => Grown(inbox[Other(u)], inbox'[Other(u)], Message(cur[u]))
    BY <1>21 DEF RouteSent, Sent
  <2>h. \A v \in Users : Has(inbox[v], LoginAck) => Has(inbox'[v], LoginAck)
    <3>1. online[Other(u)] => (Has(inbox[Other(u)], LoginAck) => Has(inbox'[Other(u)], LoginAck))
      BY <2>s, HasGrown
    <3> QED BY <2>s, <3>1
  <2>q. SyncKept
    BY <2>1, <2>h, ReadyHas DEF SyncKept, Unsynced
  <2> QED BY <1>a, <2>q, SyncQuiet
<1>22. ASSUME NEW u \in Users, RouteAway(u) PROVE SyncLast'
  <2>1. /\ online' = online /\ inbox' = inbox /\ outbox' = outbox /\ cursor' = cursor
        /\ \A v \in Users : pc'[v] \in Arriving => pc[v] \in Arriving
    BY <1>22, <1>t DEF RouteAway, Goto, client, tables, history, Arriving
  <2>q. SyncKept
    BY <2>1, ReadyHas DEF SyncKept, Unsynced
  <2> QED BY <1>a, <2>q, SyncQuiet
<1>23. ASSUME NEW u \in Users, ReloadNone(u) PROVE SyncLast'
  <2>1. /\ online' = online /\ inbox' = inbox /\ outbox' = outbox /\ cursor' = cursor
        /\ \A v \in Users : pc'[v] \in Arriving => pc[v] \in Arriving
    BY <1>23, <1>t DEF ReloadNone, Goto, client, tables, history, Arriving
  <2>q. SyncKept
    BY <2>1, ReadyHas DEF SyncKept, Unsynced
  <2> QED BY <1>a, <2>q, SyncQuiet
<1>24. ASSUME NEW u \in Users, NEW m \in Nat, ReloadFound(u, m) PROVE SyncLast'
  <2>1. /\ online' = online /\ inbox' = inbox /\ outbox' = outbox /\ cursor' = cursor
        /\ \A v \in Users : pc'[v] \in Arriving => pc[v] \in Arriving
    BY <1>24, <1>t DEF ReloadFound, Goto, client, tables, history, Arriving
  <2>q. SyncKept
    BY <2>1, ReadyHas DEF SyncKept, Unsynced
  <2> QED BY <1>a, <2>q, SyncQuiet
<1>25. ASSUME NEW u \in Users, Queue(u) PROVE SyncLast'
  <2>1. /\ online' = online /\ inbox' = inbox /\ outbox' = outbox /\ cursor' = cursor
        /\ \A v \in Users : pc'[v] \in Arriving => pc[v] \in Arriving
    BY <1>25, <1>t DEF Queue, Goto, client, history, Arriving
  <2>q. SyncKept
    BY <2>1, ReadyHas DEF SyncKept, Unsynced
  <2> QED BY <1>a, <2>q, SyncQuiet
<1>26. ASSUME NEW u \in Users, ReadsHistory(u) PROVE SyncLast'
  <2>1. /\ online' = online /\ inbox' = inbox /\ outbox' = outbox /\ cursor' = cursor
        /\ \A v \in Users : pc'[v] \in Arriving => pc[v] \in Arriving
    BY <1>26, <1>t DEF ReadsHistory, Goto, client, tables, history, Arriving
  <2>q. SyncKept
    BY <2>1, ReadyHas DEF SyncKept, Unsynced
  <2> QED BY <1>a, <2>q, SyncQuiet
<1>27. ASSUME NEW u \in Users, NEW i \in Nat, ReplaySent(u, i) PROVE SyncLast'
  <2>1. /\ online' = online /\ outbox' = outbox /\ cursor' = cursor
        /\ \A v \in Users : pc'[v] \in Arriving => pc[v] \in Arriving
    BY <1>27, <1>t DEF ReplaySent, tables, history, Arriving
  <2>s. /\ \A v \in Users \ {u} : inbox'[v] = inbox[v]
        /\ ~online[u] => inbox'[u] = inbox[u]
        /\ online[u] => Grown(inbox[u], inbox'[u], Message(i))
    BY <1>27 DEF ReplaySent, Sent
  <2>h. \A v \in Users : Has(inbox[v], LoginAck) => Has(inbox'[v], LoginAck)
    <3>1. online[u] => (Has(inbox[u], LoginAck) => Has(inbox'[u], LoginAck))
      BY <2>s, HasGrown
    <3> QED BY <2>s, <3>1
  <2>q. SyncKept
    BY <2>1, <2>h, ReadyHas DEF SyncKept, Unsynced
  <2> QED BY <1>a, <2>q, SyncQuiet
<1>28. ASSUME NEW u \in Users, ReplayDone(u) PROVE SyncLast'
  <2>1. /\ online' = online /\ inbox' = inbox /\ outbox' = outbox /\ cursor' = cursor
        /\ \A v \in Users : pc'[v] \in Arriving => pc[v] \in Arriving
    BY <1>28, <1>t DEF ReplayDone, Goto, client, tables, history, Arriving
  <2>q. SyncKept
    BY <2>1, ReadyHas DEF SyncKept, Unsynced
  <2> QED BY <1>a, <2>q, SyncQuiet
<1>29. ASSUME NEW u \in Users, Purge(u) PROVE SyncLast'
  <2>1. /\ online' = online /\ inbox' = inbox /\ outbox' = outbox /\ cursor' = cursor
        /\ \A v \in Users : pc'[v] \in Arriving => pc[v] \in Arriving
    BY <1>29, <1>t DEF Purge, Goto, client, tables, history, Arriving
  <2>q. SyncKept
    BY <2>1, ReadyHas DEF SyncKept, Unsynced
  <2> QED BY <1>a, <2>q, SyncQuiet
<1>30. ASSUME NEW u \in Users, EraseDone(u) PROVE SyncLast'
  <2>1. /\ online' = online /\ inbox' = inbox /\ outbox' = outbox /\ cursor' = cursor
        /\ \A v \in Users : pc'[v] \in Arriving => pc[v] \in Arriving
    BY <1>30, <1>t DEF EraseDone, Goto, client, Arriving
  <2>q. SyncKept
    BY <2>1, ReadyHas DEF SyncKept, Unsynced
  <2> QED BY <1>a, <2>q, SyncQuiet
<1>31. ASSUME NEW u \in Users, EraseFailed(u) PROVE SyncLast'
  <2>1. /\ online' = online /\ inbox' = inbox /\ outbox' = outbox /\ cursor' = cursor
        /\ \A v \in Users : pc'[v] \in Arriving => pc[v] \in Arriving
    BY <1>31, <1>t DEF EraseFailed, Goto, client, tables, history, Arriving
  <2>q. SyncKept
    BY <2>1, ReadyHas DEF SyncKept, Unsynced
  <2> QED BY <1>a, <2>q, SyncQuiet
<1>32. ASSUME NEW u \in Users, NotifySent(u) PROVE SyncLast'
  <2>1. /\ online' = online /\ outbox' = outbox /\ cursor' = cursor
        /\ \A v \in Users : pc'[v] \in Arriving => pc[v] \in Arriving
    BY <1>32, <1>t DEF NotifySent, Goto, tables, Arriving
  <2>s. /\ \A v \in Users \ {Other(u)} : inbox'[v] = inbox[v]
        /\ ~online[Other(u)] => inbox'[Other(u)] = inbox[Other(u)]
        /\ online[Other(u)] => Grown(inbox[Other(u)], inbox'[Other(u)], Delete)
    BY <1>32 DEF NotifySent, Sent
  <2>h. \A v \in Users : Has(inbox[v], LoginAck) => Has(inbox'[v], LoginAck)
    <3>1. online[Other(u)] => (Has(inbox[Other(u)], LoginAck) => Has(inbox'[Other(u)], LoginAck))
      BY <2>s, HasGrown
    <3> QED BY <2>s, <3>1
  <2>q. SyncKept
    BY <2>1, <2>h, ReadyHas DEF SyncKept, Unsynced
  <2> QED BY <1>a, <2>q, SyncQuiet
<1>33. ASSUME NEW u \in Users, NotifyNote(u) PROVE SyncLast'
  <2>1. /\ online' = online /\ inbox' = inbox /\ outbox' = outbox /\ cursor' = cursor
        /\ \A v \in Users : pc'[v] \in Arriving => pc[v] \in Arriving
    BY <1>33, <1>t DEF NotifyNote, Goto, client, tables, history, Arriving
  <2>q. SyncKept
    BY <2>1, ReadyHas DEF SyncKept, Unsynced
  <2> QED BY <1>a, <2>q, SyncQuiet
<1>34. ASSUME NEW u \in Users, Note(u) PROVE SyncLast'
  <2>1. /\ online' = online /\ inbox' = inbox /\ outbox' = outbox /\ cursor' = cursor
        /\ \A v \in Users : pc'[v] \in Arriving => pc[v] \in Arriving
    BY <1>34, <1>t DEF Note, Goto, client, history, Arriving
  <2>q. SyncKept
    BY <2>1, ReadyHas DEF SyncKept, Unsynced
  <2> QED BY <1>a, <2>q, SyncQuiet
<1>35. CASE UNCHANGED vars
  BY <1>35, <1>t, <1>a DEF vars, client, thread, tables, history, SyncLast, Ready, Unsynced
<1>36. ASSUME NEW u \in Users, Fails(u) PROVE SyncLast'
  <2>1. /\ online' = online /\ inbox' = inbox /\ outbox' = outbox /\ cursor' = cursor
        /\ \A v \in Users : pc'[v] \in Arriving => pc[v] \in Arriving
    BY <1>36, <1>t DEF Fails, Goto, client, tables, history, Arriving
  <2>q. SyncKept
    BY <2>1, ReadyHas DEF SyncKept, Unsynced
  <2> QED BY <1>a, <2>q, SyncQuiet
<1>37. ASSUME Crash PROVE SyncLast'
  <2>1. \A v \in Users : ~Ready(v)'
    BY <1>37 DEF Crash, Ready
  <2> QED BY <2>1 DEF SyncLast
<1>38. ASSUME NEW u \in Users, LoginFails(u) PROVE SyncLast'
  <2>1. /\ online' = online /\ inbox' = inbox /\ outbox' = outbox /\ cursor' = cursor
        /\ \A v \in Users : pc'[v] \in Arriving => pc[v] \in Arriving
    BY <1>38, <1>t DEF LoginFails, Goto, client, Arriving
  <2>q. SyncKept
    BY <2>1, ReadyHas DEF SyncKept, Unsynced
  <2> QED BY <1>a, <2>q, SyncQuiet
<1> QED BY <1>1, <1>2, <1>3, <1>4, <1>5, <1>6, <1>7, <1>8, <1>9, <1>10, <1>11, <1>12, <1>13,
   <1>14, <1>15, <1>16, <1>17, <1>18, <1>19, <1>20, <1>21, <1>22, <1>23, <1>24, <1>25, <1>26,
   <1>27, <1>28, <1>29, <1>30, <1>31, <1>32, <1>33, <1>34, <1>35, <1>36,
   <1>37, <1>38, StepCases DEF Cases, Typed

-----------------------------------------------------------------------------
(***************************************************************************)
(* What a device is still to get.                                          *)
(***************************************************************************)
\* A message that was due to v is due, and he keeps the others he has.
Kept(v) ==
    \A j \in rows' : from'[j] # v =>
        \/ Due(v, j)'
        \/ j \in rows /\ from[j] # v /\ ~Due(v, j) /\ (j \in store[v] => j \in store'[v])

\* ... or it is the one on its way in packet p.
KeptOr(v, p) ==
    \A j \in rows' : from'[j] # v =>
        \/ p = Message(j) \/ Due(v, j)'
        \/ j \in rows /\ from[j] # v /\ ~Due(v, j) /\ (j \in store[v] => j \in store'[v])

\* What Due looks at stays, for v.
DueSame(v) ==
    /\ queue \subseteq queue' /\ hidden[v] \subseteq hidden'[v] /\ cursor'[v] = cursor[v]
    /\ \A c : Has(outbox[v], Sync(c)) => Has(outbox'[v], Sync(c))
    /\ pc[v] = "sync" => pc'[v] = "sync" /\ cur'[v] = cur[v]
    /\ pc[v] = "replay" => pc'[v] = "replay" /\ pend'[v] = pend[v]
    /\ v \in missed => v \in missed'
    /\ pc[Other(v)] = "route" => pc'[Other(v)] = "route" /\ cur'[Other(v)] = cur[Other(v)]

\* No message is added for v.
RowsSame(v) ==
    \A j \in rows' : from'[j] # v => j \in rows /\ from[j] # v

\* Nothing happens that concerns v.
Quiet(v) ==
    /\ DueSame(v) /\ RowsSame(v) /\ store[v] \subseteq store'[v]
    /\ inbox'[v] = inbox[v] /\ online'[v] = online[v]

\* Then what is due stays due.
LEMMA DueStays == ASSUME NEW v, DueSame(v) PROVE \A j : Due(v, j) => Due(v, j)'
BY DEF DueSame, Due, Unsynced

\* What is due stays due, and nothing leaves the device.
LEMMA StillKept ==
    ASSUME NEW v, RowsSame(v), store[v] \subseteq store'[v],
           \A j \in rows : from[j] # v /\ Due(v, j) => Due(v, j)'
    PROVE  Kept(v)
BY DEF Kept, RowsSame

\* A device that is not ready has nothing to restore.
LEMMA ForNone == ASSUME NEW v \in Users, ~Ready(v)' PROVE RestoredFor(v)'
BY DEF RestoredFor

\* A device to which everything is due is to get it.
LEMMA ForDue ==
    ASSUME NEW v \in Users, \A j \in rows' : from'[j] # v => Due(v, j)'
    PROVE  RestoredFor(v)'
BY DEF RestoredFor, Coming

\* The connection to the device stays as it is.
LEMMA ForSame ==
    ASSUME NEW v \in Users, RestoredFor(v), Kept(v), inbox'[v] = inbox[v],
           online'[v] = online[v]
    PROVE  RestoredFor(v)'
<1> SUFFICES ASSUME Ready(v)', NEW j \in rows', from'[j] # v
             PROVE  /\ j \in store'[v] \/ Coming(v, j, 0)'
                    /\ \A n \in DOMAIN inbox'[v] : inbox'[v][n] = Delete => Coming(v, j, n)'
  BY DEF RestoredFor
<1>1. CASE Due(v, j)'
  BY <1>1 DEF Coming
<1>2. CASE j \in rows /\ from[j] # v /\ ~Due(v, j) /\ (j \in store[v] => j \in store'[v])
  <2>1. Ready(v)
    BY ReadyHas
  <2>2. /\ j \in store[v] \/ Past(inbox[v], 0, Message(j))
        /\ \A n \in DOMAIN inbox[v] : inbox[v][n] = Delete => Past(inbox[v], n, Message(j))
    BY <1>2, <2>1 DEF RestoredFor, Coming
  <2> QED BY <1>2, <2>2 DEF Coming
<1> QED BY <1>1, <1>2 DEF Kept

\* Nothing happens that concerns the device.
LEMMA ForQuiet == ASSUME NEW v \in Users, RestoredFor(v), Quiet(v) PROVE RestoredFor(v)'
<1>1. \A j : Due(v, j) => Due(v, j)'
  BY DueStays DEF Quiet
<1>2. Kept(v)
  BY <1>1, StillKept DEF Quiet
<1> QED BY <1>2, ForSame DEF Quiet

\* A packet that wipes nothing is sent to the device, if its socket lives.
LEMMA ForSent ==
    ASSUME NEW v \in Users, RestoredFor(v), NEW p, p # Delete, Sent(v, p),
           online'[v] = online[v], KeptOr(v, p)
    PROVE  RestoredFor(v)'
<1> SUFFICES ASSUME Ready(v)', NEW j \in rows', from'[j] # v
             PROVE  /\ j \in store'[v] \/ Coming(v, j, 0)'
                    /\ \A n \in DOMAIN inbox'[v] : inbox'[v][n] = Delete => Coming(v, j, n)'
  BY DEF RestoredFor
<1>1. Grown(inbox[v], inbox'[v], p)
  BY ReadyHas DEF Sent
<1>2. CASE Due(v, j)'
  BY <1>2 DEF Coming
<1>3. \A n \in DOMAIN inbox'[v] : inbox'[v][n] = Delete =>
        n \in DOMAIN inbox[v] /\ inbox[v][n] = Delete
  BY <1>1 DEF Grown
<1>4. CASE p = Message(j)
  <2>1. /\ Past(inbox'[v], 0, Message(j))
        /\ \A n \in DOMAIN inbox[v] : Past(inbox'[v], n, Message(j))
    BY <1>1, <1>4, PastGrown
  <2> QED BY <1>3, <2>1 DEF Coming
<1>5. CASE j \in rows /\ from[j] # v /\ ~Due(v, j) /\ (j \in store[v] => j \in store'[v])
  <2>1. Ready(v)
    BY <1>1, HasGrown, ReadyHas
  <2>2. /\ j \in store[v] \/ Past(inbox[v], 0, Message(j))
        /\ \A n \in DOMAIN inbox[v] : inbox[v][n] = Delete => Past(inbox[v], n, Message(j))
    BY <1>5, <2>1 DEF RestoredFor, Coming
  <2>3. \A n : Past(inbox[v], n, Message(j)) => Past(inbox'[v], n, Message(j))
    BY <1>1, PastGrown
  <2> QED BY <1>3, <1>5, <2>2, <2>3 DEF Coming
<1> QED BY <1>2, <1>4, <1>5 DEF KeptOr

\* A message or a deletion is read: what was behind it still is.
LEMMA ForRead ==
    ASSUME NEW v \in Users, RestoredFor(v), Shrunk(inbox[v], inbox'[v]), inbox[v][1] # LoginAck,
           online'[v] = online[v], RowsSame(v), DueSame(v),
           \/ inbox[v][1] = Delete
           \/ store[v] \subseteq store'[v]
              /\ \A j \in rows : inbox[v][1] = Message(j) => j \in store'[v]
    PROVE  RestoredFor(v)'
<1> SUFFICES ASSUME Ready(v)', NEW j \in rows', from'[j] # v
             PROVE  /\ j \in store'[v] \/ Coming(v, j, 0)'
                    /\ \A n \in DOMAIN inbox'[v] : inbox'[v][n] = Delete => Coming(v, j, n)'
  BY DEF RestoredFor
<1>1. j \in rows /\ from[j] # v
  BY DEF RowsSame
<1>2. CASE Due(v, j)'
  BY <1>2 DEF Coming
<1>3. CASE ~Due(v, j)'
  <2>1. ~Due(v, j)
    BY <1>3, DueStays
  <2>2. Ready(v)
    BY HasShrunk, ReadyHas
  <2>3. /\ j \in store[v] \/ Past(inbox[v], 0, Message(j))
        /\ \A n \in DOMAIN inbox[v] : inbox[v][n] = Delete => Past(inbox[v], n, Message(j))
    BY <1>1, <2>1, <2>2 DEF RestoredFor, Coming
  <2>4. j \in store'[v] \/ Past(inbox'[v], 0, Message(j))
    <3>1. CASE inbox[v][1] = Delete
      <4>1. 1 \in DOMAIN inbox[v]
        BY DEF Shrunk
      <4>2. Past(inbox[v], 1, Message(j))
        BY <2>3, <3>1, <4>1
      <4> QED BY <4>2, PastShrunk
    <3>2. CASE /\ store[v] \subseteq store'[v]
               /\ \A k \in rows : inbox[v][1] = Message(k) => k \in store'[v]
      BY <1>1, <2>3, <3>2, PastShrunk
    <3> QED BY <3>1, <3>2
  <2>5. ASSUME NEW n \in DOMAIN inbox'[v], inbox'[v][n] = Delete
        PROVE  Past(inbox'[v], n, Message(j))
    <3>1. n + 1 \in DOMAIN inbox[v] /\ inbox[v][n + 1] = Delete
      BY <2>5 DEF Shrunk
    <3>2. Past(inbox[v], n + 1, Message(j))
      BY <2>3, <3>1
    <3> QED BY <3>2, PastShrunk
  <2> QED BY <2>4, <2>5 DEF Coming
<1> QED BY <1>2, <1>3

\* A device has each message or is to get it, behind every notification.
LEMMA RestoredStep ==
    ASSUME Typed, Emptied, SyncLast, Restored, [Next]_vars
    PROVE  Restored'
<1>t. /\ pc \in [Users -> Labels] /\ cur \in [Users -> Nat] /\ online \in [Users -> BOOLEAN]
      /\ inbox \in [Users -> Seq(ToClient)] /\ store \in [Users -> SUBSET Nat]
      /\ hidden \in [Users -> SUBSET Nat] /\ cursor \in [Users -> Nat]
      /\ rows \subseteq Ids /\ Ids \subseteq Nat /\ \A j \in Ids : from[j] \in Users
      /\ Phases
  BY DEF Typed, Shapes, Wires, Threads, Copies, Ids
<1>a. Emptied /\ SyncLast /\ Restored
  OBVIOUS
<1>1. ASSUME NEW u \in Users, Writes(u) PROVE Restored'
  <2>0. PICK w \in Users : w = Other(u) /\ u = Other(w) /\ w # u
    BY TwoUsers
  <2>1. \A c : Has(outbox[u], Sync(c)) => Has(outbox'[u], Sync(c))
    BY <1>1, HasGrown DEF Writes, Asks
  <2>u. RestoredFor(u)'
    <3>1. Quiet(u)
      BY <1>1, <1>t, <2>0, <2>1 DEF Writes, FromGrown, Asks, thread, tables, history, Quiet,
         DueSame, RowsSame
    <3> QED BY <1>a, <3>1, ForQuiet DEF Restored
  <2>w. RestoredFor(w)'
    <3>1. Quiet(w)
      BY <1>1, <1>t, <2>0 DEF Writes, FromGrown, Asks, thread, tables, history, Quiet, DueSame,
         RowsSame
    <3> QED BY <1>a, <3>1, ForQuiet DEF Restored
  <2> QED BY <2>0, <2>u, <2>w, TwoUsers DEF Restored
<1>2. ASSUME NEW u \in Users, DeleteHere(u) PROVE Restored'
  <2>0. PICK w \in Users : w = Other(u) /\ u = Other(w) /\ w # u
    BY TwoUsers
  <2>u. RestoredFor(u)'
    <3>1. /\ DueSame(u) /\ RowsSame(u) /\ inbox'[u] = inbox[u] /\ online'[u] = online[u]
          /\ store[u] \subseteq hidden'[u]
      BY <1>2, <1>t, <2>0 DEF DeleteHere, Forget, thread, tables, DueSame, RowsSame
    <3>2. \A j : j \in store[u] => Due(u, j)'
      BY <3>1 DEF Due
    <3>3. Kept(u)
      BY <3>1, <3>2, DueStays DEF Kept, RowsSame
    <3> QED BY <1>a, <3>1, <3>3, ForSame DEF Restored
  <2>w. RestoredFor(w)'
    <3>1. Quiet(w)
      BY <1>2, <1>t, <2>0 DEF DeleteHere, Forget, thread, tables, Quiet, DueSame, RowsSame
    <3> QED BY <1>a, <3>1, ForQuiet DEF Restored
  <2> QED BY <2>0, <2>u, <2>w, TwoUsers DEF Restored
<1>3. ASSUME NEW u \in Users, AsksDelete(u) PROVE Restored'
  <2>0. PICK w \in Users : w = Other(u) /\ u = Other(w) /\ w # u
    BY TwoUsers
  <2>1. \A c : Has(outbox[u], Sync(c)) => Has(outbox'[u], Sync(c))
    BY <1>3, HasGrown DEF AsksDelete, Asks
  <2>u. RestoredFor(u)'
    <3>1. /\ DueSame(u) /\ RowsSame(u) /\ inbox'[u] = inbox[u] /\ online'[u] = online[u]
          /\ store[u] \subseteq hidden'[u]
      BY <1>3, <1>t, <2>0, <2>1 DEF AsksDelete, Forget, Asks, thread, tables, DueSame, RowsSame
    <3>2. \A j : j \in store[u] => Due(u, j)'
      BY <3>1 DEF Due
    <3>3. Kept(u)
      BY <3>1, <3>2, DueStays DEF Kept, RowsSame
    <3> QED BY <1>a, <3>1, <3>3, ForSame DEF Restored
  <2>w. RestoredFor(w)'
    <3>1. Quiet(w)
      BY <1>3, <1>t, <2>0 DEF AsksDelete, Forget, Asks, thread, tables, Quiet, DueSame, RowsSame
    <3> QED BY <1>a, <3>1, ForQuiet DEF Restored
  <2> QED BY <2>0, <2>u, <2>w, TwoUsers DEF Restored
<1>4. ASSUME NEW u \in Users, NEW c \in Nat, AckRead(u, c) PROVE Restored'
  <2>0. PICK w \in Users : w = Other(u) /\ u = Other(w) /\ w # u
    BY TwoUsers
  <2>u. RestoredFor(u)'
    <3>1. cursor'[u] = c /\ Grown(outbox[u], outbox'[u], Sync(c))
      BY <1>4, <1>t DEF AckRead, Asks
    <3>2. Has(outbox'[u], Sync(c))
      BY <3>1, HasGrown
    <3>3. \A j : Due(u, j)'
      BY <3>1, <3>2 DEF Due, Unsynced
    <3> QED BY <3>3, ForDue
  <2>w. RestoredFor(w)'
    <3>1. Quiet(w)
      BY <1>4, <1>t, <2>0 DEF AckRead, InTaken, Asks, thread, tables, Quiet, DueSame, RowsSame
    <3> QED BY <1>a, <3>1, ForQuiet DEF Restored
  <2> QED BY <2>0, <2>u, <2>w, TwoUsers DEF Restored
<1>5. ASSUME NEW u \in Users, NEW i \in Nat, MessageRead(u, i) PROVE Restored'
  <2>0. PICK w \in Users : w = Other(u) /\ u = Other(w) /\ w # u
    BY TwoUsers
  <2>u. RestoredFor(u)'
    <3>1. /\ DueSame(u) /\ RowsSame(u) /\ online'[u] = online[u]
          /\ Shrunk(inbox[u], inbox'[u]) /\ inbox[u][1] = Message(i)
          /\ store[u] \subseteq store'[u] /\ i \in store'[u]
      BY <1>5, <1>t, <2>0 DEF MessageRead, InTaken, ReceiveMessage, thread, tables, DueSame,
         RowsSame
    <3> QED BY <1>a, <3>1, ForRead, PacketKinds DEF Restored
  <2>w. RestoredFor(w)'
    <3>1. Quiet(w)
      BY <1>5, <1>t, <2>0 DEF MessageRead, InTaken, ReceiveMessage, thread, tables, Quiet,
         DueSame, RowsSame
    <3> QED BY <1>a, <3>1, ForQuiet DEF Restored
  <2> QED BY <2>0, <2>u, <2>w, TwoUsers DEF Restored
<1>6. ASSUME NEW u \in Users, DeleteRead(u) PROVE Restored'
  <2>0. PICK w \in Users : w = Other(u) /\ u = Other(w) /\ w # u
    BY TwoUsers
  <2>u. RestoredFor(u)'
    <3>1. /\ DueSame(u) /\ RowsSame(u) /\ online'[u] = online[u]
          /\ Shrunk(inbox[u], inbox'[u]) /\ inbox[u][1] = Delete
      BY <1>6, <1>t, <2>0 DEF DeleteRead, InTaken, ReceiveDelete, thread, tables, DueSame,
         RowsSame
    <3> QED BY <1>a, <3>1, ForRead, PacketKinds DEF Restored
  <2>w. RestoredFor(w)'
    <3>1. Quiet(w)
      BY <1>6, <1>t, <2>0 DEF DeleteRead, InTaken, ReceiveDelete, thread, tables, Quiet,
         DueSame, RowsSame
    <3> QED BY <1>a, <3>1, ForQuiet DEF Restored
  <2> QED BY <2>0, <2>u, <2>w, TwoUsers DEF Restored
<1>7. ASSUME NEW u \in Users, Disconnect(u) PROVE Restored'
  <2>0. PICK w \in Users : w = Other(u) /\ u = Other(w) /\ w # u
    BY TwoUsers
  <2>u. RestoredFor(u)'
    <3>1. ~online'[u]
      BY <1>7, <1>t DEF Disconnect
    <3> QED BY <3>1, ForNone, ReadyHas
  <2>w. RestoredFor(w)'
    <3>1. Quiet(w)
      BY <1>7, <1>t, <2>0 DEF Disconnect, thread, tables, Quiet, DueSame, RowsSame
    <3> QED BY <1>a, <3>1, ForQuiet DEF Restored
  <2> QED BY <2>0, <2>u, <2>w, TwoUsers DEF Restored
<1>8. ASSUME NEW u \in Users, Login(u) PROVE Restored'
  <2>0. PICK w \in Users : w = Other(u) /\ u = Other(w) /\ w # u
    BY TwoUsers
  <2>u. RestoredFor(u)'
    <3>1. inbox'[u] = <<LoginAck>>
      BY <1>8, <1>t DEF Login
    <3>2. 1 \in DOMAIN <<LoginAck>> /\ <<LoginAck>>[1] = LoginAck
      OBVIOUS
    <3>3. Has(inbox'[u], LoginAck)
      BY <3>1, <3>2 DEF Has
    <3> QED BY <3>3, ForNone, ReadyHas
  <2>w. RestoredFor(w)'
    <3>1. Quiet(w)
      BY <1>8, <1>t, <2>0 DEF Login, Goto, tables, history, Quiet, DueSame, RowsSame
    <3> QED BY <1>a, <3>1, ForQuiet DEF Restored
  <2> QED BY <2>0, <2>u, <2>w, TwoUsers DEF Restored
<1>9. ASSUME NEW u \in Users, ReadsQueue(u) PROVE Restored'
  <2>0. PICK w \in Users : w = Other(u) /\ u = Other(w) /\ w # u
    BY TwoUsers
  <2>u. RestoredFor(u)'
    <3>1. Quiet(u)
      BY <1>9, <1>t, <2>0 DEF ReadsQueue, PendRead, PendOnly, Goto, client, tables, history,
         Quiet, DueSame, RowsSame
    <3> QED BY <1>a, <3>1, ForQuiet DEF Restored
  <2>w. RestoredFor(w)'
    <3>1. Quiet(w)
      BY <1>9, <1>t, <2>0 DEF ReadsQueue, PendRead, PendOnly, Goto, client, tables, history,
         Quiet, DueSame, RowsSame
    <3> QED BY <1>a, <3>1, ForQuiet DEF Restored
  <2> QED BY <2>0, <2>u, <2>w, TwoUsers DEF Restored
<1>10. ASSUME NEW u \in Users, NEW i \in Nat, FlushSent(u, i) PROVE Restored'
  <2>0. PICK w \in Users : w = Other(u) /\ u = Other(w) /\ w # u
    BY TwoUsers
  <2>u. RestoredFor(u)'
    <3>1. /\ queue \ {i} \subseteq queue' /\ hidden' = hidden /\ cursor' = cursor
          /\ outbox' = outbox /\ pc' = pc /\ pc[u] = "flush" /\ cur' = cur /\ rows' = rows
          /\ from' = from /\ store' = store /\ online' = online /\ missed' = missed
          /\ Sent(u, Message(i))
      BY <1>10 DEF FlushSent
    <3>2. \A j : Due(u, j) => j = i \/ Due(u, j)'
      BY <3>1 DEF Due, Unsynced
    <3>3. KeptOr(u, Message(i))
      BY <3>1, <3>2 DEF KeptOr
    <3> QED BY <1>a, <3>1, <3>3, ForSent, PacketKinds DEF Restored
  <2>w. RestoredFor(w)'
    <3>1. /\ queue \ {i} \subseteq queue' /\ hidden' = hidden /\ cursor' = cursor
          /\ outbox' = outbox /\ pc' = pc /\ pc[u] = "flush" /\ cur' = cur /\ rows' = rows
          /\ from' = from /\ store' = store /\ online' = online /\ missed' = missed
          /\ inbox'[w] = inbox[w] /\ pend'[w] = pend[w]
      BY <1>10, <2>0 DEF FlushSent, Sent, PendLess, PendOnly
    <3>2. from[i] = w /\ i \in rows
      BY <1>10, <1>t, <2>0, TwoUsers DEF FlushSent, Typed, Authors, Flushed
    <3>3. \A j \in rows : from[j] # w /\ Due(w, j) => Due(w, j)'
      BY <2>0, <3>1, <3>2 DEF Due, Unsynced
    <3>4. Kept(w)
      BY <3>1, <3>3, StillKept DEF RowsSame
    <3> QED BY <1>a, <3>1, <3>4, ForSame DEF Restored
  <2> QED BY <2>0, <2>u, <2>w, TwoUsers DEF Restored
<1>11. ASSUME NEW u \in Users, FlushQuiet(u) PROVE Restored'
  <2>0. PICK w \in Users : w = Other(u) /\ u = Other(w) /\ w # u
    BY TwoUsers
  <2>u. RestoredFor(u)'
    <3>1. Quiet(u)
      BY <1>11, <1>t, <2>0 DEF FlushQuiet, PendLess, PendOnly, client, tables, history, Quiet,
         DueSame, RowsSame
    <3> QED BY <1>a, <3>1, ForQuiet DEF Restored
  <2>w. RestoredFor(w)'
    <3>1. Quiet(w)
      BY <1>11, <1>t, <2>0 DEF FlushQuiet, PendLess, PendOnly, client, tables, history, Quiet,
         DueSame, RowsSame
    <3> QED BY <1>a, <3>1, ForQuiet DEF Restored
  <2> QED BY <2>0, <2>u, <2>w, TwoUsers DEF Restored
<1>12. ASSUME NEW u \in Users, ReadNotes(u) PROVE Restored'
  <2>0. PICK w \in Users : w = Other(u) /\ u = Other(w) /\ w # u
    BY TwoUsers
  <2>u. RestoredFor(u)'
    <3>1. Quiet(u)
      BY <1>12, <1>t, <2>0 DEF ReadNotes, Goto, client, tables, history, Quiet, DueSame,
         RowsSame
    <3> QED BY <1>a, <3>1, ForQuiet DEF Restored
  <2>w. RestoredFor(w)'
    <3>1. Quiet(w)
      BY <1>12, <1>t, <2>0 DEF ReadNotes, Goto, client, tables, history, Quiet, DueSame,
         RowsSame
    <3> QED BY <1>a, <3>1, ForQuiet DEF Restored
  <2> QED BY <2>0, <2>u, <2>w, TwoUsers DEF Restored
<1>13. ASSUME NEW u \in Users, ClearNotes(u) PROVE Restored'
  <2>0. PICK w \in Users : w = Other(u) /\ u = Other(w) /\ w # u
    BY TwoUsers
  <2>u. RestoredFor(u)'
    <3>1. Quiet(u)
      BY <1>13, <1>t, <2>0 DEF ClearNotes, Goto, client, Quiet, DueSame, RowsSame
    <3> QED BY <1>a, <3>1, ForQuiet DEF Restored
  <2>w. RestoredFor(w)'
    <3>1. Quiet(w)
      BY <1>13, <1>t, <2>0 DEF ClearNotes, Goto, client, Quiet, DueSame, RowsSame
    <3> QED BY <1>a, <3>1, ForQuiet DEF Restored
  <2> QED BY <2>0, <2>u, <2>w, TwoUsers DEF Restored
<1>14. ASSUME NEW u \in Users, SendsNotes(u) PROVE Restored'
  <2>0. PICK w \in Users : w = Other(u) /\ u = Other(w) /\ w # u
    BY TwoUsers
  <2>u. RestoredFor(u)'
    <3>1. /\ pc[u] \in Arriving /\ online' = online /\ outbox' = outbox /\ cursor' = cursor
          /\ Has(inbox[u], LoginAck) => Has(inbox'[u], LoginAck)
      BY <1>14 DEF SendsNotes, Has, Arriving
    <3>2. CASE ~Ready(u)'
      BY <3>2, ForNone
    <3>3. CASE Ready(u)'
      <4>1. Unsynced(u)
        BY <1>a, <3>1, <3>3, ReadyHas DEF SyncLast
      <4>2. \A j : Due(u, j)'
        BY <3>1, <4>1 DEF Due, Unsynced
      <4> QED BY <4>2, ForDue
    <3> QED BY <3>2, <3>3
  <2>w. RestoredFor(w)'
    <3>1. Quiet(w)
      BY <1>14, <1>t, <2>0 DEF SendsNotes, Goto, tables, Quiet, DueSame, RowsSame
    <3> QED BY <1>a, <3>1, ForQuiet DEF Restored
  <2> QED BY <2>0, <2>u, <2>w, TwoUsers DEF Restored
<1>15. ASSUME NEW u \in Users, Register(u) PROVE Restored'
  <2>0. PICK w \in Users : w = Other(u) /\ u = Other(w) /\ w # u
    BY TwoUsers
  <2>u. RestoredFor(u)'
    <3>1. Quiet(u)
      BY <1>15, <1>t, <2>0 DEF Register, Goto, client, tables, history, Quiet, DueSame, RowsSame
    <3> QED BY <1>a, <3>1, ForQuiet DEF Restored
  <2>w. RestoredFor(w)'
    <3>1. Quiet(w)
      BY <1>15, <1>t, <2>0 DEF Register, Goto, client, tables, history, Quiet, DueSame, RowsSame
    <3> QED BY <1>a, <3>1, ForQuiet DEF Restored
  <2> QED BY <2>0, <2>u, <2>w, TwoUsers DEF Restored
<1>16. ASSUME NEW u \in Users, Leave(u) PROVE Restored'
  <2>0. PICK w \in Users : w = Other(u) /\ u = Other(w) /\ w # u
    BY TwoUsers
  <2>u. RestoredFor(u)'
    <3>1. Quiet(u)
      BY <1>16, <1>t, <2>0 DEF Leave, Goto, client, tables, history, Quiet, DueSame, RowsSame
    <3> QED BY <1>a, <3>1, ForQuiet DEF Restored
  <2>w. RestoredFor(w)'
    <3>1. Quiet(w)
      BY <1>16, <1>t, <2>0 DEF Leave, Goto, client, tables, history, Quiet, DueSame, RowsSame
    <3> QED BY <1>a, <3>1, ForQuiet DEF Restored
  <2> QED BY <2>0, <2>u, <2>w, TwoUsers DEF Restored
<1>17. ASSUME NEW u \in Users, NEW i \in Nat, TakesMessage(u, i) PROVE Restored'
  <2>0. PICK w \in Users : w = Other(u) /\ u = Other(w) /\ w # u
    BY TwoUsers
  <2>1. \A c : Has(outbox[u], Sync(c)) => Has(outbox'[u], Sync(c))
    BY <1>17, HasShrunk, PacketKinds DEF TakesMessage, OutTaken
  <2>u. RestoredFor(u)'
    <3>1. Quiet(u)
      BY <1>17, <1>t, <2>0, <2>1 DEF TakesMessage, OutTaken, Goto, tables, history, Quiet,
         DueSame, RowsSame
    <3> QED BY <1>a, <3>1, ForQuiet DEF Restored
  <2>w. RestoredFor(w)'
    <3>1. Quiet(w)
      BY <1>17, <1>t, <2>0 DEF TakesMessage, OutTaken, Goto, tables, history, Quiet, DueSame,
         RowsSame
    <3> QED BY <1>a, <3>1, ForQuiet DEF Restored
  <2> QED BY <2>0, <2>u, <2>w, TwoUsers DEF Restored
<1>18. ASSUME NEW u \in Users, NEW c \in Nat, TakesSync(u, c) PROVE Restored'
  <2>0. PICK w \in Users : w = Other(u) /\ u = Other(w) /\ w # u
    BY TwoUsers
  <2>u. RestoredFor(u)'
    <3>1. /\ RowsSame(u) /\ store[u] \subseteq store'[u]
          /\ inbox'[u] = inbox[u] /\ online'[u] = online[u]
      BY <1>18, <2>0 DEF TakesSync, OutTaken, Goto, tables, history, RowsSame
    <3>2. \A j \in rows : from[j] # u /\ Due(u, j) => Due(u, j)'
      <4>1. /\ pc[u] = "idle" /\ pc'[u] = "sync" /\ cur'[u] = c /\ cursor' = cursor
            /\ pc'[w] = pc[w] /\ cur'[w] = cur[w] /\ queue' = queue /\ hidden' = hidden
            /\ Shrunk(outbox[u], outbox'[u]) /\ outbox[u][1] = Sync(c) /\ missed' = missed
        BY <1>18, <1>t, <2>0 DEF TakesSync, OutTaken, Goto, tables, history
      <4>2. Unsynced(u) => Has(outbox'[u], Sync(cursor[u])) \/ c = cursor[u]
        BY <4>1, HasShrunk, PacketKinds DEF Unsynced
      <4> QED BY <2>0, <4>1, <4>2 DEF Due, Unsynced
    <3>3. Kept(u)
      BY <3>1, <3>2, StillKept DEF RowsSame
    <3> QED BY <1>a, <3>1, <3>3, ForSame DEF Restored
  <2>w. RestoredFor(w)'
    <3>1. Quiet(w)
      BY <1>18, <1>t, <2>0 DEF TakesSync, OutTaken, Goto, tables, history, Quiet, DueSame,
         RowsSame
    <3> QED BY <1>a, <3>1, ForQuiet DEF Restored
  <2> QED BY <2>0, <2>u, <2>w, TwoUsers DEF Restored
<1>19. ASSUME NEW u \in Users, TakesDelete(u) PROVE Restored'
  <2>0. PICK w \in Users : w = Other(u) /\ u = Other(w) /\ w # u
    BY TwoUsers
  <2>1. \A c : Has(outbox[u], Sync(c)) => Has(outbox'[u], Sync(c))
    BY <1>19, HasShrunk, PacketKinds DEF TakesDelete, OutTaken
  <2>u. RestoredFor(u)'
    <3>1. Quiet(u)
      BY <1>19, <1>t, <2>0, <2>1 DEF TakesDelete, OutTaken, Goto, tables, history, Quiet,
         DueSame, RowsSame
    <3> QED BY <1>a, <3>1, ForQuiet DEF Restored
  <2>w. RestoredFor(w)'
    <3>1. Quiet(w)
      BY <1>19, <1>t, <2>0 DEF TakesDelete, OutTaken, Goto, tables, history, Quiet, DueSame,
         RowsSame
    <3> QED BY <1>a, <3>1, ForQuiet DEF Restored
  <2> QED BY <2>0, <2>u, <2>w, TwoUsers DEF Restored
<1>20. ASSUME NEW u \in Users, Save(u) PROVE Restored'
  <2>0. PICK w \in Users : w = Other(u) /\ u = Other(w) /\ w # u
    BY TwoUsers
  <2>1. /\ queue' = queue /\ hidden' = hidden /\ cursor' = cursor /\ outbox' = outbox
        /\ pc[u] = "save" /\ pc'[u] = "route" /\ pc'[w] = pc[w] /\ cur' = cur /\ pend' = pend
        /\ rows' = rows \cup {cur[u]} /\ from' = from /\ from[cur[u]] = u
        /\ store' = store /\ online' = online /\ inbox' = inbox /\ missed' = missed
    BY <1>20, <1>t, <2>0 DEF Save, Goto, client, history, Typed, Authors, Handled
  <2>u. RestoredFor(u)'
    <3>1. /\ RowsSame(u) /\ store[u] \subseteq store'[u]
          /\ inbox'[u] = inbox[u] /\ online'[u] = online[u]
      BY <2>1 DEF RowsSame
    <3>2. \A j \in rows : from[j] # u /\ Due(u, j) => Due(u, j)'
      BY <2>0, <2>1 DEF Due, Unsynced
    <3>3. Kept(u)
      BY <3>1, <3>2, StillKept DEF RowsSame
    <3> QED BY <1>a, <3>1, <3>3, ForSame DEF Restored
  <2>w. RestoredFor(w)'
    <3>2. \A j : Due(w, j) => Due(w, j)'
      BY <2>0, <2>1 DEF Due, Unsynced
    <3>3. \A j \in rows' : j \in rows \/ Due(w, j)'
      <4> SUFFICES ASSUME NEW j \in rows', j \notin rows PROVE Due(w, j)'
        OBVIOUS
      <4>1. j = cur[u] /\ cur'[u] = cur[u]
        BY <2>1
      <4> QED BY <2>0, <2>1, <4>1 DEF Due
    <3>4. Kept(w)
      BY <2>1, <3>2, <3>3 DEF Kept
    <3> QED BY <1>a, <2>1, <3>4, ForSame DEF Restored
  <2> QED BY <2>0, <2>u, <2>w, TwoUsers DEF Restored
<1>21. ASSUME NEW u \in Users, RouteSent(u) PROVE Restored'
  <2>0. PICK w \in Users : w = Other(u) /\ u = Other(w) /\ w # u
    BY TwoUsers
  <2>u. RestoredFor(u)'
    <3>1. Quiet(u)
      BY <1>21, <1>t, <2>0 DEF RouteSent, Sent, Goto, tables, history, Quiet, DueSame, RowsSame
    <3> QED BY <1>a, <3>1, ForQuiet DEF Restored
  <2>w. RestoredFor(w)'
    <3>1. /\ queue' = queue /\ hidden' = hidden /\ cursor' = cursor /\ outbox' = outbox
          /\ pc'[w] = pc[w] /\ cur' = cur /\ pend' = pend /\ rows' = rows /\ from' = from
          /\ store' = store /\ online' = online /\ missed' = missed
          /\ Sent(w, Message(cur[u]))
      BY <1>21, <1>t, <2>0 DEF RouteSent, Goto, tables, history
    <3>2. \A j : Due(w, j) => j = cur[u] \/ Due(w, j)'
      BY <2>0, <3>1 DEF Due, Unsynced
    <3>3. KeptOr(w, Message(cur[u]))
      BY <3>1, <3>2 DEF KeptOr
    <3> QED BY <1>a, <3>1, <3>3, ForSent, PacketKinds DEF Restored
  <2> QED BY <2>0, <2>u, <2>w, TwoUsers DEF Restored
<1>22. ASSUME NEW u \in Users, RouteAway(u) PROVE Restored'
  <2>0. PICK w \in Users : w = Other(u) /\ u = Other(w) /\ w # u
    BY TwoUsers
  <2>u. RestoredFor(u)'
    <3>1. Quiet(u)
      BY <1>22, <1>t, <2>0 DEF RouteAway, Goto, client, tables, history, Quiet, DueSame,
         RowsSame
    <3> QED BY <1>a, <3>1, ForQuiet DEF Restored
  <2>w. RestoredFor(w)'
    <3>1. /\ w \notin reg /\ inbox' = inbox /\ outbox' = outbox /\ online' = online
          /\ cursor' = cursor /\ missed' = missed
      BY <1>22, <2>0 DEF RouteAway, client, history
    <3>2. CASE Ready(w)
      <4>1. Unsynced(w) \/ w \in missed
        BY <1>a, <1>t, <3>1, <3>2 DEF SyncLast, Phases
      <4>2. \A j : Due(w, j)'
        BY <3>1, <4>1 DEF Due, Unsynced
      <4> QED BY <4>2, ForDue
    <3>3. CASE ~Ready(w)
      BY <3>1, <3>3, ForNone, ReadyHas
    <3> QED BY <3>2, <3>3
  <2> QED BY <2>0, <2>u, <2>w, TwoUsers DEF Restored
<1>23. ASSUME NEW u \in Users, ReloadNone(u) PROVE Restored'
  <2>0. PICK w \in Users : w = Other(u) /\ u = Other(w) /\ w # u
    BY TwoUsers
  <2>u. RestoredFor(u)'
    <3>1. Quiet(u)
      BY <1>23, <1>t, <2>0 DEF ReloadNone, Goto, client, tables, history, Quiet, DueSame,
         RowsSame
    <3> QED BY <1>a, <3>1, ForQuiet DEF Restored
  <2>w. RestoredFor(w)'
    <3>1. Quiet(w)
      BY <1>23, <1>t, <2>0 DEF ReloadNone, Goto, client, tables, history, Quiet, DueSame,
         RowsSame
    <3> QED BY <1>a, <3>1, ForQuiet DEF Restored
  <2> QED BY <2>0, <2>u, <2>w, TwoUsers DEF Restored
<1>24. ASSUME NEW u \in Users, NEW m \in Nat, ReloadFound(u, m) PROVE Restored'
  <2>0. PICK w \in Users : w = Other(u) /\ u = Other(w) /\ w # u
    BY TwoUsers
  <2>u. RestoredFor(u)'
    <3>1. Quiet(u)
      BY <1>24, <1>t, <2>0 DEF ReloadFound, Goto, client, tables, history, Quiet, DueSame,
         RowsSame
    <3> QED BY <1>a, <3>1, ForQuiet DEF Restored
  <2>w. RestoredFor(w)'
    <3>1. Quiet(w)
      BY <1>24, <1>t, <2>0 DEF ReloadFound, Goto, client, tables, history, Quiet, DueSame,
         RowsSame
    <3> QED BY <1>a, <3>1, ForQuiet DEF Restored
  <2> QED BY <2>0, <2>u, <2>w, TwoUsers DEF Restored
<1>25. ASSUME NEW u \in Users, Queue(u) PROVE Restored'
  <2>0. PICK w \in Users : w = Other(u) /\ u = Other(w) /\ w # u
    BY TwoUsers
  <2>u. RestoredFor(u)'
    <3>1. Quiet(u)
      BY <1>25, <1>t, <2>0 DEF Queue, Goto, client, history, Quiet, DueSame, RowsSame
    <3> QED BY <1>a, <3>1, ForQuiet DEF Restored
  <2>w. RestoredFor(w)'
    <3>1. Quiet(w)
      BY <1>25, <1>t, <2>0 DEF Queue, Goto, client, history, Quiet, DueSame, RowsSame
    <3> QED BY <1>a, <3>1, ForQuiet DEF Restored
  <2> QED BY <2>0, <2>u, <2>w, TwoUsers DEF Restored
<1>26. ASSUME NEW u \in Users, ReadsHistory(u) PROVE Restored'
  <2>0. PICK w \in Users : w = Other(u) /\ u = Other(w) /\ w # u
    BY TwoUsers
  <2>u. RestoredFor(u)'
    <3>1. /\ RowsSame(u) /\ store[u] \subseteq store'[u]
          /\ inbox'[u] = inbox[u] /\ online'[u] = online[u]
      BY <1>26, <2>0 DEF ReadsHistory, PendRead, PendOnly, Goto, client, tables, history,
         RowsSame
    <3>2. \A j \in rows : from[j] # u /\ Due(u, j) => Due(u, j)'
      <4>1. /\ queue' = queue /\ hidden' = hidden /\ cursor' = cursor /\ outbox' = outbox
            /\ pc'[w] = pc[w] /\ cur' = cur /\ pc[u] = "sync" /\ pc'[u] = "replay"
            /\ missed' = missed
        BY <1>26, <1>t, <2>0 DEF ReadsHistory, Goto, client, tables, history
      <4>2. \A j \in rows : j > cur[u] => Has(pend'[u], j)
        BY <1>26 DEF ReadsHistory, PendRead, Has
      <4>3. \A j \in rows : j > cur[u] \/ j <= cur[u]
        BY <1>t
      <4> QED BY <2>0, <4>1, <4>2, <4>3 DEF Due, Unsynced
    <3>3. Kept(u)
      BY <3>1, <3>2, StillKept DEF RowsSame
    <3> QED BY <1>a, <3>1, <3>3, ForSame DEF Restored
  <2>w. RestoredFor(w)'
    <3>1. Quiet(w)
      BY <1>26, <1>t, <2>0 DEF ReadsHistory, PendRead, PendOnly, Goto, client, tables, history,
         Quiet, DueSame, RowsSame
    <3> QED BY <1>a, <3>1, ForQuiet DEF Restored
  <2> QED BY <2>0, <2>u, <2>w, TwoUsers DEF Restored
<1>27. ASSUME NEW u \in Users, NEW i \in Nat, ReplaySent(u, i) PROVE Restored'
  <2>0. PICK w \in Users : w = Other(u) /\ u = Other(w) /\ w # u
    BY TwoUsers
  <2>u. RestoredFor(u)'
    <3>1. /\ queue' = queue /\ hidden' = hidden /\ cursor' = cursor /\ outbox' = outbox
          /\ pc' = pc /\ pc[u] = "replay" /\ cur' = cur /\ rows' = rows /\ from' = from
          /\ store' = store /\ online' = online /\ missed' = missed /\ Sent(u, Message(i))
      BY <1>27 DEF ReplaySent, tables, history
    <3>2. CASE ~online[u]
      BY <3>1, <3>2, ForNone, ReadyHas
    <3>3. CASE online[u]
      <4>1. \A j : Has(pend[u], j) => j = i \/ Has(pend'[u], j)
        BY <1>27, <3>3 DEF ReplaySent, Has
      <4>2. \A j : Due(u, j) => j = i \/ Due(u, j)'
        BY <3>1, <4>1 DEF Due, Unsynced
      <4>3. KeptOr(u, Message(i))
        BY <3>1, <4>2 DEF KeptOr
      <4> QED BY <1>a, <3>1, <4>3, ForSent, PacketKinds DEF Restored
    <3> QED BY <3>2, <3>3
  <2>w. RestoredFor(w)'
    <3>1. Quiet(w)
      BY <1>27, <1>t, <2>0 DEF ReplaySent, PendLess, PendOnly, Sent, tables, history, Quiet,
         DueSame, RowsSame
    <3> QED BY <1>a, <3>1, ForQuiet DEF Restored
  <2> QED BY <2>0, <2>u, <2>w, TwoUsers DEF Restored
<1>28. ASSUME NEW u \in Users, ReplayDone(u) PROVE Restored'
  <2>0. PICK w \in Users : w = Other(u) /\ u = Other(w) /\ w # u
    BY TwoUsers
  <2>u. RestoredFor(u)'
    <3>1. /\ RowsSame(u) /\ store[u] \subseteq store'[u]
          /\ inbox'[u] = inbox[u] /\ online'[u] = online[u]
      BY <1>28, <2>0 DEF ReplayDone, Goto, client, tables, history, RowsSame
    <3>2. \A j \in rows : from[j] # u /\ Due(u, j) => Due(u, j)'
      <4>1. /\ queue' = queue /\ hidden' = hidden /\ cursor' = cursor /\ outbox' = outbox
            /\ pc'[w] = pc[w] /\ cur' = cur /\ pc[u] = "replay" /\ missed' = missed
        BY <1>28, <1>t, <2>0 DEF ReplayDone, Goto, client, tables, history
      <4>2. \A j : ~Has(pend[u], j)
        BY <1>28 DEF ReplayDone, Has
      <4> QED BY <2>0, <4>1, <4>2 DEF Due, Unsynced
    <3>3. Kept(u)
      BY <3>1, <3>2, StillKept DEF RowsSame
    <3> QED BY <1>a, <3>1, <3>3, ForSame DEF Restored
  <2>w. RestoredFor(w)'
    <3>1. Quiet(w)
      BY <1>28, <1>t, <2>0 DEF ReplayDone, Goto, client, tables, history, Quiet, DueSame,
         RowsSame
    <3> QED BY <1>a, <3>1, ForQuiet DEF Restored
  <2> QED BY <2>0, <2>u, <2>w, TwoUsers DEF Restored
<1>29. ASSUME NEW u \in Users, Purge(u) PROVE Restored'
  <2>0. PICK w \in Users : w = Other(u) /\ u = Other(w) /\ w # u
    BY TwoUsers
  <2>u. RestoredFor(u)'
    <3>1. Quiet(u)
      BY <1>29, <1>t, <2>0 DEF Purge, Goto, client, tables, history, Quiet, DueSame, RowsSame
    <3> QED BY <1>a, <3>1, ForQuiet DEF Restored
  <2>w. RestoredFor(w)'
    <3>1. Quiet(w)
      BY <1>29, <1>t, <2>0 DEF Purge, Goto, client, tables, history, Quiet, DueSame, RowsSame
    <3> QED BY <1>a, <3>1, ForQuiet DEF Restored
  <2> QED BY <2>0, <2>u, <2>w, TwoUsers DEF Restored
<1>30. ASSUME NEW u \in Users, EraseDone(u) PROVE Restored'
  <2>0. PICK w \in Users : w = Other(u) /\ u = Other(w) /\ w # u
    BY TwoUsers
  <2>1. rows' = {}
    BY <1>30 DEF EraseDone
  <2>u. RestoredFor(u)'
    BY <2>1, ForDue
  <2>w. RestoredFor(w)'
    BY <2>1, ForDue
  <2> QED BY <2>0, <2>u, <2>w, TwoUsers DEF Restored
<1>31. ASSUME NEW u \in Users, EraseFailed(u) PROVE Restored'
  <2>0. PICK w \in Users : w = Other(u) /\ u = Other(w) /\ w # u
    BY TwoUsers
  <2>u. RestoredFor(u)'
    <3>1. Quiet(u)
      BY <1>31, <1>t, <2>0 DEF EraseFailed, Goto, client, tables, history, Quiet, DueSame,
         RowsSame
    <3> QED BY <1>a, <3>1, ForQuiet DEF Restored
  <2>w. RestoredFor(w)'
    <3>1. Quiet(w)
      BY <1>31, <1>t, <2>0 DEF EraseFailed, Goto, client, tables, history, Quiet, DueSame,
         RowsSame
    <3> QED BY <1>a, <3>1, ForQuiet DEF Restored
  <2> QED BY <2>0, <2>u, <2>w, TwoUsers DEF Restored
<1>32. ASSUME NEW u \in Users, NotifySent(u) PROVE Restored'
  <2>0. PICK w \in Users : w = Other(u) /\ u = Other(w) /\ w # u
    BY TwoUsers
  <2>u. RestoredFor(u)'
    <3>1. Quiet(u)
      BY <1>32, <1>t, <2>0 DEF NotifySent, Sent, Goto, tables, Quiet, DueSame, RowsSame
    <3> QED BY <1>a, <3>1, ForQuiet DEF Restored
  <2>w. RestoredFor(w)'
    <3>1. pc[u] = "notify" /\ rows' = rows /\ from' = from
      BY <1>32 DEF NotifySent, tables
    <3>2. \A j \in rows : from[j] = w
      BY <1>a, <1>t, <2>0, <3>1, TwoUsers DEF Emptied
    <3> QED BY <3>1, <3>2, ForDue
  <2> QED BY <2>0, <2>u, <2>w, TwoUsers DEF Restored
<1>33. ASSUME NEW u \in Users, NotifyNote(u) PROVE Restored'
  <2>0. PICK w \in Users : w = Other(u) /\ u = Other(w) /\ w # u
    BY TwoUsers
  <2>u. RestoredFor(u)'
    <3>1. Quiet(u)
      BY <1>33, <1>t, <2>0 DEF NotifyNote, Goto, client, tables, history, Quiet, DueSame,
         RowsSame
    <3> QED BY <1>a, <3>1, ForQuiet DEF Restored
  <2>w. RestoredFor(w)'
    <3>1. Quiet(w)
      BY <1>33, <1>t, <2>0 DEF NotifyNote, Goto, client, tables, history, Quiet, DueSame,
         RowsSame
    <3> QED BY <1>a, <3>1, ForQuiet DEF Restored
  <2> QED BY <2>0, <2>u, <2>w, TwoUsers DEF Restored
<1>34. ASSUME NEW u \in Users, Note(u) PROVE Restored'
  <2>0. PICK w \in Users : w = Other(u) /\ u = Other(w) /\ w # u
    BY TwoUsers
  <2>u. RestoredFor(u)'
    <3>1. Quiet(u)
      BY <1>34, <1>t, <2>0 DEF Note, Goto, client, history, Quiet, DueSame, RowsSame
    <3> QED BY <1>a, <3>1, ForQuiet DEF Restored
  <2>w. RestoredFor(w)'
    <3>1. Quiet(w)
      BY <1>34, <1>t, <2>0 DEF Note, Goto, client, history, Quiet, DueSame, RowsSame
    <3> QED BY <1>a, <3>1, ForQuiet DEF Restored
  <2> QED BY <2>0, <2>u, <2>w, TwoUsers DEF Restored
<1>35. CASE UNCHANGED vars
  <2>1. \A v \in Users : Quiet(v)
    BY <1>35 DEF vars, client, thread, tables, history, Quiet, DueSame, RowsSame
  <2> QED BY <1>a, <2>1, ForQuiet DEF Restored
<1>36. ASSUME NEW u \in Users, Fails(u) PROVE Restored'
  <2>0. PICK w \in Users : w = Other(u) /\ u = Other(w) /\ w # u
    BY TwoUsers
  <2>u. RestoredFor(u)'
    <3>1. /\ RowsSame(u) /\ store[u] \subseteq store'[u]
          /\ inbox'[u] = inbox[u] /\ online'[u] = online[u]
      BY <1>36, <2>0 DEF Fails, client, tables, RowsSame
    <3>2. \A j \in rows : from[j] # u /\ Due(u, j) => Due(u, j)'
      <4>1. /\ queue' = queue /\ hidden' = hidden /\ cursor' = cursor /\ outbox' = outbox
            /\ pc'[w] = pc[w] /\ cur' = cur /\ pc[u] # "replay"
            /\ pc[u] = "sync" => u \in missed'
            /\ u \in missed => u \in missed'
        BY <1>36, <1>t, <2>0 DEF Fails, Goto, client, tables
      <4> QED BY <2>0, <4>1 DEF Due, Unsynced
    <3>3. Kept(u)
      BY <3>1, <3>2, StillKept DEF RowsSame
    <3> QED BY <1>a, <3>1, <3>3, ForSame DEF Restored
  <2>w. RestoredFor(w)'
    <3>1. Quiet(w)
      BY <1>36, <1>t, <2>0 DEF Fails, Goto, client, tables, Quiet, DueSame, RowsSame
    <3> QED BY <1>a, <3>1, ForQuiet DEF Restored
  <2> QED BY <2>0, <2>u, <2>w, TwoUsers DEF Restored
<1>37. ASSUME Crash PROVE Restored'
  <2>1. \A v \in Users : ~Ready(v)'
    BY <1>37 DEF Crash, Ready
  <2> QED BY <2>1, ForNone DEF Restored
<1>38. ASSUME NEW u \in Users, LoginFails(u) PROVE Restored'
  <2>0. PICK w \in Users : w = Other(u) /\ u = Other(w) /\ w # u
    BY TwoUsers
  <2>u. RestoredFor(u)'
    <3>1. u \in missed'
      BY <1>38 DEF LoginFails
    <3> QED BY <3>1, ForDue DEF Due
  <2>w. RestoredFor(w)'
    <3>1. Quiet(w)
      BY <1>38, <1>t, <2>0 DEF LoginFails, Goto, client, Quiet, DueSame, RowsSame
    <3> QED BY <1>a, <3>1, ForQuiet DEF Restored
  <2> QED BY <2>0, <2>u, <2>w, TwoUsers DEF Restored
<1> QED BY <1>1, <1>2, <1>3, <1>4, <1>5, <1>6, <1>7, <1>8, <1>9, <1>10, <1>11, <1>12, <1>13,
   <1>14, <1>15, <1>16, <1>17, <1>18, <1>19, <1>20, <1>21, <1>22, <1>23, <1>24, <1>25, <1>26,
   <1>27, <1>28, <1>29, <1>30, <1>31, <1>32, <1>33, <1>34, <1>35, <1>36,
   <1>37, <1>38, StepCases DEF Cases, Typed

\* What is kept for WipedComesBack.
LEMMA StaysStep == StaysInv /\ [Next]_vars => StaysInv'
BY TypedStep, EmptiedStep, SyncLastStep, RestoredStep DEF StaysInv

\* It holds at first.
LEMMA StaysInit == Init => StaysInv
<1> SUFFICES ASSUME Init PROVE StaysInv
  OBVIOUS
<1>1. \A u \in Users : outbox[u] = <<>> /\ pc[u] = "off" /\ ~online[u] /\ rows = {}
  BY DEF Init
<1>2. Emptied
  BY <1>1 DEF Emptied
<1>3. SyncLast /\ Restored
  BY <1>1 DEF SyncLast, Restored, RestoredFor, Ready
<1> QED BY <1>2, <1>3, TypedInit DEF StaysInv

\* Nothing is on its way to a settled device.
LEMMA StaysSettled == StaysInv => WipedComesBack
<1> SUFFICES ASSUME StaysInv, NEW u \in Users, Settled(u), u \notin missed,
                    NEW i \in rows, from[i] # u, i > cursor[u]
             PROVE  i \in store[u] \cup queue \cup hidden[u]
  BY DEF WipedComesBack
<1>1. /\ online[u] /\ inbox[u] = <<>> /\ outbox[u] = <<>>
      /\ pc[u] \in {"off", "idle"} /\ pc[Other(u)] \in {"off", "idle"}
  BY TwoUsers DEF Settled, Resting
<1>2. Ready(u)
  BY <1>1, HasEmpty, ReadyHas
<1>3. i \in store[u] \/ Coming(u, i, 0)
  BY <1>2 DEF StaysInv, Restored, RestoredFor
<1>4. ~Past(inbox[u], 0, Message(i)) /\ ~Unsynced(u)
  BY <1>1, HasEmpty DEF Unsynced
<1>5. ~(i <= cursor[u])
  <2>1. i \in Nat /\ cursor[u] \in Nat
    BY DEF StaysInv, Typed, Shapes, Copies, Ids
  <2> QED BY <2>1
<1> QED BY <1>1, <1>3, <1>4, <1>5 DEF Coming, Due

(***************************************************************************)
(* WipedComesBack: what a late DELETE_CONVERSATION wipes and the sync of   *)
(* this login covers, the sync brings back: unless a statement of the      *)
(* login or of the sync failed, a settled device has every message of the  *)
(* peer that is newer than the cursor and that the server has, but for     *)
(* those its user deleted himself and those that wait for the next login.  *)
(***************************************************************************)
THEOREM WipedIsRestored == Spec => []WipedComesBack
<1>1. Init => StaysInv
  BY StaysInit
<1>2. StaysInv /\ [Next]_vars => StaysInv'
  BY StaysStep
<1>3. StaysInv => WipedComesBack
  BY StaysSettled
<1> QED BY <1>1, <1>2, <1>3, PTL DEF Spec

=============================================================================
