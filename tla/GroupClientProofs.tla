-------------------------- MODULE GroupClientProofs --------------------------
(***************************************************************************)
(* Safety of GroupClient for any number of groups, operations and packets  *)
(* under way, and, but for KeyStored, of accounts on the installation.     *)
(***************************************************************************)
EXTENDS GroupClient, FiniteSetTheorems, SequenceTheorems, WellFoundedInduction, TLAPS

-----------------------------------------------------------------------------
(***************************************************************************)
(* The packets on the two sides of the connection.                         *)
(***************************************************************************)
Keys == 0..MaxKeys

Creates == [kind : {"create"}, key : Keys]
Kicks   == [kind : {"kick"}, group : Groups]
Gives   == [kind : {"give"}, group : Groups, key : Keys \ {0}]

OutPackets ==
    [kind : {"login"}, user : Users] \cup [kind : {"fetch"}] \cup Creates \cup Kicks \cup Gives
    \cup [kind : {"recover", "query"}, group : Groups]
    \cup [kind : {"send"}, group : Groups, key : Keys, by : Users, as : Users \cup {NoUser}]
    \cup [kind : {"text"}, by : Users, as : Users \cup {NoUser}]

Created == [kind : {"info"}, group : Groups, created : {TRUE}]
Rotates == [kind : {"rotate"}, group : Groups]
KeyPackets == [kind : {"invite", "rekey"}, group : Groups, key : Keys \ {0}, user : Users]

InPackets ==
    [kind : {"ack"}, user : Users] \cup [kind : {"peerkey", "err"}] \cup Created \cup Rotates
    \cup KeyPackets
    \cup [kind : {"info"}, group : Groups, created : {FALSE}]
    \cup [kind : {"msg"}, group : Groups, key : Keys]
    \cup [kind : {"left"}, group : Groups]

InboxOK  == inbox \in Seq(InPackets)
OutboxOK == outbox \in Seq(OutPackets)
Queues   == InboxOK /\ OutboxOK

ClientShapes ==
    /\ db \in Users \cup {NoUser} /\ up \in BOOLEAN /\ known \in BOOLEAN
    /\ rows \in [Users -> SUBSET Groups]

BufferShapes ==
    /\ texts \in Seq(Users) /\ adds \in Seq(Groups) /\ creations \in Seq(Keys)
    /\ sends \in [Groups -> Seq(Users)] /\ packets \in [Groups -> Seq(Keys)]

ServerShapes ==
    /\ real \in [Groups -> Keys] /\ wrapped \in [Groups -> [Users -> Keys]]
    /\ real[1] # 0

CountShapes ==
    /\ ops \in 0..MaxOps /\ begun \in Nat /\ acked \in Nat /\ overlap \in BOOLEAN
    /\ rotated \subseteq Groups /\ adrift \subseteq Groups /\ cut \subseteq Groups

Shapes == ClientShapes /\ BufferShapes /\ ServerShapes /\ CountShapes

\* The first packet of a connection is a LOGIN, and nothing comes back before.
Session ==
    sess = NoUser => /\ me = NoUser
                     /\ inbox = <<>>
                     /\ outbox # <<>> => outbox[1].kind = "login"

\* How many packets of a queue are in P.
Hits(s, P) == Cardinality({i \in DOMAIN s : s[i] \in P})

\* Every group and every answer to a creation comes from a createGroup of its
\* own, every key from a createGroup or a kick.
Counts ==
    /\ groups + Hits(outbox, Creates) + Len(creations) <= begun + 1
    /\ begun + 1 <= MaxGroups
    /\ acked + Hits(inbox, Created) + 1 <= groups
    /\ keys + Hits(outbox, Kicks) + Hits(inbox, Rotates) <= ops + 1

Typed == TypeOK /\ Queues /\ Shapes /\ Session /\ Counts

-----------------------------------------------------------------------------
\* Key k can be the one of group g.
Right(g, k) == k \in {0, real[g]} \/ g \in rotated

\* Where a key of a group can be, it is the one the other members have.
MemRight     == \A g \in Groups : Right(g, mem[g])
DiskRight    == \A u \in Users, g \in Groups : Right(g, disk[u][g])
WrappedRight == \A u \in Users, g \in Groups :
                    Right(g, wrapped[g][u]) /\ (g > groups => wrapped[g][u] = 0)
InRight      == \A p \in ToSet(inbox) : p \in KeyPackets => Right(p.group, p.key)
OutRight     == \A p \in ToSet(outbox) : p \in Gives => Right(p.group, p.key)
Unmade       == \A g \in Groups : g > groups => real[g] = 0

KeysAgree == MemRight /\ DiskRight /\ WrappedRight /\ InRight /\ OutRight /\ Unmade

\* One creation at a time: the key that waits under "0" is the one in its
\* packets, and of the group the server has made for it.
ZeroWaits == \A k \in ToSet(creations) : k = zero
ZeroOut   == \A p \in ToSet(outbox) : p \in Creates => p.key = zero
ZeroIn    == \A p \in ToSet(inbox) :
                p \in Created => real[p.group] = zero \/ p.group \in rotated

OneCreation ==
    /\ begun <= acked + 1
    /\ zero # 0 => begun = acked + 1 /\ ZeroWaits /\ ZeroOut /\ ZeroIn

Agree == KeysAgree /\ OneCreation

AgreeInv == overlap \/ Agree

\* A key is kept under "0" only while a store is open.
ZeroOpen == zero # 0 => db # NoUser

\* What is in memory is in the store, also while nobody is logged in.
InStore ==
    \A u \in Users, g \in Groups : mem[g] # 0 => disk[u][g] = mem[g] \/ g \in adrift

\* One account uses the installation.
OneUser == \A u, v \in Users : u = v

StoreInv == ZeroOpen /\ InStore

-----------------------------------------------------------------------------
\* What ServerStep and ClientStep do whatever the packet is.
Serve ==
    /\ outbox # <<>>
    /\ outbox' = Tail(outbox)
    /\ UNCHANGED <<me, db, up, buffers, keyring, ops, begun, acked, overlap, rotated, adrift>>

Read ==
    /\ up
    /\ inbox # <<>>
    /\ inbox' = Tail(inbox)
    /\ UNCHANGED <<up, server, ops>>

\* The fields of a packet are those of its kind.
OutFields(p) ==
    /\ p.kind = "login" => p.user \in Users
    /\ p.kind \in {"recover", "query", "kick", "give", "send"} => p.group \in Groups
    /\ p.kind \in {"create", "give", "send"} => p.key \in Keys
    /\ p.kind = "create" <=> p \in Creates
    /\ p.kind = "kick" <=> p \in Kicks
    /\ p.kind = "give" <=> p \in Gives
    /\ p \in Gives => p.key # 0

InFields(p) ==
    /\ p.kind = "ack" => p.user \in Users
    /\ p.kind \in {"info", "invite", "rekey", "msg", "rotate", "left"} => p.group \in Groups
    /\ p.kind \in {"invite", "rekey", "msg"} => p.key \in Keys
    /\ p.kind = "info" => (p.created = TRUE \/ p.created = FALSE)
    /\ p \in Created <=> p.kind = "info" /\ p.created = TRUE
    /\ p.kind = "rotate" <=> p \in Rotates
    /\ p \in KeyPackets <=> p.kind \in {"invite", "rekey"}
    /\ p \in KeyPackets => p.key # 0 /\ p.user \in Users

-----------------------------------------------------------------------------
\* A non-empty set of natural numbers has a least element.
LEMMA LeastNatural ==
    ASSUME NEW T \in SUBSET Nat, T # {}
    PROVE  \E n \in T : \A m \in T : n <= m
<1> DEFINE D == {0..n : n \in T}
<1>1. IsWellFoundedOn(StrictSubsetOrdering(Nat), FiniteSubsetsOf(Nat))
  BY FS_StrictSubsetOrderingWellFounded
<1>2. \A n \in T : 0..n \in FiniteSubsetsOf(Nat)
  <2> SUFFICES ASSUME NEW n \in T PROVE 0..n \in FiniteSubsetsOf(Nat)
    OBVIOUS
  <2>1. IsFiniteSet(0..n)
    BY FS_Interval
  <2> QED
    BY <2>1 DEF FiniteSubsetsOf
<1>3. D \subseteq FiniteSubsetsOf(Nat) /\ D # {}
  BY <1>2
<1>4. \E x \in D : \A y \in D : ~(<<y, x>> \in StrictSubsetOrdering(Nat))
  <2> HIDE DEF D
  <2> QED
    BY <1>1, <1>3, WFMin
<1>5. PICK n \in T : \A y \in D : ~(<<y, 0..n>> \in StrictSubsetOrdering(Nat))
  BY <1>4
<1>6. \A m \in T : n <= m
  <2> SUFFICES ASSUME NEW m \in T, m < n
               PROVE  FALSE
    OBVIOUS
  <2>1. ~(<<0..m, 0..n>> \in StrictSubsetOrdering(Nat))
    BY <1>5
  <2>2. 0..m \subseteq 0..n /\ 0..m # 0..n
    OBVIOUS
  <2> QED
    BY <2>1, <2>2 DEF StrictSubsetOrdering
<1> QED
  BY <1>6

\* Sequences put together from sequences over S are sequences over S.
LEMMA FlattenType ==
    ASSUME NEW S, NEW ss \in Seq(Seq(S))
    PROVE  FlattenSeq(ss) \in Seq(S)
<1> DEFINE n == Len(ss)
           Step(f, i) == IF i = 1 THEN ss[i] ELSE f[i - 1] \o ss[i]
           F == CHOOSE f : f = [i \in 1..n |-> Step(f, i)]
           Bad == {m \in 1..n : ~\E f \in [1..m -> Seq(S)] :
                                   \A i \in 1..m : f[i] = Step(f, i)}
<1>0. n \in Nat /\ \A i \in 1..n : ss[i] \in Seq(S)
  OBVIOUS
<1>1. CASE n = 0
  BY <1>1 DEF FlattenSeq
<1>2. CASE n # 0
  <2>1. Bad = {}
    <3> SUFFICES ASSUME Bad # {} PROVE FALSE
      OBVIOUS
    <3>1. Bad \in SUBSET Nat
      OBVIOUS
    <3>2. PICK m \in Bad : \A k \in Bad : m <= k
      <4> HIDE DEF Bad
      <4> QED
        BY <3>1, LeastNatural
    <3>3. m \in 1..n
      OBVIOUS
    <3>4. CASE m = 1
      <4> DEFINE g == [i \in 1..1 |-> ss[1]]
      <4>1. g \in [1..1 -> Seq(S)]
        BY <1>0, <3>3, <3>4
      <4>2. \A i \in 1..1 : g[i] = Step(g, i)
        OBVIOUS
      <4>3. 1 \notin Bad
        <5> HIDE DEF g, Step
        <5> QED
          BY <4>1, <4>2
      <4> QED
        BY <3>4, <4>3
    <3>5. CASE m # 1
      <4>1. m - 1 \in 1..n /\ m - 1 \notin Bad
        <5>1. m - 1 \in 1..n /\ ~(m <= m - 1)
          BY <3>3, <3>5
        <5> QED
          BY <3>2, <5>1
      <4>2. PICK f \in [1..(m - 1) -> Seq(S)] : \A i \in 1..(m - 1) : f[i] = Step(f, i)
        BY <4>1
      <4> DEFINE g == [i \in 1..m |-> IF i = m THEN f[m - 1] \o ss[m] ELSE f[i]]
      <4>3. f[m - 1] \o ss[m] \in Seq(S)
        BY <1>0, <3>3, <4>1
      <4>4. g \in [1..m -> Seq(S)]
        BY <3>3, <4>3
      <4>5. \A i \in 1..m : g[i] = Step(g, i)
        <5>0. m \in Nat /\ m \in 1..m /\ m - 1 \in 1..m /\ m - 1 # m
          BY <3>3, <3>5
        <5>1. g[m] = Step(g, m)
          <6>1. g[m] = f[m - 1] \o ss[m] /\ g[m - 1] = f[m - 1]
            BY <5>0
          <6> HIDE DEF g
          <6> QED
            BY <3>5, <6>1
        <5>2. ASSUME NEW i \in 1..(m - 1) PROVE g[i] = Step(g, i)
          <6>0. i \in 1..m /\ i # m
            BY <5>0
          <6>1. g[i] = f[i]
            BY <6>0
          <6>3. f[i] = Step(f, i)
            BY <4>2
          <6>2. i # 1 => i - 1 \in 1..m /\ i - 1 # m
            BY <5>0
          <6>4. i # 1 => g[i - 1] = f[i - 1]
            BY <6>2
          <6> HIDE DEF g
          <6> QED
            BY <6>1, <6>3, <6>4
        <5>3. \A i \in 1..m : i = m \/ i \in 1..(m - 1)
          BY <3>3
        <5> QED
          BY <5>1, <5>2, <5>3
      <4>6. m \notin Bad
        <5> HIDE DEF g, Step
        <5> QED
          BY <4>4, <4>5
      <4> QED
        BY <4>6
    <3> QED
      BY <3>4, <3>5
  <2>2. PICK f \in [1..n -> Seq(S)] : \A i \in 1..n : f[i] = Step(f, i)
    <3>1. n \in 1..n
      BY <1>0, <1>2
    <3>2. n \notin Bad
      BY <2>1
    <3> QED
      BY <3>1, <3>2
  <2>3. f = [i \in 1..n |-> Step(f, i)]
    <3> HIDE DEF Step
    <3> QED
      BY <2>2
  <2>4. F = [i \in 1..n |-> Step(F, i)]
    <3> HIDE DEF Step
    <3> QED
      BY <2>3
  <2>5. \A i \in 1..n : F[i] = Step(F, i)
    <3> HIDE DEF F, Step
    <3> QED
      BY <2>4
  <2> HIDE DEF F
  <2> DEFINE Odd == {i \in 1..n : F[i] \notin Seq(S)}
  <2>6. Odd = {}
    <3> SUFFICES ASSUME Odd # {} PROVE FALSE
      OBVIOUS
    <3>1. Odd \in SUBSET Nat
      OBVIOUS
    <3>2. PICK m \in Odd : \A k \in Odd : m <= k
      <4> HIDE DEF Odd
      <4> QED
        BY <3>1, LeastNatural
    <3>3. CASE m = 1
      BY <1>0, <2>5, <3>3
    <3>4. CASE m # 1
      <4>1. m - 1 \in 1..n /\ ~(m <= m - 1)
        BY <3>4
      <4>2. F[m - 1] \in Seq(S)
        BY <3>2, <4>1
      <4>3. F[m] = F[m - 1] \o ss[m]
        BY <2>5, <3>4
      <4>4. ss[m] \in Seq(S)
        BY <1>0
      <4>5. F[m] \in Seq(S)
        BY <4>2, <4>3, <4>4
      <4> QED
        BY <4>5
    <3> QED
      BY <3>3, <3>4
  <2>7. F[n] \in Seq(S)
    BY <1>0, <1>2, <2>6
  <2>8. FlattenSeq(ss) = F[n]
    BY <1>2 DEF FlattenSeq, F
  <2> QED
    BY <2>7, <2>8
<1> QED
  BY <1>1, <1>2

\* The hits in a queue are finitely many.
LEMMA HitsFinite ==
    ASSUME NEW S, NEW s \in Seq(S), NEW P
    PROVE  IsFiniteSet({i \in DOMAIN s : s[i] \in P}) /\ Hits(s, P) \in Nat
<1>1. IsFiniteSet(1..Len(s))
  BY FS_Interval
<1>2. {i \in DOMAIN s : s[i] \in P} \in SUBSET (1..Len(s))
  OBVIOUS
<1>3. IsFiniteSet({i \in DOMAIN s : s[i] \in P})
  BY <1>1, <1>2, FS_Subset
<1> QED
  BY <1>3, FS_CardinalityType DEF Hits

\* A queue without any has none.
LEMMA HitsNone ==
    ASSUME NEW s, NEW P, \A i \in DOMAIN s : s[i] \notin P
    PROVE  Hits(s, P) = 0
<1>1. {i \in DOMAIN s : s[i] \in P} = {}
  OBVIOUS
<1> QED
  BY <1>1, FS_EmptySet DEF Hits

\* One more at the end.
LEMMA HitsAppend ==
    ASSUME NEW S, NEW s \in Seq(S), NEW e \in S, NEW P
    PROVE  Hits(Append(s, e), P) = Hits(s, P) + (IF e \in P THEN 1 ELSE 0)
<1> DEFINE D == {i \in DOMAIN s : s[i] \in P}
           E == {i \in DOMAIN Append(s, e) : Append(s, e)[i] \in P}
<1>1. IsFiniteSet(D) /\ Cardinality(D) \in Nat
  BY HitsFinite DEF Hits
<1>2. Len(s) + 1 \notin D
  OBVIOUS
<1>3. CASE e \in P
  <2>1. E = D \cup {Len(s) + 1}
    BY <1>3
  <2> HIDE DEF D, E
  <2>2. Cardinality(E) = Cardinality(D) + 1
    BY <1>1, <1>2, <2>1, FS_AddElement
  <2>3. Hits(Append(s, e), P) = Cardinality(E) /\ Hits(s, P) = Cardinality(D)
    BY DEF Hits, D, E
  <2> QED
    BY <1>3, <2>2, <2>3
<1>4. CASE e \notin P
  <2>1. E = D
    BY <1>4
  <2>2. Hits(Append(s, e), P) = Cardinality(E) /\ Hits(s, P) = Cardinality(D)
    BY DEF Hits
  <2> HIDE DEF D, E
  <2> QED
    BY <1>1, <1>4, <2>1, <2>2
<1> QED
  BY <1>3, <1>4

\* One less in front.
LEMMA HitsTail ==
    ASSUME NEW S, NEW s \in Seq(S), s # <<>>, NEW P
    PROVE  Hits(Tail(s), P) = Hits(s, P) - (IF Head(s) \in P THEN 1 ELSE 0)
<1> DEFINE D == {i \in DOMAIN s : s[i] \in P}
           E == {i \in DOMAIN Tail(s) : Tail(s)[i] \in P}
           f == [i \in E |-> i + 1]
<1>1. IsFiniteSet(D) /\ Cardinality(D) \in Nat
  BY HitsFinite DEF Hits
<1>2. IsFiniteSet(D \ {1})
      /\ Cardinality(D \ {1}) = IF 1 \in D THEN Cardinality(D) - 1 ELSE Cardinality(D)
  <2> HIDE DEF D
  <2> QED
    BY <1>1, FS_RemoveElement
<1>3. \A i \in E : i + 1 \in D \ {1}
  OBVIOUS
<1>4. \A j \in D \ {1} : j - 1 \in E /\ (j - 1) + 1 = j
  OBVIOUS
<1>5. IsFiniteSet(E)
  <2>1. Tail(s) \in Seq(S)
    OBVIOUS
  <2> QED
    BY <2>1, HitsFinite
<1>6. f \in Bijection(E, D \ {1})
  <2>1. f \in [E -> D \ {1}]
    BY <1>3
  <2>2. \A a, b \in E : f[a] = f[b] => a = b
    OBVIOUS
  <2>3. \A j \in D \ {1} : \E a \in E : f[a] = j
    BY <1>4
  <2> HIDE DEF D, E, f
  <2> QED
    BY <2>1, <2>2, <2>3 DEF Bijection, Injection, Surjection, IsInjective
<1>7. Cardinality(E) = Cardinality(D \ {1})
  <2> HIDE DEF D, E, f
  <2> QED
    BY <1>5, <1>6, FS_Bijection DEF ExistsBijection
<1>8. 1 \in D <=> Head(s) \in P
  OBVIOUS
<1>9. Hits(Tail(s), P) = Cardinality(E) /\ Hits(s, P) = Cardinality(D)
  BY DEF Hits
<1> HIDE DEF D, E
<1> QED
  BY <1>1, <1>2, <1>7, <1>8, <1>9

\* One queue behind another.
LEMMA HitsConcat ==
    ASSUME NEW S, NEW s \in Seq(S), NEW t \in Seq(S), NEW P
    PROVE  Hits(s \o t, P) = Hits(s, P) + Hits(t, P)
<1> DEFINE D == {i \in DOMAIN s : s[i] \in P}
           E == {i \in DOMAIN t : t[i] \in P}
           G == {i \in DOMAIN (s \o t) : (s \o t)[i] \in P}
           f == [i \in E |-> i + Len(s)]
<1>1. IsFiniteSet(D) /\ IsFiniteSet(E) /\ Cardinality(D) \in Nat /\ Cardinality(E) \in Nat
  BY HitsFinite DEF Hits
<1>2. IsFiniteSet(G)
  <2>1. s \o t \in Seq(S)
    OBVIOUS
  <2> QED
    BY <2>1, HitsFinite
<1>3. D \subseteq G
  OBVIOUS
<1>4. \A i \in E : i + Len(s) \in G \ D
  OBVIOUS
<1>5. \A j \in G \ D : j - Len(s) \in E /\ (j - Len(s)) + Len(s) = j
  OBVIOUS
<1>6. f \in Bijection(E, G \ D)
  <2>1. f \in [E -> G \ D]
    BY <1>4
  <2>2. \A a, b \in E : f[a] = f[b] => a = b
    OBVIOUS
  <2>3. \A j \in G \ D : \E a \in E : f[a] = j
    BY <1>5
  <2> HIDE DEF D, E, G, f
  <2> QED
    BY <2>1, <2>2, <2>3 DEF Bijection, Injection, Surjection, IsInjective
<1> HIDE DEF D, E, G, f
<1>7. IsFiniteSet(G \ D) /\ Cardinality(G \ D) = Cardinality(E)
  BY <1>1, <1>6, FS_Bijection DEF ExistsBijection
<1>8. G = D \cup (G \ D) /\ D \cap (G \ D) = {}
  BY <1>3
<1>9. Cardinality(G) = Cardinality(D) + Cardinality(G \ D) - Cardinality({})
  <2>1. Cardinality(D \cup (G \ D))
          = Cardinality(D) + Cardinality(G \ D) - Cardinality(D \cap (G \ D))
    <3>1. IsFiniteSet(D) /\ IsFiniteSet(G \ D)
      BY <1>1, <1>7
    <3> QED
      BY <3>1, FS_Union
  <2> QED
    BY <2>1, <1>8
<1>10. Cardinality(G) = Cardinality(D) + Cardinality(E)
  BY <1>1, <1>7, <1>9, FS_EmptySet
<1> QED
  BY <1>10 DEF Hits, D, E, G

-----------------------------------------------------------------------------
\* What a packet to the server has.
LEMMA OutPacket == ASSUME NEW p \in OutPackets PROVE OutFields(p)
BY DEF OutPackets, OutFields, Creates, Kicks, Gives

\* What a packet to the client has.
LEMMA InPacket == ASSUME NEW p \in InPackets PROVE InFields(p)
BY DEF InPackets, InFields, Created, Rotates, KeyPackets

\* The packet that is read next, and what is left behind it.
LEMMA HeadOut ==
    ASSUME Queues, outbox # <<>>
    PROVE  /\ Head(outbox) \in OutPackets /\ OutFields(Head(outbox))
           /\ Tail(outbox) \in Seq(OutPackets)
<1>1. Head(outbox) \in OutPackets /\ Tail(outbox) \in Seq(OutPackets)
  BY DEF Queues, InboxOK, OutboxOK
<1> QED
  BY <1>1, OutPacket

\* The same for the client.
LEMMA HeadIn ==
    ASSUME Queues, inbox # <<>>
    PROVE  /\ Head(inbox) \in InPackets /\ InFields(Head(inbox))
           /\ Tail(inbox) \in Seq(InPackets)
<1>1. Head(inbox) \in InPackets /\ Tail(inbox) \in Seq(InPackets)
  BY DEF Queues, InboxOK, OutboxOK
<1> QED
  BY <1>1, InPacket

\* sendPacket adds packets to the queue or drops them.
LEMMA PutType ==
    ASSUME Queues, up \in BOOLEAN, NEW s \in Seq(OutPackets), Put(s)
    PROVE  OutboxOK'
<1>1. CASE up
  BY <1>1 DEF Put, Queues, OutboxOK
<1>2. CASE ~up
  BY <1>2 DEF Put, Queues, OutboxOK
<1> QED
  BY <1>1, <1>2

\* Some of the packets the client sends.
LEMMA FetchPacket == <<[kind |-> "fetch"]>> \in Seq(OutPackets)
<1>1. [kind |-> "fetch"] \in OutPackets
  BY DEF OutPackets
<1> QED
  BY <1>1

\* The packet of requestGroupKey, or none.
LEMMA RecoverPacket ==
    ASSUME NEW g \in Groups
    PROVE  <<[kind |-> "recover", group |-> g]>> \in Seq(OutPackets) /\ <<>> \in Seq(OutPackets)
<1>1. [kind |-> "recover", group |-> g] \in OutPackets
  BY DEF OutPackets
<1> QED
  BY <1>1

\* addGroupMember gives the key in memory.
LEMMA GivePackets ==
    ASSUME TypeOK, NEW g \in Groups
    PROVE  Give(g) \in Seq(Gives)
<1>1. mem[g] \in Keys
  BY DEF TypeOK, Keys
<1>2. mem[g] # 0 => [kind |-> "give", group |-> g, key |-> mem[g]] \in Gives
  BY <1>1 DEF Gives
<1> QED
  BY <1>2 DEF Give

\* Given keys are packets.
LEMMA GiveType == ASSUME NEW s \in Seq(Gives) PROVE s \in Seq(OutPackets)
<1>1. Gives \subseteq OutPackets
  BY DEF OutPackets
<1> HIDE DEF OutPackets
<1> QED
  BY <1>1

\* What PeerKeyArrives sends.
Released ==
    [i \in DOMAIN texts |-> Text(texts[i])]
    \o FlattenSeq([i \in DOMAIN adds |-> Give(adds[i])])
    \o [i \in DOMAIN creations |-> CreatePacket(creations[i])]

\* Its three parts.
LEMMA ReleasedParts ==
    ASSUME TypeOK, Shapes
    PROVE  /\ [i \in DOMAIN texts |-> Text(texts[i])] \in Seq(OutPackets)
           /\ FlattenSeq([i \in DOMAIN adds |-> Give(adds[i])]) \in Seq(Gives)
           /\ [i \in DOMAIN creations |-> CreatePacket(creations[i])] \in Seq(OutPackets)
<1> DEFINE T == [i \in DOMAIN texts |-> Text(texts[i])]
           A == [i \in DOMAIN adds |-> Give(adds[i])]
           C == [i \in DOMAIN creations |-> CreatePacket(creations[i])]
<1>1. texts \in Seq(Users) /\ adds \in Seq(Groups) /\ creations \in Seq(Keys)
      /\ me \in Users \cup {NoUser}
  BY DEF Shapes, ClientShapes, BufferShapes, ServerShapes, CountShapes, TypeOK
<1>2. \A u \in Users : Text(u) \in OutPackets
  BY <1>1 DEF OutPackets, Text
<1>3. \A k \in Keys : CreatePacket(k) \in OutPackets
  BY DEF OutPackets, Creates, CreatePacket
<1>4. \A g \in Groups : Give(g) \in Seq(Gives)
  BY GivePackets
<1>5. T \in Seq(OutPackets)
  <2>0. DOMAIN texts = 1..Len(texts)
    BY <1>1
  <2>1. \A i \in DOMAIN texts : Text(texts[i]) \in OutPackets
    BY <1>1, <1>2
  <2>2. T \in [1..Len(texts) -> OutPackets]
    BY <2>0, <2>1
  <2> HIDE DEF T
  <2> QED
    BY <1>1, <2>2
<1>6. A \in Seq(Seq(Gives))
  <2>0. DOMAIN adds = 1..Len(adds)
    BY <1>1
  <2>1. \A i \in DOMAIN adds : Give(adds[i]) \in Seq(Gives)
    BY <1>1, <1>4
  <2>2. A \in [1..Len(adds) -> Seq(Gives)]
    BY <2>0, <2>1
  <2>3. Len(adds) \in Nat
    BY <1>1
  <2> DEFINE S == Seq(Gives)
  <2>4. A \in [1..Len(adds) -> S]
    BY <2>2
  <2> HIDE DEF A, S
  <2>5. A \in Seq(S)
    BY <2>3, <2>4
  <2> QED
    BY <2>5 DEF S
<1>7. C \in Seq(OutPackets)
  <2>0. DOMAIN creations = 1..Len(creations)
    BY <1>1
  <2>1. \A i \in DOMAIN creations : CreatePacket(creations[i]) \in OutPackets
    BY <1>1, <1>3
  <2>2. C \in [1..Len(creations) -> OutPackets]
    BY <2>0, <2>1
  <2> HIDE DEF C
  <2> QED
    BY <1>1, <2>2
<1> HIDE DEF A
<1> QED
  BY <1>5, <1>6, <1>7, FlattenType DEF A

\* All of them are packets.
LEMMA ReleasedType ==
    ASSUME TypeOK, Shapes
    PROVE  Released \in Seq(OutPackets)
<1>1. FlattenSeq([i \in DOMAIN adds |-> Give(adds[i])]) \in Seq(OutPackets)
  BY ReleasedParts, GiveType
<1> QED
  BY <1>1, ReleasedParts DEF Released

\* What DrainSends sends.
Drained(p) == [i \in DOMAIN sends[p.group] |-> Message(p.group, p.key, sends[p.group][i])]

\* They are packets.
LEMMA DrainedType ==
    ASSUME TypeOK, Shapes, NEW p, p.group \in Groups, p.key \in Keys
    PROVE  Drained(p) \in Seq(OutPackets)
<1>1. sends[p.group] \in Seq(Users) /\ me \in Users \cup {NoUser}
  BY DEF Shapes, ClientShapes, BufferShapes, ServerShapes, CountShapes, TypeOK
<1>2. \A u \in Users : Message(p.group, p.key, u) \in OutPackets
  BY <1>1 DEF OutPackets, Message
<1>3. \A i \in 1..Len(sends[p.group]) :
        Message(p.group, p.key, sends[p.group][i]) \in OutPackets
  BY <1>1, <1>2
<1> QED
  BY <1>1, <1>3 DEF Drained

\* A hit in front is one.
LEMMA HitsHead ==
    ASSUME NEW S, NEW s \in Seq(S), s # <<>>, NEW P, Head(s) \in P
    PROVE  Hits(s, P) >= 1
<1>1. Tail(s) \in Seq(S)
  OBVIOUS
<1>2. Hits(Tail(s), P) \in Nat /\ Hits(s, P) \in Nat
  BY <1>1, HitsFinite
<1>3. Hits(Tail(s), P) = Hits(s, P) - 1
  BY HitsTail
<1> QED
  BY <1>2, <1>3

\* The counts are numbers.
LEMMA HitsNat ==
    ASSUME Queues
    PROVE  /\ Hits(outbox, Creates) \in Nat /\ Hits(outbox, Kicks) \in Nat
           /\ Hits(inbox, Created) \in Nat /\ Hits(inbox, Rotates) \in Nat
BY HitsFinite DEF Queues, InboxOK, OutboxOK

\* The counts leave room for the next key and the next group.
LEMMA FreshKey ==
    ASSUME TypeOK, Queues, Shapes, Counts,
           ops < MaxOps \/ (inbox # <<>> /\ Head(inbox) \in Rotates)
    PROVE  keys + 1 \in 1..MaxKeys
<1>1. keys \in 1..MaxKeys /\ ops \in 0..MaxOps /\ MaxOps \in Nat
      /\ keys + Hits(outbox, Kicks) + Hits(inbox, Rotates) <= ops + 1
  BY GroupClientConstants DEF TypeOK, Shapes, ClientShapes, BufferShapes, ServerShapes,
     CountShapes, Counts
<1>2. inbox # <<>> /\ Head(inbox) \in Rotates => Hits(inbox, Rotates) >= 1
  BY HitsHead DEF Queues, InboxOK
<1> QED
  BY <1>1, <1>2, HitsNat DEF MaxKeys

\* The next group has an id.
LEMMA FreshGroup ==
    ASSUME TypeOK, Queues, Shapes, Counts, outbox # <<>>, Head(outbox) \in Creates
    PROVE  groups + 1 \in Groups
<1>1. groups \in 1..MaxGroups /\ begun \in Nat /\ MaxGroups \in Nat /\ Len(creations) \in Nat
      /\ groups + Hits(outbox, Creates) + Len(creations) <= begun + 1
      /\ begun + 1 <= MaxGroups
  BY GroupClientConstants DEF TypeOK, Shapes, ClientShapes, BufferShapes, ServerShapes,
     CountShapes, Counts, Groups
<1>2. Hits(outbox, Creates) >= 1
  BY HitsHead DEF Queues, OutboxOK
<1> QED
  BY <1>1, <1>2, HitsNat DEF Groups

\* The client sends the packets the server knows.
LEMMA OutboxStep ==
    TypeOK /\ Queues /\ Shapes /\ Counts /\ [Next]_vars => OutboxOK'
<1> SUFFICES ASSUME TypeOK, Queues, Shapes, Counts, [Next]_vars
             PROVE  OutboxOK'
    OBVIOUS
<1> USE GroupClientConstants
<1>1. outbox # <<>> => OutFields(Head(outbox)) /\ Tail(outbox) \in Seq(OutPackets)
  BY HeadOut
<1>2. inbox # <<>> => InFields(Head(inbox)) /\ Tail(inbox) \in Seq(InPackets)
  BY HeadIn
<1>3. ASSUME NEW u \in Users, SendLogin(u) PROVE OutboxOK'
  <2>1. [kind |-> "login", user |-> u] \in OutPackets
    BY DEF OutPackets
  <2> QED
    BY <1>3, <2>1 DEF SendLogin, Queues, OutboxOK
<1>4. ASSUME NEW u \in Users, PeerKicks(u) PROVE OutboxOK'
  BY <1>4
     DEF PeerKicks, Happens, server, buffers, keyring, ghosts, Queues,
         OutboxOK
<1>5. ASSUME CreateGroup PROVE OutboxOK'
  <2>1. keys + 1 \in Keys
    BY <1>5, FreshKey DEF CreateGroup, Happens, Keys
  <2>2. <<CreatePacket(keys + 1)>> \in Seq(OutPackets)
    <3>1. CreatePacket(keys + 1) \in OutPackets
      BY <2>1 DEF CreatePacket, OutPackets, Creates
    <3> QED
      BY <3>1
  <2>3. Put(<<CreatePacket(keys + 1)>>) \/ Put(<<[kind |-> "fetch"]>>)
    BY <1>5 DEF CreateGroup
  <2> QED
    BY <2>2, <2>3, FetchPacket, PutType DEF Shapes, ClientShapes, BufferShapes, ServerShapes,
       CountShapes
<1>6. ASSUME SendMessage PROVE OutboxOK'
  <2>1. me \in Users
    BY <1>6 DEF SendMessage, TypeOK
  <2>2. Put(<<Text(me)>>) \/ Put(<<[kind |-> "fetch"]>>)
    BY <1>6 DEF SendMessage
  <2>3. <<Text(me)>> \in Seq(OutPackets)
    <3>1. Text(me) \in OutPackets
      BY <2>1 DEF Text, OutPackets
    <3> QED
      BY <3>1
  <2> QED
    BY <2>2, <2>3, FetchPacket, PutType DEF Shapes, ClientShapes, BufferShapes, ServerShapes,
       CountShapes
<1>7. ASSUME Logout PROVE OutboxOK'
  BY <1>7
     DEF Logout, Happens, server, buffers, keyring, ghosts, Queues, OutboxOK
<1>8. ASSUME Disconnect PROVE OutboxOK'
  BY <1>8
     DEF Disconnect, Happens, server, buffers, keyring, ghosts, Queues,
         OutboxOK
<1>9. ASSUME PeerGives PROVE OutboxOK'
  BY <1>9
     DEF PeerGives, Happens, server, buffers, keyring, ghosts, Queues,
         OutboxOK
<1>10. ASSUME NEW g \in Groups, SendGroupMessage(g) PROVE OutboxOK'
  <2>1. me \in Users /\ mem[g] \in Keys
    BY <1>10 DEF SendGroupMessage, TypeOK, Keys
  <2>2. Put(<<Message(g, mem[g], me)>>) \/ Put(<<[kind |-> "recover", group |-> g]>>)
        \/ Put(<<>>)
    BY <1>10 DEF SendGroupMessage, RequestKey
  <2>3. <<Message(g, mem[g], me)>> \in Seq(OutPackets)
    <3>1. Message(g, mem[g], me) \in OutPackets
      BY <2>1 DEF Message, OutPackets
    <3> QED
      BY <3>1
  <2> QED
    BY <2>2, <2>3, RecoverPacket, PutType DEF Shapes, ClientShapes, BufferShapes, ServerShapes,
       CountShapes
<1>11. ASSUME NEW g \in Groups, AddGroupMember(g) PROVE OutboxOK'
  <2>1. Put(Give(g)) \/ Put(<<[kind |-> "fetch"]>>)
    BY <1>11 DEF AddGroupMember
  <2> QED
    BY <2>1, GivePackets, GiveType, FetchPacket, PutType DEF Shapes, ClientShapes, BufferShapes,
       ServerShapes, CountShapes
<1>12. ASSUME NEW g \in Groups, KickMember(g) PROVE OutboxOK'
  <2>1. <<[kind |-> "kick", group |-> g]>> \in Seq(OutPackets)
    <3>1. [kind |-> "kick", group |-> g] \in OutPackets
      BY DEF OutPackets, Kicks
    <3> QED
      BY <3>1
  <2> QED
    BY <1>12, <2>1, PutType DEF KickMember, Shapes, ClientShapes, BufferShapes, ServerShapes,
       CountShapes
<1>13. ASSUME NEW g \in Groups, PeerWrites(g) PROVE OutboxOK'
  BY <1>13
     DEF PeerWrites, Happens, server, buffers, keyring, ghosts, Queues,
         OutboxOK
<1>14. ASSUME NEW g \in Groups, RoleChanges(g) PROVE OutboxOK'
  BY <1>14
     DEF RoleChanges, Happens, server, buffers, keyring, ghosts, Queues,
         OutboxOK
<1>15. ASSUME ServerLogin(Head(outbox)), Serve PROVE OutboxOK'
  BY <1>15, <1>1
     DEF ServerLogin, Serve, Reply, Err, OutFields, server, buffers, keyring,
         ghosts, Queues, OutboxOK
<1>16. ASSUME ServerFetch(Head(outbox)), Serve PROVE OutboxOK'
  BY <1>16, <1>1
     DEF ServerFetch, Serve, Reply, Err, OutFields, server, buffers, keyring,
         ghosts, Queues, OutboxOK
<1>17. ASSUME ServerCreate(Head(outbox)), Serve PROVE OutboxOK'
  BY <1>17, <1>1
     DEF ServerCreate, Serve, Reply, Err, OutFields, server, buffers, keyring,
         ghosts, Queues, OutboxOK
<1>18. ASSUME ServerRecover(Head(outbox)), Serve PROVE OutboxOK'
  BY <1>18, <1>1
     DEF ServerRecover, Serve, Reply, Err, OutFields, Outsider, server,
         buffers, keyring, ghosts, Queues, OutboxOK
<1>19. ASSUME ServerMessage(Head(outbox)), Serve PROVE OutboxOK'
  BY <1>19, <1>1
     DEF ServerMessage, Serve, Reply, Err, OutFields, Outsider, server,
         buffers, keyring, ghosts, Queues, OutboxOK
<1>20. ASSUME ServerText(Head(outbox)), Serve PROVE OutboxOK'
  BY <1>20, <1>1
     DEF ServerText, Serve, Reply, Err, OutFields, server, buffers, keyring,
         ghosts, Queues, OutboxOK
<1>21. ASSUME ServerGive(Head(outbox)), Serve PROVE OutboxOK'
  BY <1>21, <1>1
     DEF ServerGive, Serve, Reply, Err, OutFields, Outsider, NotAdmin, server,
         buffers, keyring, ghosts, Queues, OutboxOK
<1>22. ASSUME ServerKick(Head(outbox)), Serve PROVE OutboxOK'
  BY <1>22, <1>1
     DEF ServerKick, Serve, Reply, Err, OutFields, Outsider, NotAdmin, server,
         buffers, keyring, ghosts, Queues, OutboxOK
<1>23. ASSUME ServerInfo(Head(outbox)), Serve PROVE OutboxOK'
  BY <1>23, <1>1
     DEF ServerInfo, Serve, Reply, Err, OutFields, server, buffers, keyring,
         ghosts, Queues, OutboxOK
<1>24. ASSUME LoginAcked(Head(inbox)), Read PROVE OutboxOK'
  BY <1>24, <1>2
     DEF LoginAcked, Read, InFields, server, buffers, keyring, ghosts, Queues,
         OutboxOK
<1>25. ASSUME PeerKeyArrives(Head(inbox)), Read PROVE OutboxOK'
  <2>1. Put(Released)
    BY <1>25 DEF PeerKeyArrives, Released
  <2> QED
    BY <2>1, ReleasedType, PutType DEF Shapes, ClientShapes, BufferShapes, ServerShapes,
       CountShapes
<1>26. ASSUME GroupInfoArrives(Head(inbox)), Read PROVE OutboxOK'
  BY <1>26, <1>2
     DEF GroupInfoArrives, Read, InFields, saveGroupKey, saveGroup, server,
         buffers, keyring, ghosts, Queues, OutboxOK
<1>27. ASSUME InviteArrives(Head(inbox)), Read PROVE OutboxOK'
  <2>1. Put(Drained(Head(inbox)))
    BY <1>27 DEF InviteArrives, DrainSends, Drained
  <2>2. Head(inbox).group \in Groups /\ Head(inbox).key \in Keys
    BY <1>27, <1>2 DEF InviteArrives, InFields, Read
  <2> QED
    BY <2>1, <2>2, DrainedType, PutType DEF Shapes, ClientShapes, BufferShapes, ServerShapes,
       CountShapes
<1>28. ASSUME RekeyArrives(Head(inbox)), Read PROVE OutboxOK'
  <2>1. Put(Drained(Head(inbox)))
    BY <1>28 DEF RekeyArrives, DrainSends, Drained
  <2>2. Head(inbox).group \in Groups /\ Head(inbox).key \in Keys
    BY <1>28, <1>2 DEF RekeyArrives, InFields, Read
  <2> QED
    BY <2>1, <2>2, DrainedType, PutType DEF Shapes, ClientShapes, BufferShapes, ServerShapes,
       CountShapes
<1>29. ASSUME KeyFails(Head(inbox)), Read PROVE OutboxOK'
  BY <1>29, <1>2
     DEF KeyFails, Read, InFields, server, buffers, keyring, ghosts, Queues,
         OutboxOK
<1>30. ASSUME MessageBuffered(Head(inbox)), Read PROVE OutboxOK'
  <2> DEFINE g == Head(inbox).group
  <2>1. g \in Groups
    BY <1>30, <1>2 DEF MessageBuffered, InFields, Read
  <2>2. Put(<<[kind |-> "recover", group |-> g]>>) \/ Put(<<>>)
    BY <1>30 DEF MessageBuffered, RequestKey
  <2> HIDE DEF g
  <2> QED
    BY <2>1, <2>2, RecoverPacket, PutType DEF Shapes, ClientShapes, BufferShapes, ServerShapes,
       CountShapes
<1>31. ASSUME MessageRead(Head(inbox)), Read PROVE OutboxOK'
  BY <1>31, <1>2
     DEF MessageRead, Read, InFields, loadGroupKey, server, buffers, keyring,
         ghosts, Queues, OutboxOK
<1>32. ASSUME Rotate(Head(inbox)), Read PROVE OutboxOK'
  <2> DEFINE g == Head(inbox).group
  <2>1. g \in Groups
    BY <1>32, <1>2 DEF Rotate, InFields, Read
  <2>2. <<[kind |-> "query", group |-> g]>> \in Seq(OutPackets)
    <3>1. [kind |-> "query", group |-> g] \in OutPackets
      BY <2>1 DEF OutPackets
    <3> QED
      BY <3>1
  <2> QED
    BY <1>32, <2>2, PutType DEF Rotate, Shapes, ClientShapes, BufferShapes, ServerShapes,
       CountShapes
<1>33. ASSUME Left(Head(inbox)), Read PROVE OutboxOK'
  BY <1>33, <1>2
     DEF Left, Read, InFields, saveGroupKey, server, buffers, keyring, ghosts,
         Queues, OutboxOK
<1>34. ASSUME ErrArrives(Head(inbox)), Read PROVE OutboxOK'
  BY <1>34, <1>2
     DEF ErrArrives, Read, InFields, server, buffers, keyring, ghosts, Queues,
         OutboxOK
<1>35. CASE UNCHANGED vars
  BY <1>35 DEF vars, server, buffers, keyring, ghosts, Queues, OutboxOK
<1> QED
  BY <1>3, <1>4, <1>5, <1>6, <1>7, <1>8, <1>9, <1>10, <1>11, <1>12, <1>13,
     <1>14, <1>15, <1>16, <1>17, <1>18, <1>19, <1>20, <1>21, <1>22, <1>23,
     <1>24, <1>25, <1>26, <1>27, <1>28, <1>29, <1>30, <1>31, <1>32, <1>33,
     <1>34, <1>35 DEF Next, ServerStep, ClientStep, Serve, Read

\* An ERR is a packet.
LEMMA ErrPacket == Err \in InPackets
BY DEF Err, InPackets

\* A packet that is not a LOGIN is served for somebody.
LEMMA HeadSession ==
    ASSUME TypeOK, Queues, Session, outbox # <<>>, Head(outbox).kind # "login"
    PROVE  sess \in Users
<1>1. Head(outbox) = outbox[1]
  BY DEF Queues, OutboxOK
<1> QED
  BY <1>1 DEF Session, TypeOK

\* The server sends the packets the client knows.
LEMMA InboxStep ==
    TypeOK /\ Queues /\ Shapes /\ Session /\ Counts /\ [Next]_vars => InboxOK'
<1> SUFFICES ASSUME TypeOK, Queues, Shapes, Session, Counts, [Next]_vars
             PROVE  InboxOK'
    OBVIOUS
<1> USE GroupClientConstants
<1>1. outbox # <<>> => OutFields(Head(outbox)) /\ Tail(outbox) \in Seq(OutPackets)
  BY HeadOut
<1>2. inbox # <<>> => InFields(Head(inbox)) /\ Tail(inbox) \in Seq(InPackets)
  BY HeadIn
<1>3. ASSUME NEW u \in Users, SendLogin(u) PROVE InboxOK'
  BY <1>3 DEF SendLogin, server, buffers, keyring, ghosts, Queues, InboxOK
<1>4. ASSUME NEW u \in Users, PeerKicks(u) PROVE InboxOK'
  <2>0. 1 \in Groups
    BY DEF Groups
  <2>1. [kind |-> "left", group |-> 1] \in InPackets
    BY <2>0 DEF InPackets
  <2> QED
    BY <1>4, <2>1 DEF PeerKicks, Queues, InboxOK
<1>5. ASSUME CreateGroup PROVE InboxOK'
  BY <1>5
     DEF CreateGroup, Happens, server, buffers, keyring, ghosts, Queues,
         InboxOK
<1>6. ASSUME SendMessage PROVE InboxOK'
  BY <1>6
     DEF SendMessage, Happens, server, buffers, keyring, ghosts, Queues,
         InboxOK
<1>7. ASSUME Logout PROVE InboxOK'
  BY <1>7
     DEF Logout, Happens, server, buffers, keyring, ghosts, Queues, InboxOK
<1>8. ASSUME Disconnect PROVE InboxOK'
  BY <1>8
     DEF Disconnect, Happens, server, buffers, keyring, ghosts, Queues,
         InboxOK
<1>9. ASSUME PeerGives PROVE InboxOK'
  <2>1. sess \in Users /\ real[1] \in Keys \ {0} /\ 1 \in Groups
    BY <1>9 DEF PeerGives, TypeOK, Shapes, ClientShapes, BufferShapes, ServerShapes,
       CountShapes, Groups
  <2>2. \A k \in {"invite", "rekey"} :
          [kind |-> k, group |-> 1, key |-> real[1], user |-> sess] \in InPackets
    BY <2>1 DEF InPackets, KeyPackets
  <2> QED
    BY <1>9, <2>2 DEF PeerGives, Queues, InboxOK
<1>10. ASSUME NEW g \in Groups, SendGroupMessage(g) PROVE InboxOK'
  BY <1>10
     DEF SendGroupMessage, Happens, RequestKey, server, buffers, keyring,
         ghosts, Queues, InboxOK
<1>11. ASSUME NEW g \in Groups, AddGroupMember(g) PROVE InboxOK'
  BY <1>11
     DEF AddGroupMember, Happens, server, buffers, keyring, ghosts, Queues,
         InboxOK
<1>12. ASSUME NEW g \in Groups, KickMember(g) PROVE InboxOK'
  BY <1>12
     DEF KickMember, Happens, server, buffers, keyring, ghosts, Queues,
         InboxOK
<1>13. ASSUME NEW g \in Groups, PeerWrites(g) PROVE InboxOK'
  <2>1. [kind |-> "msg", group |-> g, key |-> real[g]] \in InPackets
    BY DEF InPackets, Shapes, ClientShapes, BufferShapes, ServerShapes, CountShapes
  <2> QED
    BY <1>13, <2>1 DEF PeerWrites, Queues, InboxOK
<1>14. ASSUME NEW g \in Groups, RoleChanges(g) PROVE InboxOK'
  <2>1. [kind |-> "info", group |-> g, created |-> FALSE] \in InPackets
    BY DEF InPackets
  <2> QED
    BY <1>14, <2>1 DEF RoleChanges, Queues, InboxOK
<1>15. ASSUME ServerLogin(Head(outbox)), Serve PROVE InboxOK'
  <2>1. [kind |-> "ack", user |-> Head(outbox).user] \in InPackets
    BY <1>15, <1>1 DEF InPackets, ServerLogin, Serve, OutFields
  <2> QED
    BY <1>15, <2>1 DEF ServerLogin, Reply, Queues, InboxOK
<1>16. ASSUME ServerFetch(Head(outbox)), Serve PROVE InboxOK'
  <2>1. [kind |-> "peerkey"] \in InPackets
    BY DEF InPackets
  <2> QED
    BY <1>16, <2>1 DEF ServerFetch, Reply, Queues, InboxOK
<1>17. ASSUME ServerCreate(Head(outbox)), Serve PROVE InboxOK'
  <2>1. groups + 1 \in Groups
    BY <1>17, <1>1, FreshGroup DEF ServerCreate, Serve, OutFields
  <2>2. [kind |-> "info", group |-> groups + 1, created |-> TRUE] \in InPackets
    BY <2>1 DEF InPackets, Created
  <2> QED
    BY <1>17, <2>2 DEF ServerCreate, Reply, Queues, InboxOK
<1>18. ASSUME ServerRecover(Head(outbox)), Serve PROVE InboxOK'
  <2> DEFINE g == Head(outbox).group
  <2>1. g \in Groups /\ sess \in Users
    BY <1>18, <1>1, HeadSession DEF ServerRecover, Serve, OutFields
  <2>2. ~Outsider(g) =>
          [kind |-> "invite", group |-> g, key |-> wrapped[g][sess], user |-> sess] \in InPackets
    <3> HIDE DEF g
    <3>1. wrapped[g][sess] \in Keys
      BY <2>1 DEF Shapes, ClientShapes, BufferShapes, ServerShapes, CountShapes
    <3> QED
      BY <2>1, <3>1 DEF InPackets, KeyPackets, Outsider
  <2>3. Reply(Err)
        \/ (~Outsider(g)
            /\ Reply([kind |-> "invite", group |-> g, key |-> wrapped[g][sess], user |-> sess]))
    BY <1>18 DEF ServerRecover
  <2> HIDE DEF g
  <2> QED
    BY <2>2, <2>3, ErrPacket DEF Reply, Queues, InboxOK
<1>19. ASSUME ServerMessage(Head(outbox)), Serve PROVE InboxOK'
  BY <1>19, ErrPacket DEF ServerMessage, Reply, Queues, InboxOK
<1>20. ASSUME ServerText(Head(outbox)), Serve PROVE InboxOK'
  BY <1>20, <1>1
     DEF ServerText, Serve, Reply, Err, OutFields, server, buffers, keyring,
         ghosts, Queues, InboxOK
<1>21. ASSUME ServerGive(Head(outbox)), Serve PROVE InboxOK'
  BY <1>21, ErrPacket DEF ServerGive, Reply, Queues, InboxOK
<1>22. ASSUME ServerKick(Head(outbox)), Serve PROVE InboxOK'
  <2>1. [kind |-> "rotate", group |-> Head(outbox).group] \in InPackets
    BY <1>22, <1>1 DEF InPackets, Rotates, ServerKick, Serve, OutFields
  <2> QED
    BY <1>22, <2>1, ErrPacket DEF ServerKick, Reply, Queues, InboxOK
<1>23. ASSUME ServerInfo(Head(outbox)), Serve PROVE InboxOK'
  <2>1. [kind |-> "info", group |-> Head(outbox).group, created |-> FALSE] \in InPackets
    BY <1>23, <1>1 DEF InPackets, ServerInfo, Serve, OutFields
  <2> QED
    BY <1>23, <2>1 DEF ServerInfo, Reply, Queues, InboxOK
<1>24. ASSUME LoginAcked(Head(inbox)), Read PROVE InboxOK'
  BY <1>24, <1>2
     DEF LoginAcked, Read, InFields, server, buffers, keyring, ghosts, Queues,
         InboxOK
<1>25. ASSUME PeerKeyArrives(Head(inbox)), Read PROVE InboxOK'
  BY <1>25, <1>2
     DEF PeerKeyArrives, Read, InFields, server, buffers, keyring, ghosts,
         Queues, InboxOK
<1>26. ASSUME GroupInfoArrives(Head(inbox)), Read PROVE InboxOK'
  BY <1>26, <1>2
     DEF GroupInfoArrives, Read, InFields, saveGroupKey, saveGroup, server,
         buffers, keyring, ghosts, Queues, InboxOK
<1>27. ASSUME InviteArrives(Head(inbox)), Read PROVE InboxOK'
  BY <1>27, <1>2
     DEF InviteArrives, Read, InFields, TakeKey, DrainSends, saveGroupKey,
         saveGroup, server, buffers, keyring, ghosts, Queues, InboxOK
<1>28. ASSUME RekeyArrives(Head(inbox)), Read PROVE InboxOK'
  BY <1>28, <1>2
     DEF RekeyArrives, Read, InFields, TakeKey, DrainSends, saveGroupKey,
         server, buffers, keyring, ghosts, Queues, InboxOK
<1>29. ASSUME KeyFails(Head(inbox)), Read PROVE InboxOK'
  BY <1>29, <1>2
     DEF KeyFails, Read, InFields, server, buffers, keyring, ghosts, Queues,
         InboxOK
<1>30. ASSUME MessageBuffered(Head(inbox)), Read PROVE InboxOK'
  BY <1>30, <1>2
     DEF MessageBuffered, Read, InFields, RequestKey, loadGroupKey, server,
         buffers, keyring, ghosts, Queues, InboxOK
<1>31. ASSUME MessageRead(Head(inbox)), Read PROVE InboxOK'
  BY <1>31, <1>2
     DEF MessageRead, Read, InFields, loadGroupKey, server, buffers, keyring,
         ghosts, Queues, InboxOK
<1>32. ASSUME Rotate(Head(inbox)), Read PROVE InboxOK'
  BY <1>32, <1>2
     DEF Rotate, Read, InFields, saveGroupKey, server, buffers, keyring,
         ghosts, Queues, InboxOK
<1>33. ASSUME Left(Head(inbox)), Read PROVE InboxOK'
  BY <1>33, <1>2
     DEF Left, Read, InFields, saveGroupKey, server, buffers, keyring, ghosts,
         Queues, InboxOK
<1>34. ASSUME ErrArrives(Head(inbox)), Read PROVE InboxOK'
  BY <1>34, <1>2
     DEF ErrArrives, Read, InFields, server, buffers, keyring, ghosts, Queues,
         InboxOK
<1>35. CASE UNCHANGED vars
  BY <1>35 DEF vars, server, buffers, keyring, ghosts, Queues, InboxOK
<1> QED
  BY <1>3, <1>4, <1>5, <1>6, <1>7, <1>8, <1>9, <1>10, <1>11, <1>12, <1>13,
     <1>14, <1>15, <1>16, <1>17, <1>18, <1>19, <1>20, <1>21, <1>22, <1>23,
     <1>24, <1>25, <1>26, <1>27, <1>28, <1>29, <1>30, <1>31, <1>32, <1>33,
     <1>34, <1>35 DEF Next, ServerStep, ClientStep, Serve, Read

\* The stores keep keys, the groups they have are groups.
LEMMA SavedKey ==
    ASSUME TypeOK, ClientShapes, NEW g \in Groups, NEW k \in Keys
    PROVE  saveGroupKey(db, g, k) \in [Users -> [Groups -> 0..MaxKeys]]
<1>1. disk \in [Users -> [Groups -> Keys]] /\ (db = NoUser \/ db \in Users)
  BY DEF TypeOK, ClientShapes, Keys
<1>2. db \in Users => [disk EXCEPT ![db][g] = k] \in [Users -> [Groups -> Keys]]
  BY <1>1
<1> QED
  BY <1>1, <1>2 DEF saveGroupKey, Keys

\* saveGroup keeps the table's shape.
LEMMA SavedGroup ==
    ASSUME ClientShapes, NEW g \in Groups
    PROVE  saveGroup(db, g) \in [Users -> SUBSET Groups]
BY DEF saveGroup, ClientShapes

\* The types are kept.
LEMMA TypeStep ==
    TypeOK /\ Queues /\ Shapes /\ Session /\ Counts /\ [Next]_vars => TypeOK'
<1> SUFFICES ASSUME TypeOK, Queues, Shapes, Session, Counts, [Next]_vars
             PROVE  TypeOK'
    OBVIOUS
<1> USE GroupClientConstants
<1>1. outbox # <<>> => OutFields(Head(outbox)) /\ Tail(outbox) \in Seq(OutPackets)
  BY HeadOut
<1>2. inbox # <<>> => InFields(Head(inbox)) /\ Tail(inbox) \in Seq(InPackets)
  BY HeadIn
<1>3. ASSUME NEW u \in Users, SendLogin(u) PROVE TypeOK'
  BY <1>3 DEF SendLogin, server, buffers, keyring, ghosts, TypeOK
<1>4. ASSUME NEW u \in Users, PeerKicks(u) PROVE TypeOK'
  BY <1>4 DEF PeerKicks, Happens, server, buffers, keyring, ghosts, TypeOK
<1>5. ASSUME CreateGroup PROVE TypeOK'
  BY <1>5, FreshKey
     DEF CreateGroup, Happens, server, buffers, keyring, ghosts, TypeOK
<1>6. ASSUME SendMessage PROVE TypeOK'
  BY <1>6 DEF SendMessage, Happens, server, buffers, keyring, ghosts, TypeOK
<1>7. ASSUME Logout PROVE TypeOK'
  <2>1. (\A g \in Groups : 0 \in 0..MaxKeys) /\ NoUser \in Users \cup {NoUser}
    BY DEF MaxKeys
  <2>2. [g \in Groups |-> 0] \in [Groups -> 0..MaxKeys] /\ 0 \in 0..MaxKeys
    BY DEF MaxKeys
  <2> QED
    BY <1>7, <2>2 DEF Logout, Happens, server, buffers, keyring, ghosts, TypeOK
<1>8. ASSUME Disconnect PROVE TypeOK'
  BY <1>8 DEF Disconnect, Happens, server, buffers, keyring, ghosts, TypeOK
<1>9. ASSUME PeerGives PROVE TypeOK'
  BY <1>9 DEF PeerGives, Happens, server, buffers, keyring, ghosts, TypeOK
<1>10. ASSUME NEW g \in Groups, SendGroupMessage(g) PROVE TypeOK'
  <2>1. me \in Users /\ sends \in [Groups -> Seq(Users)]
    BY <1>10 DEF SendGroupMessage, TypeOK, Shapes, BufferShapes
  <2>2. sends' = sends \/ sends' = [sends EXCEPT ![g] = Append(@, me)]
    BY <1>10 DEF SendGroupMessage
  <2>3. \A h \in Groups : \A i \in DOMAIN sends'[h] : sends'[h][i] \in Users
    <3>1. [sends EXCEPT ![g] = Append(@, me)] \in [Groups -> Seq(Users)]
      BY <2>1
    <3>2. sends' \in [Groups -> Seq(Users)]
      BY <2>1, <2>2, <3>1
    <3> QED
      BY <3>2
  <2>4. requests' \subseteq Groups
    BY <1>10 DEF SendGroupMessage, RequestKey, TypeOK
  <2> QED
    BY <1>10, <2>3, <2>4 DEF SendGroupMessage, server, keyring, TypeOK
<1>11. ASSUME NEW g \in Groups, AddGroupMember(g) PROVE TypeOK'
  BY <1>11
     DEF AddGroupMember, Happens, server, buffers, keyring, ghosts, TypeOK
<1>12. ASSUME NEW g \in Groups, KickMember(g) PROVE TypeOK'
  BY <1>12 DEF KickMember, Happens, server, buffers, keyring, ghosts, TypeOK
<1>13. ASSUME NEW g \in Groups, PeerWrites(g) PROVE TypeOK'
  BY <1>13 DEF PeerWrites, Happens, server, buffers, keyring, ghosts, TypeOK
<1>14. ASSUME NEW g \in Groups, RoleChanges(g) PROVE TypeOK'
  BY <1>14 DEF RoleChanges, Happens, server, buffers, keyring, ghosts, TypeOK
<1>15. ASSUME ServerLogin(Head(outbox)), Serve PROVE TypeOK'
  BY <1>15, <1>1
     DEF ServerLogin, Serve, Reply, Err, OutFields, server, buffers, keyring,
         ghosts, TypeOK
<1>16. ASSUME ServerFetch(Head(outbox)), Serve PROVE TypeOK'
  BY <1>16, <1>1
     DEF ServerFetch, Serve, Reply, Err, OutFields, server, buffers, keyring,
         ghosts, TypeOK
<1>17. ASSUME ServerCreate(Head(outbox)), Serve PROVE TypeOK'
  BY <1>17, <1>1, FreshGroup
     DEF ServerCreate, Serve, Reply, Err, OutFields, server, buffers, keyring,
         ghosts, TypeOK
<1>18. ASSUME ServerRecover(Head(outbox)), Serve PROVE TypeOK'
  BY <1>18, <1>1
     DEF ServerRecover, Serve, Reply, Err, OutFields, Outsider, server,
         buffers, keyring, ghosts, TypeOK
<1>19. ASSUME ServerMessage(Head(outbox)), Serve PROVE TypeOK'
  BY <1>19, <1>1
     DEF ServerMessage, Serve, Reply, Err, OutFields, Outsider, server,
         buffers, keyring, ghosts, TypeOK
<1>20. ASSUME ServerText(Head(outbox)), Serve PROVE TypeOK'
  BY <1>20, <1>1
     DEF ServerText, Serve, Reply, Err, OutFields, server, buffers, keyring,
         ghosts, TypeOK
<1>21. ASSUME ServerGive(Head(outbox)), Serve PROVE TypeOK'
  BY <1>21, <1>1
     DEF ServerGive, Serve, Reply, Err, OutFields, Outsider, NotAdmin, server,
         buffers, keyring, ghosts, TypeOK
<1>22. ASSUME ServerKick(Head(outbox)), Serve PROVE TypeOK'
  BY <1>22, <1>1
     DEF ServerKick, Serve, Reply, Err, OutFields, Outsider, NotAdmin, server,
         buffers, keyring, ghosts, TypeOK
<1>23. ASSUME ServerInfo(Head(outbox)), Serve PROVE TypeOK'
  BY <1>23, <1>1
     DEF ServerInfo, Serve, Reply, Err, OutFields, server, buffers, keyring,
         ghosts, TypeOK
<1>24. ASSUME LoginAcked(Head(inbox)), Read PROVE TypeOK'
  BY <1>24, <1>2
     DEF LoginAcked, Read, InFields, server, buffers, keyring, ghosts, TypeOK
<1>25. ASSUME PeerKeyArrives(Head(inbox)), Read PROVE TypeOK'
  BY <1>25, <1>2
     DEF PeerKeyArrives, Read, InFields, server, buffers, keyring, ghosts,
         TypeOK
<1>26. ASSUME GroupInfoArrives(Head(inbox)), Read PROVE TypeOK'
  <2>1. Head(inbox).group \in Groups /\ zero \in Keys /\ mem \in [Groups -> Keys]
    BY <1>26, <1>2 DEF GroupInfoArrives, Read, InFields, TypeOK, Keys
  <2>2. disk' \in [Users -> [Groups -> 0..MaxKeys]]
    BY <1>26, <2>1, SavedKey DEF GroupInfoArrives, TypeOK, Shapes
  <2>3. mem' \in [Groups -> 0..MaxKeys] /\ zero' \in 0..MaxKeys
    BY <1>26, <2>1 DEF GroupInfoArrives, Keys, MaxKeys
  <2> QED
    BY <1>26, <2>2, <2>3 DEF GroupInfoArrives, Read, server, buffers, TypeOK
<1>27. ASSUME InviteArrives(Head(inbox)), Read PROVE TypeOK'
  <2>1. Head(inbox).group \in Groups /\ Head(inbox).key \in Keys
    BY <1>27, <1>2 DEF InviteArrives, Read, InFields
  <2>2. disk' \in [Users -> [Groups -> 0..MaxKeys]]
    BY <1>27, <2>1, SavedKey DEF InviteArrives, TakeKey, Shapes
  <2>3. mem' \in [Groups -> 0..MaxKeys] /\ requests' \subseteq Groups
    BY <1>27, <2>1 DEF InviteArrives, TakeKey, TypeOK, Keys
  <2>4. \A h \in Groups : \A i \in DOMAIN sends'[h] : sends'[h][i] \in Users
    <3>1. [sends EXCEPT ![Head(inbox).group] = <<>>] \in [Groups -> Seq(Users)]
      BY <2>1 DEF Shapes, BufferShapes
    <3>2. sends' \in [Groups -> Seq(Users)]
      BY <1>27, <3>1 DEF InviteArrives, DrainSends
    <3> QED
      BY <3>2
  <2> QED
    BY <1>27, <2>2, <2>3, <2>4 DEF InviteArrives, TakeKey, Read, server, TypeOK
<1>28. ASSUME RekeyArrives(Head(inbox)), Read PROVE TypeOK'
  <2>1. Head(inbox).group \in Groups /\ Head(inbox).key \in Keys
    BY <1>28, <1>2 DEF RekeyArrives, Read, InFields
  <2>2. disk' \in [Users -> [Groups -> 0..MaxKeys]]
    BY <1>28, <2>1, SavedKey DEF RekeyArrives, TakeKey, Shapes
  <2>3. mem' \in [Groups -> 0..MaxKeys] /\ requests' \subseteq Groups
    BY <1>28, <2>1 DEF RekeyArrives, TakeKey, TypeOK, Keys
  <2>4. \A h \in Groups : \A i \in DOMAIN sends'[h] : sends'[h][i] \in Users
    <3>1. [sends EXCEPT ![Head(inbox).group] = <<>>] \in [Groups -> Seq(Users)]
      BY <2>1 DEF Shapes, BufferShapes
    <3>2. sends' \in [Groups -> Seq(Users)]
      BY <1>28, <3>1 DEF RekeyArrives, DrainSends
    <3> QED
      BY <3>2
  <2> QED
    BY <1>28, <2>2, <2>3, <2>4 DEF RekeyArrives, TakeKey, Read, server, TypeOK
<1>29. ASSUME KeyFails(Head(inbox)), Read PROVE TypeOK'
  BY <1>29, <1>2
     DEF KeyFails, Read, InFields, server, buffers, keyring, ghosts, TypeOK
<1>30. ASSUME MessageBuffered(Head(inbox)), Read PROVE TypeOK'
  BY <1>30, <1>2
     DEF MessageBuffered, Read, InFields, RequestKey, loadGroupKey, server,
         buffers, keyring, ghosts, TypeOK
<1>31. ASSUME MessageRead(Head(inbox)), Read PROVE TypeOK'
  <2>1. Head(inbox).group \in Groups
    BY <1>31, <1>2 DEF MessageRead, Read, InFields
  <2>2. loadGroupKey(Head(inbox).group) \in 0..MaxKeys
    BY <2>1 DEF loadGroupKey, TypeOK, Shapes, ClientShapes, MaxKeys
  <2>3. mem' \in [Groups -> 0..MaxKeys]
    BY <1>31, <2>1, <2>2 DEF MessageRead, TypeOK
  <2> QED
    BY <1>31, <2>3 DEF MessageRead, Read, server, buffers, TypeOK
<1>32. ASSUME Rotate(Head(inbox)), Read PROVE TypeOK'
  <2>1. Head(inbox).group \in Groups /\ Head(inbox) \in Rotates
    BY <1>32, <1>2 DEF Rotate, Read, InFields
  <2>2. keys + 1 \in 1..MaxKeys
    BY <1>32, <2>1, FreshKey DEF Read
  <2>3. keys + 1 \in Keys
    BY <2>2 DEF Keys
  <2>4. disk' \in [Users -> [Groups -> 0..MaxKeys]]
    BY <1>32, <2>1, <2>3, SavedKey DEF Rotate, Shapes
  <2>5. mem' \in [Groups -> 0..MaxKeys] /\ keys' \in 1..MaxKeys
    BY <1>32, <2>1, <2>2, <2>3 DEF Rotate, TypeOK, Keys
  <2> QED
    BY <1>32, <2>4, <2>5 DEF Rotate, Read, server, buffers, TypeOK
<1>33. ASSUME Left(Head(inbox)), Read PROVE TypeOK'
  <2>1. Head(inbox).group \in Groups /\ 0 \in Keys
    BY <1>33, <1>2 DEF Left, Read, InFields, Keys, MaxKeys
  <2>2. disk' \in [Users -> [Groups -> 0..MaxKeys]]
    BY <1>33, <2>1, SavedKey DEF Left, Shapes
  <2>3. mem' \in [Groups -> 0..MaxKeys]
    BY <1>33, <2>1 DEF Left, TypeOK, Keys
  <2> QED
    BY <1>33, <2>2, <2>3 DEF Left, Read, server, buffers, TypeOK
<1>34. ASSUME ErrArrives(Head(inbox)), Read PROVE TypeOK'
  BY <1>34, <1>2
     DEF ErrArrives, Read, InFields, server, buffers, keyring, ghosts, TypeOK
<1>35. CASE UNCHANGED vars
  BY <1>35 DEF vars, server, buffers, keyring, ghosts, TypeOK
<1> QED
  BY <1>3, <1>4, <1>5, <1>6, <1>7, <1>8, <1>9, <1>10, <1>11, <1>12, <1>13,
     <1>14, <1>15, <1>16, <1>17, <1>18, <1>19, <1>20, <1>21, <1>22, <1>23,
     <1>24, <1>25, <1>26, <1>27, <1>28, <1>29, <1>30, <1>31, <1>32, <1>33,
     <1>34, <1>35 DEF Next, ServerStep, ClientStep, Serve, Read

\* So are the shapes of what TypeOK leaves open.
LEMMA ShapesStep ==
    TypeOK /\ Queues /\ Shapes /\ Session /\ Counts /\ [Next]_vars => Shapes'
<1> SUFFICES ASSUME TypeOK, Queues, Shapes, Session, Counts, [Next]_vars
             PROVE  Shapes'
    OBVIOUS
<1> USE GroupClientConstants
<1>1. outbox # <<>> => OutFields(Head(outbox)) /\ Tail(outbox) \in Seq(OutPackets)
  BY HeadOut
<1>2. inbox # <<>> => InFields(Head(inbox)) /\ Tail(inbox) \in Seq(InPackets)
  BY HeadIn
<1>3. ASSUME NEW u \in Users, SendLogin(u) PROVE Shapes'
  BY <1>3
     DEF SendLogin, server, buffers, keyring, ghosts, TypeOK, Shapes,
         ClientShapes, BufferShapes, ServerShapes, CountShapes
<1>4. ASSUME NEW u \in Users, PeerKicks(u) PROVE Shapes'
  <2>1. ClientShapes'
    BY <1>4 DEF PeerKicks, Happens, server, buffers, keyring, ghosts, Shapes, ClientShapes
  <2>2. BufferShapes'
    BY <1>4 DEF PeerKicks, Happens, server, buffers, keyring, ghosts, Shapes, BufferShapes
  <2>3. ServerShapes'
    <3>1. 1 \in Groups /\ 0 \in Keys
      BY DEF Groups, Keys, MaxKeys
    <3> QED
      BY <1>4, <3>1 DEF PeerKicks, Shapes, ServerShapes
  <2>4. CountShapes'
    BY <1>4 DEF PeerKicks, Happens, server, buffers, keyring, ghosts, Shapes, CountShapes
  <2> QED
    BY <2>1, <2>2, <2>3, <2>4 DEF Shapes
<1>5. ASSUME CreateGroup PROVE Shapes'
  <2>1. ClientShapes'
    BY <1>5 DEF CreateGroup, Happens, server, buffers, keyring, ghosts, Shapes, ClientShapes
  <2>2. BufferShapes'
    <3>1. keys + 1 \in Keys
      BY <1>5, FreshKey DEF CreateGroup, Happens, Keys
    <3>2. creations' = creations \/ creations' = Append(creations, keys + 1)
      BY <1>5 DEF CreateGroup
    <3>3. UNCHANGED <<texts, adds, sends, packets>>
      BY <1>5 DEF CreateGroup
    <3>4. creations' \in Seq(Keys)
      <4>1. creations \in Seq(Keys)
        BY DEF Shapes, BufferShapes
      <4>2. Append(creations, keys + 1) \in Seq(Keys)
        BY <3>1, <3>2, <4>1, AppendProperties
      <4> QED
        BY <3>1, <3>2, <4>1, <4>2
    <3> QED
      BY <3>3, <3>4 DEF Shapes, BufferShapes
  <2>3. ServerShapes'
    BY <1>5 DEF CreateGroup, Happens, server, buffers, keyring, ghosts, Shapes, ServerShapes
  <2>4. CountShapes'
    BY <1>5 DEF CreateGroup, Happens, server, buffers, keyring, ghosts, Shapes, CountShapes
  <2> QED
    BY <2>1, <2>2, <2>3, <2>4 DEF Shapes
<1>6. ASSUME SendMessage PROVE Shapes'
  <2>1. ClientShapes'
    BY <1>6 DEF SendMessage, Happens, server, buffers, keyring, ghosts, Shapes, ClientShapes
  <2>2. BufferShapes'
    <3>1. texts' = texts \/ texts' = Append(texts, me)
      BY <1>6 DEF SendMessage
    <3>2. me \in Users /\ UNCHANGED <<adds, creations, sends, packets>>
      BY <1>6 DEF SendMessage, TypeOK
    <3>3. texts' \in Seq(Users)
      <4>1. texts \in Seq(Users)
        BY DEF Shapes, BufferShapes
      <4>2. Append(texts, me) \in Seq(Users)
        BY <3>1, <3>2, <4>1, AppendProperties
      <4> QED
        BY <3>1, <3>2, <4>1, <4>2
    <3> QED
      BY <3>2, <3>3 DEF Shapes, BufferShapes
  <2>3. ServerShapes'
    BY <1>6 DEF SendMessage, Happens, server, buffers, keyring, ghosts, Shapes, ServerShapes
  <2>4. CountShapes'
    BY <1>6 DEF SendMessage, Happens, server, buffers, keyring, ghosts, Shapes, CountShapes
  <2> QED
    BY <2>1, <2>2, <2>3, <2>4 DEF Shapes
<1>7. ASSUME Logout PROVE Shapes'
  <2>1. ClientShapes'
    BY <1>7 DEF Logout, Happens, server, buffers, keyring, ghosts, Shapes, ClientShapes
  <2>2. BufferShapes'
    BY <1>7 DEF Logout, Happens, server, buffers, keyring, ghosts, Shapes, BufferShapes
  <2>3. ServerShapes'
    BY <1>7 DEF Logout, Happens, server, buffers, keyring, ghosts, Shapes, ServerShapes
  <2>4. CountShapes'
    BY <1>7 DEF Logout, Happens, Shapes, CountShapes, TypeOK
  <2> QED
    BY <2>1, <2>2, <2>3, <2>4 DEF Shapes
<1>8. ASSUME Disconnect PROVE Shapes'
  <2>1. ClientShapes'
    BY <1>8 DEF Disconnect, Happens, server, buffers, keyring, ghosts, Shapes, ClientShapes
  <2>2. BufferShapes'
    BY <1>8 DEF Disconnect, Happens, server, buffers, keyring, ghosts, Shapes, BufferShapes
  <2>3. ServerShapes'
    BY <1>8 DEF Disconnect, Happens, server, buffers, keyring, ghosts, Shapes, ServerShapes
  <2>4. CountShapes'
    BY <1>8 DEF Disconnect, Happens, Shapes, CountShapes, TypeOK
  <2> QED
    BY <2>1, <2>2, <2>3, <2>4 DEF Shapes
<1>9. ASSUME PeerGives PROVE Shapes'
  <2>1. ClientShapes'
    BY <1>9 DEF PeerGives, Happens, server, buffers, keyring, ghosts, Shapes, ClientShapes
  <2>2. BufferShapes'
    BY <1>9 DEF PeerGives, Happens, server, buffers, keyring, ghosts, Shapes, BufferShapes
  <2>3. ServerShapes'
    <3>1. 1 \in Groups /\ real[1] \in Keys /\ sess \in Users
      BY <1>9 DEF PeerGives, Shapes, ServerShapes, TypeOK, Groups
    <3> QED
      BY <1>9, <3>1 DEF PeerGives, Shapes, ServerShapes
  <2>4. CountShapes'
    BY <1>9 DEF PeerGives, Happens, server, buffers, keyring, ghosts, Shapes, CountShapes
  <2> QED
    BY <2>1, <2>2, <2>3, <2>4 DEF Shapes
<1>10. ASSUME NEW g \in Groups, SendGroupMessage(g) PROVE Shapes'
  <2>1. ClientShapes'
    BY <1>10 DEF SendGroupMessage, Happens, RequestKey, server, buffers, keyring, ghosts,
       Shapes, ClientShapes
  <2>2. BufferShapes'
    <3>1. me \in Users /\ [sends EXCEPT ![g] = Append(@, me)] \in [Groups -> Seq(Users)]
      BY <1>10 DEF SendGroupMessage, TypeOK, Shapes, BufferShapes
    <3>2. sends' = sends \/ sends' = [sends EXCEPT ![g] = Append(@, me)]
      BY <1>10 DEF SendGroupMessage
    <3>3. UNCHANGED <<texts, adds, creations, packets>>
      BY <1>10 DEF SendGroupMessage
    <3> QED
      BY <3>1, <3>2, <3>3 DEF Shapes, BufferShapes
  <2>3. ServerShapes'
    BY <1>10 DEF SendGroupMessage, Happens, RequestKey, server, buffers, keyring, ghosts,
       Shapes, ServerShapes
  <2>4. CountShapes'
    BY <1>10 DEF SendGroupMessage, Happens, RequestKey, server, buffers, keyring, ghosts,
       Shapes, CountShapes
  <2> QED
    BY <2>1, <2>2, <2>3, <2>4 DEF Shapes
<1>11. ASSUME NEW g \in Groups, AddGroupMember(g) PROVE Shapes'
  <2>1. ClientShapes'
    BY <1>11 DEF AddGroupMember, Happens, server, buffers, keyring, ghosts, Shapes, ClientShapes
  <2>2. BufferShapes'
    <3>1. adds' = adds \/ adds' = Append(adds, g)
      BY <1>11 DEF AddGroupMember
    <3>2. UNCHANGED <<texts, creations, sends, packets>>
      BY <1>11 DEF AddGroupMember
    <3>3. adds' \in Seq(Groups)
      <4>1. adds \in Seq(Groups)
        BY DEF Shapes, BufferShapes
      <4>2. Append(adds, g) \in Seq(Groups)
        BY <3>1, <3>2, <4>1, AppendProperties
      <4> QED
        BY <3>1, <3>2, <4>1, <4>2
    <3> QED
      BY <3>2, <3>3 DEF Shapes, BufferShapes
  <2>3. ServerShapes'
    BY <1>11 DEF AddGroupMember, Happens, server, buffers, keyring, ghosts, Shapes, ServerShapes
  <2>4. CountShapes'
    BY <1>11 DEF AddGroupMember, Happens, server, buffers, keyring, ghosts, Shapes, CountShapes
  <2> QED
    BY <2>1, <2>2, <2>3, <2>4 DEF Shapes
<1>12. ASSUME NEW g \in Groups, KickMember(g) PROVE Shapes'
  <2>1. ClientShapes'
    BY <1>12 DEF KickMember, Happens, server, buffers, keyring, ghosts, Shapes, ClientShapes
  <2>2. BufferShapes'
    BY <1>12 DEF KickMember, Happens, server, buffers, keyring, ghosts, Shapes, BufferShapes
  <2>3. ServerShapes'
    BY <1>12 DEF KickMember, Happens, server, buffers, keyring, ghosts, Shapes, ServerShapes
  <2>4. CountShapes'
    BY <1>12 DEF KickMember, Happens, server, buffers, keyring, ghosts, Shapes, CountShapes
  <2> QED
    BY <2>1, <2>2, <2>3, <2>4 DEF Shapes
<1>13. ASSUME NEW g \in Groups, PeerWrites(g) PROVE Shapes'
  <2>1. ClientShapes'
    BY <1>13 DEF PeerWrites, Happens, server, buffers, keyring, ghosts, Shapes, ClientShapes
  <2>2. BufferShapes'
    BY <1>13 DEF PeerWrites, Happens, server, buffers, keyring, ghosts, Shapes, BufferShapes
  <2>3. ServerShapes'
    BY <1>13 DEF PeerWrites, Happens, server, buffers, keyring, ghosts, Shapes, ServerShapes
  <2>4. CountShapes'
    BY <1>13 DEF PeerWrites, Happens, server, buffers, keyring, ghosts, Shapes, CountShapes
  <2> QED
    BY <2>1, <2>2, <2>3, <2>4 DEF Shapes
<1>14. ASSUME NEW g \in Groups, RoleChanges(g) PROVE Shapes'
  <2>1. ClientShapes'
    BY <1>14 DEF RoleChanges, Happens, server, buffers, keyring, ghosts, Shapes, ClientShapes
  <2>2. BufferShapes'
    BY <1>14 DEF RoleChanges, Happens, server, buffers, keyring, ghosts, Shapes, BufferShapes
  <2>3. ServerShapes'
    BY <1>14 DEF RoleChanges, Happens, server, buffers, keyring, ghosts, Shapes, ServerShapes
  <2>4. CountShapes'
    BY <1>14 DEF RoleChanges, Happens, server, buffers, keyring, ghosts, Shapes, CountShapes
  <2> QED
    BY <2>1, <2>2, <2>3, <2>4 DEF Shapes
<1>15. ASSUME ServerLogin(Head(outbox)), Serve PROVE Shapes'
  BY <1>15, <1>1
     DEF ServerLogin, Serve, Reply, Err, OutFields, server, buffers, keyring,
         ghosts, TypeOK, Shapes, ClientShapes, BufferShapes, ServerShapes,
         CountShapes
<1>16. ASSUME ServerFetch(Head(outbox)), Serve PROVE Shapes'
  BY <1>16, <1>1
     DEF ServerFetch, Serve, Reply, Err, OutFields, server, buffers, keyring,
         ghosts, TypeOK, Shapes, ClientShapes, BufferShapes, ServerShapes,
         CountShapes
<1>17. ASSUME ServerCreate(Head(outbox)), Serve PROVE Shapes'
  <2>0. groups + 1 \in Groups /\ sess \in Users /\ Head(outbox).key \in Keys
    BY <1>17, <1>1, FreshGroup, HeadSession DEF ServerCreate, Serve, OutFields
  <2>1. ClientShapes'
    BY <1>17 DEF ServerCreate, Serve, server, buffers, keyring, ghosts, Shapes, ClientShapes
  <2>2. BufferShapes'
    BY <1>17 DEF ServerCreate, Serve, server, buffers, keyring, ghosts, Shapes, BufferShapes
  <2>3. ServerShapes'
    <3>1. real' = [real EXCEPT ![groups + 1] = Head(outbox).key]
          /\ wrapped' = [wrapped EXCEPT ![groups + 1][sess] = Head(outbox).key]
      BY <1>17 DEF ServerCreate
    <3>2. groups + 1 # 1 /\ 1 \in Groups
      BY DEF TypeOK, Groups
    <3> QED
      BY <2>0, <3>1, <3>2 DEF Shapes, ServerShapes
  <2>4. CountShapes'
    BY <1>17 DEF ServerCreate, Serve, server, buffers, keyring, ghosts, Shapes, CountShapes
  <2> QED
    BY <2>1, <2>2, <2>3, <2>4 DEF Shapes
<1>18. ASSUME ServerRecover(Head(outbox)), Serve PROVE Shapes'
  BY <1>18, <1>1
     DEF ServerRecover, Serve, Reply, Err, OutFields, Outsider, server,
         buffers, keyring, ghosts, TypeOK, Shapes, ClientShapes, BufferShapes,
         ServerShapes, CountShapes
<1>19. ASSUME ServerMessage(Head(outbox)), Serve PROVE Shapes'
  BY <1>19, <1>1
     DEF ServerMessage, Serve, Reply, Err, OutFields, Outsider, server,
         buffers, keyring, ghosts, TypeOK, Shapes, ClientShapes, BufferShapes,
         ServerShapes, CountShapes
<1>20. ASSUME ServerText(Head(outbox)), Serve PROVE Shapes'
  BY <1>20, <1>1
     DEF ServerText, Serve, Reply, Err, OutFields, server, buffers, keyring,
         ghosts, TypeOK, Shapes, ClientShapes, BufferShapes, ServerShapes,
         CountShapes
<1>21. ASSUME ServerGive(Head(outbox)), Serve PROVE Shapes'
  <2>0. Head(outbox).group \in Groups /\ Head(outbox).key \in Keys
    BY <1>21, <1>1 DEF ServerGive, Serve, OutFields
  <2>1. ClientShapes'
    BY <1>21 DEF ServerGive, Outsider, NotAdmin, Serve, server, buffers, keyring, ghosts,
       Shapes, ClientShapes
  <2>2. BufferShapes'
    BY <1>21 DEF ServerGive, Outsider, NotAdmin, Serve, server, buffers, keyring, ghosts,
       Shapes, BufferShapes
  <2>3. ServerShapes'
    <3>1. [real EXCEPT ![Head(outbox).group] = Head(outbox).key] \in [Groups -> Keys]
      BY <2>0 DEF Shapes, ServerShapes
    <3>2. Head(outbox).key # 0
      BY <1>21, <1>1 DEF ServerGive, Serve, OutFields
    <3>3. real' = real \/ real' = [real EXCEPT ![Head(outbox).group] = Head(outbox).key]
      BY <1>21 DEF ServerGive
    <3>4. 1 \in Groups
      BY DEF Groups
    <3> QED
      BY <1>21, <3>1, <3>2, <3>3, <3>4 DEF ServerGive, Shapes, ServerShapes
  <2>4. CountShapes'
    BY <1>21 DEF ServerGive, Outsider, NotAdmin, Serve, server, buffers, keyring, ghosts,
       Shapes, CountShapes
  <2> QED
    BY <2>1, <2>2, <2>3, <2>4 DEF Shapes
<1>22. ASSUME ServerKick(Head(outbox)), Serve PROVE Shapes'
  BY <1>22, <1>1
     DEF ServerKick, Serve, Reply, Err, OutFields, Outsider, NotAdmin, server,
         buffers, keyring, ghosts, TypeOK, Shapes, ClientShapes, BufferShapes,
         ServerShapes, CountShapes
<1>23. ASSUME ServerInfo(Head(outbox)), Serve PROVE Shapes'
  BY <1>23, <1>1
     DEF ServerInfo, Serve, Reply, Err, OutFields, server, buffers, keyring,
         ghosts, TypeOK, Shapes, ClientShapes, BufferShapes, ServerShapes,
         CountShapes
<1>24. ASSUME LoginAcked(Head(inbox)), Read PROVE Shapes'
  BY <1>24, <1>2
     DEF LoginAcked, Read, InFields, server, buffers, keyring, ghosts, TypeOK,
         Shapes, ClientShapes, BufferShapes, ServerShapes, CountShapes
<1>25. ASSUME PeerKeyArrives(Head(inbox)), Read PROVE Shapes'
  BY <1>25, <1>2
     DEF PeerKeyArrives, Read, InFields, server, buffers, keyring, ghosts,
         TypeOK, Shapes, ClientShapes, BufferShapes, ServerShapes, CountShapes
<1>26. ASSUME GroupInfoArrives(Head(inbox)), Read PROVE Shapes'
  <2>0. Head(inbox).group \in Groups
    BY <1>26, <1>2 DEF GroupInfoArrives, Read, InFields
  <2>1. ClientShapes'
    BY <1>26, <2>0, SavedGroup DEF GroupInfoArrives, Read, Shapes, ClientShapes
  <2>2. BufferShapes'
    BY <1>26 DEF GroupInfoArrives, saveGroupKey, saveGroup, Read, server, buffers, keyring,
       ghosts, Shapes, BufferShapes
  <2>3. ServerShapes'
    BY <1>26 DEF GroupInfoArrives, saveGroupKey, saveGroup, Read, server, buffers, keyring,
       ghosts, Shapes, ServerShapes
  <2>4. CountShapes'
    BY <1>26 DEF GroupInfoArrives, saveGroupKey, saveGroup, Read, server, buffers, keyring,
       ghosts, Shapes, CountShapes
  <2> QED
    BY <2>1, <2>2, <2>3, <2>4 DEF Shapes
<1>27. ASSUME InviteArrives(Head(inbox)), Read PROVE Shapes'
  <2>0. Head(inbox).group \in Groups /\ Head(inbox).key \in Keys
    BY <1>27, <1>2 DEF InviteArrives, Read, InFields
  <2>1. ClientShapes'
    BY <1>27, <2>0, SavedGroup DEF InviteArrives, TakeKey, Read, Shapes, ClientShapes
  <2>2. BufferShapes'
    <3>1. [packets EXCEPT ![Head(inbox).group] = <<>>] \in [Groups -> Seq(Keys)]
      BY <2>0 DEF Shapes, BufferShapes
    <3>2. [sends EXCEPT ![Head(inbox).group] = <<>>] \in [Groups -> Seq(Users)]
      BY <2>0 DEF Shapes, BufferShapes
    <3> QED
      BY <1>27, <3>1, <3>2 DEF InviteArrives, TakeKey, DrainSends, Shapes, BufferShapes
  <2>3. ServerShapes'
    BY <1>27 DEF InviteArrives, TakeKey, DrainSends, saveGroupKey, saveGroup, Read, server,
       buffers, keyring, ghosts, Shapes, ServerShapes
  <2>4. CountShapes'
    BY <1>27 DEF InviteArrives, TakeKey, DrainSends, saveGroupKey, saveGroup, Read, server,
       buffers, keyring, ghosts, Shapes, CountShapes
  <2> QED
    BY <2>1, <2>2, <2>3, <2>4 DEF Shapes
<1>28. ASSUME RekeyArrives(Head(inbox)), Read PROVE Shapes'
  <2>0. Head(inbox).group \in Groups /\ Head(inbox).key \in Keys
    BY <1>28, <1>2 DEF RekeyArrives, Read, InFields
  <2>1. ClientShapes'
    BY <1>28, <2>0, SavedGroup DEF RekeyArrives, TakeKey, Read, Shapes, ClientShapes
  <2>2. BufferShapes'
    <3>1. [packets EXCEPT ![Head(inbox).group] = <<>>] \in [Groups -> Seq(Keys)]
      BY <2>0 DEF Shapes, BufferShapes
    <3>2. [sends EXCEPT ![Head(inbox).group] = <<>>] \in [Groups -> Seq(Users)]
      BY <2>0 DEF Shapes, BufferShapes
    <3> QED
      BY <1>28, <3>1, <3>2 DEF RekeyArrives, TakeKey, DrainSends, Shapes, BufferShapes
  <2>3. ServerShapes'
    BY <1>28 DEF RekeyArrives, TakeKey, DrainSends, saveGroupKey, Read, server, buffers,
       keyring, ghosts, Shapes, ServerShapes
  <2>4. CountShapes'
    BY <1>28 DEF RekeyArrives, TakeKey, DrainSends, saveGroupKey, Read, server, buffers,
       keyring, ghosts, Shapes, CountShapes
  <2> QED
    BY <2>1, <2>2, <2>3, <2>4 DEF Shapes
<1>29. ASSUME KeyFails(Head(inbox)), Read PROVE Shapes'
  BY <1>29, <1>2
     DEF KeyFails, Read, InFields, server, buffers, keyring, ghosts, TypeOK,
         Shapes, ClientShapes, BufferShapes, ServerShapes, CountShapes
<1>30. ASSUME MessageBuffered(Head(inbox)), Read PROVE Shapes'
  <2>0. Head(inbox).group \in Groups /\ Head(inbox).key \in Keys
    BY <1>30, <1>2 DEF MessageBuffered, Read, InFields
  <2>1. ClientShapes'
    BY <1>30 DEF MessageBuffered, RequestKey, loadGroupKey, Read, server, buffers, keyring,
       ghosts, Shapes, ClientShapes
  <2>2. BufferShapes'
    <3>1. [packets EXCEPT ![Head(inbox).group] = Append(@, Head(inbox).key)]
            \in [Groups -> Seq(Keys)]
      BY <2>0 DEF Shapes, BufferShapes
    <3> QED
      BY <1>30, <3>1 DEF MessageBuffered, Shapes, BufferShapes
  <2>3. ServerShapes'
    BY <1>30 DEF MessageBuffered, RequestKey, loadGroupKey, Read, server, buffers, keyring,
       ghosts, Shapes, ServerShapes
  <2>4. CountShapes'
    BY <1>30 DEF MessageBuffered, RequestKey, loadGroupKey, Read, server, buffers, keyring,
       ghosts, Shapes, CountShapes
  <2> QED
    BY <2>1, <2>2, <2>3, <2>4 DEF Shapes
<1>31. ASSUME MessageRead(Head(inbox)), Read PROVE Shapes'
  BY <1>31, <1>2
     DEF MessageRead, Read, InFields, loadGroupKey, server, buffers, keyring,
         ghosts, TypeOK, Shapes, ClientShapes, BufferShapes, ServerShapes,
         CountShapes
<1>32. ASSUME Rotate(Head(inbox)), Read PROVE Shapes'
  BY <1>32, <1>2
     DEF Rotate, Read, InFields, saveGroupKey, server, buffers, keyring,
         ghosts, TypeOK, Shapes, ClientShapes, BufferShapes, ServerShapes,
         CountShapes
<1>33. ASSUME Left(Head(inbox)), Read PROVE Shapes'
  BY <1>33, <1>2
     DEF Left, Read, InFields, saveGroupKey, server, buffers, keyring, ghosts,
         TypeOK, Shapes, ClientShapes, BufferShapes, ServerShapes, CountShapes
<1>34. ASSUME ErrArrives(Head(inbox)), Read PROVE Shapes'
  BY <1>34, <1>2
     DEF ErrArrives, Read, InFields, server, buffers, keyring, ghosts, TypeOK,
         Shapes, ClientShapes, BufferShapes, ServerShapes, CountShapes
<1>35. CASE UNCHANGED vars
  BY <1>35
     DEF vars, server, buffers, keyring, ghosts, TypeOK, Shapes, ClientShapes,
         BufferShapes, ServerShapes, CountShapes
<1> QED
  BY <1>3, <1>4, <1>5, <1>6, <1>7, <1>8, <1>9, <1>10, <1>11, <1>12, <1>13,
     <1>14, <1>15, <1>16, <1>17, <1>18, <1>19, <1>20, <1>21, <1>22, <1>23,
     <1>24, <1>25, <1>26, <1>27, <1>28, <1>29, <1>30, <1>31, <1>32, <1>33,
     <1>34, <1>35 DEF Next, ServerStep, ClientStep, Serve, Read

\* A session that is not logged in has seen nothing but LOGINs.
LEMMA SessionStep ==
    TypeOK /\ Queues /\ Shapes /\ Session /\ Counts /\ [Next]_vars => Session'
<1> SUFFICES ASSUME TypeOK, Queues, Shapes, Session, Counts, [Next]_vars
             PROVE  Session'
    OBVIOUS
<1> USE GroupClientConstants
<1>1. outbox # <<>> => OutFields(Head(outbox)) /\ Tail(outbox) \in Seq(OutPackets)
  BY HeadOut
<1>2. inbox # <<>> => InFields(Head(inbox)) /\ Tail(inbox) \in Seq(InPackets)
  BY HeadIn
<1>3. ASSUME NEW u \in Users, SendLogin(u) PROVE Session'
  <2>1. outbox \in Seq(OutPackets)
    BY DEF Queues, OutboxOK
  <2>2. outbox'[1].kind = "login" \/ (outbox # <<>> /\ outbox'[1] = outbox[1])
    BY <1>3, <2>1 DEF SendLogin
  <2> QED
    BY <1>3, <2>2 DEF SendLogin, server, Session
<1>4. ASSUME NEW u \in Users, PeerKicks(u) PROVE Session'
  BY <1>4 DEF PeerKicks, Happens, server, buffers, keyring, ghosts, Session
<1>5. ASSUME CreateGroup PROVE Session'
  BY <1>5 DEF CreateGroup, Happens, server, buffers, keyring, ghosts, Session
<1>6. ASSUME SendMessage PROVE Session'
  BY <1>6 DEF SendMessage, Happens, server, buffers, keyring, ghosts, Session
<1>7. ASSUME Logout PROVE Session'
  BY <1>7 DEF Logout, Happens, server, buffers, keyring, ghosts, Session
<1>8. ASSUME Disconnect PROVE Session'
  BY <1>8 DEF Disconnect, Happens, server, buffers, keyring, ghosts, Session
<1>9. ASSUME PeerGives PROVE Session'
  BY <1>9 DEF PeerGives, Happens, server, buffers, keyring, ghosts, Session
<1>10. ASSUME NEW g \in Groups, SendGroupMessage(g) PROVE Session'
  BY <1>10
     DEF SendGroupMessage, Happens, RequestKey, server, buffers, keyring,
         ghosts, Session
<1>11. ASSUME NEW g \in Groups, AddGroupMember(g) PROVE Session'
  BY <1>11
     DEF AddGroupMember, Happens, server, buffers, keyring, ghosts, Session
<1>12. ASSUME NEW g \in Groups, KickMember(g) PROVE Session'
  BY <1>12 DEF KickMember, Happens, server, buffers, keyring, ghosts, Session
<1>13. ASSUME NEW g \in Groups, PeerWrites(g) PROVE Session'
  BY <1>13 DEF PeerWrites, Happens, server, buffers, keyring, ghosts, Session
<1>14. ASSUME NEW g \in Groups, RoleChanges(g) PROVE Session'
  BY <1>14 DEF RoleChanges, Happens, server, buffers, keyring, ghosts, Session
<1>15. ASSUME ServerLogin(Head(outbox)), Serve PROVE Session'
  BY <1>15, <1>1 DEF ServerLogin, Serve, OutFields, Session
<1>16. ASSUME ServerFetch(Head(outbox)), Serve PROVE Session'
  <2>1. sess \in Users /\ UNCHANGED sess
    BY <1>16, HeadSession DEF ServerFetch, Serve, server
  <2> QED
    BY <2>1 DEF Session
<1>17. ASSUME ServerCreate(Head(outbox)), Serve PROVE Session'
  <2>1. sess \in Users /\ UNCHANGED sess
    BY <1>17, HeadSession DEF ServerCreate, Serve, server
  <2> QED
    BY <2>1 DEF Session
<1>18. ASSUME ServerRecover(Head(outbox)), Serve PROVE Session'
  <2>1. sess \in Users /\ UNCHANGED sess
    BY <1>18, HeadSession DEF ServerRecover, Serve, server
  <2> QED
    BY <2>1 DEF Session
<1>19. ASSUME ServerMessage(Head(outbox)), Serve PROVE Session'
  <2>1. sess \in Users /\ UNCHANGED sess
    BY <1>19, HeadSession DEF ServerMessage, Serve, server
  <2> QED
    BY <2>1 DEF Session
<1>20. ASSUME ServerText(Head(outbox)), Serve PROVE Session'
  <2>1. sess \in Users /\ UNCHANGED sess
    BY <1>20, HeadSession DEF ServerText, Serve, server
  <2> QED
    BY <2>1 DEF Session
<1>21. ASSUME ServerGive(Head(outbox)), Serve PROVE Session'
  <2>1. sess \in Users /\ UNCHANGED sess
    BY <1>21, HeadSession DEF ServerGive, Serve, server
  <2> QED
    BY <2>1 DEF Session
<1>22. ASSUME ServerKick(Head(outbox)), Serve PROVE Session'
  <2>1. sess \in Users /\ UNCHANGED sess
    BY <1>22, HeadSession DEF ServerKick, Serve, server
  <2> QED
    BY <2>1 DEF Session
<1>23. ASSUME ServerInfo(Head(outbox)), Serve PROVE Session'
  <2>1. sess \in Users /\ UNCHANGED sess
    BY <1>23, HeadSession DEF ServerInfo, Serve, server
  <2> QED
    BY <2>1 DEF Session
<1>24. ASSUME LoginAcked(Head(inbox)), Read PROVE Session'
  BY <1>24 DEF Read, server, Session
<1>25. ASSUME PeerKeyArrives(Head(inbox)), Read PROVE Session'
  BY <1>25 DEF Read, server, Session
<1>26. ASSUME GroupInfoArrives(Head(inbox)), Read PROVE Session'
  BY <1>26 DEF Read, server, Session
<1>27. ASSUME InviteArrives(Head(inbox)), Read PROVE Session'
  BY <1>27 DEF Read, server, Session
<1>28. ASSUME RekeyArrives(Head(inbox)), Read PROVE Session'
  BY <1>28 DEF Read, server, Session
<1>29. ASSUME KeyFails(Head(inbox)), Read PROVE Session'
  BY <1>29 DEF Read, server, Session
<1>30. ASSUME MessageBuffered(Head(inbox)), Read PROVE Session'
  BY <1>30 DEF Read, server, Session
<1>31. ASSUME MessageRead(Head(inbox)), Read PROVE Session'
  BY <1>31 DEF Read, server, Session
<1>32. ASSUME Rotate(Head(inbox)), Read PROVE Session'
  BY <1>32 DEF Read, server, Session
<1>33. ASSUME Left(Head(inbox)), Read PROVE Session'
  BY <1>33 DEF Read, server, Session
<1>34. ASSUME ErrArrives(Head(inbox)), Read PROVE Session'
  BY <1>34 DEF Read, server, Session
<1>35. CASE UNCHANGED vars
  BY <1>35 DEF vars, server, buffers, keyring, ghosts, Session
<1> QED
  BY <1>3, <1>4, <1>5, <1>6, <1>7, <1>8, <1>9, <1>10, <1>11, <1>12, <1>13,
     <1>14, <1>15, <1>16, <1>17, <1>18, <1>19, <1>20, <1>21, <1>22, <1>23,
     <1>24, <1>25, <1>26, <1>27, <1>28, <1>29, <1>30, <1>31, <1>32, <1>33,
     <1>34, <1>35 DEF Next, ServerStep, ClientStep, Serve, Read

\* There are no more hits than packets.
LEMMA HitsAtMost ==
    ASSUME NEW S, NEW s \in Seq(S), NEW P
    PROVE  Hits(s, P) <= Len(s)
<1>0. Len(s) \in Nat
  OBVIOUS
<1>1. IsFiniteSet(1..Len(s)) /\ Cardinality(1..Len(s)) = Len(s)
  <2>1. PICK n \in Nat : n = Len(s)
    BY <1>0
  <2>2. IsFiniteSet(1..n) /\ Cardinality(1..n) = n
    BY FS_Interval
  <2> QED
    BY <2>1, <2>2
<1>2. {i \in DOMAIN s : s[i] \in P} \in SUBSET (1..Len(s))
  OBVIOUS
<1> QED
  BY <1>1, <1>2, FS_Subset DEF Hits

\* sendPacket adds no more hits than the packets it is given.
LEMMA PutHits ==
    ASSUME Queues, up \in BOOLEAN, NEW T, NEW s \in Seq(T), Put(s), NEW P
    PROVE  /\ Hits(outbox', P) \in Nat
           /\ Hits(outbox', P) <= Hits(outbox, P) + Hits(s, P)
<1> DEFINE S == OutPackets \cup T
<1>1. outbox \in Seq(S) /\ s \in Seq(S)
  BY DEF Queues, OutboxOK
<1> HIDE DEF S
<1>2. Hits(outbox, P) \in Nat /\ Hits(s, P) \in Nat
  BY <1>1, HitsFinite
<1>3. outbox' = outbox \/ outbox' = outbox \o s
  BY DEF Put
<1>4. Hits(outbox \o s, P) = Hits(outbox, P) + Hits(s, P)
  BY <1>1, HitsConcat
<1>5. CASE outbox' = outbox
  BY <1>2, <1>5
<1>6. CASE outbox' = outbox \o s
  BY <1>2, <1>4, <1>6
<1> QED
  BY <1>3, <1>5, <1>6

\* No more creations and kicks are on their way to the server than before.
NoMoreOut ==
    /\ Hits(outbox', Creates) \in Nat /\ Hits(outbox', Creates) <= Hits(outbox, Creates)
    /\ Hits(outbox', Kicks) \in Nat /\ Hits(outbox', Kicks) <= Hits(outbox, Kicks)

\* No more answers to them are on their way back.
NoMoreIn ==
    /\ Hits(inbox', Created) \in Nat /\ Hits(inbox', Created) <= Hits(inbox, Created)
    /\ Hits(inbox', Rotates) \in Nat /\ Hits(inbox', Rotates) <= Hits(inbox, Rotates)

\* Other packets sent.
LEMMA QuietPut ==
    ASSUME Queues, up \in BOOLEAN, NEW T, NEW s \in Seq(T), Put(s),
           \A i \in DOMAIN s : s[i].kind \notin {"create", "kick"}
    PROVE  NoMoreOut
<1>1. \A i \in DOMAIN s : s[i] \notin Creates /\ s[i] \notin Kicks
  BY DEF Creates, Kicks
<1>2. Hits(s, Creates) = 0 /\ Hits(s, Kicks) = 0
  BY <1>1, HitsNone
<1>3. /\ Hits(outbox', Creates) \in Nat
      /\ Hits(outbox', Creates) <= Hits(outbox, Creates) + Hits(s, Creates)
  BY PutHits
<1>4. /\ Hits(outbox', Kicks) \in Nat
      /\ Hits(outbox', Kicks) <= Hits(outbox, Kicks) + Hits(s, Kicks)
  BY PutHits
<1> QED
  BY <1>2, <1>3, <1>4, HitsNat DEF NoMoreOut

\* One other packet sent.
LEMMA QuietPacket ==
    ASSUME Queues, up \in BOOLEAN, NEW p, Put(<<p>>), p.kind \notin {"create", "kick"}
    PROVE  NoMoreOut
<1>1. <<p>> \in Seq({p}) /\ \A i \in DOMAIN <<p>> : <<p>>[i].kind \notin {"create", "kick"}
  OBVIOUS
<1> QED
  BY <1>1, QuietPut

\* Nothing sent.
LEMMA QuietOutbox == ASSUME Queues, UNCHANGED outbox PROVE NoMoreOut
BY HitsNat DEF NoMoreOut

\* Nothing answered.
LEMMA QuietInbox == ASSUME Queues, UNCHANGED inbox PROVE NoMoreIn
BY HitsNat DEF NoMoreIn

\* A reply of another kind.
LEMMA QuietReply ==
    ASSUME Queues, NEW p, inbox' = Append(inbox, p),
           p.kind = "info" => p.created = FALSE, p.kind # "rotate"
    PROVE  NoMoreIn
<1> DEFINE S == InPackets \cup {p}
<1>1. inbox \in Seq(S) /\ p \in S
  BY DEF Queues, InboxOK
<1>2. p \notin Created /\ p \notin Rotates
  BY DEF Created, Rotates
<1> HIDE DEF S
<1>3. Hits(inbox', Created) = Hits(inbox, Created) /\ Hits(inbox', Rotates) = Hits(inbox, Rotates)
  <2>1. \A P : p \notin P => Hits(Append(inbox, p), P) = Hits(inbox, P) + 0
    BY <1>1, HitsAppend
  <2> QED
    BY <1>2, <2>1, HitsNat
<1> QED
  BY <1>3, HitsNat DEF NoMoreIn

\* Taking a packet from the front.
LEMMA ServedHits ==
    ASSUME Queues, outbox # <<>>, outbox' = Tail(outbox), NEW P
    PROVE  /\ Hits(outbox', P) \in Nat /\ Hits(outbox, P) \in Nat
           /\ Hits(outbox', P) = Hits(outbox, P) - (IF Head(outbox) \in P THEN 1 ELSE 0)
<1>1. outbox \in Seq(OutPackets) /\ outbox' \in Seq(OutPackets)
  BY HeadOut DEF Queues, OutboxOK
<1> QED
  BY <1>1, HitsFinite, HitsTail

\* The same on the way back.
LEMMA ReadHits ==
    ASSUME Queues, inbox # <<>>, inbox' = Tail(inbox), NEW P
    PROVE  /\ Hits(inbox', P) \in Nat /\ Hits(inbox, P) \in Nat
           /\ Hits(inbox', P) = Hits(inbox, P) - (IF Head(inbox) \in P THEN 1 ELSE 0)
<1>1. inbox \in Seq(InPackets) /\ inbox' \in Seq(InPackets)
  BY HeadIn DEF Queues, InboxOK
<1> QED
  BY <1>1, HitsFinite, HitsTail

\* A packet served.
LEMMA QuietServe == ASSUME Queues, Serve PROVE NoMoreOut
BY ServedHits DEF Serve, NoMoreOut

\* A packet read.
LEMMA QuietRead == ASSUME Queues, Read PROVE NoMoreIn
BY ReadHits DEF Read, NoMoreIn

\* What adds nothing keeps the counts.
LEMMA QuietCounts ==
    ASSUME TypeOK, Queues, Shapes, Counts, NoMoreOut, NoMoreIn,
           UNCHANGED <<groups, begun, acked, keys, creations>>, ops' \in {ops, ops + 1}
    PROVE  Counts'
<1>1. /\ groups \in Nat /\ begun \in Nat /\ acked \in Nat /\ keys \in Nat /\ ops \in Nat
      /\ Len(creations) \in Nat
  BY GroupClientConstants DEF TypeOK, Groups, MaxKeys, Shapes, BufferShapes, CountShapes
<1>2. groups + Hits(outbox', Creates) + Len(creations) <= begun + 1
  <2>1. groups \in Nat /\ begun \in Nat /\ Len(creations) \in Nat /\ Hits(outbox, Creates) \in Nat
    BY <1>1, HitsNat
  <2> QED
    BY <2>1 DEF Counts, NoMoreOut
<1>3. acked + Hits(inbox', Created) + 1 <= groups
  <2>1. groups \in Nat /\ acked \in Nat /\ Hits(inbox, Created) \in Nat
    BY <1>1, HitsNat
  <2> QED
    BY <2>1 DEF Counts, NoMoreIn
<1>4. keys + Hits(outbox', Kicks) + Hits(inbox', Rotates) <= ops' + 1
  <2>1. keys \in Nat /\ ops \in Nat /\ Hits(outbox, Kicks) \in Nat /\ Hits(inbox, Rotates) \in Nat
    BY <1>1, HitsNat
  <2> QED
    BY <2>1 DEF Counts, NoMoreOut, NoMoreIn
<1> QED
  BY <1>2, <1>3, <1>4 DEF Counts

\* What waited for the peer's key holds one creation per waiting group.
LEMMA ReleasedHits ==
    ASSUME TypeOK, Shapes
    PROVE  /\ Hits(Released, Kicks) = 0 /\ Hits(Released, Creates) \in Nat
           /\ Hits(Released, Creates) <= Len(creations)
<1> DEFINE T == [i \in DOMAIN texts |-> Text(texts[i])]
           A == FlattenSeq([i \in DOMAIN adds |-> Give(adds[i])])
           C == [i \in DOMAIN creations |-> CreatePacket(creations[i])]
<1>1. T \in Seq(OutPackets) /\ A \in Seq(Gives) /\ C \in Seq(OutPackets)
  BY ReleasedParts
<1>2. A \in Seq(OutPackets)
  BY <1>1, GiveType
<1>3. \A i \in DOMAIN T : T[i].kind = "text"
  BY DEF Text
<1>4. \A i \in DOMAIN C : C[i].kind = "create"
  BY DEF CreatePacket
<1>5. \A i \in DOMAIN A : A[i] \in Gives
  <2> HIDE DEF A
  <2> QED
    BY <1>1
<1>6. Len(C) = Len(creations)
  BY DEF Shapes, BufferShapes
<1>7. Released = (T \o A) \o C
  BY DEF Released
<1> HIDE DEF T, A, C
<1>8. Hits(T, Creates) = 0 /\ Hits(T, Kicks) = 0
  <2>1. \A i \in DOMAIN T : T[i] \notin Creates /\ T[i] \notin Kicks
    BY <1>3 DEF Creates, Kicks
  <2> QED
    BY <2>1, HitsNone
<1>9. Hits(A, Creates) = 0 /\ Hits(A, Kicks) = 0
  <2>1. \A i \in DOMAIN A : A[i] \notin Creates /\ A[i] \notin Kicks
    BY <1>5 DEF Creates, Kicks, Gives
  <2> QED
    BY <2>1, HitsNone
<1>10. Hits(C, Kicks) = 0
  <2>1. \A i \in DOMAIN C : C[i] \notin Kicks
    BY <1>4 DEF Kicks
  <2> QED
    BY <2>1, HitsNone
<1>11. Hits(C, Creates) \in Nat /\ Hits(C, Creates) <= Len(creations)
  BY <1>1, <1>6, HitsFinite, HitsAtMost
<1>12. T \o A \in Seq(OutPackets)
  BY <1>1, <1>2
<1>13. \A P : Hits(Released, P) = (Hits(T, P) + Hits(A, P)) + Hits(C, P)
  <2> SUFFICES ASSUME NEW P
               PROVE  Hits(Released, P) = (Hits(T, P) + Hits(A, P)) + Hits(C, P)
    OBVIOUS
  <2>1. Hits(T \o A, P) = Hits(T, P) + Hits(A, P)
    BY <1>1, <1>2, HitsConcat
  <2>2. Hits((T \o A) \o C, P) = Hits(T \o A, P) + Hits(C, P)
    BY <1>1, <1>12, HitsConcat
  <2> QED
    BY <1>7, <2>1, <2>2
<1>14. Hits(Released, Kicks) = (0 + 0) + 0 /\ Hits(Released, Creates) = (0 + 0) + Hits(C, Creates)
  BY <1>8, <1>9, <1>10, <1>13
<1> QED
  BY <1>11, <1>14

\* The counts stay.
LEMMA CountsStep ==
    TypeOK /\ Queues /\ Shapes /\ Session /\ Counts /\ [Next]_vars => Counts'
<1> SUFFICES ASSUME TypeOK, Queues, Shapes, Session, Counts, [Next]_vars
             PROVE  Counts'
    OBVIOUS
<1> USE GroupClientConstants
<1>1. outbox # <<>> => OutFields(Head(outbox)) /\ Tail(outbox) \in Seq(OutPackets)
  BY HeadOut
<1>2. inbox # <<>> => InFields(Head(inbox)) /\ Tail(inbox) \in Seq(InPackets)
  BY HeadIn
<1>3. ASSUME NEW u \in Users, SendLogin(u) PROVE Counts'
  <2>1. NoMoreOut
    <3> DEFINE p == [kind |-> "login", user |-> u]
               S == OutPackets \cup {p}
    <3>1. outbox \in Seq(S) /\ p \in S
      BY DEF Queues, OutboxOK
    <3>2. p \notin Creates /\ p \notin Kicks
      BY DEF Creates, Kicks
    <3>3. outbox' = Append(outbox, p)
      BY <1>3 DEF SendLogin
    <3> HIDE DEF S, p
    <3>4. \A P : p \notin P => Hits(Append(outbox, p), P) = Hits(outbox, P) + 0
      BY <3>1, HitsAppend
    <3>5. Hits(outbox', Creates) = Hits(outbox, Creates) + 0
          /\ Hits(outbox', Kicks) = Hits(outbox, Kicks) + 0
      BY <3>2, <3>3, <3>4
    <3> QED
      BY <3>5, HitsNat DEF NoMoreOut
  <2>2. NoMoreIn
    BY <1>3, QuietInbox DEF SendLogin
  <2>3. UNCHANGED <<groups, begun, acked, keys, creations>> /\ ops' \in {ops, ops + 1}
    BY <1>3 DEF SendLogin, server, buffers, keyring, ghosts
  <2> QED
    BY <2>1, <2>2, <2>3, QuietCounts
<1>4. ASSUME NEW u \in Users, PeerKicks(u) PROVE Counts'
  <2>1. NoMoreOut
    BY <1>4, QuietOutbox DEF PeerKicks
  <2>2. NoMoreIn
    <3>1. UNCHANGED inbox \/ inbox' = Append(inbox, [kind |-> "left", group |-> 1])
      BY <1>4 DEF PeerKicks
    <3> QED
      BY <3>1, QuietInbox, QuietReply
  <2>3. UNCHANGED <<groups, begun, acked, keys, creations>> /\ ops' \in {ops, ops + 1}
    BY <1>4 DEF PeerKicks, Happens, server, buffers, keyring, ghosts
  <2> QED
    BY <2>1, <2>2, <2>3, QuietCounts
<1>5. ASSUME CreateGroup PROVE Counts'
  <2>0. /\ groups \in Nat /\ begun \in Nat /\ acked \in Nat /\ keys \in Nat /\ ops \in Nat
        /\ Len(creations) \in Nat /\ up \in BOOLEAN /\ creations \in Seq(Keys)
    BY DEF TypeOK, Groups, MaxKeys, Shapes, ClientShapes, BufferShapes, CountShapes
  <2>a. /\ groups \in Nat /\ begun \in Nat /\ Len(creations) \in Nat
        /\ Hits(outbox, Creates) \in Nat
        /\ groups + Hits(outbox, Creates) + Len(creations) <= begun + 1
    BY <2>0, HitsNat DEF Counts
  <2>b. /\ groups \in Nat /\ acked \in Nat /\ Hits(inbox, Created) \in Nat
        /\ acked + Hits(inbox, Created) + 1 <= groups
    BY <2>0, HitsNat DEF Counts
  <2>c. /\ keys \in Nat /\ ops \in Nat /\ Hits(outbox, Kicks) \in Nat
        /\ Hits(inbox, Rotates) \in Nat
        /\ keys + Hits(outbox, Kicks) + Hits(inbox, Rotates) <= ops + 1
    BY <2>0, HitsNat DEF Counts
  <2>1. /\ begun' = begun + 1 /\ begun + 1 < MaxGroups /\ keys' = keys + 1 /\ ops' = ops + 1
        /\ UNCHANGED <<groups, acked, inbox>>
    BY <1>5 DEF CreateGroup, Happens, server
  <2>2. NoMoreIn
    BY <1>5, QuietInbox DEF CreateGroup
  <2>3. \/ Put(<<CreatePacket(keys + 1)>>) /\ UNCHANGED creations
        \/ Put(<<[kind |-> "fetch"]>>) /\ creations' = Append(creations, keys + 1)
    BY <1>5 DEF CreateGroup
  <2>4. CASE Put(<<CreatePacket(keys + 1)>>) /\ UNCHANGED creations
    <3> DEFINE s == <<CreatePacket(keys + 1)>>
    <3>1. s \in Seq({CreatePacket(keys + 1)}) /\ Len(s) = 1
      OBVIOUS
    <3>2. \A i \in DOMAIN s : s[i] \notin Kicks
      BY DEF Kicks, CreatePacket
    <3> HIDE DEF s
    <3>3. Hits(s, Kicks) = 0
      BY <3>2, HitsNone
    <3>4. Hits(s, Creates) \in Nat /\ Hits(s, Creates) <= 1
      BY <3>1, HitsFinite, HitsAtMost
    <3>5. Put(s)
      BY <2>4 DEF s
    <3>6. /\ Hits(outbox', Creates) \in Nat
          /\ Hits(outbox', Creates) <= Hits(outbox, Creates) + Hits(s, Creates)
      BY <2>0, <3>1, <3>5, PutHits
    <3>7. /\ Hits(outbox', Kicks) \in Nat
          /\ Hits(outbox', Kicks) <= Hits(outbox, Kicks) + Hits(s, Kicks)
      BY <2>0, <3>1, <3>5, PutHits
    <3>x. (groups + Hits(outbox, Creates) + Len(creations) <= begun + 1)'
      BY <2>a, <2>1, <2>4, <3>4, <3>6
    <3>y. (acked + Hits(inbox, Created) + 1 <= groups)'
      BY <2>b, <2>1, <2>2 DEF NoMoreIn
    <3>z. (keys + Hits(outbox, Kicks) + Hits(inbox, Rotates) <= ops + 1)'
      BY <2>c, <2>1, <2>2, <3>3, <3>7 DEF NoMoreIn
    <3> QED
      BY <3>x, <3>y, <3>z, <2>0, <2>1 DEF Counts
  <2>5. CASE Put(<<[kind |-> "fetch"]>>) /\ creations' = Append(creations, keys + 1)
    <3>1. NoMoreOut
      BY <2>0, <2>5, QuietPacket
    <3>2. Len(creations') = Len(creations) + 1
      BY <2>0, <2>5
    <3>x. (groups + Hits(outbox, Creates) + Len(creations) <= begun + 1)'
      BY <2>a, <2>1, <3>1, <3>2 DEF NoMoreOut
    <3>y. (acked + Hits(inbox, Created) + 1 <= groups)'
      BY <2>b, <2>1, <2>2 DEF NoMoreIn
    <3>z. (keys + Hits(outbox, Kicks) + Hits(inbox, Rotates) <= ops + 1)'
      BY <2>c, <2>1, <2>2, <3>1 DEF NoMoreIn, NoMoreOut
    <3> QED
      BY <3>x, <3>y, <3>z, <2>0, <2>1 DEF Counts
  <2> QED
    BY <2>3, <2>4, <2>5
<1>6. ASSUME SendMessage PROVE Counts'
  <2>1. NoMoreOut
    <3>1. Put(<<Text(me)>>) \/ Put(<<[kind |-> "fetch"]>>)
      BY <1>6 DEF SendMessage
    <3> QED
      BY <3>1, QuietPacket DEF Text, Shapes, ClientShapes
  <2>2. NoMoreIn
    BY <1>6, QuietInbox DEF SendMessage
  <2>3. UNCHANGED <<groups, begun, acked, keys, creations>> /\ ops' \in {ops, ops + 1}
    BY <1>6 DEF SendMessage, Happens, server, buffers, keyring, ghosts
  <2> QED
    BY <2>1, <2>2, <2>3, QuietCounts
<1>7. ASSUME Logout PROVE Counts'
  <2>1. NoMoreOut
    BY <1>7, QuietOutbox DEF Logout
  <2>2. NoMoreIn
    BY <1>7, QuietInbox DEF Logout
  <2>3. UNCHANGED <<groups, begun, acked, keys, creations>> /\ ops' \in {ops, ops + 1}
    BY <1>7 DEF Logout, Happens, server, buffers, keyring, ghosts
  <2> QED
    BY <2>1, <2>2, <2>3, QuietCounts
<1>8. ASSUME Disconnect PROVE Counts'
  <2>1. NoMoreOut
    <3>1. Hits(outbox', Creates) = 0 /\ Hits(outbox', Kicks) = 0
      BY <1>8, HitsNone DEF Disconnect
    <3> QED
      BY <3>1, HitsNat DEF NoMoreOut
  <2>2. NoMoreIn
    <3>1. Hits(inbox', Created) = 0 /\ Hits(inbox', Rotates) = 0
      BY <1>8, HitsNone DEF Disconnect
    <3> QED
      BY <3>1, HitsNat DEF NoMoreIn
  <2>3. UNCHANGED <<groups, begun, acked, keys, creations>> /\ ops' \in {ops, ops + 1}
    BY <1>8 DEF Disconnect, Happens, server, buffers, keyring, ghosts
  <2> QED
    BY <2>1, <2>2, <2>3, QuietCounts
<1>9. ASSUME PeerGives PROVE Counts'
  <2>1. NoMoreOut
    BY <1>9, QuietOutbox DEF PeerGives
  <2>2. NoMoreIn
    <3>1. \E k \in {"invite", "rekey"} :
            inbox' = Append(inbox, [kind |-> k, group |-> 1, key |-> real[1], user |-> sess])
      BY <1>9 DEF PeerGives
    <3> QED
      BY <3>1, QuietReply
  <2>3. UNCHANGED <<groups, begun, acked, keys, creations>> /\ ops' \in {ops, ops + 1}
    BY <1>9 DEF PeerGives, Happens, server, buffers, keyring, ghosts
  <2> QED
    BY <2>1, <2>2, <2>3, QuietCounts
<1>10. ASSUME NEW g \in Groups, SendGroupMessage(g) PROVE Counts'
  <2>1. NoMoreOut
    <3>1. up \in BOOLEAN /\ <<>> \in Seq({})
      BY DEF Shapes, ClientShapes
    <3>2. Put(<<Message(g, mem[g], me)>>) \/ Put(<<[kind |-> "recover", group |-> g]>>)
          \/ Put(<<>>)
      BY <1>10 DEF SendGroupMessage, RequestKey
    <3>3. ASSUME Put(<<>>) PROVE NoMoreOut
      <4>1. \A i \in DOMAIN <<>> : <<>>[i].kind \notin {"create", "kick"}
        OBVIOUS
      <4> QED
        BY <3>1, <3>3, <4>1, QuietPut
    <3> QED
      BY <3>1, <3>2, <3>3, QuietPacket DEF Message
  <2>2. NoMoreIn
    BY <1>10, QuietInbox DEF SendGroupMessage
  <2>3. UNCHANGED <<groups, begun, acked, keys, creations>> /\ ops' \in {ops, ops + 1}
    BY <1>10 DEF SendGroupMessage, Happens, server, buffers, keyring, ghosts
  <2> QED
    BY <2>1, <2>2, <2>3, QuietCounts
<1>11. ASSUME NEW g \in Groups, AddGroupMember(g) PROVE Counts'
  <2>1. NoMoreOut
    <3>1. Put(Give(g)) \/ Put(<<[kind |-> "fetch"]>>)
      BY <1>11 DEF AddGroupMember
    <3>2. /\ Give(g) \in Seq(Gives)
          /\ \A i \in DOMAIN Give(g) : Give(g)[i].kind \notin {"create", "kick"}
      <4>1. Give(g) \in Seq(Gives)
        BY GivePackets
      <4>2. \A p \in Gives : p.kind \notin {"create", "kick"}
        BY DEF Gives
      <4> QED
        BY <4>1, <4>2
    <3>3. ASSUME Put(Give(g)) PROVE NoMoreOut
      BY <3>2, <3>3, QuietPut DEF Shapes, ClientShapes
    <3> QED
      BY <3>1, <3>3, QuietPacket DEF Shapes, ClientShapes
  <2>2. NoMoreIn
    BY <1>11, QuietInbox DEF AddGroupMember
  <2>3. UNCHANGED <<groups, begun, acked, keys, creations>> /\ ops' \in {ops, ops + 1}
    BY <1>11 DEF AddGroupMember, Happens, server, buffers, keyring, ghosts
  <2> QED
    BY <2>1, <2>2, <2>3, QuietCounts
<1>12. ASSUME NEW g \in Groups, KickMember(g) PROVE Counts'
  <2>0. /\ groups \in Nat /\ begun \in Nat /\ acked \in Nat /\ keys \in Nat /\ ops \in Nat
        /\ Len(creations) \in Nat /\ up \in BOOLEAN /\ creations \in Seq(Keys)
    BY DEF TypeOK, Groups, MaxKeys, Shapes, ClientShapes, BufferShapes, CountShapes
  <2>a. /\ groups \in Nat /\ begun \in Nat /\ Len(creations) \in Nat
        /\ Hits(outbox, Creates) \in Nat
        /\ groups + Hits(outbox, Creates) + Len(creations) <= begun + 1
    BY <2>0, HitsNat DEF Counts
  <2>b. /\ groups \in Nat /\ acked \in Nat /\ Hits(inbox, Created) \in Nat
        /\ acked + Hits(inbox, Created) + 1 <= groups
    BY <2>0, HitsNat DEF Counts
  <2>c. /\ keys \in Nat /\ ops \in Nat /\ Hits(outbox, Kicks) \in Nat
        /\ Hits(inbox, Rotates) \in Nat
        /\ keys + Hits(outbox, Kicks) + Hits(inbox, Rotates) <= ops + 1
    BY <2>0, HitsNat DEF Counts
  <2> DEFINE p == [kind |-> "kick", group |-> g]
             s == <<p>>
  <2>1. ops' = ops + 1 /\ UNCHANGED <<groups, begun, acked, keys, creations, inbox>> /\ Put(s)
    BY <1>12 DEF KickMember, Happens, server, buffers, keyring, ghosts
  <2>2. NoMoreIn
    BY <1>12, QuietInbox DEF KickMember
  <2>3. s \in Seq({p}) /\ Len(s) = 1
    OBVIOUS
  <2>4. \A i \in DOMAIN s : s[i] \notin Creates
    BY DEF Creates
  <2> HIDE DEF s, p
  <2>5. Hits(s, Creates) = 0
    BY <2>4, HitsNone
  <2>6. Hits(s, Kicks) \in Nat /\ Hits(s, Kicks) <= 1
    BY <2>3, HitsFinite, HitsAtMost
  <2>7. Hits(outbox', Creates) \in Nat
        /\ Hits(outbox', Creates) <= Hits(outbox, Creates) + Hits(s, Creates)
    BY <2>0, <2>1, <2>3, PutHits
  <2>8. Hits(outbox', Kicks) \in Nat
        /\ Hits(outbox', Kicks) <= Hits(outbox, Kicks) + Hits(s, Kicks)
    BY <2>0, <2>1, <2>3, PutHits
  <2>x. (groups + Hits(outbox, Creates) + Len(creations) <= begun + 1)'
    BY <2>a, <2>1, <2>5, <2>7
  <2>y. (acked + Hits(inbox, Created) + 1 <= groups)'
    BY <2>b, <2>1, <2>2 DEF NoMoreIn
  <2>z. (keys + Hits(outbox, Kicks) + Hits(inbox, Rotates) <= ops + 1)'
    BY <2>c, <2>1, <2>2, <2>6, <2>8 DEF NoMoreIn
  <2> QED
    BY <2>x, <2>y, <2>z, <2>1 DEF Counts
<1>13. ASSUME NEW g \in Groups, PeerWrites(g) PROVE Counts'
  <2>1. NoMoreOut
    BY <1>13, QuietOutbox DEF PeerWrites
  <2>2. NoMoreIn
    BY <1>13, QuietReply DEF PeerWrites
  <2>3. UNCHANGED <<groups, begun, acked, keys, creations>> /\ ops' \in {ops, ops + 1}
    BY <1>13 DEF PeerWrites, Happens, server, buffers, keyring, ghosts
  <2> QED
    BY <2>1, <2>2, <2>3, QuietCounts
<1>14. ASSUME NEW g \in Groups, RoleChanges(g) PROVE Counts'
  <2>1. NoMoreOut
    BY <1>14, QuietOutbox DEF RoleChanges
  <2>2. NoMoreIn
    BY <1>14, QuietReply DEF RoleChanges
  <2>3. UNCHANGED <<groups, begun, acked, keys, creations>> /\ ops' \in {ops, ops + 1}
    BY <1>14 DEF RoleChanges, Happens, server, buffers, keyring, ghosts
  <2> QED
    BY <2>1, <2>2, <2>3, QuietCounts
<1>15. ASSUME ServerLogin(Head(outbox)), Serve PROVE Counts'
  <2>1. NoMoreOut
    BY <1>15, QuietServe
  <2>2. NoMoreIn
    BY <1>15, QuietReply DEF ServerLogin, Reply
  <2>3. UNCHANGED <<groups, begun, acked, keys, creations>> /\ ops' \in {ops, ops + 1}
    BY <1>15 DEF ServerLogin, Serve, server, buffers, keyring, ghosts
  <2> QED
    BY <2>1, <2>2, <2>3, QuietCounts
<1>16. ASSUME ServerFetch(Head(outbox)), Serve PROVE Counts'
  <2>1. NoMoreOut
    BY <1>16, QuietServe
  <2>2. NoMoreIn
    BY <1>16, QuietReply DEF ServerFetch, Reply
  <2>3. UNCHANGED <<groups, begun, acked, keys, creations>> /\ ops' \in {ops, ops + 1}
    BY <1>16 DEF ServerFetch, Serve, server, buffers, keyring, ghosts
  <2> QED
    BY <2>1, <2>2, <2>3, QuietCounts
<1>17. ASSUME ServerCreate(Head(outbox)), Serve PROVE Counts'
  <2>0. /\ groups \in Nat /\ begun \in Nat /\ acked \in Nat /\ keys \in Nat /\ ops \in Nat
        /\ Len(creations) \in Nat /\ up \in BOOLEAN /\ creations \in Seq(Keys)
    BY DEF TypeOK, Groups, MaxKeys, Shapes, ClientShapes, BufferShapes, CountShapes
  <2>a. /\ groups \in Nat /\ begun \in Nat /\ Len(creations) \in Nat
        /\ Hits(outbox, Creates) \in Nat
        /\ groups + Hits(outbox, Creates) + Len(creations) <= begun + 1
    BY <2>0, HitsNat DEF Counts
  <2>b. /\ groups \in Nat /\ acked \in Nat /\ Hits(inbox, Created) \in Nat
        /\ acked + Hits(inbox, Created) + 1 <= groups
    BY <2>0, HitsNat DEF Counts
  <2>c. /\ keys \in Nat /\ ops \in Nat /\ Hits(outbox, Kicks) \in Nat
        /\ Hits(inbox, Rotates) \in Nat
        /\ keys + Hits(outbox, Kicks) + Hits(inbox, Rotates) <= ops + 1
    BY <2>0, HitsNat DEF Counts
  <2> DEFINE r == [kind |-> "info", group |-> groups + 1, created |-> TRUE]
             S == InPackets \cup {r}
  <2>1. /\ groups' = groups + 1 /\ inbox' = Append(inbox, r) /\ outbox' = Tail(outbox)
        /\ UNCHANGED <<begun, acked, keys, ops, creations>> /\ outbox # <<>>
    BY <1>17 DEF ServerCreate, Reply, Serve, keyring, buffers
  <2>2. Head(outbox) \in Creates
    BY <1>17, <1>1 DEF ServerCreate, Serve, OutFields
  <2>3. Hits(outbox', Creates) = Hits(outbox, Creates) - 1 /\ Hits(outbox', Creates) \in Nat
    BY <2>1, <2>2, ServedHits
  <2>4. NoMoreOut
    BY <1>17, QuietServe
  <2>5. inbox \in Seq(S) /\ r \in S
    BY DEF Queues, InboxOK
  <2>6. r \notin Rotates
    BY DEF Rotates
  <2> HIDE DEF r, S
  <2>7. \A P : Hits(Append(inbox, r), P) = Hits(inbox, P) + (IF r \in P THEN 1 ELSE 0)
    BY <2>5, HitsAppend
  <2>8. Hits(inbox', Rotates) = Hits(inbox, Rotates)
        /\ Hits(inbox', Created) \in Nat /\ Hits(inbox', Created) <= Hits(inbox, Created) + 1
    <3>1. \A P : Hits(inbox', P) = Hits(inbox, P) + (IF r \in P THEN 1 ELSE 0)
      BY <2>1, <2>7
    <3>2. Hits(inbox', Rotates) = Hits(inbox, Rotates) + 0
      BY <2>6, <3>1
    <3>3. Hits(inbox', Created) = Hits(inbox, Created) + 1
          \/ Hits(inbox', Created) = Hits(inbox, Created) + 0
      BY <3>1
    <3> QED
      BY <3>2, <3>3, HitsNat
  <2>x. (groups + Hits(outbox, Creates) + Len(creations) <= begun + 1)'
    BY <2>a, <2>1, <2>3
  <2>y. (acked + Hits(inbox, Created) + 1 <= groups)'
    BY <2>b, <2>1, <2>8
  <2>z. (keys + Hits(outbox, Kicks) + Hits(inbox, Rotates) <= ops + 1)'
    BY <2>c, <2>1, <2>4, <2>8, SMTT(30) DEF NoMoreOut
  <2> QED
    BY <2>x, <2>y, <2>z, <2>1 DEF Counts
<1>18. ASSUME ServerRecover(Head(outbox)), Serve PROVE Counts'
  <2>1. NoMoreOut
    BY <1>18, QuietServe
  <2>2. NoMoreIn
    <3> DEFINE r == [kind |-> "invite", group |-> Head(outbox).group,
                     key |-> wrapped[Head(outbox).group][sess], user |-> sess]
    <3>1. inbox' = Append(inbox, Err) \/ inbox' = Append(inbox, r)
      BY <1>18 DEF ServerRecover, Reply
    <3> QED
      BY <3>1, QuietReply DEF Err
  <2>3. UNCHANGED <<groups, begun, acked, keys, creations>> /\ ops' \in {ops, ops + 1}
    BY <1>18 DEF ServerRecover, Serve, server, buffers, keyring, ghosts
  <2> QED
    BY <2>1, <2>2, <2>3, QuietCounts
<1>19. ASSUME ServerMessage(Head(outbox)), Serve PROVE Counts'
  <2>1. NoMoreOut
    BY <1>19, QuietServe
  <2>2. NoMoreIn
    BY <1>19, QuietInbox, QuietReply DEF ServerMessage, Reply, Err
  <2>3. UNCHANGED <<groups, begun, acked, keys, creations>> /\ ops' \in {ops, ops + 1}
    BY <1>19 DEF ServerMessage, Serve, server, buffers, keyring, ghosts
  <2> QED
    BY <2>1, <2>2, <2>3, QuietCounts
<1>20. ASSUME ServerText(Head(outbox)), Serve PROVE Counts'
  <2>1. NoMoreOut
    BY <1>20, QuietServe
  <2>2. NoMoreIn
    BY <1>20, QuietInbox DEF ServerText
  <2>3. UNCHANGED <<groups, begun, acked, keys, creations>> /\ ops' \in {ops, ops + 1}
    BY <1>20 DEF ServerText, Serve, server, buffers, keyring, ghosts
  <2> QED
    BY <2>1, <2>2, <2>3, QuietCounts
<1>21. ASSUME ServerGive(Head(outbox)), Serve PROVE Counts'
  <2>1. NoMoreOut
    BY <1>21, QuietServe
  <2>2. NoMoreIn
    BY <1>21, QuietInbox, QuietReply DEF ServerGive, Reply, Err
  <2>3. UNCHANGED <<groups, begun, acked, keys, creations>> /\ ops' \in {ops, ops + 1}
    BY <1>21 DEF ServerGive, Serve, server, buffers, keyring, ghosts
  <2> QED
    BY <2>1, <2>2, <2>3, QuietCounts
<1>22. ASSUME ServerKick(Head(outbox)), Serve PROVE Counts'
  <2>0. /\ groups \in Nat /\ begun \in Nat /\ acked \in Nat /\ keys \in Nat /\ ops \in Nat
        /\ Len(creations) \in Nat /\ up \in BOOLEAN /\ creations \in Seq(Keys)
    BY DEF TypeOK, Groups, MaxKeys, Shapes, ClientShapes, BufferShapes, CountShapes
  <2>a. /\ groups \in Nat /\ begun \in Nat /\ Len(creations) \in Nat
        /\ Hits(outbox, Creates) \in Nat
        /\ groups + Hits(outbox, Creates) + Len(creations) <= begun + 1
    BY <2>0, HitsNat DEF Counts
  <2>b. /\ groups \in Nat /\ acked \in Nat /\ Hits(inbox, Created) \in Nat
        /\ acked + Hits(inbox, Created) + 1 <= groups
    BY <2>0, HitsNat DEF Counts
  <2>c. /\ keys \in Nat /\ ops \in Nat /\ Hits(outbox, Kicks) \in Nat
        /\ Hits(inbox, Rotates) \in Nat
        /\ keys + Hits(outbox, Kicks) + Hits(inbox, Rotates) <= ops + 1
    BY <2>0, HitsNat DEF Counts
  <2> DEFINE r == [kind |-> "rotate", group |-> Head(outbox).group]
             S == InPackets \cup {r}
  <2>1. /\ outbox' = Tail(outbox) /\ UNCHANGED <<groups, begun, acked, keys, ops, creations>>
        /\ outbox # <<>>
    BY <1>22 DEF ServerKick, Serve, server, keyring, buffers
  <2>2. Head(outbox) \in Kicks
    BY <1>22, <1>1 DEF ServerKick, Serve, OutFields
  <2>3. Hits(outbox', Kicks) = Hits(outbox, Kicks) - 1 /\ Hits(outbox', Kicks) \in Nat
    BY <2>1, <2>2, ServedHits
  <2>4. NoMoreOut
    BY <1>22, QuietServe
  <2>5. inbox' = Append(inbox, Err) \/ inbox' = Append(inbox, r)
    BY <1>22 DEF ServerKick, Reply
  <2>6. CASE inbox' = Append(inbox, Err)
    <3>1. NoMoreIn
      BY <2>6, QuietReply DEF Err
    <3> QED
      BY <2>1, <2>4, <3>1, QuietCounts
  <2>7. CASE inbox' = Append(inbox, r)
    <3>1. inbox \in Seq(S) /\ r \in S
      BY DEF Queues, InboxOK
    <3>2. r \notin Created
      BY DEF Created
    <3> HIDE DEF r, S
    <3>3. \A P : Hits(inbox', P) = Hits(inbox, P) + (IF r \in P THEN 1 ELSE 0)
      BY <2>7, <3>1, HitsAppend
    <3>4. Hits(inbox', Created) = Hits(inbox, Created) + 0
      BY <3>2, <3>3
    <3>5. Hits(inbox', Rotates) = Hits(inbox, Rotates) + 1
          \/ Hits(inbox', Rotates) = Hits(inbox, Rotates) + 0
      BY <3>3
    <3>x. (groups + Hits(outbox, Creates) + Len(creations) <= begun + 1)'
      BY <2>a, <2>1, <2>4 DEF NoMoreOut
    <3>y. (acked + Hits(inbox, Created) + 1 <= groups)'
      BY <2>b, <2>1, <3>4
    <3>z. (keys + Hits(outbox, Kicks) + Hits(inbox, Rotates) <= ops + 1)'
      BY <2>c, <2>1, <2>3, <3>5
    <3> QED
      BY <3>x, <3>y, <3>z, <2>1 DEF Counts
  <2> QED
    BY <2>5, <2>6, <2>7
<1>23. ASSUME ServerInfo(Head(outbox)), Serve PROVE Counts'
  <2>1. NoMoreOut
    BY <1>23, QuietServe
  <2>2. NoMoreIn
    BY <1>23, QuietReply DEF ServerInfo, Reply
  <2>3. UNCHANGED <<groups, begun, acked, keys, creations>> /\ ops' \in {ops, ops + 1}
    BY <1>23 DEF ServerInfo, Serve, server, buffers, keyring, ghosts
  <2> QED
    BY <2>1, <2>2, <2>3, QuietCounts
<1>24. ASSUME LoginAcked(Head(inbox)), Read PROVE Counts'
  <2>1. NoMoreOut
    BY <1>24, QuietOutbox DEF LoginAcked
  <2>2. NoMoreIn
    BY <1>24, QuietRead
  <2>3. UNCHANGED <<groups, begun, acked, keys, creations>> /\ ops' \in {ops, ops + 1}
    BY <1>24 DEF LoginAcked, Read, server, buffers, keyring, ghosts
  <2> QED
    BY <2>1, <2>2, <2>3, QuietCounts
<1>25. ASSUME PeerKeyArrives(Head(inbox)), Read PROVE Counts'
  <2>0. /\ groups \in Nat /\ begun \in Nat /\ acked \in Nat /\ keys \in Nat /\ ops \in Nat
        /\ Len(creations) \in Nat /\ up \in BOOLEAN /\ creations \in Seq(Keys)
    BY DEF TypeOK, Groups, MaxKeys, Shapes, ClientShapes, BufferShapes, CountShapes
  <2>a. /\ groups \in Nat /\ begun \in Nat /\ Len(creations) \in Nat
        /\ Hits(outbox, Creates) \in Nat
        /\ groups + Hits(outbox, Creates) + Len(creations) <= begun + 1
    BY <2>0, HitsNat DEF Counts
  <2>b. /\ groups \in Nat /\ acked \in Nat /\ Hits(inbox, Created) \in Nat
        /\ acked + Hits(inbox, Created) + 1 <= groups
    BY <2>0, HitsNat DEF Counts
  <2>c. /\ keys \in Nat /\ ops \in Nat /\ Hits(outbox, Kicks) \in Nat
        /\ Hits(inbox, Rotates) \in Nat
        /\ keys + Hits(outbox, Kicks) + Hits(inbox, Rotates) <= ops + 1
    BY <2>0, HitsNat DEF Counts
  <2>1. /\ UNCHANGED <<groups, begun, acked, keys, ops>> /\ creations' = <<>> /\ Put(Released)
    BY <1>25 DEF PeerKeyArrives, Read, server, ghosts, Released
  <2>2. NoMoreIn
    BY <1>25, QuietRead
  <2>3. Hits(Released, Kicks) = 0 /\ Hits(Released, Creates) \in Nat
        /\ Hits(Released, Creates) <= Len(creations)
    BY ReleasedHits
  <2>4. Released \in Seq(OutPackets)
    BY ReleasedType
  <2>5. Hits(outbox', Creates) \in Nat
        /\ Hits(outbox', Creates) <= Hits(outbox, Creates) + Hits(Released, Creates)
    BY <2>0, <2>1, <2>4, PutHits
  <2>6. Hits(outbox', Kicks) \in Nat
        /\ Hits(outbox', Kicks) <= Hits(outbox, Kicks) + Hits(Released, Kicks)
    BY <2>0, <2>1, <2>4, PutHits
  <2>7. Len(creations') = 0
    BY <2>1
  <2>x. (groups + Hits(outbox, Creates) + Len(creations) <= begun + 1)'
    BY <2>a, <2>1, <2>3, <2>5, <2>7
  <2>y. (acked + Hits(inbox, Created) + 1 <= groups)'
    BY <2>b, <2>1, <2>2 DEF NoMoreIn
  <2>z. (keys + Hits(outbox, Kicks) + Hits(inbox, Rotates) <= ops + 1)'
    BY <2>c, <2>1, <2>2, <2>3, <2>6 DEF NoMoreIn
  <2> QED
    BY <2>x, <2>y, <2>z, <2>1 DEF Counts
<1>26. ASSUME GroupInfoArrives(Head(inbox)), Read PROVE Counts'
  <2>0. /\ groups \in Nat /\ begun \in Nat /\ acked \in Nat /\ keys \in Nat /\ ops \in Nat
        /\ Len(creations) \in Nat /\ up \in BOOLEAN /\ creations \in Seq(Keys)
    BY DEF TypeOK, Groups, MaxKeys, Shapes, ClientShapes, BufferShapes, CountShapes
  <2>a. /\ groups \in Nat /\ begun \in Nat /\ Len(creations) \in Nat
        /\ Hits(outbox, Creates) \in Nat
        /\ groups + Hits(outbox, Creates) + Len(creations) <= begun + 1
    BY <2>0, HitsNat DEF Counts
  <2>b. /\ groups \in Nat /\ acked \in Nat /\ Hits(inbox, Created) \in Nat
        /\ acked + Hits(inbox, Created) + 1 <= groups
    BY <2>0, HitsNat DEF Counts
  <2>c. /\ keys \in Nat /\ ops \in Nat /\ Hits(outbox, Kicks) \in Nat
        /\ Hits(inbox, Rotates) \in Nat
        /\ keys + Hits(outbox, Kicks) + Hits(inbox, Rotates) <= ops + 1
    BY <2>0, HitsNat DEF Counts
  <2>1. /\ UNCHANGED <<outbox, groups, begun, keys, ops, creations>>
        /\ inbox # <<>> /\ inbox' = Tail(inbox)
    BY <1>26 DEF GroupInfoArrives, Read, server, buffers
  <2>2. NoMoreOut /\ NoMoreIn
    BY <1>26, <2>1, QuietOutbox, QuietRead
  <2>3. (Head(inbox) \in Created /\ acked' = acked + 1) \/ acked' = acked
    BY <1>26, <1>2 DEF GroupInfoArrives, Read, InFields
  <2>4. CASE acked' = acked
    BY <2>1, <2>2, <2>4, QuietCounts
  <2>5. CASE Head(inbox) \in Created /\ acked' = acked + 1
    <3>1. Hits(inbox', Created) = Hits(inbox, Created) - 1
      BY <2>1, <2>5, ReadHits
    <3>x. (groups + Hits(outbox, Creates) + Len(creations) <= begun + 1)'
      BY <2>a, <2>1, <2>2 DEF NoMoreOut
    <3>y. (acked + Hits(inbox, Created) + 1 <= groups)'
      BY <2>b, <2>1, <2>5, <3>1
    <3>z. (keys + Hits(outbox, Kicks) + Hits(inbox, Rotates) <= ops + 1)'
      BY <2>c, <2>1, <2>2 DEF NoMoreIn, NoMoreOut
    <3> QED
      BY <3>x, <3>y, <3>z, <2>1 DEF Counts
  <2> QED
    BY <2>3, <2>4, <2>5
<1>27. ASSUME InviteArrives(Head(inbox)), Read PROVE Counts'
  <2>1. NoMoreOut
    <3>1. Put(Drained(Head(inbox)))
      BY <1>27 DEF InviteArrives, DrainSends, Drained
    <3>2. Head(inbox).group \in Groups /\ Head(inbox).key \in Keys
      BY <1>27, <1>2 DEF InviteArrives, InFields, Read
    <3>3. Drained(Head(inbox)) \in Seq(OutPackets)
      BY <3>2, DrainedType
    <3>4. \A i \in DOMAIN Drained(Head(inbox)) : Drained(Head(inbox))[i].kind = "send"
      BY DEF Drained, Message
    <3> QED
      BY <3>1, <3>3, <3>4, QuietPut DEF Shapes, ClientShapes
  <2>2. NoMoreIn
    BY <1>27, QuietRead
  <2>3. UNCHANGED <<groups, begun, acked, keys, creations>> /\ ops' \in {ops, ops + 1}
    BY <1>27 DEF InviteArrives, TakeKey, Read, server, buffers, keyring, ghosts
  <2> QED
    BY <2>1, <2>2, <2>3, QuietCounts
<1>28. ASSUME RekeyArrives(Head(inbox)), Read PROVE Counts'
  <2>1. NoMoreOut
    <3>1. Put(Drained(Head(inbox)))
      BY <1>28 DEF RekeyArrives, DrainSends, Drained
    <3>2. Head(inbox).group \in Groups /\ Head(inbox).key \in Keys
      BY <1>28, <1>2 DEF RekeyArrives, InFields, Read
    <3>3. Drained(Head(inbox)) \in Seq(OutPackets)
      BY <3>2, DrainedType
    <3>4. \A i \in DOMAIN Drained(Head(inbox)) : Drained(Head(inbox))[i].kind = "send"
      BY DEF Drained, Message
    <3> QED
      BY <3>1, <3>3, <3>4, QuietPut DEF Shapes, ClientShapes
  <2>2. NoMoreIn
    BY <1>28, QuietRead
  <2>3. UNCHANGED <<groups, begun, acked, keys, creations>> /\ ops' \in {ops, ops + 1}
    BY <1>28 DEF RekeyArrives, TakeKey, Read, server, buffers, keyring, ghosts
  <2> QED
    BY <2>1, <2>2, <2>3, QuietCounts
<1>29. ASSUME KeyFails(Head(inbox)), Read PROVE Counts'
  <2>1. NoMoreOut
    BY <1>29, QuietOutbox DEF KeyFails
  <2>2. NoMoreIn
    BY <1>29, QuietRead
  <2>3. UNCHANGED <<groups, begun, acked, keys, creations>> /\ ops' \in {ops, ops + 1}
    BY <1>29 DEF KeyFails, Read, server, buffers, keyring, ghosts
  <2> QED
    BY <2>1, <2>2, <2>3, QuietCounts
<1>30. ASSUME MessageBuffered(Head(inbox)), Read PROVE Counts'
  <2>1. NoMoreOut
    <3>1. up \in BOOLEAN /\ <<>> \in Seq({})
      BY DEF Shapes, ClientShapes
    <3>2. Put(<<[kind |-> "recover", group |-> Head(inbox).group]>>) \/ Put(<<>>)
      BY <1>30 DEF MessageBuffered, RequestKey
    <3>3. ASSUME Put(<<>>) PROVE NoMoreOut
      <4>1. \A i \in DOMAIN <<>> : <<>>[i].kind \notin {"create", "kick"}
        OBVIOUS
      <4> QED
        BY <3>1, <3>3, <4>1, QuietPut
    <3> QED
      BY <3>1, <3>2, <3>3, QuietPacket
  <2>2. NoMoreIn
    BY <1>30, QuietRead
  <2>3. UNCHANGED <<groups, begun, acked, keys, creations>> /\ ops' \in {ops, ops + 1}
    BY <1>30 DEF MessageBuffered, Read, server, buffers, keyring, ghosts
  <2> QED
    BY <2>1, <2>2, <2>3, QuietCounts
<1>31. ASSUME MessageRead(Head(inbox)), Read PROVE Counts'
  <2>1. NoMoreOut
    BY <1>31, QuietOutbox DEF MessageRead
  <2>2. NoMoreIn
    BY <1>31, QuietRead
  <2>3. UNCHANGED <<groups, begun, acked, keys, creations>> /\ ops' \in {ops, ops + 1}
    BY <1>31 DEF MessageRead, Read, server, buffers, keyring, ghosts
  <2> QED
    BY <2>1, <2>2, <2>3, QuietCounts
<1>32. ASSUME Rotate(Head(inbox)), Read PROVE Counts'
  <2>0. /\ groups \in Nat /\ begun \in Nat /\ acked \in Nat /\ keys \in Nat /\ ops \in Nat
        /\ Len(creations) \in Nat /\ up \in BOOLEAN /\ creations \in Seq(Keys)
    BY DEF TypeOK, Groups, MaxKeys, Shapes, ClientShapes, BufferShapes, CountShapes
  <2>a. /\ groups \in Nat /\ begun \in Nat /\ Len(creations) \in Nat
        /\ Hits(outbox, Creates) \in Nat
        /\ groups + Hits(outbox, Creates) + Len(creations) <= begun + 1
    BY <2>0, HitsNat DEF Counts
  <2>b. /\ groups \in Nat /\ acked \in Nat /\ Hits(inbox, Created) \in Nat
        /\ acked + Hits(inbox, Created) + 1 <= groups
    BY <2>0, HitsNat DEF Counts
  <2>c. /\ keys \in Nat /\ ops \in Nat /\ Hits(outbox, Kicks) \in Nat
        /\ Hits(inbox, Rotates) \in Nat
        /\ keys + Hits(outbox, Kicks) + Hits(inbox, Rotates) <= ops + 1
    BY <2>0, HitsNat DEF Counts
  <2>1. /\ UNCHANGED <<groups, begun, acked, ops, creations>> /\ keys' = keys + 1
        /\ inbox # <<>> /\ inbox' = Tail(inbox)
    BY <1>32 DEF Rotate, Read, server, buffers
  <2>2. Put(<<[kind |-> "query", group |-> Head(inbox).group]>>)
    BY <1>32 DEF Rotate
  <2>3. NoMoreOut
    BY <2>0, <2>2, QuietPacket
  <2>4. NoMoreIn
    BY <1>32, QuietRead
  <2>5. Head(inbox) \in Rotates
    BY <1>32, <1>2 DEF Rotate, Read, InFields
  <2>6. Hits(inbox', Rotates) = Hits(inbox, Rotates) - 1
    BY <2>1, <2>5, ReadHits
  <2>x. (groups + Hits(outbox, Creates) + Len(creations) <= begun + 1)'
    BY <2>a, <2>1, <2>3 DEF NoMoreOut
  <2>y. (acked + Hits(inbox, Created) + 1 <= groups)'
    BY <2>b, <2>1, <2>4 DEF NoMoreIn
  <2>z. (keys + Hits(outbox, Kicks) + Hits(inbox, Rotates) <= ops + 1)'
    BY <2>c, <2>1, <2>3, <2>6 DEF NoMoreOut
  <2> QED
    BY <2>x, <2>y, <2>z, <2>1 DEF Counts
<1>33. ASSUME Left(Head(inbox)), Read PROVE Counts'
  <2>1. NoMoreOut
    BY <1>33, QuietOutbox DEF Left
  <2>2. NoMoreIn
    BY <1>33, QuietRead
  <2>3. UNCHANGED <<groups, begun, acked, keys, creations>> /\ ops' \in {ops, ops + 1}
    BY <1>33 DEF Left, Read, server, buffers, keyring, ghosts
  <2> QED
    BY <2>1, <2>2, <2>3, QuietCounts
<1>34. ASSUME ErrArrives(Head(inbox)), Read PROVE Counts'
  <2>1. NoMoreOut
    BY <1>34, QuietOutbox DEF ErrArrives
  <2>2. NoMoreIn
    BY <1>34, QuietRead
  <2>3. UNCHANGED <<groups, begun, acked, keys, creations>> /\ ops' \in {ops, ops + 1}
    BY <1>34 DEF ErrArrives, Read, server, buffers, keyring, ghosts
  <2> QED
    BY <2>1, <2>2, <2>3, QuietCounts
<1>35. CASE UNCHANGED vars
  BY <1>35 DEF vars, server, buffers, keyring, ghosts, Counts
<1> QED
  BY <1>3, <1>4, <1>5, <1>6, <1>7, <1>8, <1>9, <1>10, <1>11, <1>12, <1>13,
     <1>14, <1>15, <1>16, <1>17, <1>18, <1>19, <1>20, <1>21, <1>22, <1>23,
     <1>24, <1>25, <1>26, <1>27, <1>28, <1>29, <1>30, <1>31, <1>32, <1>33,
     <1>34, <1>35 DEF Next, ServerStep, ClientStep, Serve, Read

\* The start is well typed.
LEMMA TypedInit == Init => Typed
<1> SUFFICES ASSUME Init PROVE Typed
    OBVIOUS
<1> USE GroupClientConstants
<1>1. 1 \in Groups /\ 0 \in Keys /\ 1 \in Keys /\ 1 \in 1..MaxKeys
  BY DEF Groups, Keys, MaxKeys
<1>2. disk \in [Users -> [Groups -> 0..MaxKeys]]
  <2>1. [g \in Groups |-> 0] \in [Groups -> Keys]
        /\ [g \in Groups |-> IF g = 1 THEN 1 ELSE 0] \in [Groups -> Keys]
    BY <1>1
  <2> QED
    BY <2>1 DEF Init, Keys
<1>3. TypeOK
  BY <1>1, <1>2 DEF Init, TypeOK, Keys
<1>4. Queues
  BY DEF Init, Queues, InboxOK, OutboxOK
<1>5. Shapes
  <2>1. ClientShapes
    BY DEF Init, ClientShapes
  <2>2. BufferShapes
    BY DEF Init, BufferShapes
  <2>3. ServerShapes
    BY <1>1 DEF Init, ServerShapes
  <2>4. CountShapes
    <3>1. 0 \in 0..MaxOps /\ 0 \in Nat
      OBVIOUS
    <3>2. /\ ops = 0 /\ begun = 0 /\ acked = 0 /\ overlap = FALSE
          /\ rotated = {} /\ adrift = {} /\ cut = {}
      BY DEF Init
    <3> QED
      BY <3>1, <3>2 DEF CountShapes
  <2> QED
    BY <2>1, <2>2, <2>3, <2>4 DEF Shapes
<1>6. Session
  BY DEF Init, Session
<1>7. Counts
  <2>1. outbox = <<>> /\ inbox = <<>> /\ creations = <<>> /\ groups = 1 /\ begun = 0
        /\ acked = 0 /\ keys = 1 /\ ops = 0
    BY DEF Init
  <2>2. \A P : Hits(<<>>, P) = 0
    BY HitsNone
  <2>3. Hits(outbox, Creates) = 0 /\ Hits(outbox, Kicks) = 0 /\ Hits(inbox, Created) = 0
        /\ Hits(inbox, Rotates) = 0 /\ Len(creations) = 0
    BY <2>1, <2>2
  <2> QED
    BY <2>1, <2>3 DEF Counts
<1> QED
  BY <1>3, <1>4, <1>5, <1>6, <1>7 DEF Typed

\* Every step keeps it so.
LEMMA TypedStep == Typed /\ [Next]_vars => Typed'
BY TypeStep, OutboxStep, InboxStep, ShapesStep, SessionStep, CountsStep DEF Typed, Queues

\* So it always is.
LEMMA TypedAlways == Spec => []Typed
BY TypedInit, TypedStep, PTL DEF Spec

\* Type correctness: whoever is logged in has its own store open, no key is
\* lost from the range of the generator, no group from the server's.
THEOREM ClientTypes == Spec => []TypeOK
<1>1. Typed => TypeOK
  BY DEF Typed
<1> QED
  BY <1>1, TypedAlways, PTL

\* A buffer is filled together with the request, and emptied before it is
\* forgotten.
LEMMA BufferedStep ==
    Typed /\ BufferedIsRequested /\ [Next]_vars => BufferedIsRequested'
<1> SUFFICES ASSUME Typed, BufferedIsRequested, [Next]_vars
             PROVE  BufferedIsRequested'
    OBVIOUS
<1> USE GroupClientConstants
<1>1. outbox # <<>> => OutFields(Head(outbox)) /\ Tail(outbox) \in Seq(OutPackets)
  BY HeadOut DEF Typed
<1>2. inbox # <<>> => InFields(Head(inbox)) /\ Tail(inbox) \in Seq(InPackets)
  BY HeadIn DEF Typed
<1>3. ASSUME NEW u \in Users, SendLogin(u) PROVE BufferedIsRequested'
  BY <1>3 DEF SendLogin, server, buffers, keyring, ghosts, BufferedIsRequested
<1>4. ASSUME NEW u \in Users, PeerKicks(u) PROVE BufferedIsRequested'
  BY <1>4
     DEF PeerKicks, Happens, server, buffers, keyring, ghosts,
         BufferedIsRequested
<1>5. ASSUME CreateGroup PROVE BufferedIsRequested'
  BY <1>5
     DEF CreateGroup, Happens, server, buffers, keyring, ghosts,
         BufferedIsRequested
<1>6. ASSUME SendMessage PROVE BufferedIsRequested'
  BY <1>6
     DEF SendMessage, Happens, server, buffers, keyring, ghosts,
         BufferedIsRequested
<1>7. ASSUME Logout PROVE BufferedIsRequested'
  BY <1>7
     DEF Logout, Happens, server, buffers, keyring, ghosts,
         BufferedIsRequested
<1>8. ASSUME Disconnect PROVE BufferedIsRequested'
  BY <1>8
     DEF Disconnect, Happens, server, buffers, keyring, ghosts,
         BufferedIsRequested
<1>9. ASSUME PeerGives PROVE BufferedIsRequested'
  BY <1>9
     DEF PeerGives, Happens, server, buffers, keyring, ghosts,
         BufferedIsRequested
<1>10. ASSUME NEW g \in Groups, SendGroupMessage(g) PROVE BufferedIsRequested'
  <2>1. (UNCHANGED sends /\ requests \subseteq requests')
        \/ (sends' = [sends EXCEPT ![g] = Append(@, me)] /\ requests' = requests \cup {g})
    BY <1>10 DEF SendGroupMessage, RequestKey
  <2>2. UNCHANGED packets
    BY <1>10 DEF SendGroupMessage
  <2> QED
    BY <2>1, <2>2 DEF BufferedIsRequested, Typed, Shapes, BufferShapes
<1>11. ASSUME NEW g \in Groups, AddGroupMember(g) PROVE BufferedIsRequested'
  BY <1>11
     DEF AddGroupMember, Happens, server, buffers, keyring, ghosts,
         BufferedIsRequested
<1>12. ASSUME NEW g \in Groups, KickMember(g) PROVE BufferedIsRequested'
  BY <1>12
     DEF KickMember, Happens, server, buffers, keyring, ghosts,
         BufferedIsRequested
<1>13. ASSUME NEW g \in Groups, PeerWrites(g) PROVE BufferedIsRequested'
  BY <1>13
     DEF PeerWrites, Happens, server, buffers, keyring, ghosts,
         BufferedIsRequested
<1>14. ASSUME NEW g \in Groups, RoleChanges(g) PROVE BufferedIsRequested'
  BY <1>14
     DEF RoleChanges, Happens, server, buffers, keyring, ghosts,
         BufferedIsRequested
<1>15. ASSUME ServerLogin(Head(outbox)), Serve PROVE BufferedIsRequested'
  BY <1>15, <1>1
     DEF ServerLogin, Serve, Reply, Err, OutFields, server, buffers, keyring,
         ghosts, BufferedIsRequested
<1>16. ASSUME ServerFetch(Head(outbox)), Serve PROVE BufferedIsRequested'
  BY <1>16, <1>1
     DEF ServerFetch, Serve, Reply, Err, OutFields, server, buffers, keyring,
         ghosts, BufferedIsRequested
<1>17. ASSUME ServerCreate(Head(outbox)), Serve PROVE BufferedIsRequested'
  BY <1>17, <1>1
     DEF ServerCreate, Serve, Reply, Err, OutFields, server, buffers, keyring,
         ghosts, BufferedIsRequested
<1>18. ASSUME ServerRecover(Head(outbox)), Serve PROVE BufferedIsRequested'
  BY <1>18, <1>1
     DEF ServerRecover, Serve, Reply, Err, OutFields, Outsider, server,
         buffers, keyring, ghosts, BufferedIsRequested
<1>19. ASSUME ServerMessage(Head(outbox)), Serve PROVE BufferedIsRequested'
  BY <1>19, <1>1
     DEF ServerMessage, Serve, Reply, Err, OutFields, Outsider, server,
         buffers, keyring, ghosts, BufferedIsRequested
<1>20. ASSUME ServerText(Head(outbox)), Serve PROVE BufferedIsRequested'
  BY <1>20, <1>1
     DEF ServerText, Serve, Reply, Err, OutFields, server, buffers, keyring,
         ghosts, BufferedIsRequested
<1>21. ASSUME ServerGive(Head(outbox)), Serve PROVE BufferedIsRequested'
  BY <1>21, <1>1
     DEF ServerGive, Serve, Reply, Err, OutFields, Outsider, NotAdmin, server,
         buffers, keyring, ghosts, BufferedIsRequested
<1>22. ASSUME ServerKick(Head(outbox)), Serve PROVE BufferedIsRequested'
  BY <1>22, <1>1
     DEF ServerKick, Serve, Reply, Err, OutFields, Outsider, NotAdmin, server,
         buffers, keyring, ghosts, BufferedIsRequested
<1>23. ASSUME ServerInfo(Head(outbox)), Serve PROVE BufferedIsRequested'
  BY <1>23, <1>1
     DEF ServerInfo, Serve, Reply, Err, OutFields, server, buffers, keyring,
         ghosts, BufferedIsRequested
<1>24. ASSUME LoginAcked(Head(inbox)), Read PROVE BufferedIsRequested'
  BY <1>24, <1>2
     DEF LoginAcked, Read, InFields, server, buffers, keyring, ghosts,
         BufferedIsRequested
<1>25. ASSUME PeerKeyArrives(Head(inbox)), Read PROVE BufferedIsRequested'
  BY <1>25, <1>2
     DEF PeerKeyArrives, Read, InFields, server, buffers, keyring, ghosts,
         BufferedIsRequested
<1>26. ASSUME GroupInfoArrives(Head(inbox)), Read PROVE BufferedIsRequested'
  BY <1>26, <1>2
     DEF GroupInfoArrives, Read, InFields, saveGroupKey, saveGroup, server,
         buffers, keyring, ghosts, BufferedIsRequested
<1>27. ASSUME InviteArrives(Head(inbox)), Read PROVE BufferedIsRequested'
  <2>1. Head(inbox).group \in Groups
    BY <1>27, <1>2 DEF InviteArrives, Read, InFields
  <2>2. /\ requests' = requests \ {Head(inbox).group}
        /\ packets' = [packets EXCEPT ![Head(inbox).group] = <<>>]
        /\ sends' = [sends EXCEPT ![Head(inbox).group] = <<>>]
    BY <1>27 DEF InviteArrives, TakeKey, DrainSends
  <2> QED
    BY <2>1, <2>2 DEF BufferedIsRequested, Typed, Shapes, BufferShapes
<1>28. ASSUME RekeyArrives(Head(inbox)), Read PROVE BufferedIsRequested'
  <2>1. Head(inbox).group \in Groups
    BY <1>28, <1>2 DEF RekeyArrives, Read, InFields
  <2>2. /\ requests' = requests \ {Head(inbox).group}
        /\ packets' = [packets EXCEPT ![Head(inbox).group] = <<>>]
        /\ sends' = [sends EXCEPT ![Head(inbox).group] = <<>>]
    BY <1>28 DEF RekeyArrives, TakeKey, DrainSends
  <2> QED
    BY <2>1, <2>2 DEF BufferedIsRequested, Typed, Shapes, BufferShapes
<1>29. ASSUME KeyFails(Head(inbox)), Read PROVE BufferedIsRequested'
  BY <1>29, <1>2
     DEF KeyFails, Read, InFields, server, buffers, keyring, ghosts,
         BufferedIsRequested
<1>30. ASSUME MessageBuffered(Head(inbox)), Read PROVE BufferedIsRequested'
  <2>1. Head(inbox).group \in Groups
    BY <1>30, <1>2 DEF MessageBuffered, Read, InFields
  <2>2. /\ requests' = requests \cup {Head(inbox).group} /\ UNCHANGED sends
        /\ packets' = [packets EXCEPT ![Head(inbox).group] = Append(@, Head(inbox).key)]
    BY <1>30 DEF MessageBuffered, RequestKey
  <2> QED
    BY <2>1, <2>2 DEF BufferedIsRequested, Typed, Shapes, BufferShapes
<1>31. ASSUME MessageRead(Head(inbox)), Read PROVE BufferedIsRequested'
  BY <1>31, <1>2
     DEF MessageRead, Read, InFields, loadGroupKey, server, buffers, keyring,
         ghosts, BufferedIsRequested
<1>32. ASSUME Rotate(Head(inbox)), Read PROVE BufferedIsRequested'
  BY <1>32, <1>2
     DEF Rotate, Read, InFields, saveGroupKey, server, buffers, keyring,
         ghosts, BufferedIsRequested
<1>33. ASSUME Left(Head(inbox)), Read PROVE BufferedIsRequested'
  BY <1>33, <1>2
     DEF Left, Read, InFields, saveGroupKey, server, buffers, keyring, ghosts,
         BufferedIsRequested
<1>34. ASSUME ErrArrives(Head(inbox)), Read PROVE BufferedIsRequested'
  BY <1>34, <1>2
     DEF ErrArrives, Read, InFields, server, buffers, keyring, ghosts,
         BufferedIsRequested
<1>35. CASE UNCHANGED vars
  BY <1>35 DEF vars, server, buffers, keyring, ghosts, BufferedIsRequested
<1> QED
  BY <1>3, <1>4, <1>5, <1>6, <1>7, <1>8, <1>9, <1>10, <1>11, <1>12, <1>13,
     <1>14, <1>15, <1>16, <1>17, <1>18, <1>19, <1>20, <1>21, <1>22, <1>23,
     <1>24, <1>25, <1>26, <1>27, <1>28, <1>29, <1>30, <1>31, <1>32, <1>33,
     <1>34, <1>35 DEF Next, ServerStep, ClientStep, Serve, Read

\* No text and no packet waits for a key that was not asked for.
THEOREM RequestsCover == Spec => []BufferedIsRequested
<1>1. Init => BufferedIsRequested
  BY DEF Init, BufferedIsRequested
<1> QED
  BY <1>1, TypedAlways, BufferedStep, PTL DEF Spec

-----------------------------------------------------------------------------
\* The elements of a queue after it was shortened or extended.
LEMMA TailElems ==
    ASSUME NEW S, NEW s \in Seq(S), s # <<>>
    PROVE  ToSet(Tail(s)) \subseteq ToSet(s) /\ Head(s) \in ToSet(s)
<1>1. \A i \in DOMAIN Tail(s) : i + 1 \in DOMAIN s /\ Tail(s)[i] = s[i + 1]
  OBVIOUS
<1>2. 1 \in DOMAIN s /\ Head(s) = s[1]
  OBVIOUS
<1> QED
  BY <1>1, <1>2 DEF ToSet

\* One more at the end.
LEMMA AppendElems ==
    ASSUME NEW S, NEW s \in Seq(S), NEW e
    PROVE  ToSet(Append(s, e)) \subseteq ToSet(s) \cup {e}
<1>1. \A i \in DOMAIN Append(s, e) : Append(s, e)[i] = e \/ (i \in DOMAIN s /\ Append(s, e)[i] = s[i])
  OBVIOUS
<1> QED
  BY <1>1 DEF ToSet

\* More at the end.
LEMMA ConcatElems ==
    ASSUME NEW S, NEW s \in Seq(S), NEW T, NEW t \in Seq(T)
    PROVE  ToSet(s \o t) \subseteq ToSet(s) \cup ToSet(t)
<1>1. \A i \in DOMAIN (s \o t) :
        \/ i \in DOMAIN s /\ (s \o t)[i] = s[i]
        \/ i - Len(s) \in DOMAIN t /\ (s \o t)[i] = t[i - Len(s)]
  OBVIOUS
<1> QED
  BY <1>1 DEF ToSet

\* sendPacket.
LEMMA PutElems ==
    ASSUME Queues, NEW T, NEW s \in Seq(T), Put(s)
    PROVE  ToSet(outbox') \subseteq ToSet(outbox) \cup ToSet(s)
<1>1. ToSet(outbox \o s) \subseteq ToSet(outbox) \cup ToSet(s)
  BY ConcatElems DEF Queues, OutboxOK
<1>2. outbox' = outbox \/ outbox' = outbox \o s
  BY DEF Put
<1> QED
  BY <1>1, <1>2

\* What is new in a queue holds no creation and no wrong key.
OutQuiet ==
    \A p \in ToSet(outbox') : p \in ToSet(outbox)
        \/ (p \notin Creates /\ (p \in Gives => Right(p.group, p.key)))

InQuiet ==
    \A p \in ToSet(inbox') : p \in ToSet(inbox)
        \/ (p \notin Created /\ (p \in KeyPackets => Right(p.group, p.key)))

\* Packets without keys.
LEMMA PutIsQuiet ==
    ASSUME Queues, NEW T, NEW s \in Seq(T), Put(s),
           \A p \in ToSet(s) : p.kind \notin {"create", "give"}
    PROVE  OutQuiet
<1>1. \A p : p.kind \notin {"create", "give"} => p \notin Creates /\ p \notin Gives
  BY DEF Creates, Gives
<1> QED
  BY <1>1, PutElems DEF OutQuiet

\* One packet without a key.
LEMMA OneIsQuiet ==
    ASSUME Queues, NEW p, Put(<<p>>), p.kind \notin {"create", "give"}
    PROVE  OutQuiet
<1>1. <<p>> \in Seq({p}) /\ ToSet(<<p>>) = {p}
  BY DEF ToSet
<1> QED
  BY <1>1, PutIsQuiet

\* No packet.
LEMMA NoneIsQuiet == ASSUME Put(<<>>), Queues PROVE OutQuiet
<1>1. <<>> \in Seq({}) /\ ToSet(<<>>) = {}
  BY DEF ToSet
<1> QED
  BY <1>1, PutIsQuiet

\* An untouched queue.
LEMMA SameOutIsQuiet == ASSUME UNCHANGED outbox PROVE OutQuiet
BY DEF OutQuiet

\* The other queue untouched.
LEMMA SameInIsQuiet == ASSUME UNCHANGED inbox PROVE InQuiet
BY DEF InQuiet

\* A packet served.
LEMMA ServeIsQuiet == ASSUME Queues, Serve PROVE OutQuiet
<1>1. ToSet(Tail(outbox)) \subseteq ToSet(outbox)
  BY TailElems DEF Serve, Queues, OutboxOK
<1> QED
  BY <1>1 DEF Serve, OutQuiet

\* A packet read.
LEMMA ReadIsQuiet == ASSUME Queues, Read PROVE InQuiet
<1>1. ToSet(Tail(inbox)) \subseteq ToSet(inbox)
  BY TailElems DEF Read, Queues, InboxOK
<1> QED
  BY <1>1 DEF Read, InQuiet

\* A reply with the right key.
LEMMA ReplyIsQuiet ==
    ASSUME Queues, NEW p, inbox' = Append(inbox, p), p \notin Created,
           p \in KeyPackets => Right(p.group, p.key)
    PROVE  InQuiet
<1>1. ToSet(inbox') \subseteq ToSet(inbox) \cup {p}
  BY AppendElems DEF Queues, InboxOK
<1> QED
  BY <1>1 DEF InQuiet

\* A reply without a key.
LEMMA OtherReplyIsQuiet ==
    ASSUME Queues, NEW p, inbox' = Append(inbox, p), p.kind \notin {"invite", "rekey"},
           p.kind = "info" => p.created = FALSE
    PROVE  InQuiet
<1>1. p \notin Created /\ p \notin KeyPackets
  BY DEF Created, KeyPackets
<1> QED
  BY <1>1, ReplyIsQuiet

\* What is in the queues and the keys that are kept are all that matters.
LEMMA AgreeFrame ==
    ASSUME Agree, OutQuiet, InQuiet,
           UNCHANGED <<real, rotated, groups, begun, acked>>,
           zero' \in {zero, 0}, ToSet(creations') \subseteq ToSet(creations),
           MemRight', DiskRight', WrappedRight'
    PROVE  Agree'
<1>1. InRight'
  BY DEF Agree, KeysAgree, InRight, InQuiet, Right
<1>2. OutRight'
  BY DEF Agree, KeysAgree, OutRight, OutQuiet, Right
<1>3. Unmade'
  BY DEF Agree, KeysAgree, Unmade
<1>4. OneCreation'
  <2>1. zero' # 0 => zero' = zero /\ zero # 0
    OBVIOUS
  <2>2. zero' # 0 => ZeroWaits'
    BY <2>1 DEF Agree, OneCreation, ZeroWaits
  <2>3. zero' # 0 => ZeroOut'
    BY <2>1 DEF Agree, OneCreation, ZeroOut, OutQuiet
  <2>4. zero' # 0 => ZeroIn'
    BY <2>1 DEF Agree, OneCreation, ZeroIn, InQuiet
  <2> QED
    BY <2>1, <2>2, <2>3, <2>4 DEF Agree, OneCreation
<1> QED
  BY <1>1, <1>2, <1>3, <1>4 DEF Agree, KeysAgree

\* What a client gives away for a group is the key it has.
GivenRight(p) == p \notin Creates /\ (p \in Gives => Right(p.group, p.key))

\* So it is right if the client's is.
LEMMA GiveRight ==
    ASSUME MemRight, NEW g \in Groups
    PROVE  \A p \in ToSet(Give(g)) : GivenRight(p)
<1> DEFINE p == [kind |-> "give", group |-> g, key |-> mem[g]]
<1>1. ToSet(Give(g)) \subseteq {p}
  BY DEF Give, ToSet
<1>2. p \notin Creates
  BY DEF Creates
<1>3. Right(p.group, p.key)
  BY DEF MemRight
<1> QED
  BY <1>1, <1>2, <1>3 DEF GivenRight

\* The key that is read next is right.
LEMMA HeadKeyRight ==
    ASSUME Queues, InRight, inbox # <<>>, Head(inbox) \in KeyPackets
    PROVE  Right(Head(inbox).group, Head(inbox).key)
<1>1. Head(inbox) \in ToSet(inbox)
  BY TailElems DEF Queues, InboxOK
<1> QED
  BY <1>1 DEF InRight

\* Saving the right key.
LEMMA SavedRight ==
    ASSUME TypeOK, ClientShapes, DiskRight, NEW g \in Groups, NEW k, Right(g, k),
           UNCHANGED <<real, rotated>>, disk' = saveGroupKey(db, g, k)
    PROVE  DiskRight'
<1>1. disk' = disk \/ (db \in Users /\ disk' = [disk EXCEPT ![db][g] = k])
  BY DEF saveGroupKey, ClientShapes
<1>2. \A u \in Users, h \in Groups : disk'[u][h] = disk[u][h] \/ (h = g /\ disk'[u][h] = k)
  BY <1>1 DEF TypeOK
<1> QED
  BY <1>2 DEF DiskRight, Right

\* No hits, no element.
LEMMA HitsZero ==
    ASSUME NEW S, NEW s \in Seq(S), NEW P, Hits(s, P) = 0
    PROVE  \A p \in ToSet(s) : p \notin P
<1>1. IsFiniteSet({i \in DOMAIN s : s[i] \in P})
  BY HitsFinite
<1>2. {i \in DOMAIN s : s[i] \in P} = {}
  <2> DEFINE D == {i \in DOMAIN s : s[i] \in P}
  <2>1. IsFiniteSet(D) /\ Cardinality(D) = 0
    BY <1>1 DEF Hits
  <2> HIDE DEF D
  <2>2. D = {}
    BY <2>1, FS_EmptySet
  <2> QED
    BY <2>2 DEF D
<1> QED
  BY <1>2 DEF ToSet

\* When every creation was answered, none is under way.
LEMMA NoCreation ==
    ASSUME Typed, begun <= acked
    PROVE  /\ begun = acked /\ creations = <<>>
           /\ \A p \in ToSet(outbox) : p \notin Creates
           /\ \A p \in ToSet(inbox) : p \notin Created
<1>1. /\ groups \in Nat /\ begun \in Nat /\ acked \in Nat /\ Len(creations) \in Nat
      /\ Hits(outbox, Creates) \in Nat /\ Hits(inbox, Created) \in Nat
      /\ creations \in Seq(Keys)
  BY HitsNat, GroupClientConstants DEF Typed, TypeOK, Groups, Shapes, BufferShapes, CountShapes
<1>2. /\ groups + Hits(outbox, Creates) + Len(creations) <= begun + 1
      /\ acked + Hits(inbox, Created) + 1 <= groups
  BY DEF Typed, Counts
<1>3. /\ begun = acked /\ Len(creations) = 0
      /\ Hits(outbox, Creates) = 0 /\ Hits(inbox, Created) = 0
  BY <1>1, <1>2
<1>4. creations = <<>>
  BY <1>1, <1>3
<1> QED
  BY <1>3, <1>4, HitsZero DEF Typed, Queues, InboxOK, OutboxOK

\* A key that is right stays right in a step that changes the real key of new
\* and rotated groups only.
RealKept ==
    /\ rotated \subseteq rotated'
    /\ \A g \in Groups : real'[g] = real[g] \/ real[g] = 0 \/ g \in rotated'

Later(g, k) == k \in {0, real'[g]} \/ g \in rotated'

\* So does every key that is stored or sent.
LEMMA RightStays ==
    ASSUME RealKept, NEW g \in Groups, NEW k, Right(g, k)
    PROVE  Later(g, k)
BY DEF RealKept, Right, Later

\* The packets that waited for the peer's key carry the keys they waited with.
LEMMA ReleasedRight ==
    ASSUME TypeOK, Shapes, MemRight
    PROVE  \A p \in ToSet(Released) :
              /\ p \in Creates => p.key \in ToSet(creations)
              /\ p \in Gives => Right(p.group, p.key)
<1> DEFINE T == [i \in DOMAIN texts |-> Text(texts[i])]
           A == FlattenSeq([i \in DOMAIN adds |-> Give(adds[i])])
           C == [i \in DOMAIN creations |-> CreatePacket(creations[i])]
           B == [i \in DOMAIN adds |-> Give(adds[i])]
           R == {p \in Gives : GivenRight(p)}
<1>1. T \in Seq(OutPackets) /\ A \in Seq(Gives) /\ C \in Seq(OutPackets)
  BY ReleasedParts
<1>2. A \in Seq(R)
  <2>1. adds \in Seq(Groups)
    BY DEF Shapes, BufferShapes
  <2>2. \A g \in Groups : Give(g) \in Seq(R)
    <3> SUFFICES ASSUME NEW g \in Groups PROVE Give(g) \in Seq(R)
      OBVIOUS
    <3>1. Give(g) \in Seq(Gives) /\ \A p \in ToSet(Give(g)) : GivenRight(p)
      BY GivePackets, GiveRight
    <3>2. \A i \in 1..Len(Give(g)) : Give(g)[i] \in R
      <4>1. \A i \in 1..Len(Give(g)) : Give(g)[i] \in Gives /\ Give(g)[i] \in ToSet(Give(g))
        BY <3>1 DEF ToSet
      <4> QED
        BY <3>1, <4>1
    <3> HIDE DEF R
    <3> QED
      BY <3>1, <3>2
  <2> HIDE DEF R
  <2>3. DOMAIN adds = 1..Len(adds) /\ \A i \in DOMAIN adds : Give(adds[i]) \in Seq(R)
    BY <2>1, <2>2
  <2>4. B \in [1..Len(adds) -> Seq(R)]
    BY <2>3
  <2> HIDE DEF B
  <2>5. B \in Seq(Seq(R))
    BY <2>1, <2>4
  <2>6. FlattenSeq(B) \in Seq(R)
    BY <2>5, FlattenType
  <2> QED
    BY <2>6 DEF B
<1>3. \A p \in ToSet(A) : GivenRight(p)
  <2> HIDE DEF A
  <2> QED
    BY <1>2 DEF ToSet
<1>4. \A p \in ToSet(T) : p \notin Creates /\ p \notin Gives
  <2>1. \A i \in DOMAIN T : T[i].kind = "text"
    BY DEF Text
  <2> HIDE DEF T
  <2>2. \A p \in ToSet(T) : p.kind = "text"
    BY <2>1 DEF ToSet
  <2> QED
    BY <2>2 DEF Creates, Gives
<1>5. \A p \in ToSet(C) : p \notin Gives /\ p.key \in ToSet(creations)
  <2>1. \A i \in DOMAIN C : C[i].kind = "create" /\ C[i].key = creations[i] /\ i \in DOMAIN creations
    BY DEF CreatePacket
  <2> HIDE DEF C
  <2>2. \A p \in ToSet(C) : p.kind = "create" /\ p.key \in ToSet(creations)
    BY <2>1 DEF ToSet
  <2> QED
    BY <2>2 DEF Gives
<1>6. ToSet(Released) \subseteq ToSet(T) \cup ToSet(A) \cup ToSet(C)
  <2>1. Released = (T \o A) \o C
    BY DEF Released
  <2> HIDE DEF T, A, C
  <2>2. A \in Seq(OutPackets)
    BY <1>1, GiveType
  <2>3. T \o A \in Seq(OutPackets)
    BY <1>1, <2>2
  <2>4. ToSet((T \o A) \o C) \subseteq ToSet(T \o A) \cup ToSet(C)
    BY <1>1, <2>3, ConcatElems
  <2>5. ToSet(T \o A) \subseteq ToSet(T) \cup ToSet(A)
    BY <1>1, <2>2, ConcatElems
  <2> QED
    BY <2>1, <2>4, <2>5
<1> HIDE DEF T, A, C
<1> QED
  BY <1>3, <1>4, <1>5, <1>6 DEF GivenRight

\* Every key that is stored or sent stays the right one while creations do not
\* overlap.
LEMMA AgreeStep == Typed /\ Agree /\ ~overlap' /\ [Next]_vars => Agree'
<1> SUFFICES ASSUME Typed, Agree, ~overlap', [Next]_vars
             PROVE  Agree'
    OBVIOUS
<1> USE GroupClientConstants
<1>1. outbox # <<>> => OutFields(Head(outbox)) /\ Tail(outbox) \in Seq(OutPackets)
  BY HeadOut DEF Typed
<1>2. inbox # <<>> => InFields(Head(inbox)) /\ Tail(inbox) \in Seq(InPackets)
  BY HeadIn DEF Typed
<1>3. ASSUME NEW u \in Users, SendLogin(u) PROVE Agree'
  <2>1. OutQuiet
    <3> DEFINE p == [kind |-> "login", user |-> u]
    <3>1. ToSet(outbox') \subseteq ToSet(outbox) \cup {p}
      BY <1>3, AppendElems DEF SendLogin, Typed, Queues, OutboxOK
    <3>2. p \notin Creates /\ p \notin Gives
      BY DEF Creates, Gives
    <3> QED
      BY <3>1, <3>2 DEF OutQuiet
  <2>2. InQuiet
    BY <1>3, SameInIsQuiet DEF SendLogin
  <2>3. /\ UNCHANGED <<real, rotated, groups, begun, acked>> /\ zero' \in {zero, 0}
        /\ UNCHANGED creations
    BY <1>3 DEF SendLogin, server, buffers, keyring, ghosts
  <2>4. MemRight'
    BY <1>3, <2>3 DEF SendLogin, server, buffers, keyring, ghosts, Agree, KeysAgree, MemRight,
       Right
  <2>5. DiskRight'
    BY <1>3, <2>3 DEF SendLogin, server, buffers, keyring, ghosts, Agree, KeysAgree, DiskRight,
       Right
  <2>6. WrappedRight'
    BY <1>3, <2>3 DEF SendLogin, server, buffers, keyring, ghosts, Agree, KeysAgree,
       WrappedRight, Right
  <2> QED
    BY <2>1, <2>2, <2>3, <2>4, <2>5, <2>6, AgreeFrame
<1>4. ASSUME NEW u \in Users, PeerKicks(u) PROVE Agree'
  <2>1. OutQuiet
    BY <1>4, SameOutIsQuiet DEF PeerKicks
  <2>2. InQuiet
    <3>1. UNCHANGED inbox \/ inbox' = Append(inbox, [kind |-> "left", group |-> 1])
      BY <1>4 DEF PeerKicks
    <3> QED
      BY <3>1, SameInIsQuiet, OtherReplyIsQuiet DEF Typed
  <2>3. /\ UNCHANGED <<real, rotated, groups, begun, acked>> /\ zero' \in {zero, 0}
        /\ UNCHANGED creations
    BY <1>4 DEF PeerKicks, Happens, server, buffers, keyring, ghosts
  <2>4. MemRight'
    BY <1>4, <2>3 DEF PeerKicks, Happens, server, buffers, keyring, ghosts, Agree, KeysAgree,
       MemRight, Right
  <2>5. DiskRight'
    BY <1>4, <2>3 DEF PeerKicks, Happens, server, buffers, keyring, ghosts, Agree, KeysAgree,
       DiskRight, Right
  <2>6. WrappedRight'
    <3>1. wrapped' = [wrapped EXCEPT ![1][u] = 0] /\ 1 \in Groups /\ ~(1 > groups)
      BY <1>4 DEF PeerKicks, Groups, Typed, TypeOK
    <3> QED
      BY <2>3, <3>1 DEF Typed, Shapes, ServerShapes, Agree, KeysAgree, WrappedRight, Right
  <2> QED
    BY <2>1, <2>2, <2>3, <2>4, <2>5, <2>6, AgreeFrame
<1>5. ASSUME CreateGroup PROVE Agree'
  <2>1. overlap' = (overlap \/ begun > acked)
    BY <1>5 DEF CreateGroup
  <2>2. begun \in Nat /\ acked \in Nat /\ ~(begun > acked)
    BY <2>1 DEF Typed, Shapes, CountShapes
  <2>3. /\ begun = acked /\ creations = <<>>
        /\ \A p \in ToSet(outbox) : p \notin Creates
        /\ \A p \in ToSet(inbox) : p \notin Created
    BY <2>2, NoCreation
  <2>4. /\ UNCHANGED <<mem, disk, wrapped, real, rotated, groups, inbox, acked>>
        /\ begun' = begun + 1 /\ zero' = keys + 1
        /\ \/ Put(<<CreatePacket(keys + 1)>>) /\ UNCHANGED creations
           \/ Put(<<[kind |-> "fetch"]>>) /\ creations' = Append(creations, keys + 1)
    BY <1>5 DEF CreateGroup, server
  <2>5. \A p \in ToSet(outbox') : \/ p \in ToSet(outbox)
                                  \/ p = CreatePacket(keys + 1)
                                  \/ p = [kind |-> "fetch"]
    <3>1. \A p : <<p>> \in Seq({p}) /\ ToSet(<<p>>) = {p}
      BY DEF ToSet
    <3>2. \A p : Put(<<p>>) => ToSet(outbox') \subseteq ToSet(outbox) \cup {p}
      BY <3>1, PutElems DEF Typed
    <3> QED
      BY <2>4, <3>2
  <2>6. /\ CreatePacket(keys + 1).key = keys + 1 /\ CreatePacket(keys + 1) \notin Gives
        /\ [kind |-> "fetch"] \notin Gives /\ [kind |-> "fetch"] \notin Creates
    BY DEF CreatePacket, Creates, Gives
  <2>7. MemRight' /\ DiskRight' /\ WrappedRight' /\ InRight' /\ Unmade'
    BY <2>4 DEF Agree, KeysAgree, MemRight, DiskRight, WrappedRight, InRight, Unmade, Right
  <2>8. OutRight'
    BY <2>4, <2>5, <2>6 DEF Agree, KeysAgree, OutRight, Right
  <2>9. ZeroWaits'
    <3>1. \A k : ToSet(Append(<<>>, k)) = {k} /\ ToSet(<<>>) = {}
      BY DEF ToSet
    <3> QED
      BY <2>3, <2>4, <3>1 DEF ZeroWaits
  <2>10. ZeroOut'
    BY <2>3, <2>4, <2>5, <2>6 DEF ZeroOut
  <2>11. ZeroIn'
    BY <2>3, <2>4 DEF ZeroIn
  <2>12. begun' = acked' + 1 /\ begun' <= acked' + 1
    BY <2>2, <2>3, <2>4
  <2> QED
    BY <2>7, <2>8, <2>9, <2>10, <2>11, <2>12 DEF Agree, KeysAgree, OneCreation
<1>6. ASSUME SendMessage PROVE Agree'
  <2>1. OutQuiet
    <3>1. Put(<<Text(me)>>) \/ Put(<<[kind |-> "fetch"]>>)
      BY <1>6 DEF SendMessage
    <3> QED
      BY <3>1, OneIsQuiet DEF Text, Typed
  <2>2. InQuiet
    BY <1>6, SameInIsQuiet DEF SendMessage
  <2>3. /\ UNCHANGED <<real, rotated, groups, begun, acked>> /\ zero' \in {zero, 0}
        /\ UNCHANGED creations
    BY <1>6 DEF SendMessage, Happens, server, buffers, keyring, ghosts
  <2>4. MemRight'
    BY <1>6, <2>3 DEF SendMessage, Happens, server, buffers, keyring, ghosts, Agree, KeysAgree,
       MemRight, Right
  <2>5. DiskRight'
    BY <1>6, <2>3 DEF SendMessage, Happens, server, buffers, keyring, ghosts, Agree, KeysAgree,
       DiskRight, Right
  <2>6. WrappedRight'
    BY <1>6, <2>3 DEF SendMessage, Happens, server, buffers, keyring, ghosts, Agree, KeysAgree,
       WrappedRight, Right
  <2> QED
    BY <2>1, <2>2, <2>3, <2>4, <2>5, <2>6, AgreeFrame
<1>7. ASSUME Logout PROVE Agree'
  <2>1. OutQuiet
    BY <1>7, SameOutIsQuiet DEF Logout
  <2>2. InQuiet
    BY <1>7, SameInIsQuiet DEF Logout
  <2>3. /\ UNCHANGED <<real, rotated, groups, begun, acked>> /\ zero' \in {zero, 0}
        /\ UNCHANGED creations
    BY <1>7 DEF Logout, Happens, server, buffers, keyring, ghosts
  <2>4. MemRight'
    BY <1>7, <2>3 DEF Logout, Happens, server, buffers, keyring, ghosts, Agree, KeysAgree,
       MemRight, Right
  <2>5. DiskRight'
    BY <1>7, <2>3 DEF Logout, Happens, server, buffers, keyring, ghosts, Agree, KeysAgree,
       DiskRight, Right
  <2>6. WrappedRight'
    BY <1>7, <2>3 DEF Logout, Happens, server, buffers, keyring, ghosts, Agree, KeysAgree,
       WrappedRight, Right
  <2> QED
    BY <2>1, <2>2, <2>3, <2>4, <2>5, <2>6, AgreeFrame
<1>8. ASSUME Disconnect PROVE Agree'
  <2>1. OutQuiet
    <3>1. ToSet(<<>>) = {}
      BY DEF ToSet
    <3> QED
      BY <1>8, <3>1 DEF Disconnect, OutQuiet
  <2>2. InQuiet
    <3>1. ToSet(<<>>) = {}
      BY DEF ToSet
    <3> QED
      BY <1>8, <3>1 DEF Disconnect, InQuiet
  <2>3. /\ UNCHANGED <<real, rotated, groups, begun, acked>> /\ zero' \in {zero, 0}
        /\ UNCHANGED creations
    BY <1>8 DEF Disconnect, Happens, server, buffers, keyring, ghosts
  <2>4. MemRight'
    BY <1>8, <2>3 DEF Disconnect, Happens, server, buffers, keyring, ghosts, Agree, KeysAgree,
       MemRight, Right
  <2>5. DiskRight'
    BY <1>8, <2>3 DEF Disconnect, Happens, server, buffers, keyring, ghosts, Agree, KeysAgree,
       DiskRight, Right
  <2>6. WrappedRight'
    BY <1>8, <2>3 DEF Disconnect, Happens, server, buffers, keyring, ghosts, Agree, KeysAgree,
       WrappedRight, Right
  <2> QED
    BY <2>1, <2>2, <2>3, <2>4, <2>5, <2>6, AgreeFrame
<1>9. ASSUME PeerGives PROVE Agree'
  <2>1. OutQuiet
    BY <1>9, SameOutIsQuiet DEF PeerGives
  <2>2. InQuiet
    <3>1. \E k \in {"invite", "rekey"} :
            inbox' = Append(inbox, [kind |-> k, group |-> 1, key |-> real[1], user |-> sess])
      BY <1>9 DEF PeerGives
    <3>2. ASSUME NEW k \in {"invite", "rekey"}
          PROVE  [kind |-> k, group |-> 1, key |-> real[1], user |-> sess] \notin Created
      BY DEF Created
    <3> QED
      BY <3>1, <3>2, ReplyIsQuiet DEF Typed, Right
  <2>3. /\ UNCHANGED <<real, rotated, groups, begun, acked>> /\ zero' \in {zero, 0}
        /\ UNCHANGED creations
    BY <1>9 DEF PeerGives, Happens, server, buffers, keyring, ghosts
  <2>4. MemRight'
    BY <1>9, <2>3 DEF PeerGives, Happens, server, buffers, keyring, ghosts, Agree, KeysAgree,
       MemRight, Right
  <2>5. DiskRight'
    BY <1>9, <2>3 DEF PeerGives, Happens, server, buffers, keyring, ghosts, Agree, KeysAgree,
       DiskRight, Right
  <2>6. WrappedRight'
    <3>1. wrapped' = [wrapped EXCEPT ![1][sess] = real[1]] /\ 1 \in Groups /\ sess \in Users
          /\ ~(1 > groups)
      BY <1>9 DEF PeerGives, Groups, Typed, TypeOK
    <3> QED
      BY <2>3, <3>1 DEF Typed, Shapes, ServerShapes, Agree, KeysAgree, WrappedRight, Right
  <2> QED
    BY <2>1, <2>2, <2>3, <2>4, <2>5, <2>6, AgreeFrame
<1>10. ASSUME NEW g \in Groups, SendGroupMessage(g) PROVE Agree'
  <2>1. OutQuiet
    <3>1. Put(<<Message(g, mem[g], me)>>) \/ Put(<<[kind |-> "recover", group |-> g]>>)
          \/ Put(<<>>)
      BY <1>10 DEF SendGroupMessage, RequestKey
    <3> QED
      BY <3>1, OneIsQuiet, NoneIsQuiet DEF Message, Typed
  <2>2. InQuiet
    BY <1>10, SameInIsQuiet DEF SendGroupMessage
  <2>3. /\ UNCHANGED <<real, rotated, groups, begun, acked>> /\ zero' \in {zero, 0}
        /\ UNCHANGED creations
    BY <1>10 DEF SendGroupMessage, Happens, server, buffers, keyring, ghosts
  <2>4. MemRight'
    BY <1>10, <2>3 DEF SendGroupMessage, Happens, server, buffers, keyring, ghosts, Agree,
       KeysAgree, MemRight, Right
  <2>5. DiskRight'
    BY <1>10, <2>3 DEF SendGroupMessage, Happens, server, buffers, keyring, ghosts, Agree,
       KeysAgree, DiskRight, Right
  <2>6. WrappedRight'
    BY <1>10, <2>3 DEF SendGroupMessage, Happens, server, buffers, keyring, ghosts, Agree,
       KeysAgree, WrappedRight, Right
  <2> QED
    BY <2>1, <2>2, <2>3, <2>4, <2>5, <2>6, AgreeFrame
<1>11. ASSUME NEW g \in Groups, AddGroupMember(g) PROVE Agree'
  <2>1. OutQuiet
    <3>1. Put(Give(g)) \/ Put(<<[kind |-> "fetch"]>>)
      BY <1>11 DEF AddGroupMember
    <3>2. ASSUME Put(Give(g)) PROVE OutQuiet
      <4>1. Give(g) \in Seq(Gives)
        BY GivePackets DEF Typed
      <4>2. \A p \in ToSet(Give(g)) : GivenRight(p)
        BY GiveRight DEF Agree, KeysAgree
      <4> QED
        BY <3>2, <4>1, <4>2, PutElems DEF OutQuiet, Typed, GivenRight
    <3> QED
      BY <3>1, <3>2, OneIsQuiet DEF Typed
  <2>2. InQuiet
    BY <1>11, SameInIsQuiet DEF AddGroupMember
  <2>3. /\ UNCHANGED <<real, rotated, groups, begun, acked>> /\ zero' \in {zero, 0}
        /\ UNCHANGED creations
    BY <1>11 DEF AddGroupMember, Happens, server, buffers, keyring, ghosts
  <2>4. MemRight'
    BY <1>11, <2>3 DEF AddGroupMember, Happens, server, buffers, keyring, ghosts, Agree,
       KeysAgree, MemRight, Right
  <2>5. DiskRight'
    BY <1>11, <2>3 DEF AddGroupMember, Happens, server, buffers, keyring, ghosts, Agree,
       KeysAgree, DiskRight, Right
  <2>6. WrappedRight'
    BY <1>11, <2>3 DEF AddGroupMember, Happens, server, buffers, keyring, ghosts, Agree,
       KeysAgree, WrappedRight, Right
  <2> QED
    BY <2>1, <2>2, <2>3, <2>4, <2>5, <2>6, AgreeFrame
<1>12. ASSUME NEW g \in Groups, KickMember(g) PROVE Agree'
  <2>1. OutQuiet
    BY <1>12, OneIsQuiet DEF KickMember, Typed
  <2>2. InQuiet
    BY <1>12, SameInIsQuiet DEF KickMember
  <2>3. /\ UNCHANGED <<real, rotated, groups, begun, acked>> /\ zero' \in {zero, 0}
        /\ UNCHANGED creations
    BY <1>12 DEF KickMember, Happens, server, buffers, keyring, ghosts
  <2>4. MemRight'
    BY <1>12, <2>3 DEF KickMember, Happens, server, buffers, keyring, ghosts, Agree, KeysAgree,
       MemRight, Right
  <2>5. DiskRight'
    BY <1>12, <2>3 DEF KickMember, Happens, server, buffers, keyring, ghosts, Agree, KeysAgree,
       DiskRight, Right
  <2>6. WrappedRight'
    BY <1>12, <2>3 DEF KickMember, Happens, server, buffers, keyring, ghosts, Agree, KeysAgree,
       WrappedRight, Right
  <2> QED
    BY <2>1, <2>2, <2>3, <2>4, <2>5, <2>6, AgreeFrame
<1>13. ASSUME NEW g \in Groups, PeerWrites(g) PROVE Agree'
  <2>1. OutQuiet
    BY <1>13, SameOutIsQuiet DEF PeerWrites
  <2>2. InQuiet
    BY <1>13, OtherReplyIsQuiet DEF PeerWrites, Typed
  <2>3. /\ UNCHANGED <<real, rotated, groups, begun, acked>> /\ zero' \in {zero, 0}
        /\ UNCHANGED creations
    BY <1>13 DEF PeerWrites, Happens, server, buffers, keyring, ghosts
  <2>4. MemRight'
    BY <1>13, <2>3 DEF PeerWrites, Happens, server, buffers, keyring, ghosts, Agree, KeysAgree,
       MemRight, Right
  <2>5. DiskRight'
    BY <1>13, <2>3 DEF PeerWrites, Happens, server, buffers, keyring, ghosts, Agree, KeysAgree,
       DiskRight, Right
  <2>6. WrappedRight'
    BY <1>13, <2>3 DEF PeerWrites, Happens, server, buffers, keyring, ghosts, Agree, KeysAgree,
       WrappedRight, Right
  <2> QED
    BY <2>1, <2>2, <2>3, <2>4, <2>5, <2>6, AgreeFrame
<1>14. ASSUME NEW g \in Groups, RoleChanges(g) PROVE Agree'
  <2>1. OutQuiet
    BY <1>14, SameOutIsQuiet DEF RoleChanges
  <2>2. InQuiet
    BY <1>14, OtherReplyIsQuiet DEF RoleChanges, Typed
  <2>3. /\ UNCHANGED <<real, rotated, groups, begun, acked>> /\ zero' \in {zero, 0}
        /\ UNCHANGED creations
    BY <1>14 DEF RoleChanges, Happens, server, buffers, keyring, ghosts
  <2>4. MemRight'
    BY <1>14, <2>3 DEF RoleChanges, Happens, server, buffers, keyring, ghosts, Agree, KeysAgree,
       MemRight, Right
  <2>5. DiskRight'
    BY <1>14, <2>3 DEF RoleChanges, Happens, server, buffers, keyring, ghosts, Agree, KeysAgree,
       DiskRight, Right
  <2>6. WrappedRight'
    BY <1>14, <2>3 DEF RoleChanges, Happens, server, buffers, keyring, ghosts, Agree, KeysAgree,
       WrappedRight, Right
  <2> QED
    BY <2>1, <2>2, <2>3, <2>4, <2>5, <2>6, AgreeFrame
<1>15. ASSUME ServerLogin(Head(outbox)), Serve PROVE Agree'
  <2>1. OutQuiet
    BY <1>15, ServeIsQuiet DEF Typed
  <2>2. InQuiet
    BY <1>15, OtherReplyIsQuiet DEF ServerLogin, Reply, Typed
  <2>3. /\ UNCHANGED <<real, rotated, groups, begun, acked>> /\ zero' \in {zero, 0}
        /\ UNCHANGED creations
    BY <1>15 DEF ServerLogin, Serve, server, buffers, keyring, ghosts
  <2>4. MemRight'
    BY <1>15, <2>3 DEF ServerLogin, Serve, server, buffers, keyring, ghosts, Agree, KeysAgree,
       MemRight, Right
  <2>5. DiskRight'
    BY <1>15, <2>3 DEF ServerLogin, Serve, server, buffers, keyring, ghosts, Agree, KeysAgree,
       DiskRight, Right
  <2>6. WrappedRight'
    BY <1>15, <2>3 DEF ServerLogin, Serve, server, buffers, keyring, ghosts, Agree, KeysAgree,
       WrappedRight, Right
  <2> QED
    BY <2>1, <2>2, <2>3, <2>4, <2>5, <2>6, AgreeFrame
<1>16. ASSUME ServerFetch(Head(outbox)), Serve PROVE Agree'
  <2>1. OutQuiet
    BY <1>16, ServeIsQuiet DEF Typed
  <2>2. InQuiet
    BY <1>16, OtherReplyIsQuiet DEF ServerFetch, Reply, Typed
  <2>3. /\ UNCHANGED <<real, rotated, groups, begun, acked>> /\ zero' \in {zero, 0}
        /\ UNCHANGED creations
    BY <1>16 DEF ServerFetch, Serve, server, buffers, keyring, ghosts
  <2>4. MemRight'
    BY <1>16, <2>3 DEF ServerFetch, Serve, server, buffers, keyring, ghosts, Agree, KeysAgree,
       MemRight, Right
  <2>5. DiskRight'
    BY <1>16, <2>3 DEF ServerFetch, Serve, server, buffers, keyring, ghosts, Agree, KeysAgree,
       DiskRight, Right
  <2>6. WrappedRight'
    BY <1>16, <2>3 DEF ServerFetch, Serve, server, buffers, keyring, ghosts, Agree, KeysAgree,
       WrappedRight, Right
  <2> QED
    BY <2>1, <2>2, <2>3, <2>4, <2>5, <2>6, AgreeFrame
<1>17. ASSUME ServerCreate(Head(outbox)), Serve PROVE Agree'
  <2> DEFINE k == Head(outbox).key
             r == [kind |-> "info", group |-> groups + 1, created |-> TRUE]
  <2>1. /\ groups + 1 \in Groups /\ sess \in Users /\ groups \in Nat
        /\ Head(outbox) \in Creates
    <3>1. ServerCreate(Head(outbox)) /\ outbox # <<>> /\ Typed
      BY <1>17, <1>1 DEF Serve
    <3>2. Head(outbox) \in Creates
      BY <1>17, <1>1, <3>1 DEF ServerCreate, Serve, OutFields
    <3>3. groups + 1 \in Groups
      BY <3>1, <3>2, FreshGroup DEF Typed
    <3>4. sess \in Users
      BY <1>17, <1>1, <3>1, HeadSession DEF ServerCreate, Serve, Typed, TypeOK
    <3>5. groups \in Nat
      BY <3>1 DEF Typed, TypeOK, Groups
    <3> QED
      BY <3>2, <3>3, <3>4, <3>5
  <2>2. /\ groups' = groups + 1 /\ real' = [real EXCEPT ![groups + 1] = k]
        /\ wrapped' = [wrapped EXCEPT ![groups + 1][sess] = k]
        /\ inbox' = Append(inbox, r) /\ outbox' = Tail(outbox) /\ outbox # <<>>
        /\ UNCHANGED <<mem, disk, rotated, zero, begun, acked, creations>>
    BY <1>17 DEF ServerCreate, Reply, Serve, buffers, keyring
  <2>3. real \in [Groups -> Keys] /\ wrapped \in [Groups -> [Users -> Keys]]
    BY DEF Typed, Shapes, ServerShapes
  <2>4. real[groups + 1] = 0 /\ real'[groups + 1] = k
        /\ \A g \in Groups : g # groups + 1 => real'[g] = real[g]
    BY <2>1, <2>2, <2>3 DEF Agree, KeysAgree, Unmade
  <2>5. RealKept
    BY <2>2, <2>4 DEF RealKept
  <2>6. ToSet(inbox') \subseteq ToSet(inbox) \cup {r}
    BY <2>2, AppendElems DEF Typed, Queues, InboxOK
  <2>7. ToSet(outbox') \subseteq ToSet(outbox) /\ Head(outbox) \in ToSet(outbox)
    BY <2>2, TailElems DEF Typed, Queues, OutboxOK
  <2>8. MemRight'
    BY <2>2, <2>5, RightStays DEF Agree, KeysAgree, MemRight, Right, Later
  <2>9. DiskRight'
    BY <2>2, <2>5, RightStays DEF Agree, KeysAgree, DiskRight, Right, Later
  <2>10. WrappedRight'
    <3>1. \A u \in Users, g \in Groups :
            wrapped'[g][u] = wrapped[g][u] \/ (g = groups + 1 /\ wrapped'[g][u] = k)
      BY <2>1, <2>2, <2>3
    <3>2. \A u \in Users, g \in Groups : Later(g, wrapped[g][u]) /\ Later(groups + 1, k)
      BY <2>4, <2>5, RightStays DEF Agree, KeysAgree, WrappedRight, Later
    <3>3. \A g \in Groups : g > groups' => g > groups /\ g # groups + 1
      BY <2>1, <2>2 DEF Groups
    <3> QED
      BY <3>1, <3>2, <3>3 DEF Agree, KeysAgree, WrappedRight, Right, Later
  <2>11. InRight'
    <3>1. r \notin KeyPackets
      BY DEF KeyPackets
    <3>2. \A p \in KeyPackets : p.group \in Groups
      BY DEF KeyPackets
    <3> HIDE DEF r
    <3> QED
      BY <2>5, <2>6, <3>1, <3>2, RightStays DEF Agree, KeysAgree, InRight, Right, Later
  <2>12. OutRight'
    <3>1. \A p \in Gives : p.group \in Groups
      BY DEF Gives
    <3> QED
      BY <2>5, <2>7, <3>1, RightStays DEF Agree, KeysAgree, OutRight, Right, Later
  <2>13. Unmade'
    <3>1. \A g \in Groups : g > groups' => g > groups /\ g # groups + 1
      BY <2>1, <2>2 DEF Groups
    <3> QED
      BY <2>4, <3>1 DEF Agree, KeysAgree, Unmade
  <2>14. zero # 0 => ZeroIn'
    <3>1. \A p \in Created : p.group \in Groups
      BY DEF Created
    <3>2. zero # 0 => k = zero
      BY <2>1, <2>7 DEF Agree, OneCreation, ZeroOut
    <3>3. r.group = groups + 1
      OBVIOUS
    <3> HIDE DEF r, k
    <3> QED
      BY <2>2, <2>4, <2>6, <3>1, <3>2, <3>3 DEF Agree, OneCreation, ZeroIn
  <2>15. zero # 0 => ZeroOut' /\ ZeroWaits'
    BY <2>2, <2>7 DEF Agree, OneCreation, ZeroOut, ZeroWaits
  <2>16. OneCreation'
    BY <2>2, <2>14, <2>15 DEF Agree, OneCreation
  <2> QED
    BY <2>8, <2>9, <2>10, <2>11, <2>12, <2>13, <2>16 DEF Agree, KeysAgree
<1>18. ASSUME ServerRecover(Head(outbox)), Serve PROVE Agree'
  <2>1. OutQuiet
    BY <1>18, ServeIsQuiet DEF Typed
  <2>2. InQuiet
    <3> DEFINE g == Head(outbox).group
               r == [kind |-> "invite", group |-> g, key |-> wrapped[g][sess], user |-> sess]
    <3>1. inbox' = Append(inbox, Err) \/ inbox' = Append(inbox, r)
      BY <1>18 DEF ServerRecover, Reply
    <3>2. r \notin Created
      BY DEF Created
    <3>3. g \in Groups /\ sess \in Users
      BY <1>18, <1>1, HeadSession DEF ServerRecover, Serve, OutFields, Typed
    <3>4. Right(r.group, r.key)
      BY <3>3 DEF Agree, KeysAgree, WrappedRight
    <3> HIDE DEF r
    <3> QED
      BY <3>1, <3>2, <3>4, ReplyIsQuiet, OtherReplyIsQuiet DEF Err, Typed
  <2>3. /\ UNCHANGED <<real, rotated, groups, begun, acked>> /\ zero' \in {zero, 0}
        /\ UNCHANGED creations
    BY <1>18 DEF ServerRecover, Serve, server, buffers, keyring, ghosts
  <2>4. MemRight'
    BY <1>18, <2>3 DEF ServerRecover, Serve, server, buffers, keyring, ghosts, Agree, KeysAgree,
       MemRight, Right
  <2>5. DiskRight'
    BY <1>18, <2>3 DEF ServerRecover, Serve, server, buffers, keyring, ghosts, Agree, KeysAgree,
       DiskRight, Right
  <2>6. WrappedRight'
    BY <1>18, <2>3 DEF ServerRecover, Serve, server, buffers, keyring, ghosts, Agree, KeysAgree,
       WrappedRight, Right
  <2> QED
    BY <2>1, <2>2, <2>3, <2>4, <2>5, <2>6, AgreeFrame
<1>19. ASSUME ServerMessage(Head(outbox)), Serve PROVE Agree'
  <2>1. OutQuiet
    BY <1>19, ServeIsQuiet DEF Typed
  <2>2. InQuiet
    BY <1>19, SameInIsQuiet, OtherReplyIsQuiet DEF ServerMessage, Reply, Err, Typed
  <2>3. /\ UNCHANGED <<real, rotated, groups, begun, acked>> /\ zero' \in {zero, 0}
        /\ UNCHANGED creations
    BY <1>19 DEF ServerMessage, Serve, server, buffers, keyring, ghosts
  <2>4. MemRight'
    BY <1>19, <2>3 DEF ServerMessage, Serve, server, buffers, keyring, ghosts, Agree, KeysAgree,
       MemRight, Right
  <2>5. DiskRight'
    BY <1>19, <2>3 DEF ServerMessage, Serve, server, buffers, keyring, ghosts, Agree, KeysAgree,
       DiskRight, Right
  <2>6. WrappedRight'
    BY <1>19, <2>3 DEF ServerMessage, Serve, server, buffers, keyring, ghosts, Agree, KeysAgree,
       WrappedRight, Right
  <2> QED
    BY <2>1, <2>2, <2>3, <2>4, <2>5, <2>6, AgreeFrame
<1>20. ASSUME ServerText(Head(outbox)), Serve PROVE Agree'
  <2>1. OutQuiet
    BY <1>20, ServeIsQuiet DEF Typed
  <2>2. InQuiet
    BY <1>20, SameInIsQuiet DEF ServerText
  <2>3. /\ UNCHANGED <<real, rotated, groups, begun, acked>> /\ zero' \in {zero, 0}
        /\ UNCHANGED creations
    BY <1>20 DEF ServerText, Serve, server, buffers, keyring, ghosts
  <2>4. MemRight'
    BY <1>20, <2>3 DEF ServerText, Serve, server, buffers, keyring, ghosts, Agree, KeysAgree,
       MemRight, Right
  <2>5. DiskRight'
    BY <1>20, <2>3 DEF ServerText, Serve, server, buffers, keyring, ghosts, Agree, KeysAgree,
       DiskRight, Right
  <2>6. WrappedRight'
    BY <1>20, <2>3 DEF ServerText, Serve, server, buffers, keyring, ghosts, Agree, KeysAgree,
       WrappedRight, Right
  <2> QED
    BY <2>1, <2>2, <2>3, <2>4, <2>5, <2>6, AgreeFrame
<1>21. ASSUME ServerGive(Head(outbox)), Serve PROVE Agree'
  <2> DEFINE h == Head(outbox).group
             k == Head(outbox).key
  <2>0. sess \in Users /\ groups \in Nat
    BY <1>21, HeadSession DEF ServerGive, Serve, Typed, TypeOK, Groups
  <2>1. h \in Groups /\ sess \in Users /\ Head(outbox) \in Gives /\ k # 0 /\ groups \in Nat
    BY <1>21, <1>1, <2>0 DEF ServerGive, Serve, OutFields
  <2>2. Head(outbox) \in ToSet(outbox) /\ ToSet(outbox') \subseteq ToSet(outbox)
    BY <1>21, TailElems DEF Serve, Typed, Queues, OutboxOK
  <2>3. UNCHANGED <<groups, wrapped, mem, disk, rotated, zero, begun, acked, creations>>
    BY <1>21 DEF ServerGive, Serve, buffers, keyring
  <2>4. Right(h, k)
    BY <2>1, <2>2 DEF Agree, KeysAgree, OutRight
  <2>5. InQuiet
    BY <1>21, SameInIsQuiet, OtherReplyIsQuiet DEF ServerGive, Reply, Err, Typed
  <2>6. real' = real \/ (real' = [real EXCEPT ![h] = k] /\ wrapped[h][sess] # 0)
    BY <1>21 DEF ServerGive, Outsider
  <2>7. \A g \in Groups : real'[g] = real[g] \/ (g \in rotated /\ ~(g > groups))
    BY <2>1, <2>4, <2>6 DEF Typed, Shapes, ServerShapes, Agree, KeysAgree, WrappedRight, Right
  <2>8. RealKept
    BY <2>3, <2>7 DEF RealKept
  <2>9. MemRight' /\ DiskRight' /\ WrappedRight'
    <3>1. MemRight'
      BY <2>3, <2>8, RightStays DEF Agree, KeysAgree, MemRight, Right, Later
    <3>2. DiskRight'
      BY <2>3, <2>8, RightStays DEF Agree, KeysAgree, DiskRight, Right, Later
    <3>3. WrappedRight'
      BY <2>3, <2>8, RightStays DEF Agree, KeysAgree, WrappedRight, Right, Later
    <3> QED
      BY <3>1, <3>2, <3>3
  <2>10. InRight'
    <3>1. \A p \in KeyPackets : p.group \in Groups
      BY DEF KeyPackets
    <3> QED
      BY <2>5, <2>8, <3>1, RightStays DEF Agree, KeysAgree, InRight, InQuiet, Right, Later
  <2>11. OutRight'
    <3>1. \A p \in Gives : p.group \in Groups
      BY DEF Gives
    <3> QED
      BY <2>2, <2>8, <3>1, RightStays DEF Agree, KeysAgree, OutRight, Right, Later
  <2>12. Unmade'
    BY <2>3, <2>7 DEF Agree, KeysAgree, Unmade
  <2>13. zero # 0 => ZeroIn'
    <3>1. \A p \in Created : p.group \in Groups
      BY DEF Created
    <3> QED
      BY <2>3, <2>5, <2>7, <3>1 DEF Agree, OneCreation, ZeroIn, InQuiet
  <2>14. zero # 0 => ZeroOut' /\ ZeroWaits'
    BY <2>2, <2>3 DEF Agree, OneCreation, ZeroOut, ZeroWaits
  <2>15. OneCreation'
    BY <2>3, <2>13, <2>14 DEF Agree, OneCreation
  <2> QED
    BY <2>9, <2>10, <2>11, <2>12, <2>15 DEF Agree, KeysAgree
<1>22. ASSUME ServerKick(Head(outbox)), Serve PROVE Agree'
  <2>1. OutQuiet
    BY <1>22, ServeIsQuiet DEF Typed
  <2>2. InQuiet
    <3>1. inbox' = Append(inbox, Err)
          \/ inbox' = Append(inbox, [kind |-> "rotate", group |-> Head(outbox).group])
      BY <1>22 DEF ServerKick, Reply
    <3> QED
      BY <3>1, OtherReplyIsQuiet DEF Err, Typed
  <2>3. /\ UNCHANGED <<real, rotated, groups, begun, acked>> /\ zero' \in {zero, 0}
        /\ UNCHANGED creations
    BY <1>22 DEF ServerKick, Serve, server, buffers, keyring, ghosts
  <2>4. MemRight'
    BY <1>22, <2>3 DEF ServerKick, Serve, server, buffers, keyring, ghosts, Agree, KeysAgree,
       MemRight, Right
  <2>5. DiskRight'
    BY <1>22, <2>3 DEF ServerKick, Serve, server, buffers, keyring, ghosts, Agree, KeysAgree,
       DiskRight, Right
  <2>6. WrappedRight'
    BY <1>22, <2>3 DEF ServerKick, Serve, server, buffers, keyring, ghosts, Agree, KeysAgree,
       WrappedRight, Right
  <2> QED
    BY <2>1, <2>2, <2>3, <2>4, <2>5, <2>6, AgreeFrame
<1>23. ASSUME ServerInfo(Head(outbox)), Serve PROVE Agree'
  <2>1. OutQuiet
    BY <1>23, ServeIsQuiet DEF Typed
  <2>2. InQuiet
    BY <1>23, OtherReplyIsQuiet DEF ServerInfo, Reply, Typed
  <2>3. /\ UNCHANGED <<real, rotated, groups, begun, acked>> /\ zero' \in {zero, 0}
        /\ UNCHANGED creations
    BY <1>23 DEF ServerInfo, Serve, server, buffers, keyring, ghosts
  <2>4. MemRight'
    BY <1>23, <2>3 DEF ServerInfo, Serve, server, buffers, keyring, ghosts, Agree, KeysAgree,
       MemRight, Right
  <2>5. DiskRight'
    BY <1>23, <2>3 DEF ServerInfo, Serve, server, buffers, keyring, ghosts, Agree, KeysAgree,
       DiskRight, Right
  <2>6. WrappedRight'
    BY <1>23, <2>3 DEF ServerInfo, Serve, server, buffers, keyring, ghosts, Agree, KeysAgree,
       WrappedRight, Right
  <2> QED
    BY <2>1, <2>2, <2>3, <2>4, <2>5, <2>6, AgreeFrame
<1>24. ASSUME LoginAcked(Head(inbox)), Read PROVE Agree'
  <2>1. OutQuiet
    BY <1>24, SameOutIsQuiet DEF LoginAcked
  <2>2. InQuiet
    BY <1>24, ReadIsQuiet DEF Typed
  <2>3. /\ UNCHANGED <<real, rotated, groups, begun, acked>> /\ zero' \in {zero, 0}
        /\ UNCHANGED creations
    BY <1>24 DEF LoginAcked, Read, server, buffers, keyring, ghosts
  <2>4. MemRight'
    <3>1. Head(inbox).user \in Users
      BY <1>24, <1>2 DEF LoginAcked, Read, InFields
    <3> QED
      BY <1>24, <2>3, <3>1 DEF LoginAcked, Agree, KeysAgree, MemRight, DiskRight, Right
  <2>5. DiskRight'
    BY <1>24, <2>3 DEF LoginAcked, Read, server, buffers, keyring, ghosts, Agree, KeysAgree,
       DiskRight, Right
  <2>6. WrappedRight'
    BY <1>24, <2>3 DEF LoginAcked, Read, server, buffers, keyring, ghosts, Agree, KeysAgree,
       WrappedRight, Right
  <2> QED
    BY <2>1, <2>2, <2>3, <2>4, <2>5, <2>6, AgreeFrame
<1>25. ASSUME PeerKeyArrives(Head(inbox)), Read PROVE Agree'
  <2>1. /\ UNCHANGED <<mem, disk, wrapped, real, rotated, groups, begun, acked, zero>>
        /\ creations' = <<>> /\ Put(Released)
    BY <1>25 DEF PeerKeyArrives, Read, server, ghosts, Released
  <2>2. ToSet(inbox') \subseteq ToSet(inbox)
    BY <1>25, TailElems DEF Read, Typed, Queues, InboxOK
  <2>3. ToSet(outbox') \subseteq ToSet(outbox) \cup ToSet(Released)
    BY <2>1, ReleasedType, PutElems DEF Typed
  <2>4. \A p \in ToSet(Released) : /\ p \in Creates => p.key \in ToSet(creations)
                                   /\ p \in Gives => Right(p.group, p.key)
    BY ReleasedRight DEF Typed, Agree, KeysAgree
  <2>5. MemRight' /\ DiskRight' /\ WrappedRight' /\ Unmade'
    BY <2>1 DEF Agree, KeysAgree, MemRight, DiskRight, WrappedRight, Unmade, Right
  <2>6. InRight'
    BY <2>1, <2>2 DEF Agree, KeysAgree, InRight, Right
  <2>7. OutRight'
    BY <2>1, <2>3, <2>4 DEF Agree, KeysAgree, OutRight, Right
  <2>8. zero # 0 => ZeroOut'
    BY <2>1, <2>3, <2>4 DEF Agree, OneCreation, ZeroOut, ZeroWaits
  <2>9. ZeroWaits'
    <3>1. ToSet(<<>>) = {}
      BY DEF ToSet
    <3> QED
      BY <2>1, <3>1 DEF ZeroWaits
  <2>10. zero # 0 => ZeroIn'
    BY <2>1, <2>2 DEF Agree, OneCreation, ZeroIn
  <2>11. OneCreation'
    BY <2>1, <2>8, <2>9, <2>10 DEF Agree, OneCreation
  <2> QED
    BY <2>5, <2>6, <2>7, <2>11 DEF Agree, KeysAgree
<1>26. ASSUME GroupInfoArrives(Head(inbox)), Read PROVE Agree'
  <2> DEFINE g == Head(inbox).group
  <2>1. g \in Groups /\ Head(inbox) \in ToSet(inbox) /\ begun \in Nat /\ acked \in Nat
    BY <1>26, <1>2, TailElems DEF GroupInfoArrives, Read, InFields, Typed, Queues, InboxOK,
       Shapes,
       CountShapes
  <2>2. (Head(inbox) \in Created /\ acked' = acked + 1)
        \/ (acked' = acked /\ (zero # 0 => overlap'))
    <3>1. (Head(inbox).created = TRUE /\ Head(inbox) \in Created) \/ Head(inbox).created = FALSE
      BY <1>26, <1>2 DEF GroupInfoArrives, Read, InFields
    <3>2. zero # 0 => begun > acked
      BY <2>1 DEF Agree, OneCreation
    <3> QED
      BY <1>26, <3>1, <3>2 DEF GroupInfoArrives
  <2>3. zero # 0 => Right(g, zero)
    BY <2>1, <2>2 DEF Agree, OneCreation, ZeroIn, Right
  <2>4. UNCHANGED <<real, rotated, groups, begun, wrapped, outbox, creations>> /\ zero' = 0
    BY <1>26 DEF GroupInfoArrives, Read, server, buffers
  <2>5. MemRight'
    <3>1. mem' = mem \/ (zero # 0 /\ mem' = [mem EXCEPT ![g] = zero])
      BY <1>26 DEF GroupInfoArrives
    <3> QED
      BY <2>1, <2>3, <2>4, <3>1 DEF Typed, TypeOK, Agree, KeysAgree, MemRight, Right
  <2>6. DiskRight'
    <3>1. disk' = disk \/ (zero # 0 /\ disk' = saveGroupKey(db, g, zero))
      BY <1>26 DEF GroupInfoArrives
    <3>2. CASE disk' = disk
      BY <2>4, <3>2 DEF Agree, KeysAgree, DiskRight, Right
    <3>3. CASE zero # 0 /\ disk' = saveGroupKey(db, g, zero)
      BY <2>1, <2>3, <2>4, <3>3, SavedRight DEF Typed, Shapes, Agree, KeysAgree
    <3> QED
      BY <3>1, <3>2, <3>3
  <2>7. WrappedRight' /\ OutRight' /\ Unmade'
    BY <2>4 DEF Agree, KeysAgree, WrappedRight, OutRight, Unmade, Right
  <2>8. InRight'
    <3>1. ToSet(inbox') \subseteq ToSet(inbox)
      BY <1>26, TailElems DEF Read, Typed, Queues, InboxOK
    <3> QED
      BY <2>4, <3>1 DEF Agree, KeysAgree, InRight, Right
  <2>9. begun' <= acked' + 1
    BY <2>1, <2>2, <2>4 DEF Agree, OneCreation
  <2> QED
    BY <2>4, <2>5, <2>6, <2>7, <2>8, <2>9 DEF Agree, KeysAgree, OneCreation
<1>27. ASSUME InviteArrives(Head(inbox)), Read PROVE Agree'
  <2>1. OutQuiet
    <3>1. Put(Drained(Head(inbox)))
      BY <1>27 DEF InviteArrives, DrainSends, Drained
    <3>2. Head(inbox).group \in Groups /\ Head(inbox).key \in Keys
      BY <1>27, <1>2 DEF InviteArrives, InFields, Read
    <3>3. Drained(Head(inbox)) \in Seq(OutPackets)
      BY <3>2, DrainedType DEF Typed
    <3>4. \A i \in DOMAIN Drained(Head(inbox)) : Drained(Head(inbox))[i].kind = "send"
      BY DEF Drained, Message
    <3>5. \A p \in ToSet(Drained(Head(inbox))) : p.kind = "send"
      BY <3>4 DEF ToSet
    <3> QED
      BY <3>1, <3>3, <3>5, PutIsQuiet DEF Typed
  <2>2. InQuiet
    BY <1>27, ReadIsQuiet DEF Typed
  <2>3. /\ UNCHANGED <<real, rotated, groups, begun, acked>> /\ zero' \in {zero, 0}
        /\ UNCHANGED creations
    BY <1>27 DEF InviteArrives, TakeKey, Read, server, buffers, keyring, ghosts
  <2>4. MemRight'
    <3>1. Head(inbox).group \in Groups
      BY <1>27, <1>2 DEF InviteArrives, Read, InFields
    <3>2. Right(Head(inbox).group, Head(inbox).key)
      BY <1>27, <1>2, HeadKeyRight DEF InviteArrives, Read, InFields, Typed, Agree, KeysAgree
    <3>3. mem' = [mem EXCEPT ![Head(inbox).group] = Head(inbox).key]
      BY <1>27 DEF InviteArrives, TakeKey
    <3> QED
      BY <2>3, <3>1, <3>2, <3>3 DEF Typed, TypeOK, Agree, KeysAgree, MemRight, Right
  <2>5. DiskRight'
    <3>1. Head(inbox).group \in Groups
      BY <1>27, <1>2 DEF InviteArrives, Read, InFields
    <3>2. Right(Head(inbox).group, Head(inbox).key)
      BY <1>27, <1>2, HeadKeyRight DEF InviteArrives, Read, InFields, Typed, Agree, KeysAgree
    <3>3. disk' = saveGroupKey(db, Head(inbox).group, Head(inbox).key)
      BY <1>27 DEF InviteArrives, TakeKey
    <3> QED
      BY <2>3, <3>1, <3>2, <3>3, SavedRight DEF Typed, Shapes, Agree, KeysAgree
  <2>6. WrappedRight'
    BY <1>27, <2>3 DEF InviteArrives, TakeKey, Read, server, buffers, keyring, ghosts, Agree,
       KeysAgree, WrappedRight, Right
  <2> QED
    BY <2>1, <2>2, <2>3, <2>4, <2>5, <2>6, AgreeFrame
<1>28. ASSUME RekeyArrives(Head(inbox)), Read PROVE Agree'
  <2>1. OutQuiet
    <3>1. Put(Drained(Head(inbox)))
      BY <1>28 DEF RekeyArrives, DrainSends, Drained
    <3>2. Head(inbox).group \in Groups /\ Head(inbox).key \in Keys
      BY <1>28, <1>2 DEF RekeyArrives, InFields, Read
    <3>3. Drained(Head(inbox)) \in Seq(OutPackets)
      BY <3>2, DrainedType DEF Typed
    <3>4. \A i \in DOMAIN Drained(Head(inbox)) : Drained(Head(inbox))[i].kind = "send"
      BY DEF Drained, Message
    <3>5. \A p \in ToSet(Drained(Head(inbox))) : p.kind = "send"
      BY <3>4 DEF ToSet
    <3> QED
      BY <3>1, <3>3, <3>5, PutIsQuiet DEF Typed
  <2>2. InQuiet
    BY <1>28, ReadIsQuiet DEF Typed
  <2>3. /\ UNCHANGED <<real, rotated, groups, begun, acked>> /\ zero' \in {zero, 0}
        /\ UNCHANGED creations
    BY <1>28 DEF RekeyArrives, TakeKey, Read, server, buffers, keyring, ghosts
  <2>4. MemRight'
    <3>1. Head(inbox).group \in Groups
      BY <1>28, <1>2 DEF RekeyArrives, Read, InFields
    <3>2. Right(Head(inbox).group, Head(inbox).key)
      BY <1>28, <1>2, HeadKeyRight DEF RekeyArrives, Read, InFields, Typed, Agree, KeysAgree
    <3>3. mem' = [mem EXCEPT ![Head(inbox).group] = Head(inbox).key]
      BY <1>28 DEF RekeyArrives, TakeKey
    <3> QED
      BY <2>3, <3>1, <3>2, <3>3 DEF Typed, TypeOK, Agree, KeysAgree, MemRight, Right
  <2>5. DiskRight'
    <3>1. Head(inbox).group \in Groups
      BY <1>28, <1>2 DEF RekeyArrives, Read, InFields
    <3>2. Right(Head(inbox).group, Head(inbox).key)
      BY <1>28, <1>2, HeadKeyRight DEF RekeyArrives, Read, InFields, Typed, Agree, KeysAgree
    <3>3. disk' = saveGroupKey(db, Head(inbox).group, Head(inbox).key)
      BY <1>28 DEF RekeyArrives, TakeKey
    <3> QED
      BY <2>3, <3>1, <3>2, <3>3, SavedRight DEF Typed, Shapes, Agree, KeysAgree
  <2>6. WrappedRight'
    BY <1>28, <2>3 DEF RekeyArrives, TakeKey, Read, server, buffers, keyring, ghosts, Agree,
       KeysAgree, WrappedRight, Right
  <2> QED
    BY <2>1, <2>2, <2>3, <2>4, <2>5, <2>6, AgreeFrame
<1>29. ASSUME KeyFails(Head(inbox)), Read PROVE Agree'
  <2>1. OutQuiet
    BY <1>29, SameOutIsQuiet DEF KeyFails
  <2>2. InQuiet
    BY <1>29, ReadIsQuiet DEF Typed
  <2>3. /\ UNCHANGED <<real, rotated, groups, begun, acked>> /\ zero' \in {zero, 0}
        /\ UNCHANGED creations
    BY <1>29 DEF KeyFails, Read, server, buffers, keyring, ghosts
  <2>4. MemRight'
    BY <1>29, <2>3 DEF KeyFails, Read, server, buffers, keyring, ghosts, Agree, KeysAgree,
       MemRight, Right
  <2>5. DiskRight'
    BY <1>29, <2>3 DEF KeyFails, Read, server, buffers, keyring, ghosts, Agree, KeysAgree,
       DiskRight, Right
  <2>6. WrappedRight'
    BY <1>29, <2>3 DEF KeyFails, Read, server, buffers, keyring, ghosts, Agree, KeysAgree,
       WrappedRight, Right
  <2> QED
    BY <2>1, <2>2, <2>3, <2>4, <2>5, <2>6, AgreeFrame
<1>30. ASSUME MessageBuffered(Head(inbox)), Read PROVE Agree'
  <2>1. OutQuiet
    <3>1. Put(<<[kind |-> "recover", group |-> Head(inbox).group]>>) \/ Put(<<>>)
      BY <1>30 DEF MessageBuffered, RequestKey
    <3> QED
      BY <3>1, OneIsQuiet, NoneIsQuiet DEF Typed
  <2>2. InQuiet
    BY <1>30, ReadIsQuiet DEF Typed
  <2>3. /\ UNCHANGED <<real, rotated, groups, begun, acked>> /\ zero' \in {zero, 0}
        /\ UNCHANGED creations
    BY <1>30 DEF MessageBuffered, Read, server, buffers, keyring, ghosts
  <2>4. MemRight'
    BY <1>30, <2>3 DEF MessageBuffered, Read, server, buffers, keyring, ghosts, Agree,
       KeysAgree, MemRight, Right
  <2>5. DiskRight'
    BY <1>30, <2>3 DEF MessageBuffered, Read, server, buffers, keyring, ghosts, Agree,
       KeysAgree, DiskRight, Right
  <2>6. WrappedRight'
    BY <1>30, <2>3 DEF MessageBuffered, Read, server, buffers, keyring, ghosts, Agree,
       KeysAgree, WrappedRight, Right
  <2> QED
    BY <2>1, <2>2, <2>3, <2>4, <2>5, <2>6, AgreeFrame
<1>31. ASSUME MessageRead(Head(inbox)), Read PROVE Agree'
  <2>1. OutQuiet
    BY <1>31, SameOutIsQuiet DEF MessageRead
  <2>2. InQuiet
    BY <1>31, ReadIsQuiet DEF Typed
  <2>3. /\ UNCHANGED <<real, rotated, groups, begun, acked>> /\ zero' \in {zero, 0}
        /\ UNCHANGED creations
    BY <1>31 DEF MessageRead, Read, server, buffers, keyring, ghosts
  <2>4. MemRight'
    <3>1. Head(inbox).group \in Groups
      BY <1>31, <1>2 DEF MessageRead, Read, InFields
    <3>2. Right(Head(inbox).group, loadGroupKey(Head(inbox).group))
      BY <3>1 DEF loadGroupKey, Typed, Shapes, ClientShapes, Agree, KeysAgree, DiskRight, Right
    <3>3. mem' = [mem EXCEPT ![Head(inbox).group] =
                     IF @ # 0 THEN @ ELSE loadGroupKey(Head(inbox).group)]
      BY <1>31 DEF MessageRead
    <3> QED
      BY <2>3, <3>1, <3>2, <3>3 DEF Typed, TypeOK, Agree, KeysAgree, MemRight, Right
  <2>5. DiskRight'
    BY <1>31, <2>3 DEF MessageRead, Read, server, buffers, keyring, ghosts, Agree, KeysAgree,
       DiskRight, Right
  <2>6. WrappedRight'
    BY <1>31, <2>3 DEF MessageRead, Read, server, buffers, keyring, ghosts, Agree, KeysAgree,
       WrappedRight, Right
  <2> QED
    BY <2>1, <2>2, <2>3, <2>4, <2>5, <2>6, AgreeFrame
<1>32. ASSUME Rotate(Head(inbox)), Read PROVE Agree'
  <2> DEFINE g == Head(inbox).group
  <2>1. g \in Groups
    BY <1>32, <1>2 DEF Rotate, Read, InFields
  <2>2. /\ UNCHANGED <<real, groups, begun, acked, zero, wrapped, creations>>
        /\ rotated' = rotated \cup {g}
        /\ mem' = [mem EXCEPT ![g] = keys + 1] /\ disk' = saveGroupKey(db, g, keys + 1)
    BY <1>32 DEF Rotate, Read, server, buffers
  <2>3. OutQuiet
    BY <1>32, OneIsQuiet DEF Rotate, Typed
  <2>4. ToSet(inbox') \subseteq ToSet(inbox)
    BY <1>32, TailElems DEF Read, Typed, Queues, InboxOK
  <2>5. MemRight'
    BY <2>1, <2>2 DEF Typed, TypeOK, Agree, KeysAgree, MemRight, Right
  <2>6. DiskRight'
    <3>1. disk' = disk \/ (db \in Users /\ disk' = [disk EXCEPT ![db][g] = keys + 1])
      BY <2>2 DEF saveGroupKey, Typed, Shapes, ClientShapes
    <3>2. \A u \in Users, h \in Groups : disk'[u][h] = disk[u][h] \/ h = g
      BY <2>1, <3>1 DEF Typed, TypeOK
    <3> QED
      BY <2>2, <3>2 DEF Agree, KeysAgree, DiskRight, Right
  <2>7. WrappedRight' /\ Unmade'
    BY <2>2 DEF Agree, KeysAgree, WrappedRight, Unmade, Right
  <2>8. InRight'
    BY <2>2, <2>4 DEF Agree, KeysAgree, InRight, Right
  <2>9. OutRight'
    BY <2>2, <2>3 DEF Agree, KeysAgree, OutRight, OutQuiet, Right
  <2>10. zero # 0 => ZeroOut' /\ ZeroWaits' /\ ZeroIn'
    BY <2>2, <2>3, <2>4 DEF Agree, OneCreation, ZeroOut, ZeroWaits, ZeroIn, OutQuiet
  <2>11. OneCreation'
    BY <2>2, <2>10 DEF Agree, OneCreation
  <2> QED
    BY <2>5, <2>6, <2>7, <2>8, <2>9, <2>11 DEF Agree, KeysAgree
<1>33. ASSUME Left(Head(inbox)), Read PROVE Agree'
  <2>1. OutQuiet
    BY <1>33, SameOutIsQuiet DEF Left
  <2>2. InQuiet
    BY <1>33, ReadIsQuiet DEF Typed
  <2>3. /\ UNCHANGED <<real, rotated, groups, begun, acked>> /\ zero' \in {zero, 0}
        /\ UNCHANGED creations
    BY <1>33 DEF Left, Read, server, buffers, keyring, ghosts
  <2>4. MemRight'
    <3>1. Head(inbox).group \in Groups
      BY <1>33, <1>2 DEF Left, Read, InFields
    <3>3. mem' = [mem EXCEPT ![Head(inbox).group] = 0]
      BY <1>33 DEF Left
    <3> QED
      BY <2>3, <3>1, <3>3 DEF Typed, TypeOK, Agree, KeysAgree, MemRight, Right
  <2>5. DiskRight'
    <3>1. Head(inbox).group \in Groups
      BY <1>33, <1>2 DEF Left, Read, InFields
    <3>2. Right(Head(inbox).group, 0) /\ disk' = saveGroupKey(db, Head(inbox).group, 0)
      BY <1>33 DEF Left, Right
    <3> QED
      BY <2>3, <3>1, <3>2, SavedRight DEF Typed, Shapes, Agree, KeysAgree
  <2>6. WrappedRight'
    BY <1>33, <2>3 DEF Left, Read, server, buffers, keyring, ghosts, Agree, KeysAgree,
       WrappedRight, Right
  <2> QED
    BY <2>1, <2>2, <2>3, <2>4, <2>5, <2>6, AgreeFrame
<1>34. ASSUME ErrArrives(Head(inbox)), Read PROVE Agree'
  <2>1. OutQuiet
    BY <1>34, SameOutIsQuiet DEF ErrArrives
  <2>2. InQuiet
    BY <1>34, ReadIsQuiet DEF Typed
  <2>3. /\ UNCHANGED <<real, rotated, groups, begun, acked>> /\ zero' \in {zero, 0}
        /\ UNCHANGED creations
    BY <1>34 DEF ErrArrives, Read, server, buffers, keyring, ghosts
  <2>4. MemRight'
    BY <1>34, <2>3 DEF ErrArrives, Read, server, buffers, keyring, ghosts, Agree, KeysAgree,
       MemRight, Right
  <2>5. DiskRight'
    BY <1>34, <2>3 DEF ErrArrives, Read, server, buffers, keyring, ghosts, Agree, KeysAgree,
       DiskRight, Right
  <2>6. WrappedRight'
    BY <1>34, <2>3 DEF ErrArrives, Read, server, buffers, keyring, ghosts, Agree, KeysAgree,
       WrappedRight, Right
  <2> QED
    BY <2>1, <2>2, <2>3, <2>4, <2>5, <2>6, AgreeFrame
<1>35. CASE UNCHANGED vars
  BY <1>35, SameOutIsQuiet, SameInIsQuiet, AgreeFrame
     DEF vars, server, buffers, keyring, ghosts, Agree, KeysAgree, MemRight,
         DiskRight, WrappedRight, Right
<1> QED
  BY <1>3, <1>4, <1>5, <1>6, <1>7, <1>8, <1>9, <1>10, <1>11, <1>12, <1>13,
     <1>14, <1>15, <1>16, <1>17, <1>18, <1>19, <1>20, <1>21, <1>22, <1>23,
     <1>24, <1>25, <1>26, <1>27, <1>28, <1>29, <1>30, <1>31, <1>32, <1>33,
     <1>34, <1>35 DEF Next, ServerStep, ClientStep, Serve, Read

\* An overlap is remembered.
LEMMA OverlapStays == ASSUME overlap, [Next]_vars PROVE overlap'
<1>1. ASSUME NEW u \in Users, SendLogin(u) \/ PeerKicks(u) PROVE overlap'
  BY <1>1 DEF SendLogin, PeerKicks, ghosts
<1>2. CASE CreateGroup \/ SendMessage \/ Logout \/ Disconnect \/ PeerGives
  BY <1>2 DEF CreateGroup, SendMessage, Logout, Disconnect, PeerGives, ghosts
<1>3. ASSUME NEW g \in Groups,
             SendGroupMessage(g) \/ AddGroupMember(g) \/ KickMember(g) \/ PeerWrites(g)
             \/ RoleChanges(g)
      PROVE  overlap'
  BY <1>3 DEF SendGroupMessage, AddGroupMember, KickMember, PeerWrites, RoleChanges, ghosts
<1>4. CASE ServerStep
  BY <1>4 DEF ServerStep
<1>5. CASE ClientStep
  BY <1>5 DEF ClientStep, LoginAcked, PeerKeyArrives, GroupInfoArrives, InviteArrives,
     RekeyArrives, TakeKey, KeyFails, MessageBuffered, MessageRead, Rotate, Left, ErrArrives,
     ghosts
<1>6. CASE UNCHANGED vars
  BY <1>6 DEF vars, ghosts
<1> QED
  BY <1>1, <1>2, <1>3, <1>4, <1>5, <1>6 DEF Next

\* At the start the only keys are those of group 1.
LEMMA AgreeInit == Init => Agree
<1> SUFFICES ASSUME Init PROVE Agree
    OBVIOUS
<1>1. ToSet(<<>>) = {}
  BY DEF ToSet
<1>2. MemRight
  BY DEF Init, MemRight, Right
<1>3. DiskRight
  BY DEF Init, DiskRight, Right
<1>4. WrappedRight /\ Unmade
  BY GroupClientConstants DEF Init, WrappedRight, Unmade, Right, Groups
<1>5. InRight /\ OutRight /\ OneCreation
  BY <1>1 DEF Init, InRight, OutRight, OneCreation
<1> QED
  BY <1>2, <1>3, <1>4, <1>5 DEF Agree, KeysAgree

(***************************************************************************)
(* The client encrypts with the key the other members have, whatever the   *)
(* order in which packets, losses of the connection, logouts and logins    *)
(* arrive, unless creations overlapped or the client rotated the key.      *)
(***************************************************************************)
THEOREM KeysAgreed == Spec => []KeyAgreement
<1>1. Init => AgreeInv
  BY AgreeInit DEF AgreeInv
<1>2. Typed /\ AgreeInv /\ [Next]_vars => AgreeInv'
  <2> SUFFICES ASSUME Typed, AgreeInv, [Next]_vars, ~overlap'
               PROVE  Agree'
    BY DEF AgreeInv
  <2>1. ~overlap
    BY OverlapStays
  <2>2. Agree
    BY <2>1 DEF AgreeInv
  <2> QED
    BY <2>2, AgreeStep
<1>3. AgreeInv => KeyAgreement
  BY DEF AgreeInv, Agree, KeysAgree, MemRight, Right, KeyAgreement
<1> QED
  BY <1>1, <1>2, <1>3, TypedAlways, PTL DEF Spec

\* A key saved in the only account's store.
LEMMA SavedInStore ==
    ASSUME OneUser, TypeOK, ClientShapes, InStore, db # NoUser, NEW g \in Groups, NEW k,
           mem' = [mem EXCEPT ![g] = k], disk' = saveGroupKey(db, g, k), adrift \subseteq adrift'
    PROVE  InStore'
<1>1. db \in Users /\ disk' = [disk EXCEPT ![db][g] = k]
  BY DEF saveGroupKey, ClientShapes
<1>2. \A u \in Users : u = db
  BY <1>1 DEF OneUser
<1>3. \A u \in Users, h \in Groups :
        disk'[u][h] = IF h = g THEN k ELSE disk[u][h]
  BY <1>1, <1>2 DEF TypeOK
<1>4. \A h \in Groups : mem'[h] = IF h = g THEN k ELSE mem[h]
  BY DEF TypeOK
<1> QED
  BY <1>3, <1>4 DEF InStore

\* What comes into memory comes into the store.
LEMMA StoreStep == OneUser /\ Typed /\ StoreInv /\ [Next]_vars => StoreInv'
<1> SUFFICES ASSUME OneUser, Typed, StoreInv, [Next]_vars
             PROVE  StoreInv'
    OBVIOUS
<1> USE GroupClientConstants
<1>1. outbox # <<>> => OutFields(Head(outbox)) /\ Tail(outbox) \in Seq(OutPackets)
  BY HeadOut DEF Typed
<1>2. inbox # <<>> => InFields(Head(inbox)) /\ Tail(inbox) \in Seq(InPackets)
  BY HeadIn DEF Typed
<1>3. ASSUME NEW u \in Users, SendLogin(u) PROVE StoreInv'
  BY <1>3
     DEF SendLogin, server, buffers, keyring, ghosts, StoreInv, ZeroOpen,
         InStore
<1>4. ASSUME NEW u \in Users, PeerKicks(u) PROVE StoreInv'
  BY <1>4
     DEF PeerKicks, Happens, server, buffers, keyring, ghosts, StoreInv,
         ZeroOpen, InStore
<1>5. ASSUME CreateGroup PROVE StoreInv'
  <2>1. db # NoUser /\ UNCHANGED <<mem, disk, db, adrift>>
    BY <1>5 DEF CreateGroup, Typed, TypeOK
  <2> QED
    BY <2>1 DEF StoreInv, ZeroOpen, InStore
<1>6. ASSUME SendMessage PROVE StoreInv'
  BY <1>6
     DEF SendMessage, Happens, server, buffers, keyring, ghosts, StoreInv,
         ZeroOpen, InStore
<1>7. ASSUME Logout PROVE StoreInv'
  BY <1>7
     DEF Logout, Happens, server, buffers, keyring, ghosts, StoreInv,
         ZeroOpen, InStore
<1>8. ASSUME Disconnect PROVE StoreInv'
  BY <1>8
     DEF Disconnect, Happens, server, buffers, keyring, ghosts, StoreInv,
         ZeroOpen, InStore
<1>9. ASSUME PeerGives PROVE StoreInv'
  BY <1>9
     DEF PeerGives, Happens, server, buffers, keyring, ghosts, StoreInv,
         ZeroOpen, InStore
<1>10. ASSUME NEW g \in Groups, SendGroupMessage(g) PROVE StoreInv'
  BY <1>10
     DEF SendGroupMessage, Happens, RequestKey, server, buffers, keyring,
         ghosts, StoreInv, ZeroOpen, InStore
<1>11. ASSUME NEW g \in Groups, AddGroupMember(g) PROVE StoreInv'
  BY <1>11
     DEF AddGroupMember, Happens, server, buffers, keyring, ghosts, StoreInv,
         ZeroOpen, InStore
<1>12. ASSUME NEW g \in Groups, KickMember(g) PROVE StoreInv'
  BY <1>12
     DEF KickMember, Happens, server, buffers, keyring, ghosts, StoreInv,
         ZeroOpen, InStore
<1>13. ASSUME NEW g \in Groups, PeerWrites(g) PROVE StoreInv'
  BY <1>13
     DEF PeerWrites, Happens, server, buffers, keyring, ghosts, StoreInv,
         ZeroOpen, InStore
<1>14. ASSUME NEW g \in Groups, RoleChanges(g) PROVE StoreInv'
  BY <1>14
     DEF RoleChanges, Happens, server, buffers, keyring, ghosts, StoreInv,
         ZeroOpen, InStore
<1>15. ASSUME ServerLogin(Head(outbox)), Serve PROVE StoreInv'
  BY <1>15, <1>1
     DEF ServerLogin, Serve, Reply, Err, OutFields, server, buffers, keyring,
         ghosts, StoreInv, ZeroOpen, InStore
<1>16. ASSUME ServerFetch(Head(outbox)), Serve PROVE StoreInv'
  BY <1>16, <1>1
     DEF ServerFetch, Serve, Reply, Err, OutFields, server, buffers, keyring,
         ghosts, StoreInv, ZeroOpen, InStore
<1>17. ASSUME ServerCreate(Head(outbox)), Serve PROVE StoreInv'
  BY <1>17, <1>1
     DEF ServerCreate, Serve, Reply, Err, OutFields, server, buffers, keyring,
         ghosts, StoreInv, ZeroOpen, InStore
<1>18. ASSUME ServerRecover(Head(outbox)), Serve PROVE StoreInv'
  BY <1>18, <1>1
     DEF ServerRecover, Serve, Reply, Err, OutFields, Outsider, server,
         buffers, keyring, ghosts, StoreInv, ZeroOpen, InStore
<1>19. ASSUME ServerMessage(Head(outbox)), Serve PROVE StoreInv'
  BY <1>19, <1>1
     DEF ServerMessage, Serve, Reply, Err, OutFields, Outsider, server,
         buffers, keyring, ghosts, StoreInv, ZeroOpen, InStore
<1>20. ASSUME ServerText(Head(outbox)), Serve PROVE StoreInv'
  BY <1>20, <1>1
     DEF ServerText, Serve, Reply, Err, OutFields, server, buffers, keyring,
         ghosts, StoreInv, ZeroOpen, InStore
<1>21. ASSUME ServerGive(Head(outbox)), Serve PROVE StoreInv'
  BY <1>21, <1>1
     DEF ServerGive, Serve, Reply, Err, OutFields, Outsider, NotAdmin, server,
         buffers, keyring, ghosts, StoreInv, ZeroOpen, InStore
<1>22. ASSUME ServerKick(Head(outbox)), Serve PROVE StoreInv'
  BY <1>22, <1>1
     DEF ServerKick, Serve, Reply, Err, OutFields, Outsider, NotAdmin, server,
         buffers, keyring, ghosts, StoreInv, ZeroOpen, InStore
<1>23. ASSUME ServerInfo(Head(outbox)), Serve PROVE StoreInv'
  BY <1>23, <1>1
     DEF ServerInfo, Serve, Reply, Err, OutFields, server, buffers, keyring,
         ghosts, StoreInv, ZeroOpen, InStore
<1>24. ASSUME LoginAcked(Head(inbox)), Read PROVE StoreInv'
  <2>1. Head(inbox).user \in Users
    BY <1>24, <1>2 DEF LoginAcked, Read, InFields
  <2>2. /\ db' = Head(inbox).user /\ UNCHANGED <<zero, disk, adrift>>
        /\ \A g \in Groups : mem'[g] = disk[Head(inbox).user][g] \/ mem'[g] = mem[g]
    BY <1>24 DEF LoginAcked, ghosts
  <2> QED
    BY <2>1, <2>2 DEF StoreInv, ZeroOpen, InStore, OneUser
<1>25. ASSUME PeerKeyArrives(Head(inbox)), Read PROVE StoreInv'
  BY <1>25, <1>2
     DEF PeerKeyArrives, Read, InFields, server, buffers, keyring, ghosts,
         StoreInv, ZeroOpen, InStore
<1>26. ASSUME GroupInfoArrives(Head(inbox)), Read PROVE StoreInv'
  <2>1. Head(inbox).group \in Groups
    BY <1>26, <1>2 DEF GroupInfoArrives, Read, InFields
  <2>2. /\ zero' = 0 /\ UNCHANGED <<db, adrift>>
        /\ \/ UNCHANGED <<mem, disk>>
           \/ /\ zero # 0 /\ mem' = [mem EXCEPT ![Head(inbox).group] = zero]
              /\ disk' = saveGroupKey(db, Head(inbox).group, zero)
    BY <1>26 DEF GroupInfoArrives
  <2>3. zero # 0 => db # NoUser
    BY DEF StoreInv, ZeroOpen
  <2> QED
    BY <2>1, <2>2, <2>3, SavedInStore DEF Typed, Shapes, StoreInv, ZeroOpen, InStore
<1>27. ASSUME InviteArrives(Head(inbox)), Read PROVE StoreInv'
  <2>1. Head(inbox).group \in Groups
    BY <1>27, <1>2 DEF InviteArrives, Read, InFields
  <2>2. /\ mem' = [mem EXCEPT ![Head(inbox).group] = Head(inbox).key]
        /\ disk' = saveGroupKey(db, Head(inbox).group, Head(inbox).key)
        /\ UNCHANGED <<db, zero, adrift>> /\ Head(inbox).user = me
    BY <1>27 DEF InviteArrives, TakeKey
  <2>3. Head(inbox).user \in Users
    BY <1>27, <1>2 DEF InviteArrives, Read, InFields
  <2>4. db # NoUser
    BY <2>2, <2>3 DEF Typed, TypeOK
  <2> QED
    BY <2>1, <2>2, <2>4, SavedInStore DEF Typed, Shapes, StoreInv, ZeroOpen, InStore
<1>28. ASSUME RekeyArrives(Head(inbox)), Read PROVE StoreInv'
  <2>1. Head(inbox).group \in Groups
    BY <1>28, <1>2 DEF RekeyArrives, Read, InFields
  <2>2. /\ mem' = [mem EXCEPT ![Head(inbox).group] = Head(inbox).key]
        /\ disk' = saveGroupKey(db, Head(inbox).group, Head(inbox).key)
        /\ UNCHANGED <<db, zero, adrift>> /\ Head(inbox).user = me
    BY <1>28 DEF RekeyArrives, TakeKey
  <2>3. Head(inbox).user \in Users
    BY <1>28, <1>2 DEF RekeyArrives, Read, InFields
  <2>4. db # NoUser
    BY <2>2, <2>3 DEF Typed, TypeOK
  <2> QED
    BY <2>1, <2>2, <2>4, SavedInStore DEF Typed, Shapes, StoreInv, ZeroOpen, InStore
<1>29. ASSUME KeyFails(Head(inbox)), Read PROVE StoreInv'
  BY <1>29, <1>2
     DEF KeyFails, Read, InFields, server, buffers, keyring, ghosts, StoreInv,
         ZeroOpen, InStore
<1>30. ASSUME MessageBuffered(Head(inbox)), Read PROVE StoreInv'
  BY <1>30, <1>2
     DEF MessageBuffered, Read, InFields, RequestKey, loadGroupKey, server,
         buffers, keyring, ghosts, StoreInv, ZeroOpen, InStore
<1>31. ASSUME MessageRead(Head(inbox)), Read PROVE StoreInv'
  <2>1. Head(inbox).group \in Groups
    BY <1>31, <1>2 DEF MessageRead, Read, InFields
  <2>2. /\ UNCHANGED <<db, zero, disk, adrift>>
        /\ mem' = [mem EXCEPT ![Head(inbox).group] =
                      IF @ # 0 THEN @ ELSE loadGroupKey(Head(inbox).group)]
    BY <1>31 DEF MessageRead, ghosts
  <2>3. db \in Users \cup {NoUser} /\ mem \in [Groups -> 0..MaxKeys]
    BY DEF Typed, TypeOK, Shapes, ClientShapes
  <2>4. \A g \in Groups : mem'[g] # 0 =>
            mem'[g] = mem[g] \/ (db \in Users /\ mem'[g] = disk[db][g])
    BY <2>1, <2>2, <2>3 DEF loadGroupKey
  <2> QED
    BY <2>2, <2>4 DEF StoreInv, ZeroOpen, InStore, OneUser
<1>32. ASSUME Rotate(Head(inbox)), Read PROVE StoreInv'
  <2>1. Head(inbox).group \in Groups
    BY <1>32, <1>2 DEF Rotate, Read, InFields
  <2>2. /\ mem' = [mem EXCEPT ![Head(inbox).group] = keys + 1]
        /\ disk' = saveGroupKey(db, Head(inbox).group, keys + 1)
        /\ adrift' = IF db = NoUser THEN adrift \cup {Head(inbox).group} ELSE adrift
        /\ UNCHANGED <<db, zero>>
    BY <1>32 DEF Rotate
  <2>3. CASE db # NoUser
    BY <2>1, <2>2, <2>3, SavedInStore DEF Typed, Shapes, StoreInv, ZeroOpen, InStore
  <2>4. CASE db = NoUser
    BY <2>1, <2>2, <2>4 DEF saveGroupKey, Typed, TypeOK, StoreInv, ZeroOpen, InStore
  <2> QED
    BY <2>3, <2>4
<1>33. ASSUME Left(Head(inbox)), Read PROVE StoreInv'
  <2>1. Head(inbox).group \in Groups
    BY <1>33, <1>2 DEF Left, Read, InFields
  <2>2. /\ mem' = [mem EXCEPT ![Head(inbox).group] = 0]
        /\ disk' = saveGroupKey(db, Head(inbox).group, 0)
        /\ UNCHANGED <<db, zero, adrift>>
    BY <1>33 DEF Left, ghosts
  <2>3. disk' = disk \/ (db \in Users /\ disk' = [disk EXCEPT ![db][Head(inbox).group] = 0])
    BY <2>2 DEF saveGroupKey, Typed, Shapes, ClientShapes
  <2>4. \A u \in Users, g \in Groups : g # Head(inbox).group => disk'[u][g] = disk[u][g]
    BY <2>1, <2>3 DEF Typed, TypeOK
  <2> QED
    BY <2>1, <2>2, <2>4 DEF Typed, TypeOK, StoreInv, ZeroOpen, InStore
<1>34. ASSUME ErrArrives(Head(inbox)), Read PROVE StoreInv'
  BY <1>34, <1>2
     DEF ErrArrives, Read, InFields, server, buffers, keyring, ghosts,
         StoreInv, ZeroOpen, InStore
<1>35. CASE UNCHANGED vars
  BY <1>35
     DEF vars, server, buffers, keyring, ghosts, StoreInv, ZeroOpen, InStore
<1> QED
  BY <1>3, <1>4, <1>5, <1>6, <1>7, <1>8, <1>9, <1>10, <1>11, <1>12, <1>13,
     <1>14, <1>15, <1>16, <1>17, <1>18, <1>19, <1>20, <1>21, <1>22, <1>23,
     <1>24, <1>25, <1>26, <1>27, <1>28, <1>29, <1>30, <1>31, <1>32, <1>33,
     <1>34, <1>35 DEF Next, ServerStep, ClientStep, Serve, Read

(***************************************************************************)
(* On an installation with one account, a key that a logged-in client uses *)
(* is in its store, but for a key rotated while the store was closed.      *)
(***************************************************************************)
THEOREM KeysStored == ASSUME OneUser PROVE Spec => []KeyStored
<1>1. Init => StoreInv
  BY DEF Init, StoreInv, ZeroOpen, InStore
<1>2. Typed /\ StoreInv /\ [Next]_vars => StoreInv'
  BY StoreStep
<1>3. Typed /\ StoreInv => KeyStored
  BY DEF Typed, TypeOK, StoreInv, InStore, KeyStored
<1> QED
  BY <1>1, <1>2, <1>3, TypedAlways, PTL DEF Spec
=============================================================================
