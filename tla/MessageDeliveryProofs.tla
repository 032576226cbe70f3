------------------------ MODULE MessageDeliveryProofs ------------------------
(***************************************************************************)
(* Safety of MessageDelivery for any number of connections, devices, users *)
(* and messages, whatever sockets, threads and server processes die.       *)
(***************************************************************************)
EXTENDS MessageDelivery, FiniteSetTheorems, SequenceTheorems, WellFoundedInduction, TLAPS

-----------------------------------------------------------------------------
(***************************************************************************)
(* Types: what is on the wires, in the tables and on the devices.          *)
(***************************************************************************)
Stamps == [t : Nat, fmt : {"iso", "pg"}]

Messages ==
    [kind : {"message"}, from : Users, to : Users, ts : Stamps, echo : BOOLEAN]

Packets == {LoginAck} \cup Messages

Requests == [kind : {"message"}, to : Users, t : Nat] \cup [kind : {"sync"}, cursor : Nat]

Saved == [from : Users, to : Users, t : Nat]

Entries == [id : Nat, msg : Nat, delivered : BOOLEAN, attempts : Nat]

Positions ==
    {"off", "read", "bump", "send", "mark", "idle", "route", "forward", "reload",
     "enqueue", "echo"}

Shapes ==
    /\ pc \in [Conns -> Positions]
    /\ inbox \in [Conns -> Seq(Packets)] /\ outbox \in [Conns -> Seq(Requests)]
    /\ cur \in [Conns -> Nat] /\ last \in [Conns -> Nat]
    /\ tgt \in [Conns -> Conns \cup {None}] /\ pend \in [Conns -> Seq(Entries)]
    /\ clients \in [Users -> Seq(Conns)]
    /\ rows \in Seq(Saved)
    /\ queue \in SUBSET Entries /\ IsFiniteSet(queue) /\ queued \in Nat
    /\ shown \in [Devices -> Seq(Stored)] /\ sends \in Nat

\* A thread has what its next step needs.
InHand ==
    \A c \in Conns : /\ pc[c] \in {"send", "mark"} => pend[c] # <<>>
                     /\ pc[c] = "enqueue" => last[c] # 0

\* The rows a login has read.
ReadRows ==
    \A c \in Conns : \A k \in DOMAIN pend[c] :
        pend[c][k].id \in 1..queued /\ pend[c][k].msg \in Ids

Typed == TypeOK /\ Shapes /\ InHand /\ ReadRows

-----------------------------------------------------------------------------
(***************************************************************************)
(* An id names one message, in the table and in the rows that were read.   *)
(***************************************************************************)
OneMessage ==
    /\ \A q, r \in queue : q.id = r.id => q.msg = r.msg
    /\ \A q \in queue : \A c \in Conns : \A k \in DOMAIN pend[c] :
         pend[c][k].id = q.id => pend[c][k].msg = q.msg

\* The flush marks a row only after it has sent it.
WrittenFirst == \A c \in Conns : pc[c] = "mark" => Head(pend[c]).msg \in wrote

WrittenInv == Typed /\ OneMessage /\ WrittenFirst /\ DeliveredWasWritten

-----------------------------------------------------------------------------
(***************************************************************************)
(* The clock is shared, so an instant names one message: w gives the       *)
(* sender and the recipient of the message of each instant, wherever it    *)
(* is.                                                                     *)
(***************************************************************************)
Writings == [1..sends -> Users \X Users]

Is(w, t, from, to) == t \in 1..sends /\ w[t] = <<from, to>>

InStores(w) ==
    \A d \in Devices : \A k \in DOMAIN shown[d] :
        Is(w, shown[d][k].ts.t, shown[d][k].from, shown[d][k].to)

InTable(w) == \A i \in Ids : Is(w, rows[i].t, rows[i].from, rows[i].to)

InRequests(w) ==
    \A c \in Conns : \A k \in DOMAIN outbox[c] :
        outbox[c][k].kind = "message" => Is(w, outbox[c][k].t, User(c), outbox[c][k].to)

InPackets(w) ==
    \A c \in Conns : \A k \in DOMAIN inbox[c] :
        inbox[c][k].kind = "message" =>
            Is(w, inbox[c][k].ts.t, inbox[c][k].from, inbox[c][k].to)

Agree(w) == InStores(w) /\ InTable(w) /\ InRequests(w) /\ InPackets(w)

\* The store has timestamps in one format.
OneFormat == \A d \in Devices : \A k \in DOMAIN shown[d] : shown[d][k].ts.fmt = "iso"

ShownInv == Typed /\ (\E w \in Writings : Agree(w)) /\ OneFormat /\ ShownOnce

-----------------------------------------------------------------------------
(***************************************************************************)
(* Attempts.  A connection owes a row one attempt from the SELECT to the   *)
(* UPDATE: the row is in its hands and is not the one it has just tried.   *)
(***************************************************************************)
Owes(c, id) ==
    \E k \in DOMAIN pend[c] : pend[c][k].id = id /\ (k = 1 => pc[c] = "bump")

Debtors(id) == {c \in Conns : Owes(c, id)}

Readers(q) == {c \in Conns : User(c) = rows[q.msg].to}

\* A login reads a row once, and only rows of its user.
OwnRows ==
    \A c \in Conns :
        /\ \A j, k \in DOMAIN pend[c] : pend[c][j].id = pend[c][k].id => j = k
        /\ \A k \in DOMAIN pend[c] : rows[pend[c][k].msg].to = User(c)

OneRow == \A q, r \in queue : q.id = r.id => q = r

\* A row out of attempts is read no more: what it is owed only shrinks.
Owed ==
    \A q \in queue :
        \/ q.attempts <= MaxAttempts - 1
        \/ q.attempts + Cardinality(Debtors(q.id)) <= MaxAttempts - 1 + Cardinality(Readers(q))

AttemptsInv == Typed /\ OneMessage /\ OwnRows /\ OneRow /\ Owed
-----------------------------------------------------------------------------
(***************************************************************************)
(* ClientRead, by what is read.                                            *)
(***************************************************************************)
Reads(c) ==
    /\ up[c]
    /\ inbox[c] # <<>>
    /\ inbox' = [inbox EXCEPT ![c] = Tail(inbox[c])]
    /\ UNCHANGED <<thread, up, clients, tables, sends>>

AckRead(c) ==
    /\ Reads(c)
    /\ outbox' = [outbox EXCEPT ![c] =
          Append(outbox[c], [kind |-> "sync", cursor |-> newestTimestamp(DeviceOf[c])])]
    /\ UNCHANGED shown

\* What the client makes of a message packet.
Made(p) == [from |-> p.from, to |-> p.to, ts |-> canonical(p.ts)]

MessageRead(c) ==
    /\ Reads(c)
    /\ Head(inbox[c]).kind # "ack"
    /\ shown' = IF isDuplicate(DeviceOf[c], Made(Head(inbox[c]))) THEN shown
                ELSE [shown EXCEPT ![DeviceOf[c]] = Append(shown[DeviceOf[c]], Made(Head(inbox[c])))]
    /\ UNCHANGED outbox

\* The client reads the ACK of its login, or a message.
LEMMA ReadsOne == \A c \in Conns : ClientRead(c) => AckRead(c) \/ MessageRead(c)
BY DEF ClientRead, AckRead, MessageRead, Reads, Made

-----------------------------------------------------------------------------
\* A non-empty set of natural numbers has a least element.
LEMMA LeastNatural ==
    ASSUME NEW T \in SUBSET Nat, T # {}
    PROVE  \E n \in T : \A m \in T : n <= m
<1> DEFINE D == {0..n : n \in T}
<1>1. IsWellFoundedOn(StrictSubsetOrdering(Nat), FiniteSubsetsOf(Nat))
  BY FS_StrictSubsetOrderingWellFounded
<1>2. \A n \in T : 0..n \in FiniteSubsetsOf(Nat)
  <2> SUFFICES ASSUME NEW n \in T PROVE 0..n \in FiniteSubsetsOf(Nat)
    OBVIOUS
  <2>1. IsFiniteSet(0..n)
    BY FS_Interval
  <2> QED
    BY <2>1 DEF FiniteSubsetsOf
<1>3. D \subseteq FiniteSubsetsOf(Nat) /\ D # {}
  BY <1>2
<1>4. \E x \in D : \A y \in D : ~(<<y, x>> \in StrictSubsetOrdering(Nat))
  <2> HIDE DEF D
  <2> QED
    BY <1>1, <1>3, WFMin
<1>5. PICK n \in T : \A y \in D : ~(<<y, 0..n>> \in StrictSubsetOrdering(Nat))
  BY <1>4
<1>6. \A m \in T : n <= m
  <2> SUFFICES ASSUME NEW m \in T, m < n
               PROVE  FALSE
    OBVIOUS
  <2>1. ~(<<0..m, 0..n>> \in StrictSubsetOrdering(Nat))
    BY <1>5
  <2>2. 0..m \subseteq 0..n /\ 0..m # 0..n
    OBVIOUS
  <2> QED
    BY <2>1, <2>2 DEF StrictSubsetOrdering
<1> QED
  BY <1>6

\* removeClient takes a session out of a vector of sessions.
LEMMA RemoveFirstType ==
    ASSUME NEW S, NEW s \in Seq(S), NEW e
    PROVE  RemoveFirst(s, e) \in Seq(S)
<1> DEFINE I == {i \in 1..Len(s) : s[i] = e}
<1>1. CASE I = {}
  BY <1>1 DEF RemoveFirst
<1>2. CASE I # {}
  <2> I \in SUBSET Nat
    OBVIOUS
  <2>1. PICK n \in I : \A m \in I : n <= m
    <3> HIDE DEF I
    <3> QED
      BY <1>2, LeastNatural
  <2>2. Min(I) \in I
    <3> HIDE DEF I
    <3> QED
      BY <2>1 DEF Min
  <2>3. RemoveFirst(s, e) = SubSeq(s, 1, Min(I) - 1) \o SubSeq(s, Min(I) + 1, Len(s))
    BY <1>2 DEF RemoveFirst, RemoveAt, SelectInSeq
  <2>4. Min(I) \in 1..Len(s)
    BY <2>2
  <2>5. \A j \in 1..Len(s) : s[j] \in S
    OBVIOUS
  <2>6. SubSeq(s, 1, Min(I) - 1) \in Seq(S) /\ SubSeq(s, Min(I) + 1, Len(s)) \in Seq(S)
    <3> HIDE DEF I
    <3> QED
      BY <2>4, <2>5, SubSeqProperties
  <2> QED
    BY <2>3, <2>6
<1> QED
  BY <1>1, <1>2


\* The elements of a queue that was read, or appended to.
LEMMA TailElems ==
    ASSUME NEW T, NEW s \in Seq(T), s # <<>>
    PROVE  /\ Tail(s) \in Seq(T) /\ Head(s) \in T /\ Head(s) = s[1] /\ 1 \in DOMAIN s
           /\ \A i \in DOMAIN Tail(s) : i + 1 \in DOMAIN s /\ Tail(s)[i] = s[i + 1]
           /\ \A i \in DOMAIN s : i = 1 \/ (i - 1 \in DOMAIN Tail(s) /\ Tail(s)[i - 1] = s[i])
OBVIOUS

\* One more at the end.
LEMMA AppendElems ==
    ASSUME NEW T, NEW s \in Seq(T), NEW e \in T
    PROVE  /\ Append(s, e) \in Seq(T)
           /\ \A i \in DOMAIN Append(s, e) :
                \/ i \in DOMAIN s /\ Append(s, e)[i] = s[i]
                \/ i \notin DOMAIN s /\ i = Len(s) + 1 /\ Append(s, e)[i] = e
           /\ \A i \in DOMAIN s : i \in DOMAIN Append(s, e) /\ Append(s, e)[i] = s[i]
           /\ Len(s) + 1 \in DOMAIN Append(s, e) /\ Append(s, e)[Len(s) + 1] = e
OBVIOUS

-----------------------------------------------------------------------------
\* A non-empty finite set of natural numbers has a greatest element.
LEMMA GreatestNatural ==
    ASSUME NEW T \in SUBSET Nat, IsFiniteSet(T), T # {}
    PROVE  \E n \in T : \A m \in T : m <= n
<1> DEFINE Above(n) == {m \in T : m > n}
           D == {Above(n) : n \in T}
<1>1. IsWellFoundedOn(StrictSubsetOrdering(Nat), FiniteSubsetsOf(Nat))
  BY FS_StrictSubsetOrderingWellFounded
<1>2. \A n \in T : Above(n) \in FiniteSubsetsOf(Nat)
  BY FS_Subset DEF FiniteSubsetsOf
<1>3. D \subseteq FiniteSubsetsOf(Nat) /\ D # {}
  BY <1>2
<1>4. \E x \in D : \A y \in D : ~(<<y, x>> \in StrictSubsetOrdering(Nat))
  <2> HIDE DEF D
  <2> QED
    BY <1>1, <1>3, WFMin
<1>5. PICK n \in T : \A y \in D : ~(<<y, Above(n)>> \in StrictSubsetOrdering(Nat))
  BY <1>4
<1>6. \A m \in T : m <= n
  <2> SUFFICES ASSUME NEW m \in T, m > n
               PROVE  FALSE
    OBVIOUS
  <2>1. ~(<<Above(m), Above(n)>> \in StrictSubsetOrdering(Nat))
    BY <1>5
  <2>2. m \in Above(n) /\ m \notin Above(m) /\ Above(n) \subseteq Nat
    <3>1. m \in Nat /\ ~(m > m)
      OBVIOUS
    <3> QED
      BY <3>1
  <2>3. Above(m) \subseteq Above(n)
    <3> SUFFICES ASSUME NEW k \in T, k > m PROVE k > n
      OBVIOUS
    <3> QED
      OBVIOUS
  <2>4. Above(m) # Above(n)
    BY <2>2
  <2> QED
    BY <2>1, <2>2, <2>3, <2>4 DEF StrictSubsetOrdering
<1> QED
  BY <1>6

\* The image of a finite set is finite.
LEMMA FiniteImage ==
    ASSUME NEW S, IsFiniteSet(S), NEW f, DOMAIN f = S
    PROVE  IsFiniteSet({f[x] : x \in S})
<1> DEFINE g == [x \in S |-> f[x]]
           T == {f[x] : x \in S}
<1>1. g \in Surjection(S, T)
  BY DEF Surjection
<1> HIDE DEF T
<1>2. IsFiniteSet(T)
  BY <1>1, FS_Surjection
<1> QED
  BY <1>2 DEF T

\* Every connection belongs to a user.
LEMMA UserType == \A c \in Conns : DeviceOf[c] \in Devices /\ User(c) \in Users
BY DeliveryConstants DEF User

\* The newest stored timestamp is a number.
LEMMA NewestType ==
    ASSUME Shapes, NEW d \in Devices
    PROVE  newestTimestamp(d) \in Nat
<1> DEFINE s == shown[d]
           f == [k \in DOMAIN s |-> s[k].ts.t]
           R == {f[k] : k \in DOMAIN s}
           T == R \cup {0}
<1>1. s \in Seq(Stored)
  BY DEF Shapes
<1>2. \A k \in DOMAIN s : s[k].ts.t \in Nat
  <2>1. \A k \in DOMAIN s : s[k] \in Stored
    BY <1>1
  <2> HIDE DEF s
  <2> QED
    BY <2>1 DEF Stored
<1>3. T \in SUBSET Nat /\ T # {}
  <2>1. \A k \in DOMAIN s : f[k] \in Nat
    BY <1>2
  <2> HIDE DEF f
  <2> QED
    BY <2>1
<1>4. IsFiniteSet(T)
  <2>1. IsFiniteSet(DOMAIN s)
    BY <1>1, FS_Interval
  <2>2. IsFiniteSet(R)
    <3>1. DOMAIN f = DOMAIN s
      OBVIOUS
    <3> HIDE DEF f
    <3> QED
      BY <2>1, <3>1, FiniteImage
  <2> HIDE DEF R
  <2> QED
    BY <2>2, FS_AddElement
<1>5. \E t \in T : \A r \in T : r <= t
  <2> HIDE DEF T
  <2> QED
    BY <1>3, <1>4, GreatestNatural
<1>6. T = {shown[d][k].ts.t : k \in DOMAIN shown[d]} \cup {0}
  OBVIOUS
<1>7. newestTimestamp(d) = CHOOSE t \in T : \A r \in T : r <= t
  BY <1>6 DEF newestTimestamp
<1> HIDE DEF T
<1> QED
  BY <1>3, <1>5, <1>7

\* What a SELECT with ORDER BY returns is a sequence of the rows it selects,
\* without repetitions.
LEMMA SortedType ==
    ASSUME NEW S, IsFiniteSet(S), NEW key, NEW q \in Sorted(S, key)
    PROVE  /\ q \in Seq(S)
           /\ \A i, j \in DOMAIN q : q[i] = q[j] => i = j
<1>1. Cardinality(S) \in Nat
  BY FS_CardinalityType
<1>2. q \in [1..Cardinality(S) -> S] /\ \A i, j \in DOMAIN q : i < j => q[i] # q[j]
  BY DEF Sorted
<1>3. \A i, j \in DOMAIN q : i < j \/ j < i \/ i = j
  BY <1>1, <1>2
<1> QED
  BY <1>1, <1>2, <1>3

\* The rows a login reads.
LEMMA FoundRows ==
    ASSUME Shapes, NEW u, NEW s \in findUndeliveredByRecipient(u)
    PROVE  /\ s \in Seq(Entries)
           /\ \A k \in DOMAIN s : /\ s[k] \in queue /\ rows[s[k].msg].to = u
                                  /\ ~s[k].delivered /\ s[k].attempts < MaxAttempts
           /\ \A i, j \in DOMAIN s : s[i] = s[j] => i = j
<1> DEFINE S == {q \in queue : /\ rows[q.msg].to = u
                               /\ ~q.delivered
                               /\ q.attempts < MaxAttempts}
<1>1. IsFiniteSet(S) /\ S \subseteq Entries
  BY FS_Subset DEF Shapes
<1>2. s \in Sorted(S, [q \in queue |-> q.id])
  BY DEF findUndeliveredByRecipient
<1>3. \A q \in S : /\ q \in queue /\ rows[q.msg].to = u /\ ~q.delivered
                   /\ q.attempts < MaxAttempts
  OBVIOUS
<1> HIDE DEF S
<1>4. s \in Seq(S) /\ \A i, j \in DOMAIN s : s[i] = s[j] => i = j
  BY <1>1, <1>2, SortedType
<1>5. \A k \in DOMAIN s : s[k] \in S
  BY <1>4
<1>6. s \in Seq(Entries)
  BY <1>1, <1>4
<1> QED
  BY <1>3, <1>4, <1>5, <1>6

\* The rows a sync reads.
LEMMA FoundMessages ==
    ASSUME Shapes, NEW u, NEW cursor, NEW s \in findAllForUser(u, cursor)
    PROVE  s \in Seq(Ids)
<1> DEFINE S == {i \in Ids : u \in {rows[i].from, rows[i].to} /\ rows[i].t > cursor}
<1>1. IsFiniteSet(Ids)
  BY FS_Interval DEF Ids, Shapes
<1>2. IsFiniteSet(S) /\ S \subseteq Ids
  BY <1>1, FS_Subset
<1>3. s \in Sorted(S, [i \in Ids |-> rows[i].t])
  BY DEF findAllForUser
<1> HIDE DEF S
<1>4. s \in Seq(S)
  BY <1>2, <1>3, SortedType
<1> QED
  BY <1>2, <1>4

\* A packet with the message of a row.
LEMMA ForwardedType ==
    ASSUME Shapes, NEW i \in Ids, NEW ts \in Stamps, NEW e \in BOOLEAN
    PROVE  /\ Forwarded(i, ts, e) \in Packets
           /\ Forwarded(i, ts, e).kind = "message" /\ Forwarded(i, ts, e).from = rows[i].from
           /\ Forwarded(i, ts, e).to = rows[i].to /\ Forwarded(i, ts, e).ts = ts
<1>1. rows[i].from \in Users /\ rows[i].to \in Users
  <2>1. rows \in Seq(Saved) /\ i \in DOMAIN rows
    BY DEF Shapes, Ids
  <2>2. rows[i] \in Saved
    BY <2>1
  <2> QED
    BY <2>2 DEF Saved
<1> QED
  BY <1>1 DEF Forwarded, Packets, Messages

\* The instants of the rows, in both formats.
LEMMA RowStamps ==
    ASSUME Shapes, NEW i \in Ids
    PROVE  /\ rows[i] \in Saved /\ rows[i].t \in Nat /\ rows[i].to \in Users
           /\ rows[i].from \in Users
           /\ Iso(rows[i].t) \in Stamps /\ Pg(rows[i].t) \in Stamps
<1>1. rows \in Seq(Saved) /\ i \in DOMAIN rows
  BY DEF Shapes, Ids
<1>2. rows[i] \in Saved
  BY <1>1
<1> QED
  BY <1>2 DEF Saved, Iso, Pg, Stamps

\* A packet that is no ACK is a message.
LEMMA PacketKinds ==
    ASSUME NEW p \in Packets
    PROVE  /\ p.kind # "ack" => p \in Messages
           /\ p \in Messages => p.kind = "message"
           /\ p.kind = "message" => p \in Messages
           /\ LoginAck.kind = "ack" /\ LoginAck \in Packets
BY DEF Packets, Messages, LoginAck

\* It is stored with its instant as ISO text.
LEMMA MadeType ==
    ASSUME NEW p \in Messages
    PROVE  /\ Made(p) \in Stored /\ Made(p).from = p.from /\ Made(p).to = p.to
           /\ Made(p).ts.t = p.ts.t /\ Made(p).ts.fmt = "iso" /\ Made(p).ts = Iso(p.ts.t)
BY DEF Messages, Stamps, Stored, Made, canonical, Iso

\* addClient.
LEMMA RegisterType ==
    ASSUME Shapes, NEW c \in Conns, Register(c)
    PROVE  clients' \in [Users -> Seq(Conns)]
<1>1. clients' = clients \/ clients' = [clients EXCEPT ![User(c)] = Append(clients[User(c)], c)]
  BY DEF Register
<1>2. User(c) \in Users /\ clients \in [Users -> Seq(Conns)]
  BY UserType DEF Shapes
<1>3. Append(clients[User(c)], c) \in Seq(Conns)
  BY <1>2, AppendElems
<1> QED
  BY <1>1, <1>2, <1>3

\* removeClient.
LEMMA UnregisterType ==
    ASSUME Shapes, NEW c \in Conns, Unregister(c)
    PROVE  clients' \in [Users -> Seq(Conns)]
<1>1. User(c) \in Users /\ clients \in [Users -> Seq(Conns)]
  BY UserType DEF Shapes
<1>2. RemoveFirst(clients[User(c)], c) \in Seq(Conns)
  BY <1>1, RemoveFirstType
<1> QED
  BY <1>1, <1>2 DEF Unregister

\* The row a flush has in hand.
LEMMA FirstRow ==
    ASSUME Typed, NEW c \in Conns, pend[c] # <<>> \/ pc[c] \in {"send", "mark"}
    PROVE  /\ pend[c] \in Seq(Entries) /\ pend[c] # <<>> /\ 1 \in DOMAIN pend[c]
           /\ Head(pend[c]) = pend[c][1] /\ Head(pend[c]) \in Entries
           /\ Head(pend[c]).msg \in Ids /\ Head(pend[c]).id \in 1..queued
<1>1. pend[c] \in Seq(Entries) /\ pend[c] # <<>>
  BY DEF Typed, Shapes, InHand
<1>2. 1 \in DOMAIN pend[c] /\ Head(pend[c]) = pend[c][1] /\ Head(pend[c]) \in Entries
  BY <1>1, TailElems
<1> QED
  BY <1>1, <1>2 DEF Typed, ReadRows

\* The row a thread handles.
LEMMA CurRow ==
    ASSUME Typed, NEW c \in Conns, pc[c] \in {"route", "forward", "reload", "enqueue", "echo"}
    PROVE  /\ cur[c] \in Ids /\ rows[cur[c]].to \in Users /\ rows[cur[c]].t \in Nat
           /\ rows[cur[c]].from \in Users
<1>1. cur[c] \in Ids
  BY DEF Typed, TypeOK
<1> QED
  BY <1>1, RowStamps DEF Typed

\* One more on one of several wires.
LEMMA PutType ==
    ASSUME NEW T, NEW D, NEW f \in [D -> Seq(T)], NEW d \in D, NEW e \in T
    PROVE  [f EXCEPT ![d] = Append(f[d], e)] \in [D -> Seq(T)]
<1>1. Append(f[d], e) \in Seq(T)
  BY AppendElems
<1> QED
  BY <1>1

\* A function on an initial segment is a sequence.
LEMMA ListType ==
    ASSUME NEW T, NEW n \in Nat, NEW f \in [1..n -> T]
    PROVE  f \in Seq(T)
OBVIOUS

\* What is in a concatenation is in one of its parts.
LEMMA ConcatElems ==
    ASSUME NEW T, NEW r \in Seq(T), NEW a \in Seq(T), NEW b, b = r \o a
    PROVE  /\ b \in Seq(T)
           /\ \A k \in DOMAIN b : \/ k \in DOMAIN r /\ b[k] = r[k]
                                  \/ \E j \in DOMAIN a : b[k] = a[j]
<1>1. b \in Seq(T) /\ Len(b) = Len(r) + Len(a)
  OBVIOUS
<1> SUFFICES ASSUME NEW k \in DOMAIN b
             PROVE  \/ k \in DOMAIN r /\ b[k] = r[k]
                    \/ \E j \in DOMAIN a : b[k] = a[j]
    BY <1>1
<1>2. k \in 1..(Len(r) + Len(a)) /\ Len(r) \in Nat /\ Len(a) \in Nat
  BY <1>1
<1>3. CASE k <= Len(r)
  BY <1>2, <1>3
<1>4. CASE ~(k <= Len(r))
  <2>1. b[k] = a[k - Len(r)]
    BY <1>2, <1>4
  <2>2. k - Len(r) \in DOMAIN a
    BY <1>2, <1>4
  <2> QED
    BY <2>1, <2>2
<1> QED
  BY <1>3, <1>4

\* The packets of a sync.
Replay(s, u) ==
    [k \in DOMAIN s |-> Forwarded(s[k], Pg(rows[s[k]].t), rows[s[k]].from = u)]

\* They are packets, each with the fields of a row.
LEMMA ReplayType ==
    ASSUME Shapes, NEW s \in Seq(Ids), NEW u, NEW a, a = Replay(s, u)
    PROVE  /\ a \in Seq(Packets)
           /\ \A k \in DOMAIN a : \E i \in Ids : /\ a[k].from = rows[i].from
                                                 /\ a[k].to = rows[i].to
                                                 /\ a[k].ts.t = rows[i].t
<1>1. \A k \in DOMAIN s : s[k] \in Ids
  OBVIOUS
<1>2. a = [k \in DOMAIN s |-> Forwarded(s[k], Pg(rows[s[k]].t), rows[s[k]].from = u)]
  BY DEF Replay
<1>3. ASSUME NEW k \in DOMAIN s
      PROVE  /\ a[k] \in Packets /\ a[k].from = rows[s[k]].from
             /\ a[k].to = rows[s[k]].to /\ a[k].ts.t = rows[s[k]].t
  <2>1. PICK p : p = Forwarded(s[k], Pg(rows[s[k]].t), rows[s[k]].from = u)
    OBVIOUS
  <2>2. s[k] \in Ids /\ Pg(rows[s[k]].t) \in Stamps /\ (rows[s[k]].from = u) \in BOOLEAN
    BY <1>1, RowStamps
  <2>3. Pg(rows[s[k]].t).t = rows[s[k]].t
    BY DEF Pg
  <2>4. /\ p \in Packets /\ p.from = rows[s[k]].from /\ p.to = rows[s[k]].to
        /\ p.ts = Pg(rows[s[k]].t)
    BY <2>1, <2>2, ForwardedType
  <2>5. a[k] = p
    BY <1>2, <2>1
  <2> QED
    BY <2>3, <2>4, <2>5
<1>4. DOMAIN a = 1..Len(s) /\ Len(s) \in Nat /\ DOMAIN s = 1..Len(s)
  BY <1>2
<1>5. a \in [1..Len(s) -> Packets]
  BY <1>2, <1>3, <1>4
<1>6. a \in Seq(Packets)
  BY <1>4, <1>5, ListType
<1>7. \A k \in DOMAIN a : k \in DOMAIN s
  BY <1>4
<1> QED
  BY <1>1, <1>3, <1>6, <1>7

\* Every step keeps the types of the wires, the tables and the stores.
LEMMA ShapesStep == Typed /\ [Next]_vars => Shapes'
<1> SUFFICES ASSUME Typed, [Next]_vars
             PROVE  Shapes'
    OBVIOUS
<1> USE DEF Typed
<1>1. ASSUME NEW c \in Conns, Login(c) PROVE Shapes'
  <2>1. \A v \in Conns : inbox'[v] \in Seq(Packets)
    <3>1. \A v \in Conns : inbox'[v] = inbox[v] \/ inbox'[v] = <<LoginAck>>
      BY <1>1 DEF Login, Shapes
    <3>2. <<LoginAck>> \in Seq(Packets)
      BY DEF Packets
    <3>3. \A v \in Conns : inbox[v] \in Seq(Packets)
      BY DEF Shapes
    <3> QED
      BY <3>1, <3>2, <3>3
  <2>2. inbox' \in [Conns -> Seq(Packets)]
    BY <1>1, <2>1 DEF Login, Shapes
  <2> QED
    BY <1>1, <2>2 DEF Login, Goto, thread, net, tables, client, Shapes, Positions
<1>2. ASSUME NEW c \in Conns, AckRead(c) PROVE Shapes'
  <2>1. inbox \in [Conns -> Seq(Packets)] /\ inbox[c] # <<>> /\ inbox' = [inbox EXCEPT ![c] = Tail(inbox[c])]
    BY <1>2 DEF AckRead, MessageRead, Reads, Shapes
  <2>2. Tail(inbox[c]) \in Seq(Packets) /\ Head(inbox[c]) \in Packets
    BY <2>1, TailElems
  <2>3. inbox' \in [Conns -> Seq(Packets)]
    BY <2>1, <2>2

  <2> DEFINE e == [kind |-> "sync", cursor |-> newestTimestamp(DeviceOf[c])]
  <2>4. e \in Requests
    BY UserType, NewestType DEF Requests
  <2>5. outbox' = [outbox EXCEPT ![c] = Append(outbox[c], e)] /\ outbox \in [Conns -> Seq(Requests)]
    BY <1>2 DEF AckRead, Shapes
  <2> HIDE DEF e
  <2>6. outbox' \in [Conns -> Seq(Requests)]
    BY <2>4, <2>5, AppendElems
  <2> QED
    BY <1>2, <2>3, <2>6 DEF AckRead, Reads, thread, tables, Shapes
<1>3. ASSUME NEW c \in Conns, MessageRead(c) PROVE Shapes'
  <2>1. inbox \in [Conns -> Seq(Packets)] /\ inbox[c] # <<>> /\ inbox' = [inbox EXCEPT ![c] = Tail(inbox[c])]
    BY <1>3 DEF AckRead, MessageRead, Reads, Shapes
  <2>2. Tail(inbox[c]) \in Seq(Packets) /\ Head(inbox[c]) \in Packets
    BY <2>1, TailElems
  <2>3. inbox' \in [Conns -> Seq(Packets)]
    BY <2>1, <2>2

  <2> DEFINE m == Made(Head(inbox[c]))
  <2>4. m \in Stored
    BY <1>3, <2>2, PacketKinds, MadeType DEF MessageRead
  <2>5. shown' = shown \/ shown' = [shown EXCEPT ![DeviceOf[c]] = Append(shown[DeviceOf[c]], m)]
    BY <1>3 DEF MessageRead
  <2>6. shown \in [Devices -> Seq(Stored)] /\ DeviceOf[c] \in Devices
    BY UserType DEF Shapes
  <2> HIDE DEF m
  <2>7. shown' \in [Devices -> Seq(Stored)]
    <3>1. [shown EXCEPT ![DeviceOf[c]] = Append(shown[DeviceOf[c]], m)] \in [Devices -> Seq(Stored)]
      BY <2>4, <2>6, PutType
    <3> QED
      BY <2>5, <2>6, <3>1
  <2> QED
    BY <1>3, <2>3, <2>7 DEF MessageRead, Reads, thread, tables, Shapes
<1>4. ASSUME NEW c \in Conns, Close(c) PROVE Shapes'
  <2>1. inbox' \in [Conns -> Seq(Packets)] /\ outbox' \in [Conns -> Seq(Requests)]
    BY <1>4 DEF Close, Shapes
  <2> QED
    BY <1>4, <2>1 DEF Close, thread, tables, client, Shapes
<1>5. ASSUME NEW c \in Conns, ReadPending(c) PROVE Shapes'
  <2>1. PICK s \in findUndeliveredByRecipient(User(c)) : pend' = [pend EXCEPT ![c] = s]
    BY <1>5 DEF ReadPending
  <2>2. s \in Seq(Entries)
    BY <2>1, FoundRows
  <2>3. pend' \in [Conns -> Seq(Entries)]
    BY <2>1, <2>2 DEF Shapes
  <2> QED
    BY <1>5, <2>3 DEF ReadPending, Goto, thread, net, tables, client, Shapes, Positions
<1>6. ASSUME NEW c \in Conns, IncrementAttempts(c) PROVE Shapes'
  <2> DEFINE f == [q \in queue |-> IF q.id = Head(pend[c]).id THEN [q EXCEPT !.attempts = @ + 1] ELSE q]
  <2>1. queue \in SUBSET Entries /\ IsFiniteSet(queue)
    BY DEF Shapes
  <2>2. \A q \in queue : f[q] \in Entries
    BY <2>1 DEF Entries
  <2>3. queue' = {f[q] : q \in queue} /\ DOMAIN f = queue
    BY <1>6 DEF IncrementAttempts
  <2> HIDE DEF f
  <2>4. queue' \in SUBSET Entries /\ IsFiniteSet(queue')
    BY <2>1, <2>2, <2>3, FiniteImage

  <2> QED
    BY <1>6, <2>4 DEF IncrementAttempts, Goto, thread, net, tables, client, Shapes, Positions
<1>7. ASSUME NEW c \in Conns, SendPending(c) PROVE Shapes'
  <2> DEFINE i == Head(pend[c]).msg
             p == Forwarded(i, Pg(rows[i].t), FALSE)
  <2>1. i \in Ids
    BY <1>7, FirstRow DEF SendPending
  <2>2. p \in Packets
    BY <2>1, RowStamps, ForwardedType
  <2>3. inbox' = inbox \/ inbox' = [inbox EXCEPT ![c] = Append(inbox[c], p)]
    BY <1>7 DEF SendPending
  <2>4. inbox \in [Conns -> Seq(Packets)]
    BY DEF Shapes
  <2> HIDE DEF p
  <2>5. inbox' \in [Conns -> Seq(Packets)]
    <3>1. [inbox EXCEPT ![c] = Append(inbox[c], p)] \in [Conns -> Seq(Packets)]
      BY <2>2, <2>4, PutType
    <3> QED
      BY <2>3, <2>4, <3>1
  <2>6. pend' \in [Conns -> Seq(Entries)] /\ pc' \in [Conns -> Positions]
    <3>1. pend' = pend \/ pend' = [pend EXCEPT ![c] = <<>>]
      BY <1>7 DEF SendPending
    <3>2. pend' \in [Conns -> Seq(Entries)]
      <4>1. pend \in [Conns -> Seq(Entries)]
        BY DEF Shapes
      <4>2. [pend EXCEPT ![c] = <<>>] \in [Conns -> Seq(Entries)]
        BY <4>1
      <4> QED
        BY <3>1, <4>1, <4>2
    <3>3. pc' \in [Conns -> Positions]
      BY <1>7 DEF SendPending, Goto, Shapes, Positions
    <3> QED
      BY <3>2, <3>3
  <2> QED
    BY <1>7, <2>5, <2>6 DEF SendPending, client, Shapes
<1>8. ASSUME NEW c \in Conns, MarkDelivered(c) PROVE Shapes'
  <2> DEFINE f == [q \in queue |-> IF q.id = Head(pend[c]).id THEN [q EXCEPT !.delivered = TRUE] ELSE q]
  <2>1. queue \in SUBSET Entries /\ IsFiniteSet(queue)
    BY DEF Shapes
  <2>2. \A q \in queue : f[q] \in Entries
    BY <2>1 DEF Entries
  <2>3. queue' = {f[q] : q \in queue} /\ DOMAIN f = queue
    BY <1>8 DEF MarkDelivered
  <2> HIDE DEF f
  <2>4. queue' \in SUBSET Entries /\ IsFiniteSet(queue')
    BY <2>1, <2>2, <2>3, FiniteImage

  <2>5. pend \in [Conns -> Seq(Entries)] /\ pend[c] # <<>>
    BY <1>8 DEF MarkDelivered, Shapes, InHand
  <2>6. Tail(pend[c]) \in Seq(Entries)
    BY <2>5, TailElems
  <2>7. pend' \in [Conns -> Seq(Entries)]
    BY <1>8, <2>5, <2>6 DEF MarkDelivered
  <2> QED
    BY <1>8, <2>4, <2>7 DEF MarkDelivered, Goto, thread, net, tables, client, Shapes, Positions
<1>9. ASSUME NEW c \in Conns, Join(c) PROVE Shapes'
  BY <1>9, RegisterType DEF Join, Goto, thread, net, tables, client, Shapes, Positions
<1>10. ASSUME NEW c \in Conns, JoinFails(c) PROVE Shapes'
  BY <1>10 DEF JoinFails, Goto, thread, net, tables, client, Shapes, Positions
<1>11. ASSUME NEW c \in Conns, SaveMessage(c) PROVE Shapes'
  <2>1. outbox \in [Conns -> Seq(Requests)] /\ outbox[c] # <<>> /\ outbox' = [outbox EXCEPT ![c] = Tail(outbox[c])]
    BY <1>11 DEF SaveMessage, Shapes
  <2>2. Tail(outbox[c]) \in Seq(Requests) /\ Head(outbox[c]) \in Requests
    BY <2>1, TailElems
  <2>3. outbox' \in [Conns -> Seq(Requests)]
    BY <2>1, <2>2

  <2> DEFINE e == [from |-> User(c), to |-> Head(outbox[c]).to, t |-> Head(outbox[c]).t]
  <2>4. e \in Saved
    BY <1>11, <2>2, UserType DEF SaveMessage, Requests, Saved
  <2>5. rows' = Append(rows, e) /\ rows \in Seq(Saved)
    BY <1>11 DEF SaveMessage, Shapes
  <2> HIDE DEF e
  <2>6. rows' \in Seq(Saved) /\ Len(rows) + 1 \in Nat
    BY <2>4, <2>5, AppendElems
  <2>7. cur' \in [Conns -> Nat]
    BY <1>11, <2>6 DEF SaveMessage, Shapes
  <2> QED
    BY <1>11, <2>3, <2>6, <2>7 DEF SaveMessage, Goto, thread, net, tables, client, Shapes,
       Positions
<1>12. ASSUME NEW c \in Conns, Route(c) PROVE Shapes'
  <2> DEFINE v == clients[rows[cur[c]].to]
  <2>1. rows[cur[c]].to \in Users
    BY <1>12, CurRow DEF Route
  <2>2. v \in Seq(Conns)
    BY <2>1 DEF Shapes
  <2>3. v # <<>> => Head(v) \in Conns
    BY <2>2, TailElems
  <2>4. tgt' = tgt \/ (v # <<>> /\ tgt' = [tgt EXCEPT ![c] = Head(v)])
    BY <1>12 DEF Route
  <2> HIDE DEF v
  <2>5. tgt' \in [Conns -> Conns \cup {None}]
    BY <2>3, <2>4 DEF Shapes
  <2>6. pc' \in [Conns -> Positions]
    BY <1>12 DEF Route, Goto, Shapes, Positions
  <2> QED
    BY <1>12, <2>5, <2>6 DEF Route, net, tables, client, Shapes
<1>13. ASSUME NEW c \in Conns, Forward(c) PROVE Shapes'
  <2> DEFINE p == Forwarded(cur[c], Iso(rows[cur[c]].t), FALSE)
  <2>1. cur[c] \in Ids
    BY <1>13, CurRow DEF Forward
  <2>2. p \in Packets
    BY <2>1, RowStamps, ForwardedType
  <2>3. inbox' = inbox \/ inbox' = [inbox EXCEPT ![tgt[c]] = Append(inbox[tgt[c]], p)]
    BY <1>13 DEF Forward
  <2>4. inbox \in [Conns -> Seq(Packets)] /\ tgt[c] \in Conns
    BY <1>13 DEF Forward, Shapes, TypeOK
  <2> HIDE DEF p
  <2>5. inbox' \in [Conns -> Seq(Packets)]
    <3>1. [inbox EXCEPT ![tgt[c]] = Append(inbox[tgt[c]], p)] \in [Conns -> Seq(Packets)]
      BY <2>2, <2>4, PutType
    <3> QED
      BY <2>3, <2>4, <3>1
  <2> QED
    BY <1>13, <2>5 DEF Forward, Goto, thread, net, tables, client, Shapes, Positions
<1>14. ASSUME NEW c \in Conns, ForwardThrows(c) PROVE Shapes'
  BY <1>14 DEF ForwardThrows, Goto, thread, net, tables, client, Shapes, Positions
<1>15. ASSUME NEW c \in Conns, Reload(c) PROVE Shapes'
  <2>1. \A u : LastByRecipient(u) \subseteq Nat
    BY DEF LastByRecipient, Ids, Shapes
  <2>2. last' \in [Conns -> Nat]
    BY <1>15, <2>1 DEF Reload, Shapes
  <2> QED
    BY <1>15, <2>2 DEF Reload, Goto, thread, net, tables, client, Shapes, Positions
<1>16. ASSUME NEW c \in Conns, Enqueue(c) PROVE Shapes'
  <2> DEFINE e == [id |-> queued + 1, msg |-> last[c], delivered |-> FALSE, attempts |-> 0]
  <2>1. e \in Entries
    BY DEF Entries, Shapes
  <2>2. queue' = queue \cup {e} /\ queue \in SUBSET Entries /\ IsFiniteSet(queue)
    BY <1>16 DEF Enqueue, Shapes
  <2> HIDE DEF e
  <2>3. queue' \in SUBSET Entries /\ IsFiniteSet(queue')
    BY <2>1, <2>2, FS_AddElement
  <2> QED
    BY <1>16, <2>3 DEF Enqueue, Goto, thread, net, tables, client, Shapes, Positions
<1>17. ASSUME NEW c \in Conns, Echo(c) PROVE Shapes'
  <2> DEFINE p == Forwarded(cur[c], Iso(rows[cur[c]].t), TRUE)
  <2>1. cur[c] \in Ids
    BY <1>17, CurRow DEF Echo
  <2>2. p \in Packets
    BY <2>1, RowStamps, ForwardedType
  <2>3. \A v \in Conns : inbox'[v] = inbox[v] \/ inbox'[v] = Append(inbox[v], p)
    BY <1>17 DEF Echo
  <2>4. \A v \in Conns : inbox[v] \in Seq(Packets)
    BY DEF Shapes
  <2> HIDE DEF p
  <2>5. \A v \in Conns : inbox'[v] \in Seq(Packets)
    <3>1. \A v \in Conns : Append(inbox[v], p) \in Seq(Packets)
      BY <2>2, <2>4, AppendElems
    <3> QED
      BY <2>3, <2>4, <3>1
  <2>6. inbox' \in [Conns -> Seq(Packets)]
    BY <1>17, <2>5 DEF Echo
  <2>7. clients' \in [Users -> Seq(Conns)]
    BY <1>17, RegisterType DEF Echo
  <2> QED
    BY <1>17, <2>6, <2>7 DEF Echo, Goto, thread, net, tables, client, Shapes, Positions
<1>18. ASSUME NEW c \in Conns, Sync(c) PROVE Shapes'
  <2>1. outbox \in [Conns -> Seq(Requests)] /\ outbox[c] # <<>> /\ outbox' = [outbox EXCEPT ![c] = Tail(outbox[c])]
    BY <1>18 DEF Sync, Shapes
  <2>2. Tail(outbox[c]) \in Seq(Requests) /\ Head(outbox[c]) \in Requests
    BY <2>1, TailElems
  <2>3. outbox' \in [Conns -> Seq(Requests)]
    BY <2>1, <2>2

  <2>4. PICK s \in findAllForUser(User(c), Head(outbox[c]).cursor) :
          inbox' = [inbox EXCEPT ![c] = @ \o Replay(s, User(c))]
    BY <1>18 DEF Sync, Replay
  <2>5. s \in Seq(Ids)
    BY <2>4, FoundMessages
  <2>6. inbox[c] \o Replay(s, User(c)) \in Seq(Packets)
    <3>1. inbox[c] \in Seq(Packets)
      BY DEF Shapes
    <3>2. PICK a : a = Replay(s, User(c))
      OBVIOUS
    <3>3. a \in Seq(Packets)
      BY <2>5, <3>2, ReplayType
    <3>4. inbox[c] \o a \in Seq(Packets)
      BY <3>1, <3>3, ConcatElems
    <3> QED
      BY <3>2, <3>4
  <2>7. inbox' \in [Conns -> Seq(Packets)]
    BY <2>4, <2>6 DEF Shapes
  <2>8. clients' \in [Users -> Seq(Conns)]
    BY <1>18, RegisterType DEF Sync
  <2> QED
    BY <1>18, <2>3, <2>7, <2>8 DEF Sync, thread, tables, client, Shapes
<1>19. ASSUME NEW c \in Conns, Leave(c) PROVE Shapes'
  BY <1>19, UnregisterType DEF Leave, Goto, thread, net, tables, client, Shapes, Positions
<1>20. ASSUME NEW c \in Conns, NEW u \in Users, ClientSend(c, u) PROVE Shapes'
  <2> DEFINE e == [kind |-> "message", to |-> u, t |-> sends + 1]
             m == [from |-> User(c), to |-> u, ts |-> Iso(sends + 1)]
             d == DeviceOf[c]
  <2>1. e \in Requests /\ m \in Stored /\ sends + 1 \in Nat
    BY UserType DEF Requests, Stored, Iso, Shapes
  <2>2. outbox' = [outbox EXCEPT ![c] = Append(outbox[c], e)] /\ shown' = [shown EXCEPT ![d] = Append(shown[d], m)]
    BY <1>20 DEF ClientSend
  <2>3. outbox \in [Conns -> Seq(Requests)] /\ shown \in [Devices -> Seq(Stored)] /\ d \in Devices
    BY UserType DEF Shapes
  <2> HIDE DEF e, m, d
  <2>4. outbox' \in [Conns -> Seq(Requests)]
    BY <2>1, <2>2, <2>3, AppendElems
  <2>5. shown' \in [Devices -> Seq(Stored)]
    BY <2>1, <2>2, <2>3, AppendElems
  <2>6. sends' \in Nat
    BY <1>20, <2>1 DEF ClientSend
  <2> QED
    BY <1>20, <2>4, <2>5, <2>6 DEF ClientSend, thread, tables, Shapes
<1>21. ASSUME PurgeQueue PROVE Shapes'
  <2>1. queue' \subseteq queue
    BY <1>21 DEF PurgeQueue
  <2>2. queue' \in SUBSET Entries /\ IsFiniteSet(queue')
    BY <2>1, FS_Subset DEF Shapes
  <2> QED
    BY <1>21, <2>2 DEF PurgeQueue, thread, net, tables, client, Shapes
<1>22. ASSUME Crash PROVE Shapes'
  BY <1>22, DeliveryConstants DEF Crash, thread, net, tables, client, Shapes, Positions
<1>23. CASE UNCHANGED vars
  BY <1>23 DEF vars, thread, net, tables, client, Shapes
<1> QED
  BY <1>1, <1>2, <1>3, <1>4, <1>5, <1>6, <1>7, <1>8, <1>9, <1>10, <1>11, <1>12, <1>13, <1>14,
     <1>15, <1>16, <1>17, <1>18, <1>19, <1>20, <1>21, <1>22, <1>23, ReadsOne DEF Next,
     ThreadStep
-----------------------------------------------------------------------------
(***************************************************************************)
(* TypeOK and InHand, by what the parts are about.                         *)
(***************************************************************************)
Handling == {"route", "forward", "reload", "enqueue", "echo"}

Handled ==
    \A c \in Conns : /\ cur[c] \in Ids \cup {0} /\ (cur[c] # 0 <=> pc[c] \in Handling)
                     /\ last[c] \in Ids \cup {0} /\ (pc[c] = "enqueue" => last[c] # 0)

Waiting ==
    \A c \in Conns : /\ (tgt[c] \in Conns) <=> (pc[c] = "forward")
                     /\ pend[c] # <<>> => pc[c] \in {"bump", "send", "mark"}
                     /\ pc[c] \in {"send", "mark"} => pend[c] # <<>>

Wires ==
    /\ up \in [Conns -> BOOLEAN]
    /\ \A c \in Conns : ~up[c] => inbox[c] = <<>> /\ outbox[c] = <<>>

QueueRows == \A q \in queue : q.id \in 1..queued /\ q.msg \in Ids

\* The parts say the same.
LEMMA TypedParts ==
    ASSUME Shapes
    PROVE  (TypeOK /\ InHand) <=> (Handled /\ Waiting /\ Wires /\ QueueRows /\ wrote \subseteq Ids)
<1>1. \A d \in Devices : \A k \in DOMAIN shown[d] : shown[d][k] \in Stored
  BY DEF Shapes
<1>2. \A q \in queue : q.delivered \in BOOLEAN /\ q.attempts \in Nat
  BY DEF Shapes, Entries
<1> QED
  BY <1>1, <1>2 DEF TypeOK, InHand, Handled, Handling, Waiting, Wires, QueueRows

\* The same after a step.
LEMMA TypedPartsNext ==
    ASSUME Shapes'
    PROVE  (TypeOK /\ InHand)' <=> (Handled /\ Waiting /\ Wires /\ QueueRows /\ wrote \subseteq Ids)'
<1>1. \A d \in Devices : \A k \in DOMAIN shown'[d] : shown'[d][k] \in Stored
  BY DEF Shapes
<1>2. \A q \in queue' : q.delivered \in BOOLEAN /\ q.attempts \in Nat
  BY DEF Shapes, Entries
<1> QED
  BY <1>1, <1>2 DEF TypeOK, InHand, Handled, Handling, Waiting, Wires, QueueRows

\* No row of messages goes, none changes, and queue ids only grow.
LEMMA RowsGrow ==
    Typed /\ [Next]_vars => (Ids \subseteq Ids' /\ (\A i \in Ids : rows'[i] = rows[i]) /\ queued <= queued')
<1> SUFFICES ASSUME Typed, [Next]_vars
             PROVE  (Ids \subseteq Ids' /\ (\A i \in Ids : rows'[i] = rows[i]) /\ queued <= queued')
    OBVIOUS
<1>1. ASSUME NEW c \in Conns, Login(c)
      PROVE  (Ids \subseteq Ids' /\ (\A i \in Ids : rows'[i] = rows[i]) /\ queued <= queued')
  BY <1>1 DEF Login, Goto, thread, net, tables, client, Ids, Typed, Shapes
<1>2. ASSUME NEW c \in Conns, AckRead(c)
      PROVE  (Ids \subseteq Ids' /\ (\A i \in Ids : rows'[i] = rows[i]) /\ queued <= queued')
  BY <1>2 DEF AckRead, Reads, thread, net, tables, client, Ids, Typed, Shapes
<1>3. ASSUME NEW c \in Conns, MessageRead(c)
      PROVE  (Ids \subseteq Ids' /\ (\A i \in Ids : rows'[i] = rows[i]) /\ queued <= queued')
  BY <1>3 DEF MessageRead, Reads, thread, net, tables, client, Ids, Typed, Shapes
<1>4. ASSUME NEW c \in Conns, Close(c)
      PROVE  (Ids \subseteq Ids' /\ (\A i \in Ids : rows'[i] = rows[i]) /\ queued <= queued')
  BY <1>4 DEF Close, thread, net, tables, client, Ids, Typed, Shapes
<1>5. ASSUME NEW c \in Conns, ReadPending(c)
      PROVE  (Ids \subseteq Ids' /\ (\A i \in Ids : rows'[i] = rows[i]) /\ queued <= queued')
  BY <1>5 DEF ReadPending, Goto, thread, net, tables, client, Ids, Typed, Shapes
<1>6. ASSUME NEW c \in Conns, IncrementAttempts(c)
      PROVE  (Ids \subseteq Ids' /\ (\A i \in Ids : rows'[i] = rows[i]) /\ queued <= queued')
  BY <1>6 DEF IncrementAttempts, Goto, thread, net, tables, client, Ids, Typed, Shapes
<1>7. ASSUME NEW c \in Conns, SendPending(c)
      PROVE  (Ids \subseteq Ids' /\ (\A i \in Ids : rows'[i] = rows[i]) /\ queued <= queued')
  BY <1>7 DEF SendPending, Goto, thread, net, tables, client, Ids, Typed, Shapes
<1>8. ASSUME NEW c \in Conns, MarkDelivered(c)
      PROVE  (Ids \subseteq Ids' /\ (\A i \in Ids : rows'[i] = rows[i]) /\ queued <= queued')
  BY <1>8 DEF MarkDelivered, Goto, thread, net, tables, client, Ids, Typed, Shapes
<1>9. ASSUME NEW c \in Conns, Join(c)
      PROVE  (Ids \subseteq Ids' /\ (\A i \in Ids : rows'[i] = rows[i]) /\ queued <= queued')
  BY <1>9 DEF Join, Goto, thread, net, tables, client, Ids, Typed, Shapes
<1>10. ASSUME NEW c \in Conns, JoinFails(c)
      PROVE  (Ids \subseteq Ids' /\ (\A i \in Ids : rows'[i] = rows[i]) /\ queued <= queued')
  BY <1>10 DEF JoinFails, Goto, thread, net, tables, client, Ids, Typed, Shapes
<1>11. ASSUME NEW c \in Conns, SaveMessage(c)
      PROVE  (Ids \subseteq Ids' /\ (\A i \in Ids : rows'[i] = rows[i]) /\ queued <= queued')
  <2>1. rows \in Seq(Saved) /\ \E e \in Saved : rows' = Append(rows, e)
    <3>1. outbox[c] \in Seq(Requests) /\ outbox[c] # <<>>
      BY <1>11 DEF SaveMessage, Typed, Shapes
    <3>2. Head(outbox[c]) \in Requests
      BY <3>1, TailElems
    <3>3. [from |-> User(c), to |-> Head(outbox[c]).to, t |-> Head(outbox[c]).t] \in Saved
      BY <1>11, <3>2, UserType DEF SaveMessage, Requests, Saved
    <3> QED
      BY <1>11, <3>3 DEF SaveMessage, Typed, Shapes
  <2>2. Len(rows') = Len(rows) + 1 /\ Len(rows) \in Nat
    BY <2>1
  <2>3. \A i \in 1..Len(rows) : rows'[i] = rows[i]
    BY <2>1
  <2> QED
    BY <1>11, <2>2, <2>3 DEF SaveMessage, Ids, Typed, Shapes
<1>12. ASSUME NEW c \in Conns, Route(c)
      PROVE  (Ids \subseteq Ids' /\ (\A i \in Ids : rows'[i] = rows[i]) /\ queued <= queued')
  BY <1>12 DEF Route, Goto, thread, net, tables, client, Ids, Typed, Shapes
<1>13. ASSUME NEW c \in Conns, Forward(c)
      PROVE  (Ids \subseteq Ids' /\ (\A i \in Ids : rows'[i] = rows[i]) /\ queued <= queued')
  BY <1>13 DEF Forward, Goto, thread, net, tables, client, Ids, Typed, Shapes
<1>14. ASSUME NEW c \in Conns, ForwardThrows(c)
      PROVE  (Ids \subseteq Ids' /\ (\A i \in Ids : rows'[i] = rows[i]) /\ queued <= queued')
  BY <1>14 DEF ForwardThrows, Goto, thread, net, tables, client, Ids, Typed, Shapes
<1>15. ASSUME NEW c \in Conns, Reload(c)
      PROVE  (Ids \subseteq Ids' /\ (\A i \in Ids : rows'[i] = rows[i]) /\ queued <= queued')
  BY <1>15 DEF Reload, Goto, thread, net, tables, client, Ids, Typed, Shapes
<1>16. ASSUME NEW c \in Conns, Enqueue(c)
      PROVE  (Ids \subseteq Ids' /\ (\A i \in Ids : rows'[i] = rows[i]) /\ queued <= queued')
  BY <1>16 DEF Enqueue, Goto, thread, net, tables, client, Ids, Typed, Shapes
<1>17. ASSUME NEW c \in Conns, Echo(c)
      PROVE  (Ids \subseteq Ids' /\ (\A i \in Ids : rows'[i] = rows[i]) /\ queued <= queued')
  BY <1>17 DEF Echo, Goto, thread, net, tables, client, Ids, Typed, Shapes
<1>18. ASSUME NEW c \in Conns, Sync(c)
      PROVE  (Ids \subseteq Ids' /\ (\A i \in Ids : rows'[i] = rows[i]) /\ queued <= queued')
  BY <1>18 DEF Sync, thread, net, tables, client, Ids, Typed, Shapes
<1>19. ASSUME NEW c \in Conns, Leave(c)
      PROVE  (Ids \subseteq Ids' /\ (\A i \in Ids : rows'[i] = rows[i]) /\ queued <= queued')
  BY <1>19 DEF Leave, Goto, thread, net, tables, client, Ids, Typed, Shapes
<1>20. ASSUME NEW c \in Conns, NEW u \in Users, ClientSend(c, u)
      PROVE  (Ids \subseteq Ids' /\ (\A i \in Ids : rows'[i] = rows[i]) /\ queued <= queued')
  BY <1>20 DEF ClientSend, thread, net, tables, client, Ids, Typed, Shapes
<1>21. ASSUME PurgeQueue
      PROVE  (Ids \subseteq Ids' /\ (\A i \in Ids : rows'[i] = rows[i]) /\ queued <= queued')
  BY <1>21 DEF PurgeQueue, thread, net, tables, client, Ids, Typed, Shapes
<1>22. ASSUME Crash
      PROVE  (Ids \subseteq Ids' /\ (\A i \in Ids : rows'[i] = rows[i]) /\ queued <= queued')
  BY <1>22 DEF Crash, thread, net, tables, client, Ids, Typed, Shapes
<1>23. CASE UNCHANGED vars
  BY <1>23 DEF vars, thread, net, tables, client, Ids, Typed, Shapes
<1> QED
  BY <1>1, <1>2, <1>3, <1>4, <1>5, <1>6, <1>7, <1>8, <1>9, <1>10, <1>11, <1>12, <1>13, <1>14,
     <1>15, <1>16, <1>17, <1>18, <1>19, <1>20, <1>21, <1>22, <1>23, ReadsOne DEF Next,
     ThreadStep

\* incrementAttempts changes nothing else of the rows, and of one id only.
LEMMA BumpedRows ==
    ASSUME Shapes, NEW c \in Conns, IncrementAttempts(c), NEW r \in queue'
    PROVE  \E q \in queue : /\ r.id = q.id /\ r.msg = q.msg /\ r.delivered = q.delivered
                            /\ q.id # Head(pend[c]).id => r = q
                            /\ q.id = Head(pend[c]).id => r = [q EXCEPT !.attempts = q.attempts + 1]
                            /\ q.id = Head(pend[c]).id => r.attempts = q.attempts + 1
<1>1. PICK q \in queue : r = IF q.id = Head(pend[c]).id
                             THEN [q EXCEPT !.attempts = q.attempts + 1] ELSE q
  BY DEF IncrementAttempts
<1>2. q \in Entries
  BY DEF Shapes
<1> QED
  BY <1>1, <1>2 DEF Entries

\* Nor does markDelivered.
LEMMA MarkedRows ==
    ASSUME Shapes, NEW c \in Conns, MarkDelivered(c), NEW r \in queue'
    PROVE  \E q \in queue : /\ r.id = q.id /\ r.msg = q.msg /\ r.attempts = q.attempts
                            /\ q.id # Head(pend[c]).id => r = q
                            /\ q.id = Head(pend[c]).id => r = [q EXCEPT !.delivered = TRUE]
                            /\ r.delivered => q.delivered \/ q.id = Head(pend[c]).id
<1>1. PICK q \in queue : r = IF q.id = Head(pend[c]).id
                             THEN [q EXCEPT !.delivered = TRUE] ELSE q
  BY DEF MarkDelivered
<1>2. q \in Entries
  BY DEF Shapes
<1> QED
  BY <1>1, <1>2 DEF Entries

\* Rows in hand are rows of the table.
LEMMA HandledStep == Typed /\ [Next]_vars => Handled'
<1> SUFFICES ASSUME Typed, [Next]_vars
             PROVE  Handled'
    OBVIOUS
<1> Shapes /\ Handled /\ Waiting /\ Wires /\ QueueRows /\ wrote \subseteq Ids
    BY TypedParts DEF Typed
<1> Ids \subseteq Ids' /\ (\A i \in Ids : rows'[i] = rows[i]) /\ queued <= queued'
    BY RowsGrow
<1> 0 \notin Ids
    BY DEF Ids
<1>1. ASSUME NEW c \in Conns, Login(c) PROVE Handled'
  BY <1>1 DEF Login, Goto, Shapes, thread, net, tables, client, Handled, Handling
<1>2. ASSUME NEW c \in Conns, AckRead(c) PROVE Handled'
  BY <1>2 DEF AckRead, Reads, thread, net, tables, client, Handled, Handling
<1>3. ASSUME NEW c \in Conns, MessageRead(c) PROVE Handled'
  BY <1>3 DEF MessageRead, Reads, thread, net, tables, client, Handled, Handling
<1>4. ASSUME NEW c \in Conns, Close(c) PROVE Handled'
  BY <1>4 DEF Close, thread, net, tables, client, Handled, Handling
<1>5. ASSUME NEW c \in Conns, ReadPending(c) PROVE Handled'
  BY <1>5 DEF ReadPending, Goto, Shapes, thread, net, tables, client, Handled, Handling
<1>6. ASSUME NEW c \in Conns, IncrementAttempts(c) PROVE Handled'
  BY <1>6 DEF IncrementAttempts, Goto, Shapes, thread, net, tables, client, Handled, Handling
<1>7. ASSUME NEW c \in Conns, SendPending(c) PROVE Handled'
  BY <1>7 DEF SendPending, Goto, Shapes, thread, net, tables, client, Handled, Handling
<1>8. ASSUME NEW c \in Conns, MarkDelivered(c) PROVE Handled'
  BY <1>8 DEF MarkDelivered, Goto, Shapes, thread, net, tables, client, Handled, Handling
<1>9. ASSUME NEW c \in Conns, Join(c) PROVE Handled'
  BY <1>9 DEF Join, Goto, Shapes, thread, net, tables, client, Handled, Handling
<1>10. ASSUME NEW c \in Conns, JoinFails(c) PROVE Handled'
  BY <1>10 DEF JoinFails, Goto, Shapes, thread, net, tables, client, Handled, Handling
<1>11. ASSUME NEW c \in Conns, SaveMessage(c) PROVE Handled'
  <2>1. Len(rows) + 1 \in Ids'
    <3>1. rows \in Seq(Saved) /\ \E e : rows' = Append(rows, e)
      BY <1>11 DEF SaveMessage, Shapes
    <3> QED
      BY <3>1 DEF Ids
  <2>2. Len(rows) + 1 # 0
    BY DEF Shapes
  <2> QED
    BY <1>11, <2>1, <2>2 DEF SaveMessage, Goto, thread, net, tables, client, Shapes, Handled,
       Handling
<1>12. ASSUME NEW c \in Conns, Route(c) PROVE Handled'
  BY <1>12 DEF Route, Goto, Shapes, thread, net, tables, client, Handled, Handling
<1>13. ASSUME NEW c \in Conns, Forward(c) PROVE Handled'
  BY <1>13 DEF Forward, Goto, Shapes, thread, net, tables, client, Handled, Handling
<1>14. ASSUME NEW c \in Conns, ForwardThrows(c) PROVE Handled'
  BY <1>14 DEF ForwardThrows, Goto, Shapes, thread, net, tables, client, Handled, Handling
<1>15. ASSUME NEW c \in Conns, Reload(c) PROVE Handled'
  <2>1. \A u : LastByRecipient(u) \subseteq Ids
    BY DEF LastByRecipient
  <2> QED
    BY <1>15, <2>1 DEF Reload, Goto, thread, net, tables, client, Shapes, Handled, Handling
<1>16. ASSUME NEW c \in Conns, Enqueue(c) PROVE Handled'
  BY <1>16 DEF Enqueue, Goto, Shapes, thread, net, tables, client, Handled, Handling
<1>17. ASSUME NEW c \in Conns, Echo(c) PROVE Handled'
  BY <1>17 DEF Echo, Goto, Shapes, thread, net, tables, client, Handled, Handling
<1>18. ASSUME NEW c \in Conns, Sync(c) PROVE Handled'
  BY <1>18 DEF Sync, thread, net, tables, client, Handled, Handling
<1>19. ASSUME NEW c \in Conns, Leave(c) PROVE Handled'
  BY <1>19 DEF Leave, Goto, Shapes, thread, net, tables, client, Handled, Handling
<1>20. ASSUME NEW c \in Conns, NEW u \in Users, ClientSend(c, u)
      PROVE  Handled'
  BY <1>20 DEF ClientSend, thread, net, tables, client, Handled, Handling
<1>21. ASSUME PurgeQueue PROVE Handled'
  BY <1>21 DEF PurgeQueue, thread, net, tables, client, Handled, Handling
<1>22. ASSUME Crash PROVE Handled'
  BY <1>22 DEF Crash, thread, net, tables, client, Handled, Handling
<1>23. CASE UNCHANGED vars
  BY <1>23 DEF vars, thread, net, tables, client, Handled, Handling
<1> QED
  BY <1>1, <1>2, <1>3, <1>4, <1>5, <1>6, <1>7, <1>8, <1>9, <1>10, <1>11, <1>12, <1>13, <1>14,
     <1>15, <1>16, <1>17, <1>18, <1>19, <1>20, <1>21, <1>22, <1>23, ReadsOne DEF Next,
     ThreadStep

\* Threads that forward or flush have a session or a row, others do not.
LEMMA WaitingStep == Typed /\ [Next]_vars => Waiting'
<1> SUFFICES ASSUME Typed, [Next]_vars
             PROVE  Waiting'
    OBVIOUS
<1> Shapes /\ Handled /\ Waiting /\ Wires /\ QueueRows /\ wrote \subseteq Ids
    BY TypedParts DEF Typed
<1> Ids \subseteq Ids' /\ (\A i \in Ids : rows'[i] = rows[i]) /\ queued <= queued'
    BY RowsGrow
<1> 0 \notin Ids
    BY DEF Ids
<1>1. ASSUME NEW c \in Conns, Login(c) PROVE Waiting'
  BY <1>1 DEF Login, Goto, Shapes, thread, net, tables, client, Waiting
<1>2. ASSUME NEW c \in Conns, AckRead(c) PROVE Waiting'
  BY <1>2 DEF AckRead, Reads, thread, net, tables, client, Waiting
<1>3. ASSUME NEW c \in Conns, MessageRead(c) PROVE Waiting'
  BY <1>3 DEF MessageRead, Reads, thread, net, tables, client, Waiting
<1>4. ASSUME NEW c \in Conns, Close(c) PROVE Waiting'
  BY <1>4 DEF Close, thread, net, tables, client, Waiting
<1>5. ASSUME NEW c \in Conns, ReadPending(c) PROVE Waiting'
  BY <1>5 DEF ReadPending, Goto, Shapes, thread, net, tables, client, Waiting
<1>6. ASSUME NEW c \in Conns, IncrementAttempts(c) PROVE Waiting'
  BY <1>6 DEF IncrementAttempts, Goto, Shapes, thread, net, tables, client, Waiting
<1>7. ASSUME NEW c \in Conns, SendPending(c) PROVE Waiting'
  BY <1>7 DEF SendPending, Goto, Shapes, thread, net, tables, client, Waiting
<1>8. ASSUME NEW c \in Conns, MarkDelivered(c) PROVE Waiting'
  BY <1>8 DEF MarkDelivered, Goto, Shapes, thread, net, tables, client, Waiting
<1>9. ASSUME NEW c \in Conns, Join(c) PROVE Waiting'
  BY <1>9 DEF Join, Goto, Shapes, thread, net, tables, client, Waiting
<1>10. ASSUME NEW c \in Conns, JoinFails(c) PROVE Waiting'
  BY <1>10 DEF JoinFails, Goto, Shapes, thread, net, tables, client, Waiting
<1>11. ASSUME NEW c \in Conns, SaveMessage(c) PROVE Waiting'
  BY <1>11 DEF SaveMessage, Goto, Shapes, thread, net, tables, client, Waiting
<1>12. ASSUME NEW c \in Conns, Route(c) PROVE Waiting'
  <2> DEFINE v == clients[rows[cur[c]].to]
  <2>1. rows[cur[c]].to \in Users
    BY <1>12, CurRow DEF Route
  <2>2. v \in Seq(Conns)
    BY <2>1 DEF Shapes
  <2>3. v # <<>> => Head(v) \in Conns
    BY <2>2, TailElems
  <2>4. IF v # <<>> THEN tgt' = [tgt EXCEPT ![c] = Head(v)] /\ pc' = [pc EXCEPT ![c] = "forward"]
        ELSE tgt' = tgt /\ pc' = [pc EXCEPT ![c] = "reload"]
    BY <1>12 DEF Route, Goto
  <2>5. pend' = pend /\ pc[c] = "route"
    BY <1>12 DEF Route
  <2> HIDE DEF v
  <2> QED
    BY <2>3, <2>4, <2>5 DEF Waiting, Shapes
<1>13. ASSUME NEW c \in Conns, Forward(c) PROVE Waiting'
  BY <1>13, DeliveryConstants DEF Forward, Goto, thread, net, tables, client, Shapes, Waiting
<1>14. ASSUME NEW c \in Conns, ForwardThrows(c) PROVE Waiting'
  BY <1>14, DeliveryConstants DEF ForwardThrows, Goto, thread, net, tables, client, Shapes,
     Waiting
<1>15. ASSUME NEW c \in Conns, Reload(c) PROVE Waiting'
  BY <1>15 DEF Reload, Goto, Shapes, thread, net, tables, client, Waiting
<1>16. ASSUME NEW c \in Conns, Enqueue(c) PROVE Waiting'
  BY <1>16 DEF Enqueue, Goto, Shapes, thread, net, tables, client, Waiting
<1>17. ASSUME NEW c \in Conns, Echo(c) PROVE Waiting'
  BY <1>17 DEF Echo, Goto, Shapes, thread, net, tables, client, Waiting
<1>18. ASSUME NEW c \in Conns, Sync(c) PROVE Waiting'
  BY <1>18 DEF Sync, thread, net, tables, client, Waiting
<1>19. ASSUME NEW c \in Conns, Leave(c) PROVE Waiting'
  BY <1>19 DEF Leave, Goto, Shapes, thread, net, tables, client, Waiting
<1>20. ASSUME NEW c \in Conns, NEW u \in Users, ClientSend(c, u)
      PROVE  Waiting'
  BY <1>20 DEF ClientSend, thread, net, tables, client, Waiting
<1>21. ASSUME PurgeQueue PROVE Waiting'
  BY <1>21 DEF PurgeQueue, thread, net, tables, client, Waiting
<1>22. ASSUME Crash PROVE Waiting'
  BY <1>22, DeliveryConstants DEF Crash, thread, net, tables, client, Shapes, Waiting
<1>23. CASE UNCHANGED vars
  BY <1>23 DEF vars, thread, net, tables, client, Waiting
<1> QED
  BY <1>1, <1>2, <1>3, <1>4, <1>5, <1>6, <1>7, <1>8, <1>9, <1>10, <1>11, <1>12, <1>13, <1>14,
     <1>15, <1>16, <1>17, <1>18, <1>19, <1>20, <1>21, <1>22, <1>23, ReadsOne DEF Next,
     ThreadStep

\* A dead socket carries nothing.
LEMMA WiresStep == Typed /\ [Next]_vars => Wires'
<1> SUFFICES ASSUME Typed, [Next]_vars
             PROVE  Wires'
    OBVIOUS
<1> Shapes /\ Handled /\ Waiting /\ Wires /\ QueueRows /\ wrote \subseteq Ids
    BY TypedParts DEF Typed
<1> Ids \subseteq Ids' /\ (\A i \in Ids : rows'[i] = rows[i]) /\ queued <= queued'
    BY RowsGrow
<1> 0 \notin Ids
    BY DEF Ids
<1>1. ASSUME NEW c \in Conns, Login(c) PROVE Wires'
  BY <1>1 DEF Login, Goto, Shapes, thread, net, tables, client, Wires
<1>2. ASSUME NEW c \in Conns, AckRead(c) PROVE Wires'
  BY <1>2 DEF AckRead, Reads, Shapes, thread, net, tables, client, Wires
<1>3. ASSUME NEW c \in Conns, MessageRead(c) PROVE Wires'
  BY <1>3 DEF MessageRead, Reads, Shapes, thread, net, tables, client, Wires
<1>4. ASSUME NEW c \in Conns, Close(c) PROVE Wires'
  BY <1>4 DEF Close, Shapes, thread, net, tables, client, Wires
<1>5. ASSUME NEW c \in Conns, ReadPending(c) PROVE Wires'
  BY <1>5 DEF ReadPending, Goto, thread, net, tables, client, Wires
<1>6. ASSUME NEW c \in Conns, IncrementAttempts(c) PROVE Wires'
  BY <1>6 DEF IncrementAttempts, Goto, thread, net, tables, client, Wires
<1>7. ASSUME NEW c \in Conns, SendPending(c) PROVE Wires'
  BY <1>7 DEF SendPending, Goto, Shapes, thread, net, tables, client, Wires
<1>8. ASSUME NEW c \in Conns, MarkDelivered(c) PROVE Wires'
  BY <1>8 DEF MarkDelivered, Goto, thread, net, tables, client, Wires
<1>9. ASSUME NEW c \in Conns, Join(c) PROVE Wires'
  BY <1>9 DEF Join, Goto, thread, net, tables, client, Wires
<1>10. ASSUME NEW c \in Conns, JoinFails(c) PROVE Wires'
  BY <1>10 DEF JoinFails, Goto, thread, net, tables, client, Wires
<1>11. ASSUME NEW c \in Conns, SaveMessage(c) PROVE Wires'
  BY <1>11 DEF SaveMessage, Goto, Shapes, thread, net, tables, client, Wires
<1>12. ASSUME NEW c \in Conns, Route(c) PROVE Wires'
  BY <1>12 DEF Route, Goto, thread, net, tables, client, Wires
<1>13. ASSUME NEW c \in Conns, Forward(c) PROVE Wires'
  BY <1>13 DEF Forward, Goto, Shapes, thread, net, tables, client, Wires
<1>14. ASSUME NEW c \in Conns, ForwardThrows(c) PROVE Wires'
  BY <1>14 DEF ForwardThrows, Goto, thread, net, tables, client, Wires
<1>15. ASSUME NEW c \in Conns, Reload(c) PROVE Wires'
  BY <1>15 DEF Reload, Goto, thread, net, tables, client, Wires
<1>16. ASSUME NEW c \in Conns, Enqueue(c) PROVE Wires'
  BY <1>16 DEF Enqueue, Goto, thread, net, tables, client, Wires
<1>17. ASSUME NEW c \in Conns, Echo(c) PROVE Wires'
  BY <1>17 DEF Echo, Goto, thread, net, tables, client, Wires
<1>18. ASSUME NEW c \in Conns, Sync(c) PROVE Wires'
  BY <1>18 DEF Sync, Shapes, thread, net, tables, client, Wires
<1>19. ASSUME NEW c \in Conns, Leave(c) PROVE Wires'
  BY <1>19 DEF Leave, Goto, thread, net, tables, client, Wires
<1>20. ASSUME NEW c \in Conns, NEW u \in Users, ClientSend(c, u) PROVE Wires'
  BY <1>20 DEF ClientSend, thread, net, tables, client, Shapes, Wires
<1>21. ASSUME PurgeQueue PROVE Wires'
  BY <1>21 DEF PurgeQueue, thread, net, tables, client, Wires
<1>22. ASSUME Crash PROVE Wires'
  BY <1>22 DEF Crash, thread, net, tables, client, Wires
<1>23. CASE UNCHANGED vars
  BY <1>23 DEF vars, thread, net, tables, client, Wires
<1> QED
  BY <1>1, <1>2, <1>3, <1>4, <1>5, <1>6, <1>7, <1>8, <1>9, <1>10, <1>11, <1>12, <1>13, <1>14,
     <1>15, <1>16, <1>17, <1>18, <1>19, <1>20, <1>21, <1>22, <1>23, ReadsOne DEF Next,
     ThreadStep

\* Rows of the queue name rows of messages.
LEMMA QueueRowsStep == Typed /\ [Next]_vars => QueueRows'
<1> SUFFICES ASSUME Typed, [Next]_vars
             PROVE  QueueRows'
    OBVIOUS
<1> Shapes /\ Handled /\ Waiting /\ Wires /\ QueueRows /\ wrote \subseteq Ids
    BY TypedParts DEF Typed
<1> Ids \subseteq Ids' /\ (\A i \in Ids : rows'[i] = rows[i]) /\ queued <= queued'
    BY RowsGrow
<1> 0 \notin Ids
    BY DEF Ids
<1>1. ASSUME NEW c \in Conns, Login(c) PROVE QueueRows'
  BY <1>1 DEF Login, Goto, thread, net, tables, client, QueueRows
<1>2. ASSUME NEW c \in Conns, AckRead(c) PROVE QueueRows'
  BY <1>2 DEF AckRead, Reads, thread, net, tables, client, QueueRows
<1>3. ASSUME NEW c \in Conns, MessageRead(c) PROVE QueueRows'
  BY <1>3 DEF MessageRead, Reads, thread, net, tables, client, QueueRows
<1>4. ASSUME NEW c \in Conns, Close(c) PROVE QueueRows'
  BY <1>4 DEF Close, thread, net, tables, client, QueueRows
<1>5. ASSUME NEW c \in Conns, ReadPending(c) PROVE QueueRows'
  BY <1>5 DEF ReadPending, Goto, thread, net, tables, client, QueueRows
<1>6. ASSUME NEW c \in Conns, IncrementAttempts(c) PROVE QueueRows'
  <2>1. \A r \in queue' : \E q \in queue : r.id = q.id /\ r.msg = q.msg
    BY <1>6, BumpedRows
  <2>2. rows' = rows /\ queued' = queued
    BY <1>6 DEF IncrementAttempts
  <2> QED
    BY <2>1, <2>2 DEF QueueRows, Ids
<1>7. ASSUME NEW c \in Conns, SendPending(c) PROVE QueueRows'
  BY <1>7 DEF SendPending, Goto, thread, net, tables, client, QueueRows
<1>8. ASSUME NEW c \in Conns, MarkDelivered(c) PROVE QueueRows'
  <2>1. \A r \in queue' : \E q \in queue : r.id = q.id /\ r.msg = q.msg
    BY <1>8, MarkedRows
  <2>2. rows' = rows /\ queued' = queued
    BY <1>8 DEF MarkDelivered
  <2> QED
    BY <2>1, <2>2 DEF QueueRows, Ids
<1>9. ASSUME NEW c \in Conns, Join(c) PROVE QueueRows'
  BY <1>9 DEF Join, Goto, thread, net, tables, client, QueueRows
<1>10. ASSUME NEW c \in Conns, JoinFails(c) PROVE QueueRows'
  BY <1>10 DEF JoinFails, Goto, thread, net, tables, client, QueueRows
<1>11. ASSUME NEW c \in Conns, SaveMessage(c) PROVE QueueRows'
  BY <1>11 DEF SaveMessage, Goto, Ids, thread, net, tables, client, QueueRows
<1>12. ASSUME NEW c \in Conns, Route(c) PROVE QueueRows'
  BY <1>12 DEF Route, Goto, thread, net, tables, client, QueueRows
<1>13. ASSUME NEW c \in Conns, Forward(c) PROVE QueueRows'
  BY <1>13 DEF Forward, Goto, thread, net, tables, client, QueueRows
<1>14. ASSUME NEW c \in Conns, ForwardThrows(c) PROVE QueueRows'
  BY <1>14 DEF ForwardThrows, Goto, thread, net, tables, client, QueueRows
<1>15. ASSUME NEW c \in Conns, Reload(c) PROVE QueueRows'
  BY <1>15 DEF Reload, Goto, thread, net, tables, client, QueueRows
<1>16. ASSUME NEW c \in Conns, Enqueue(c) PROVE QueueRows'
  <2> DEFINE e == [id |-> queued + 1, msg |-> last[c], delivered |-> FALSE, attempts |-> 0]
  <2>1. e.id = queued + 1 /\ e.msg = last[c] /\ queue' = queue \cup {e} /\ queued' = queued + 1
    BY <1>16 DEF Enqueue
  <2>2. last[c] \in Ids /\ queued \in Nat
    BY <1>16 DEF Enqueue, Handled, Shapes
  <2> HIDE DEF e
  <2> QED
    BY <2>1, <2>2 DEF QueueRows
<1>17. ASSUME NEW c \in Conns, Echo(c) PROVE QueueRows'
  BY <1>17 DEF Echo, Goto, thread, net, tables, client, QueueRows
<1>18. ASSUME NEW c \in Conns, Sync(c) PROVE QueueRows'
  BY <1>18 DEF Sync, thread, net, tables, client, QueueRows
<1>19. ASSUME NEW c \in Conns, Leave(c) PROVE QueueRows'
  BY <1>19 DEF Leave, Goto, thread, net, tables, client, QueueRows
<1>20. ASSUME NEW c \in Conns, NEW u \in Users, ClientSend(c, u)
      PROVE  QueueRows'
  BY <1>20 DEF ClientSend, thread, net, tables, client, QueueRows
<1>21. ASSUME PurgeQueue PROVE QueueRows'
  BY <1>21 DEF PurgeQueue, thread, net, tables, client, QueueRows
<1>22. ASSUME Crash PROVE QueueRows'
  BY <1>22 DEF Crash, thread, net, tables, client, QueueRows
<1>23. CASE UNCHANGED vars
  BY <1>23 DEF vars, thread, net, tables, client, QueueRows
<1> QED
  BY <1>1, <1>2, <1>3, <1>4, <1>5, <1>6, <1>7, <1>8, <1>9, <1>10, <1>11, <1>12, <1>13, <1>14,
     <1>15, <1>16, <1>17, <1>18, <1>19, <1>20, <1>21, <1>22, <1>23, ReadsOne DEF Next,
     ThreadStep

\* So do the rows a login has read.
LEMMA ReadRowsStep == Typed /\ [Next]_vars => ReadRows'
<1> SUFFICES ASSUME Typed, [Next]_vars
             PROVE  ReadRows'
    OBVIOUS
<1> Shapes /\ Handled /\ Waiting /\ Wires /\ QueueRows /\ wrote \subseteq Ids
    BY TypedParts DEF Typed
<1> Ids \subseteq Ids' /\ (\A i \in Ids : rows'[i] = rows[i]) /\ queued <= queued'
    BY RowsGrow
<1> 0 \notin Ids
    BY DEF Ids
<1>1. ASSUME NEW c \in Conns, Login(c) PROVE ReadRows'
  BY <1>1 DEF Login, Goto, Typed, Shapes, Ids, thread, net, tables, client, ReadRows
<1>2. ASSUME NEW c \in Conns, AckRead(c) PROVE ReadRows'
  BY <1>2 DEF AckRead, Reads, Typed, Shapes, Ids, thread, net, tables, client, ReadRows
<1>3. ASSUME NEW c \in Conns, MessageRead(c) PROVE ReadRows'
  BY <1>3 DEF MessageRead, Reads, Typed, Shapes, Ids, thread, net, tables, client, ReadRows
<1>4. ASSUME NEW c \in Conns, Close(c) PROVE ReadRows'
  BY <1>4 DEF Close, Typed, Shapes, Ids, thread, net, tables, client, ReadRows
<1>5. ASSUME NEW c \in Conns, ReadPending(c) PROVE ReadRows'
  <2>1. PICK s \in findUndeliveredByRecipient(User(c)) : pend' = [pend EXCEPT ![c] = s]
    BY <1>5 DEF ReadPending
  <2>2. \A k \in DOMAIN s : s[k] \in queue
    BY <2>1, FoundRows
  <2> QED
    BY <1>5, <2>1, <2>2 DEF ReadPending, tables, Typed, ReadRows, QueueRows, Shapes, Ids
<1>6. ASSUME NEW c \in Conns, IncrementAttempts(c) PROVE ReadRows'
  BY <1>6 DEF IncrementAttempts, Goto, Typed, Shapes, Ids, thread, net, tables, client, ReadRows
<1>7. ASSUME NEW c \in Conns, SendPending(c) PROVE ReadRows'
  <2>1. pend' = pend \/ pend' = [pend EXCEPT ![c] = <<>>]
    BY <1>7 DEF SendPending
  <2>2. \A v \in Conns : pend'[v] = pend[v] \/ pend'[v] = <<>>
    BY <2>1 DEF Shapes
  <2>3. rows' = rows /\ queued' = queued
    BY <1>7 DEF SendPending
  <2> QED
    BY <2>2, <2>3 DEF Typed, ReadRows, Ids
<1>8. ASSUME NEW c \in Conns, MarkDelivered(c) PROVE ReadRows'
  <2>1. pend[c] \in Seq(Entries) /\ pend[c] # <<>>
    BY <1>8, FirstRow DEF MarkDelivered
  <2>2. \A k \in DOMAIN Tail(pend[c]) : k + 1 \in DOMAIN pend[c] /\ Tail(pend[c])[k] = pend[c][k + 1]
    BY <2>1, TailElems
  <2>3. pend' = [pend EXCEPT ![c] = Tail(pend[c])]
    BY <1>8 DEF MarkDelivered
  <2> QED
    BY <1>8, <2>2, <2>3 DEF MarkDelivered, Typed, ReadRows, Shapes, Ids
<1>9. ASSUME NEW c \in Conns, Join(c) PROVE ReadRows'
  BY <1>9 DEF Join, Goto, Typed, Shapes, Ids, thread, net, tables, client, ReadRows
<1>10. ASSUME NEW c \in Conns, JoinFails(c) PROVE ReadRows'
  BY <1>10 DEF JoinFails, Goto, Typed, Shapes, Ids, thread, net, tables, client, ReadRows
<1>11. ASSUME NEW c \in Conns, SaveMessage(c) PROVE ReadRows'
  BY <1>11 DEF SaveMessage, Goto, Typed, Shapes, Ids, thread, net, tables, client, ReadRows
<1>12. ASSUME NEW c \in Conns, Route(c) PROVE ReadRows'
  BY <1>12 DEF Route, Goto, Typed, Shapes, Ids, thread, net, tables, client, ReadRows
<1>13. ASSUME NEW c \in Conns, Forward(c) PROVE ReadRows'
  BY <1>13 DEF Forward, Goto, Typed, Shapes, Ids, thread, net, tables, client, ReadRows
<1>14. ASSUME NEW c \in Conns, ForwardThrows(c) PROVE ReadRows'
  BY <1>14 DEF ForwardThrows, Goto, Typed, Shapes, Ids, thread, net, tables, client, ReadRows
<1>15. ASSUME NEW c \in Conns, Reload(c) PROVE ReadRows'
  BY <1>15 DEF Reload, Goto, Typed, Shapes, Ids, thread, net, tables, client, ReadRows
<1>16. ASSUME NEW c \in Conns, Enqueue(c) PROVE ReadRows'
  <2>1. pend' = pend /\ rows' = rows /\ queued' = queued + 1
    BY <1>16 DEF Enqueue
  <2>2. queued \in Nat
    BY DEF Shapes
  <2> QED
    BY <2>1, <2>2 DEF Typed, ReadRows, Ids
<1>17. ASSUME NEW c \in Conns, Echo(c) PROVE ReadRows'
  BY <1>17 DEF Echo, Goto, Typed, Shapes, Ids, thread, net, tables, client, ReadRows
<1>18. ASSUME NEW c \in Conns, Sync(c) PROVE ReadRows'
  BY <1>18 DEF Sync, Typed, Shapes, Ids, thread, net, tables, client, ReadRows
<1>19. ASSUME NEW c \in Conns, Leave(c) PROVE ReadRows'
  BY <1>19 DEF Leave, Goto, Typed, Shapes, Ids, thread, net, tables, client, ReadRows
<1>20. ASSUME NEW c \in Conns, NEW u \in Users, ClientSend(c, u)
      PROVE  ReadRows'
  BY <1>20 DEF ClientSend, Typed, Shapes, Ids, thread, net, tables, client, ReadRows
<1>21. ASSUME PurgeQueue PROVE ReadRows'
  BY <1>21 DEF PurgeQueue, Typed, Shapes, Ids, thread, net, tables, client, ReadRows
<1>22. ASSUME Crash PROVE ReadRows'
  BY <1>22 DEF Crash, Typed, Shapes, Ids, thread, net, tables, client, ReadRows
<1>23. CASE UNCHANGED vars
  BY <1>23 DEF vars, thread, net, tables, client, ReadRows, Typed, Ids
<1> QED
  BY <1>1, <1>2, <1>3, <1>4, <1>5, <1>6, <1>7, <1>8, <1>9, <1>10, <1>11, <1>12, <1>13, <1>14,
     <1>15, <1>16, <1>17, <1>18, <1>19, <1>20, <1>21, <1>22, <1>23, ReadsOne DEF Next,
     ThreadStep

\* Only messages are written to sockets.
LEMMA WroteStep == Typed /\ [Next]_vars => (wrote \subseteq Ids)'
<1> SUFFICES ASSUME Typed, [Next]_vars
             PROVE  (wrote \subseteq Ids)'
    OBVIOUS
<1> Shapes /\ Handled /\ Waiting /\ Wires /\ QueueRows /\ wrote \subseteq Ids
    BY TypedParts DEF Typed
<1> Ids \subseteq Ids' /\ (\A i \in Ids : rows'[i] = rows[i]) /\ queued <= queued'
    BY RowsGrow
<1> 0 \notin Ids
    BY DEF Ids
<1>1. ASSUME NEW c \in Conns, Login(c) PROVE (wrote \subseteq Ids)'
  BY <1>1 DEF Login, Goto, thread, net, tables, client, Ids
<1>2. ASSUME NEW c \in Conns, AckRead(c) PROVE (wrote \subseteq Ids)'
  BY <1>2 DEF AckRead, Reads, thread, net, tables, client, Ids
<1>3. ASSUME NEW c \in Conns, MessageRead(c) PROVE (wrote \subseteq Ids)'
  BY <1>3 DEF MessageRead, Reads, thread, net, tables, client, Ids
<1>4. ASSUME NEW c \in Conns, Close(c) PROVE (wrote \subseteq Ids)'
  BY <1>4 DEF Close, thread, net, tables, client, Ids
<1>5. ASSUME NEW c \in Conns, ReadPending(c) PROVE (wrote \subseteq Ids)'
  BY <1>5 DEF ReadPending, Goto, thread, net, tables, client, Ids
<1>6. ASSUME NEW c \in Conns, IncrementAttempts(c)
      PROVE  (wrote \subseteq Ids)'
  BY <1>6 DEF IncrementAttempts, Goto, thread, net, tables, client, Ids
<1>7. ASSUME NEW c \in Conns, SendPending(c) PROVE (wrote \subseteq Ids)'
  BY <1>7, FirstRow DEF SendPending, Ids
<1>8. ASSUME NEW c \in Conns, MarkDelivered(c) PROVE (wrote \subseteq Ids)'
  BY <1>8 DEF MarkDelivered, Goto, thread, net, tables, client, Ids
<1>9. ASSUME NEW c \in Conns, Join(c) PROVE (wrote \subseteq Ids)'
  BY <1>9 DEF Join, Goto, thread, net, tables, client, Ids
<1>10. ASSUME NEW c \in Conns, JoinFails(c) PROVE (wrote \subseteq Ids)'
  BY <1>10 DEF JoinFails, Goto, thread, net, tables, client, Ids
<1>11. ASSUME NEW c \in Conns, SaveMessage(c) PROVE (wrote \subseteq Ids)'
  BY <1>11 DEF SaveMessage, Goto, thread, net, tables, client, Ids
<1>12. ASSUME NEW c \in Conns, Route(c) PROVE (wrote \subseteq Ids)'
  BY <1>12 DEF Route, Goto, thread, net, tables, client, Ids
<1>13. ASSUME NEW c \in Conns, Forward(c) PROVE (wrote \subseteq Ids)'
  BY <1>13, CurRow DEF Forward, Ids
<1>14. ASSUME NEW c \in Conns, ForwardThrows(c) PROVE (wrote \subseteq Ids)'
  BY <1>14 DEF ForwardThrows, Goto, thread, net, tables, client, Ids
<1>15. ASSUME NEW c \in Conns, Reload(c) PROVE (wrote \subseteq Ids)'
  BY <1>15 DEF Reload, Goto, thread, net, tables, client, Ids
<1>16. ASSUME NEW c \in Conns, Enqueue(c) PROVE (wrote \subseteq Ids)'
  BY <1>16 DEF Enqueue, Goto, thread, net, tables, client, Ids
<1>17. ASSUME NEW c \in Conns, Echo(c) PROVE (wrote \subseteq Ids)'
  BY <1>17 DEF Echo, Goto, thread, net, tables, client, Ids
<1>18. ASSUME NEW c \in Conns, Sync(c) PROVE (wrote \subseteq Ids)'
  BY <1>18 DEF Sync, thread, net, tables, client, Ids
<1>19. ASSUME NEW c \in Conns, Leave(c) PROVE (wrote \subseteq Ids)'
  BY <1>19 DEF Leave, Goto, thread, net, tables, client, Ids
<1>20. ASSUME NEW c \in Conns, NEW u \in Users, ClientSend(c, u)
      PROVE  (wrote \subseteq Ids)'
  BY <1>20 DEF ClientSend, thread, net, tables, client, Ids
<1>21. ASSUME PurgeQueue PROVE (wrote \subseteq Ids)'
  BY <1>21 DEF PurgeQueue, thread, net, tables, client, Ids
<1>22. ASSUME Crash PROVE (wrote \subseteq Ids)'
  BY <1>22 DEF Crash, thread, net, tables, client, Ids
<1>23. CASE UNCHANGED vars
  BY <1>23 DEF vars, thread, net, tables, client, Ids
<1> QED
  BY <1>1, <1>2, <1>3, <1>4, <1>5, <1>6, <1>7, <1>8, <1>9, <1>10, <1>11, <1>12, <1>13, <1>14,
     <1>15, <1>16, <1>17, <1>18, <1>19, <1>20, <1>21, <1>22, <1>23, ReadsOne DEF Next,
     ThreadStep

\* Every step keeps the types.
LEMMA TypedStep == Typed /\ [Next]_vars => Typed'
<1> SUFFICES ASSUME Typed, [Next]_vars PROVE Typed'
    OBVIOUS
<1>1. Shapes'
  BY ShapesStep
<1>2. Handled' /\ Waiting' /\ Wires' /\ QueueRows' /\ (wrote \subseteq Ids)'
  BY HandledStep, WaitingStep, WiresStep, QueueRowsStep, WroteStep
<1>3. TypeOK' /\ InHand'
  BY <1>1, <1>2, TypedPartsNext
<1> QED
  BY <1>1, <1>3, ReadRowsStep DEF Typed

\* The start is well typed.
LEMMA TypedInit == Init => Typed
<1> SUFFICES ASSUME Init PROVE Typed
    OBVIOUS
<1>1. Shapes
  <2>1. queue \in SUBSET Entries /\ IsFiniteSet(queue)
    BY FS_EmptySet DEF Init
  <2> QED
    BY <2>1 DEF Init, Shapes, Positions
<1>2. Handled /\ Waiting /\ Wires /\ QueueRows /\ wrote \subseteq Ids
  BY DeliveryConstants DEF Init, Handled, Handling, Waiting, Wires, QueueRows
<1>3. ReadRows
  BY DEF Init, ReadRows
<1> QED
  BY <1>1, <1>2, <1>3, TypedParts DEF Typed

\* So it always is.
LEMMA TypedAlways == Spec => []Typed
BY TypedInit, TypedStep, PTL DEF Spec

(***************************************************************************)
(* Type correctness for any number of connections and messages: a queue    *)
(* row names a message that was saved, a thread that forwards holds a      *)
(* session, and one in the flush a row (MessageHandler, LoginHandler).     *)
(***************************************************************************)
THEOREM DeliveryTypes == Spec => []TypeOK
BY TypedAlways, PTL DEF Typed
-----------------------------------------------------------------------------
\* Ids in use are at most the number of rows ever inserted.
LEMMA IdsInUse ==
    ASSUME Typed
    PROVE  /\ \A q \in queue : q.id \in 1..queued /\ q.msg \in Ids /\ q \in Entries
           /\ \A c \in Conns : \A k \in DOMAIN pend[c] : pend[c][k].id \in 1..queued
           /\ queued \in Nat
BY DEF Typed, TypeOK, Shapes, ReadRows

\* After markDelivered a login has the rest of its rows.
LEMMA RestOfRows ==
    ASSUME Typed, NEW c \in Conns, MarkDelivered(c)
    PROVE  /\ \A v \in Conns \ {c} : pend'[v] = pend[v]
           /\ \A k \in DOMAIN pend'[c] : k + 1 \in DOMAIN pend[c] /\ pend'[c][k] = pend[c][k + 1]
           /\ \A k \in DOMAIN pend'[c] : k \in Nat \ {0}
<1>1. pend[c] \in Seq(Entries) /\ pend[c] # <<>> /\ pend \in [Conns -> Seq(Entries)]
  BY FirstRow DEF MarkDelivered, Typed, Shapes
<1>2. pend' = [pend EXCEPT ![c] = Tail(pend[c])]
  BY DEF MarkDelivered
<1>3. pend'[c] = Tail(pend[c])
  BY <1>1, <1>2
<1>4. /\ \A k \in DOMAIN Tail(pend[c]) : k + 1 \in DOMAIN pend[c] /\ Tail(pend[c])[k] = pend[c][k + 1]
      /\ Tail(pend[c]) \in Seq(Entries)
  BY <1>1, TailElems
<1>5. \A k \in DOMAIN Tail(pend[c]) : k \in Nat \ {0}
  BY <1>4
<1> QED
  BY <1>1, <1>2, <1>3, <1>4, <1>5

\* The flush that fails has no rows any more, another thread keeps its own.
LEMMA SentRows ==
    ASSUME Typed, NEW c \in Conns, SendPending(c)
    PROVE  \A v \in Conns : pend'[v] = pend[v] \/ pend'[v] = <<>>
<1>1. pend' = pend \/ pend' = [pend EXCEPT ![c] = <<>>]
  BY DEF SendPending
<1> QED
  BY <1>1 DEF Typed, Shapes

\* A login reads rows of the table.
LEMMA FreshRows ==
    ASSUME Typed, NEW c \in Conns, ReadPending(c)
    PROVE  /\ \A v \in Conns \ {c} : pend'[v] = pend[v]
           /\ \A k \in DOMAIN pend'[c] : /\ pend'[c][k] \in queue
                                         /\ rows[pend'[c][k].msg].to = User(c)
                                         /\ pend'[c][k].attempts < MaxAttempts
           /\ \A j, k \in DOMAIN pend'[c] : pend'[c][j] = pend'[c][k] => j = k
           /\ queue' = queue /\ rows' = rows
<1>1. PICK s \in findUndeliveredByRecipient(User(c)) : pend' = [pend EXCEPT ![c] = s]
  BY DEF ReadPending
<1>2. Shapes
  BY DEF Typed
<1>3. /\ \A k \in DOMAIN s : s[k] \in queue /\ rows[s[k].msg].to = User(c) /\ s[k].attempts < MaxAttempts
      /\ \A i, j \in DOMAIN s : s[i] = s[j] => i = j
  BY <1>1, <1>2, FoundRows
<1>4. pend'[c] = s /\ \A v \in Conns \ {c} : pend'[v] = pend[v]
  BY <1>1, <1>2 DEF Shapes
<1> QED
  BY <1>3, <1>4 DEF ReadPending, tables

\* An id keeps naming one message.
LEMMA OneMessageStep == Typed /\ OneMessage /\ [Next]_vars => OneMessage'
<1> SUFFICES ASSUME Typed, OneMessage, [Next]_vars
             PROVE  OneMessage'
    OBVIOUS
<1>1. ASSUME NEW c \in Conns, Login(c) PROVE OneMessage'
  BY <1>1 DEF Login, Goto, thread, net, tables, client, OneMessage
<1>2. ASSUME NEW c \in Conns, AckRead(c) PROVE OneMessage'
  BY <1>2 DEF AckRead, Reads, thread, net, tables, client, OneMessage
<1>3. ASSUME NEW c \in Conns, MessageRead(c) PROVE OneMessage'
  BY <1>3 DEF MessageRead, Reads, thread, net, tables, client, OneMessage
<1>4. ASSUME NEW c \in Conns, Close(c) PROVE OneMessage'
  BY <1>4 DEF Close, thread, net, tables, client, OneMessage
<1>5. ASSUME NEW c \in Conns, ReadPending(c) PROVE OneMessage'
  <2>1. \A v \in Conns \ {c} : pend'[v] = pend[v]
    BY <1>5, FreshRows
  <2>2. \A k \in DOMAIN pend'[c] : pend'[c][k] \in queue
    BY <1>5, FreshRows
  <2>3. queue' = queue
    BY <1>5, FreshRows
  <2> QED
    BY <2>1, <2>2, <2>3 DEF OneMessage
<1>6. ASSUME NEW c \in Conns, IncrementAttempts(c) PROVE OneMessage'
  <2>1. \A r \in queue' : \E q \in queue : r.id = q.id /\ r.msg = q.msg
    BY <1>6, BumpedRows DEF Typed
  <2>2. pend' = pend
    BY <1>6 DEF IncrementAttempts
  <2> QED
    BY <2>1, <2>2 DEF OneMessage
<1>7. ASSUME NEW c \in Conns, SendPending(c) PROVE OneMessage'
  <2>1. queue' = queue
    BY <1>7 DEF SendPending
  <2>2. \A v \in Conns : pend'[v] = pend[v] \/ pend'[v] = <<>>
    BY <1>7, SentRows
  <2> QED
    BY <2>1, <2>2 DEF OneMessage
<1>8. ASSUME NEW c \in Conns, MarkDelivered(c) PROVE OneMessage'
  <2>1. \A r \in queue' : \E q \in queue : r.id = q.id /\ r.msg = q.msg
    BY <1>8, MarkedRows DEF Typed
  <2>2. \A v \in Conns : \A k \in DOMAIN pend'[v] : \E j \in DOMAIN pend[v] : pend'[v][k] = pend[v][j]
    BY <1>8, RestOfRows
  <2>3. \A q, r \in queue' : q.id = r.id => q.msg = r.msg
    BY <2>1 DEF OneMessage
  <2>4. \A q \in queue' : \A v \in Conns : \A k \in DOMAIN pend'[v] :
          pend'[v][k].id = q.id => pend'[v][k].msg = q.msg
    BY <2>1, <2>2 DEF OneMessage
  <2> QED
    BY <2>3, <2>4 DEF OneMessage
<1>9. ASSUME NEW c \in Conns, Join(c) PROVE OneMessage'
  BY <1>9 DEF Join, Goto, thread, net, tables, client, OneMessage
<1>10. ASSUME NEW c \in Conns, JoinFails(c) PROVE OneMessage'
  BY <1>10 DEF JoinFails, Goto, thread, net, tables, client, OneMessage
<1>11. ASSUME NEW c \in Conns, SaveMessage(c) PROVE OneMessage'
  BY <1>11 DEF SaveMessage, Goto, thread, net, tables, client, OneMessage
<1>12. ASSUME NEW c \in Conns, Route(c) PROVE OneMessage'
  BY <1>12 DEF Route, Goto, thread, net, tables, client, OneMessage
<1>13. ASSUME NEW c \in Conns, Forward(c) PROVE OneMessage'
  BY <1>13 DEF Forward, Goto, thread, net, tables, client, OneMessage
<1>14. ASSUME NEW c \in Conns, ForwardThrows(c) PROVE OneMessage'
  BY <1>14 DEF ForwardThrows, Goto, thread, net, tables, client, OneMessage
<1>15. ASSUME NEW c \in Conns, Reload(c) PROVE OneMessage'
  BY <1>15 DEF Reload, Goto, thread, net, tables, client, OneMessage
<1>16. ASSUME NEW c \in Conns, Enqueue(c) PROVE OneMessage'
  <2> DEFINE e == [id |-> queued + 1, msg |-> last[c], delivered |-> FALSE, attempts |-> 0]
  <2>1. e.id = queued + 1 /\ queue' = queue \cup {e} /\ pend' = pend
    BY <1>16 DEF Enqueue
  <2> HIDE DEF e
  <2>2. \A q \in queue : q.id # e.id
    BY <2>1, IdsInUse
  <2>3. \A v \in Conns : \A k \in DOMAIN pend[v] : pend[v][k].id # e.id
    BY <2>1, IdsInUse
  <2> QED
    BY <2>1, <2>2, <2>3 DEF OneMessage
<1>17. ASSUME NEW c \in Conns, Echo(c) PROVE OneMessage'
  BY <1>17 DEF Echo, Goto, thread, net, tables, client, OneMessage
<1>18. ASSUME NEW c \in Conns, Sync(c) PROVE OneMessage'
  BY <1>18 DEF Sync, thread, net, tables, client, OneMessage
<1>19. ASSUME NEW c \in Conns, Leave(c) PROVE OneMessage'
  BY <1>19 DEF Leave, Goto, thread, net, tables, client, OneMessage
<1>20. ASSUME NEW c \in Conns, NEW u \in Users, ClientSend(c, u)
      PROVE  OneMessage'
  BY <1>20 DEF ClientSend, thread, net, tables, client, OneMessage
<1>21. ASSUME PurgeQueue PROVE OneMessage'
  BY <1>21 DEF PurgeQueue, thread, net, tables, client, OneMessage
<1>22. ASSUME Crash PROVE OneMessage'
  BY <1>22 DEF Crash, thread, net, tables, client, OneMessage
<1>23. CASE UNCHANGED vars
  BY <1>23 DEF vars, thread, net, tables, client, OneMessage
<1> QED
  BY <1>1, <1>2, <1>3, <1>4, <1>5, <1>6, <1>7, <1>8, <1>9, <1>10, <1>11, <1>12, <1>13, <1>14,
     <1>15, <1>16, <1>17, <1>18, <1>19, <1>20, <1>21, <1>22, <1>23, ReadsOne DEF Next,
     ThreadStep

\* markDelivered still follows a send.
LEMMA WrittenFirstStep ==
    Typed /\ WrittenFirst /\ [Next]_vars => WrittenFirst'
<1> SUFFICES ASSUME Typed, WrittenFirst, [Next]_vars
             PROVE  WrittenFirst'
    OBVIOUS
<1>1. ASSUME NEW c \in Conns, Login(c) PROVE WrittenFirst'
  BY <1>1 DEF Login, Goto, thread, net, tables, client, WrittenFirst, Typed, Shapes
<1>2. ASSUME NEW c \in Conns, AckRead(c) PROVE WrittenFirst'
  BY <1>2 DEF AckRead, Reads, thread, net, tables, client, WrittenFirst, Typed, Shapes
<1>3. ASSUME NEW c \in Conns, MessageRead(c) PROVE WrittenFirst'
  BY <1>3 DEF MessageRead, Reads, thread, net, tables, client, WrittenFirst, Typed, Shapes
<1>4. ASSUME NEW c \in Conns, Close(c) PROVE WrittenFirst'
  BY <1>4 DEF Close, thread, net, tables, client, WrittenFirst, Typed, Shapes
<1>5. ASSUME NEW c \in Conns, ReadPending(c) PROVE WrittenFirst'
  BY <1>5 DEF ReadPending, Goto, thread, net, tables, client, WrittenFirst, Typed, Shapes
<1>6. ASSUME NEW c \in Conns, IncrementAttempts(c) PROVE WrittenFirst'
  BY <1>6 DEF IncrementAttempts, Goto, thread, net, tables, client, WrittenFirst, Typed, Shapes
<1>7. ASSUME NEW c \in Conns, SendPending(c) PROVE WrittenFirst'
  <2>1. \/ pend' = pend /\ wrote' = wrote \cup {Head(pend[c]).msg}
        \/ wrote' = wrote /\ pend' = [pend EXCEPT ![c] = <<>>] /\ pc' = [pc EXCEPT ![c] = "bump"]
    BY <1>7 DEF SendPending, Goto
  <2>2. \A v \in Conns \ {c} : pc'[v] = pc[v]
    BY <1>7 DEF SendPending, Goto, Typed, Shapes
  <2>3. CASE pend' = pend /\ wrote' = wrote \cup {Head(pend[c]).msg}
    BY <2>2, <2>3 DEF WrittenFirst
  <2>4. CASE wrote' = wrote /\ pend' = [pend EXCEPT ![c] = <<>>] /\ pc' = [pc EXCEPT ![c] = "bump"]
    BY <2>4 DEF WrittenFirst, Typed, Shapes
  <2> QED
    BY <2>1, <2>3, <2>4
<1>8. ASSUME NEW c \in Conns, MarkDelivered(c) PROVE WrittenFirst'
  BY <1>8 DEF MarkDelivered, Goto, thread, net, tables, client, WrittenFirst, Typed, Shapes
<1>9. ASSUME NEW c \in Conns, Join(c) PROVE WrittenFirst'
  BY <1>9 DEF Join, Goto, thread, net, tables, client, WrittenFirst, Typed, Shapes
<1>10. ASSUME NEW c \in Conns, JoinFails(c) PROVE WrittenFirst'
  BY <1>10 DEF JoinFails, Goto, thread, net, tables, client, WrittenFirst, Typed, Shapes
<1>11. ASSUME NEW c \in Conns, SaveMessage(c) PROVE WrittenFirst'
  BY <1>11 DEF SaveMessage, Goto, thread, net, tables, client, WrittenFirst, Typed, Shapes
<1>12. ASSUME NEW c \in Conns, Route(c) PROVE WrittenFirst'
  BY <1>12 DEF Route, Goto, thread, net, tables, client, WrittenFirst, Typed, Shapes
<1>13. ASSUME NEW c \in Conns, Forward(c) PROVE WrittenFirst'
  BY <1>13 DEF Forward, Goto, thread, net, tables, client, WrittenFirst, Typed, Shapes
<1>14. ASSUME NEW c \in Conns, ForwardThrows(c) PROVE WrittenFirst'
  BY <1>14 DEF ForwardThrows, Goto, thread, net, tables, client, WrittenFirst, Typed, Shapes
<1>15. ASSUME NEW c \in Conns, Reload(c) PROVE WrittenFirst'
  BY <1>15 DEF Reload, Goto, thread, net, tables, client, WrittenFirst, Typed, Shapes
<1>16. ASSUME NEW c \in Conns, Enqueue(c) PROVE WrittenFirst'
  BY <1>16 DEF Enqueue, Goto, thread, net, tables, client, WrittenFirst, Typed, Shapes
<1>17. ASSUME NEW c \in Conns, Echo(c) PROVE WrittenFirst'
  BY <1>17 DEF Echo, Goto, thread, net, tables, client, WrittenFirst, Typed, Shapes
<1>18. ASSUME NEW c \in Conns, Sync(c) PROVE WrittenFirst'
  BY <1>18 DEF Sync, thread, net, tables, client, WrittenFirst, Typed, Shapes
<1>19. ASSUME NEW c \in Conns, Leave(c) PROVE WrittenFirst'
  BY <1>19 DEF Leave, Goto, thread, net, tables, client, WrittenFirst, Typed, Shapes
<1>20. ASSUME NEW c \in Conns, NEW u \in Users, ClientSend(c, u)
      PROVE  WrittenFirst'
  BY <1>20 DEF ClientSend, thread, net, tables, client, WrittenFirst, Typed, Shapes
<1>21. ASSUME PurgeQueue PROVE WrittenFirst'
  BY <1>21 DEF PurgeQueue, thread, net, tables, client, WrittenFirst, Typed, Shapes
<1>22. ASSUME Crash PROVE WrittenFirst'
  BY <1>22 DEF Crash, thread, net, tables, client, WrittenFirst, Typed, Shapes
<1>23. CASE UNCHANGED vars
  BY <1>23 DEF vars, thread, net, tables, client, WrittenFirst, Typed, Shapes
<1> QED
  BY <1>1, <1>2, <1>3, <1>4, <1>5, <1>6, <1>7, <1>8, <1>9, <1>10, <1>11, <1>12, <1>13, <1>14,
     <1>15, <1>16, <1>17, <1>18, <1>19, <1>20, <1>21, <1>22, <1>23, ReadsOne DEF Next,
     ThreadStep

\* The rows marked delivered were written to a socket.
LEMMA DeliveredStep ==
    Typed /\ OneMessage /\ WrittenFirst /\ DeliveredWasWritten /\ [Next]_vars => DeliveredWasWritten'
<1> SUFFICES ASSUME Typed, OneMessage, WrittenFirst, DeliveredWasWritten, [Next]_vars
             PROVE  DeliveredWasWritten'
    OBVIOUS
<1>1. ASSUME NEW c \in Conns, Login(c) PROVE DeliveredWasWritten'
  BY <1>1 DEF Login, Goto, thread, net, tables, client, DeliveredWasWritten
<1>2. ASSUME NEW c \in Conns, AckRead(c) PROVE DeliveredWasWritten'
  BY <1>2 DEF AckRead, Reads, thread, net, tables, client, DeliveredWasWritten
<1>3. ASSUME NEW c \in Conns, MessageRead(c) PROVE DeliveredWasWritten'
  BY <1>3 DEF MessageRead, Reads, thread, net, tables, client, DeliveredWasWritten
<1>4. ASSUME NEW c \in Conns, Close(c) PROVE DeliveredWasWritten'
  BY <1>4 DEF Close, thread, net, tables, client, DeliveredWasWritten
<1>5. ASSUME NEW c \in Conns, ReadPending(c) PROVE DeliveredWasWritten'
  BY <1>5 DEF ReadPending, Goto, thread, net, tables, client, DeliveredWasWritten
<1>6. ASSUME NEW c \in Conns, IncrementAttempts(c) PROVE DeliveredWasWritten'
  <2>1. \A r \in queue' : \E q \in queue : r.delivered = q.delivered /\ r.msg = q.msg
    BY <1>6, BumpedRows DEF Typed
  <2>2. wrote' = wrote
    BY <1>6 DEF IncrementAttempts
  <2> QED
    BY <2>1, <2>2 DEF DeliveredWasWritten
<1>7. ASSUME NEW c \in Conns, SendPending(c) PROVE DeliveredWasWritten'
  BY <1>7 DEF SendPending, Goto, thread, net, tables, client, DeliveredWasWritten
<1>8. ASSUME NEW c \in Conns, MarkDelivered(c) PROVE DeliveredWasWritten'
  <2>1. wrote' = wrote /\ Head(pend[c]).msg \in wrote
    BY <1>8 DEF MarkDelivered, WrittenFirst
  <2>2. 1 \in DOMAIN pend[c] /\ Head(pend[c]) = pend[c][1]
    BY <1>8, FirstRow DEF MarkDelivered
  <2>3. \A q \in queue : q.id = Head(pend[c]).id => q.msg \in wrote
    BY <2>1, <2>2 DEF OneMessage
  <2>4. \A r \in queue' : \E q \in queue : r.msg = q.msg /\ (r.delivered => q.delivered \/ q.id = Head(pend[c]).id)
    BY <1>8, MarkedRows DEF Typed
  <2> QED
    BY <2>1, <2>3, <2>4 DEF DeliveredWasWritten
<1>9. ASSUME NEW c \in Conns, Join(c) PROVE DeliveredWasWritten'
  BY <1>9 DEF Join, Goto, thread, net, tables, client, DeliveredWasWritten
<1>10. ASSUME NEW c \in Conns, JoinFails(c) PROVE DeliveredWasWritten'
  BY <1>10 DEF JoinFails, Goto, thread, net, tables, client, DeliveredWasWritten
<1>11. ASSUME NEW c \in Conns, SaveMessage(c) PROVE DeliveredWasWritten'
  BY <1>11 DEF SaveMessage, Goto, thread, net, tables, client, DeliveredWasWritten
<1>12. ASSUME NEW c \in Conns, Route(c) PROVE DeliveredWasWritten'
  BY <1>12 DEF Route, Goto, thread, net, tables, client, DeliveredWasWritten
<1>13. ASSUME NEW c \in Conns, Forward(c) PROVE DeliveredWasWritten'
  BY <1>13 DEF Forward, Goto, thread, net, tables, client, DeliveredWasWritten
<1>14. ASSUME NEW c \in Conns, ForwardThrows(c) PROVE DeliveredWasWritten'
  BY <1>14 DEF ForwardThrows, Goto, thread, net, tables, client, DeliveredWasWritten
<1>15. ASSUME NEW c \in Conns, Reload(c) PROVE DeliveredWasWritten'
  BY <1>15 DEF Reload, Goto, thread, net, tables, client, DeliveredWasWritten
<1>16. ASSUME NEW c \in Conns, Enqueue(c) PROVE DeliveredWasWritten'
  BY <1>16 DEF Enqueue, Goto, thread, net, tables, client, DeliveredWasWritten
<1>17. ASSUME NEW c \in Conns, Echo(c) PROVE DeliveredWasWritten'
  BY <1>17 DEF Echo, Goto, thread, net, tables, client, DeliveredWasWritten
<1>18. ASSUME NEW c \in Conns, Sync(c) PROVE DeliveredWasWritten'
  BY <1>18 DEF Sync, thread, net, tables, client, DeliveredWasWritten
<1>19. ASSUME NEW c \in Conns, Leave(c) PROVE DeliveredWasWritten'
  BY <1>19 DEF Leave, Goto, thread, net, tables, client, DeliveredWasWritten
<1>20. ASSUME NEW c \in Conns, NEW u \in Users, ClientSend(c, u)
      PROVE  DeliveredWasWritten'
  BY <1>20 DEF ClientSend, thread, net, tables, client, DeliveredWasWritten
<1>21. ASSUME PurgeQueue PROVE DeliveredWasWritten'
  BY <1>21 DEF PurgeQueue, thread, net, tables, client, DeliveredWasWritten
<1>22. ASSUME Crash PROVE DeliveredWasWritten'
  BY <1>22 DEF Crash, thread, net, tables, client, DeliveredWasWritten
<1>23. CASE UNCHANGED vars
  BY <1>23 DEF vars, thread, net, tables, client, DeliveredWasWritten
<1> QED
  BY <1>1, <1>2, <1>3, <1>4, <1>5, <1>6, <1>7, <1>8, <1>9, <1>10, <1>11, <1>12, <1>13, <1>14,
     <1>15, <1>16, <1>17, <1>18, <1>19, <1>20, <1>21, <1>22, <1>23, ReadsOne DEF Next,
     ThreadStep

\* At the start the queue is empty.
LEMMA WrittenInit == Init => WrittenInv
BY TypedInit DEF Init, WrittenInv, OneMessage, WrittenFirst, DeliveredWasWritten

\* Every step keeps it.
LEMMA WrittenStep == WrittenInv /\ [Next]_vars => WrittenInv'
BY TypedStep, OneMessageStep, WrittenFirstStep, DeliveredStep DEF WrittenInv

(***************************************************************************)
(* A queue row is marked delivered only after its message was written to a *)
(* socket of the recipient, for any number of logins that flush the same   *)
(* rows, with the purge and crashes between (LoginHandler.cpp:156-161).    *)
(***************************************************************************)
THEOREM MarkedWasWritten == Spec => []DeliveredWasWritten
BY WrittenInit, WrittenStep, PTL DEF Spec, WrittenInv
-----------------------------------------------------------------------------
\* A packet made of a row of messages says what the row says.
LEMMA ForwardedSays ==
    ASSUME NEW w, Shapes, InTable(w), NEW i \in Ids, NEW ts \in Stamps, NEW e \in BOOLEAN,
           ts.t = rows[i].t, NEW p, p = Forwarded(i, ts, e)
    PROVE  p \in Packets /\ Is(w, p.ts.t, p.from, p.to)
<1>1. p \in Packets /\ p.from = rows[i].from /\ p.to = rows[i].to /\ p.ts = ts
  BY ForwardedType
<1> QED
  BY <1>1 DEF InTable

\* So do the packets of a sync.
LEMMA ReplaySays ==
    ASSUME NEW w, Shapes, InTable(w), NEW s \in Seq(Ids), NEW u, NEW a, a = Replay(s, u)
    PROVE  \A k \in DOMAIN a : Is(w, a[k].ts.t, a[k].from, a[k].to)
<1>1. \A k \in DOMAIN a : \E i \in Ids : /\ a[k].from = rows[i].from /\ a[k].to = rows[i].to
                                         /\ a[k].ts.t = rows[i].t
  BY ReplayType
<1> QED
  BY <1>1 DEF InTable

\* A wire agrees as long as what comes onto it does.
LEMMA PacketsAgree ==
    ASSUME NEW w, InPackets(w), sends' = sends,
           \A v \in Conns : \A k \in DOMAIN inbox'[v] :
              \/ \E j \in DOMAIN inbox[v] : inbox'[v][k] = inbox[v][j]
              \/ inbox'[v][k].kind # "message"
              \/ Is(w, inbox'[v][k].ts.t, inbox'[v][k].from, inbox'[v][k].to)
    PROVE  InPackets(w)'
<1> SUFFICES ASSUME NEW v \in Conns, NEW k \in DOMAIN inbox'[v], inbox'[v][k].kind = "message"
             PROVE  Is(w, inbox'[v][k].ts.t, inbox'[v][k].from, inbox'[v][k].to)
    BY DEF InPackets, Is
<1>1. CASE \E j \in DOMAIN inbox[v] : inbox'[v][k] = inbox[v][j]
  BY <1>1 DEF InPackets
<1> QED
  BY <1>1

\* The same for the way to the server.
LEMMA RequestsAgree ==
    ASSUME NEW w, InRequests(w), sends' = sends,
           \A v \in Conns : \A k \in DOMAIN outbox'[v] :
              \/ \E j \in DOMAIN outbox[v] : outbox'[v][k] = outbox[v][j]
              \/ outbox'[v][k].kind # "message"
    PROVE  InRequests(w)'
<1> SUFFICES ASSUME NEW v \in Conns, NEW k \in DOMAIN outbox'[v], outbox'[v][k].kind = "message"
             PROVE  Is(w, outbox'[v][k].t, User(v), outbox'[v][k].to)
    BY DEF InRequests, Is
<1>1. \E j \in DOMAIN outbox[v] : outbox'[v][k] = outbox[v][j]
  OBVIOUS
<1> QED
  BY <1>1 DEF InRequests

\* The same for the stores.
LEMMA StoresAgree ==
    ASSUME NEW w, InStores(w), sends' = sends,
           \A v \in Devices : \A k \in DOMAIN shown'[v] :
              \/ \E j \in DOMAIN shown[v] : shown'[v][k] = shown[v][j]
              \/ Is(w, shown'[v][k].ts.t, shown'[v][k].from, shown'[v][k].to)
    PROVE  InStores(w)'
<1> SUFFICES ASSUME NEW v \in Devices, NEW k \in DOMAIN shown'[v]
             PROVE  Is(w, shown'[v][k].ts.t, shown'[v][k].from, shown'[v][k].to)
    BY DEF InStores, Is
<1>1. CASE \E j \in DOMAIN shown[v] : shown'[v][k] = shown[v][j]
  BY <1>1 DEF InStores
<1> QED
  BY <1>1

\* Such a packet may be added to a wire.
LEMMA PutPacket ==
    ASSUME NEW w, Shapes, InPackets(w), sends' = sends, NEW r \in Conns, NEW p \in Packets,
           Is(w, p.ts.t, p.from, p.to),
           \A v \in Conns : inbox'[v] = inbox[v] \/ inbox'[v] = Append(inbox[v], p)
    PROVE  InPackets(w)'
<1> SUFFICES ASSUME NEW v \in Conns, NEW k \in DOMAIN inbox'[v], inbox'[v][k].kind = "message"
             PROVE  Is(w, inbox'[v][k].ts.t, inbox'[v][k].from, inbox'[v][k].to)
    BY DEF InPackets, Is
<1>1. CASE inbox'[v] = inbox[v]
  BY <1>1 DEF InPackets
<1>2. CASE inbox'[v] = Append(inbox[v], p)
  <2>1. inbox[v] \in Seq(Packets)
    BY DEF Shapes
  <2>2. \/ k \in DOMAIN inbox[v] /\ inbox'[v][k] = inbox[v][k]
        \/ inbox'[v][k] = p
    BY <1>2, <2>1, AppendElems
  <2> QED
    BY <2>2 DEF InPackets
<1> QED
  BY <1>1, <1>2

\* What is on its way to the clients names messages that were written.
LEMMA PacketsStep ==
    ASSUME NEW w, Typed, Agree(w), sends' = sends, [Next]_vars
    PROVE  InPackets(w)'
<1> USE DEF Typed, Agree
<1>1. ASSUME NEW c \in Conns, Login(c) PROVE InPackets(w)'
  <2>1. inbox' = [inbox EXCEPT ![c] = <<LoginAck>>]
    BY <1>1 DEF Login
  <2>2. \A v \in Conns : inbox'[v] = inbox[v] \/ inbox'[v] = <<LoginAck>>
    BY <2>1 DEF Shapes
  <2>3. \A k \in DOMAIN <<LoginAck>> : <<LoginAck>>[k].kind = "ack"
    BY DEF LoginAck
  <2>4. \A v \in Conns : \A k \in DOMAIN inbox'[v] :
          (\E j \in DOMAIN inbox[v] : inbox'[v][k] = inbox[v][j]) \/ inbox'[v][k].kind = "ack"
    BY <2>2, <2>3
  <2> QED
    BY <2>4, PacketsAgree
<1>2. ASSUME NEW c \in Conns, AckRead(c) PROVE InPackets(w)'
  <2>1. inbox \in [Conns -> Seq(Packets)] /\ inbox[c] # <<>> /\ inbox' = [inbox EXCEPT ![c] = Tail(inbox[c])]
    BY <1>2 DEF AckRead, MessageRead, Reads, Shapes
  <2>2. \A k \in DOMAIN Tail(inbox[c]) : k + 1 \in DOMAIN inbox[c] /\ Tail(inbox[c])[k] = inbox[c][k + 1]
    BY <2>1, TailElems
  <2>3. \A v \in Conns : \A k \in DOMAIN inbox'[v] : \E j \in DOMAIN inbox[v] : inbox'[v][k] = inbox[v][j]
    BY <2>1, <2>2
  <2> QED
    BY <2>3, PacketsAgree
<1>3. ASSUME NEW c \in Conns, MessageRead(c) PROVE InPackets(w)'
  <2>1. inbox \in [Conns -> Seq(Packets)] /\ inbox[c] # <<>> /\ inbox' = [inbox EXCEPT ![c] = Tail(inbox[c])]
    BY <1>3 DEF AckRead, MessageRead, Reads, Shapes
  <2>2. \A k \in DOMAIN Tail(inbox[c]) : k + 1 \in DOMAIN inbox[c] /\ Tail(inbox[c])[k] = inbox[c][k + 1]
    BY <2>1, TailElems
  <2>3. \A v \in Conns : \A k \in DOMAIN inbox'[v] : \E j \in DOMAIN inbox[v] : inbox'[v][k] = inbox[v][j]
    BY <2>1, <2>2
  <2> QED
    BY <2>3, PacketsAgree
<1>4. ASSUME NEW c \in Conns, Close(c) PROVE InPackets(w)'
  <2>1. \A v \in Conns : inbox'[v] = inbox[v] \/ inbox'[v] = <<>>
    BY <1>4 DEF Close, Shapes
  <2>2. \A v \in Conns : \A k \in DOMAIN inbox'[v] : \E j \in DOMAIN inbox[v] : inbox'[v][k] = inbox[v][j]
    BY <2>1
  <2> QED
    BY <2>2, PacketsAgree
<1>5. ASSUME NEW c \in Conns, ReadPending(c) PROVE InPackets(w)'
  BY <1>5 DEF ReadPending, Goto, thread, net, tables, client, InPackets, Is
<1>6. ASSUME NEW c \in Conns, IncrementAttempts(c) PROVE InPackets(w)'
  BY <1>6 DEF IncrementAttempts, Goto, thread, net, tables, client, InPackets, Is
<1>7. ASSUME NEW c \in Conns, SendPending(c) PROVE InPackets(w)'
  <2> DEFINE i == Head(pend[c]).msg
             p == Forwarded(i, Pg(rows[i].t), FALSE)
  <2>1. i \in Ids
    BY <1>7, FirstRow DEF SendPending
  <2>2. Pg(rows[i].t) \in Stamps /\ Pg(rows[i].t).t = rows[i].t
    BY <2>1, RowStamps DEF Pg
  <2>3. p \in Packets /\ Is(w, p.ts.t, p.from, p.to)
    BY <2>1, <2>2, ForwardedSays
  <2>4. inbox' = inbox \/ inbox' = [inbox EXCEPT ![c] = Append(inbox[c], p)]
    BY <1>7 DEF SendPending
  <2> HIDE DEF p
  <2>5. \A v \in Conns : inbox'[v] = inbox[v] \/ inbox'[v] = Append(inbox[v], p)
    BY <2>4 DEF Shapes
  <2> QED
    BY <2>3, <2>5, PutPacket
<1>8. ASSUME NEW c \in Conns, MarkDelivered(c) PROVE InPackets(w)'
  BY <1>8 DEF MarkDelivered, Goto, thread, net, tables, client, InPackets, Is
<1>9. ASSUME NEW c \in Conns, Join(c) PROVE InPackets(w)'
  BY <1>9 DEF Join, Goto, thread, net, tables, client, InPackets, Is
<1>10. ASSUME NEW c \in Conns, JoinFails(c) PROVE InPackets(w)'
  BY <1>10 DEF JoinFails, Goto, thread, net, tables, client, InPackets, Is
<1>11. ASSUME NEW c \in Conns, SaveMessage(c) PROVE InPackets(w)'
  BY <1>11 DEF SaveMessage, Goto, thread, net, tables, client, InPackets, Is
<1>12. ASSUME NEW c \in Conns, Route(c) PROVE InPackets(w)'
  BY <1>12 DEF Route, Goto, thread, net, tables, client, InPackets, Is
<1>13. ASSUME NEW c \in Conns, Forward(c) PROVE InPackets(w)'
  <2> DEFINE p == Forwarded(cur[c], Iso(rows[cur[c]].t), FALSE)
  <2>1. cur[c] \in Ids
    BY <1>13, CurRow DEF Forward
  <2>2. Iso(rows[cur[c]].t) \in Stamps /\ Iso(rows[cur[c]].t).t = rows[cur[c]].t
    BY <2>1, RowStamps DEF Iso
  <2>3. p \in Packets /\ Is(w, p.ts.t, p.from, p.to)
    BY <2>1, <2>2, ForwardedSays
  <2>4. inbox' = inbox \/ inbox' = [inbox EXCEPT ![tgt[c]] = Append(inbox[tgt[c]], p)]
    BY <1>13 DEF Forward
  <2> HIDE DEF p
  <2>5. \A v \in Conns : inbox'[v] = inbox[v] \/ inbox'[v] = Append(inbox[v], p)
    BY <2>4 DEF Shapes
  <2> QED
    BY <2>3, <2>5, PutPacket
<1>14. ASSUME NEW c \in Conns, ForwardThrows(c) PROVE InPackets(w)'
  BY <1>14 DEF ForwardThrows, Goto, thread, net, tables, client, InPackets, Is
<1>15. ASSUME NEW c \in Conns, Reload(c) PROVE InPackets(w)'
  BY <1>15 DEF Reload, Goto, thread, net, tables, client, InPackets, Is
<1>16. ASSUME NEW c \in Conns, Enqueue(c) PROVE InPackets(w)'
  BY <1>16 DEF Enqueue, Goto, thread, net, tables, client, InPackets, Is
<1>17. ASSUME NEW c \in Conns, Echo(c) PROVE InPackets(w)'
  <2> DEFINE p == Forwarded(cur[c], Iso(rows[cur[c]].t), TRUE)
  <2>1. cur[c] \in Ids
    BY <1>17, CurRow DEF Echo
  <2>2. Iso(rows[cur[c]].t) \in Stamps /\ Iso(rows[cur[c]].t).t = rows[cur[c]].t
    BY <2>1, RowStamps DEF Iso
  <2>3. p \in Packets /\ Is(w, p.ts.t, p.from, p.to)
    BY <2>1, <2>2, ForwardedSays
  <2>4. \A v \in Conns : inbox'[v] = inbox[v] \/ inbox'[v] = Append(inbox[v], p)
    BY <1>17 DEF Echo
  <2> HIDE DEF p
  <2> QED
    BY <2>3, <2>4, PutPacket
<1>18. ASSUME NEW c \in Conns, Sync(c) PROVE InPackets(w)'
  <2>1. PICK s \in findAllForUser(User(c), Head(outbox[c]).cursor) :
          inbox' = [inbox EXCEPT ![c] = inbox[c] \o Replay(s, User(c))]
    BY <1>18 DEF Sync, Replay
  <2>2. s \in Seq(Ids)
    BY <2>1, FoundMessages
  <2>3. PICK a : a = Replay(s, User(c))
    OBVIOUS
  <2>4. PICK b : b = inbox[c] \o a
    OBVIOUS
  <2>5. inbox[c] \in Seq(Packets) /\ inbox \in [Conns -> Seq(Packets)]
    BY DEF Shapes
  <2>6. a \in Seq(Packets) /\ \A k \in DOMAIN a : Is(w, a[k].ts.t, a[k].from, a[k].to)
    <3> HIDE DEF Typed, Agree
    <3>1. Shapes /\ InTable(w)
      BY DEF Typed, Agree
    <3> QED
      BY <2>2, <2>3, <3>1, ReplaySays, ReplayType
  <2>7. \A k \in DOMAIN b : \/ k \in DOMAIN inbox[c] /\ b[k] = inbox[c][k]
                            \/ \E j \in DOMAIN a : b[k] = a[j]
    BY <2>4, <2>5, <2>6, ConcatElems
  <2>8. inbox'[c] = b /\ \A v \in Conns \ {c} : inbox'[v] = inbox[v]
    BY <2>1, <2>3, <2>4, <2>5
  <2>9. \A k \in DOMAIN b : \/ k \in DOMAIN inbox[c] /\ b[k] = inbox[c][k]
                            \/ Is(w, b[k].ts.t, b[k].from, b[k].to)
    BY <2>6, <2>7
  <2> QED
    <3> SUFFICES ASSUME NEW v \in Conns, NEW k \in DOMAIN inbox'[v]
                 PROVE  \/ \E j \in DOMAIN inbox[v] : inbox'[v][k] = inbox[v][j]
                        \/ inbox'[v][k].kind # "message"
                        \/ Is(w, inbox'[v][k].ts.t, inbox'[v][k].from, inbox'[v][k].to)
      BY PacketsAgree
    <3>1. CASE v = c
      BY <2>8, <2>9, <3>1
    <3>2. CASE v # c
      BY <2>8, <3>2
    <3> QED
      BY <3>1, <3>2
<1>19. ASSUME NEW c \in Conns, Leave(c) PROVE InPackets(w)'
  BY <1>19 DEF Leave, Goto, thread, net, tables, client, InPackets, Is
<1>20. ASSUME NEW c \in Conns, NEW u \in Users, ClientSend(c, u)
      PROVE  InPackets(w)'
  BY <1>20 DEF ClientSend, Typed, Shapes
<1>21. ASSUME PurgeQueue PROVE InPackets(w)'
  BY <1>21 DEF PurgeQueue, thread, net, tables, client, InPackets, Is
<1>22. ASSUME Crash PROVE InPackets(w)'
  BY <1>22 DEF Crash, InPackets
<1>23. CASE UNCHANGED vars
  BY <1>23 DEF vars, thread, net, tables, client, InPackets, Is
<1> QED
  BY <1>1, <1>2, <1>3, <1>4, <1>5, <1>6, <1>7, <1>8, <1>9, <1>10, <1>11, <1>12, <1>13, <1>14,
     <1>15, <1>16, <1>17, <1>18, <1>19, <1>20, <1>21, <1>22, <1>23, ReadsOne DEF Next,
     ThreadStep

\* So does what is on its way to the server.
LEMMA RequestsStep ==
    ASSUME NEW w, Typed, Agree(w), sends' = sends, [Next]_vars
    PROVE  InRequests(w)'
<1> USE DEF Typed, Agree
<1>1. ASSUME NEW c \in Conns, Login(c) PROVE InRequests(w)'
  BY <1>1 DEF Login, Goto, thread, net, tables, client, InRequests, Is
<1>2. ASSUME NEW c \in Conns, AckRead(c) PROVE InRequests(w)'
  <2> DEFINE e == [kind |-> "sync", cursor |-> newestTimestamp(DeviceOf[c])]
  <2>1. e.kind = "sync" /\ e \in Requests
    BY UserType, NewestType DEF Requests
  <2>2. outbox' = [outbox EXCEPT ![c] = Append(outbox[c], e)] /\ outbox \in [Conns -> Seq(Requests)]
    BY <1>2 DEF AckRead, Shapes
  <2> HIDE DEF e
  <2>3. \A k \in DOMAIN Append(outbox[c], e) :
          (k \in DOMAIN outbox[c] /\ Append(outbox[c], e)[k] = outbox[c][k]) \/ Append(outbox[c], e)[k] = e
    BY <2>1, <2>2, AppendElems
  <2>4. outbox'[c] = Append(outbox[c], e) /\ \A v \in Conns \ {c} : outbox'[v] = outbox[v]
    BY <2>2
  <2> SUFFICES ASSUME NEW v \in Conns, NEW k \in DOMAIN outbox'[v]
               PROVE  \/ \E j \in DOMAIN outbox[v] : outbox'[v][k] = outbox[v][j]
                      \/ outbox'[v][k].kind # "message"
    BY RequestsAgree
  <2>5. CASE v = c
    BY <2>1, <2>3, <2>4, <2>5
  <2>6. CASE v # c
    BY <2>4, <2>6
  <2> QED
    BY <2>5, <2>6
<1>3. ASSUME NEW c \in Conns, MessageRead(c) PROVE InRequests(w)'
  BY <1>3 DEF MessageRead, Reads, thread, net, tables, client, InRequests, Is
<1>4. ASSUME NEW c \in Conns, Close(c) PROVE InRequests(w)'
  <2>1. \A v \in Conns : outbox'[v] = outbox[v] \/ outbox'[v] = <<>>
    BY <1>4 DEF Close, Shapes
  <2>2. \A v \in Conns : \A k \in DOMAIN outbox'[v] : \E j \in DOMAIN outbox[v] : outbox'[v][k] = outbox[v][j]
    BY <2>1
  <2> QED
    BY <2>2, RequestsAgree
<1>5. ASSUME NEW c \in Conns, ReadPending(c) PROVE InRequests(w)'
  BY <1>5 DEF ReadPending, Goto, thread, net, tables, client, InRequests, Is
<1>6. ASSUME NEW c \in Conns, IncrementAttempts(c) PROVE InRequests(w)'
  BY <1>6 DEF IncrementAttempts, Goto, thread, net, tables, client, InRequests, Is
<1>7. ASSUME NEW c \in Conns, SendPending(c) PROVE InRequests(w)'
  BY <1>7 DEF SendPending, Goto, thread, net, tables, client, InRequests, Is
<1>8. ASSUME NEW c \in Conns, MarkDelivered(c) PROVE InRequests(w)'
  BY <1>8 DEF MarkDelivered, Goto, thread, net, tables, client, InRequests, Is
<1>9. ASSUME NEW c \in Conns, Join(c) PROVE InRequests(w)'
  BY <1>9 DEF Join, Goto, thread, net, tables, client, InRequests, Is
<1>10. ASSUME NEW c \in Conns, JoinFails(c) PROVE InRequests(w)'
  BY <1>10 DEF JoinFails, Goto, thread, net, tables, client, InRequests, Is
<1>11. ASSUME NEW c \in Conns, SaveMessage(c) PROVE InRequests(w)'
  <2>1. outbox \in [Conns -> Seq(Requests)] /\ outbox[c] # <<>> /\ outbox' = [outbox EXCEPT ![c] = Tail(outbox[c])]
    BY <1>11 DEF SaveMessage, Shapes
  <2>2. \A k \in DOMAIN Tail(outbox[c]) : k + 1 \in DOMAIN outbox[c] /\ Tail(outbox[c])[k] = outbox[c][k + 1]
    BY <2>1, TailElems
  <2>3. \A v \in Conns : \A k \in DOMAIN outbox'[v] : \E j \in DOMAIN outbox[v] : outbox'[v][k] = outbox[v][j]
    BY <2>1, <2>2
  <2> QED
    BY <2>3, RequestsAgree
<1>12. ASSUME NEW c \in Conns, Route(c) PROVE InRequests(w)'
  BY <1>12 DEF Route, Goto, thread, net, tables, client, InRequests, Is
<1>13. ASSUME NEW c \in Conns, Forward(c) PROVE InRequests(w)'
  BY <1>13 DEF Forward, Goto, thread, net, tables, client, InRequests, Is
<1>14. ASSUME NEW c \in Conns, ForwardThrows(c) PROVE InRequests(w)'
  BY <1>14 DEF ForwardThrows, Goto, thread, net, tables, client, InRequests, Is
<1>15. ASSUME NEW c \in Conns, Reload(c) PROVE InRequests(w)'
  BY <1>15 DEF Reload, Goto, thread, net, tables, client, InRequests, Is
<1>16. ASSUME NEW c \in Conns, Enqueue(c) PROVE InRequests(w)'
  BY <1>16 DEF Enqueue, Goto, thread, net, tables, client, InRequests, Is
<1>17. ASSUME NEW c \in Conns, Echo(c) PROVE InRequests(w)'
  BY <1>17 DEF Echo, Goto, thread, net, tables, client, InRequests, Is
<1>18. ASSUME NEW c \in Conns, Sync(c) PROVE InRequests(w)'
  <2>1. outbox \in [Conns -> Seq(Requests)] /\ outbox[c] # <<>> /\ outbox' = [outbox EXCEPT ![c] = Tail(outbox[c])]
    BY <1>18 DEF Sync, Shapes
  <2>2. \A k \in DOMAIN Tail(outbox[c]) : k + 1 \in DOMAIN outbox[c] /\ Tail(outbox[c])[k] = outbox[c][k + 1]
    BY <2>1, TailElems
  <2>3. \A v \in Conns : \A k \in DOMAIN outbox'[v] : \E j \in DOMAIN outbox[v] : outbox'[v][k] = outbox[v][j]
    BY <2>1, <2>2
  <2> QED
    BY <2>3, RequestsAgree
<1>19. ASSUME NEW c \in Conns, Leave(c) PROVE InRequests(w)'
  BY <1>19 DEF Leave, Goto, thread, net, tables, client, InRequests, Is
<1>20. ASSUME NEW c \in Conns, NEW u \in Users, ClientSend(c, u)
      PROVE  InRequests(w)'
  BY <1>20 DEF ClientSend, Typed, Shapes
<1>21. ASSUME PurgeQueue PROVE InRequests(w)'
  BY <1>21 DEF PurgeQueue, thread, net, tables, client, InRequests, Is
<1>22. ASSUME Crash PROVE InRequests(w)'
  BY <1>22 DEF Crash, InRequests
<1>23. CASE UNCHANGED vars
  BY <1>23 DEF vars, thread, net, tables, client, InRequests, Is
<1> QED
  BY <1>1, <1>2, <1>3, <1>4, <1>5, <1>6, <1>7, <1>8, <1>9, <1>10, <1>11, <1>12, <1>13, <1>14,
     <1>15, <1>16, <1>17, <1>18, <1>19, <1>20, <1>21, <1>22, <1>23, ReadsOne DEF Next,
     ThreadStep

\* So does the table.
LEMMA TableStep ==
    ASSUME NEW w, Typed, Agree(w), sends' = sends, [Next]_vars
    PROVE  InTable(w)'
<1> USE DEF Typed, Agree
<1>1. ASSUME NEW c \in Conns, Login(c) PROVE InTable(w)'
  BY <1>1 DEF Login, Goto, thread, net, tables, client, InTable, Is, Ids
<1>2. ASSUME NEW c \in Conns, AckRead(c) PROVE InTable(w)'
  BY <1>2 DEF AckRead, Reads, thread, net, tables, client, InTable, Is, Ids
<1>3. ASSUME NEW c \in Conns, MessageRead(c) PROVE InTable(w)'
  BY <1>3 DEF MessageRead, Reads, thread, net, tables, client, InTable, Is, Ids
<1>4. ASSUME NEW c \in Conns, Close(c) PROVE InTable(w)'
  BY <1>4 DEF Close, thread, net, tables, client, InTable, Is, Ids
<1>5. ASSUME NEW c \in Conns, ReadPending(c) PROVE InTable(w)'
  BY <1>5 DEF ReadPending, Goto, thread, net, tables, client, InTable, Is, Ids
<1>6. ASSUME NEW c \in Conns, IncrementAttempts(c) PROVE InTable(w)'
  BY <1>6 DEF IncrementAttempts, Goto, thread, net, tables, client, InTable, Is, Ids
<1>7. ASSUME NEW c \in Conns, SendPending(c) PROVE InTable(w)'
  BY <1>7 DEF SendPending, Goto, thread, net, tables, client, InTable, Is, Ids
<1>8. ASSUME NEW c \in Conns, MarkDelivered(c) PROVE InTable(w)'
  BY <1>8 DEF MarkDelivered, Goto, thread, net, tables, client, InTable, Is, Ids
<1>9. ASSUME NEW c \in Conns, Join(c) PROVE InTable(w)'
  BY <1>9 DEF Join, Goto, thread, net, tables, client, InTable, Is, Ids
<1>10. ASSUME NEW c \in Conns, JoinFails(c) PROVE InTable(w)'
  BY <1>10 DEF JoinFails, Goto, thread, net, tables, client, InTable, Is, Ids
<1>11. ASSUME NEW c \in Conns, SaveMessage(c) PROVE InTable(w)'
  <2> DEFINE p == Head(outbox[c])
             e == [from |-> User(c), to |-> p.to, t |-> p.t]
  <2>1. outbox[c] \in Seq(Requests) /\ outbox[c] # <<>> /\ p.kind = "message"
    BY <1>11 DEF SaveMessage, Shapes
  <2>2. p \in Requests /\ p = outbox[c][1] /\ 1 \in DOMAIN outbox[c]
    BY <2>1, TailElems
  <2>3. Is(w, p.t, User(c), p.to)
    BY <2>1, <2>2 DEF InRequests
  <2>4. e.from = User(c) /\ e.to = p.to /\ e.t = p.t /\ rows' = Append(rows, e) /\ rows \in Seq(Saved)
    BY <1>11 DEF SaveMessage, Shapes
  <2> HIDE DEF e, p
  <2>5. \A i \in Ids' : (i \in Ids /\ rows'[i] = rows[i]) \/ rows'[i] = e
    BY <2>4 DEF Ids
  <2> QED
    BY <2>3, <2>4, <2>5 DEF InTable, Is
<1>12. ASSUME NEW c \in Conns, Route(c) PROVE InTable(w)'
  BY <1>12 DEF Route, Goto, thread, net, tables, client, InTable, Is, Ids
<1>13. ASSUME NEW c \in Conns, Forward(c) PROVE InTable(w)'
  BY <1>13 DEF Forward, Goto, thread, net, tables, client, InTable, Is, Ids
<1>14. ASSUME NEW c \in Conns, ForwardThrows(c) PROVE InTable(w)'
  BY <1>14 DEF ForwardThrows, Goto, thread, net, tables, client, InTable, Is, Ids
<1>15. ASSUME NEW c \in Conns, Reload(c) PROVE InTable(w)'
  BY <1>15 DEF Reload, Goto, thread, net, tables, client, InTable, Is, Ids
<1>16. ASSUME NEW c \in Conns, Enqueue(c) PROVE InTable(w)'
  BY <1>16 DEF Enqueue, Goto, thread, net, tables, client, InTable, Is, Ids
<1>17. ASSUME NEW c \in Conns, Echo(c) PROVE InTable(w)'
  BY <1>17 DEF Echo, Goto, thread, net, tables, client, InTable, Is, Ids
<1>18. ASSUME NEW c \in Conns, Sync(c) PROVE InTable(w)'
  BY <1>18 DEF Sync, thread, net, tables, client, InTable, Is, Ids
<1>19. ASSUME NEW c \in Conns, Leave(c) PROVE InTable(w)'
  BY <1>19 DEF Leave, Goto, thread, net, tables, client, InTable, Is, Ids
<1>20. ASSUME NEW c \in Conns, NEW u \in Users, ClientSend(c, u)
      PROVE  InTable(w)'
  BY <1>20 DEF ClientSend, Typed, Shapes
<1>21. ASSUME PurgeQueue PROVE InTable(w)'
  BY <1>21 DEF PurgeQueue, thread, net, tables, client, InTable, Is, Ids
<1>22. ASSUME Crash PROVE InTable(w)'
  BY <1>22 DEF Crash, thread, net, tables, client, InTable, Is, Ids
<1>23. CASE UNCHANGED vars
  BY <1>23 DEF vars, thread, net, tables, client, InTable, Is, Ids
<1> QED
  BY <1>1, <1>2, <1>3, <1>4, <1>5, <1>6, <1>7, <1>8, <1>9, <1>10, <1>11, <1>12, <1>13, <1>14,
     <1>15, <1>16, <1>17, <1>18, <1>19, <1>20, <1>21, <1>22, <1>23, ReadsOne DEF Next,
     ThreadStep

\* A message packet the client reads names a message that was written.
LEMMA MadeSays ==
    ASSUME NEW w, Typed, Agree(w), NEW c \in Conns, MessageRead(c),
           NEW m, m = Made(Head(inbox[c]))
    PROVE  m \in Stored /\ m.ts.fmt = "iso" /\ Is(w, m.ts.t, m.from, m.to)
<1> DEFINE p == Head(inbox[c])
<1>1. inbox[c] \in Seq(Packets) /\ inbox[c] # <<>> /\ p.kind # "ack"
  BY DEF MessageRead, Reads, Typed, Shapes
<1>2. p \in Packets /\ p = inbox[c][1] /\ 1 \in DOMAIN inbox[c]
  BY <1>1, TailElems
<1>3. p \in Messages /\ p.kind = "message"
  BY <1>1, <1>2, PacketKinds
<1>4. Is(w, p.ts.t, p.from, p.to)
  BY <1>2, <1>3 DEF Agree, InPackets
<1>5. m \in Stored /\ m.from = p.from /\ m.to = p.to /\ m.ts.t = p.ts.t /\ m.ts.fmt = "iso"
  BY <1>3, MadeType
<1> QED
  BY <1>4, <1>5

\* So do the stores.
LEMMA StoresStep ==
    ASSUME NEW w, Typed, Agree(w), sends' = sends, [Next]_vars
    PROVE  InStores(w)'
<1> USE DEF Typed, Agree
<1>1. ASSUME NEW c \in Conns, Login(c) PROVE InStores(w)'
  BY <1>1 DEF Login, Goto, thread, net, tables, client, InStores, Is
<1>2. ASSUME NEW c \in Conns, AckRead(c) PROVE InStores(w)'
  BY <1>2 DEF AckRead, Reads, thread, net, tables, client, InStores, Is
<1>3. ASSUME NEW c \in Conns, MessageRead(c) PROVE InStores(w)'
  <2> DEFINE m == Made(Head(inbox[c]))
             d == DeviceOf[c]
  <2>1. m \in Stored /\ Is(w, m.ts.t, m.from, m.to)
    BY <1>3, MadeSays
  <2>2. shown' = shown \/ shown' = [shown EXCEPT ![d] = Append(shown[d], m)]
    BY <1>3 DEF MessageRead
  <2>3. shown \in [Devices -> Seq(Stored)] /\ d \in Devices
    BY UserType DEF Typed, Shapes
  <2> HIDE DEF m, d
  <2>4. \A k \in DOMAIN Append(shown[d], m) :
          (k \in DOMAIN shown[d] /\ Append(shown[d], m)[k] = shown[d][k]) \/ Append(shown[d], m)[k] = m
    BY <2>1, <2>3, AppendElems
  <2>5. InStores(w)
    BY DEF Agree
  <2>6. CASE shown' = shown
    BY <2>5, <2>6 DEF InStores, Is
  <2>7. CASE shown' = [shown EXCEPT ![d] = Append(shown[d], m)]
    <3>1. shown'[d] = Append(shown[d], m) /\ \A v \in Devices \ {d} : shown'[v] = shown[v]
      BY <2>3, <2>7
    <3> SUFFICES ASSUME NEW v \in Devices, NEW k \in DOMAIN shown'[v]
                 PROVE  \/ \E j \in DOMAIN shown[v] : shown'[v][k] = shown[v][j]
                        \/ Is(w, shown'[v][k].ts.t, shown'[v][k].from, shown'[v][k].to)
      BY <2>5, StoresAgree
    <3>2. CASE v = d
      BY <2>1, <2>4, <3>1, <3>2
    <3>3. CASE v # d
      BY <3>1, <3>3
    <3> QED
      BY <3>2, <3>3
  <2> QED
    BY <2>2, <2>6, <2>7
<1>4. ASSUME NEW c \in Conns, Close(c) PROVE InStores(w)'
  BY <1>4 DEF Close, thread, net, tables, client, InStores, Is
<1>5. ASSUME NEW c \in Conns, ReadPending(c) PROVE InStores(w)'
  BY <1>5 DEF ReadPending, Goto, thread, net, tables, client, InStores, Is
<1>6. ASSUME NEW c \in Conns, IncrementAttempts(c) PROVE InStores(w)'
  BY <1>6 DEF IncrementAttempts, Goto, thread, net, tables, client, InStores, Is
<1>7. ASSUME NEW c \in Conns, SendPending(c) PROVE InStores(w)'
  BY <1>7 DEF SendPending, Goto, thread, net, tables, client, InStores, Is
<1>8. ASSUME NEW c \in Conns, MarkDelivered(c) PROVE InStores(w)'
  BY <1>8 DEF MarkDelivered, Goto, thread, net, tables, client, InStores, Is
<1>9. ASSUME NEW c \in Conns, Join(c) PROVE InStores(w)'
  BY <1>9 DEF Join, Goto, thread, net, tables, client, InStores, Is
<1>10. ASSUME NEW c \in Conns, JoinFails(c) PROVE InStores(w)'
  BY <1>10 DEF JoinFails, Goto, thread, net, tables, client, InStores, Is
<1>11. ASSUME NEW c \in Conns, SaveMessage(c) PROVE InStores(w)'
  BY <1>11 DEF SaveMessage, Goto, thread, net, tables, client, InStores, Is
<1>12. ASSUME NEW c \in Conns, Route(c) PROVE InStores(w)'
  BY <1>12 DEF Route, Goto, thread, net, tables, client, InStores, Is
<1>13. ASSUME NEW c \in Conns, Forward(c) PROVE InStores(w)'
  BY <1>13 DEF Forward, Goto, thread, net, tables, client, InStores, Is
<1>14. ASSUME NEW c \in Conns, ForwardThrows(c) PROVE InStores(w)'
  BY <1>14 DEF ForwardThrows, Goto, thread, net, tables, client, InStores, Is
<1>15. ASSUME NEW c \in Conns, Reload(c) PROVE InStores(w)'
  BY <1>15 DEF Reload, Goto, thread, net, tables, client, InStores, Is
<1>16. ASSUME NEW c \in Conns, Enqueue(c) PROVE InStores(w)'
  BY <1>16 DEF Enqueue, Goto, thread, net, tables, client, InStores, Is
<1>17. ASSUME NEW c \in Conns, Echo(c) PROVE InStores(w)'
  BY <1>17 DEF Echo, Goto, thread, net, tables, client, InStores, Is
<1>18. ASSUME NEW c \in Conns, Sync(c) PROVE InStores(w)'
  BY <1>18 DEF Sync, thread, net, tables, client, InStores, Is
<1>19. ASSUME NEW c \in Conns, Leave(c) PROVE InStores(w)'
  BY <1>19 DEF Leave, Goto, thread, net, tables, client, InStores, Is
<1>20. ASSUME NEW c \in Conns, NEW u \in Users, ClientSend(c, u)
      PROVE  InStores(w)'
  BY <1>20 DEF ClientSend, Typed, Shapes
<1>21. ASSUME PurgeQueue PROVE InStores(w)'
  BY <1>21 DEF PurgeQueue, thread, net, tables, client, InStores, Is
<1>22. ASSUME Crash PROVE InStores(w)'
  BY <1>22 DEF Crash, thread, net, tables, client, InStores, Is
<1>23. CASE UNCHANGED vars
  BY <1>23 DEF vars, thread, net, tables, client, InStores, Is
<1> QED
  BY <1>1, <1>2, <1>3, <1>4, <1>5, <1>6, <1>7, <1>8, <1>9, <1>10, <1>11, <1>12, <1>13, <1>14,
     <1>15, <1>16, <1>17, <1>18, <1>19, <1>20, <1>21, <1>22, <1>23, ReadsOne DEF Next,
     ThreadStep

\* A step that writes no message leaves all of it as it was.
LEMMA AgreeQuiet ==
    ASSUME NEW w, Typed, Agree(w), [Next]_vars, sends' = sends
    PROVE  Agree(w)'
BY PacketsStep, RequestsStep, TableStep, StoresStep DEF Agree

\* Only encryptAndSend writes one.
LEMMA WhoWrites ==
    ASSUME [Next]_vars
    PROVE  sends' = sends \/ \E c \in Conns, u \in Users : ClientSend(c, u)
<1>1. ASSUME NEW c \in Conns, ThreadStep(c) PROVE sends' = sends
  <2>1. ReadPending(c) \/ IncrementAttempts(c) \/ SendPending(c) \/ MarkDelivered(c) => sends' = sends
    BY DEF ReadPending, IncrementAttempts, SendPending, MarkDelivered, client
  <2>2. Join(c) \/ JoinFails(c) \/ SaveMessage(c) \/ Route(c) \/ Forward(c) => sends' = sends
    BY DEF Join, JoinFails, SaveMessage, Route, Forward, client
  <2>3. ForwardThrows(c) \/ Reload(c) \/ Enqueue(c) \/ Echo(c) \/ Sync(c) \/ Leave(c) => sends' = sends
    BY DEF ForwardThrows, Reload, Enqueue, Echo, Sync, Leave, client
  <2> QED
    BY <1>1, <2>1, <2>2, <2>3 DEF ThreadStep
<1>2. ASSUME NEW c \in Conns, Login(c) \/ ClientRead(c) \/ Close(c) PROVE sends' = sends
  BY <1>2 DEF Login, ClientRead, Close, client
<1>3. PurgeQueue \/ Crash \/ UNCHANGED vars => sends' = sends
  BY DEF PurgeQueue, Crash, vars, client
<1> QED
  BY <1>1, <1>2, <1>3 DEF Next

\* A message just written gets the next instant.
LEMMA AgreeSend ==
    ASSUME NEW w \in Writings, Typed, Agree(w), NEW c \in Conns, NEW u \in Users, ClientSend(c, u)
    PROVE  (\E v \in Writings : Agree(v))'
<1>1. sends \in Nat /\ sends' = sends + 1
  BY DEF ClientSend, Typed, Shapes
<1>2. PICK v : v = [t \in 1..(sends + 1) |-> IF t \in 1..sends THEN w[t] ELSE <<User(c), u>>]
  OBVIOUS
<1>3. v \in [1..sends' -> Users \X Users]
  BY <1>1, <1>2, UserType DEF Writings
<1>4. \A t \in 1..sends : t \in 1..sends' /\ v[t] = w[t]
  BY <1>1, <1>2
<1>5. sends + 1 \in 1..sends' /\ v[sends + 1] = <<User(c), u>>
  BY <1>1, <1>2
<1>6. InTable(v)'
  <2>1. rows' = rows
    BY DEF ClientSend, tables
  <2> QED
    BY <1>4, <2>1 DEF Agree, InTable, Is, Ids
<1>7. InPackets(v)'
  <2>1. inbox' = inbox
    BY DEF ClientSend
  <2> QED
    BY <1>4, <2>1 DEF Agree, InPackets, Is
<1>8. InRequests(v)'
  <2>1. PICK e : e = [kind |-> "message", to |-> u, t |-> sends + 1]
    OBVIOUS
  <2>2. e \in Requests /\ e.to = u /\ e.t = sends + 1
    BY <1>1, <2>1 DEF Requests
  <2>3. outbox \in [Conns -> Seq(Requests)] /\ outbox' = [outbox EXCEPT ![c] = Append(outbox[c], e)]
    BY <2>1 DEF ClientSend, Typed, Shapes
  <2>4. outbox'[c] = Append(outbox[c], e) /\ \A x \in Conns \ {c} : outbox'[x] = outbox[x]
    BY <2>3
  <2>5. \A k \in DOMAIN Append(outbox[c], e) :
          \/ k \in DOMAIN outbox[c] /\ Append(outbox[c], e)[k] = outbox[c][k]
          \/ Append(outbox[c], e)[k] = e
    BY <2>2, <2>3, AppendElems
  <2> SUFFICES ASSUME NEW x \in Conns, NEW k \in DOMAIN outbox'[x], outbox'[x][k].kind = "message"
               PROVE  outbox'[x][k].t \in 1..sends' /\ v[outbox'[x][k].t] = <<User(x), outbox'[x][k].to>>
    BY DEF InRequests, Is
  <2>6. CASE k \in DOMAIN outbox[x] /\ outbox'[x][k] = outbox[x][k]
    BY <1>4, <2>6 DEF Agree, InRequests, Is
  <2>7. CASE x = c /\ outbox'[x][k] = e
    BY <1>5, <2>2, <2>7
  <2> QED
    BY <2>4, <2>5, <2>6, <2>7
<1>9. InStores(v)'
  <2>1. PICK m : m = [from |-> User(c), to |-> u, ts |-> Iso(sends + 1)]
    OBVIOUS
  <2>2. PICK d : d = DeviceOf[c]
    OBVIOUS
  <2>3. m \in Stored /\ m.from = User(c) /\ m.to = u /\ m.ts.t = sends + 1
    BY <1>1, <2>1, UserType DEF Stored, Iso
  <2>4. shown \in [Devices -> Seq(Stored)] /\ d \in Devices
        /\ shown' = [shown EXCEPT ![d] = Append(shown[d], m)]
    BY <2>1, <2>2, UserType DEF ClientSend, Typed, Shapes
  <2>5. shown'[d] = Append(shown[d], m) /\ \A x \in Devices \ {d} : shown'[x] = shown[x]
    BY <2>4
  <2>6. \A k \in DOMAIN Append(shown[d], m) :
          \/ k \in DOMAIN shown[d] /\ Append(shown[d], m)[k] = shown[d][k]
          \/ Append(shown[d], m)[k] = m
    BY <2>3, <2>4, AppendElems
  <2> SUFFICES ASSUME NEW x \in Devices, NEW k \in DOMAIN shown'[x]
               PROVE  /\ shown'[x][k].ts.t \in 1..sends'
                      /\ v[shown'[x][k].ts.t] = <<shown'[x][k].from, shown'[x][k].to>>
    BY DEF InStores, Is
  <2>7. CASE k \in DOMAIN shown[x] /\ shown'[x][k] = shown[x][k]
    BY <1>4, <2>7 DEF Agree, InStores, Is
  <2>8. CASE shown'[x][k] = m
    BY <1>5, <2>3, <2>8
  <2> QED
    BY <2>5, <2>6, <2>7, <2>8
<1> QED
  BY <1>3, <1>6, <1>7, <1>8, <1>9 DEF Writings, Agree

\* Every step leaves each instant with one message.
LEMMA AgreeStep ==
    ASSUME Typed, \E w \in Writings : Agree(w), [Next]_vars
    PROVE  (\E w \in Writings : Agree(w))'
<1>1. PICK w \in Writings : Agree(w)
  OBVIOUS
<1>2. CASE sends' = sends
  <2>1. w \in [1..sends' -> Users \X Users]
    BY <1>2 DEF Writings
  <2>2. Agree(w)'
    BY <1>1, <1>2, AgreeQuiet
  <2> QED
    BY <2>1, <2>2 DEF Writings
<1>3. CASE \E c \in Conns, u \in Users : ClientSend(c, u)
  BY <1>1, <1>3, AgreeSend
<1> QED
  BY <1>2, <1>3, WhoWrites

\* A message that is new to a device may be appended to its store.
LEMMA AppendOnce ==
    ASSUME Shapes, OneFormat, ShownOnce, NEW d \in Devices, NEW m \in Stored,
           m.ts.fmt = "iso",
           \A k \in DOMAIN shown[d] : ~(shown[d][k].from = m.from /\ shown[d][k].ts.t = m.ts.t),
           shown'[d] = Append(shown[d], m), \A x \in Devices \ {d} : shown'[x] = shown[x]
    PROVE  (OneFormat /\ ShownOnce)'
<1>1. shown[d] \in Seq(Stored)
  BY DEF Shapes
<1>2. \A k \in DOMAIN shown'[d] :
        \/ k \in DOMAIN shown[d] /\ shown'[d][k] = shown[d][k]
        \/ k \notin DOMAIN shown[d] /\ k = Len(shown[d]) + 1 /\ shown'[d][k] = m
  BY <1>1, AppendElems
<1>3. OneFormat'
  <2> SUFFICES ASSUME NEW x \in Devices, NEW k \in DOMAIN shown'[x]
               PROVE  shown'[x][k].ts.fmt = "iso"
    BY DEF OneFormat
  <2>1. CASE x = d
    BY <1>2, <2>1 DEF OneFormat
  <2>2. CASE x # d
    BY <2>2 DEF OneFormat
  <2> QED
    BY <2>1, <2>2
<1>4. ShownOnce'
  <2> SUFFICES ASSUME NEW x \in Devices, NEW j \in DOMAIN shown'[x], NEW k \in DOMAIN shown'[x],
                      shown'[x][j].from = shown'[x][k].from,
                      shown'[x][j].ts.t = shown'[x][k].ts.t
               PROVE  j = k
    BY DEF ShownOnce
  <2>1. CASE x = d
    <3>1. \/ j \in DOMAIN shown[d] /\ shown'[d][j] = shown[d][j]
          \/ j = Len(shown[d]) + 1 /\ shown'[d][j] = m
      BY <1>2, <2>1
    <3>2. \/ k \in DOMAIN shown[d] /\ shown'[d][k] = shown[d][k]
          \/ k = Len(shown[d]) + 1 /\ shown'[d][k] = m
      BY <1>2, <2>1
    <3>3. CASE j \in DOMAIN shown[d] /\ shown'[d][j] = shown[d][j] /\ shown'[d][k] = m
      BY <2>1, <3>3
    <3>4. CASE k \in DOMAIN shown[d] /\ shown'[d][k] = shown[d][k] /\ shown'[d][j] = m
      BY <2>1, <3>4
    <3>5. CASE /\ j \in DOMAIN shown[d] /\ shown'[d][j] = shown[d][j]
               /\ k \in DOMAIN shown[d] /\ shown'[d][k] = shown[d][k]
      BY <2>1, <3>5 DEF ShownOnce
    <3> QED
      BY <3>1, <3>2, <3>3, <3>4, <3>5
  <2>2. CASE x # d
    BY <2>2 DEF ShownOnce
  <2> QED
    BY <2>1, <2>2
<1> QED
  BY <1>3, <1>4

\* isDuplicate keeps every instant of a sender once, and in one format.
LEMMA OnceStep ==
    Typed /\ (\E w \in Writings : Agree(w)) /\ OneFormat /\ ShownOnce /\ [Next]_vars => (OneFormat /\ ShownOnce)'
<1> SUFFICES ASSUME Typed, (\E w \in Writings : Agree(w)), OneFormat, ShownOnce, [Next]_vars
             PROVE  (OneFormat /\ ShownOnce)'
    OBVIOUS
<1>1. ASSUME NEW c \in Conns, Login(c) PROVE (OneFormat /\ ShownOnce)'
  BY <1>1 DEF Login, Goto, thread, net, tables, client, OneFormat, ShownOnce
<1>2. ASSUME NEW c \in Conns, AckRead(c) PROVE (OneFormat /\ ShownOnce)'
  BY <1>2 DEF AckRead, Reads, thread, net, tables, client, OneFormat, ShownOnce
<1>3. ASSUME NEW c \in Conns, MessageRead(c) PROVE (OneFormat /\ ShownOnce)'
  <2>1. PICK m : m = Made(Head(inbox[c]))
    OBVIOUS
  <2>2. PICK d : d = DeviceOf[c]
    OBVIOUS
  <2>3. PICK w : Agree(w)
    OBVIOUS
  <2>4. m \in Stored /\ m.ts.fmt = "iso" /\ Is(w, m.ts.t, m.from, m.to)
    BY <1>3, <2>1, <2>3, MadeSays
  <2>5. shown' = IF \E k \in DOMAIN shown[d] : shown[d][k] = m
                 THEN shown ELSE [shown EXCEPT ![d] = Append(shown[d], m)]
    BY <1>3, <2>1, <2>2 DEF MessageRead, isDuplicate
  <2>6. shown \in [Devices -> Seq(Stored)] /\ d \in Devices
    BY <2>2, UserType DEF Typed, Shapes
  <2>7. \A k \in DOMAIN shown[d] :
          shown[d][k].from = m.from /\ shown[d][k].ts.t = m.ts.t => shown[d][k] = m
    <3> SUFFICES ASSUME NEW k \in DOMAIN shown[d], shown[d][k].from = m.from,
                        shown[d][k].ts.t = m.ts.t
                 PROVE  shown[d][k] = m
      OBVIOUS
    <3>1. shown[d][k] \in Stored
      BY <2>6
    <3>2. Is(w, shown[d][k].ts.t, shown[d][k].from, shown[d][k].to)
      BY <2>3, <2>6 DEF Agree, InStores
    <3>3. shown[d][k].to = m.to
      BY <2>4, <3>2 DEF Is
    <3>4. shown[d][k].ts.fmt = "iso"
      BY <2>6 DEF OneFormat
    <3> QED
      BY <2>4, <3>1, <3>3, <3>4 DEF Stored
  <2>8. CASE shown' = shown
    BY <2>8 DEF OneFormat, ShownOnce
  <2>9. CASE /\ shown' = [shown EXCEPT ![d] = Append(shown[d], m)]
             /\ ~\E k \in DOMAIN shown[d] : shown[d][k] = m
    <3>1. shown'[d] = Append(shown[d], m) /\ \A x \in Devices \ {d} : shown'[x] = shown[x]
      BY <2>6, <2>9
    <3>2. \A k \in DOMAIN shown[d] : ~(shown[d][k].from = m.from /\ shown[d][k].ts.t = m.ts.t)
      BY <2>7, <2>9
    <3>3. Shapes
      BY DEF Typed
    <3> QED
      BY <2>4, <2>6, <3>1, <3>2, <3>3, AppendOnce
  <2> QED
    BY <2>5, <2>8, <2>9
<1>4. ASSUME NEW c \in Conns, Close(c) PROVE (OneFormat /\ ShownOnce)'
  BY <1>4 DEF Close, thread, net, tables, client, OneFormat, ShownOnce
<1>5. ASSUME NEW c \in Conns, ReadPending(c) PROVE (OneFormat /\ ShownOnce)'
  BY <1>5 DEF ReadPending, Goto, thread, net, tables, client, OneFormat, ShownOnce
<1>6. ASSUME NEW c \in Conns, IncrementAttempts(c)
      PROVE  (OneFormat /\ ShownOnce)'
  BY <1>6 DEF IncrementAttempts, Goto, thread, net, tables, client, OneFormat, ShownOnce
<1>7. ASSUME NEW c \in Conns, SendPending(c) PROVE (OneFormat /\ ShownOnce)'
  BY <1>7 DEF SendPending, Goto, thread, net, tables, client, OneFormat, ShownOnce
<1>8. ASSUME NEW c \in Conns, MarkDelivered(c) PROVE (OneFormat /\ ShownOnce)'
  BY <1>8 DEF MarkDelivered, Goto, thread, net, tables, client, OneFormat, ShownOnce
<1>9. ASSUME NEW c \in Conns, Join(c) PROVE (OneFormat /\ ShownOnce)'
  BY <1>9 DEF Join, Goto, thread, net, tables, client, OneFormat, ShownOnce
<1>10. ASSUME NEW c \in Conns, JoinFails(c) PROVE (OneFormat /\ ShownOnce)'
  BY <1>10 DEF JoinFails, Goto, thread, net, tables, client, OneFormat, ShownOnce
<1>11. ASSUME NEW c \in Conns, SaveMessage(c) PROVE (OneFormat /\ ShownOnce)'
  BY <1>11 DEF SaveMessage, Goto, thread, net, tables, client, OneFormat, ShownOnce
<1>12. ASSUME NEW c \in Conns, Route(c) PROVE (OneFormat /\ ShownOnce)'
  BY <1>12 DEF Route, Goto, thread, net, tables, client, OneFormat, ShownOnce
<1>13. ASSUME NEW c \in Conns, Forward(c) PROVE (OneFormat /\ ShownOnce)'
  BY <1>13 DEF Forward, Goto, thread, net, tables, client, OneFormat, ShownOnce
<1>14. ASSUME NEW c \in Conns, ForwardThrows(c)
      PROVE  (OneFormat /\ ShownOnce)'
  BY <1>14 DEF ForwardThrows, Goto, thread, net, tables, client, OneFormat, ShownOnce
<1>15. ASSUME NEW c \in Conns, Reload(c) PROVE (OneFormat /\ ShownOnce)'
  BY <1>15 DEF Reload, Goto, thread, net, tables, client, OneFormat, ShownOnce
<1>16. ASSUME NEW c \in Conns, Enqueue(c) PROVE (OneFormat /\ ShownOnce)'
  BY <1>16 DEF Enqueue, Goto, thread, net, tables, client, OneFormat, ShownOnce
<1>17. ASSUME NEW c \in Conns, Echo(c) PROVE (OneFormat /\ ShownOnce)'
  BY <1>17 DEF Echo, Goto, thread, net, tables, client, OneFormat, ShownOnce
<1>18. ASSUME NEW c \in Conns, Sync(c) PROVE (OneFormat /\ ShownOnce)'
  BY <1>18 DEF Sync, thread, net, tables, client, OneFormat, ShownOnce
<1>19. ASSUME NEW c \in Conns, Leave(c) PROVE (OneFormat /\ ShownOnce)'
  BY <1>19 DEF Leave, Goto, thread, net, tables, client, OneFormat, ShownOnce
<1>20. ASSUME NEW c \in Conns, NEW u \in Users, ClientSend(c, u)
      PROVE  (OneFormat /\ ShownOnce)'
  <2>1. PICK m : m = [from |-> User(c), to |-> u, ts |-> Iso(sends + 1)]
    OBVIOUS
  <2>2. PICK d : d = DeviceOf[c]
    OBVIOUS
  <2>3. PICK w : Agree(w)
    OBVIOUS
  <2>4. sends \in Nat
    BY DEF Typed, Shapes
  <2>5. m \in Stored /\ m.ts.fmt = "iso" /\ m.ts.t = sends + 1
    BY <2>1, <2>4, UserType DEF Stored, Iso
  <2>6. shown \in [Devices -> Seq(Stored)] /\ d \in Devices
        /\ shown' = [shown EXCEPT ![d] = Append(shown[d], m)]
    BY <1>20, <2>1, <2>2, UserType DEF ClientSend, Typed, Shapes
  <2>7. shown'[d] = Append(shown[d], m) /\ \A x \in Devices \ {d} : shown'[x] = shown[x]
    BY <2>6
  <2>8. \A k \in DOMAIN shown[d] : shown[d][k].ts.t \in 1..sends
    BY <2>3, <2>6 DEF Agree, InStores, Is
  <2>9. \A k \in DOMAIN shown[d] : ~(shown[d][k].from = m.from /\ shown[d][k].ts.t = m.ts.t)
    BY <2>4, <2>5, <2>8
  <2>10. Shapes
    BY DEF Typed
  <2> QED
    BY <2>5, <2>6, <2>7, <2>9, <2>10, AppendOnce
<1>21. ASSUME PurgeQueue PROVE (OneFormat /\ ShownOnce)'
  BY <1>21 DEF PurgeQueue, thread, net, tables, client, OneFormat, ShownOnce
<1>22. ASSUME Crash PROVE (OneFormat /\ ShownOnce)'
  BY <1>22 DEF Crash, thread, net, tables, client, OneFormat, ShownOnce
<1>23. CASE UNCHANGED vars
  BY <1>23 DEF vars, thread, net, tables, client, OneFormat, ShownOnce
<1> QED
  BY <1>1, <1>2, <1>3, <1>4, <1>5, <1>6, <1>7, <1>8, <1>9, <1>10, <1>11, <1>12, <1>13, <1>14,
     <1>15, <1>16, <1>17, <1>18, <1>19, <1>20, <1>21, <1>22, <1>23, ReadsOne DEF Next,
     ThreadStep

\* At the start nothing is written.
LEMMA ShownInit == Init => ShownInv
<1> SUFFICES ASSUME Init PROVE ShownInv
    OBVIOUS
<1>1. PICK w \in [1..0 -> Users \X Users] : TRUE
  <2>1. [t \in 1..0 |-> <<0, 0>>] \in [1..0 -> Users \X Users]
    OBVIOUS
  <2> QED
    BY <2>1
<1>2. w \in Writings /\ Agree(w)
  BY <1>1 DEF Init, Writings, Agree, InStores, InTable, InRequests, InPackets, Ids
<1>3. OneFormat /\ ShownOnce
  BY DEF Init, OneFormat, ShownOnce
<1> QED
  BY <1>2, <1>3, TypedInit DEF ShownInv

\* Every step keeps it.
LEMMA ShownStep == ShownInv /\ [Next]_vars => ShownInv'
<1> SUFFICES ASSUME ShownInv, [Next]_vars PROVE ShownInv'
    OBVIOUS
<1>1. Typed /\ (\E w \in Writings : Agree(w)) /\ OneFormat /\ ShownOnce
  BY DEF ShownInv
<1>2. Typed'
  BY <1>1, TypedStep
<1>3. (\E w \in Writings : Agree(w))'
  BY <1>1, AgreeStep
<1>4. (OneFormat /\ ShownOnce)'
  BY <1>1, OnceStep
<1> QED
  BY <1>2, <1>3, <1>4 DEF ShownInv

(***************************************************************************)
(* No chat shows a message twice, whichever of live forwarding, echoes,    *)
(* the queue and the sync bring it and in whatever order, because the      *)
(* store compares timestamps in one format (LocalStorage::isDuplicate,     *)
(* TimestampUtil::canonical).                                              *)
(***************************************************************************)
THEOREM NoDuplicateShown == Spec => []ShownOnce
BY ShownInit, ShownStep, PTL DEF Spec, ShownInv
-----------------------------------------------------------------------------
\* An id names one row of the queue.
LEMMA OneRowStep == Typed /\ OneRow /\ [Next]_vars => OneRow'
<1> SUFFICES ASSUME Typed, OneRow, [Next]_vars
             PROVE  OneRow'
    OBVIOUS
<1>1. ASSUME NEW c \in Conns, Login(c) PROVE OneRow'
  BY <1>1 DEF Login, Goto, thread, net, tables, client, OneRow
<1>2. ASSUME NEW c \in Conns, AckRead(c) PROVE OneRow'
  BY <1>2 DEF AckRead, Reads, thread, net, tables, client, OneRow
<1>3. ASSUME NEW c \in Conns, MessageRead(c) PROVE OneRow'
  BY <1>3 DEF MessageRead, Reads, thread, net, tables, client, OneRow
<1>4. ASSUME NEW c \in Conns, Close(c) PROVE OneRow'
  BY <1>4 DEF Close, thread, net, tables, client, OneRow
<1>5. ASSUME NEW c \in Conns, ReadPending(c) PROVE OneRow'
  BY <1>5 DEF ReadPending, Goto, thread, net, tables, client, OneRow
<1>6. ASSUME NEW c \in Conns, IncrementAttempts(c) PROVE OneRow'
  <2> SUFFICES ASSUME NEW r \in queue', NEW s \in queue', r.id = s.id PROVE r = s
    BY DEF OneRow
  <2>1. Shapes
    BY DEF Typed
  <2>2. PICK q \in queue : /\ r.id = q.id
                           /\ q.id # Head(pend[c]).id => r = q
                           /\ q.id = Head(pend[c]).id => r = [q EXCEPT !.attempts = q.attempts + 1]
    BY <1>6, <2>1, BumpedRows
  <2>3. PICK p \in queue : /\ s.id = p.id
                           /\ p.id # Head(pend[c]).id => s = p
                           /\ p.id = Head(pend[c]).id => s = [p EXCEPT !.attempts = p.attempts + 1]
    BY <1>6, <2>1, BumpedRows
  <2>4. q = p
    BY <2>2, <2>3 DEF OneRow
  <2> QED
    BY <2>2, <2>3, <2>4
<1>7. ASSUME NEW c \in Conns, SendPending(c) PROVE OneRow'
  BY <1>7 DEF SendPending, Goto, thread, net, tables, client, OneRow
<1>8. ASSUME NEW c \in Conns, MarkDelivered(c) PROVE OneRow'
  <2> SUFFICES ASSUME NEW r \in queue', NEW s \in queue', r.id = s.id PROVE r = s
    BY DEF OneRow
  <2>1. Shapes
    BY DEF Typed
  <2>2. PICK q \in queue : /\ r.id = q.id
                           /\ q.id # Head(pend[c]).id => r = q
                           /\ q.id = Head(pend[c]).id => r = [q EXCEPT !.delivered = TRUE]
    BY <1>8, <2>1, MarkedRows
  <2>3. PICK p \in queue : /\ s.id = p.id
                           /\ p.id # Head(pend[c]).id => s = p
                           /\ p.id = Head(pend[c]).id => s = [p EXCEPT !.delivered = TRUE]
    BY <1>8, <2>1, MarkedRows
  <2>4. q = p
    BY <2>2, <2>3 DEF OneRow
  <2> QED
    BY <2>2, <2>3, <2>4
<1>9. ASSUME NEW c \in Conns, Join(c) PROVE OneRow'
  BY <1>9 DEF Join, Goto, thread, net, tables, client, OneRow
<1>10. ASSUME NEW c \in Conns, JoinFails(c) PROVE OneRow'
  BY <1>10 DEF JoinFails, Goto, thread, net, tables, client, OneRow
<1>11. ASSUME NEW c \in Conns, SaveMessage(c) PROVE OneRow'
  BY <1>11 DEF SaveMessage, Goto, thread, net, tables, client, OneRow
<1>12. ASSUME NEW c \in Conns, Route(c) PROVE OneRow'
  BY <1>12 DEF Route, Goto, thread, net, tables, client, OneRow
<1>13. ASSUME NEW c \in Conns, Forward(c) PROVE OneRow'
  BY <1>13 DEF Forward, Goto, thread, net, tables, client, OneRow
<1>14. ASSUME NEW c \in Conns, ForwardThrows(c) PROVE OneRow'
  BY <1>14 DEF ForwardThrows, Goto, thread, net, tables, client, OneRow
<1>15. ASSUME NEW c \in Conns, Reload(c) PROVE OneRow'
  BY <1>15 DEF Reload, Goto, thread, net, tables, client, OneRow
<1>16. ASSUME NEW c \in Conns, Enqueue(c) PROVE OneRow'
  <2> DEFINE e == [id |-> queued + 1, msg |-> last[c], delivered |-> FALSE, attempts |-> 0]
  <2>1. e.id = queued + 1 /\ queue' = queue \cup {e}
    BY <1>16 DEF Enqueue
  <2> HIDE DEF e
  <2>2. \A q \in queue : q.id # e.id
    BY <2>1, IdsInUse
  <2> QED
    BY <2>1, <2>2 DEF OneRow
<1>17. ASSUME NEW c \in Conns, Echo(c) PROVE OneRow'
  BY <1>17 DEF Echo, Goto, thread, net, tables, client, OneRow
<1>18. ASSUME NEW c \in Conns, Sync(c) PROVE OneRow'
  BY <1>18 DEF Sync, thread, net, tables, client, OneRow
<1>19. ASSUME NEW c \in Conns, Leave(c) PROVE OneRow'
  BY <1>19 DEF Leave, Goto, thread, net, tables, client, OneRow
<1>20. ASSUME NEW c \in Conns, NEW u \in Users, ClientSend(c, u) PROVE OneRow'
  BY <1>20 DEF ClientSend, thread, net, tables, client, OneRow
<1>21. ASSUME PurgeQueue PROVE OneRow'
  BY <1>21 DEF PurgeQueue, thread, net, tables, client, OneRow
<1>22. ASSUME Crash PROVE OneRow'
  BY <1>22 DEF Crash, thread, net, tables, client, OneRow
<1>23. CASE UNCHANGED vars
  BY <1>23 DEF vars, thread, net, tables, client, OneRow
<1> QED
  BY <1>1, <1>2, <1>3, <1>4, <1>5, <1>6, <1>7, <1>8, <1>9, <1>10, <1>11, <1>12, <1>13, <1>14,
     <1>15, <1>16, <1>17, <1>18, <1>19, <1>20, <1>21, <1>22, <1>23, ReadsOne DEF Next,
     ThreadStep

\* What a login has read stays its own while it has no more than before.
LEMMA OwnRowsKept ==
    ASSUME Typed, OwnRows, [Next]_vars, \A v \in Conns : pend'[v] = pend[v] \/ pend'[v] = <<>>
    PROVE  OwnRows'
<1>1. \A v \in Conns : \A k \in DOMAIN pend[v] : pend[v][k].msg \in Ids
  BY DEF Typed, ReadRows
<1>2. \A i \in Ids : rows'[i] = rows[i]
  BY RowsGrow
<1>3. \A v \in Conns : \A k \in DOMAIN pend'[v] : k \in DOMAIN pend[v] /\ pend'[v][k] = pend[v][k]
  OBVIOUS
<1>4. ASSUME NEW v \in Conns
      PROVE  \A j, k \in DOMAIN pend'[v] : pend'[v][j].id = pend'[v][k].id => j = k
  BY <1>3 DEF OwnRows
<1>5. ASSUME NEW v \in Conns
      PROVE  \A k \in DOMAIN pend'[v] : rows'[pend'[v][k].msg].to = User(v)
  BY <1>1, <1>2, <1>3 DEF OwnRows
<1> QED
  BY <1>4, <1>5 DEF OwnRows

\* A login has rows of its user, each once.
LEMMA OwnRowsStep == Typed /\ OneRow /\ OwnRows /\ [Next]_vars => OwnRows'
<1> SUFFICES ASSUME Typed, OneRow, OwnRows, [Next]_vars
             PROVE  OwnRows'
    OBVIOUS
<1>1. ASSUME NEW c \in Conns, Login(c) PROVE OwnRows'
  <2>1. pend' = pend
    BY <1>1 DEF Login, thread
  <2> QED
    BY <2>1, OwnRowsKept
<1>2. ASSUME NEW c \in Conns, AckRead(c) PROVE OwnRows'
  <2>1. pend' = pend
    BY <1>2 DEF AckRead, Reads, thread
  <2> QED
    BY <2>1, OwnRowsKept
<1>3. ASSUME NEW c \in Conns, MessageRead(c) PROVE OwnRows'
  <2>1. pend' = pend
    BY <1>3 DEF MessageRead, Reads, thread
  <2> QED
    BY <2>1, OwnRowsKept
<1>4. ASSUME NEW c \in Conns, Close(c) PROVE OwnRows'
  <2>1. pend' = pend
    BY <1>4 DEF Close, thread
  <2> QED
    BY <2>1, OwnRowsKept
<1>5. ASSUME NEW c \in Conns, ReadPending(c) PROVE OwnRows'
  <2>1. /\ \A v \in Conns \ {c} : pend'[v] = pend[v]
        /\ \A k \in DOMAIN pend'[c] : pend'[c][k] \in queue /\ rows[pend'[c][k].msg].to = User(c)
        /\ \A j, k \in DOMAIN pend'[c] : pend'[c][j] = pend'[c][k] => j = k
        /\ rows' = rows
    BY <1>5, FreshRows
  <2> SUFFICES ASSUME NEW v \in Conns
               PROVE  /\ \A j, k \in DOMAIN pend'[v] : pend'[v][j].id = pend'[v][k].id => j = k
                      /\ \A k \in DOMAIN pend'[v] : rows'[pend'[v][k].msg].to = User(v)
    BY DEF OwnRows
  <2>2. CASE v # c
    BY <2>1, <2>2 DEF OwnRows
  <2>3. CASE v = c
    BY <2>1, <2>3 DEF OneRow
  <2> QED
    BY <2>2, <2>3
<1>6. ASSUME NEW c \in Conns, IncrementAttempts(c) PROVE OwnRows'
  <2>1. pend' = pend
    BY <1>6 DEF IncrementAttempts, thread
  <2> QED
    BY <2>1, OwnRowsKept
<1>7. ASSUME NEW c \in Conns, SendPending(c) PROVE OwnRows'
  BY <1>7, SentRows, OwnRowsKept
<1>8. ASSUME NEW c \in Conns, MarkDelivered(c) PROVE OwnRows'
  <2>1. /\ \A v \in Conns \ {c} : pend'[v] = pend[v]
        /\ \A k \in DOMAIN pend'[c] : k + 1 \in DOMAIN pend[c] /\ pend'[c][k] = pend[c][k + 1]
        /\ \A k \in DOMAIN pend'[c] : k \in Nat
    BY <1>8, RestOfRows
  <2>2. rows' = rows
    BY <1>8 DEF MarkDelivered
  <2> SUFFICES ASSUME NEW v \in Conns
               PROVE  /\ \A j, k \in DOMAIN pend'[v] : pend'[v][j].id = pend'[v][k].id => j = k
                      /\ \A k \in DOMAIN pend'[v] : rows'[pend'[v][k].msg].to = User(v)
    BY DEF OwnRows
  <2>3. CASE v # c
    BY <2>1, <2>2, <2>3 DEF OwnRows
  <2>4. CASE v = c
    <3>1. \A j, k \in DOMAIN pend[c] : pend[c][j].id = pend[c][k].id => j = k
      BY DEF OwnRows
    <3>2. \A j, k \in DOMAIN pend'[c] : pend'[c][j].id = pend'[c][k].id => j + 1 = k + 1
      BY <2>1, <3>1
    <3>3. \A j, k \in DOMAIN pend'[c] : pend'[c][j].id = pend'[c][k].id => j = k
      BY <2>1, <3>2
    <3>4. \A k \in DOMAIN pend'[c] : rows'[pend'[c][k].msg].to = User(c)
      BY <2>1, <2>2 DEF OwnRows
    <3> QED
      BY <2>4, <3>3, <3>4
  <2> QED
    BY <2>3, <2>4
<1>9. ASSUME NEW c \in Conns, Join(c) PROVE OwnRows'
  <2>1. pend' = pend
    BY <1>9 DEF Join, thread
  <2> QED
    BY <2>1, OwnRowsKept
<1>10. ASSUME NEW c \in Conns, JoinFails(c) PROVE OwnRows'
  <2>1. pend' = pend
    BY <1>10 DEF JoinFails, thread
  <2> QED
    BY <2>1, OwnRowsKept
<1>11. ASSUME NEW c \in Conns, SaveMessage(c) PROVE OwnRows'
  <2>1. pend' = pend
    BY <1>11 DEF SaveMessage, thread
  <2> QED
    BY <2>1, OwnRowsKept
<1>12. ASSUME NEW c \in Conns, Route(c) PROVE OwnRows'
  <2>1. pend' = pend
    BY <1>12 DEF Route, thread
  <2> QED
    BY <2>1, OwnRowsKept
<1>13. ASSUME NEW c \in Conns, Forward(c) PROVE OwnRows'
  <2>1. pend' = pend
    BY <1>13 DEF Forward, thread
  <2> QED
    BY <2>1, OwnRowsKept
<1>14. ASSUME NEW c \in Conns, ForwardThrows(c) PROVE OwnRows'
  <2>1. pend' = pend
    BY <1>14 DEF ForwardThrows, thread
  <2> QED
    BY <2>1, OwnRowsKept
<1>15. ASSUME NEW c \in Conns, Reload(c) PROVE OwnRows'
  <2>1. pend' = pend
    BY <1>15 DEF Reload, thread
  <2> QED
    BY <2>1, OwnRowsKept
<1>16. ASSUME NEW c \in Conns, Enqueue(c) PROVE OwnRows'
  <2>1. pend' = pend
    BY <1>16 DEF Enqueue, thread
  <2> QED
    BY <2>1, OwnRowsKept
<1>17. ASSUME NEW c \in Conns, Echo(c) PROVE OwnRows'
  <2>1. pend' = pend
    BY <1>17 DEF Echo, thread
  <2> QED
    BY <2>1, OwnRowsKept
<1>18. ASSUME NEW c \in Conns, Sync(c) PROVE OwnRows'
  <2>1. pend' = pend
    BY <1>18 DEF Sync, thread
  <2> QED
    BY <2>1, OwnRowsKept
<1>19. ASSUME NEW c \in Conns, Leave(c) PROVE OwnRows'
  <2>1. pend' = pend
    BY <1>19 DEF Leave, thread
  <2> QED
    BY <2>1, OwnRowsKept
<1>20. ASSUME NEW c \in Conns, NEW u \in Users, ClientSend(c, u)
      PROVE  OwnRows'
  <2>1. pend' = pend
    BY <1>20 DEF ClientSend, thread
  <2> QED
    BY <2>1, OwnRowsKept
<1>21. ASSUME PurgeQueue PROVE OwnRows'
  <2>1. pend' = pend
    BY <1>21 DEF PurgeQueue, thread
  <2> QED
    BY <2>1, OwnRowsKept
<1>22. ASSUME Crash PROVE OwnRows'
  <2>1. \A v \in Conns : pend'[v] = <<>>
    BY <1>22 DEF Crash
  <2> QED
    BY <2>1, OwnRowsKept
<1>23. CASE UNCHANGED vars
  <2>1. pend' = pend
    BY <1>23 DEF vars, thread
  <2> QED
    BY <2>1, OwnRowsKept
<1> QED
  BY <1>1, <1>2, <1>3, <1>4, <1>5, <1>6, <1>7, <1>8, <1>9, <1>10, <1>11, <1>12, <1>13, <1>14,
     <1>15, <1>16, <1>17, <1>18, <1>19, <1>20, <1>21, <1>22, <1>23, ReadsOne DEF Next,
     ThreadStep

\* Only its readers owe a row anything.
LEMMA DebtorsRead ==
    ASSUME IsFiniteSet(Conns), Typed, OneMessage, OwnRows, NEW q \in queue
    PROVE  /\ Debtors(q.id) \subseteq Readers(q)
           /\ IsFiniteSet(Debtors(q.id)) /\ IsFiniteSet(Readers(q))
           /\ Cardinality(Debtors(q.id)) \in Nat /\ Cardinality(Readers(q)) \in Nat
           /\ Cardinality(Debtors(q.id)) <= Cardinality(Readers(q))
<1>1. Debtors(q.id) \subseteq Conns /\ Readers(q) \subseteq Conns
  BY DEF Debtors, Readers
<1>2. Debtors(q.id) \subseteq Readers(q)
  BY DEF Debtors, Readers, Owes, OneMessage, OwnRows
<1>3. IsFiniteSet(Debtors(q.id)) /\ IsFiniteSet(Readers(q))
  BY <1>1, FS_Subset
<1> HIDE DEF Debtors, Readers
<1>4. Cardinality(Debtors(q.id)) \in Nat /\ Cardinality(Readers(q)) \in Nat
  BY <1>3, FS_CardinalityType
<1>5. Cardinality(Debtors(q.id)) <= Cardinality(Readers(q))
  BY <1>2, <1>3, FS_Subset
<1> QED
  BY <1>2, <1>3, <1>4, <1>5

\* A step that tries no row owes none more than before, but for rows that
\* have attempts left.
LEMMA OwedKept ==
    ASSUME IsFiniteSet(Conns), Typed, OneMessage, OwnRows, Owed, [Next]_vars,
           \A r \in queue' :
              \/ r.attempts <= MaxAttempts - 1
              \/ \E q \in queue : /\ r.id = q.id /\ r.msg = q.msg /\ r.attempts = q.attempts
                                  /\ \A v \in Conns : Owes(v, r.id)' => Owes(v, r.id)
    PROVE  Owed'
<1> SUFFICES ASSUME NEW r \in queue', ~(r.attempts <= MaxAttempts - 1)
             PROVE  r.attempts + Cardinality(Debtors(r.id)')
                      <= MaxAttempts - 1 + Cardinality(Readers(r)')
    BY DEF Owed
<1>1. PICK q \in queue : /\ r.id = q.id /\ r.msg = q.msg /\ r.attempts = q.attempts
                         /\ \A v \in Conns : Owes(v, r.id)' => Owes(v, r.id)
  OBVIOUS
<1>2. q.msg \in Ids /\ q.attempts \in Nat /\ MaxAttempts \in Nat
  BY DeliveryConstants DEF Typed, TypeOK
<1>3. rows'[q.msg] = rows[q.msg]
  BY <1>2, RowsGrow
<1>4. Readers(r)' = Readers(q)
  BY <1>1, <1>3 DEF Readers
<1>5. Debtors(r.id)' \subseteq Debtors(q.id)
  BY <1>1 DEF Debtors
<1>6. /\ IsFiniteSet(Debtors(q.id)) /\ Cardinality(Debtors(q.id)) \in Nat
      /\ Cardinality(Readers(q)) \in Nat
  BY DebtorsRead
<1>7. q.attempts + Cardinality(Debtors(q.id)) <= MaxAttempts - 1 + Cardinality(Readers(q))
  BY <1>1 DEF Owed
<1>8. PICK D : D = Debtors(r.id)'
  OBVIOUS
<1>9. Cardinality(D) \in Nat /\ Cardinality(D) <= Cardinality(Debtors(q.id))
  BY <1>5, <1>6, <1>8, FS_Subset, FS_CardinalityType
<1> QED
  BY <1>1, <1>2, <1>4, <1>6, <1>7, <1>8, <1>9

\* Steps of threads without rows in hand.
LEMMA OwedQuiet ==
    ASSUME IsFiniteSet(Conns), Typed, OneMessage, OwnRows, Owed, [Next]_vars,
           \A r \in queue' : r.attempts <= MaxAttempts - 1 \/ r \in queue,
           \A v \in Conns : pend'[v] = <<>> \/ (pend'[v] = pend[v] /\ (pc'[v] = "bump" => pc[v] = "bump"))
    PROVE  Owed'
<1>1. ASSUME NEW v \in Conns, NEW i, Owes(v, i)' PROVE Owes(v, i)
  <2>1. PICK k \in DOMAIN pend'[v] : pend'[v][k].id = i /\ (k = 1 => pc'[v] = "bump")
    BY <1>1 DEF Owes
  <2>2. pend'[v] = pend[v] /\ (pc'[v] = "bump" => pc[v] = "bump")
    BY <2>1
  <2> QED
    BY <2>1, <2>2 DEF Owes
<1>2. \A r \in queue' : \A v \in Conns : Owes(v, r.id)' => Owes(v, r.id)
  BY <1>1
<1> QED
  BY <1>2, OwedKept

\* What is owed to a row out of attempts only shrinks.
LEMMA OwedStep ==
    IsFiniteSet(Conns) /\ Typed /\ OneMessage /\ OwnRows /\ OneRow /\ Owed /\ [Next]_vars => Owed'
<1> SUFFICES ASSUME IsFiniteSet(Conns), Typed, OneMessage, OwnRows, OneRow, Owed, [Next]_vars
             PROVE  Owed'
    OBVIOUS
<1>1. ASSUME NEW c \in Conns, Login(c) PROVE Owed'
  <2>1. queue' = queue /\ pend' = pend
    BY <1>1 DEF Login, Goto, thread, tables
  <2>2. \A v \in Conns : pend[v] = <<>> \/ (pc'[v] = "bump" => pc[v] = "bump")
    BY <1>1 DEF Login, Goto, thread, tables, Typed, Shapes, TypeOK
  <2> QED
    BY <2>1, <2>2, OwedQuiet
<1>2. ASSUME NEW c \in Conns, AckRead(c) PROVE Owed'
  <2>1. queue' = queue /\ pend' = pend
    BY <1>2 DEF AckRead, Reads, thread, tables
  <2>2. \A v \in Conns : pend[v] = <<>> \/ (pc'[v] = "bump" => pc[v] = "bump")
    BY <1>2 DEF AckRead, Reads, thread, tables, Typed, Shapes, TypeOK
  <2> QED
    BY <2>1, <2>2, OwedQuiet
<1>3. ASSUME NEW c \in Conns, MessageRead(c) PROVE Owed'
  <2>1. queue' = queue /\ pend' = pend
    BY <1>3 DEF MessageRead, Reads, thread, tables
  <2>2. \A v \in Conns : pend[v] = <<>> \/ (pc'[v] = "bump" => pc[v] = "bump")
    BY <1>3 DEF MessageRead, Reads, thread, tables, Typed, Shapes, TypeOK
  <2> QED
    BY <2>1, <2>2, OwedQuiet
<1>4. ASSUME NEW c \in Conns, Close(c) PROVE Owed'
  <2>1. queue' = queue /\ pend' = pend
    BY <1>4 DEF Close, thread, tables
  <2>2. \A v \in Conns : pend[v] = <<>> \/ (pc'[v] = "bump" => pc[v] = "bump")
    BY <1>4 DEF Close, thread, tables, Typed, Shapes, TypeOK
  <2> QED
    BY <2>1, <2>2, OwedQuiet
<1>5. ASSUME NEW c \in Conns, ReadPending(c) PROVE Owed'
  <2>1. /\ \A v \in Conns \ {c} : pend'[v] = pend[v]
        /\ \A k \in DOMAIN pend'[c] : pend'[c][k] \in queue /\ pend'[c][k].attempts < MaxAttempts
        /\ queue' = queue
    BY <1>5, FreshRows
  <2>2. \A v \in Conns \ {c} : pc'[v] = pc[v]
    BY <1>5 DEF ReadPending, Goto, Typed, Shapes
  <2> SUFFICES ASSUME NEW r \in queue', ~(r.attempts <= MaxAttempts - 1), NEW v \in Conns,
                      Owes(v, r.id)'
               PROVE  Owes(v, r.id)
    BY <2>1, OwedKept
  <2>3. PICK k \in DOMAIN pend'[v] : pend'[v][k].id = r.id /\ (k = 1 => pc'[v] = "bump")
    BY DEF Owes
  <2>4. v # c
    <3> SUFFICES ASSUME v = c PROVE FALSE
      OBVIOUS
    <3>1. pend'[c][k] \in queue /\ pend'[c][k].id = r.id /\ r \in queue
      BY <2>1, <2>3
    <3>2. pend'[c][k] = r
      BY <3>1 DEF OneRow
    <3>3. r.attempts < MaxAttempts
      BY <2>1, <2>3, <3>2
    <3>4. r.attempts \in Nat /\ MaxAttempts \in Nat
      BY <2>1, DeliveryConstants DEF Typed, TypeOK
    <3> QED
      BY <3>3, <3>4
  <2> QED
    BY <2>1, <2>2, <2>3, <2>4 DEF Owes
<1>6. ASSUME NEW c \in Conns, IncrementAttempts(c) PROVE Owed'
  <2>1. /\ pc[c] = "bump" /\ pend' = pend /\ pend[c] # <<>>
        /\ pc' = [pc EXCEPT ![c] = "send"] /\ rows' = rows
    BY <1>6 DEF IncrementAttempts, Goto
  <2>2. 1 \in DOMAIN pend[c] /\ Head(pend[c]) = pend[c][1]
    BY <2>1, FirstRow
  <2>3. \A v \in Conns \ {c} : pc'[v] = pc[v]
    BY <2>1 DEF Typed, Shapes
  <2>4. pc'[c] = "send"
    BY <2>1 DEF Typed, Shapes
  <2>5. \A v \in Conns : \A i : Owes(v, i)' => Owes(v, i)
    BY <2>1, <2>3, <2>4 DEF Owes
  <2>6. ASSUME NEW i, i = pend[c][1].id PROVE Owes(c, i) /\ ~Owes(c, i)'
    <3>1. Owes(c, i)
      BY <2>1, <2>2, <2>6 DEF Owes
    <3>2. \A k \in DOMAIN pend[c] : pend[c][k].id = i => k = 1
      BY <2>2, <2>6 DEF OwnRows
    <3>3. ~\E k \in DOMAIN pend'[c] : pend'[c][k].id = i /\ (k = 1 => pc'[c] = "bump")
      BY <2>1, <2>4, <3>2
    <3> QED
      BY <3>1, <3>3 DEF Owes
  <2> SUFFICES ASSUME NEW r \in queue', ~(r.attempts <= MaxAttempts - 1)
               PROVE  r.attempts + Cardinality(Debtors(r.id)')
                        <= MaxAttempts - 1 + Cardinality(Readers(r)')
    BY DEF Owed
  <2>7. PICK q \in queue : /\ r.id = q.id /\ r.msg = q.msg
                           /\ q.id # Head(pend[c]).id => r = q
                           /\ q.id = Head(pend[c]).id => r.attempts = q.attempts + 1
    BY <1>6, BumpedRows DEF Typed
  <2>8. Readers(r)' = Readers(q)
    BY <2>1, <2>7 DEF Readers
  <2>9. PICK D : D = Debtors(r.id)'
    OBVIOUS
  <2>10. D \subseteq Debtors(q.id)
    BY <2>5, <2>7, <2>9 DEF Debtors
  <2>11. /\ IsFiniteSet(Debtors(q.id)) /\ Cardinality(Debtors(q.id)) \in Nat
         /\ Cardinality(Readers(q)) \in Nat
         /\ Cardinality(Debtors(q.id)) <= Cardinality(Readers(q))
    BY DebtorsRead
  <2>12. q.attempts \in Nat /\ MaxAttempts \in Nat
    BY DeliveryConstants DEF Typed, TypeOK
  <2>13. Cardinality(D) \in Nat /\ Cardinality(D) <= Cardinality(Debtors(q.id))
    BY <2>10, <2>11, FS_Subset, FS_CardinalityType
  <2>14. \/ q.attempts <= MaxAttempts - 1
         \/ q.attempts + Cardinality(Debtors(q.id)) <= MaxAttempts - 1 + Cardinality(Readers(q))
    BY DEF Owed
  <2>15. CASE q.id # Head(pend[c]).id
    <3>1. q.attempts + Cardinality(Debtors(q.id)) <= MaxAttempts - 1 + Cardinality(Readers(q))
      BY <2>7, <2>14, <2>15
    <3> QED
      BY <2>7, <2>8, <2>9, <2>11, <2>12, <2>13, <2>15, <3>1
  <2>16. CASE q.id = Head(pend[c]).id
    <3>0. r.id = pend[c][1].id /\ q.id = r.id
      BY <2>2, <2>7, <2>16
    <3>1. c \in Debtors(q.id) /\ c \notin D
      BY <2>6, <2>9, <3>0 DEF Debtors
    <3>2. Cardinality(Debtors(q.id) \ {c}) = Cardinality(Debtors(q.id)) - 1
          /\ IsFiniteSet(Debtors(q.id) \ {c})
      BY <2>11, <3>1, FS_RemoveElement
    <3>3. Cardinality(D) <= Cardinality(Debtors(q.id) \ {c})
      BY <2>10, <3>1, <3>2, FS_Subset
    <3>4. r.attempts = q.attempts + 1
      BY <2>7, <2>16
    <3>5. Cardinality(D) + 1 <= Cardinality(Debtors(q.id))
      BY <2>11, <2>13, <3>2, <3>3
    <3> QED
      BY <2>8, <2>9, <2>11, <2>12, <2>13, <2>14, <3>4, <3>5
  <2> QED
    BY <2>15, <2>16
<1>7. ASSUME NEW c \in Conns, SendPending(c) PROVE Owed'
  <2>1. queue' = queue
    BY <1>7 DEF SendPending
  <2>2. \A v \in Conns : pend'[v] = <<>> \/ (pend'[v] = pend[v] /\ (pc'[v] = "bump" => pc[v] = "bump"))
    <3>1. \/ pend' = pend /\ pc' = [pc EXCEPT ![c] = "mark"]
          \/ pend' = [pend EXCEPT ![c] = <<>>] /\ pc' = [pc EXCEPT ![c] = "bump"]
      BY <1>7 DEF SendPending, Goto
    <3>2. CASE pend' = pend /\ pc' = [pc EXCEPT ![c] = "mark"]
      BY <3>2 DEF Typed, Shapes
    <3>3. CASE pend' = [pend EXCEPT ![c] = <<>>] /\ pc' = [pc EXCEPT ![c] = "bump"]
      BY <3>3 DEF Typed, Shapes
    <3> QED
      BY <3>1, <3>2, <3>3
  <2> QED
    BY <2>1, <2>2, OwedQuiet
<1>8. ASSUME NEW c \in Conns, MarkDelivered(c) PROVE Owed'
  <2>1. /\ \A v \in Conns \ {c} : pend'[v] = pend[v]
        /\ \A k \in DOMAIN pend'[c] : k + 1 \in DOMAIN pend[c] /\ pend'[c][k] = pend[c][k + 1]
        /\ \A k \in DOMAIN pend'[c] : k \in Nat \ {0}
    BY <1>8, RestOfRows
  <2>2. \A v \in Conns \ {c} : pc'[v] = pc[v]
    BY <1>8 DEF MarkDelivered, Goto, Typed, Shapes
  <2>3. \A r \in queue' : \E q \in queue : r.id = q.id /\ r.msg = q.msg /\ r.attempts = q.attempts
    BY <1>8, MarkedRows DEF Typed
  <2> SUFFICES ASSUME NEW r \in queue', NEW v \in Conns, Owes(v, r.id)'
               PROVE  Owes(v, r.id)
    BY <2>3, OwedKept
  <2>4. PICK k \in DOMAIN pend'[v] : pend'[v][k].id = r.id /\ (k = 1 => pc'[v] = "bump")
    BY DEF Owes
  <2>5. CASE v # c
    BY <2>1, <2>2, <2>4, <2>5 DEF Owes
  <2>6. CASE v = c
    <3>1. k + 1 \in DOMAIN pend[c] /\ pend[c][k + 1].id = r.id /\ k + 1 # 1
      BY <2>1, <2>4, <2>6
    <3> QED
      BY <2>6, <3>1 DEF Owes
  <2> QED
    BY <2>5, <2>6
<1>9. ASSUME NEW c \in Conns, Join(c) PROVE Owed'
  <2>1. queue' = queue /\ pend' = pend
    BY <1>9 DEF Join, Goto, thread, tables
  <2>2. \A v \in Conns : pend[v] = <<>> \/ (pc'[v] = "bump" => pc[v] = "bump")
    BY <1>9 DEF Join, Goto, thread, tables, Typed, Shapes, TypeOK
  <2> QED
    BY <2>1, <2>2, OwedQuiet
<1>10. ASSUME NEW c \in Conns, JoinFails(c) PROVE Owed'
  <2>1. queue' = queue /\ pend' = pend
    BY <1>10 DEF JoinFails, Goto, thread, tables
  <2>2. \A v \in Conns : pend[v] = <<>> \/ (pc'[v] = "bump" => pc[v] = "bump")
    BY <1>10 DEF JoinFails, Goto, thread, tables, Typed, Shapes, TypeOK
  <2> QED
    BY <2>1, <2>2, OwedQuiet
<1>11. ASSUME NEW c \in Conns, SaveMessage(c) PROVE Owed'
  <2>1. queue' = queue /\ pend' = pend
    BY <1>11 DEF SaveMessage, Goto, thread, tables
  <2>2. \A v \in Conns : pend[v] = <<>> \/ (pc'[v] = "bump" => pc[v] = "bump")
    BY <1>11 DEF SaveMessage, Goto, thread, tables, Typed, Shapes, TypeOK
  <2> QED
    BY <2>1, <2>2, OwedQuiet
<1>12. ASSUME NEW c \in Conns, Route(c) PROVE Owed'
  <2>1. queue' = queue /\ pend' = pend
    BY <1>12 DEF Route, Goto, thread, tables
  <2>2. \A v \in Conns : pend[v] = <<>> \/ (pc'[v] = "bump" => pc[v] = "bump")
    BY <1>12 DEF Route, Goto, thread, tables, Typed, Shapes, TypeOK
  <2> QED
    BY <2>1, <2>2, OwedQuiet
<1>13. ASSUME NEW c \in Conns, Forward(c) PROVE Owed'
  <2>1. queue' = queue /\ pend' = pend
    BY <1>13 DEF Forward, Goto, thread, tables
  <2>2. \A v \in Conns : pend[v] = <<>> \/ (pc'[v] = "bump" => pc[v] = "bump")
    BY <1>13 DEF Forward, Goto, thread, tables, Typed, Shapes, TypeOK
  <2> QED
    BY <2>1, <2>2, OwedQuiet
<1>14. ASSUME NEW c \in Conns, ForwardThrows(c) PROVE Owed'
  <2>1. queue' = queue /\ pend' = pend
    BY <1>14 DEF ForwardThrows, Goto, thread, tables
  <2>2. \A v \in Conns : pend[v] = <<>> \/ (pc'[v] = "bump" => pc[v] = "bump")
    BY <1>14 DEF ForwardThrows, Goto, thread, tables, Typed, Shapes, TypeOK
  <2> QED
    BY <2>1, <2>2, OwedQuiet
<1>15. ASSUME NEW c \in Conns, Reload(c) PROVE Owed'
  <2>1. queue' = queue /\ pend' = pend
    BY <1>15 DEF Reload, Goto, thread, tables
  <2>2. \A v \in Conns : pend[v] = <<>> \/ (pc'[v] = "bump" => pc[v] = "bump")
    BY <1>15 DEF Reload, Goto, thread, tables, Typed, Shapes, TypeOK
  <2> QED
    BY <2>1, <2>2, OwedQuiet
<1>16. ASSUME NEW c \in Conns, Enqueue(c) PROVE Owed'
  <2> DEFINE e == [id |-> queued + 1, msg |-> last[c], delivered |-> FALSE, attempts |-> 0]
  <2>1. e.attempts = 0 /\ queue' = queue \cup {e} /\ pend' = pend
    BY <1>16 DEF Enqueue
  <2>2. \A v \in Conns : pend[v] = <<>> \/ (pc'[v] = "bump" => pc[v] = "bump")
    BY <1>16 DEF Enqueue, Goto, Typed, Shapes, TypeOK
  <2> HIDE DEF e
  <2>3. e.attempts <= MaxAttempts - 1
    BY <2>1, DeliveryConstants
  <2>4. \A r \in queue' : r.attempts <= MaxAttempts - 1 \/ r \in queue
    BY <2>1, <2>3
  <2> QED
    BY <2>1, <2>2, <2>4, OwedQuiet
<1>17. ASSUME NEW c \in Conns, Echo(c) PROVE Owed'
  <2>1. queue' = queue /\ pend' = pend
    BY <1>17 DEF Echo, Goto, thread, tables
  <2>2. \A v \in Conns : pend[v] = <<>> \/ (pc'[v] = "bump" => pc[v] = "bump")
    BY <1>17 DEF Echo, Goto, thread, tables, Typed, Shapes, TypeOK
  <2> QED
    BY <2>1, <2>2, OwedQuiet
<1>18. ASSUME NEW c \in Conns, Sync(c) PROVE Owed'
  <2>1. queue' = queue /\ pend' = pend
    BY <1>18 DEF Sync, thread, tables
  <2>2. \A v \in Conns : pend[v] = <<>> \/ (pc'[v] = "bump" => pc[v] = "bump")
    BY <1>18 DEF Sync, thread, tables, Typed, Shapes, TypeOK
  <2> QED
    BY <2>1, <2>2, OwedQuiet
<1>19. ASSUME NEW c \in Conns, Leave(c) PROVE Owed'
  <2>1. queue' = queue /\ pend' = pend
    BY <1>19 DEF Leave, Goto, thread, tables
  <2>2. \A v \in Conns : pend[v] = <<>> \/ (pc'[v] = "bump" => pc[v] = "bump")
    BY <1>19 DEF Leave, Goto, thread, tables, Typed, Shapes, TypeOK
  <2> QED
    BY <2>1, <2>2, OwedQuiet
<1>20. ASSUME NEW c \in Conns, NEW u \in Users, ClientSend(c, u) PROVE Owed'
  <2>1. queue' = queue /\ pend' = pend
    BY <1>20 DEF ClientSend, thread, tables
  <2>2. \A v \in Conns : pend[v] = <<>> \/ (pc'[v] = "bump" => pc[v] = "bump")
    BY <1>20 DEF ClientSend, thread, tables, Typed, Shapes, TypeOK
  <2> QED
    BY <2>1, <2>2, OwedQuiet
<1>21. ASSUME PurgeQueue PROVE Owed'
  <2>1. queue' \subseteq queue /\ pend' = pend /\ pc' = pc
    BY <1>21 DEF PurgeQueue, thread
  <2> QED
    BY <2>1, OwedQuiet
<1>22. ASSUME Crash PROVE Owed'
  <2>1. queue' = queue /\ \A v \in Conns : pend'[v] = <<>>
    BY <1>22 DEF Crash, tables
  <2> QED
    BY <2>1, OwedQuiet
<1>23. CASE UNCHANGED vars
  <2>1. queue' = queue /\ pend' = pend /\ pc' = pc
    BY <1>23 DEF vars, thread, tables
  <2> QED
    BY <2>1, OwedQuiet
<1> QED
  BY <1>1, <1>2, <1>3, <1>4, <1>5, <1>6, <1>7, <1>8, <1>9, <1>10, <1>11, <1>12, <1>13, <1>14,
     <1>15, <1>16, <1>17, <1>18, <1>19, <1>20, <1>21, <1>22, <1>23, ReadsOne DEF Next,
     ThreadStep

\* At the start nothing is owed.
LEMMA AttemptsInit == Init => AttemptsInv
BY TypedInit DEF Init, AttemptsInv, OneMessage, OwnRows, OneRow, Owed

\* Every step keeps it.
LEMMA AttemptsStep ==
    ASSUME IsFiniteSet(Conns) PROVE AttemptsInv /\ [Next]_vars => AttemptsInv'
BY TypedStep, OneMessageStep, OwnRowsStep, OneRowStep, OwedStep DEF AttemptsInv

\* What is owed bounds the attempts.
LEMMA OwedBounds ==
    ASSUME IsFiniteSet(Conns), AttemptsInv PROVE AttemptsBounded
<1> SUFFICES ASSUME NEW q \in queue
             PROVE  q.attempts <= MaxAttempts - 1 + Cardinality(Readers(q))
    BY DEF AttemptsBounded, Readers
<1>1. Cardinality(Debtors(q.id)) \in Nat /\ Cardinality(Readers(q)) \in Nat
  BY DebtorsRead DEF AttemptsInv
<1>2. q.attempts \in Nat /\ MaxAttempts \in Nat
  BY DeliveryConstants DEF AttemptsInv, Typed, TypeOK
<1>3. \/ q.attempts <= MaxAttempts - 1
      \/ q.attempts + Cardinality(Debtors(q.id)) <= MaxAttempts - 1 + Cardinality(Readers(q))
  BY DEF AttemptsInv, Owed
<1> QED
  BY <1>1, <1>2, <1>3

(***************************************************************************)
(* The limit of delivery attempts is exceeded by at most one attempt for   *)
(* each further connection of the recipient, although the counter is       *)
(* checked when the queue is read and raised later, for any finite number  *)
(* of connections (OfflineQueueRepository.cpp:97-100).                     *)
(***************************************************************************)
THEOREM AttemptsLimited == ASSUME IsFiniteSet(Conns) PROVE Spec => []AttemptsBounded
<1>1. Init => AttemptsInv
  BY AttemptsInit
<1>2. AttemptsInv /\ [Next]_vars => AttemptsInv'
  BY AttemptsStep
<1>3. AttemptsInv => AttemptsBounded
  BY OwedBounds
<1> QED
  BY <1>1, <1>2, <1>3, PTL DEF Spec
=============================================================================
