-------------------------- MODULE ClientViewProofs --------------------------
(***************************************************************************)
(* Safety of ClientView for any number of peers, groups and messages.      *)
(***************************************************************************)
EXTENDS ClientView, FiniteSetTheorems, FunctionTheorems, SequenceTheorems, WellFoundedInduction,
        TLAPS

Messages == [chat : Chats, out : BOOLEAN]
Names    == Peers \cup {Title[g] : g \in GroupIds} \cup {NoChat}
Entries  == [chat : Chats, name : Names, badge : Nat]

Flags == /\ up \in BOOLEAN /\ me \in BOOLEAN /\ db \in BOOLEAN
         /\ me => up /\ db

Copies == /\ stored \in [Ids -> Statuses]
          /\ cached \in [Ids -> Statuses]
          /\ shown \in [Ids -> Statuses]

Messaging ==
    /\ made \in Seq(Messages) /\ Len(made) <= MaxMsgs
    /\ waiting \subseteq DOMAIN made /\ unread \subseteq DOMAIN made
    /\ toAck \subseteq DOMAIN made /\ toSee \subseteq DOMAIN made

Tables == /\ rows \subseteq Chats /\ IsFiniteSet(rows)
          /\ count \in [Chats -> Nat]
          /\ view \in Chats \cup {NoChat} /\ active \in Chats \cup {NoChat}

Shapes == Flags /\ Copies /\ Messaging /\ Tables

\* The conversations of a list.
Listed(l) == {l[k].chat : k \in DOMAIN l}

\* A list with one entry for a conversation, that of a peer under its name.
WellListed(l) ==
    /\ l \in Seq(Entries)
    /\ \A k \in DOMAIN l :
        IF l[k].chat \in Peers THEN l[k].name = l[k].chat
                               ELSE l[k].name \in {Title[l[k].chat], NoChat}
    /\ \A k, m \in DOMAIN l : l[k].chat = l[m].chat => k = m

\* A message has no row and no entry before it is written.
Unmade == \A i \in Ids \ DOMAIN made :
    stored[i] = "none" /\ cached[i] = "none" /\ shown[i] = "none"

\* A client without an account shows nothing, and has no open database while
\* packets come in.
Idle == ~me => view = NoChat /\ active = NoChat /\ (up => ~db)

\* What a late echo brings it is not in a table.
Apart == ~me => \A i \in Ids : cached[i] = "none" \/ stored[i] = "none"

\* What waits for a key was not sent, and is displayed if no connection was
\* lost since.
Queued == \A i \in waiting :
    /\ i \notin toAck \cup toSee
    /\ stored[i] = "none" /\ cached[i] \in {"none", "sent"}
    /\ (me /\ cached[i] # "none") \/ i \in gone

\* A stored message is in a stored conversation, except for those of a group
\* without a row: they are seen as long as the session lasts.
Rowed == \A i \in DOMAIN made : stored[i] # "none" =>
    made[i].chat \in rows \/ i \in gone \/ (me /\ made[i].chat \in GroupIds)

\* A message that waits to be read is stored.
UnreadStored == \A i \in unread : stored[i] # "none" \/ i \in gone

\* There is a message for everything that is counted.
Counted ==
    /\ \A c \in Chats : count[c] <= Len(made)
    /\ \A k \in DOMAIN list : list[k].badge <= Len(made)

Typed == Shapes /\ WellListed(list) /\ Counted

ViewInv == Idle /\ Unmade /\ OpenIsCached

StoreInv == Apart /\ Queued /\ StatusStored

RowsInv == Rowed /\ UnreadStored /\ HistoryCached

\* No group has the name of a peer.
OwnTitles == \A g \in GroupIds : Title[g] \notin Peers

\* A conversation that is not stored, or not listed, has nothing unread, and
\* the entry of a late echo has no badge.
Rowless  == \A c \in Chats \ rows : count[c] = 0
Unlisted == me => \A c \in Chats \ Listed(list) : count[c] = 0
Unbadged == ~me => \A k \in DOMAIN list : list[k].badge = 0

BadgeInv == Rowless /\ Unlisted /\ Unbadged /\ BadgeStored /\ OpenIsRead

-----------------------------------------------------------------------------
\* A non-empty set of natural numbers has a least element.
LEMMA LeastNatural ==
    ASSUME NEW T \in SUBSET Nat, T # {}
    PROVE  \E n \in T : \A m \in T : n <= m
<1> DEFINE D == {0..n : n \in T}
<1>1. IsWellFoundedOn(StrictSubsetOrdering(Nat), FiniteSubsetsOf(Nat))
  BY FS_StrictSubsetOrderingWellFounded
<1>2. \A n \in T : 0..n \in FiniteSubsetsOf(Nat)
  <2> SUFFICES ASSUME NEW n \in T PROVE 0..n \in FiniteSubsetsOf(Nat)
    OBVIOUS
  <2>1. IsFiniteSet(0..n)
    BY FS_Interval
  <2> QED
    BY <2>1 DEF FiniteSubsetsOf
<1>3. D \subseteq FiniteSubsetsOf(Nat) /\ D # {}
  BY <1>2
<1>4. \E x \in D : \A y \in D : ~(<<y, x>> \in StrictSubsetOrdering(Nat))
  <2> HIDE DEF D
  <2> QED
    BY <1>1, <1>3, WFMin
<1>5. PICK n \in T : \A y \in D : ~(<<y, 0..n>> \in StrictSubsetOrdering(Nat))
  BY <1>4
<1>6. \A m \in T : n <= m
  <2> SUFFICES ASSUME NEW m \in T, m < n
               PROVE  FALSE
    OBVIOUS
  <2>1. ~(<<0..m, 0..n>> \in StrictSubsetOrdering(Nat))
    BY <1>5
  <2>2. 0..m \subseteq 0..n /\ 0..m # 0..n
    OBVIOUS
  <2> QED
    BY <2>1, <2>2 DEF StrictSubsetOrdering
<1> QED
  BY <1>6
(***************************************************************************)
(* The list operators.  First finds the least index.                       *)
(***************************************************************************)
LEMMA FirstFound ==
    ASSUME NEW n \in Nat, NEW K, K \subseteq 1..n
    PROVE  /\ K = {} => First(K) = 0
           /\ K # {} => First(K) \in K
           /\ First(K) \in Nat
<1>1. ASSUME K # {} PROVE \E x \in K : \A y \in K : x <= y
  <2>1. PICK z \in K : TRUE
    BY <1>1
  <2>2. K \subseteq Nat
    OBVIOUS
  <2> QED BY <2>1, <2>2, LeastNatural
<1>2. ASSUME K # {} PROVE Min(K) \in K
  BY <1>1, <1>2 DEF Min
<1>3. ASSUME K # {} PROVE First(K) \in K /\ First(K) \in Nat
  <2>1. First(K) = Min(K)
    BY <1>3 DEF First
  <2>2. First(K) \in K
    BY <1>2, <1>3, <2>1
  <2>3. \A x \in 1..n : x \in Nat
    OBVIOUS
  <2> QED BY <2>2, <2>3
<1>4. ASSUME K = {} PROVE First(K) = 0
  BY <1>4 DEF First
<1> QED BY <1>3, <1>4

\* Position is 0 exactly for a conversation that is not listed.
LEMMA PositionFound ==
    ASSUME NEW l \in Seq(Entries), NEW c
    PROVE  /\ Position(l, c) \in Nat
           /\ c \notin Listed(l) => Position(l, c) = 0
           /\ c \in Listed(l) => /\ Position(l, c) \in DOMAIN l
                                 /\ l[Position(l, c)].chat = c
<1> DEFINE K == {k \in DOMAIN l : l[k].chat = c}
<1>1. K \subseteq 1..Len(l) /\ Len(l) \in Nat
  OBVIOUS
<1>2. c \in Listed(l) <=> K # {}
  BY DEF Listed
<1> HIDE DEF K
<1>3. /\ K = {} => First(K) = 0
      /\ K # {} => First(K) \in K
      /\ First(K) \in Nat
  BY <1>1, FirstFound
<1> QED BY <1>2, <1>3 DEF Position, K

\* Named is 0 exactly for a name no entry has.
LEMMA NamedFound ==
    ASSUME NEW l \in Seq(Entries), NEW n
    PROVE  /\ Named(l, n) \in Nat
           /\ Named(l, n) = 0 => \A k \in DOMAIN l : l[k].name # n
           /\ Named(l, n) # 0 => Named(l, n) \in DOMAIN l /\ l[Named(l, n)].name = n
<1> DEFINE K == {k \in DOMAIN l : l[k].name = n}
<1>1. K \subseteq 1..Len(l) /\ Len(l) \in Nat
  OBVIOUS
<1>2. 0 \notin K
  OBVIOUS
<1>3. K = {} => \A k \in DOMAIN l : l[k].name # n
  OBVIOUS
<1>4. \A k \in K : k \in DOMAIN l /\ l[k].name = n
  OBVIOUS
<1> HIDE DEF K
<1>5. /\ K = {} => First(K) = 0
      /\ K # {} => First(K) \in K
      /\ First(K) \in Nat
  BY <1>1, FirstFound
<1> QED BY <1>2, <1>3, <1>4, <1>5 DEF Named, K

\* An entry of l2 is one of l with its badge raised by inc at most, or the
\* new entry of c.
Added(l, l2, c, inc) ==
    /\ WellListed(l2)
    /\ DOMAIN l \subseteq DOMAIN l2
    /\ \A k \in DOMAIN l : /\ l2[k].chat = l[k].chat
                           /\ l2[k].badge \in {l[k].badge, l[k].badge + inc}
    /\ \A k \in DOMAIN l2 \ DOMAIN l : l2[k].chat = c /\ l2[k].badge = inc

\* And it is the entry of c that is raised or new.
AddedTo(l, l2, c, inc) ==
    /\ Added(l, l2, c, inc)
    /\ c \in Listed(l2)
    /\ \A k \in DOMAIN l :
        l2[k].badge = IF l[k].chat = c THEN l[k].badge + inc ELSE l[k].badge
    /\ \A k \in DOMAIN l2 \ DOMAIN l : c \notin Listed(l)

\* The fields of an entry.
LEMMA EntryFields ==
    ASSUME NEW l \in Seq(Entries)
    PROVE  \A k \in DOMAIN l : l[k].badge \in Nat /\ l[k].chat \in Chats
<1> TAKE k \in DOMAIN l
<1>1. l[k] \in Entries
  OBVIOUS
<1> QED BY <1>1 DEF Entries

\* The badge of one entry is changed.
Badged(l, at, b) == [l EXCEPT ![at].badge = b]

\* The rest of the list stays.
LEMMA BadgeAt ==
    ASSUME NEW l, WellListed(l), NEW at \in DOMAIN l, NEW b \in Nat,
           NEW l2, l2 = Badged(l, at, b)
    PROVE  /\ WellListed(l2)
           /\ DOMAIN l2 = DOMAIN l
           /\ \A k \in DOMAIN l : /\ l2[k].chat = l[k].chat
                                  /\ l2[k].badge = IF k = at THEN b ELSE l[k].badge
<1>1. l \in Seq(Entries) /\ Len(l) \in Nat /\ DOMAIN l = 1..Len(l)
  BY DEF WellListed
<1>2. \A k \in DOMAIN l : l[k] \in Entries
  BY <1>1
<1>3. l2 = [k \in 1..Len(l) |-> IF k = at THEN [l[at] EXCEPT !.badge = b] ELSE l[k]]
  BY <1>1 DEF Badged
<1>4. [l[at] EXCEPT !.badge = b] \in Entries
  BY <1>2 DEF Entries
<1>5. \A k \in 1..Len(l) : l2[k] \in Entries
  BY <1>1, <1>2, <1>3, <1>4
<1>6. l2 \in [1..Len(l) -> Entries]
  BY <1>3, <1>5
<1>7. l2 \in Seq(Entries) /\ DOMAIN l2 = DOMAIN l
  BY <1>1, <1>6
<1>8. \A k \in DOMAIN l : /\ l2[k].chat = l[k].chat /\ l2[k].name = l[k].name
                          /\ l2[k].badge = IF k = at THEN b ELSE l[k].badge
  <2> TAKE k \in DOMAIN l
  <2>1. CASE k = at
    BY <2>1, <1>1, <1>2, <1>3 DEF Entries
  <2>2. CASE k # at
    BY <2>2, <1>1, <1>3
  <2> QED BY <2>1, <2>2
<1>9. WellListed(l2)
  BY <1>7, <1>8 DEF WellListed
<1> QED BY <1>7, <1>8, <1>9

\* A new entry at the end.
LEMMA NewEntry ==
    ASSUME NEW l, WellListed(l), NEW c \in Chats, NEW n, NEW b \in Nat,
           c \notin Listed(l),
           IF c \in Peers THEN n = c ELSE n \in {Title[c], NoChat}
    PROVE  LET l2 == Append(l, Entry(c, n, b)) IN
           /\ WellListed(l2)
           /\ DOMAIN l \subseteq DOMAIN l2
           /\ \A k \in DOMAIN l : l2[k] = l[k]
           /\ \A k \in DOMAIN l2 \ DOMAIN l : l2[k].chat = c /\ l2[k].badge = b
           /\ c \in Listed(l2)
<1>1. PICK e : e = Entry(c, n, b)
  OBVIOUS
<1>2. e.chat = c /\ e.name = n /\ e.badge = b
  BY <1>1 DEF Entry
<1>3. n \in Names
  BY DEF Names, Chats
<1>4. e \in Entries
  BY <1>1, <1>3 DEF Entry, Entries
<1>5. l \in Seq(Entries) /\ Len(l) \in Nat /\ DOMAIN l = 1..Len(l)
  BY DEF WellListed
<1>6. PICK l2 : l2 = Append(l, e)
  OBVIOUS
<1>7. /\ l2 \in Seq(Entries)
      /\ DOMAIN l2 = DOMAIN l \cup {Len(l) + 1} /\ Len(l) + 1 \notin DOMAIN l
      /\ l2[Len(l) + 1] = e
      /\ \A k \in DOMAIN l : l2[k] = l[k]
  BY <1>4, <1>5, <1>6
<1>8. \A k \in DOMAIN l : l[k].chat # c
  BY DEF Listed
<1>9. WellListed(l2)
  <2>1. \A k \in DOMAIN l2 :
           IF l2[k].chat \in Peers THEN l2[k].name = l2[k].chat
                                   ELSE l2[k].name \in {Title[l2[k].chat], NoChat}
    BY <1>2, <1>7 DEF WellListed
  <2>2. \A k, m \in DOMAIN l2 : l2[k].chat = l2[m].chat => k = m
    BY <1>2, <1>7, <1>8 DEF WellListed
  <2> QED BY <1>7, <2>1, <2>2 DEF WellListed
<1>10. c \in Listed(l2)
  BY <1>2, <1>7 DEF Listed
<1> QED BY <1>1, <1>2, <1>6, <1>7, <1>9, <1>10

\* addOrUpdate raises the badge of an entry or adds one.
LEMMA AddPeer ==
    ASSUME NEW l, WellListed(l), NEW p \in Peers, NEW inc \in Nat
    PROVE  /\ Added(l, addOrUpdate(l, p, inc), p, inc)
           /\ OwnTitles => AddedTo(l, addOrUpdate(l, p, inc), p, inc)
<1>1. PICK l2 : l2 = addOrUpdate(l, p, inc)
  OBVIOUS
<1>2. PICK at : at = Named(l, p)
  OBVIOUS
<1>3. l \in Seq(Entries)
  BY DEF WellListed
<1>4. \A k \in DOMAIN l : l[k].badge \in Nat /\ l[k].chat \in Chats
  BY <1>3, EntryFields
<1>5. /\ at = 0 => \A k \in DOMAIN l : l[k].name # p
      /\ at # 0 => at \in DOMAIN l /\ l[at].name = p
  BY <1>2, <1>3, NamedFound
<1>6. p \in Chats
  BY DEF Chats
<1>7. CASE at # 0
  <2>1. l2 = [l EXCEPT ![at].badge = l[at].badge + inc]
    BY <1>1, <1>2, <1>7 DEF addOrUpdate
  <2>2. /\ WellListed(l2)
        /\ DOMAIN l2 = DOMAIN l
        /\ \A k \in DOMAIN l :
             /\ l2[k].chat = l[k].chat
             /\ l2[k].badge = IF k = at THEN l[at].badge + inc ELSE l[k].badge
    <3>1. PICK b \in Nat : b = l[at].badge + inc
      BY <1>4, <1>5, <1>7
    <3>2. at \in DOMAIN l
      BY <1>5, <1>7
    <3>3. l2 = Badged(l, at, b)
      BY <2>1, <3>1 DEF Badged
    <3>4. /\ WellListed(l2)
          /\ DOMAIN l2 = DOMAIN l
          /\ \A k \in DOMAIN l : /\ l2[k].chat = l[k].chat
                                 /\ l2[k].badge = IF k = at THEN b ELSE l[k].badge
      BY <3>2, <3>3, BadgeAt
    <3> QED BY <3>1, <3>4
  <2>3. Added(l, l2, p, inc)
    BY <2>2 DEF Added
  <2>4. ASSUME OwnTitles PROVE AddedTo(l, l2, p, inc)
    <3>1. l[at].chat = p
      BY <2>4, <1>4, <1>5, <1>7, ClientViewConstants DEF WellListed, OwnTitles, Chats
    <3>2. \A k \in DOMAIN l : l[k].chat = p <=> k = at
      BY <3>1, <1>5, <1>7 DEF WellListed
    <3>3. p \in Listed(l2)
      BY <3>1, <2>2, <1>5, <1>7 DEF Listed
    <3> QED BY <2>2, <2>3, <3>2, <3>3 DEF AddedTo
  <2> QED BY <1>1, <2>3, <2>4
<1>8. CASE at = 0
  <2>1. l2 = Append(l, Entry(p, p, inc))
    BY <1>1, <1>2, <1>8 DEF addOrUpdate
  <2>2. \A k \in DOMAIN l : l[k].chat # p
    BY <1>5, <1>8 DEF WellListed
  <2>3. p \notin Listed(l)
    BY <2>2 DEF Listed
  <2>4. /\ WellListed(l2)
        /\ DOMAIN l \subseteq DOMAIN l2
        /\ \A k \in DOMAIN l : l2[k] = l[k]
        /\ \A k \in DOMAIN l2 \ DOMAIN l : l2[k].chat = p /\ l2[k].badge = inc
        /\ p \in Listed(l2)
    BY <1>6, <2>1, <2>3, NewEntry
  <2>5. AddedTo(l, l2, p, inc)
    BY <2>2, <2>3, <2>4 DEF Added, AddedTo
  <2> QED BY <1>1, <2>5 DEF AddedTo
<1> QED BY <1>7, <1>8

\* addOrUpdateGroup does so for the group.
LEMMA AddGroup ==
    ASSUME NEW l, WellListed(l), NEW g \in GroupIds, NEW n \in {Title[g], NoChat},
           NEW inc \in Nat
    PROVE  AddedTo(l, addOrUpdateGroup(l, g, n, inc), g, inc)
<1>1. PICK l2 : l2 = addOrUpdateGroup(l, g, n, inc)
  OBVIOUS
<1>2. PICK at : at = Position(l, g)
  OBVIOUS
<1>3. l \in Seq(Entries)
  BY DEF WellListed
<1>4. \A k \in DOMAIN l : l[k].badge \in Nat /\ l[k].chat \in Chats
  BY <1>3, EntryFields
<1>5. /\ at \in Nat
      /\ g \notin Listed(l) => at = 0
      /\ g \in Listed(l) => at \in DOMAIN l /\ l[at].chat = g
  BY <1>2, <1>3, PositionFound
<1>6. g \in Chats /\ g \notin Peers
  BY ClientViewConstants DEF Chats
<1>7. CASE g \in Listed(l)
  <2>0. at # 0
    BY <1>3, <1>5, <1>7
  <2>1. l2 = [l EXCEPT ![at].badge = l[at].badge + inc]
    BY <1>1, <1>2, <2>0 DEF addOrUpdateGroup
  <2>2. /\ WellListed(l2)
        /\ DOMAIN l2 = DOMAIN l
        /\ \A k \in DOMAIN l :
             /\ l2[k].chat = l[k].chat
             /\ l2[k].badge = IF k = at THEN l[at].badge + inc ELSE l[k].badge
    <3>1. PICK b \in Nat : b = l[at].badge + inc
      BY <1>4, <1>5, <1>7
    <3>2. at \in DOMAIN l
      BY <1>5, <1>7
    <3>3. l2 = Badged(l, at, b)
      BY <2>1, <3>1 DEF Badged
    <3>4. /\ WellListed(l2)
          /\ DOMAIN l2 = DOMAIN l
          /\ \A k \in DOMAIN l : /\ l2[k].chat = l[k].chat
                                 /\ l2[k].badge = IF k = at THEN b ELSE l[k].badge
      BY <3>2, <3>3, BadgeAt
    <3> QED BY <3>1, <3>4
  <2>3. Added(l, l2, g, inc)
    BY <2>2 DEF Added
  <2>4. \A k \in DOMAIN l : l[k].chat = g <=> k = at
    BY <1>5, <1>7 DEF WellListed
  <2>5. g \in Listed(l2)
    BY <2>2, <1>5, <1>7 DEF Listed
  <2> QED BY <1>1, <2>2, <2>3, <2>4, <2>5 DEF AddedTo
<1>8. CASE g \notin Listed(l)
  <2>1. l2 = Append(l, Entry(g, n, inc))
    BY <1>1, <1>2, <1>5, <1>8 DEF addOrUpdateGroup
  <2>2. \A k \in DOMAIN l : l[k].chat # g
    BY <1>8 DEF Listed
  <2>4. /\ WellListed(l2)
        /\ DOMAIN l \subseteq DOMAIN l2
        /\ \A k \in DOMAIN l : l2[k] = l[k]
        /\ \A k \in DOMAIN l2 \ DOMAIN l : l2[k].chat = g /\ l2[k].badge = inc
        /\ g \in Listed(l2)
    BY <1>6, <1>8, <2>1, NewEntry
  <2> QED BY <1>1, <1>8, <2>2, <2>4 DEF Added, AddedTo
<1> QED BY <1>7, <1>8

\* setUnreadCount sets the badge of the one entry of c.
LEMMA SetBadge ==
    ASSUME NEW l, WellListed(l), NEW c, NEW b \in Nat
    PROVE  LET l2 == setUnreadCount(l, c, b) IN
           /\ WellListed(l2)
           /\ DOMAIN l2 = DOMAIN l
           /\ \A k \in DOMAIN l : /\ l2[k].chat = l[k].chat
                                  /\ l2[k].badge = IF l[k].chat = c THEN b ELSE l[k].badge
<1>1. PICK l2 : l2 = setUnreadCount(l, c, b)
  OBVIOUS
<1>2. PICK at : at = Position(l, c)
  OBVIOUS
<1>3. l \in Seq(Entries)
  BY DEF WellListed
<1>5. /\ at \in Nat
      /\ c \notin Listed(l) => at = 0
      /\ c \in Listed(l) => at \in DOMAIN l /\ l[at].chat = c
  BY <1>2, <1>3, PositionFound
<1>7. CASE c \in Listed(l)
  <2>0. at # 0
    BY <1>3, <1>5, <1>7
  <2>1. l2 = [l EXCEPT ![at].badge = b]
    BY <1>1, <1>2, <2>0 DEF setUnreadCount
  <2>2. /\ WellListed(l2)
        /\ DOMAIN l2 = DOMAIN l
        /\ \A k \in DOMAIN l : /\ l2[k].chat = l[k].chat
                               /\ l2[k].badge = IF k = at THEN b ELSE l[k].badge
    <3>1. at \in DOMAIN l
      BY <1>5, <1>7
    <3>2. l2 = Badged(l, at, b)
      BY <2>1 DEF Badged
    <3> QED BY <3>1, <3>2, BadgeAt
  <2>4. \A k \in DOMAIN l : l[k].chat = c <=> k = at
    BY <1>5, <1>7 DEF WellListed
  <2> QED BY <1>1, <2>2, <2>4
<1>8. CASE c \notin Listed(l)
  <2>1. l2 = l
    BY <1>1, <1>2, <1>5, <1>8 DEF setUnreadCount
  <2>2. \A k \in DOMAIN l : l[k].chat # c
    BY <1>8 DEF Listed
  <2> QED BY <1>1, <2>1, <2>2
<1> QED BY <1>7, <1>8

\* removeEntry removes the entry of c and nothing else.
LEMMA RemoveOne ==
    ASSUME NEW l, WellListed(l), NEW c
    PROVE  LET l2 == removeEntry(l, c) IN
           /\ WellListed(l2)
           /\ \A k \in DOMAIN l2 : \E m \in DOMAIN l : l2[k] = l[m] /\ l[m].chat # c
           /\ Listed(l2) = Listed(l) \ {c}
<1>1. PICK l2 : l2 = removeEntry(l, c)
  OBVIOUS
<1>2. PICK at : at = Position(l, c)
  OBVIOUS
<1>3. l \in Seq(Entries) /\ Len(l) \in Nat /\ DOMAIN l = 1..Len(l)
  BY DEF WellListed
<1>5. /\ at \in Nat
      /\ c \notin Listed(l) => at = 0
      /\ c \in Listed(l) => at \in DOMAIN l /\ l[at].chat = c
  BY <1>2, <1>3, PositionFound
<1>7. CASE c \in Listed(l)
  <2>0. at \in 1..Len(l) /\ at # 0
    BY <1>3, <1>5, <1>7
  <2>1. l2 = SubSeq(l, 1, at - 1) \o SubSeq(l, at + 1, Len(l))
    BY <1>1, <1>2, <2>0 DEF removeEntry, RemoveAt
  <2>2. PICK a : a = SubSeq(l, 1, at - 1)
    OBVIOUS
  <2>3. PICK b : b = SubSeq(l, at + 1, Len(l))
    OBVIOUS
  <2>4. /\ a \in Seq(Entries) /\ Len(a) = at - 1
        /\ \A k \in 1..(at - 1) : a[k] = l[k]
    BY <1>3, <2>0, <2>2
  <2>5. /\ b \in Seq(Entries) /\ Len(b) = Len(l) - at
        /\ \A k \in 1..(Len(l) - at) : b[k] = l[at + k]
    <3>1. b = [k \in 1..(Len(l) - at) |-> l[at + k]]
      BY <1>3, <2>0, <2>3, SubSeqProperties
    <3>2. \A k \in 1..(Len(l) - at) : at + k \in 1..Len(l)
      BY <1>3, <2>0
    <3>3. \A k \in 1..(Len(l) - at) : l[at + k] \in Entries
      BY <1>3, <3>2
    <3>4. Len(l) - at \in Nat
      BY <1>3, <2>0
    <3> QED BY <3>1, <3>3, <3>4
  <2>6. l2 = a \o b
    BY <2>1, <2>2, <2>3
  <2>7. /\ l2 \in Seq(Entries) /\ Len(l2) = Len(l) - 1
        /\ \A k \in 1..(Len(l) - 1) : l2[k] = IF k < at THEN l[k] ELSE l[k + 1]
    <3>1. l2 \in Seq(Entries) /\ Len(l2) = Len(l) - 1
      <4>1. l2 \in Seq(Entries) /\ Len(l2) = Len(a) + Len(b)
        BY <2>4, <2>5, <2>6, ConcatProperties
      <4> QED BY <4>1, <1>3, <2>0, <2>4, <2>5
    <3>2. ASSUME NEW k \in 1..(Len(l) - 1)
          PROVE  l2[k] = IF k < at THEN l[k] ELSE l[k + 1]
      <4>1. l2[k] = IF k <= Len(a) THEN a[k] ELSE b[k - Len(a)]
        BY <1>3, <2>0, <2>4, <2>5, <2>6
      <4>2. CASE k < at
        BY <4>1, <4>2, <1>3, <2>0, <2>4
      <4>3. CASE ~(k < at)
        <5>1. k - (at - 1) \in 1..(Len(l) - at) /\ at + (k - (at - 1)) = k + 1
          BY <4>3, <1>3, <2>0
        <5>2. l2[k] = b[k - (at - 1)]
          BY <4>1, <4>3, <1>3, <2>0, <2>4
        <5> QED BY <4>3, <5>1, <5>2, <2>5
      <4> QED BY <4>2, <4>3
    <3> QED BY <3>1, <3>2
  <2>8. DOMAIN l2 = 1..(Len(l) - 1)
    BY <1>3, <2>7
  <2>9. \A k \in DOMAIN l : l[k].chat = c <=> k = at
    BY <1>5, <1>7 DEF WellListed
  <2>10. \A k \in DOMAIN l2 : \E m \in DOMAIN l : l2[k] = l[m] /\ l[m].chat # c
    <3> TAKE k \in DOMAIN l2
    <3>1. CASE k < at
      BY <3>1, <1>3, <2>0, <2>7, <2>8, <2>9
    <3>2. CASE ~(k < at)
      <4>1. k + 1 \in DOMAIN l /\ k + 1 # at
        BY <3>2, <1>3, <2>0, <2>8
      <4> QED BY <3>2, <4>1, <2>7, <2>8, <2>9
    <3> QED BY <3>1, <3>2
  <2>11. \A k, m \in DOMAIN l2 : l2[k].chat = l2[m].chat => k = m
    <3> TAKE k, m \in DOMAIN l2
    <3>1. PICK x \in DOMAIN l : x = IF k < at THEN k ELSE k + 1
      BY <1>3, <2>0, <2>8
    <3>2. PICK y \in DOMAIN l : y = IF m < at THEN m ELSE m + 1
      BY <1>3, <2>0, <2>8
    <3>3. l2[k] = l[x] /\ l2[m] = l[y]
      BY <2>7, <2>8, <3>1, <3>2
    <3>4. l[x].chat = l[y].chat => x = y
      BY DEF WellListed
    <3>5. x = y => k = m
      BY <3>1, <3>2, <2>0, <2>8
    <3> QED BY <3>3, <3>4, <3>5
  <2>12. WellListed(l2)
    BY <2>7, <2>10, <2>11 DEF WellListed
  <2>13. \A m \in DOMAIN l : m # at => \E k \in DOMAIN l2 : l2[k] = l[m]
    <3> TAKE m \in DOMAIN l
    <3>1. CASE m < at
      BY <3>1, <1>3, <2>0, <2>7, <2>8
    <3>2. CASE m > at
      <4>1. m - 1 \in DOMAIN l2 /\ ~(m - 1 < at) /\ (m - 1) + 1 = m
        BY <3>2, <1>3, <2>0, <2>8
      <4> QED BY <4>1, <2>7, <2>8
    <3> QED BY <3>1, <3>2, <1>3, <2>0
  <2>14. Listed(l2) = Listed(l) \ {c}
    <3>1. Listed(l2) \subseteq Listed(l) \ {c}
      BY <2>10 DEF Listed
    <3>2. Listed(l) \ {c} \subseteq Listed(l2)
      BY <2>9, <2>13 DEF Listed
    <3> QED BY <3>1, <3>2
  <2> QED BY <1>1, <2>10, <2>12, <2>14
<1>8. CASE c \notin Listed(l)
  <2>1. l2 = l
    BY <1>1, <1>2, <1>5, <1>8 DEF removeEntry
  <2>2. \A k \in DOMAIN l : l[k].chat # c
    BY <1>8 DEF Listed
  <2> QED BY <1>1, <1>8, <2>1, <2>2
<1> QED BY <1>7, <1>8

-----------------------------------------------------------------------------
\* A sequence that lists a finite set names all of it, once.
LEMMA Listing ==
    ASSUME NEW S, IsFiniteSet(S), NEW q \in SetToSeqs(S)
    PROVE  /\ q \in Seq(S)
           /\ \A i, j \in DOMAIN q : q[i] = q[j] => i = j
           /\ \A x \in S : \E i \in DOMAIN q : q[i] = x
<1>1. PICK n \in Nat : n = Cardinality(S)
  BY FS_CardinalityType
<1>2. q \in [1..n -> S] /\ \A i, j \in 1..n : i # j => q[i] # q[j]
  BY <1>1 DEF SetToSeqs
<1>3. q \in Seq(S) /\ DOMAIN q = 1..n
  BY <1>2
<1>4. q \in Injection(1..n, S)
  BY <1>2 DEF Injection, IsInjective
<1>5. Cardinality(1..n) = n
  BY FS_Interval
<1>6. q \in Surjection(1..n, S)
  BY <1>1, <1>4, <1>5, FS_Injection
<1>7. \A x \in S : \E i \in 1..n : q[i] = x
  BY <1>6 DEF Surjection
<1> QED BY <1>2, <1>3, <1>7

\* Two lists of different conversations in a row.
Joins(l, a, b) ==
    /\ WellListed(l)
    /\ Listed(l) = Listed(a) \cup Listed(b)
    /\ \A k \in DOMAIN l : \/ \E m \in DOMAIN a : l[k] = a[m]
                           \/ \E m \in DOMAIN b : l[k] = b[m]

\* They are a list with the entries of both.
LEMMA Joined ==
    ASSUME NEW a, WellListed(a), NEW b, WellListed(b), Listed(a) \cap Listed(b) = {},
           NEW l, l = a \o b
    PROVE  Joins(l, a, b)
<1>1. /\ a \in Seq(Entries) /\ Len(a) \in Nat /\ DOMAIN a = 1..Len(a)
      /\ b \in Seq(Entries) /\ Len(b) \in Nat /\ DOMAIN b = 1..Len(b)
  BY DEF WellListed
<1>2. /\ l \in Seq(Entries) /\ Len(l) = Len(a) + Len(b)
      /\ \A k \in 1..(Len(a) + Len(b)) : l[k] = IF k <= Len(a) THEN a[k] ELSE b[k - Len(a)]
  BY <1>1, ConcatProperties
<1>3. DOMAIN l = 1..(Len(a) + Len(b))
  BY <1>2
<1>4. \A k \in DOMAIN l : \/ k \in DOMAIN a /\ l[k] = a[k]
                          \/ k - Len(a) \in DOMAIN b /\ l[k] = b[k - Len(a)]
  BY <1>1, <1>2, <1>3
<1>5. \A k \in DOMAIN a : k \in DOMAIN l /\ l[k] = a[k]
  BY <1>1, <1>2, <1>3
<1>6. \A m \in DOMAIN b : Len(a) + m \in DOMAIN l /\ l[Len(a) + m] = b[m]
  <2> TAKE m \in DOMAIN b
  <2>1. /\ Len(a) + m \in 1..(Len(a) + Len(b)) /\ ~(Len(a) + m <= Len(a))
        /\ (Len(a) + m) - Len(a) = m
    BY <1>1
  <2> QED BY <2>1, <1>2, <1>3
<1>7. \A k \in DOMAIN a, m \in DOMAIN b : a[k].chat # b[m].chat
  BY DEF Listed
<1>8. \A k, m \in DOMAIN l : l[k].chat = l[m].chat => k = m
  <2> SUFFICES ASSUME NEW k \in DOMAIN l, NEW m \in DOMAIN l, l[k].chat = l[m].chat
               PROVE  k = m
    OBVIOUS
  <2>1. CASE k \in DOMAIN a /\ l[k] = a[k]
    <3>1. m \in DOMAIN a /\ l[m] = a[m]
      BY <1>4, <1>7, <2>1
    <3> QED BY <2>1, <3>1 DEF WellListed
  <2>2. CASE k - Len(a) \in DOMAIN b /\ l[k] = b[k - Len(a)]
    <3>1. m - Len(a) \in DOMAIN b /\ l[m] = b[m - Len(a)]
      BY <1>4, <1>7, <2>2
    <3>2. k - Len(a) = m - Len(a)
      BY <2>2, <3>1 DEF WellListed
    <3> QED BY <3>2, <1>1, <1>3
  <2> QED BY <1>4, <2>1, <2>2
<1>9. \A k \in DOMAIN l :
         IF l[k].chat \in Peers THEN l[k].name = l[k].chat
                                ELSE l[k].name \in {Title[l[k].chat], NoChat}
  BY <1>4 DEF WellListed
<1>10. WellListed(l)
  BY <1>2, <1>8, <1>9 DEF WellListed
<1>11. Listed(l) \subseteq Listed(a) \cup Listed(b)
  BY <1>4 DEF Listed
<1>12. Listed(a) \subseteq Listed(l)
  BY <1>5 DEF Listed
<1>13. Listed(b) \subseteq Listed(l)
  BY <1>6 DEF Listed
<1> QED BY <1>4, <1>10, <1>11, <1>12, <1>13 DEF Joins

\* The entries of stored conversations.
LEMMA LoadedPart ==
    ASSUME NEW S, IsFiniteSet(S), S \subseteq Chats, count \in [Chats -> Nat],
           NEW q \in SetToSeqs(S)
    PROVE  /\ WellListed(Loaded(q))
           /\ Listed(Loaded(q)) = S
           /\ \A k \in DOMAIN Loaded(q) : Loaded(q)[k].badge = count[Loaded(q)[k].chat]
<1>1. /\ q \in Seq(S)
      /\ \A i, j \in DOMAIN q : q[i] = q[j] => i = j
      /\ \A x \in S : \E i \in DOMAIN q : q[i] = x
  BY Listing
<1>2. PICK l : l = Loaded(q)
  OBVIOUS
<1>3. \A k \in DOMAIN q : q[k] \in S /\ q[k] \in Chats
  BY <1>1
<1>4. DOMAIN l = DOMAIN q /\ \A k \in DOMAIN q :
        l[k] = Entry(q[k], IF q[k] \in Peers THEN q[k] ELSE Title[q[k]], count[q[k]])
  BY <1>2 DEF Loaded
<1>5. \A k \in DOMAIN q : /\ l[k].chat = q[k]
                          /\ l[k].name = IF q[k] \in Peers THEN q[k] ELSE Title[q[k]]
                          /\ l[k].badge = count[q[k]]
  BY <1>4 DEF Entry
<1>6. \A k \in DOMAIN q : l[k] \in Entries
  <2> TAKE k \in DOMAIN q
  <2>1. PICK n \in Names : n = IF q[k] \in Peers THEN q[k] ELSE Title[q[k]]
    BY <1>3 DEF Names, Chats
  <2>2. count[q[k]] \in Nat
    BY <1>3
  <2> QED BY <1>3, <1>4, <2>1, <2>2 DEF Entry, Entries
<1>7. l \in Seq(Entries)
  <2>1. DOMAIN q = 1..Len(q) /\ Len(q) \in Nat
    BY <1>1
  <2>2. l = [k \in 1..Len(q) |-> l[k]]
    BY <2>1, <1>2 DEF Loaded
  <2> QED BY <2>1, <2>2, <1>6
<1>8. WellListed(l)
  BY <1>1, <1>4, <1>5, <1>7 DEF WellListed
<1>9. Listed(l) = S
  BY <1>1, <1>3, <1>4, <1>5 DEF Listed
<1>10. \A k \in DOMAIN l : l[k].badge = count[l[k].chat]
  BY <1>4, <1>5
<1> QED BY <1>2, <1>8, <1>9, <1>10

\* The entries that are there get the count of their conversation.
LEMMA CountedPart ==
    ASSUME NEW l, l = list, WellListed(l), count \in [Chats -> Nat], NEW l2,
           l2 = Recounted
    PROVE  /\ WellListed(l2)
           /\ Listed(l2) = Listed(l)
           /\ \A k \in DOMAIN l2 : \/ l2[k].badge = count[l2[k].chat]
                                   \/ l2[k].chat \notin rows /\ l2[k] = l[k] /\ k \in DOMAIN l
<1>1. l \in Seq(Entries) /\ Len(l) \in Nat /\ DOMAIN l = 1..Len(l)
  BY DEF WellListed
<1>2. DOMAIN l2 = DOMAIN l
  BY DEF Recounted
<1>3. \A k \in DOMAIN l :
        /\ l2[k] \in Entries /\ l2[k].chat = l[k].chat /\ l2[k].name = l[k].name
        /\ l[k].chat \in rows => l2[k].badge = count[l[k].chat]
        /\ l[k].chat \notin rows => l2[k] = l[k]
  <2> TAKE k \in DOMAIN l
  <2>1. l[k] \in Entries
    BY <1>1
  <2>2. CASE l[k].chat \in rows
    <3>1. count[l[k].chat] \in Nat
      BY <2>1 DEF Entries
    <3>2. l2[k] = [l[k] EXCEPT !.badge = count[l[k].chat]]
      BY <2>2 DEF Recounted
    <3> QED BY <2>1, <2>2, <3>1, <3>2 DEF Entries
  <2>3. CASE l[k].chat \notin rows
    BY <2>1, <2>3 DEF Recounted
  <2> QED BY <2>2, <2>3
<1>4. l2 \in Seq(Entries)
  <2>1. l2 \in [1..Len(l) -> Entries]
    <3>1. l2 = [k \in 1..Len(l) |-> l2[k]]
      BY <1>1 DEF Recounted
    <3> QED BY <3>1, <1>1, <1>3
  <2> QED BY <2>1, <1>1
<1>5. WellListed(l2)
  BY <1>2, <1>3, <1>4 DEF WellListed
<1>6. Listed(l2) = Listed(l)
  BY <1>2, <1>3 DEF Listed
<1> QED BY <1>2, <1>3, <1>5, <1>6

\* loadLocalHistory: every stored conversation is listed, with its count.
LEMMA LoadedList ==
    ASSUME NEW l, l = list, WellListed(l), rows \subseteq Chats, IsFiniteSet(rows),
           count \in [Chats -> Nat], Load, NEW l2, l2 = list'
    PROVE  /\ WellListed(l2)
           /\ OwnTitles => Listed(l2) = Listed(l) \cup rows
           /\ \A k \in DOMAIN l2 :
                \/ l2[k].badge = count[l2[k].chat]
                \/ l2[k].chat \notin rows /\ \E m \in DOMAIN l : l2[k] = l[m]
<1>1. PICK P : P = {p \in rows \cap Peers : Named(l, p) = 0}
  OBVIOUS
<1>2. PICK G : G = {g \in rows \cap GroupIds : Position(l, g) = 0}
  OBVIOUS
<1>p. \A p \in Peers : /\ p \in Listed(l) => Named(l, p) # 0
                       /\ Named(l, p) # 0 /\ OwnTitles => p \in Listed(l)
  <2> TAKE p \in Peers
  <2>1. /\ Named(l, p) = 0 => \A k \in DOMAIN l : l[k].name # p
        /\ Named(l, p) # 0 => Named(l, p) \in DOMAIN l /\ l[Named(l, p)].name = p
    BY NamedFound DEF WellListed
  <2>2. ASSUME p \in Listed(l) PROVE \E k \in DOMAIN l : l[k].name = p
    BY <2>2 DEF Listed, WellListed
  <2>3. ASSUME NEW k \in DOMAIN l, l[k].name = p, OwnTitles PROVE p \in Listed(l)
    <3>1. l[k].chat \in Chats
      BY EntryFields DEF WellListed
    <3>2. l[k].chat \in Peers
      BY <2>3, <3>1, ClientViewConstants DEF WellListed, OwnTitles, Chats
    <3> QED BY <2>3, <3>2 DEF WellListed, Listed
  <2> QED BY <2>1, <2>2, <2>3
<1>g. \A g \in GroupIds : g \in Listed(l) <=> Position(l, g) # 0
  <2> TAKE g \in GroupIds
  <2>1. /\ g \notin Listed(l) => Position(l, g) = 0
        /\ g \in Listed(l) => Position(l, g) \in DOMAIN l
    BY PositionFound DEF WellListed
  <2>2. 0 \notin DOMAIN l
    BY DEF WellListed
  <2> QED BY <2>1, <2>2
<1>3. /\ IsFiniteSet(P) /\ IsFiniteSet(G) /\ P \subseteq Chats /\ G \subseteq Chats
      /\ P \cap G = {} /\ P \subseteq rows \ Listed(l) /\ G = (rows \cap GroupIds) \ Listed(l)
      /\ OwnTitles => P \cup G = rows \ Listed(l)
  <2>1. P \in SUBSET rows /\ G \in SUBSET rows
    BY <1>1, <1>2
  <2>2. IsFiniteSet(P) /\ IsFiniteSet(G)
    BY <2>1, FS_Subset
  <2>3. P \cap G = {} /\ P \subseteq rows \ Listed(l) /\ G = (rows \cap GroupIds) \ Listed(l)
    <3>1. P \subseteq Peers /\ P \subseteq rows /\ G \subseteq GroupIds
      BY <1>1, <1>2
    <3>2. \A p \in P : p \notin Listed(l)
      <4> TAKE p \in P
      <4>1. p \in Peers /\ Named(l, p) = 0
        BY <1>1
      <4> QED BY <4>1, <1>p
    <3>3. \A x : x \in G <=> x \in rows /\ x \in GroupIds /\ x \notin Listed(l)
      <4> TAKE x
      <4>1. x \in G <=> x \in rows /\ x \in GroupIds /\ Position(l, x) = 0
        BY <1>2
      <4>2. x \in GroupIds => (x \in Listed(l) <=> Position(l, x) # 0)
        BY <1>g
      <4> QED BY <4>1, <4>2
    <3> QED BY <3>1, <3>2, <3>3, ClientViewConstants
  <2>4. ASSUME OwnTitles PROVE P = (rows \cap Peers) \ Listed(l)
    <3>1. \A x : x \in P <=> x \in rows /\ x \in Peers /\ x \notin Listed(l)
      <4> TAKE x
      <4>1. x \in P <=> x \in rows /\ x \in Peers /\ Named(l, x) = 0
        BY <1>1
      <4>2. x \in Peers => (x \in Listed(l) <=> Named(l, x) # 0)
        BY <1>p, <2>4
      <4> QED BY <4>1, <4>2
    <3> QED BY <3>1
  <2>5. OwnTitles => P \cup G = rows \ Listed(l)
    BY <2>3, <2>4 DEF Chats
  <2> QED BY <2>1, <2>2, <2>3, <2>5
<1>4. PICK a : a = Recounted
  OBVIOUS
<1>5. \E p \in SetToSeqs(P), g \in SetToSeqs(G) : l2 = a \o Loaded(p) \o Loaded(g)
  BY <1>1, <1>2, <1>4 DEF Load
<1>6. PICK p \in SetToSeqs(P), g \in SetToSeqs(G) : l2 = a \o Loaded(p) \o Loaded(g)
  BY <1>5
<1>7. /\ WellListed(a) /\ Listed(a) = Listed(l)
      /\ \A k \in DOMAIN a : \/ a[k].badge = count[a[k].chat]
                             \/ a[k].chat \notin rows /\ a[k] = l[k] /\ k \in DOMAIN l
  BY <1>4, CountedPart
<1>8. PICK b : b = Loaded(p)
  OBVIOUS
<1>9. PICK c : c = Loaded(g)
  OBVIOUS
<1>10. /\ WellListed(b) /\ Listed(b) = P
       /\ \A k \in DOMAIN b : b[k].badge = count[b[k].chat]
  BY <1>3, <1>8, LoadedPart
<1>11. /\ WellListed(c) /\ Listed(c) = G
       /\ \A k \in DOMAIN c : c[k].badge = count[c[k].chat]
  BY <1>3, <1>9, LoadedPart
<1>12. PICK d : d = a \o b
  OBVIOUS
<1>13. Listed(a) \cap Listed(b) = {}
  BY <1>3, <1>7, <1>10
<1>14. /\ WellListed(d) /\ Listed(d) = Listed(a) \cup Listed(b)
       /\ \A k \in DOMAIN d : \/ \E m \in DOMAIN a : d[k] = a[m]
                              \/ \E m \in DOMAIN b : d[k] = b[m]
  <2>1. WellListed(a) /\ WellListed(b)
    BY <1>7, <1>10
  <2>2. Joins(d, a, b)
    BY <2>1, <1>12, <1>13, Joined
  <2> QED BY <2>2 DEF Joins
<1>15. l2 = d \o c
  BY <1>6, <1>8, <1>9, <1>12
<1>16. Listed(d) \cap Listed(c) = {}
  BY <1>3, <1>7, <1>10, <1>11, <1>14
<1>17. /\ WellListed(l2) /\ Listed(l2) = Listed(d) \cup Listed(c)
       /\ \A k \in DOMAIN l2 : \/ \E m \in DOMAIN d : l2[k] = d[m]
                               \/ \E m \in DOMAIN c : l2[k] = c[m]
  <2>1. WellListed(d) /\ WellListed(c)
    BY <1>11, <1>14
  <2>2. Joins(l2, d, c)
    BY <2>1, <1>15, <1>16, Joined
  <2> QED BY <2>2 DEF Joins
<1>18. OwnTitles => Listed(l2) = Listed(l) \cup rows
  BY <1>3, <1>7, <1>10, <1>11, <1>14, <1>17
<1>19. \A k \in DOMAIN l2 : \/ l2[k].badge = count[l2[k].chat]
                            \/ l2[k].chat \notin rows /\ \E m \in DOMAIN l : l2[k] = l[m]
  <2> TAKE k \in DOMAIN l2
  <2>1. \/ \E m \in DOMAIN a : l2[k] = a[m]
        \/ \E m \in DOMAIN b : l2[k] = b[m]
        \/ \E m \in DOMAIN c : l2[k] = c[m]
    BY <1>14, <1>17
  <2> QED BY <2>1, <1>7, <1>10, <1>11
<1> QED BY <1>17, <1>18, <1>19

-----------------------------------------------------------------------------
(***************************************************************************)
(* The types.  What New does to made.                                      *)
(***************************************************************************)
Extended(c) ==
    /\ Newest \in Ids /\ Newest \notin DOMAIN made
    /\ made' \in Seq(Messages) /\ Len(made') <= MaxMsgs /\ Len(made') = Len(made) + 1
    /\ DOMAIN made' = DOMAIN made \cup {Newest}
    /\ made'[Newest].chat = c
    /\ \A i \in DOMAIN made : made'[i] = made[i]

\* A message is added to those there are.
LEMMA NewMessage ==
    ASSUME Messaging, NEW c \in Chats, NEW out \in BOOLEAN, New(c, out)
    PROVE  Extended(c)
<1>1. PICK m : m = [chat |-> c, out |-> out]
  OBVIOUS
<1>2. m \in Messages /\ m.chat = c
  BY <1>1 DEF Messages
<1>3. made' = Append(made, m) /\ Len(made) < MaxMsgs
  BY <1>1 DEF New
<1>4. made \in Seq(Messages) /\ Len(made) \in Nat /\ DOMAIN made = 1..Len(made)
  BY DEF Messaging
<1>5. /\ made' \in Seq(Messages) /\ Len(made') = Len(made) + 1
      /\ DOMAIN made' = DOMAIN made \cup {Len(made) + 1}
      /\ made'[Len(made) + 1] = m
      /\ \A i \in DOMAIN made : made'[i] = made[i]
  BY <1>2, <1>3, <1>4
<1>6. Newest \in Ids /\ Newest \notin DOMAIN made
  BY <1>3, <1>4, ClientViewConstants DEF Newest, Ids
<1> QED BY <1>2, <1>3, <1>4, <1>5, <1>6, ClientViewConstants DEF Extended, Newest

\* The messages there are have ids.
LEMMA MadeIds ==
    ASSUME Messaging
    PROVE  /\ DOMAIN made \subseteq Ids
           /\ \A i \in DOMAIN made : made[i].chat \in Chats
<1>1. made \in Seq(Messages) /\ DOMAIN made = 1..Len(made) /\ Len(made) \in Nat
  BY DEF Messaging
<1>2. \A i \in DOMAIN made : made[i] \in Messages
  BY <1>1
<1>3. DOMAIN made \subseteq Ids
  BY <1>1, ClientViewConstants DEF Messaging, Ids
<1> QED BY <1>2, <1>3 DEF Messages

\* An account needs a connection and a database.
LEMMA FlagsStep ==
    ASSUME Flags, [Next]_vars
    PROVE  Flags'
<1>1. CASE Login
  BY <1>1 DEF Login, tables, session, wire, Flags
<1>2. CASE Logout
  BY <1>2 DEF Logout, ClearModels, ClearAll, tables, wire, Flags
<1>3. CASE Disconnect
  BY <1>3 DEF Disconnect, ClearModels, ClearAll, tables, session, Flags
<1>4. CASE Restart
  BY <1>4 DEF Restart, ClearModels, ClearAll, tables, Flags
<1>5. ASSUME NEW c \in Chats, Open(c) PROVE Flags'
  BY <1>5 DEF Open, link, Flags
<1>6. ASSUME NEW p \in Peers, WriteToPeer(p) PROVE Flags'
  BY <1>6 DEF WriteToPeer, link, Flags
<1>7. ASSUME NEW p \in Peers, PeerKeyArrives(p) PROVE Flags'
  BY <1>7 DEF PeerKeyArrives, link, screen, Flags
<1>8. ASSUME NEW p \in Peers, Incoming(p) PROVE Flags'
  BY <1>8 DEF Incoming, link, Flags
<1>9. ASSUME NEW p \in Peers, Echo(p) PROVE Flags'
  BY <1>9 DEF Echo, link, session, Flags
<1>10. ASSUME NEW p \in Peers, DeleteConversation(p) PROVE Flags'
  BY <1>10 DEF DeleteConversation, ClearAll, link, tables, session, wire, Flags
<1>11. ASSUME NEW g \in GroupIds, WriteToGroup(g) PROVE Flags'
  BY <1>11 DEF WriteToGroup, link, session, Flags
<1>12. ASSUME NEW g \in GroupIds, GroupIncoming(g) PROVE Flags'
  BY <1>12 DEF GroupIncoming, link, Flags
<1>13. ASSUME NEW g \in GroupIds, GroupInfo(g) PROVE Flags'
  BY <1>13 DEF GroupInfo, link, session, wire, Flags
<1>14. ASSUME NEW g \in GroupIds, GroupLeft(g) PROVE Flags'
  BY <1>14 DEF GroupLeft, link, tables, session, wire, Flags
<1>15. ASSUME NEW i \in DOMAIN made, Delivered(i) PROVE Flags'
  BY <1>15 DEF Delivered, link, session, Flags
<1>16. ASSUME NEW i \in DOMAIN made, GroupDelivered(i) PROVE Flags'
  BY <1>16 DEF GroupDelivered, link, session, Flags
<1>17. ASSUME NEW i \in DOMAIN made, Seen(i) PROVE Flags'
  BY <1>17 DEF Seen, link, session, Flags
<1>18. CASE UNCHANGED vars
  BY <1>18 DEF vars, link, tables, screen, session, wire, Flags
<1> QED
  BY <1>1, <1>2, <1>3, <1>4, <1>5, <1>6, <1>7, <1>8, <1>9, <1>10, <1>11, <1>12, <1>13, <1>14,
     <1>15, <1>16, <1>17, <1>18 DEF Next

\* Ids stand for messages that were written.
LEMMA MessagingStep ==
    ASSUME Messaging, [Next]_vars
    PROVE  Messaging'
<1>1. CASE Login
  BY <1>1 DEF Login, tables, session, wire, Messaging
<1>2. CASE Logout
  BY <1>2 DEF Logout, tables, wire, Messaging
<1>3. CASE Disconnect
  BY <1>3 DEF Disconnect, tables, session, Messaging
<1>4. CASE Restart
  BY <1>4 DEF Restart, tables, Messaging
<1>5. ASSUME NEW c \in Chats, Open(c) PROVE Messaging'
  BY <1>5 DEF Open, MarkConversationRead, link, Messaging
<1>6. ASSUME NEW p \in Peers, WriteToPeer(p) PROVE Messaging'
  <2>e. Extended(p)
    <3>1. p \in Chats
      BY DEF Chats
    <3> QED BY <1>6, <3>1, NewMessage DEF WriteToPeer
  <2> QED BY <1>6, <2>e DEF WriteToPeer, link, Messaging, Extended
<1>7. ASSUME NEW p \in Peers, PeerKeyArrives(p) PROVE Messaging'
  BY <1>7 DEF PeerKeyArrives, link, screen, Messaging
<1>8. ASSUME NEW p \in Peers, Incoming(p) PROVE Messaging'
  <2>e. Extended(p)
    <3>1. p \in Chats
      BY DEF Chats
    <3> QED BY <1>8, <3>1, NewMessage DEF Incoming
  <2> QED BY <1>8, <2>e DEF Incoming, MarkConversationRead, link, Messaging, Extended
<1>9. ASSUME NEW p \in Peers, Echo(p) PROVE Messaging'
  <2>e. Extended(p)
    <3>1. p \in Chats
      BY DEF Chats
    <3> QED BY <1>9, <3>1, NewMessage DEF Echo
  <2> QED BY <1>9, <2>e DEF Echo, link, session, Messaging, Extended
<1>10. ASSUME NEW p \in Peers, DeleteConversation(p) PROVE Messaging'
  BY <1>10 DEF DeleteConversation, link, tables, session, wire, Messaging
<1>11. ASSUME NEW g \in GroupIds, WriteToGroup(g) PROVE Messaging'
  <2>e. Extended(g)
    <3>1. g \in Chats
      BY DEF Chats
    <3> QED BY <1>11, <3>1, NewMessage DEF WriteToGroup
  <2> QED BY <1>11, <2>e DEF WriteToGroup, link, session, Messaging, Extended
<1>12. ASSUME NEW g \in GroupIds, GroupIncoming(g) PROVE Messaging'
  <2>e. Extended(g)
    <3>1. g \in Chats
      BY DEF Chats
    <3> QED BY <1>12, <3>1, NewMessage DEF GroupIncoming
  <2> QED BY <1>12, <2>e DEF GroupIncoming, MarkConversationRead, link, Messaging, Extended
<1>13. ASSUME NEW g \in GroupIds, GroupInfo(g) PROVE Messaging'
  BY <1>13 DEF GroupInfo, link, session, wire, Messaging
<1>14. ASSUME NEW g \in GroupIds, GroupLeft(g) PROVE Messaging'
  BY <1>14 DEF GroupLeft, link, tables, session, wire, Messaging
<1>15. ASSUME NEW i \in DOMAIN made, Delivered(i) PROVE Messaging'
  BY <1>15 DEF Delivered, link, session, Messaging
<1>16. ASSUME NEW i \in DOMAIN made, GroupDelivered(i) PROVE Messaging'
  BY <1>16 DEF GroupDelivered, link, session, Messaging
<1>17. ASSUME NEW i \in DOMAIN made, Seen(i) PROVE Messaging'
  BY <1>17 DEF Seen, link, session, Messaging
<1>18. CASE UNCHANGED vars
  BY <1>18 DEF vars, link, tables, screen, session, wire, Messaging
<1> QED
  BY <1>1, <1>2, <1>3, <1>4, <1>5, <1>6, <1>7, <1>8, <1>9, <1>10, <1>11, <1>12, <1>13, <1>14,
     <1>15, <1>16, <1>17, <1>18 DEF Next

\* A status is one of four.
LEMMA CopiesStep ==
    ASSUME Messaging, Copies, [Next]_vars
    PROVE  Copies'
<1>1. CASE Login
  BY <1>1, MadeIds DEF Login, tables, session, wire, Copies, Statuses, Nothing
<1>2. CASE Logout
  BY <1>2, MadeIds DEF Logout, ClearModels, ClearAll, tables, wire, Copies, Statuses, Nothing
<1>3. CASE Disconnect
  BY <1>3, MadeIds DEF Disconnect, ClearModels, ClearAll, tables, session, Copies, Statuses,
     Nothing
<1>4. CASE Restart
  BY <1>4, MadeIds DEF Restart, ClearModels, ClearAll, tables, Copies, Statuses, Nothing
<1>5. ASSUME NEW c \in Chats, Open(c) PROVE Copies'
  BY <1>5, MadeIds DEF Open, link, Copies, Statuses, Nothing
<1>6. ASSUME NEW p \in Peers, WriteToPeer(p) PROVE Copies'
  <2>e. Extended(p)
    <3>1. p \in Chats
      BY DEF Chats
    <3> QED BY <1>6, <3>1, NewMessage DEF WriteToPeer
  <2> QED
    BY <1>6, MadeIds, <2>e DEF WriteToPeer, AppendAndCache, Persist, link, Copies, Statuses,
       Nothing, Extended
<1>7. ASSUME NEW p \in Peers, PeerKeyArrives(p) PROVE Copies'
  BY <1>7, MadeIds DEF PeerKeyArrives, Persist, link, screen, Copies, Statuses, Nothing
<1>8. ASSUME NEW p \in Peers, Incoming(p) PROVE Copies'
  <2>e. Extended(p)
    <3>1. p \in Chats
      BY DEF Chats
    <3> QED BY <1>8, <3>1, NewMessage DEF Incoming
  <2> QED
    BY <1>8, MadeIds, <2>e DEF Incoming, AppendAndCache, Persist, link, Copies, Statuses,
       Nothing, Extended
<1>9. ASSUME NEW p \in Peers, Echo(p) PROVE Copies'
  <2>e. Extended(p)
    <3>1. p \in Chats
      BY DEF Chats
    <3> QED BY <1>9, <3>1, NewMessage DEF Echo
  <2> QED
    BY <1>9, MadeIds, <2>e DEF Echo, AppendAndCache, Persist, link, session, Copies, Statuses,
       Nothing, Extended
<1>10. ASSUME NEW p \in Peers, DeleteConversation(p) PROVE Copies'
  BY <1>10, MadeIds DEF DeleteConversation, DeleteRows, ClearAll, link, tables, session, wire,
     Copies, Statuses, Nothing
<1>11. ASSUME NEW g \in GroupIds, WriteToGroup(g) PROVE Copies'
  <2>e. Extended(g)
    <3>1. g \in Chats
      BY DEF Chats
    <3> QED BY <1>11, <3>1, NewMessage DEF WriteToGroup
  <2> QED
    BY <1>11, MadeIds, <2>e DEF WriteToGroup, AppendAndCache, Persist, link, session, Copies,
       Statuses, Nothing, Extended
<1>12. ASSUME NEW g \in GroupIds, GroupIncoming(g) PROVE Copies'
  <2>e. Extended(g)
    <3>1. g \in Chats
      BY DEF Chats
    <3> QED BY <1>12, <3>1, NewMessage DEF GroupIncoming
  <2> QED
    BY <1>12, MadeIds, <2>e DEF GroupIncoming, AppendAndCache, Persist, link, Copies, Statuses,
       Nothing, Extended
<1>13. ASSUME NEW g \in GroupIds, GroupInfo(g) PROVE Copies'
  BY <1>13, MadeIds DEF GroupInfo, link, session, wire, Copies, Statuses, Nothing
<1>14. ASSUME NEW g \in GroupIds, GroupLeft(g) PROVE Copies'
  BY <1>14, MadeIds DEF GroupLeft, DeleteRows, link, tables, session, wire, Copies, Statuses,
     Nothing
<1>15. ASSUME NEW i \in DOMAIN made, Delivered(i) PROVE Copies'
  BY <1>15, MadeIds DEF Delivered, UpdateStatus, link, session, Copies, Statuses, Nothing
<1>16. ASSUME NEW i \in DOMAIN made, GroupDelivered(i) PROVE Copies'
  BY <1>16, MadeIds DEF GroupDelivered, UpdateStatus, link, session, Copies, Statuses, Nothing
<1>17. ASSUME NEW i \in DOMAIN made, Seen(i) PROVE Copies'
  BY <1>17, MadeIds DEF Seen, UpdateStatus, link, session, Copies, Statuses, Nothing
<1>18. CASE UNCHANGED vars
  BY <1>18 DEF vars, link, tables, screen, session, wire, Copies, Statuses, Nothing
<1> QED
  BY <1>1, <1>2, <1>3, <1>4, <1>5, <1>6, <1>7, <1>8, <1>9, <1>10, <1>11, <1>12, <1>13, <1>14,
     <1>15, <1>16, <1>17, <1>18 DEF Next

\* What Persist does to the rows.
Recorded(c) ==
    /\ rows' \subseteq Chats /\ IsFiniteSet(rows')
    /\ rows \subseteq rows' /\ rows' \subseteq rows \cup {c}

\* At most the row of the conversation is new.
LEMMA PersistRows ==
    ASSUME Tables, NEW c \in Chats, NEW S, \A i \in S : made'[i].chat = c, Persist(S)
    PROVE  /\ Recorded(c)
           /\ db /\ S # {} /\ c \in Peers => c \in rows'
<1>1. rows' = rows \/ rows' = rows \cup {c}
  <2>1. CASE c \in Peers
    BY <2>1 DEF Persist
  <2>2. CASE c \notin Peers
    BY <2>2 DEF Persist
  <2> QED BY <2>1, <2>2
<1>2. IsFiniteSet(rows \cup {c})
  BY FS_AddElement DEF Tables
<1>3. ASSUME db, S # {}, c \in Peers PROVE c \in rows'
  BY <1>3 DEF Persist
<1> QED BY <1>1, <1>2, <1>3 DEF Tables, Recorded

\* There are finitely many rows, each of a conversation.
LEMMA TablesStep ==
    ASSUME Messaging, Tables, [Next]_vars
    PROVE  Tables'
<1>1. CASE Login
  BY <1>1 DEF Login, tables, session, wire, Tables
<1>2. CASE Logout
  BY <1>2 DEF Logout, ClearModels, ClearAll, tables, wire, Tables
<1>3. CASE Disconnect
  BY <1>3 DEF Disconnect, ClearModels, ClearAll, tables, session, Tables
<1>4. CASE Restart
  BY <1>4 DEF Restart, ClearModels, ClearAll, tables, Tables
<1>5. ASSUME NEW c \in Chats, Open(c) PROVE Tables'
  BY <1>5 DEF Open, markRead, link, Tables
<1>6. ASSUME NEW p \in Peers, WriteToPeer(p) PROVE Tables'
  <2>e. Extended(p)
    <3>1. p \in Chats
      BY DEF Chats
    <3> QED BY <1>6, <3>1, NewMessage DEF WriteToPeer
  <2>r. rows' = rows \/ Recorded(p)
    <3>1. CASE p \in known
      <4>1. p \in Chats
        BY DEF Chats
      <4>2. Persist({Newest}) /\ \A i \in {Newest} : made'[i].chat = p
        BY <1>6, <3>1, <2>e DEF WriteToPeer, Extended
      <4> QED BY <4>1, <4>2, PersistRows
    <3>2. CASE p \notin known
      BY <1>6, <3>2 DEF WriteToPeer
    <3> QED BY <3>1, <3>2
  <2> QED BY <1>6, <2>r DEF WriteToPeer, link, Tables, Recorded
<1>7. ASSUME NEW p \in Peers, PeerKeyArrives(p) PROVE Tables'
  <2>1. p \in Chats
    BY DEF Chats
  <2>2. \A i \in waiting \cap Of(p) : made'[i].chat = p
    BY <1>7 DEF PeerKeyArrives, Of
  <2>r. Recorded(p)
    BY <1>7, <2>1, <2>2, PersistRows DEF PeerKeyArrives
  <2> QED BY <1>7, <2>r DEF PeerKeyArrives, link, screen, Tables, Recorded
<1>8. ASSUME NEW p \in Peers, Incoming(p) PROVE Tables'
  <2>e. Extended(p)
    <3>1. p \in Chats
      BY DEF Chats
    <3> QED BY <1>8, <3>1, NewMessage DEF Incoming
  <2>r. Recorded(p)
    <3>1. p \in Chats
      BY DEF Chats
    <3>2. Persist({Newest}) /\ \A i \in {Newest} : made'[i].chat = p
      BY <1>8, <2>e DEF Incoming, Extended
    <3> QED BY <3>1, <3>2, PersistRows
  <2> QED BY <1>8, <2>r DEF Incoming, link, Tables, Recorded, Chats
<1>9. ASSUME NEW p \in Peers, Echo(p) PROVE Tables'
  <2>e. Extended(p)
    <3>1. p \in Chats
      BY DEF Chats
    <3> QED BY <1>9, <3>1, NewMessage DEF Echo
  <2>r. Recorded(p)
    <3>1. p \in Chats
      BY DEF Chats
    <3>2. Persist({Newest}) /\ \A i \in {Newest} : made'[i].chat = p
      BY <1>9, <2>e DEF Echo, Extended
    <3> QED BY <3>1, <3>2, PersistRows
  <2> QED BY <1>9, <2>r DEF Echo, link, session, Tables, Recorded, Chats
<1>10. ASSUME NEW p \in Peers, DeleteConversation(p) PROVE Tables'
  <2>1. IsFiniteSet(rows \ {p})
    BY FS_RemoveElement DEF Tables
  <2>2. rows' = rows \/ rows' = rows \ {p}
    BY <1>10 DEF DeleteConversation, DeleteRows, tables
  <2>3. count' = count \/ count' = [count EXCEPT ![p] = 0]
    BY <1>10 DEF DeleteConversation, DeleteRows, tables
  <2>4. view' \in Chats \cup {NoChat} /\ active' \in Chats \cup {NoChat}
    BY <1>10 DEF DeleteConversation, ClearAll, Tables
  <2> QED BY <2>1, <2>2, <2>3, <2>4 DEF Tables, Chats
<1>11. ASSUME NEW g \in GroupIds, WriteToGroup(g) PROVE Tables'
  <2>e. Extended(g)
    <3>1. g \in Chats
      BY DEF Chats
    <3> QED BY <1>11, <3>1, NewMessage DEF WriteToGroup
  <2>r. Recorded(g)
    <3>1. g \in Chats
      BY DEF Chats
    <3>2. Persist({Newest}) /\ \A i \in {Newest} : made'[i].chat = g
      BY <1>11, <2>e DEF WriteToGroup, Extended
    <3> QED BY <3>1, <3>2, PersistRows
  <2> QED BY <1>11, <2>r DEF WriteToGroup, link, session, Tables, Recorded, Chats
<1>12. ASSUME NEW g \in GroupIds, GroupIncoming(g) PROVE Tables'
  <2>e. Extended(g)
    <3>1. g \in Chats
      BY DEF Chats
    <3> QED BY <1>12, <3>1, NewMessage DEF GroupIncoming
  <2>r. Recorded(g)
    <3>1. g \in Chats
      BY DEF Chats
    <3>2. Persist({Newest}) /\ \A i \in {Newest} : made'[i].chat = g
      BY <1>12, <2>e DEF GroupIncoming, Extended
    <3> QED BY <3>1, <3>2, PersistRows
  <2> QED BY <1>12, <2>r DEF GroupIncoming, increment, link, Tables, Recorded, Chats
<1>13. ASSUME NEW g \in GroupIds, GroupInfo(g) PROVE Tables'
  <2>1. IsFiniteSet(rows \cup {g})
    BY FS_AddElement DEF Tables
  <2> QED BY <1>13, <2>1 DEF GroupInfo, link, session, wire, Tables, Chats
<1>14. ASSUME NEW g \in GroupIds, GroupLeft(g) PROVE Tables'
  <2>1. IsFiniteSet(rows \ {g})
    BY FS_RemoveElement DEF Tables
  <2>2. rows' = rows \/ rows' = rows \ {g}
    BY <1>14 DEF GroupLeft, DeleteRows, tables
  <2>3. count' = count \/ count' = [count EXCEPT ![g] = 0]
    BY <1>14 DEF GroupLeft, DeleteRows, tables
  <2>4. view' \in Chats \cup {NoChat} /\ active' \in Chats \cup {NoChat}
    BY <1>14 DEF GroupLeft, Tables
  <2> QED BY <2>1, <2>2, <2>3, <2>4 DEF Tables, Chats
<1>15. ASSUME NEW i \in DOMAIN made, Delivered(i) PROVE Tables'
  BY <1>15 DEF Delivered, link, session, Tables
<1>16. ASSUME NEW i \in DOMAIN made, GroupDelivered(i) PROVE Tables'
  BY <1>16 DEF GroupDelivered, link, session, Tables
<1>17. ASSUME NEW i \in DOMAIN made, Seen(i) PROVE Tables'
  BY <1>17 DEF Seen, link, session, Tables
<1>18. CASE UNCHANGED vars
  BY <1>18 DEF vars, link, tables, screen, session, wire, Tables
<1> QED
  BY <1>1, <1>2, <1>3, <1>4, <1>5, <1>6, <1>7, <1>8, <1>9, <1>10, <1>11, <1>12, <1>13, <1>14,
     <1>15, <1>16, <1>17, <1>18 DEF Next

\* What every action does to the list.
ListEffect ==
    \/ list' = list
    \/ list' = <<>>
    \/ Load
    \/ \E c : list' = setUnreadCount(list, c, 0)
    \/ \E c : list' = removeEntry(list, c)
    \/ \E p \in Peers, inc \in {0, 1} : list' = addOrUpdate(list, p, inc)
    \/ \E g \in GroupIds, inc \in {0, 1} : \E n \in {Title[g], NoChat} :
        list' = addOrUpdateGroup(list, g, n, inc)

\* Seven ways to change the list.
LEMMA ListStep ==
    ASSUME TRUE, [Next]_vars
    PROVE  ListEffect
<1>1. CASE Login
  BY <1>1 DEF Login, tables, session, wire, ListEffect
<1>2. CASE Logout
  BY <1>2 DEF Logout, ClearModels, tables, wire, ListEffect
<1>3. CASE Disconnect
  BY <1>3 DEF Disconnect, ClearModels, tables, session, ListEffect
<1>4. CASE Restart
  BY <1>4 DEF Restart, ClearModels, tables, ListEffect
<1>5. ASSUME NEW c \in Chats, Open(c) PROVE ListEffect
  BY <1>5 DEF Open, markRead, link, ListEffect
<1>6. ASSUME NEW p \in Peers, WriteToPeer(p) PROVE ListEffect
  BY <1>6 DEF WriteToPeer, link, ListEffect
<1>7. ASSUME NEW p \in Peers, PeerKeyArrives(p) PROVE ListEffect
  BY <1>7 DEF PeerKeyArrives, link, screen, ListEffect
<1>8. ASSUME NEW p \in Peers, Incoming(p) PROVE ListEffect
  BY <1>8 DEF Incoming, link, ListEffect
<1>9. ASSUME NEW p \in Peers, Echo(p) PROVE ListEffect
  BY <1>9 DEF Echo, link, session, ListEffect
<1>10. ASSUME NEW p \in Peers, DeleteConversation(p) PROVE ListEffect
  BY <1>10 DEF DeleteConversation, link, tables, session, wire, ListEffect
<1>11. ASSUME NEW g \in GroupIds, WriteToGroup(g) PROVE ListEffect
  BY <1>11 DEF WriteToGroup, link, session, ListEffect
<1>12. ASSUME NEW g \in GroupIds, GroupIncoming(g) PROVE ListEffect
  BY <1>12 DEF GroupIncoming, link, ListEffect
<1>13. ASSUME NEW g \in GroupIds, GroupInfo(g) PROVE ListEffect
  BY <1>13 DEF GroupInfo, link, session, wire, ListEffect
<1>14. ASSUME NEW g \in GroupIds, GroupLeft(g) PROVE ListEffect
  BY <1>14 DEF GroupLeft, link, tables, session, wire, ListEffect
<1>15. ASSUME NEW i \in DOMAIN made, Delivered(i) PROVE ListEffect
  BY <1>15 DEF Delivered, link, session, ListEffect
<1>16. ASSUME NEW i \in DOMAIN made, GroupDelivered(i) PROVE ListEffect
  BY <1>16 DEF GroupDelivered, link, session, ListEffect
<1>17. ASSUME NEW i \in DOMAIN made, Seen(i) PROVE ListEffect
  BY <1>17 DEF Seen, link, session, ListEffect
<1>18. CASE UNCHANGED vars
  BY <1>18 DEF vars, link, tables, screen, session, wire, ListEffect
<1> QED
  BY <1>1, <1>2, <1>3, <1>4, <1>5, <1>6, <1>7, <1>8, <1>9, <1>10, <1>11, <1>12, <1>13, <1>14,
     <1>15, <1>16, <1>17, <1>18 DEF Next

\* The list keeps one entry for a conversation.
LEMMA WellListedStep ==
    ASSUME WellListed(list), Tables, [Next]_vars
    PROVE  WellListed(list')
<1>1. ListEffect
  BY ListStep
<1>2. CASE list' = list
  BY <1>2
<1>3. CASE list' = <<>>
  BY <1>3 DEF WellListed
<1>4. CASE Load
  <2>1. PICK l : l = list
    OBVIOUS
  <2>2. PICK l2 : l2 = list'
    OBVIOUS
  <2> QED BY <1>4, <2>1, <2>2, LoadedList DEF Tables
<1>5. ASSUME NEW c, list' = setUnreadCount(list, c, 0) PROVE WellListed(list')
  BY <1>5, SetBadge
<1>6. ASSUME NEW c, list' = removeEntry(list, c) PROVE WellListed(list')
  BY <1>6, RemoveOne
<1>7. ASSUME NEW p \in Peers, NEW inc \in {0, 1}, list' = addOrUpdate(list, p, inc)
      PROVE  WellListed(list')
  <2>1. inc \in Nat
    OBVIOUS
  <2>2. Added(list, list', p, inc)
    BY <1>7, <2>1, AddPeer
  <2> QED BY <2>2 DEF Added
<1>8. ASSUME NEW g \in GroupIds, NEW inc \in {0, 1}, NEW n \in {Title[g], NoChat},
             list' = addOrUpdateGroup(list, g, n, inc)
      PROVE  WellListed(list')
  <2>1. inc \in Nat
    OBVIOUS
  <2>2. AddedTo(list, list', g, inc)
    BY <1>8, <2>1, AddGroup
  <2> QED BY <2>2 DEF Added, AddedTo
<1> QED BY <1>1, <1>2, <1>3, <1>4, <1>5, <1>6, <1>7, <1>8 DEF ListEffect

\* No more is counted than was written.
LEMMA CountedStep ==
    ASSUME WellListed(list), WellListed(list'), Messaging, Tables, Counted, [Next]_vars
    PROVE  Counted'
<1>f. /\ Len(made) \in Nat
      /\ \A c \in Chats : count[c] \in Nat
      /\ \A k \in DOMAIN list : list[k].badge \in Nat /\ list[k].chat \in Chats
  BY EntryFields DEF Messaging, Tables, WellListed
<1>g. \A k \in DOMAIN list' : list'[k].badge \in Nat /\ list'[k].chat \in Chats
  <2>1. PICK l \in Seq(Entries) : l = list'
    BY DEF WellListed
  <2> QED BY <2>1, EntryFields
<1>1. CASE Login
  <2>1. made' = made /\ count' = count
    BY <1>1 DEF Login, tables, wire
  <2>2. PICK l : l = list
    OBVIOUS
  <2>3. PICK l2 : l2 = list'
    OBVIOUS
  <2>4. \A k \in DOMAIN l2 : \/ l2[k].badge = count[l2[k].chat]
                             \/ l2[k].chat \notin rows /\ \E m \in DOMAIN l : l2[k] = l[m]
    BY <1>1, <2>2, <2>3, LoadedList DEF Login, Tables
  <2>5. \A k \in DOMAIN l2 : l2[k].chat \in Chats
    BY <1>g, <2>3
  <2>6. \A k \in DOMAIN l2 : l2[k].badge <= Len(made)
    BY <2>2, <2>4, <2>5 DEF Counted
  <2> QED BY <2>1, <2>3, <2>6 DEF Counted
<1>2. CASE Logout
  BY <1>2, <1>f DEF Logout, ClearModels, tables, wire, Counted
<1>3. CASE Disconnect
  BY <1>3, <1>f DEF Disconnect, ClearModels, tables, session, Counted
<1>4. CASE Restart
  BY <1>4, <1>f DEF Restart, ClearModels, tables, Counted
<1>5. ASSUME NEW c \in Chats, Open(c) PROVE Counted'
  <2>1. /\ made' = made
        /\ \A d \in Chats : count'[d] \in {count[d], 0}
    BY <1>5 DEF Open, markRead, Tables
  <2>2. \A k \in DOMAIN list' : list'[k].badge <= Len(made)
    <3>1. /\ DOMAIN list' = DOMAIN list
          /\ \A k \in DOMAIN list :
                list'[k].badge = IF list[k].chat = c THEN 0 ELSE list[k].badge
      BY <1>5, SetBadge DEF Open, markRead
    <3> QED BY <1>f, <3>1 DEF Counted
  <2> QED BY <1>f, <2>1, <2>2 DEF Counted
<1>6. ASSUME NEW p \in Peers, WriteToPeer(p) PROVE Counted'
  <2>e. Extended(p)
    <3>1. p \in Chats
      BY DEF Chats
    <3> QED BY <1>6, <3>1, NewMessage DEF WriteToPeer
  <2>a. Added(list, list', p, 0)
    BY <1>6, AddPeer DEF WriteToPeer
  <2>c. count' = count
    BY <1>6 DEF WriteToPeer
  <2>1. \A c \in Chats : count'[c] <= Len(made')
    BY <1>f, <2>e, <2>c DEF Extended, Counted
  <2>2. \A k \in DOMAIN list' : list'[k].badge <= Len(made')
    BY <1>f, <2>e, <2>a DEF Extended, Counted, Added
  <2> QED BY <2>1, <2>2 DEF Counted
<1>7. ASSUME NEW p \in Peers, PeerKeyArrives(p) PROVE Counted'
  BY <1>7, <1>f DEF PeerKeyArrives, link, screen, Counted
<1>8. ASSUME NEW p \in Peers, Incoming(p) PROVE Counted'
  <2>e. Extended(p)
    <3>1. p \in Chats
      BY DEF Chats
    <3> QED BY <1>8, <3>1, NewMessage DEF Incoming
  <2>i. PICK inc \in {0, 1} : inc = IF p = active THEN 0 ELSE 1
    OBVIOUS
  <2>n. inc \in Nat /\ inc <= 1
    OBVIOUS
  <2>a. Added(list, list', p, inc)
    BY <1>8, <2>i, <2>n, AddPeer DEF Incoming
  <2>c. \A c \in Chats : count'[c] \in {count[c], count[c] + inc}
    BY <1>8, <2>i, <2>n DEF Incoming, Tables
  <2>1. \A c \in Chats : count'[c] <= Len(made')
    BY <1>f, <2>e, <2>c, <2>n DEF Extended, Counted
  <2>2. \A k \in DOMAIN list' : list'[k].badge <= Len(made')
    BY <1>f, <2>e, <2>a, <2>n DEF Extended, Counted, Added
  <2> QED BY <2>1, <2>2 DEF Counted
<1>9. ASSUME NEW p \in Peers, Echo(p) PROVE Counted'
  <2>e. Extended(p)
    <3>1. p \in Chats
      BY DEF Chats
    <3> QED BY <1>9, <3>1, NewMessage DEF Echo
  <2>a. Added(list, list', p, 0)
    BY <1>9, AddPeer DEF Echo
  <2>c. count' = count
    BY <1>9 DEF Echo
  <2>1. \A c \in Chats : count'[c] <= Len(made')
    BY <1>f, <2>e, <2>c DEF Extended, Counted
  <2>2. \A k \in DOMAIN list' : list'[k].badge <= Len(made')
    BY <1>f, <2>e, <2>a DEF Extended, Counted, Added
  <2> QED BY <2>1, <2>2 DEF Counted
<1>10. ASSUME NEW p \in Peers, DeleteConversation(p) PROVE Counted'
  <2>1. /\ made' = made
        /\ \A d \in Chats : count'[d] \in {count[d], 0}
    BY <1>10 DEF DeleteConversation, DeleteRows, tables, wire, Tables
  <2>2. \A k \in DOMAIN list' : \E m \in DOMAIN list : list'[k] = list[m]
    BY <1>10, RemoveOne DEF DeleteConversation
  <2> QED BY <1>f, <2>1, <2>2 DEF Counted
<1>11. ASSUME NEW g \in GroupIds, WriteToGroup(g) PROVE Counted'
  <2>e. Extended(g)
    <3>1. g \in Chats
      BY DEF Chats
    <3> QED BY <1>11, <3>1, NewMessage DEF WriteToGroup
  <2>a. Added(list, list', g, 0)
    BY <1>11, AddGroup DEF WriteToGroup, AddedTo
  <2>c. count' = count
    BY <1>11 DEF WriteToGroup
  <2>1. \A c \in Chats : count'[c] <= Len(made')
    BY <1>f, <2>e, <2>c DEF Extended, Counted
  <2>2. \A k \in DOMAIN list' : list'[k].badge <= Len(made')
    BY <1>f, <2>e, <2>a DEF Extended, Counted, Added
  <2> QED BY <2>1, <2>2 DEF Counted
<1>12. ASSUME NEW g \in GroupIds, GroupIncoming(g) PROVE Counted'
  <2>e. Extended(g)
    <3>1. g \in Chats
      BY DEF Chats
    <3> QED BY <1>12, <3>1, NewMessage DEF GroupIncoming
  <2>i. PICK inc \in {0, 1} : inc = IF g = active THEN 0 ELSE 1
    OBVIOUS
  <2>n. inc \in Nat /\ inc <= 1
    OBVIOUS
  <2>a. Added(list, list', g, inc)
    BY <1>12, <2>i, <2>n, AddGroup DEF GroupIncoming, AddedTo
  <2>c. \A c \in Chats : count'[c] \in {count[c], count[c] + inc}
    BY <1>12, <2>i, <2>n DEF GroupIncoming, Tables, increment
  <2>1. \A c \in Chats : count'[c] <= Len(made')
    BY <1>f, <2>e, <2>c, <2>n DEF Extended, Counted
  <2>2. \A k \in DOMAIN list' : list'[k].badge <= Len(made')
    BY <1>f, <2>e, <2>a, <2>n DEF Extended, Counted, Added
  <2> QED BY <2>1, <2>2 DEF Counted
<1>13. ASSUME NEW g \in GroupIds, GroupInfo(g) PROVE Counted'
  <2>1. made' = made /\ count' = count
    BY <1>13 DEF GroupInfo, wire
  <2>2. Added(list, list', g, 0)
    BY <1>13, AddGroup DEF GroupInfo, AddedTo
  <2> QED BY <1>f, <2>1, <2>2 DEF Counted, Added
<1>14. ASSUME NEW g \in GroupIds, GroupLeft(g) PROVE Counted'
  <2>1. /\ made' = made
        /\ \A d \in Chats : count'[d] \in {count[d], 0}
    BY <1>14 DEF GroupLeft, DeleteRows, tables, wire, Tables
  <2>2. \A k \in DOMAIN list' : \E m \in DOMAIN list : list'[k] = list[m]
    BY <1>14, RemoveOne DEF GroupLeft
  <2> QED BY <1>f, <2>1, <2>2 DEF Counted
<1>15. ASSUME NEW i \in DOMAIN made, Delivered(i) PROVE Counted'
  BY <1>15, <1>f DEF Delivered, link, session, Counted
<1>16. ASSUME NEW i \in DOMAIN made, GroupDelivered(i) PROVE Counted'
  BY <1>16, <1>f DEF GroupDelivered, link, session, Counted
<1>17. ASSUME NEW i \in DOMAIN made, Seen(i) PROVE Counted'
  BY <1>17, <1>f DEF Seen, link, session, Counted
<1>18. CASE UNCHANGED vars
  BY <1>18 DEF vars, link, tables, screen, session, wire, Counted
<1> QED
  BY <1>1, <1>2, <1>3, <1>4, <1>5, <1>6, <1>7, <1>8, <1>9, <1>10, <1>11, <1>12, <1>13, <1>14,
     <1>15, <1>16, <1>17, <1>18 DEF Next

\* At the start there is nothing.
LEMMA TypedInit ==
    Init => Typed
<1> SUFFICES ASSUME Init PROVE Typed
  OBVIOUS
<1>1. Flags
  BY DEF Init, Flags
<1>2. Copies
  BY DEF Init, Copies, Nothing, Statuses
<1>3. Messaging
  BY ClientViewConstants DEF Init, Messaging
<1>4. Tables
  BY FS_EmptySet DEF Init, Tables
<1>5. WellListed(list)
  BY DEF Init, WellListed
<1>6. Counted
  BY DEF Init, Counted
<1> QED BY <1>1, <1>2, <1>3, <1>4, <1>5, <1>6 DEF Typed, Shapes

\* The types stay.
LEMMA TypedStep ==
    ASSUME Typed, [Next]_vars
    PROVE  Typed'
<1>1. Flags /\ Copies /\ Messaging /\ Tables /\ WellListed(list) /\ Counted
  BY DEF Typed, Shapes
<1>2. Flags'
  BY <1>1, FlagsStep
<1>3. Copies'
  BY <1>1, CopiesStep
<1>4. Messaging'
  BY <1>1, MessagingStep
<1>5. Tables'
  BY <1>1, TablesStep
<1>6. WellListed(list')
  BY <1>1, WellListedStep
<1>7. Counted'
  BY <1>1, <1>6, CountedStep
<1> QED BY <1>2, <1>3, <1>4, <1>5, <1>6, <1>7 DEF Typed, Shapes

\* Models and tables have their types always.
LEMMA TypedAlways ==
    Spec => []Typed
<1> QED BY TypedInit, TypedStep, PTL DEF Spec

\* They imply the invariant of the runs.
LEMMA TypedTypeOK ==
    Typed => TypeOK
<1> SUFFICES ASSUME Typed PROVE TypeOK
  OBVIOUS
<1>1. Flags /\ Copies /\ Messaging /\ Tables /\ WellListed(list) /\ Counted
  BY DEF Typed, Shapes
<1>2. MaxMsgs \in Nat /\ Len(made) \in Nat /\ Len(made) <= MaxMsgs
  BY <1>1, ClientViewConstants DEF Messaging
<1>3. {up, me, db} \subseteq BOOLEAN /\ (me => up /\ db)
  BY <1>1 DEF Flags
<1>4. \A f \in {stored, cached, shown} : f \in [Ids -> Statuses]
  BY <1>1 DEF Copies
<1>5. count \in [Chats -> 0..MaxMsgs]
  <2>1. count \in [Chats -> Nat] /\ \A c \in Chats : count[c] \in 0..MaxMsgs
    BY <1>1, <1>2 DEF Tables, Counted
  <2> QED BY <2>1
<1>6. \A k \in DOMAIN list : list[k].badge \in 0..MaxMsgs
  <2>1. \A k \in DOMAIN list : list[k].badge \in Nat
    BY <1>1, EntryFields DEF WellListed
  <2> QED BY <1>1, <1>2, <2>1 DEF Counted
<1>7. \A k, m \in DOMAIN list : list[k].chat = list[m].chat => k = m
  BY <1>1 DEF WellListed
<1>8. rows \subseteq Chats /\ {view, active} \subseteq Chats \cup {NoChat}
  BY <1>1 DEF Tables
<1>9. waiting \cup unread \cup toAck \cup toSee \subseteq DOMAIN made
  BY <1>1 DEF Messaging
<1> QED BY <1>3, <1>4, <1>5, <1>6, <1>7, <1>8, <1>9 DEF TypeOK

(***************************************************************************)
(* The models, the tables and the members of NetworkManager keep their     *)
(* types, whatever is clicked and whatever arrives; no conversation gets a *)
(* second entry, and no counter exceeds the number of messages.            *)
(***************************************************************************)
THEOREM ViewTypes == Spec => []TypeOK
<1> QED BY TypedAlways, TypedTypeOK, PTL

-----------------------------------------------------------------------------
(***************************************************************************)
(* The open conversation.                                                  *)
(***************************************************************************)
\* Only a client with an account opens a conversation.
LEMMA IdleStep ==
    ASSUME Flags, Idle, [Next]_vars
    PROVE  Idle'
<1>1. CASE Login
  BY <1>1 DEF Login, tables, session, wire, Idle, Flags
<1>2. CASE Logout
  BY <1>2 DEF Logout, ClearModels, ClearAll, tables, wire, Idle, Flags
<1>3. CASE Disconnect
  BY <1>3 DEF Disconnect, ClearModels, ClearAll, tables, session, Idle, Flags
<1>4. CASE Restart
  BY <1>4 DEF Restart, ClearModels, ClearAll, tables, Idle, Flags
<1>5. ASSUME NEW c \in Chats, Open(c) PROVE Idle'
  BY <1>5 DEF Open, link, Idle, Flags
<1>6. ASSUME NEW p \in Peers, WriteToPeer(p) PROVE Idle'
  BY <1>6 DEF WriteToPeer, link, Idle, Flags
<1>7. ASSUME NEW p \in Peers, PeerKeyArrives(p) PROVE Idle'
  BY <1>7 DEF PeerKeyArrives, link, screen, Idle, Flags
<1>8. ASSUME NEW p \in Peers, Incoming(p) PROVE Idle'
  BY <1>8 DEF Incoming, link, Idle, Flags
<1>9. ASSUME NEW p \in Peers, Echo(p) PROVE Idle'
  BY <1>9 DEF Echo, link, session, Idle, Flags
<1>10. ASSUME NEW p \in Peers, DeleteConversation(p) PROVE Idle'
  BY <1>10 DEF DeleteConversation, ClearAll, link, tables, session, wire, Idle, Flags
<1>11. ASSUME NEW g \in GroupIds, WriteToGroup(g) PROVE Idle'
  BY <1>11 DEF WriteToGroup, link, session, Idle, Flags
<1>12. ASSUME NEW g \in GroupIds, GroupIncoming(g) PROVE Idle'
  BY <1>12 DEF GroupIncoming, link, Idle, Flags
<1>13. ASSUME NEW g \in GroupIds, GroupInfo(g) PROVE Idle'
  BY <1>13 DEF GroupInfo, link, session, wire, Idle, Flags
<1>14. ASSUME NEW g \in GroupIds, GroupLeft(g) PROVE Idle'
  BY <1>14 DEF GroupLeft, link, tables, session, wire, Idle, Flags
<1>15. ASSUME NEW i \in DOMAIN made, Delivered(i) PROVE Idle'
  BY <1>15 DEF Delivered, link, session, Idle, Flags
<1>16. ASSUME NEW i \in DOMAIN made, GroupDelivered(i) PROVE Idle'
  BY <1>16 DEF GroupDelivered, link, session, Idle, Flags
<1>17. ASSUME NEW i \in DOMAIN made, Seen(i) PROVE Idle'
  BY <1>17 DEF Seen, link, session, Idle, Flags
<1>18. CASE UNCHANGED vars
  BY <1>18 DEF vars, link, tables, screen, session, wire, Idle, Flags
<1> QED
  BY <1>1, <1>2, <1>3, <1>4, <1>5, <1>6, <1>7, <1>8, <1>9, <1>10, <1>11, <1>12, <1>13, <1>14,
     <1>15, <1>16, <1>17, <1>18 DEF Next

\* Only messages are stored and shown.
LEMMA UnmadeStep ==
    ASSUME Messaging, Copies, Unmade, [Next]_vars
    PROVE  Unmade'
<1>1. CASE Login
  BY <1>1, MadeIds DEF Login, tables, session, wire, Unmade, Copies, Nothing, Of
<1>2. CASE Logout
  BY <1>2, MadeIds DEF Logout, ClearModels, ClearAll, tables, wire, Unmade, Copies, Nothing, Of
<1>3. CASE Disconnect
  BY <1>3, MadeIds DEF Disconnect, ClearModels, ClearAll, tables, session, Unmade, Copies,
     Nothing, Of
<1>4. CASE Restart
  BY <1>4, MadeIds DEF Restart, ClearModels, ClearAll, tables, Unmade, Copies, Nothing, Of
<1>5. ASSUME NEW c \in Chats, Open(c) PROVE Unmade'
  BY <1>5, MadeIds DEF Open, link, Unmade, Copies, Nothing, Of
<1>6. ASSUME NEW p \in Peers, WriteToPeer(p) PROVE Unmade'
  <2>e. Extended(p)
    <3>1. p \in Chats
      BY DEF Chats
    <3> QED BY <1>6, <3>1, NewMessage DEF WriteToPeer
  <2> QED
    BY <1>6, MadeIds, <2>e DEF WriteToPeer, AppendAndCache, Persist, link, Unmade, Copies,
       Nothing, Of, Extended
<1>7. ASSUME NEW p \in Peers, PeerKeyArrives(p) PROVE Unmade'
  BY <1>7, MadeIds DEF PeerKeyArrives, Persist, link, screen, Unmade, Copies, Nothing, Of
<1>8. ASSUME NEW p \in Peers, Incoming(p) PROVE Unmade'
  <2>e. Extended(p)
    <3>1. p \in Chats
      BY DEF Chats
    <3> QED BY <1>8, <3>1, NewMessage DEF Incoming
  <2> QED
    BY <1>8, MadeIds, <2>e DEF Incoming, AppendAndCache, Persist, link, Unmade, Copies, Nothing,
       Of, Extended
<1>9. ASSUME NEW p \in Peers, Echo(p) PROVE Unmade'
  <2>e. Extended(p)
    <3>1. p \in Chats
      BY DEF Chats
    <3> QED BY <1>9, <3>1, NewMessage DEF Echo
  <2> QED
    BY <1>9, MadeIds, <2>e DEF Echo, AppendAndCache, Persist, link, session, Unmade, Copies,
       Nothing, Of, Extended
<1>10. ASSUME NEW p \in Peers, DeleteConversation(p) PROVE Unmade'
  BY <1>10, MadeIds DEF DeleteConversation, DeleteRows, ClearAll, link, tables, session, wire,
     Unmade, Copies, Nothing, Of
<1>11. ASSUME NEW g \in GroupIds, WriteToGroup(g) PROVE Unmade'
  <2>e. Extended(g)
    <3>1. g \in Chats
      BY DEF Chats
    <3> QED BY <1>11, <3>1, NewMessage DEF WriteToGroup
  <2> QED
    BY <1>11, MadeIds, <2>e DEF WriteToGroup, AppendAndCache, Persist, link, session, Unmade,
       Copies, Nothing, Of, Extended
<1>12. ASSUME NEW g \in GroupIds, GroupIncoming(g) PROVE Unmade'
  <2>e. Extended(g)
    <3>1. g \in Chats
      BY DEF Chats
    <3> QED BY <1>12, <3>1, NewMessage DEF GroupIncoming
  <2> QED
    BY <1>12, MadeIds, <2>e DEF GroupIncoming, AppendAndCache, Persist, link, Unmade, Copies,
       Nothing, Of, Extended
<1>13. ASSUME NEW g \in GroupIds, GroupInfo(g) PROVE Unmade'
  BY <1>13, MadeIds DEF GroupInfo, link, session, wire, Unmade, Copies, Nothing, Of
<1>14. ASSUME NEW g \in GroupIds, GroupLeft(g) PROVE Unmade'
  BY <1>14, MadeIds DEF GroupLeft, DeleteRows, link, tables, session, wire, Unmade, Copies,
     Nothing, Of
<1>15. ASSUME NEW i \in DOMAIN made, Delivered(i) PROVE Unmade'
  BY <1>15, MadeIds DEF Delivered, UpdateStatus, link, session, Unmade, Copies, Nothing, Of
<1>16. ASSUME NEW i \in DOMAIN made, GroupDelivered(i) PROVE Unmade'
  BY <1>16, MadeIds DEF GroupDelivered, UpdateStatus, link, session, Unmade, Copies, Nothing, Of
<1>17. ASSUME NEW i \in DOMAIN made, Seen(i) PROVE Unmade'
  BY <1>17, MadeIds DEF Seen, UpdateStatus, link, session, Unmade, Copies, Nothing, Of
<1>18. CASE UNCHANGED vars
  BY <1>18 DEF vars, link, tables, screen, session, wire, Unmade, Copies, Nothing, Of
<1> QED
  BY <1>1, <1>2, <1>3, <1>4, <1>5, <1>6, <1>7, <1>8, <1>9, <1>10, <1>11, <1>12, <1>13, <1>14,
     <1>15, <1>16, <1>17, <1>18 DEF Next

\* The two copies of a message change together.
LEMMA OpenIsCachedStep ==
    ASSUME Messaging, Copies, Tables, Idle, Unmade, OpenIsCached, [Next]_vars
    PROVE  OpenIsCached'
<1>1. CASE Login
  BY <1>1, MadeIds, ClientViewConstants DEF Login, tables, session, wire, OpenIsCached, Copies,
     Nothing, Of, Idle, Tables, Chats
<1>2. CASE Logout
  BY <1>2, MadeIds, ClientViewConstants DEF Logout, ClearModels, ClearAll, tables, wire,
     OpenIsCached, Copies, Nothing, Of
<1>3. CASE Disconnect
  BY <1>3, MadeIds, ClientViewConstants DEF Disconnect, ClearModels, ClearAll, tables, session,
     OpenIsCached, Copies, Nothing, Of
<1>4. CASE Restart
  BY <1>4, MadeIds, ClientViewConstants DEF Restart, ClearModels, ClearAll, tables,
     OpenIsCached, Copies, Nothing, Of
<1>5. ASSUME NEW c \in Chats, Open(c) PROVE OpenIsCached'
  BY <1>5, MadeIds, ClientViewConstants DEF Open, link, OpenIsCached, Copies, Nothing, Of
<1>6. ASSUME NEW p \in Peers, WriteToPeer(p) PROVE OpenIsCached'
  <2>e. Extended(p)
    <3>1. p \in Chats
      BY DEF Chats
    <3> QED BY <1>6, <3>1, NewMessage DEF WriteToPeer
  <2> QED
    BY <1>6, MadeIds, ClientViewConstants, <2>e DEF WriteToPeer, AppendAndCache, link,
       OpenIsCached, Copies, Nothing, Of, Extended, Unmade
<1>7. ASSUME NEW p \in Peers, PeerKeyArrives(p) PROVE OpenIsCached'
  BY <1>7, MadeIds, ClientViewConstants DEF PeerKeyArrives, link, screen, OpenIsCached, Copies,
     Nothing, Of
<1>8. ASSUME NEW p \in Peers, Incoming(p) PROVE OpenIsCached'
  <2>e. Extended(p)
    <3>1. p \in Chats
      BY DEF Chats
    <3> QED BY <1>8, <3>1, NewMessage DEF Incoming
  <2> QED
    BY <1>8, MadeIds, ClientViewConstants, <2>e DEF Incoming, AppendAndCache, link,
       OpenIsCached, Copies, Nothing, Of, Extended, Unmade
<1>9. ASSUME NEW p \in Peers, Echo(p) PROVE OpenIsCached'
  <2>e. Extended(p)
    <3>1. p \in Chats
      BY DEF Chats
    <3> QED BY <1>9, <3>1, NewMessage DEF Echo
  <2> QED
    BY <1>9, MadeIds, ClientViewConstants, <2>e DEF Echo, AppendAndCache, link, session,
       OpenIsCached, Copies, Nothing, Of, Extended, Unmade
<1>10. ASSUME NEW p \in Peers, DeleteConversation(p) PROVE OpenIsCached'
  BY <1>10, MadeIds, ClientViewConstants DEF DeleteConversation, ClearAll, link, tables,
     session, wire, OpenIsCached, Copies, Nothing, Of
<1>11. ASSUME NEW g \in GroupIds, WriteToGroup(g) PROVE OpenIsCached'
  <2>e. Extended(g)
    <3>1. g \in Chats
      BY DEF Chats
    <3> QED BY <1>11, <3>1, NewMessage DEF WriteToGroup
  <2> QED
    BY <1>11, MadeIds, ClientViewConstants, <2>e DEF WriteToGroup, AppendAndCache, link,
       session, OpenIsCached, Copies, Nothing, Of, Extended, Unmade
<1>12. ASSUME NEW g \in GroupIds, GroupIncoming(g) PROVE OpenIsCached'
  <2>e. Extended(g)
    <3>1. g \in Chats
      BY DEF Chats
    <3> QED BY <1>12, <3>1, NewMessage DEF GroupIncoming
  <2> QED
    BY <1>12, MadeIds, ClientViewConstants, <2>e DEF GroupIncoming, AppendAndCache, link,
       OpenIsCached, Copies, Nothing, Of, Extended, Unmade
<1>13. ASSUME NEW g \in GroupIds, GroupInfo(g) PROVE OpenIsCached'
  BY <1>13, MadeIds, ClientViewConstants DEF GroupInfo, link, session, wire, OpenIsCached,
     Copies, Nothing, Of
<1>14. ASSUME NEW g \in GroupIds, GroupLeft(g) PROVE OpenIsCached'
  BY <1>14, MadeIds, ClientViewConstants DEF GroupLeft, link, tables, session, wire,
     OpenIsCached, Copies, Nothing, Of
<1>15. ASSUME NEW i \in DOMAIN made, Delivered(i) PROVE OpenIsCached'
  BY <1>15, MadeIds, ClientViewConstants DEF Delivered, UpdateStatus, link, session,
     OpenIsCached, Copies, Nothing, Of
<1>16. ASSUME NEW i \in DOMAIN made, GroupDelivered(i) PROVE OpenIsCached'
  BY <1>16, MadeIds, ClientViewConstants DEF GroupDelivered, UpdateStatus, link, session,
     OpenIsCached, Copies, Nothing, Of
<1>17. ASSUME NEW i \in DOMAIN made, Seen(i) PROVE OpenIsCached'
  BY <1>17, MadeIds, ClientViewConstants DEF Seen, UpdateStatus, link, session, OpenIsCached,
     Copies, Nothing, Of
<1>18. CASE UNCHANGED vars
  BY <1>18 DEF vars, link, tables, screen, session, wire, OpenIsCached, Copies, Nothing, Of
<1> QED
  BY <1>1, <1>2, <1>3, <1>4, <1>5, <1>6, <1>7, <1>8, <1>9, <1>10, <1>11, <1>12, <1>13, <1>14,
     <1>15, <1>16, <1>17, <1>18 DEF Next

-----------------------------------------------------------------------------
(***************************************************************************)
(* The statuses.                                                           *)
(***************************************************************************)
\* Without an account nothing is both cached and stored.
LEMMA ApartStep ==
    ASSUME Flags, Messaging, Copies, Idle, Unmade, Apart, [Next]_vars
    PROVE  Apart'
<1>1. CASE Login
  BY <1>1, MadeIds DEF Login, tables, session, wire, Apart, Copies, Nothing, Idle, Flags
<1>2. CASE Logout
  BY <1>2, MadeIds DEF Logout, ClearModels, ClearAll, tables, wire, Apart, Copies, Nothing,
     Idle, Flags
<1>3. CASE Disconnect
  BY <1>3, MadeIds DEF Disconnect, ClearModels, ClearAll, tables, session, Apart, Copies,
     Nothing, Idle, Flags
<1>4. CASE Restart
  BY <1>4, MadeIds DEF Restart, ClearModels, ClearAll, tables, Apart, Copies, Nothing, Idle,
     Flags
<1>5. ASSUME NEW c \in Chats, Open(c) PROVE Apart'
  BY <1>5, MadeIds DEF Open, link, Apart, Copies, Nothing, Idle, Flags
<1>6. ASSUME NEW p \in Peers, WriteToPeer(p) PROVE Apart'
  <2>e. Extended(p)
    <3>1. p \in Chats
      BY DEF Chats
    <3> QED BY <1>6, <3>1, NewMessage DEF WriteToPeer
  <2> QED
    BY <1>6, MadeIds, <2>e DEF WriteToPeer, AppendAndCache, Persist, link, Apart, Copies,
       Nothing, Idle, Flags, Extended, Unmade
<1>7. ASSUME NEW p \in Peers, PeerKeyArrives(p) PROVE Apart'
  BY <1>7, MadeIds DEF PeerKeyArrives, Persist, link, screen, Apart, Copies, Nothing, Idle,
     Flags
<1>8. ASSUME NEW p \in Peers, Incoming(p) PROVE Apart'
  <2>e. Extended(p)
    <3>1. p \in Chats
      BY DEF Chats
    <3> QED BY <1>8, <3>1, NewMessage DEF Incoming
  <2> QED
    BY <1>8, MadeIds, <2>e DEF Incoming, AppendAndCache, Persist, link, Apart, Copies, Nothing,
       Idle, Flags, Extended, Unmade
<1>9. ASSUME NEW p \in Peers, Echo(p) PROVE Apart'
  <2>e. Extended(p)
    <3>1. p \in Chats
      BY DEF Chats
    <3> QED BY <1>9, <3>1, NewMessage DEF Echo
  <2> QED
    BY <1>9, MadeIds, <2>e DEF Echo, AppendAndCache, Persist, link, session, Apart, Copies,
       Nothing, Idle, Flags, Extended, Unmade
<1>10. ASSUME NEW p \in Peers, DeleteConversation(p) PROVE Apart'
  BY <1>10, MadeIds DEF DeleteConversation, DeleteRows, ClearAll, link, tables, session, wire,
     Apart, Copies, Nothing, Idle, Flags
<1>11. ASSUME NEW g \in GroupIds, WriteToGroup(g) PROVE Apart'
  <2>e. Extended(g)
    <3>1. g \in Chats
      BY DEF Chats
    <3> QED BY <1>11, <3>1, NewMessage DEF WriteToGroup
  <2> QED
    BY <1>11, MadeIds, <2>e DEF WriteToGroup, AppendAndCache, Persist, link, session, Apart,
       Copies, Nothing, Idle, Flags, Extended, Unmade
<1>12. ASSUME NEW g \in GroupIds, GroupIncoming(g) PROVE Apart'
  <2>e. Extended(g)
    <3>1. g \in Chats
      BY DEF Chats
    <3> QED BY <1>12, <3>1, NewMessage DEF GroupIncoming
  <2> QED
    BY <1>12, MadeIds, <2>e DEF GroupIncoming, AppendAndCache, Persist, link, Apart, Copies,
       Nothing, Idle, Flags, Extended, Unmade
<1>13. ASSUME NEW g \in GroupIds, GroupInfo(g) PROVE Apart'
  BY <1>13, MadeIds DEF GroupInfo, link, session, wire, Apart, Copies, Nothing, Idle, Flags
<1>14. ASSUME NEW g \in GroupIds, GroupLeft(g) PROVE Apart'
  BY <1>14, MadeIds DEF GroupLeft, DeleteRows, link, tables, session, wire, Apart, Copies,
     Nothing, Idle, Flags
<1>15. ASSUME NEW i \in DOMAIN made, Delivered(i) PROVE Apart'
  BY <1>15, MadeIds DEF Delivered, UpdateStatus, link, session, Apart, Copies, Nothing, Idle,
     Flags
<1>16. ASSUME NEW i \in DOMAIN made, GroupDelivered(i) PROVE Apart'
  BY <1>16, MadeIds DEF GroupDelivered, UpdateStatus, link, session, Apart, Copies, Nothing,
     Idle, Flags
<1>17. ASSUME NEW i \in DOMAIN made, Seen(i) PROVE Apart'
  BY <1>17, MadeIds DEF Seen, UpdateStatus, link, session, Apart, Copies, Nothing, Idle, Flags
<1>18. CASE UNCHANGED vars
  BY <1>18 DEF vars, link, tables, screen, session, wire, Apart, Copies, Nothing, Idle, Flags
<1> QED
  BY <1>1, <1>2, <1>3, <1>4, <1>5, <1>6, <1>7, <1>8, <1>9, <1>10, <1>11, <1>12, <1>13, <1>14,
     <1>15, <1>16, <1>17, <1>18 DEF Next

\* What waits for a key was not sent.
LEMMA QueuedStep ==
    ASSUME Flags, Messaging, Copies, Idle, Unmade, Queued, [Next]_vars
    PROVE  Queued'
<1>1. CASE Login
  BY <1>1, MadeIds DEF Login, tables, session, wire, Queued, Copies, Nothing, Messaging
<1>2. CASE Logout
  BY <1>2, MadeIds DEF Logout, ClearModels, ClearAll, tables, wire, Queued, Copies, Nothing,
     Messaging
<1>3. CASE Disconnect
  BY <1>3, MadeIds DEF Disconnect, ClearModels, ClearAll, tables, session, Queued, Copies,
     Nothing, Messaging
<1>4. CASE Restart
  BY <1>4, MadeIds DEF Restart, ClearModels, ClearAll, tables, Queued, Copies, Nothing,
     Messaging
<1>5. ASSUME NEW c \in Chats, Open(c) PROVE Queued'
  BY <1>5, MadeIds DEF Open, link, Queued, Copies, Nothing, Messaging
<1>6. ASSUME NEW p \in Peers, WriteToPeer(p) PROVE Queued'
  <2>e. Extended(p)
    <3>1. p \in Chats
      BY DEF Chats
    <3> QED BY <1>6, <3>1, NewMessage DEF WriteToPeer
  <2> QED
    BY <1>6, MadeIds, <2>e DEF WriteToPeer, AppendAndCache, Persist, link, Queued, Copies,
       Nothing, Messaging, Extended, Unmade
<1>7. ASSUME NEW p \in Peers, PeerKeyArrives(p) PROVE Queued'
  BY <1>7, MadeIds DEF PeerKeyArrives, Persist, link, screen, Queued, Copies, Nothing,
     Messaging, Of
<1>8. ASSUME NEW p \in Peers, Incoming(p) PROVE Queued'
  <2>e. Extended(p)
    <3>1. p \in Chats
      BY DEF Chats
    <3> QED BY <1>8, <3>1, NewMessage DEF Incoming
  <2> QED
    BY <1>8, MadeIds, <2>e DEF Incoming, AppendAndCache, Persist, link, Queued, Copies, Nothing,
       Messaging, Extended, Unmade
<1>9. ASSUME NEW p \in Peers, Echo(p) PROVE Queued'
  <2>e. Extended(p)
    <3>1. p \in Chats
      BY DEF Chats
    <3> QED BY <1>9, <3>1, NewMessage DEF Echo
  <2> QED
    BY <1>9, MadeIds, <2>e DEF Echo, AppendAndCache, Persist, link, session, Queued, Copies,
       Nothing, Messaging, Extended, Unmade
<1>10. ASSUME NEW p \in Peers, DeleteConversation(p) PROVE Queued'
  BY <1>10, MadeIds DEF DeleteConversation, DeleteRows, ClearAll, link, tables, session, wire,
     Queued, Copies, Nothing, Messaging, Of
<1>11. ASSUME NEW g \in GroupIds, WriteToGroup(g) PROVE Queued'
  <2>e. Extended(g)
    <3>1. g \in Chats
      BY DEF Chats
    <3> QED BY <1>11, <3>1, NewMessage DEF WriteToGroup
  <2> QED
    BY <1>11, MadeIds, <2>e DEF WriteToGroup, AppendAndCache, Persist, link, session, Queued,
       Copies, Nothing, Messaging, Extended, Unmade
<1>12. ASSUME NEW g \in GroupIds, GroupIncoming(g) PROVE Queued'
  <2>e. Extended(g)
    <3>1. g \in Chats
      BY DEF Chats
    <3> QED BY <1>12, <3>1, NewMessage DEF GroupIncoming
  <2> QED
    BY <1>12, MadeIds, <2>e DEF GroupIncoming, AppendAndCache, Persist, link, Queued, Copies,
       Nothing, Messaging, Extended, Unmade
<1>13. ASSUME NEW g \in GroupIds, GroupInfo(g) PROVE Queued'
  BY <1>13, MadeIds DEF GroupInfo, link, session, wire, Queued, Copies, Nothing, Messaging
<1>14. ASSUME NEW g \in GroupIds, GroupLeft(g) PROVE Queued'
  BY <1>14, MadeIds DEF GroupLeft, DeleteRows, link, tables, session, wire, Queued, Copies,
     Nothing, Messaging, Of
<1>15. ASSUME NEW i \in DOMAIN made, Delivered(i) PROVE Queued'
  BY <1>15, MadeIds DEF Delivered, UpdateStatus, link, session, Queued, Copies, Nothing,
     Messaging
<1>16. ASSUME NEW i \in DOMAIN made, GroupDelivered(i) PROVE Queued'
  BY <1>16, MadeIds DEF GroupDelivered, UpdateStatus, link, session, Queued, Copies, Nothing,
     Messaging
<1>17. ASSUME NEW i \in DOMAIN made, Seen(i) PROVE Queued'
  BY <1>17, MadeIds DEF Seen, UpdateStatus, link, session, Queued, Copies, Nothing, Messaging
<1>18. CASE UNCHANGED vars
  BY <1>18 DEF vars, link, tables, screen, session, wire, Queued, Copies, Nothing, Messaging
<1> QED
  BY <1>1, <1>2, <1>3, <1>4, <1>5, <1>6, <1>7, <1>8, <1>9, <1>10, <1>11, <1>12, <1>13, <1>14,
     <1>15, <1>16, <1>17, <1>18 DEF Next

\* The two copies of a status change together.
LEMMA StatusStoredStep ==
    ASSUME Flags, Messaging, Copies, Idle, Unmade, Apart, Queued, StatusStored, [Next]_vars
    PROVE  StatusStored'
<1>1. CASE Login
  BY <1>1, MadeIds DEF Login, tables, session, wire, StatusStored, Copies, Nothing, Flags, Apart
<1>2. CASE Logout
  BY <1>2, MadeIds DEF Logout, ClearModels, ClearAll, tables, wire, StatusStored, Copies,
     Nothing, Flags
<1>3. CASE Disconnect
  BY <1>3, MadeIds DEF Disconnect, ClearModels, ClearAll, tables, session, StatusStored, Copies,
     Nothing, Flags
<1>4. CASE Restart
  BY <1>4, MadeIds DEF Restart, ClearModels, ClearAll, tables, StatusStored, Copies, Nothing,
     Flags
<1>5. ASSUME NEW c \in Chats, Open(c) PROVE StatusStored'
  BY <1>5, MadeIds DEF Open, link, StatusStored, Copies, Nothing, Flags
<1>6. ASSUME NEW p \in Peers, WriteToPeer(p) PROVE StatusStored'
  <2>e. Extended(p)
    <3>1. p \in Chats
      BY DEF Chats
    <3> QED BY <1>6, <3>1, NewMessage DEF WriteToPeer
  <2> QED
    BY <1>6, MadeIds, <2>e DEF WriteToPeer, AppendAndCache, Persist, link, StatusStored, Copies,
       Nothing, Flags, Extended, Unmade, Messaging
<1>7. ASSUME NEW p \in Peers, PeerKeyArrives(p) PROVE StatusStored'
  BY <1>7, MadeIds DEF PeerKeyArrives, Persist, link, screen, StatusStored, Copies, Nothing,
     Flags, Queued
<1>8. ASSUME NEW p \in Peers, Incoming(p) PROVE StatusStored'
  <2>e. Extended(p)
    <3>1. p \in Chats
      BY DEF Chats
    <3> QED BY <1>8, <3>1, NewMessage DEF Incoming
  <2> QED
    BY <1>8, MadeIds, <2>e DEF Incoming, AppendAndCache, Persist, link, StatusStored, Copies,
       Nothing, Flags, Extended, Unmade, Messaging
<1>9. ASSUME NEW p \in Peers, Echo(p) PROVE StatusStored'
  <2>e. Extended(p)
    <3>1. p \in Chats
      BY DEF Chats
    <3> QED BY <1>9, <3>1, NewMessage DEF Echo
  <2> QED
    BY <1>9, MadeIds, <2>e DEF Echo, AppendAndCache, Persist, link, session, StatusStored,
       Copies, Nothing, Flags, Extended, Unmade, Messaging
<1>10. ASSUME NEW p \in Peers, DeleteConversation(p) PROVE StatusStored'
  BY <1>10, MadeIds DEF DeleteConversation, DeleteRows, ClearAll, link, tables, session, wire,
     StatusStored, Copies, Nothing, Flags
<1>11. ASSUME NEW g \in GroupIds, WriteToGroup(g) PROVE StatusStored'
  <2>e. Extended(g)
    <3>1. g \in Chats
      BY DEF Chats
    <3> QED BY <1>11, <3>1, NewMessage DEF WriteToGroup
  <2> QED
    BY <1>11, MadeIds, <2>e DEF WriteToGroup, AppendAndCache, Persist, link, session,
       StatusStored, Copies, Nothing, Flags, Extended, Unmade, Messaging
<1>12. ASSUME NEW g \in GroupIds, GroupIncoming(g) PROVE StatusStored'
  <2>e. Extended(g)
    <3>1. g \in Chats
      BY DEF Chats
    <3> QED BY <1>12, <3>1, NewMessage DEF GroupIncoming
  <2> QED
    BY <1>12, MadeIds, <2>e DEF GroupIncoming, AppendAndCache, Persist, link, StatusStored,
       Copies, Nothing, Flags, Extended, Unmade, Messaging
<1>13. ASSUME NEW g \in GroupIds, GroupInfo(g) PROVE StatusStored'
  BY <1>13, MadeIds DEF GroupInfo, link, session, wire, StatusStored, Copies, Nothing, Flags
<1>14. ASSUME NEW g \in GroupIds, GroupLeft(g) PROVE StatusStored'
  BY <1>14, MadeIds DEF GroupLeft, DeleteRows, link, tables, session, wire, StatusStored,
     Copies, Nothing, Flags
<1>15. ASSUME NEW i \in DOMAIN made, Delivered(i) PROVE StatusStored'
  BY <1>15, MadeIds DEF Delivered, UpdateStatus, link, session, StatusStored, Copies, Nothing,
     Flags
<1>16. ASSUME NEW i \in DOMAIN made, GroupDelivered(i) PROVE StatusStored'
  BY <1>16, MadeIds DEF GroupDelivered, UpdateStatus, link, session, StatusStored, Copies,
     Nothing, Flags
<1>17. ASSUME NEW i \in DOMAIN made, Seen(i) PROVE StatusStored'
  BY <1>17, MadeIds DEF Seen, UpdateStatus, link, session, StatusStored, Copies, Nothing, Flags
<1>18. CASE UNCHANGED vars
  BY <1>18 DEF vars, link, tables, screen, session, wire, StatusStored, Copies, Nothing, Flags
<1> QED
  BY <1>1, <1>2, <1>3, <1>4, <1>5, <1>6, <1>7, <1>8, <1>9, <1>10, <1>11, <1>12, <1>13, <1>14,
     <1>15, <1>16, <1>17, <1>18 DEF Next

-----------------------------------------------------------------------------
(***************************************************************************)
(* The history.                                                            *)
(***************************************************************************)
\* A message is stored with its conversation.
LEMMA RowedStep ==
    ASSUME Flags, Messaging, Copies, Tables, Idle, Unmade, Rowed, [Next]_vars
    PROVE  Rowed'
<1>1. CASE Login
  BY <1>1, MadeIds DEF Login, tables, session, wire, Rowed, Copies
<1>2. CASE Logout
  BY <1>2, MadeIds DEF Logout, Stray, tables, wire, Rowed, Copies
<1>3. CASE Disconnect
  BY <1>3, MadeIds DEF Disconnect, Stray, tables, session, Rowed, Copies
<1>4. CASE Restart
  BY <1>4, MadeIds DEF Restart, Stray, tables, Rowed, Copies
<1>5. ASSUME NEW c \in Chats, Open(c) PROVE Rowed'
  BY <1>5, MadeIds DEF Open, link, Rowed, Copies
<1>6. ASSUME NEW p \in Peers, WriteToPeer(p) PROVE Rowed'
  <2>e. Extended(p)
    <3>1. p \in Chats
      BY DEF Chats
    <3> QED BY <1>6, <3>1, NewMessage DEF WriteToPeer
  <2>r. rows \subseteq rows' /\ (stored' # stored => p \in rows')
    <3>1. CASE p \in known
      <4>1. p \in Chats
        BY DEF Chats
      <4>2. Persist({Newest}) /\ \A i \in {Newest} : made'[i].chat = p
        BY <1>6, <3>1, <2>e DEF WriteToPeer, Extended
      <4>3. db
        BY <1>6 DEF WriteToPeer, Flags
      <4> QED BY <4>1, <4>2, <4>3, PersistRows DEF Recorded
    <3>2. CASE p \notin known
      BY <1>6, <3>2 DEF WriteToPeer
    <3> QED BY <3>1, <3>2
  <2> QED
    BY <1>6, MadeIds, <2>e, <2>r DEF WriteToPeer, Persist, link, Rowed, Copies, Extended, Unmade
<1>7. ASSUME NEW p \in Peers, PeerKeyArrives(p) PROVE Rowed'
  <2>1. p \in Chats
    BY DEF Chats
  <2>2. \A i \in waiting \cap Of(p) : made'[i].chat = p
    BY <1>7 DEF PeerKeyArrives, Of
  <2>r. /\ rows \subseteq rows'
        /\ db /\ waiting \cap Of(p) # {} => p \in rows'
    BY <1>7, <2>1, <2>2, PersistRows DEF PeerKeyArrives, Recorded
  <2>3. \A i \in DOMAIN made : stored'[i] = stored[i] \/ (db /\ i \in waiting \cap Of(p))
    BY <1>7, MadeIds DEF PeerKeyArrives, Persist
  <2> QED BY <1>7, MadeIds, <2>r, <2>2, <2>3 DEF PeerKeyArrives, link, screen, Rowed, Copies
<1>8. ASSUME NEW p \in Peers, Incoming(p) PROVE Rowed'
  <2>e. Extended(p)
    <3>1. p \in Chats
      BY DEF Chats
    <3> QED BY <1>8, <3>1, NewMessage DEF Incoming
  <2>r. rows \subseteq rows' /\ (db => p \in rows')
    <3>1. p \in Chats
      BY DEF Chats
    <3>2. Persist({Newest}) /\ \A i \in {Newest} : made'[i].chat = p
      BY <1>8, <2>e DEF Incoming, Extended
    <3> QED BY <3>1, <3>2, PersistRows DEF Recorded
  <2> QED
    BY <1>8, MadeIds, <2>e, <2>r DEF Incoming, Persist, link, Rowed, Copies, Extended, Unmade
<1>9. ASSUME NEW p \in Peers, Echo(p) PROVE Rowed'
  <2>e. Extended(p)
    <3>1. p \in Chats
      BY DEF Chats
    <3> QED BY <1>9, <3>1, NewMessage DEF Echo
  <2>r. rows \subseteq rows' /\ (db => p \in rows')
    <3>1. p \in Chats
      BY DEF Chats
    <3>2. Persist({Newest}) /\ \A i \in {Newest} : made'[i].chat = p
      BY <1>9, <2>e DEF Echo, Extended
    <3> QED BY <3>1, <3>2, PersistRows DEF Recorded
  <2> QED
    BY <1>9, MadeIds, <2>e, <2>r DEF Echo, Persist, link, session, Rowed, Copies, Extended,
       Unmade
<1>10. ASSUME NEW p \in Peers, DeleteConversation(p) PROVE Rowed'
  BY <1>10, MadeIds DEF DeleteConversation, DeleteRows, link, tables, session, wire, Rowed,
     Copies, Of
<1>11. ASSUME NEW g \in GroupIds, WriteToGroup(g) PROVE Rowed'
  <2>e. Extended(g)
    <3>1. g \in Chats
      BY DEF Chats
    <3> QED BY <1>11, <3>1, NewMessage DEF WriteToGroup
  <2>r. rows \subseteq rows'
    BY <1>11 DEF WriteToGroup, Persist
  <2> QED
    BY <1>11, MadeIds, <2>e, <2>r DEF WriteToGroup, Persist, link, session, Rowed, Copies,
       Extended, Unmade
<1>12. ASSUME NEW g \in GroupIds, GroupIncoming(g) PROVE Rowed'
  <2>e. Extended(g)
    <3>1. g \in Chats
      BY DEF Chats
    <3> QED BY <1>12, <3>1, NewMessage DEF GroupIncoming
  <2>r. rows \subseteq rows'
    BY <1>12 DEF GroupIncoming, Persist
  <2> QED
    BY <1>12, MadeIds, <2>e, <2>r DEF GroupIncoming, Persist, link, Rowed, Copies, Extended,
       Unmade
<1>13. ASSUME NEW g \in GroupIds, GroupInfo(g) PROVE Rowed'
  BY <1>13, MadeIds DEF GroupInfo, link, session, wire, Rowed, Copies
<1>14. ASSUME NEW g \in GroupIds, GroupLeft(g) PROVE Rowed'
  BY <1>14, MadeIds DEF GroupLeft, DeleteRows, link, tables, session, wire, Rowed, Copies, Of
<1>15. ASSUME NEW i \in DOMAIN made, Delivered(i) PROVE Rowed'
  BY <1>15, MadeIds DEF Delivered, UpdateStatus, link, session, Rowed, Copies
<1>16. ASSUME NEW i \in DOMAIN made, GroupDelivered(i) PROVE Rowed'
  BY <1>16, MadeIds DEF GroupDelivered, UpdateStatus, link, session, Rowed, Copies
<1>17. ASSUME NEW i \in DOMAIN made, Seen(i) PROVE Rowed'
  BY <1>17, MadeIds DEF Seen, UpdateStatus, link, session, Rowed, Copies
<1>18. CASE UNCHANGED vars
  BY <1>18 DEF vars, link, tables, screen, session, wire, Rowed, Copies
<1> QED
  BY <1>1, <1>2, <1>3, <1>4, <1>5, <1>6, <1>7, <1>8, <1>9, <1>10, <1>11, <1>12, <1>13, <1>14,
     <1>15, <1>16, <1>17, <1>18 DEF Next

\* An incoming message is stored before it counts as unread.
LEMMA UnreadStoredStep ==
    ASSUME Flags, Messaging, Copies, Unmade, UnreadStored, [Next]_vars
    PROVE  UnreadStored'
<1>1. CASE Login
  BY <1>1, MadeIds DEF Login, tables, session, wire, UnreadStored, Copies, Flags, Messaging
<1>2. CASE Logout
  BY <1>2, MadeIds DEF Logout, tables, wire, UnreadStored, Copies, Flags, Messaging
<1>3. CASE Disconnect
  BY <1>3, MadeIds DEF Disconnect, tables, session, UnreadStored, Copies, Flags, Messaging
<1>4. CASE Restart
  BY <1>4, MadeIds DEF Restart, tables, UnreadStored, Copies, Flags, Messaging
<1>5. ASSUME NEW c \in Chats, Open(c) PROVE UnreadStored'
  BY <1>5, MadeIds DEF Open, MarkConversationRead, link, UnreadStored, Copies, Flags, Messaging
<1>6. ASSUME NEW p \in Peers, WriteToPeer(p) PROVE UnreadStored'
  <2>e. Extended(p)
    <3>1. p \in Chats
      BY DEF Chats
    <3> QED BY <1>6, <3>1, NewMessage DEF WriteToPeer
  <2> QED
    BY <1>6, MadeIds, <2>e DEF WriteToPeer, Persist, MarkConversationRead, link, UnreadStored,
       Copies, Flags, Messaging, Extended, Unmade
<1>7. ASSUME NEW p \in Peers, PeerKeyArrives(p) PROVE UnreadStored'
  BY <1>7, MadeIds DEF PeerKeyArrives, Persist, link, screen, UnreadStored, Copies, Flags,
     Messaging, Of
<1>8. ASSUME NEW p \in Peers, Incoming(p) PROVE UnreadStored'
  <2>e. Extended(p)
    <3>1. p \in Chats
      BY DEF Chats
    <3> QED BY <1>8, <3>1, NewMessage DEF Incoming
  <2> QED
    BY <1>8, MadeIds, <2>e DEF Incoming, Persist, MarkConversationRead, link, UnreadStored,
       Copies, Flags, Messaging, Extended, Unmade
<1>9. ASSUME NEW p \in Peers, Echo(p) PROVE UnreadStored'
  <2>e. Extended(p)
    <3>1. p \in Chats
      BY DEF Chats
    <3> QED BY <1>9, <3>1, NewMessage DEF Echo
  <2> QED
    BY <1>9, MadeIds, <2>e DEF Echo, Persist, MarkConversationRead, link, session, UnreadStored,
       Copies, Flags, Messaging, Extended, Unmade
<1>10. ASSUME NEW p \in Peers, DeleteConversation(p) PROVE UnreadStored'
  BY <1>10, MadeIds DEF DeleteConversation, DeleteRows, link, tables, session, wire,
     UnreadStored, Copies, Flags, Messaging, Of
<1>11. ASSUME NEW g \in GroupIds, WriteToGroup(g) PROVE UnreadStored'
  <2>e. Extended(g)
    <3>1. g \in Chats
      BY DEF Chats
    <3> QED BY <1>11, <3>1, NewMessage DEF WriteToGroup
  <2> QED
    BY <1>11, MadeIds, <2>e DEF WriteToGroup, Persist, MarkConversationRead, link, session,
       UnreadStored, Copies, Flags, Messaging, Extended, Unmade
<1>12. ASSUME NEW g \in GroupIds, GroupIncoming(g) PROVE UnreadStored'
  <2>e. Extended(g)
    <3>1. g \in Chats
      BY DEF Chats
    <3> QED BY <1>12, <3>1, NewMessage DEF GroupIncoming
  <2> QED
    BY <1>12, MadeIds, <2>e DEF GroupIncoming, Persist, MarkConversationRead, link,
       UnreadStored, Copies, Flags, Messaging, Extended, Unmade
<1>13. ASSUME NEW g \in GroupIds, GroupInfo(g) PROVE UnreadStored'
  BY <1>13, MadeIds DEF GroupInfo, link, session, wire, UnreadStored, Copies, Flags,
     Messaging
<1>14. ASSUME NEW g \in GroupIds, GroupLeft(g) PROVE UnreadStored'
  BY <1>14, MadeIds DEF GroupLeft, DeleteRows, link, tables, session, wire, UnreadStored,
     Copies, Flags, Messaging, Of
<1>15. ASSUME NEW i \in DOMAIN made, Delivered(i) PROVE UnreadStored'
  BY <1>15, MadeIds DEF Delivered, UpdateStatus, link, session, UnreadStored, Copies, Flags,
     Messaging
<1>16. ASSUME NEW i \in DOMAIN made, GroupDelivered(i) PROVE UnreadStored'
  BY <1>16, MadeIds DEF GroupDelivered, UpdateStatus, link, session, UnreadStored, Copies,
     Flags, Messaging
<1>17. ASSUME NEW i \in DOMAIN made, Seen(i) PROVE UnreadStored'
  BY <1>17, MadeIds DEF Seen, UpdateStatus, link, session, UnreadStored, Copies, Flags,
     Messaging
<1>18. CASE UNCHANGED vars
  BY <1>18 DEF vars, link, tables, screen, session, wire, UnreadStored, Copies, Flags, Messaging
<1> QED
  BY <1>1, <1>2, <1>3, <1>4, <1>5, <1>6, <1>7, <1>8, <1>9, <1>10, <1>11, <1>12, <1>13, <1>14,
     <1>15, <1>16, <1>17, <1>18 DEF Next

\* What is stored is loaded.
LEMMA HistoryCachedStep ==
    ASSUME Flags, Messaging, Copies, Unmade, Rowed, Queued, HistoryCached, [Next]_vars
    PROVE  HistoryCached'
<1>1. CASE Login
  BY <1>1, MadeIds DEF Login, tables, session, wire, HistoryCached, Copies, Flags, Rowed, Unmade
<1>2. CASE Logout
  BY <1>2, MadeIds DEF Logout, ClearModels, ClearAll, tables, wire, HistoryCached, Copies, Flags
<1>3. CASE Disconnect
  BY <1>3, MadeIds DEF Disconnect, ClearModels, ClearAll, tables, session, HistoryCached,
     Copies, Flags
<1>4. CASE Restart
  BY <1>4, MadeIds DEF Restart, ClearModels, ClearAll, tables, HistoryCached, Copies, Flags
<1>5. ASSUME NEW c \in Chats, Open(c) PROVE HistoryCached'
  BY <1>5, MadeIds DEF Open, link, HistoryCached, Copies, Flags
<1>6. ASSUME NEW p \in Peers, WriteToPeer(p) PROVE HistoryCached'
  <2>e. Extended(p)
    <3>1. p \in Chats
      BY DEF Chats
    <3> QED BY <1>6, <3>1, NewMessage DEF WriteToPeer
  <2> QED
    BY <1>6, MadeIds, <2>e DEF WriteToPeer, AppendAndCache, Persist, link, HistoryCached,
       Copies, Flags, Extended, Unmade, Messaging
<1>7. ASSUME NEW p \in Peers, PeerKeyArrives(p) PROVE HistoryCached'
  BY <1>7, MadeIds DEF PeerKeyArrives, Persist, link, screen, HistoryCached, Copies, Flags,
     Queued
<1>8. ASSUME NEW p \in Peers, Incoming(p) PROVE HistoryCached'
  <2>e. Extended(p)
    <3>1. p \in Chats
      BY DEF Chats
    <3> QED BY <1>8, <3>1, NewMessage DEF Incoming
  <2> QED
    BY <1>8, MadeIds, <2>e DEF Incoming, AppendAndCache, Persist, link, HistoryCached, Copies,
       Flags, Extended, Unmade, Messaging
<1>9. ASSUME NEW p \in Peers, Echo(p) PROVE HistoryCached'
  <2>e. Extended(p)
    <3>1. p \in Chats
      BY DEF Chats
    <3> QED BY <1>9, <3>1, NewMessage DEF Echo
  <2> QED
    BY <1>9, MadeIds, <2>e DEF Echo, AppendAndCache, Persist, link, session, HistoryCached,
       Copies, Flags, Extended, Unmade, Messaging
<1>10. ASSUME NEW p \in Peers, DeleteConversation(p) PROVE HistoryCached'
  BY <1>10, MadeIds DEF DeleteConversation, DeleteRows, ClearAll, link, tables, session, wire,
     HistoryCached, Copies, Flags, Of, Unmade
<1>11. ASSUME NEW g \in GroupIds, WriteToGroup(g) PROVE HistoryCached'
  <2>e. Extended(g)
    <3>1. g \in Chats
      BY DEF Chats
    <3> QED BY <1>11, <3>1, NewMessage DEF WriteToGroup
  <2> QED
    BY <1>11, MadeIds, <2>e DEF WriteToGroup, AppendAndCache, Persist, link, session,
       HistoryCached, Copies, Flags, Extended, Unmade, Messaging
<1>12. ASSUME NEW g \in GroupIds, GroupIncoming(g) PROVE HistoryCached'
  <2>e. Extended(g)
    <3>1. g \in Chats
      BY DEF Chats
    <3> QED BY <1>12, <3>1, NewMessage DEF GroupIncoming
  <2> QED
    BY <1>12, MadeIds, <2>e DEF GroupIncoming, AppendAndCache, Persist, link, HistoryCached,
       Copies, Flags, Extended, Unmade, Messaging
<1>13. ASSUME NEW g \in GroupIds, GroupInfo(g) PROVE HistoryCached'
  BY <1>13, MadeIds DEF GroupInfo, link, session, wire, HistoryCached, Copies, Flags
<1>14. ASSUME NEW g \in GroupIds, GroupLeft(g) PROVE HistoryCached'
  BY <1>14, MadeIds DEF GroupLeft, DeleteRows, link, tables, session, wire, HistoryCached,
     Copies, Flags, Of, Unmade
<1>15. ASSUME NEW i \in DOMAIN made, Delivered(i) PROVE HistoryCached'
  BY <1>15, MadeIds DEF Delivered, UpdateStatus, link, session, HistoryCached, Copies, Flags
<1>16. ASSUME NEW i \in DOMAIN made, GroupDelivered(i) PROVE HistoryCached'
  BY <1>16, MadeIds DEF GroupDelivered, UpdateStatus, link, session, HistoryCached, Copies,
     Flags
<1>17. ASSUME NEW i \in DOMAIN made, Seen(i) PROVE HistoryCached'
  BY <1>17, MadeIds DEF Seen, UpdateStatus, link, session, HistoryCached, Copies, Flags
<1>18. CASE UNCHANGED vars
  BY <1>18 DEF vars, link, tables, screen, session, wire, HistoryCached, Copies, Flags
<1> QED
  BY <1>1, <1>2, <1>3, <1>4, <1>5, <1>6, <1>7, <1>8, <1>9, <1>10, <1>11, <1>12, <1>13, <1>14,
     <1>15, <1>16, <1>17, <1>18 DEF Next

\* An addition lists at most the conversation it is about.
LEMMA AddedListed ==
    ASSUME NEW l, NEW l2, NEW c, NEW inc, Added(l, l2, c, inc)
    PROVE  Listed(l) \subseteq Listed(l2) /\ Listed(l2) \subseteq Listed(l) \cup {c}
<1>1. Listed(l) \subseteq Listed(l2)
  BY DEF Added, Listed
<1>2. Listed(l2) \subseteq Listed(l) \cup {c}
  BY DEF Added, Listed
<1> QED BY <1>1, <1>2

\* What the account's history rests on.
HistInv == Typed /\ ViewInv /\ StoreInv /\ RowsInv

\* At the start there is no history.
LEMMA HistInit ==
    Init => HistInv
<1> SUFFICES ASSUME Init PROVE HistInv
  OBVIOUS
<1>1. Typed
  BY TypedInit
<1>2. \A i \in Ids : stored[i] = "none" /\ cached[i] = "none" /\ shown[i] = "none"
  BY DEF Init, Nothing
<1>3. ViewInv
  BY <1>2 DEF Init, ViewInv, Idle, Unmade, OpenIsCached
<1>4. StoreInv
  BY <1>2 DEF Init, StoreInv, Apart, Queued, StatusStored
<1>5. RowsInv
  BY ClientViewConstants DEF Init, RowsInv, Rowed, UnreadStored, HistoryCached,
     Listed
<1> QED BY <1>1, <1>3, <1>4, <1>5 DEF HistInv

\* Every action keeps it.
LEMMA HistStep ==
    ASSUME HistInv, [Next]_vars
    PROVE  HistInv'
<1>1. /\ Typed /\ Flags /\ Copies /\ Messaging /\ Tables /\ WellListed(list)
      /\ Idle /\ Unmade /\ OpenIsCached /\ Apart /\ Queued /\ StatusStored
      /\ Rowed /\ UnreadStored /\ HistoryCached
  BY DEF HistInv, Typed, Shapes, ViewInv, StoreInv, RowsInv
<1>2. Typed'
  BY <1>1, TypedStep
<1>3. Idle'
  BY <1>1, IdleStep
<1>4. Unmade'
  BY <1>1, UnmadeStep
<1>5. OpenIsCached'
  BY <1>1, OpenIsCachedStep
<1>6. Apart'
  BY <1>1, ApartStep
<1>7. Queued'
  BY <1>1, QueuedStep
<1>8. StatusStored'
  BY <1>1, StatusStoredStep
<1>9. Rowed'
  BY <1>1, RowedStep
<1>10. UnreadStored'
  BY <1>1, UnreadStoredStep
<1>11. HistoryCached'
  BY <1>1, HistoryCachedStep
<1> QED BY <1>2, <1>3, <1>4, <1>5, <1>6, <1>7, <1>8, <1>9, <1>10, <1>11
        DEF HistInv, ViewInv, StoreInv, RowsInv

\* It holds always.
LEMMA HistAlways ==
    Spec => []HistInv
<1> QED BY HistInit, HistStep, PTL DEF Spec

(***************************************************************************)
(* ChatModel shows the cache of the conversation that is open, through any *)
(* sequence of clicks and packets: appendAndCache, updateStatus and        *)
(* switchConversation keep the two copies equal because a client without   *)
(* an account has none open (Idle), and Login alone changes the cache only.*)
(***************************************************************************)
THEOREM ShownIsCached == Spec => []OpenIsCached
<1>1. HistInv => OpenIsCached
  BY DEF HistInv, ViewInv
<1> QED BY <1>1, HistAlways, PTL

(***************************************************************************)
(* A status that is displayed is the one in SQLite: what a late echo or a  *)
(* text that waits for a key leaves in the cache is not in a table, or is  *)
(* stored with the status it is displayed with.                            *)
(***************************************************************************)
THEOREM StatusIsStored == Spec => []StatusStored
<1>1. HistInv => StatusStored
  BY DEF HistInv, StoreInv
<1> QED BY <1>1, HistAlways, PTL

(***************************************************************************)
(* loadLocalHistory brings back everything in the tables but the messages  *)
(* of groups without a row, and what a deletion emptied or a lost          *)
(* connection kept from the screen: a message to or from a peer is stored  *)
(* in a stored conversation only, and no row goes without its messages.    *)
(***************************************************************************)
THEOREM HistoryIsLoaded == Spec => []HistoryCached
<1>1. HistInv => HistoryCached
  BY DEF HistInv, RowsInv
<1> QED BY <1>1, HistAlways, PTL

\* What ReceiptHonest says of a step.
Honest == \A i \in read' \ read : shown'[i] # "none" \/ i \in gone'

\* A receipt is sent for what is on the screen.
LEMMA HonestStep ==
    ASSUME HistInv, [Next]_vars
    PROVE  Honest
<1>0. Messaging /\ Copies /\ OpenIsCached /\ UnreadStored /\ HistoryCached
  BY DEF HistInv, Typed, Shapes, ViewInv, RowsInv
<1>1. CASE Login
  BY <1>1 DEF Login, tables, session, wire, Honest
<1>2. CASE Logout
  BY <1>2 DEF Logout, tables, wire, Honest
<1>3. CASE Disconnect
  BY <1>3 DEF Disconnect, tables, session, Honest
<1>4. CASE Restart
  BY <1>4 DEF Restart, tables, Honest
<1>5. ASSUME NEW c \in Chats, Open(c) PROVE Honest
  <2> SUFFICES ASSUME NEW i \in read' \ read
               PROVE  shown'[i] # "none" \/ i \in gone'
    BY DEF Honest
  <2>1. i \in unread /\ made[i].chat = c /\ gone' = gone /\ me
    BY <1>5 DEF Open, MarkConversationRead
  <2>2. i \in DOMAIN made /\ i \in Ids
    BY <1>0, <2>1, MadeIds DEF Messaging
  <2>3. shown'[i] = cached[i]
    BY <1>5, <2>1, <2>2 DEF Open, Of
  <2> QED BY <1>0, <2>1, <2>2, <2>3 DEF UnreadStored, HistoryCached
<1>6. ASSUME NEW p \in Peers, WriteToPeer(p) PROVE Honest
  BY <1>6 DEF WriteToPeer, link, Honest
<1>7. ASSUME NEW p \in Peers, PeerKeyArrives(p) PROVE Honest
  BY <1>7 DEF PeerKeyArrives, link, screen, Honest
<1>8. ASSUME NEW p \in Peers, Incoming(p) PROVE Honest
  <2>e. Extended(p)
    <3>1. p \in Chats
      BY DEF Chats
    <3> QED BY <1>8, <1>0, <3>1, NewMessage DEF Incoming
  <2> SUFFICES ASSUME NEW i \in read' \ read
               PROVE  shown'[i] # "none" \/ i \in gone'
    BY DEF Honest
  <2>1. /\ p = active /\ i \in unread \cup {Newest} /\ made'[i].chat = p
        /\ gone' = gone /\ me
    <3>1. i \in unread \cup {Newest} /\ made'[i].chat = IF p = active THEN p ELSE NoChat
      BY <1>8 DEF Incoming, MarkConversationRead
    <3>2. i \in DOMAIN made'
      BY <1>0, <2>e, <3>1 DEF Messaging, Extended
    <3>3. made'[i].chat \in Chats
      <4>1. \A m \in Messages : m.chat \in Chats
        BY DEF Messages
      <4>2. made'[i] \in Messages
        <5>1. made' \in Seq(Messages)
          BY <2>e DEF Extended
        <5> QED BY <3>2, <5>1
      <4> QED BY <4>1, <4>2
    <3>4. gone' = gone /\ me
      BY <1>8 DEF Incoming
    <3> QED BY <3>1, <3>3, <3>4, ClientViewConstants DEF Chats
  <2>2. view = p
    BY <1>0, <2>1, ClientViewConstants DEF OpenIsCached
  <2>3. shown' = [shown EXCEPT ![Newest] = "sent"]
    BY <1>8, <2>2 DEF Incoming, AppendAndCache
  <2>4. CASE i = Newest
    BY <1>0, <2>3, <2>4, <2>e DEF Extended, Copies
  <2>5. CASE i # Newest
    <3>1. i \in DOMAIN made /\ i \in Ids /\ i \in unread
      BY <1>0, <2>1, <2>5, MadeIds DEF Messaging
    <3>2. shown'[i] = shown[i] /\ made'[i] = made[i]
      BY <1>0, <2>3, <2>5, <3>1, <2>e DEF Copies, Extended
    <3>3. shown[i] = cached[i]
      BY <1>0, <2>1, <2>2, <3>1, <3>2 DEF OpenIsCached
    <3> QED BY <1>0, <2>1, <3>1, <3>2, <3>3 DEF UnreadStored, HistoryCached
  <2> QED BY <2>4, <2>5
<1>9. ASSUME NEW p \in Peers, Echo(p) PROVE Honest
  BY <1>9 DEF Echo, link, session, Honest
<1>10. ASSUME NEW p \in Peers, DeleteConversation(p) PROVE Honest
  BY <1>10 DEF DeleteConversation, link, tables, session, wire, Honest
<1>11. ASSUME NEW g \in GroupIds, WriteToGroup(g) PROVE Honest
  BY <1>11 DEF WriteToGroup, link, session, Honest
<1>12. ASSUME NEW g \in GroupIds, GroupIncoming(g) PROVE Honest
  <2>e. Extended(g)
    <3>1. g \in Chats
      BY DEF Chats
    <3> QED BY <1>12, <1>0, <3>1, NewMessage DEF GroupIncoming
  <2> SUFFICES ASSUME NEW i \in read' \ read
               PROVE  shown'[i] # "none" \/ i \in gone'
    BY DEF Honest
  <2>1. /\ g = active /\ i \in unread \cup {Newest} /\ made'[i].chat = g
        /\ gone' = gone /\ me
    <3>1. i \in unread \cup {Newest} /\ made'[i].chat = IF g = active THEN g ELSE NoChat
      BY <1>12 DEF GroupIncoming, MarkConversationRead
    <3>2. i \in DOMAIN made'
      BY <1>0, <2>e, <3>1 DEF Messaging, Extended
    <3>3. made'[i].chat \in Chats
      <4>1. \A m \in Messages : m.chat \in Chats
        BY DEF Messages
      <4>2. made'[i] \in Messages
        <5>1. made' \in Seq(Messages)
          BY <2>e DEF Extended
        <5> QED BY <3>2, <5>1
      <4> QED BY <4>1, <4>2
    <3>4. gone' = gone /\ me
      BY <1>12 DEF GroupIncoming
    <3> QED BY <3>1, <3>3, <3>4, ClientViewConstants DEF Chats
  <2>2. view = g
    BY <1>0, <2>1, ClientViewConstants DEF OpenIsCached
  <2>3. shown' = [shown EXCEPT ![Newest] = "sent"]
    BY <1>12, <2>2 DEF GroupIncoming, AppendAndCache
  <2>4. CASE i = Newest
    BY <1>0, <2>3, <2>4, <2>e DEF Extended, Copies
  <2>5. CASE i # Newest
    <3>1. i \in DOMAIN made /\ i \in Ids /\ i \in unread
      BY <1>0, <2>1, <2>5, MadeIds DEF Messaging
    <3>2. shown'[i] = shown[i] /\ made'[i] = made[i]
      BY <1>0, <2>3, <2>5, <3>1, <2>e DEF Copies, Extended
    <3>3. shown[i] = cached[i]
      BY <1>0, <2>1, <2>2, <3>1, <3>2 DEF OpenIsCached
    <3> QED BY <1>0, <2>1, <3>1, <3>2, <3>3 DEF UnreadStored, HistoryCached
  <2> QED BY <2>4, <2>5
<1>13. ASSUME NEW g \in GroupIds, GroupInfo(g) PROVE Honest
  BY <1>13 DEF GroupInfo, link, session, wire, Honest
<1>14. ASSUME NEW g \in GroupIds, GroupLeft(g) PROVE Honest
  BY <1>14 DEF GroupLeft, link, tables, session, wire, Honest
<1>15. ASSUME NEW i \in DOMAIN made, Delivered(i) PROVE Honest
  BY <1>15 DEF Delivered, link, session, Honest
<1>16. ASSUME NEW i \in DOMAIN made, GroupDelivered(i) PROVE Honest
  BY <1>16 DEF GroupDelivered, link, session, Honest
<1>17. ASSUME NEW i \in DOMAIN made, Seen(i) PROVE Honest
  BY <1>17 DEF Seen, link, session, Honest
<1>18. CASE UNCHANGED vars
  BY <1>18 DEF vars, link, tables, screen, session, wire, Honest
<1> QED
  BY <1>1, <1>2, <1>3, <1>4, <1>5, <1>6, <1>7, <1>8, <1>9, <1>10, <1>11, <1>12, <1>13, <1>14,
     <1>15, <1>16, <1>17, <1>18 DEF Next

(***************************************************************************)
(* A READ_RECEIPT is sent only for a message that is on the reader's       *)
(* screen, or that was taken off it for good by a deletion or, if its      *)
(* group has no row, by the end of the session: an unread message is       *)
(* stored, hence cached, and the open conversation shows its cache.        *)
(***************************************************************************)
THEOREM ReceiptsHonest == Spec => ReceiptHonest
<1>1. ASSUME HistInv, [Next]_vars
      PROVE  [\A i \in read' \ read : shown'[i] # "none" \/ i \in gone']_vars
  BY <1>1, HonestStep DEF Honest
<1> QED BY <1>1, HistAlways, PTL DEF Spec, ReceiptHonest

-----------------------------------------------------------------------------
(***************************************************************************)
(* The badges, if no group has the name of a peer.                         *)
(***************************************************************************)
ListedTo(c, inc) ==
    /\ Listed(list') = Listed(list) \cup {c}
    /\ \A k \in DOMAIN list' :
        \/ /\ k \in DOMAIN list /\ list'[k].chat = list[k].chat
           /\ list'[k].badge = IF list[k].chat = c THEN list[k].badge + inc ELSE list[k].badge
        \/ list'[k].chat = c /\ list'[k].badge = inc /\ c \notin Listed(list)

\* addOrUpdate finds the entry of the peer.
LEMMA ListedPeer ==
    ASSUME OwnTitles, WellListed(list), NEW p \in Peers, NEW inc \in Nat,
           list' = addOrUpdate(list, p, inc)
    PROVE  ListedTo(p, inc)
<1>1. PICK l : l = list
  OBVIOUS
<1>2. PICK l2 : l2 = list'
  OBVIOUS
<1>3. AddedTo(l, l2, p, inc)
  BY <1>1, <1>2, AddPeer
<1>4. Listed(l) \subseteq Listed(l2) /\ Listed(l2) \subseteq Listed(l) \cup {p} /\ p \in Listed(l2)
  BY <1>3, AddedListed DEF AddedTo
<1>5. Listed(l2) = Listed(l) \cup {p}
  BY <1>4
<1> QED BY <1>1, <1>2, <1>3, <1>5 DEF Added, AddedTo, ListedTo

\* addOrUpdateGroup finds the entry of the group.
LEMMA ListedGroup ==
    ASSUME WellListed(list), NEW g \in GroupIds, NEW n \in {Title[g], NoChat},
           NEW inc \in Nat, list' = addOrUpdateGroup(list, g, n, inc)
    PROVE  ListedTo(g, inc)
<1>1. PICK l : l = list
  OBVIOUS
<1>2. PICK l2 : l2 = list'
  OBVIOUS
<1>3. AddedTo(l, l2, g, inc)
  BY <1>1, <1>2, AddGroup
<1>4. Listed(l) \subseteq Listed(l2) /\ Listed(l2) \subseteq Listed(l) \cup {g} /\ g \in Listed(l2)
  BY <1>3, AddedListed DEF AddedTo
<1>5. Listed(l2) = Listed(l) \cup {g}
  BY <1>4
<1> QED BY <1>1, <1>2, <1>3, <1>5 DEF Added, AddedTo, ListedTo

\* A conversation without a row has nothing unread.
LEMMA RowlessStep ==
    ASSUME OwnTitles, Flags, Messaging, Tables, WellListed(list), Idle, Rowless, [Next]_vars
    PROVE  Rowless'
<1>f. /\ \A k \in DOMAIN list : list[k].badge \in Nat /\ list[k].chat \in Chats
      /\ \A k \in DOMAIN list : list[k].chat \in Listed(list)
      /\ Peers \subseteq Chats /\ GroupIds \subseteq Chats
      /\ count \in [Chats -> Nat]
  <2>1. \A k \in DOMAIN list : list[k].badge \in Nat /\ list[k].chat \in Chats
    BY EntryFields DEF WellListed
  <2> QED BY <2>1 DEF Listed, Chats, Tables
<1>1. CASE Login
  BY <1>1, <1>f DEF Login, tables, session, wire, Rowless
<1>2. CASE Logout
  BY <1>2, <1>f DEF Logout, ClearModels, ClearAll, tables, wire, Rowless
<1>3. CASE Disconnect
  BY <1>3, <1>f DEF Disconnect, ClearModels, ClearAll, tables, session, Rowless
<1>4. CASE Restart
  BY <1>4, <1>f DEF Restart, ClearModels, ClearAll, tables, Rowless
<1>5. ASSUME NEW c \in Chats, Open(c) PROVE Rowless'
  BY <1>5, <1>f DEF Open, markRead, link, Rowless
<1>6. ASSUME NEW p \in Peers, WriteToPeer(p) PROVE Rowless'
  BY <1>6, <1>f DEF WriteToPeer, Persist, link, Rowless
<1>7. ASSUME NEW p \in Peers, PeerKeyArrives(p) PROVE Rowless'
  BY <1>7, <1>f DEF PeerKeyArrives, Persist, link, screen, Rowless
<1>8. ASSUME NEW p \in Peers, Incoming(p) PROVE Rowless'
  <2>e. Extended(p)
    <3>1. p \in Chats
      BY DEF Chats
    <3> QED BY <1>8, <3>1, NewMessage DEF Incoming
  <2>i. PICK inc \in Nat : inc = IF p = active THEN 0 ELSE 1
    OBVIOUS
  <2>c. count' = [count EXCEPT ![p] = count[p] + inc]
    BY <1>8, <2>i DEF Incoming
  <2>r. rows \subseteq rows' /\ (db => p \in rows')
    <3>1. p \in Chats
      BY DEF Chats
    <3>2. Persist({Newest}) /\ \A i \in {Newest} : made'[i].chat = p
      BY <1>8, <2>e DEF Incoming, Extended
    <3> QED BY <3>1, <3>2, PersistRows DEF Recorded
  <2> QED BY <1>8, <1>f, <2>c, <2>r DEF Incoming, link, Rowless, Flags
<1>9. ASSUME NEW p \in Peers, Echo(p) PROVE Rowless'
  BY <1>9, <1>f DEF Echo, Persist, link, session, Rowless
<1>10. ASSUME NEW p \in Peers, DeleteConversation(p) PROVE Rowless'
  BY <1>10, <1>f DEF DeleteConversation, DeleteRows, ClearAll, link, tables, session, wire,
     Rowless
<1>11. ASSUME NEW g \in GroupIds, WriteToGroup(g) PROVE Rowless'
  BY <1>11, <1>f DEF WriteToGroup, Persist, link, session, Rowless
<1>12. ASSUME NEW g \in GroupIds, GroupIncoming(g) PROVE Rowless'
  <2>e. Extended(g)
    <3>1. g \in Chats
      BY DEF Chats
    <3> QED BY <1>12, <3>1, NewMessage DEF GroupIncoming
  <2>i. PICK inc \in Nat : inc = IF g = active THEN 0 ELSE 1
    OBVIOUS
  <2>c. count' = [count EXCEPT ![g] = IF g \in rows THEN count[g] + inc ELSE count[g]]
    BY <1>12, <2>i DEF GroupIncoming, increment, Tables
  <2>r. rows \subseteq rows'
    BY <1>12 DEF GroupIncoming, Persist
  <2> QED BY <1>12, <1>f, <2>c, <2>r DEF GroupIncoming, link, Rowless, Flags
<1>13. ASSUME NEW g \in GroupIds, GroupInfo(g) PROVE Rowless'
  BY <1>13, <1>f DEF GroupInfo, link, session, wire, Rowless
<1>14. ASSUME NEW g \in GroupIds, GroupLeft(g) PROVE Rowless'
  BY <1>14, <1>f DEF GroupLeft, DeleteRows, link, tables, session, wire, Rowless
<1>15. ASSUME NEW i \in DOMAIN made, Delivered(i) PROVE Rowless'
  BY <1>15, <1>f DEF Delivered, link, session, Rowless
<1>16. ASSUME NEW i \in DOMAIN made, GroupDelivered(i) PROVE Rowless'
  BY <1>16, <1>f DEF GroupDelivered, link, session, Rowless
<1>17. ASSUME NEW i \in DOMAIN made, Seen(i) PROVE Rowless'
  BY <1>17, <1>f DEF Seen, link, session, Rowless
<1>18. CASE UNCHANGED vars
  BY <1>18 DEF vars, link, tables, screen, session, wire, Rowless
<1> QED
  BY <1>1, <1>2, <1>3, <1>4, <1>5, <1>6, <1>7, <1>8, <1>9, <1>10, <1>11, <1>12, <1>13, <1>14,
     <1>15, <1>16, <1>17, <1>18 DEF Next

\* A conversation that is not listed has nothing unread.
LEMMA UnlistedStep ==
    ASSUME OwnTitles, Flags, Messaging, Tables, WellListed(list), Idle, Rowless, Unlisted,
           [Next]_vars
    PROVE  Unlisted'
<1>f. /\ \A k \in DOMAIN list : list[k].badge \in Nat /\ list[k].chat \in Chats
      /\ \A k \in DOMAIN list : list[k].chat \in Listed(list)
      /\ Peers \subseteq Chats /\ GroupIds \subseteq Chats
      /\ count \in [Chats -> Nat]
  <2>1. \A k \in DOMAIN list : list[k].badge \in Nat /\ list[k].chat \in Chats
    BY EntryFields DEF WellListed
  <2> QED BY <2>1 DEF Listed, Chats, Tables
<1>1. CASE Login
  <2>1. PICK l : l = list
    OBVIOUS
  <2>2. PICK l2 : l2 = list'
    OBVIOUS
  <2>3. /\ Listed(l2) = Listed(l) \cup rows
        /\ \A k \in DOMAIN l2 :
             \/ l2[k].badge = count[l2[k].chat]
             \/ l2[k].chat \notin rows /\ \E m \in DOMAIN l : l2[k] = l[m]
    BY <1>1, <2>1, <2>2, LoadedList DEF Login, Tables
  <2> QED BY <1>1, <1>f, <2>1, <2>2, <2>3 DEF Login, tables, session, wire, Unlisted, Rowless
<1>2. CASE Logout
  BY <1>2, <1>f DEF Logout, ClearModels, ClearAll, tables, wire, Unlisted
<1>3. CASE Disconnect
  BY <1>3, <1>f DEF Disconnect, ClearModels, ClearAll, tables, session, Unlisted
<1>4. CASE Restart
  BY <1>4, <1>f DEF Restart, ClearModels, ClearAll, tables, Unlisted
<1>5. ASSUME NEW c \in Chats, Open(c) PROVE Unlisted'
  <2>1. /\ DOMAIN list' = DOMAIN list
        /\ \A k \in DOMAIN list :
             /\ list'[k].chat = list[k].chat
             /\ list'[k].badge = IF list[k].chat = c THEN 0 ELSE list[k].badge
    BY <1>5, SetBadge DEF Open, markRead
  <2>2. Listed(list') = Listed(list)
    BY <2>1 DEF Listed
  <2> QED BY <1>5, <1>f, <2>1, <2>2 DEF Open, markRead, link, Unlisted
<1>6. ASSUME NEW p \in Peers, WriteToPeer(p) PROVE Unlisted'
  <2>a. ListedTo(p, 0)
    BY <1>6, ListedPeer DEF WriteToPeer
  <2> QED BY <1>6, <1>f, <2>a DEF WriteToPeer, link, Unlisted, ListedTo
<1>7. ASSUME NEW p \in Peers, PeerKeyArrives(p) PROVE Unlisted'
  BY <1>7, <1>f DEF PeerKeyArrives, link, screen, Unlisted
<1>8. ASSUME NEW p \in Peers, Incoming(p) PROVE Unlisted'
  <2>i. PICK inc \in Nat : inc = IF p = active THEN 0 ELSE 1
    OBVIOUS
  <2>a. ListedTo(p, inc)
    BY <1>8, <2>i, ListedPeer DEF Incoming
  <2>c. count' = [count EXCEPT ![p] = count[p] + inc]
    BY <1>8, <2>i DEF Incoming
  <2> QED BY <1>8, <1>f, <2>a, <2>c DEF Incoming, link, Unlisted, ListedTo
<1>9. ASSUME NEW p \in Peers, Echo(p) PROVE Unlisted'
  <2>a. ListedTo(p, 0)
    BY <1>9, ListedPeer DEF Echo
  <2> QED BY <1>9, <1>f, <2>a DEF Echo, link, session, Unlisted, ListedTo
<1>10. ASSUME NEW p \in Peers, DeleteConversation(p) PROVE Unlisted'
  <2>1. Listed(list') = Listed(list) \ {p}
    BY <1>10, RemoveOne DEF DeleteConversation
  <2>2. \A k \in DOMAIN list' : \E m \in DOMAIN list :
           list'[k] = list[m] /\ list[m].chat # p
    BY <1>10, RemoveOne DEF DeleteConversation
  <2> QED
    BY <1>10, <1>f, <2>1, <2>2 DEF DeleteConversation, DeleteRows, ClearAll, link, tables,
       session, wire, Unlisted, Flags, Idle
<1>11. ASSUME NEW g \in GroupIds, WriteToGroup(g) PROVE Unlisted'
  <2>a. ListedTo(g, 0)
    BY <1>11, ListedGroup DEF WriteToGroup
  <2> QED BY <1>11, <1>f, <2>a DEF WriteToGroup, link, session, Unlisted, ListedTo
<1>12. ASSUME NEW g \in GroupIds, GroupIncoming(g) PROVE Unlisted'
  <2>i. PICK inc \in Nat : inc = IF g = active THEN 0 ELSE 1
    OBVIOUS
  <2>a. ListedTo(g, inc)
    BY <1>12, <2>i, ListedGroup DEF GroupIncoming
  <2>c. count' = [count EXCEPT ![g] = IF g \in rows THEN count[g] + inc ELSE count[g]]
    BY <1>12, <2>i DEF GroupIncoming, increment, Tables
  <2> QED BY <1>12, <1>f, <2>a, <2>c DEF GroupIncoming, link, Unlisted, ListedTo
<1>13. ASSUME NEW g \in GroupIds, GroupInfo(g) PROVE Unlisted'
  <2>a. ListedTo(g, 0)
    BY <1>13, ListedGroup DEF GroupInfo
  <2> QED BY <1>13, <1>f, <2>a DEF GroupInfo, link, session, wire, Unlisted, ListedTo
<1>14. ASSUME NEW g \in GroupIds, GroupLeft(g) PROVE Unlisted'
  <2>1. Listed(list') = Listed(list) \ {g}
    BY <1>14, RemoveOne DEF GroupLeft
  <2>2. \A k \in DOMAIN list' : \E m \in DOMAIN list :
           list'[k] = list[m] /\ list[m].chat # g
    BY <1>14, RemoveOne DEF GroupLeft
  <2> QED
    BY <1>14, <1>f, <2>1, <2>2 DEF GroupLeft, DeleteRows, link, tables, session, wire, Unlisted,
       Flags, Idle
<1>15. ASSUME NEW i \in DOMAIN made, Delivered(i) PROVE Unlisted'
  BY <1>15, <1>f DEF Delivered, link, session, Unlisted
<1>16. ASSUME NEW i \in DOMAIN made, GroupDelivered(i) PROVE Unlisted'
  BY <1>16, <1>f DEF GroupDelivered, link, session, Unlisted
<1>17. ASSUME NEW i \in DOMAIN made, Seen(i) PROVE Unlisted'
  BY <1>17, <1>f DEF Seen, link, session, Unlisted
<1>18. CASE UNCHANGED vars
  BY <1>18 DEF vars, link, tables, screen, session, wire, Unlisted
<1> QED
  BY <1>1, <1>2, <1>3, <1>4, <1>5, <1>6, <1>7, <1>8, <1>9, <1>10, <1>11, <1>12, <1>13, <1>14,
     <1>15, <1>16, <1>17, <1>18 DEF Next

\* The entry of a late echo has no badge.
LEMMA UnbadgedStep ==
    ASSUME OwnTitles, Flags, Messaging, Tables, WellListed(list), Idle, Unbadged, [Next]_vars
    PROVE  Unbadged'
<1>f. /\ \A k \in DOMAIN list : list[k].badge \in Nat /\ list[k].chat \in Chats
      /\ \A k \in DOMAIN list : list[k].chat \in Listed(list)
      /\ Peers \subseteq Chats /\ GroupIds \subseteq Chats
      /\ count \in [Chats -> Nat]
  <2>1. \A k \in DOMAIN list : list[k].badge \in Nat /\ list[k].chat \in Chats
    BY EntryFields DEF WellListed
  <2> QED BY <2>1 DEF Listed, Chats, Tables
<1>1. CASE Login
  BY <1>1, <1>f DEF Login, tables, session, wire, Unbadged
<1>2. CASE Logout
  BY <1>2, <1>f DEF Logout, ClearModels, ClearAll, tables, wire, Unbadged
<1>3. CASE Disconnect
  BY <1>3, <1>f DEF Disconnect, ClearModels, ClearAll, tables, session, Unbadged
<1>4. CASE Restart
  BY <1>4, <1>f DEF Restart, ClearModels, ClearAll, tables, Unbadged
<1>5. ASSUME NEW c \in Chats, Open(c) PROVE Unbadged'
  BY <1>5, <1>f DEF Open, link, Unbadged
<1>6. ASSUME NEW p \in Peers, WriteToPeer(p) PROVE Unbadged'
  BY <1>6, <1>f DEF WriteToPeer, link, Unbadged, Flags
<1>7. ASSUME NEW p \in Peers, PeerKeyArrives(p) PROVE Unbadged'
  BY <1>7, <1>f DEF PeerKeyArrives, link, screen, Unbadged
<1>8. ASSUME NEW p \in Peers, Incoming(p) PROVE Unbadged'
  BY <1>8, <1>f DEF Incoming, link, Unbadged, Flags
<1>9. ASSUME NEW p \in Peers, Echo(p) PROVE Unbadged'
  <2>a. ListedTo(p, 0)
    BY <1>9, ListedPeer DEF Echo
  <2> QED BY <1>9, <1>f, <2>a DEF Echo, link, session, Unbadged, ListedTo
<1>10. ASSUME NEW p \in Peers, DeleteConversation(p) PROVE Unbadged'
  <2>1. Listed(list') = Listed(list) \ {p}
    BY <1>10, RemoveOne DEF DeleteConversation
  <2>2. \A k \in DOMAIN list' : \E m \in DOMAIN list :
           list'[k] = list[m] /\ list[m].chat # p
    BY <1>10, RemoveOne DEF DeleteConversation
  <2> QED
    BY <1>10, <1>f, <2>1, <2>2 DEF DeleteConversation, ClearAll, link, tables, session, wire,
       Unbadged, Flags, Idle
<1>11. ASSUME NEW g \in GroupIds, WriteToGroup(g) PROVE Unbadged'
  BY <1>11, <1>f DEF WriteToGroup, link, session, Unbadged, Flags
<1>12. ASSUME NEW g \in GroupIds, GroupIncoming(g) PROVE Unbadged'
  BY <1>12, <1>f DEF GroupIncoming, link, Unbadged, Flags
<1>13. ASSUME NEW g \in GroupIds, GroupInfo(g) PROVE Unbadged'
  <2>a. ListedTo(g, 0)
    BY <1>13, ListedGroup DEF GroupInfo
  <2> QED BY <1>13, <1>f, <2>a DEF GroupInfo, link, session, wire, Unbadged, ListedTo
<1>14. ASSUME NEW g \in GroupIds, GroupLeft(g) PROVE Unbadged'
  <2>1. Listed(list') = Listed(list) \ {g}
    BY <1>14, RemoveOne DEF GroupLeft
  <2>2. \A k \in DOMAIN list' : \E m \in DOMAIN list :
           list'[k] = list[m] /\ list[m].chat # g
    BY <1>14, RemoveOne DEF GroupLeft
  <2> QED
    BY <1>14, <1>f, <2>1, <2>2 DEF GroupLeft, link, tables, session, wire, Unbadged, Flags, Idle
<1>15. ASSUME NEW i \in DOMAIN made, Delivered(i) PROVE Unbadged'
  BY <1>15, <1>f DEF Delivered, link, session, Unbadged
<1>16. ASSUME NEW i \in DOMAIN made, GroupDelivered(i) PROVE Unbadged'
  BY <1>16, <1>f DEF GroupDelivered, link, session, Unbadged
<1>17. ASSUME NEW i \in DOMAIN made, Seen(i) PROVE Unbadged'
  BY <1>17, <1>f DEF Seen, link, session, Unbadged
<1>18. CASE UNCHANGED vars
  BY <1>18 DEF vars, link, tables, screen, session, wire, Unbadged
<1> QED
  BY <1>1, <1>2, <1>3, <1>4, <1>5, <1>6, <1>7, <1>8, <1>9, <1>10, <1>11, <1>12, <1>13, <1>14,
     <1>15, <1>16, <1>17, <1>18 DEF Next

\* The badge and the counter change together.
LEMMA BadgeStoredStep ==
    ASSUME OwnTitles, Flags, Messaging, Tables, WellListed(list), Idle, Rowless, Unlisted,
           Unbadged, BadgeStored, [Next]_vars
    PROVE  BadgeStored'
<1>f. /\ \A k \in DOMAIN list : list[k].badge \in Nat /\ list[k].chat \in Chats
      /\ \A k \in DOMAIN list : list[k].chat \in Listed(list)
      /\ Peers \subseteq Chats /\ GroupIds \subseteq Chats
      /\ count \in [Chats -> Nat]
  <2>1. \A k \in DOMAIN list : list[k].badge \in Nat /\ list[k].chat \in Chats
    BY EntryFields DEF WellListed
  <2> QED BY <2>1 DEF Listed, Chats, Tables
<1>1. CASE Login
  <2>1. PICK l : l = list
    OBVIOUS
  <2>2. PICK l2 : l2 = list'
    OBVIOUS
  <2>3. /\ Listed(l2) = Listed(l) \cup rows
        /\ \A k \in DOMAIN l2 :
             \/ l2[k].badge = count[l2[k].chat]
             \/ l2[k].chat \notin rows /\ \E m \in DOMAIN l : l2[k] = l[m]
    BY <1>1, <2>1, <2>2, LoadedList DEF Login, Tables
  <2>4. \A k \in DOMAIN l2 : l2[k].badge = count[l2[k].chat]
    BY <1>1, <1>f, <2>1, <2>3 DEF Login, Rowless, Unbadged
  <2> QED BY <1>1, <1>f, <2>2, <2>4 DEF Login, tables, session, wire, BadgeStored
<1>2. CASE Logout
  BY <1>2, <1>f DEF Logout, ClearModels, ClearAll, tables, wire, BadgeStored
<1>3. CASE Disconnect
  BY <1>3, <1>f DEF Disconnect, ClearModels, ClearAll, tables, session, BadgeStored
<1>4. CASE Restart
  BY <1>4, <1>f DEF Restart, ClearModels, ClearAll, tables, BadgeStored
<1>5. ASSUME NEW c \in Chats, Open(c) PROVE BadgeStored'
  <2>1. /\ DOMAIN list' = DOMAIN list
        /\ \A k \in DOMAIN list :
             /\ list'[k].chat = list[k].chat
             /\ list'[k].badge = IF list[k].chat = c THEN 0 ELSE list[k].badge
    BY <1>5, SetBadge DEF Open, markRead
  <2>2. Listed(list') = Listed(list)
    BY <2>1 DEF Listed
  <2>3. /\ c \in Listed(list) => Position(list, c) \in DOMAIN list
        /\ c \in Listed(list) => list[Position(list, c)].chat = c
    BY PositionFound DEF WellListed
  <2>4. ASSUME c \in Listed(list) PROVE count'[c] = 0 \/ c \in bare
    <3>1. PICK at \in DOMAIN list : at = Position(list, c) /\ list[at].chat = c
      BY <2>3, <2>4
    <3>2. at # 0
      BY DEF WellListed
    <3>3. list[at].badge = count[c] \/ c \in bare
      BY <1>5, <3>1 DEF Open, BadgeStored
    <3>4. count' = IF list[at].badge # 0 THEN [count EXCEPT ![c] = 0] ELSE count
      BY <1>5, <3>1, <3>2 DEF Open, markRead
    <3> QED BY <1>f, <3>3, <3>4
  <2>5. \A d \in Chats : d # c => count'[d] = count[d]
    BY <1>5, <1>f DEF Open, markRead
  <2> QED BY <1>5, <1>f, <2>1, <2>4, <2>5 DEF Open, link, BadgeStored
<1>6. ASSUME NEW p \in Peers, WriteToPeer(p) PROVE BadgeStored'
  <2>a. ListedTo(p, 0)
    BY <1>6, ListedPeer DEF WriteToPeer
  <2> QED BY <1>6, <1>f, <2>a DEF WriteToPeer, link, BadgeStored, ListedTo, Unlisted
<1>7. ASSUME NEW p \in Peers, PeerKeyArrives(p) PROVE BadgeStored'
  BY <1>7, <1>f DEF PeerKeyArrives, link, screen, BadgeStored
<1>8. ASSUME NEW p \in Peers, Incoming(p) PROVE BadgeStored'
  <2>i. PICK inc \in Nat : inc = IF p = active THEN 0 ELSE 1
    OBVIOUS
  <2>a. ListedTo(p, inc)
    BY <1>8, <2>i, ListedPeer DEF Incoming
  <2>c. count' = [count EXCEPT ![p] = count[p] + inc]
    BY <1>8, <2>i DEF Incoming
  <2> QED BY <1>8, <1>f, <2>a, <2>c DEF Incoming, link, BadgeStored, ListedTo, Unlisted
<1>9. ASSUME NEW p \in Peers, Echo(p) PROVE BadgeStored'
  <2>a. ListedTo(p, 0)
    BY <1>9, ListedPeer DEF Echo
  <2> QED BY <1>9, <1>f, <2>a DEF Echo, link, session, BadgeStored, ListedTo, Unlisted
<1>10. ASSUME NEW p \in Peers, DeleteConversation(p) PROVE BadgeStored'
  <2>1. Listed(list') = Listed(list) \ {p}
    BY <1>10, RemoveOne DEF DeleteConversation
  <2>2. \A k \in DOMAIN list' : \E m \in DOMAIN list :
           list'[k] = list[m] /\ list[m].chat # p
    BY <1>10, RemoveOne DEF DeleteConversation
  <2> QED
    BY <1>10, <1>f, <2>1, <2>2 DEF DeleteConversation, DeleteRows, ClearAll, link, tables,
       session, wire, BadgeStored, Flags, Idle
<1>11. ASSUME NEW g \in GroupIds, WriteToGroup(g) PROVE BadgeStored'
  <2>a. ListedTo(g, 0)
    BY <1>11, ListedGroup DEF WriteToGroup
  <2> QED BY <1>11, <1>f, <2>a DEF WriteToGroup, link, session, BadgeStored, ListedTo, Unlisted
<1>12. ASSUME NEW g \in GroupIds, GroupIncoming(g) PROVE BadgeStored'
  <2>i. PICK inc \in Nat : inc = IF g = active THEN 0 ELSE 1
    OBVIOUS
  <2>a. ListedTo(g, inc)
    BY <1>12, <2>i, ListedGroup DEF GroupIncoming
  <2>c. count' = [count EXCEPT ![g] = IF g \in rows THEN count[g] + inc ELSE count[g]]
    BY <1>12, <2>i DEF GroupIncoming, increment, Tables
  <2>b. me /\ bare' = (IF g \in rows THEN bare ELSE bare \cup {g})
    BY <1>12 DEF GroupIncoming
  <2>1. \A k \in DOMAIN list' : list'[k].chat \in Chats
    BY <1>f, <2>a DEF ListedTo
  <2>2. CASE g \in rows
    <3>1. count'[g] = count[g] + inc /\ \A d \in Chats : d # g => count'[d] = count[d]
      BY <1>f, <2>2, <2>c
    <3>2. g \notin Listed(list) => count[g] = 0
      BY <1>f, <2>b DEF Unlisted
    <3> QED BY <1>f, <2>a, <2>b, <2>1, <2>2, <3>1, <3>2 DEF BadgeStored, ListedTo
  <2>3. CASE g \notin rows
    <3>1. g \in bare' /\ \A d \in Chats : count'[d] = count[d]
      BY <1>f, <2>3, <2>b, <2>c
    <3> QED BY <1>f, <2>a, <2>b, <2>1, <2>3, <3>1 DEF BadgeStored, ListedTo
  <2> QED BY <2>2, <2>3
<1>13. ASSUME NEW g \in GroupIds, GroupInfo(g) PROVE BadgeStored'
  <2>a. ListedTo(g, 0)
    BY <1>13, ListedGroup DEF GroupInfo
  <2> QED
    BY <1>13, <1>f, <2>a DEF GroupInfo, link, session, wire, BadgeStored, ListedTo, Unlisted
<1>14. ASSUME NEW g \in GroupIds, GroupLeft(g) PROVE BadgeStored'
  <2>1. Listed(list') = Listed(list) \ {g}
    BY <1>14, RemoveOne DEF GroupLeft
  <2>2. \A k \in DOMAIN list' : \E m \in DOMAIN list :
           list'[k] = list[m] /\ list[m].chat # g
    BY <1>14, RemoveOne DEF GroupLeft
  <2> QED
    BY <1>14, <1>f, <2>1, <2>2 DEF GroupLeft, DeleteRows, link, tables, session, wire,
       BadgeStored, Flags, Idle
<1>15. ASSUME NEW i \in DOMAIN made, Delivered(i) PROVE BadgeStored'
  BY <1>15, <1>f DEF Delivered, link, session, BadgeStored
<1>16. ASSUME NEW i \in DOMAIN made, GroupDelivered(i) PROVE BadgeStored'
  BY <1>16, <1>f DEF GroupDelivered, link, session, BadgeStored
<1>17. ASSUME NEW i \in DOMAIN made, Seen(i) PROVE BadgeStored'
  BY <1>17, <1>f DEF Seen, link, session, BadgeStored
<1>18. CASE UNCHANGED vars
  BY <1>18 DEF vars, link, tables, screen, session, wire, BadgeStored
<1> QED
  BY <1>1, <1>2, <1>3, <1>4, <1>5, <1>6, <1>7, <1>8, <1>9, <1>10, <1>11, <1>12, <1>13, <1>14,
     <1>15, <1>16, <1>17, <1>18 DEF Next

\* Nothing in the open conversation stays unread.
LEMMA OpenIsReadStep ==
    ASSUME OwnTitles, Flags, Messaging, Tables, WellListed(list), Idle, WellListed(list'),
           OpenIsRead, [Next]_vars
    PROVE  OpenIsRead'
<1>f. /\ \A k \in DOMAIN list : list[k].badge \in Nat /\ list[k].chat \in Chats
      /\ \A k \in DOMAIN list : list[k].chat \in Listed(list)
      /\ Peers \subseteq Chats /\ GroupIds \subseteq Chats
      /\ count \in [Chats -> Nat]
  <2>1. \A k \in DOMAIN list : list[k].badge \in Nat /\ list[k].chat \in Chats
    BY EntryFields DEF WellListed
  <2> QED BY <2>1 DEF Listed, Chats, Tables
<1>1. CASE Login
  <2>1. PICK l2 \in Seq(Entries) : l2 = list'
    BY DEF WellListed
  <2>2. \A k \in DOMAIN l2 : l2[k].chat \in Chats
    BY <2>1, EntryFields
  <2> QED
    BY <1>1, <1>f, <2>1, <2>2, ClientViewConstants DEF Login, tables, session, wire, OpenIsRead,
       Idle, Chats, OpenIsRead
<1>2. CASE Logout
  BY <1>2, <1>f, MadeIds, ClientViewConstants DEF Logout, ClearModels, tables, wire, OpenIsRead,
     Messaging, Chats
<1>3. CASE Disconnect
  BY <1>3, <1>f, MadeIds, ClientViewConstants DEF Disconnect, ClearModels, tables, session,
     OpenIsRead, Messaging, Chats
<1>4. CASE Restart
  BY <1>4, <1>f, MadeIds, ClientViewConstants DEF Restart, ClearModels, tables, OpenIsRead,
     Messaging, Chats
<1>5. ASSUME NEW c \in Chats, Open(c) PROVE OpenIsRead'
  <2>1. /\ DOMAIN list' = DOMAIN list
        /\ \A k \in DOMAIN list :
             /\ list'[k].chat = list[k].chat
             /\ list'[k].badge = IF list[k].chat = c THEN 0 ELSE list[k].badge
    BY <1>5, SetBadge DEF Open, markRead
  <2>2. Listed(list') = Listed(list)
    BY <2>1 DEF Listed
  <2> QED BY <1>5, <1>f, <2>1 DEF Open, MarkConversationRead, link, OpenIsRead
<1>6. ASSUME NEW p \in Peers, WriteToPeer(p) PROVE OpenIsRead'
  <2>e. Extended(p)
    <3>1. p \in Chats
      BY DEF Chats
    <3> QED BY <1>6, <3>1, NewMessage DEF WriteToPeer
  <2>a. ListedTo(p, 0)
    BY <1>6, ListedPeer DEF WriteToPeer
  <2>1. \A k \in DOMAIN list' : list'[k].chat = active => list'[k].badge = 0
    BY <1>f, <2>a DEF ListedTo, OpenIsRead
  <2> QED BY <1>6, <1>f, <2>e, <2>1 DEF WriteToPeer, link, OpenIsRead, Extended, Messaging
<1>7. ASSUME NEW p \in Peers, PeerKeyArrives(p) PROVE OpenIsRead'
  BY <1>7, <1>f DEF PeerKeyArrives, link, screen, OpenIsRead
<1>8. ASSUME NEW p \in Peers, Incoming(p) PROVE OpenIsRead'
  <2>e. Extended(p)
    <3>1. p \in Chats
      BY DEF Chats
    <3> QED BY <1>8, <3>1, NewMessage DEF Incoming
  <2>i. PICK inc \in Nat : inc = IF p = active THEN 0 ELSE 1
    OBVIOUS
  <2>a. ListedTo(p, inc)
    BY <1>8, <2>i, ListedPeer DEF Incoming
  <2>1. \A k \in DOMAIN list' : list'[k].chat = active => list'[k].badge = 0
    BY <1>f, <2>a, <2>i DEF ListedTo, OpenIsRead
  <2> QED
    BY <1>8, <1>f, <2>e, <2>1 DEF Incoming, MarkConversationRead, link, OpenIsRead, Extended,
       Messaging
<1>9. ASSUME NEW p \in Peers, Echo(p) PROVE OpenIsRead'
  <2>e. Extended(p)
    <3>1. p \in Chats
      BY DEF Chats
    <3> QED BY <1>9, <3>1, NewMessage DEF Echo
  <2>a. ListedTo(p, 0)
    BY <1>9, ListedPeer DEF Echo
  <2>1. \A k \in DOMAIN list' : list'[k].chat = active => list'[k].badge = 0
    BY <1>f, <2>a DEF ListedTo, OpenIsRead
  <2> QED BY <1>9, <1>f, <2>e, <2>1 DEF Echo, link, session, OpenIsRead, Extended, Messaging
<1>10. ASSUME NEW p \in Peers, DeleteConversation(p) PROVE OpenIsRead'
  <2>1. Listed(list') = Listed(list) \ {p}
    BY <1>10, RemoveOne DEF DeleteConversation
  <2>2. \A k \in DOMAIN list' : \E m \in DOMAIN list :
           list'[k] = list[m] /\ list[m].chat # p
    BY <1>10, RemoveOne DEF DeleteConversation
  <2> QED
    BY <1>10, <1>f, <2>1, <2>2, MadeIds, ClientViewConstants DEF DeleteConversation, ClearAll,
       link, tables, session, wire, OpenIsRead, Messaging, Chats
<1>11. ASSUME NEW g \in GroupIds, WriteToGroup(g) PROVE OpenIsRead'
  <2>e. Extended(g)
    <3>1. g \in Chats
      BY DEF Chats
    <3> QED BY <1>11, <3>1, NewMessage DEF WriteToGroup
  <2>a. ListedTo(g, 0)
    BY <1>11, ListedGroup DEF WriteToGroup
  <2>1. \A k \in DOMAIN list' : list'[k].chat = active => list'[k].badge = 0
    BY <1>f, <2>a DEF ListedTo, OpenIsRead
  <2> QED
    BY <1>11, <1>f, <2>e, <2>1 DEF WriteToGroup, link, session, OpenIsRead, Extended, Messaging
<1>12. ASSUME NEW g \in GroupIds, GroupIncoming(g) PROVE OpenIsRead'
  <2>e. Extended(g)
    <3>1. g \in Chats
      BY DEF Chats
    <3> QED BY <1>12, <3>1, NewMessage DEF GroupIncoming
  <2>i. PICK inc \in Nat : inc = IF g = active THEN 0 ELSE 1
    OBVIOUS
  <2>a. ListedTo(g, inc)
    BY <1>12, <2>i, ListedGroup DEF GroupIncoming
  <2>1. \A k \in DOMAIN list' : list'[k].chat = active => list'[k].badge = 0
    BY <1>f, <2>a, <2>i DEF ListedTo, OpenIsRead
  <2> QED
    BY <1>12, <1>f, <2>e, <2>1 DEF GroupIncoming, MarkConversationRead, link, OpenIsRead,
       Extended, Messaging
<1>13. ASSUME NEW g \in GroupIds, GroupInfo(g) PROVE OpenIsRead'
  <2>a. ListedTo(g, 0)
    BY <1>13, ListedGroup DEF GroupInfo
  <2> QED BY <1>13, <1>f, <2>a DEF GroupInfo, link, session, wire, OpenIsRead, ListedTo
<1>14. ASSUME NEW g \in GroupIds, GroupLeft(g) PROVE OpenIsRead'
  <2>1. Listed(list') = Listed(list) \ {g}
    BY <1>14, RemoveOne DEF GroupLeft
  <2>2. \A k \in DOMAIN list' : \E m \in DOMAIN list :
           list'[k] = list[m] /\ list[m].chat # g
    BY <1>14, RemoveOne DEF GroupLeft
  <2> QED
    BY <1>14, <1>f, <2>1, <2>2, MadeIds, ClientViewConstants DEF GroupLeft, ClearAll, link,
       tables, session, wire, OpenIsRead, Messaging, Chats
<1>15. ASSUME NEW i \in DOMAIN made, Delivered(i) PROVE OpenIsRead'
  BY <1>15, <1>f DEF Delivered, link, session, OpenIsRead
<1>16. ASSUME NEW i \in DOMAIN made, GroupDelivered(i) PROVE OpenIsRead'
  BY <1>16, <1>f DEF GroupDelivered, link, session, OpenIsRead
<1>17. ASSUME NEW i \in DOMAIN made, Seen(i) PROVE OpenIsRead'
  BY <1>17, <1>f DEF Seen, link, session, OpenIsRead
<1>18. CASE UNCHANGED vars
  BY <1>18 DEF vars, link, tables, screen, session, wire, OpenIsRead
<1> QED
  BY <1>1, <1>2, <1>3, <1>4, <1>5, <1>6, <1>7, <1>8, <1>9, <1>10, <1>11, <1>12, <1>13, <1>14,
     <1>15, <1>16, <1>17, <1>18 DEF Next

\* The badges rest on this.
BadgesInv == HistInv /\ BadgeInv

\* At the start there are none.
LEMMA BadgesInit ==
    Init => BadgesInv
<1> SUFFICES ASSUME Init PROVE BadgesInv
  OBVIOUS
<1>1. HistInv
  BY HistInit
<1>2. BadgeInv
  BY DEF Init, BadgeInv, Rowless, Unlisted, Unbadged, BadgeStored, OpenIsRead, Chats
<1> QED BY <1>1, <1>2 DEF BadgesInv

\* Every action keeps it.
LEMMA BadgesStep ==
    ASSUME OwnTitles, BadgesInv, [Next]_vars
    PROVE  BadgesInv'
<1>1. /\ HistInv /\ Flags /\ Messaging /\ Tables /\ WellListed(list) /\ Idle
      /\ Rowless /\ Unlisted /\ Unbadged /\ BadgeStored /\ OpenIsRead
  BY DEF BadgesInv, BadgeInv, HistInv, Typed, Shapes, ViewInv
<1>2. HistInv'
  BY <1>1, HistStep
<1>3. WellListed(list')
  BY <1>1, WellListedStep
<1>4. Rowless'
  BY <1>1, RowlessStep
<1>5. Unlisted'
  BY <1>1, UnlistedStep
<1>6. Unbadged'
  BY <1>1, UnbadgedStep
<1>7. BadgeStored'
  BY <1>1, BadgeStoredStep
<1>8. OpenIsRead'
  BY <1>1, <1>3, OpenIsReadStep
<1> QED BY <1>2, <1>4, <1>5, <1>6, <1>7, <1>8 DEF BadgesInv, BadgeInv

(***************************************************************************)
(* The badge of a conversation is its unread_count in SQLite, if no group  *)
(* has the name of a peer (addOrUpdate would raise the badge of the group  *)
(* and the counter of the peer, ConversationListModel.cpp:11-22) and but   *)
(* for a group that got a message in this session before it had a row.     *)
(***************************************************************************)
THEOREM BadgesAreStored ==
    ASSUME OwnTitles
    PROVE  Spec => []BadgeStored
<1>1. Init => BadgesInv
  BY BadgesInit
<1>2. BadgesInv /\ [Next]_vars => BadgesInv'
  BY BadgesStep
<1>3. BadgesInv => BadgeStored
  BY DEF BadgesInv, BadgeInv
<1> QED BY <1>1, <1>2, <1>3, PTL DEF Spec

(***************************************************************************)
(* What is open is read: its messages are in no list of unread ones and    *)
(* its entry has no badge, under the same condition.                       *)
(***************************************************************************)
THEOREM OpenReadAlways ==
    ASSUME OwnTitles
    PROVE  Spec => []OpenIsRead
<1>1. Init => BadgesInv
  BY BadgesInit
<1>2. BadgesInv /\ [Next]_vars => BadgesInv'
  BY BadgesStep
<1>3. BadgesInv => OpenIsRead
  BY DEF BadgesInv, BadgeInv
<1> QED BY <1>1, <1>2, <1>3, PTL DEF Spec
=============================================================================
