--------------------- MODULE PendingNotificationsProofs ---------------------
(***************************************************************************)
(* Safety of PendingNotifications for any number of producing threads,     *)
(* connections of the recipient and notifications.                         *)
(***************************************************************************)
EXTENDS PendingNotifications, FiniteSetTheorems, SequenceTheorems, WellFoundedInduction, TLAPS

\* Rows that a login has read are in its hands only until it has sent them.
BatchInFlush ==
    \A c \in Conns : login[c] \notin {"clear", "flush"} => batch[c] = {}

\* Between its SELECT and its DELETE a login has read every row, but for
\* those inserted since.
ReadOrLate ==
    \A c \in Conns : login[c] = "clear" => pending \subseteq batch[c] \cup late

LossInv == TypeOK /\ BatchInFlush /\ ReadOrLate /\ LossCauses

\* There is one copy of a notification that is still to be sent: with its
\* handler, in the table, or in the batch of a login.  The batch and the
\* table overlap only between the SELECT and the DELETE.
OneCopy ==
    /\ \A p, q \in Producers : note[p] # 0 /\ note[p] = note[q] => p = q
    /\ \A p \in Producers : note[p] \notin pending
    /\ \A p \in Producers, c \in Conns : note[p] \notin batch[c]
    /\ \A c \in Conns : login[c] # "clear" => pending \cap batch[c] = {}

\* What is still to be sent was not sent.
Unsent ==
    /\ \A n \in Notes : n > issued => got[n] = 0
    /\ \A p \in Producers : note[p] # 0 => got[note[p]] = 0
    /\ \A n \in pending : got[n] = 0
    /\ \A c \in Conns : \A n \in batch[c] : got[n] = 0

\* The recipient has one device, which opens one connection at a time.
OneConnection == \A c, d \in Conns : c = d

OnceInv == TypeOK /\ BatchInFlush /\ OneCopy /\ Unsent /\ SentOnce
-----------------------------------------------------------------------------
\* A non-empty set of natural numbers has a least element.
LEMMA LeastNatural ==
    ASSUME NEW T \in SUBSET Nat, T # {}
    PROVE  \E n \in T : \A m \in T : n <= m
<1> DEFINE D == {0..n : n \in T}
<1>1. IsWellFoundedOn(StrictSubsetOrdering(Nat), FiniteSubsetsOf(Nat))
  BY FS_StrictSubsetOrderingWellFounded
<1>2. \A n \in T : 0..n \in FiniteSubsetsOf(Nat)
  <2> SUFFICES ASSUME NEW n \in T PROVE 0..n \in FiniteSubsetsOf(Nat)
    OBVIOUS
  <2>1. IsFiniteSet(0..n)
    BY FS_Interval
  <2> QED
    BY <2>1 DEF FiniteSubsetsOf
<1>3. D \subseteq FiniteSubsetsOf(Nat) /\ D # {}
  BY <1>2
<1>4. \E x \in D : \A y \in D : ~(<<y, x>> \in StrictSubsetOrdering(Nat))
  <2> HIDE DEF D
  <2> QED
    BY <1>1, <1>3, WFMin
<1>5. PICK n \in T : \A y \in D : ~(<<y, 0..n>> \in StrictSubsetOrdering(Nat))
  BY <1>4
<1>6. \A m \in T : n <= m
  <2> SUFFICES ASSUME NEW m \in T, m < n
               PROVE  FALSE
    OBVIOUS
  <2>1. ~(<<0..m, 0..n>> \in StrictSubsetOrdering(Nat))
    BY <1>5
  <2>2. 0..m \subseteq 0..n /\ 0..m # 0..n
    OBVIOUS
  <2> QED
    BY <2>1, <2>2 DEF StrictSubsetOrdering
<1> QED
  BY <1>6

\* Taking an element out of a sequence leaves a sequence over the same set.
LEMMA RemoveFirstType ==
    ASSUME NEW S, NEW s \in Seq(S), NEW e
    PROVE  RemoveFirst(s, e) \in Seq(S)
<1> DEFINE I == {i \in 1..Len(s) : s[i] = e}
<1>1. CASE I = {}
  BY <1>1 DEF RemoveFirst
<1>2. CASE I # {}
  <2> I \in SUBSET Nat
    OBVIOUS
  <2>1. PICK n \in I : \A m \in I : n <= m
    <3> HIDE DEF I
    <3> QED
      BY <1>2, LeastNatural
  <2>2. Min(I) \in I
    <3> HIDE DEF I
    <3> QED
      BY <2>1 DEF Min
  <2>3. RemoveFirst(s, e) = SubSeq(s, 1, Min(I) - 1) \o SubSeq(s, Min(I) + 1, Len(s))
    BY <1>2 DEF RemoveFirst, RemoveAt, SelectInSeq
  <2>4. Min(I) \in 1..Len(s)
    BY <2>2
  <2>5. \A j \in 1..Len(s) : s[j] \in S
    OBVIOUS
  <2>6. SubSeq(s, 1, Min(I) - 1) \in Seq(S) /\ SubSeq(s, Min(I) + 1, Len(s)) \in Seq(S)
    <3> HIDE DEF I
    <3> QED
      BY <2>4, <2>5, SubSeqProperties
  <2> QED
    BY <2>3, <2>6
<1> QED
  BY <1>1, <1>2


\* The initial state.
LEMMA NotificationInit == Init => LossInv /\ OnceInv
BY NotificationConstants
   DEF Init, LossInv, OnceInv, TypeOK, Notes, BatchInFlush, ReadOrLate, LossCauses, OneCopy,
       Unsent, SentOnce

\* Every step keeps the types.
LEMMA TypeStep == TypeOK /\ [Next]_vars => TypeOK'
<1> SUFFICES ASSUME TypeOK, [Next]_vars
             PROVE  TypeOK'
    OBVIOUS
<1> USE NotificationConstants
<1>1. ASSUME NEW p \in Producers, Produce(p) PROVE TypeOK'
  BY <1>1, SMTT(30) DEF Produce, recipient, TypeOK, Notes
<1>2. ASSUME NEW p \in Producers, FindClient(p) PROVE TypeOK'
  <2>1. clients # <<>> => Head(clients) \in Conns
    BY DEF TypeOK
  <2> QED
    BY <1>2, <2>1 DEF FindClient, recipient, TypeOK, Notes
<1>3. ASSUME NEW p \in Producers, Send(p) PROVE TypeOK'
  <2>1. note[p] \in 1..issued /\ note[p] \in Notes
    BY <1>3 DEF Send, TypeOK, Notes
  <2>2. \/ got' = [got EXCEPT ![note[p]] = got[note[p]] + 1] /\ blind' = blind
        \/ got' = got /\ blind' = blind \cup {note[p]}
    BY <1>3 DEF Send
  <2>3. got' \in [Notes -> Nat] /\ blind' \subseteq 1..issued
    <3>1. got \in [Notes -> Nat] /\ blind \subseteq 1..issued
      BY DEF TypeOK
    <3>2. got' \in [Notes -> Nat]
      BY <2>1, <2>2, <3>1
    <3>3. blind' \subseteq 1..issued
      BY <2>1, <2>2, <3>1
    <3> QED
      BY <3>2, <3>3
  <2> QED
    BY <1>3, <2>3 DEF Send, recipient, TypeOK
<1>4. ASSUME NEW p \in Producers, SendThrows(p) PROVE TypeOK'
  BY <1>4 DEF SendThrows, recipient, TypeOK, Notes
<1>5. ASSUME NEW p \in Producers, Queue(p) PROVE TypeOK'
  <2>1. note[p] \in 1..issued
    BY <1>5 DEF Queue, TypeOK
  <2>2. pending' \subseteq 1..issued /\ late' \subseteq 1..issued
    BY <1>5, <2>1 DEF Queue, TypeOK
  <2> QED
    BY <1>5, <2>2 DEF Queue, recipient, TypeOK, Notes
<1>6. ASSUME NEW c \in Conns, Login(c) PROVE TypeOK'
  BY <1>6 DEF Login, producer, TypeOK, Notes
<1>7. ASSUME NEW c \in Conns, Close(c) PROVE TypeOK'
  BY <1>7 DEF Close, producer, TypeOK, Notes
<1>8. ASSUME NEW c \in Conns, Select(c) PROVE TypeOK'
  BY <1>8 DEF Select, producer, TypeOK, Notes
<1>9. ASSUME NEW c \in Conns, Clear(c) PROVE TypeOK'
  BY <1>9 DEF Clear, producer, TypeOK, Notes
<1>10. ASSUME NEW c \in Conns, FlushOne(c) PROVE TypeOK'
  <2>1. PICK n \in batch[c] :
          /\ \/ got' = [got EXCEPT ![n] = got[n] + 1] /\ blind' = blind
             \/ got' = got /\ blind' = blind \cup {n}
          /\ batch' = [batch EXCEPT ![c] = @ \ {n}]
    BY <1>10 DEF FlushOne
  <2>2. n \in 1..issued /\ n \in Notes
    BY DEF TypeOK, Notes
  <2>3. got' \in [Notes -> Nat] /\ blind' \subseteq 1..issued
    <3>1. got \in [Notes -> Nat] /\ blind \subseteq 1..issued
      BY DEF TypeOK
    <3>2. got' \in [Notes -> Nat]
      BY <2>1, <2>2, <3>1
    <3>3. blind' \subseteq 1..issued
      BY <2>1, <2>2, <3>1
    <3> QED
      BY <3>2, <3>3
  <2>4. batch' \in [Conns -> SUBSET (1..issued)]
    BY <2>1 DEF TypeOK
  <2> QED
    BY <1>10, <2>3, <2>4 DEF FlushOne, producer, TypeOK, Notes
<1>11. ASSUME NEW c \in Conns, Join(c) PROVE TypeOK'
  BY <1>11, SMTT(30) DEF Join, producer, TypeOK, Notes
<1>12. ASSUME NEW c \in Conns, Leave(c) PROVE TypeOK'
  <2>1. clients' \in Seq(Conns)
    BY <1>12, RemoveFirstType DEF Leave, TypeOK
  <2> QED
    BY <1>12, <2>1 DEF Leave, producer, TypeOK, Notes
<1>13. CASE UNCHANGED vars
  BY <1>13 DEF vars, producer, recipient, TypeOK, Notes
<1>14. ASSUME NEW p \in Producers, QueueFails(p) PROVE TypeOK'
  <2>1. note[p] \in 1..issued
    BY <1>14 DEF QueueFails, TypeOK
  <2>2. cut' \subseteq 1..issued
    BY <1>14, <2>1 DEF QueueFails, TypeOK
  <2>3. faults' \in 0..MaxFaults
    BY <1>14 DEF QueueFails, TypeOK
  <2> QED
    BY <1>14, <2>2, <2>3 DEF QueueFails, recipient, TypeOK, Notes
<1>15. ASSUME NEW c \in Conns, FindAndClearFails(c) PROVE TypeOK'
  <2>1. faults' \in 0..MaxFaults
    BY <1>15 DEF FindAndClearFails, TypeOK
  <2>2. pending' \subseteq 1..issued /\ cut' \subseteq 1..issued
    BY <1>15 DEF FindAndClearFails, TypeOK
  <2>3. batch' \in [Conns -> SUBSET (1..issued)]
    BY <1>15 DEF FindAndClearFails, TypeOK
  <2>4. login' \in [Conns -> {"off", "select", "clear", "flush", "unlisted", "idle"}]
    BY <1>15 DEF FindAndClearFails, TypeOK
  <2> QED
    BY <1>15, <2>1, <2>2, <2>3, <2>4 DEF FindAndClearFails, producer, TypeOK
<1>16. CASE Crash
  <2>1. cut' \subseteq 1..issued
    <3>1. \A p \in Producers : pc[p] # "idle" => note[p] \in 1..issued
      BY DEF TypeOK
    <3> QED
      BY <1>16, <3>1 DEF Crash, TypeOK
  <2>2. faults' \in 0..MaxFaults /\ clients' \in Seq(Conns)
    BY <1>16 DEF Crash, TypeOK
  <2>3. /\ note' \in [Producers -> 0..issued] /\ batch' \in [Conns -> SUBSET (1..issued)]
        /\ up' \in [Conns -> BOOLEAN]
    BY <1>16 DEF Crash, TypeOK
  <2> QED
    BY <1>16, <2>1, <2>2, <2>3 DEF Crash, TypeOK
<1> QED
  BY <1>1, <1>2, <1>3, <1>4, <1>5, <1>6, <1>7, <1>8, <1>9, <1>10, <1>11,
     <1>12, <1>13, <1>14, <1>15, <1>16 DEF Next, ProducerStep, LoginStep

\* A login has rows in its hands only while it clears and flushes.
LEMMA BatchStep == TypeOK /\ BatchInFlush /\ [Next]_vars => BatchInFlush'
<1> SUFFICES ASSUME TypeOK, BatchInFlush, [Next]_vars
             PROVE  BatchInFlush'
    OBVIOUS
<1>1. ASSUME NEW p \in Producers, Produce(p) PROVE BatchInFlush'
  BY <1>1 DEF Produce, recipient, TypeOK, BatchInFlush
<1>2. ASSUME NEW p \in Producers, FindClient(p) PROVE BatchInFlush'
  BY <1>2 DEF FindClient, recipient, TypeOK, BatchInFlush
<1>3. ASSUME NEW p \in Producers, Send(p) PROVE BatchInFlush'
  BY <1>3 DEF Send, recipient, TypeOK, BatchInFlush
<1>4. ASSUME NEW p \in Producers, SendThrows(p) PROVE BatchInFlush'
  BY <1>4 DEF SendThrows, recipient, TypeOK, BatchInFlush
<1>5. ASSUME NEW p \in Producers, Queue(p) PROVE BatchInFlush'
  BY <1>5 DEF Queue, recipient, TypeOK, BatchInFlush
<1>6. ASSUME NEW c \in Conns, Login(c) PROVE BatchInFlush'
  BY <1>6 DEF Login, producer, TypeOK, BatchInFlush
<1>7. ASSUME NEW c \in Conns, Close(c) PROVE BatchInFlush'
  BY <1>7 DEF Close, producer, TypeOK, BatchInFlush
<1>8. ASSUME NEW c \in Conns, Select(c) PROVE BatchInFlush'
  BY <1>8 DEF Select, producer, TypeOK, BatchInFlush
<1>9. ASSUME NEW c \in Conns, Clear(c) PROVE BatchInFlush'
  BY <1>9 DEF Clear, producer, TypeOK, BatchInFlush
<1>10. ASSUME NEW c \in Conns, FlushOne(c) PROVE BatchInFlush'
  BY <1>10 DEF FlushOne, producer, TypeOK, BatchInFlush
<1>11. ASSUME NEW c \in Conns, Join(c) PROVE BatchInFlush'
  BY <1>11 DEF Join, producer, TypeOK, BatchInFlush
<1>12. ASSUME NEW c \in Conns, Leave(c) PROVE BatchInFlush'
  BY <1>12 DEF Leave, producer, TypeOK, BatchInFlush
<1>13. CASE UNCHANGED vars
  BY <1>13 DEF vars, producer, recipient, TypeOK, BatchInFlush
<1>14. ASSUME NEW p \in Producers, QueueFails(p) PROVE BatchInFlush'
  BY <1>14 DEF QueueFails, recipient, TypeOK, BatchInFlush
<1>15. ASSUME NEW c \in Conns, FindAndClearFails(c) PROVE BatchInFlush'
  BY <1>15 DEF FindAndClearFails, producer, TypeOK, BatchInFlush
<1>16. CASE Crash
  BY <1>16 DEF Crash, TypeOK, BatchInFlush
<1> QED
  BY <1>1, <1>2, <1>3, <1>4, <1>5, <1>6, <1>7, <1>8, <1>9, <1>10, <1>11,
     <1>12, <1>13, <1>14, <1>15, <1>16 DEF Next, ProducerStep, LoginStep

\* What a login is about to DELETE it has read, or it came late.
LEMMA ReadStep == TypeOK /\ ReadOrLate /\ [Next]_vars => ReadOrLate'
<1> SUFFICES ASSUME TypeOK, ReadOrLate, [Next]_vars
             PROVE  ReadOrLate'
    OBVIOUS
<1>1. ASSUME NEW p \in Producers, Produce(p) PROVE ReadOrLate'
  BY <1>1 DEF Produce, recipient, TypeOK, ReadOrLate
<1>2. ASSUME NEW p \in Producers, FindClient(p) PROVE ReadOrLate'
  BY <1>2 DEF FindClient, recipient, TypeOK, ReadOrLate
<1>3. ASSUME NEW p \in Producers, Send(p) PROVE ReadOrLate'
  BY <1>3 DEF Send, recipient, TypeOK, ReadOrLate
<1>4. ASSUME NEW p \in Producers, SendThrows(p) PROVE ReadOrLate'
  BY <1>4 DEF SendThrows, recipient, TypeOK, ReadOrLate
<1>5. ASSUME NEW p \in Producers, Queue(p) PROVE ReadOrLate'
  BY <1>5 DEF Queue, recipient, TypeOK, ReadOrLate
<1>6. ASSUME NEW c \in Conns, Login(c) PROVE ReadOrLate'
  BY <1>6 DEF Login, producer, TypeOK, ReadOrLate
<1>7. ASSUME NEW c \in Conns, Close(c) PROVE ReadOrLate'
  BY <1>7 DEF Close, producer, TypeOK, ReadOrLate
<1>8. ASSUME NEW c \in Conns, Select(c) PROVE ReadOrLate'
  BY <1>8 DEF Select, producer, TypeOK, ReadOrLate
<1>9. ASSUME NEW c \in Conns, Clear(c) PROVE ReadOrLate'
  BY <1>9 DEF Clear, producer, TypeOK, ReadOrLate
<1>10. ASSUME NEW c \in Conns, FlushOne(c) PROVE ReadOrLate'
  BY <1>10 DEF FlushOne, producer, TypeOK, ReadOrLate
<1>11. ASSUME NEW c \in Conns, Join(c) PROVE ReadOrLate'
  BY <1>11 DEF Join, producer, TypeOK, ReadOrLate
<1>12. ASSUME NEW c \in Conns, Leave(c) PROVE ReadOrLate'
  BY <1>12 DEF Leave, producer, TypeOK, ReadOrLate
<1>13. CASE UNCHANGED vars
  BY <1>13 DEF vars, producer, recipient, TypeOK, ReadOrLate
<1>14. ASSUME NEW p \in Producers, QueueFails(p) PROVE ReadOrLate'
  BY <1>14 DEF QueueFails, recipient, TypeOK, ReadOrLate
<1>15. ASSUME NEW c \in Conns, FindAndClearFails(c) PROVE ReadOrLate'
  BY <1>15 DEF FindAndClearFails, producer, TypeOK, ReadOrLate
<1>16. CASE Crash
  BY <1>16 DEF Crash, TypeOK, ReadOrLate
<1> QED
  BY <1>1, <1>2, <1>3, <1>4, <1>5, <1>6, <1>7, <1>8, <1>9, <1>10, <1>11,
     <1>12, <1>13, <1>14, <1>15, <1>16 DEF Next, ProducerStep, LoginStep

\* No step loses a notification, but in the ways listed.
LEMMA LossStep == LossInv /\ [Next]_vars => LossCauses'
<1> SUFFICES ASSUME LossInv, [Next]_vars
             PROVE  LossCauses'
    OBVIOUS
<1> USE NotificationConstants
<1>1. ASSUME NEW p \in Producers, Produce(p) PROVE LossCauses'
  <2> SUFFICES ASSUME NEW n \in 1..issued'
               PROVE  \/ got'[n] > 0 \/ n \in pending' \/ (\E q \in Producers : note'[q] = n)
                      \/ (\E c \in Conns : login'[c] = "flush" /\ n \in batch'[c]) \/ n \in blind' \cup late' \cup cut'
    BY DEF LossCauses
  <2>1. CASE n = issued + 1
    BY <1>1, <2>1 DEF Produce, LossInv, TypeOK
  <2>2. CASE n # issued + 1
    <3>1. n \in 1..issued
      BY <1>1, <2>2 DEF Produce, LossInv, TypeOK
    <3>2. \A q \in Producers : note[q] = n => note'[q] = n
      BY <1>1, <3>1 DEF Produce, LossInv, TypeOK
    <3> QED
      BY <1>1, <3>1, <3>2 DEF Produce, recipient, LossInv, LossCauses
  <2> QED
    BY <2>1, <2>2
<1>2. ASSUME NEW p \in Producers, FindClient(p) PROVE LossCauses'
  BY <1>2
     DEF FindClient, recipient, LossInv, TypeOK, Notes, BatchInFlush,
         ReadOrLate, LossCauses
<1>3. ASSUME NEW p \in Producers, Send(p) PROVE LossCauses'
  <2> SUFFICES ASSUME NEW n \in 1..issued
               PROVE  \/ got'[n] > 0 \/ n \in pending \/ (\E q \in Producers : note'[q] = n)
                      \/ (\E c \in Conns : login[c] = "flush" /\ n \in batch[c]) \/ n \in blind' \cup late \cup cut
    BY <1>3 DEF Send, recipient, LossCauses
  <2>1. n \in Notes /\ got[n] \in Nat /\ note[p] \in Notes
    BY <1>3 DEF Send, LossInv, TypeOK, Notes
  <2>2. got[n] > 0 => got'[n] > 0
    <3>1. \/ got' = [got EXCEPT ![note[p]] = got[note[p]] + 1]
          \/ got' = got
      BY <1>3 DEF Send
    <3> QED
      BY <2>1, <3>1 DEF LossInv, TypeOK
  <2>3. blind \subseteq blind'
    BY <1>3 DEF Send
  <2>4. CASE note[p] = n
    BY <1>3, <2>1, <2>4 DEF Send, LossInv, TypeOK
  <2>5. CASE note[p] # n
    <3>1. \A q \in Producers : note[q] = n => note'[q] = n
      BY <1>3, <2>5 DEF Send, LossInv, TypeOK
    <3> QED
      BY <2>2, <2>3, <3>1 DEF LossInv, LossCauses
  <2> QED
    BY <2>4, <2>5
<1>4. ASSUME NEW p \in Producers, SendThrows(p) PROVE LossCauses'
  BY <1>4
     DEF SendThrows, recipient, LossInv, TypeOK, Notes, BatchInFlush,
         ReadOrLate, LossCauses
<1>5. ASSUME NEW p \in Producers, Queue(p) PROVE LossCauses'
  BY <1>5
     DEF Queue, recipient, LossInv, TypeOK, Notes, BatchInFlush, ReadOrLate,
         LossCauses
<1>6. ASSUME NEW c \in Conns, Login(c) PROVE LossCauses'
  BY <1>6
     DEF Login, producer, LossInv, TypeOK, Notes, BatchInFlush, ReadOrLate,
         LossCauses
<1>7. ASSUME NEW c \in Conns, Close(c) PROVE LossCauses'
  BY <1>7
     DEF Close, producer, LossInv, TypeOK, Notes, BatchInFlush, ReadOrLate,
         LossCauses
<1>8. ASSUME NEW c \in Conns, Select(c) PROVE LossCauses'
  BY <1>8
     DEF Select, producer, LossInv, TypeOK, Notes, BatchInFlush, ReadOrLate,
         LossCauses
<1>9. ASSUME NEW c \in Conns, Clear(c) PROVE LossCauses'
  BY <1>9
     DEF Clear, producer, LossInv, TypeOK, Notes, BatchInFlush, ReadOrLate,
         LossCauses
<1>10. ASSUME NEW c \in Conns, FlushOne(c) PROVE LossCauses'
  <2>1. PICK k \in batch[c] :
          /\ \/ got' = [got EXCEPT ![k] = got[k] + 1] /\ blind' = blind
             \/ got' = got /\ blind' = blind \cup {k}
          /\ batch' = [batch EXCEPT ![c] = @ \ {k}]
    BY <1>10 DEF FlushOne
  <2> SUFFICES ASSUME NEW n \in 1..issued
               PROVE  \/ got'[n] > 0 \/ n \in pending \/ (\E q \in Producers : note[q] = n)
                      \/ (\E d \in Conns : login'[d] = "flush" /\ n \in batch'[d]) \/ n \in blind' \cup late \cup cut
    BY <1>10 DEF FlushOne, producer, LossCauses
  <2>2. n \in Notes /\ got[n] \in Nat /\ k \in Notes
    BY DEF LossInv, TypeOK, Notes
  <2>3. got[n] > 0 => got'[n] > 0
    BY <2>1, <2>2 DEF LossInv, TypeOK
  <2>4. blind \subseteq blind'
    BY <2>1
  <2>5. CASE k = n
    BY <2>1, <2>2, <2>5 DEF LossInv, TypeOK
  <2>6. CASE k # n
    <3>1. \A d \in Conns : n \in batch[d] => n \in batch'[d]
      BY <2>1, <2>6 DEF LossInv, TypeOK
    <3> QED
      BY <1>10, <2>3, <2>4, <3>1 DEF FlushOne, LossInv, LossCauses
  <2> QED
    BY <2>5, <2>6
<1>11. ASSUME NEW c \in Conns, Join(c) PROVE LossCauses'
  BY <1>11
     DEF Join, producer, LossInv, TypeOK, Notes, BatchInFlush, ReadOrLate,
         LossCauses
<1>12. ASSUME NEW c \in Conns, Leave(c) PROVE LossCauses'
  BY <1>12
     DEF Leave, producer, LossInv, TypeOK, Notes, BatchInFlush, ReadOrLate,
         LossCauses
<1>13. CASE UNCHANGED vars
  BY <1>13
     DEF vars, producer, recipient, LossInv, TypeOK, Notes, BatchInFlush,
         ReadOrLate, LossCauses
<1>14. ASSUME NEW p \in Producers, QueueFails(p) PROVE LossCauses'
  BY <1>14 DEF QueueFails, recipient, LossInv, TypeOK, Notes, BatchInFlush,
         ReadOrLate, LossCauses
<1>15. ASSUME NEW c \in Conns, FindAndClearFails(c) PROVE LossCauses'
  <2> SUFFICES ASSUME NEW n \in 1..issued
               PROVE  \/ got[n] > 0 \/ n \in pending' \/ (\E q \in Producers : note[q] = n)
                      \/ (\E d \in Conns : login'[d] = "flush" /\ n \in batch'[d]) \/ n \in blind \cup late \cup cut'
    BY <1>15 DEF FindAndClearFails, producer, LossCauses
  <2>1. cut \subseteq cut' /\ \A i \in pending : i \in pending' \cup cut'
    BY <1>15 DEF FindAndClearFails
  <2>2. \A d \in Conns : login[d] = "flush" => login'[d] = "flush" /\ batch'[d] = batch[d]
    BY <1>15 DEF FindAndClearFails, LossInv, TypeOK
  <2> QED
    BY <2>1, <2>2 DEF LossInv, LossCauses
<1>16. CASE Crash
  <2> SUFFICES ASSUME NEW n \in 1..issued
               PROVE  got[n] > 0 \/ n \in pending \/ n \in blind \cup late \cup cut'
    BY <1>16 DEF Crash, LossCauses
  <2>1. \A q \in Producers : note[q] = n => pc[q] # "idle"
    BY DEF LossInv, TypeOK
  <2> QED
    BY <1>16, <2>1 DEF Crash, LossInv, LossCauses
<1> QED
  BY <1>1, <1>2, <1>3, <1>4, <1>5, <1>6, <1>7, <1>8, <1>9, <1>10, <1>11,
     <1>12, <1>13, <1>14, <1>15, <1>16 DEF Next, ProducerStep, LoginStep

\* With one connection no step makes a second copy.
LEMMA CopyStep == OneConnection /\ OnceInv /\ [Next]_vars => OneCopy'
<1> SUFFICES ASSUME OneConnection, OnceInv, [Next]_vars
             PROVE  OneCopy'
    OBVIOUS
<1> USE NotificationConstants
<1>1. ASSUME NEW p \in Producers, Produce(p) PROVE OneCopy'
  BY <1>1
     DEF Produce, recipient, OneConnection, OnceInv, TypeOK, BatchInFlush,
         OneCopy
<1>2. ASSUME NEW p \in Producers, FindClient(p) PROVE OneCopy'
  BY <1>2
     DEF FindClient, recipient, OneConnection, OnceInv, TypeOK, BatchInFlush,
         OneCopy
<1>3. ASSUME NEW p \in Producers, Send(p) PROVE OneCopy'
  BY <1>3
     DEF Send, recipient, OneConnection, OnceInv, TypeOK, BatchInFlush,
         OneCopy
<1>4. ASSUME NEW p \in Producers, SendThrows(p) PROVE OneCopy'
  BY <1>4
     DEF SendThrows, recipient, OneConnection, OnceInv, TypeOK, BatchInFlush,
         OneCopy
<1>5. ASSUME NEW p \in Producers, Queue(p) PROVE OneCopy'
  BY <1>5
     DEF Queue, recipient, OneConnection, OnceInv, TypeOK, BatchInFlush,
         OneCopy
<1>6. ASSUME NEW c \in Conns, Login(c) PROVE OneCopy'
  BY <1>6
     DEF Login, producer, OneConnection, OnceInv, TypeOK, BatchInFlush,
         OneCopy
<1>7. ASSUME NEW c \in Conns, Close(c) PROVE OneCopy'
  BY <1>7
     DEF Close, producer, OneConnection, OnceInv, TypeOK, BatchInFlush,
         OneCopy
<1>8. ASSUME NEW c \in Conns, Select(c) PROVE OneCopy'
  BY <1>8
     DEF Select, producer, OneConnection, OnceInv, TypeOK, BatchInFlush,
         OneCopy
<1>9. ASSUME NEW c \in Conns, Clear(c) PROVE OneCopy'
  BY <1>9
     DEF Clear, producer, OneConnection, OnceInv, TypeOK, BatchInFlush,
         OneCopy
<1>10. ASSUME NEW c \in Conns, FlushOne(c) PROVE OneCopy'
  BY <1>10
     DEF FlushOne, producer, OneConnection, OnceInv, TypeOK, BatchInFlush,
         OneCopy
<1>11. ASSUME NEW c \in Conns, Join(c) PROVE OneCopy'
  BY <1>11
     DEF Join, producer, OneConnection, OnceInv, TypeOK, BatchInFlush, OneCopy
<1>12. ASSUME NEW c \in Conns, Leave(c) PROVE OneCopy'
  BY <1>12
     DEF Leave, producer, OneConnection, OnceInv, TypeOK, BatchInFlush,
         OneCopy
<1>13. CASE UNCHANGED vars
  BY <1>13
     DEF vars, producer, recipient, OneConnection, OnceInv, TypeOK,
         BatchInFlush, OneCopy
<1>14. ASSUME NEW p \in Producers, QueueFails(p) PROVE OneCopy'
  BY <1>14 DEF QueueFails, recipient, OneConnection, OnceInv, TypeOK,
         BatchInFlush, OneCopy
<1>15. ASSUME NEW c \in Conns, FindAndClearFails(c) PROVE OneCopy'
  BY <1>15 DEF FindAndClearFails, producer, OneConnection, OnceInv, TypeOK,
         BatchInFlush, OneCopy
<1>16. CASE Crash
  BY <1>16 DEF Crash, OneConnection, OnceInv, TypeOK,
         BatchInFlush, OneCopy
<1> QED
  BY <1>1, <1>2, <1>3, <1>4, <1>5, <1>6, <1>7, <1>8, <1>9, <1>10, <1>11,
     <1>12, <1>13, <1>14, <1>15, <1>16 DEF Next, ProducerStep, LoginStep

\* Only what leaves its place for good is counted as sent.
LEMMA UnsentStep == OneConnection /\ OnceInv /\ [Next]_vars => Unsent'
<1> SUFFICES ASSUME OneConnection, OnceInv, [Next]_vars
             PROVE  Unsent'
    OBVIOUS
<1> USE NotificationConstants
<1>1. ASSUME NEW p \in Producers, Produce(p) PROVE Unsent'
  BY <1>1
     DEF Produce, recipient, OneConnection, OnceInv, TypeOK, Notes,
         BatchInFlush, OneCopy, Unsent
<1>2. ASSUME NEW p \in Producers, FindClient(p) PROVE Unsent'
  BY <1>2
     DEF FindClient, recipient, OneConnection, OnceInv, TypeOK, Notes,
         BatchInFlush, OneCopy, Unsent
<1>3. ASSUME NEW p \in Producers, Send(p) PROVE Unsent'
  BY <1>3, SMTT(30)
     DEF Send, recipient, OneConnection, OnceInv, TypeOK, Notes, BatchInFlush,
         OneCopy, Unsent
<1>4. ASSUME NEW p \in Producers, SendThrows(p) PROVE Unsent'
  BY <1>4
     DEF SendThrows, recipient, OneConnection, OnceInv, TypeOK, Notes,
         BatchInFlush, OneCopy, Unsent
<1>5. ASSUME NEW p \in Producers, Queue(p) PROVE Unsent'
  BY <1>5
     DEF Queue, recipient, OneConnection, OnceInv, TypeOK, Notes,
         BatchInFlush, OneCopy, Unsent
<1>6. ASSUME NEW c \in Conns, Login(c) PROVE Unsent'
  BY <1>6
     DEF Login, producer, OneConnection, OnceInv, TypeOK, Notes, BatchInFlush,
         OneCopy, Unsent
<1>7. ASSUME NEW c \in Conns, Close(c) PROVE Unsent'
  BY <1>7
     DEF Close, producer, OneConnection, OnceInv, TypeOK, Notes, BatchInFlush,
         OneCopy, Unsent
<1>8. ASSUME NEW c \in Conns, Select(c) PROVE Unsent'
  BY <1>8
     DEF Select, producer, OneConnection, OnceInv, TypeOK, Notes,
         BatchInFlush, OneCopy, Unsent
<1>9. ASSUME NEW c \in Conns, Clear(c) PROVE Unsent'
  BY <1>9
     DEF Clear, producer, OneConnection, OnceInv, TypeOK, Notes, BatchInFlush,
         OneCopy, Unsent
<1>10. ASSUME NEW c \in Conns, FlushOne(c) PROVE Unsent'
  <2>1. PICK k \in batch[c] :
          /\ got' = [got EXCEPT ![k] = got[k] + 1] \/ got' = got
          /\ batch' = [batch EXCEPT ![c] = @ \ {k}]
    BY <1>10 DEF FlushOne
  <2>2. k \in Notes /\ k <= issued /\ k \notin pending /\ \A q \in Producers : note[q] # k
    <3>1. k \in 1..issued
      BY DEF OnceInv, TypeOK
    <3>2. k \in Notes /\ k <= issued
      BY <3>1 DEF OnceInv, TypeOK, Notes
    <3>3. k \notin pending
      BY <1>10 DEF FlushOne, OnceInv, TypeOK, OneCopy
    <3>4. \A q \in Producers : note[q] # k
      BY DEF OnceInv, OneCopy
    <3> QED
      BY <3>2, <3>3, <3>4
  <2>3. \A n \in Notes : n # k => got'[n] = got[n]
    BY <2>1 DEF OnceInv, TypeOK
  <2>4. \A d \in Conns : k \notin batch'[d]
    BY <2>1 DEF OneConnection, OnceInv, TypeOK
  <2>5. \A n \in Notes : n > issued => got'[n] = 0
    BY <2>2, <2>3 DEF OnceInv, TypeOK, Unsent, Notes
  <2>6. \A q \in Producers : note[q] # 0 => got'[note[q]] = 0
    <3>1. \A q \in Producers : note[q] # 0 => note[q] \in Notes /\ note[q] # k
      BY <2>2 DEF OnceInv, TypeOK, Notes
    <3> QED
      BY <2>3, <3>1 DEF OnceInv, Unsent
  <2>7. \A n \in pending : got'[n] = 0
    <3>1. \A n \in pending : n \in Notes /\ n # k
      BY <2>2 DEF OnceInv, TypeOK, Notes
    <3> QED
      BY <2>3, <3>1 DEF OnceInv, Unsent
  <2>8. \A d \in Conns : \A n \in batch'[d] : n \in batch[d] /\ n # k
    BY <2>1, <2>4 DEF OnceInv, TypeOK
  <2>9. \A d \in Conns : \A n \in batch'[d] : got'[n] = 0
    BY <2>3, <2>8 DEF OnceInv, TypeOK, Unsent, Notes
  <2> QED
    BY <1>10, <2>5, <2>6, <2>7, <2>9 DEF FlushOne, producer, Unsent
<1>11. ASSUME NEW c \in Conns, Join(c) PROVE Unsent'
  BY <1>11
     DEF Join, producer, OneConnection, OnceInv, TypeOK, Notes, BatchInFlush,
         OneCopy, Unsent
<1>12. ASSUME NEW c \in Conns, Leave(c) PROVE Unsent'
  BY <1>12
     DEF Leave, producer, OneConnection, OnceInv, TypeOK, Notes, BatchInFlush,
         OneCopy, Unsent
<1>13. CASE UNCHANGED vars
  BY <1>13
     DEF vars, producer, recipient, OneConnection, OnceInv, TypeOK, Notes,
         BatchInFlush, OneCopy, Unsent
<1>14. ASSUME NEW p \in Producers, QueueFails(p) PROVE Unsent'
  BY <1>14 DEF QueueFails, recipient, OneConnection, OnceInv, TypeOK, Notes,
         BatchInFlush, OneCopy, Unsent
<1>15. ASSUME NEW c \in Conns, FindAndClearFails(c) PROVE Unsent'
  BY <1>15 DEF FindAndClearFails, producer, OneConnection, OnceInv, TypeOK, Notes,
         BatchInFlush, OneCopy, Unsent
<1>16. CASE Crash
  BY <1>16 DEF Crash, OneConnection, OnceInv, TypeOK, Notes,
         BatchInFlush, OneCopy, Unsent
<1> QED
  BY <1>1, <1>2, <1>3, <1>4, <1>5, <1>6, <1>7, <1>8, <1>9, <1>10, <1>11,
     <1>12, <1>13, <1>14, <1>15, <1>16 DEF Next, ProducerStep, LoginStep

\* A send finds the counter at zero.
LEMMA OnceStep == OnceInv /\ [Next]_vars => SentOnce'
<1> SUFFICES ASSUME OnceInv, [Next]_vars
             PROVE  SentOnce'
    OBVIOUS
<1> USE NotificationConstants
<1>1. ASSUME NEW p \in Producers, Produce(p) PROVE SentOnce'
  BY <1>1 DEF Produce, recipient, OnceInv, TypeOK, Notes, Unsent, SentOnce
<1>2. ASSUME NEW p \in Producers, FindClient(p) PROVE SentOnce'
  BY <1>2 DEF FindClient, recipient, OnceInv, TypeOK, Notes, Unsent, SentOnce
<1>3. ASSUME NEW p \in Producers, Send(p) PROVE SentOnce'
  <2>1. note[p] \in Notes /\ got[note[p]] = 0
    BY <1>3 DEF Send, OnceInv, TypeOK, Notes, Unsent
  <2>2. got' = [got EXCEPT ![note[p]] = got[note[p]] + 1] \/ got' = got
    BY <1>3 DEF Send
  <2>3. got \in [Notes -> Nat]
    BY DEF OnceInv, TypeOK
  <2> QED
    BY <2>1, <2>2, <2>3 DEF OnceInv, SentOnce
<1>4. ASSUME NEW p \in Producers, SendThrows(p) PROVE SentOnce'
  BY <1>4 DEF SendThrows, recipient, OnceInv, TypeOK, Notes, Unsent, SentOnce
<1>5. ASSUME NEW p \in Producers, Queue(p) PROVE SentOnce'
  BY <1>5 DEF Queue, recipient, OnceInv, TypeOK, Notes, Unsent, SentOnce
<1>6. ASSUME NEW c \in Conns, Login(c) PROVE SentOnce'
  BY <1>6 DEF Login, producer, OnceInv, TypeOK, Notes, Unsent, SentOnce
<1>7. ASSUME NEW c \in Conns, Close(c) PROVE SentOnce'
  BY <1>7 DEF Close, producer, OnceInv, TypeOK, Notes, Unsent, SentOnce
<1>8. ASSUME NEW c \in Conns, Select(c) PROVE SentOnce'
  BY <1>8 DEF Select, producer, OnceInv, TypeOK, Notes, Unsent, SentOnce
<1>9. ASSUME NEW c \in Conns, Clear(c) PROVE SentOnce'
  BY <1>9 DEF Clear, producer, OnceInv, TypeOK, Notes, Unsent, SentOnce
<1>10. ASSUME NEW c \in Conns, FlushOne(c) PROVE SentOnce'
  BY <1>10 DEF FlushOne, producer, OnceInv, TypeOK, Notes, Unsent, SentOnce
<1>11. ASSUME NEW c \in Conns, Join(c) PROVE SentOnce'
  BY <1>11 DEF Join, producer, OnceInv, TypeOK, Notes, Unsent, SentOnce
<1>12. ASSUME NEW c \in Conns, Leave(c) PROVE SentOnce'
  BY <1>12 DEF Leave, producer, OnceInv, TypeOK, Notes, Unsent, SentOnce
<1>13. CASE UNCHANGED vars
  BY <1>13
     DEF vars, producer, recipient, OnceInv, TypeOK, Notes, Unsent, SentOnce
<1>14. ASSUME NEW p \in Producers, QueueFails(p) PROVE SentOnce'
  BY <1>14 DEF QueueFails, recipient, OnceInv, TypeOK, Notes, Unsent, SentOnce
<1>15. ASSUME NEW c \in Conns, FindAndClearFails(c) PROVE SentOnce'
  BY <1>15 DEF FindAndClearFails, producer, OnceInv, TypeOK, Notes, Unsent, SentOnce
<1>16. CASE Crash
  BY <1>16 DEF Crash, OnceInv, TypeOK, Notes, Unsent, SentOnce
<1> QED
  BY <1>1, <1>2, <1>3, <1>4, <1>5, <1>6, <1>7, <1>8, <1>9, <1>10, <1>11,
     <1>12, <1>13, <1>14, <1>15, <1>16 DEF Next, ProducerStep, LoginStep

-----------------------------------------------------------------------------
(***************************************************************************)
(* TypeOK for every number of producers, connections and notifications:    *)
(* in particular a handler that sends has a session, and findClient only   *)
(* returns connections (Server::findClient, Server::removeClient).         *)
(***************************************************************************)
THEOREM NotificationTypes == Spec => []TypeOK
<1>1. Init => TypeOK
  BY NotificationInit DEF LossInv
<1> QED
  BY <1>1, TypeStep, PTL DEF Spec

(***************************************************************************)
(* Whatever threads and logins run at the same time, and wherever          *)
(* statements fail or the server crashes, a notification is lost only to a *)
(* dead socket, to an INSERT between the SELECT and the DELETE of          *)
(* findAndClear, or to a fault while it was in no row.                     *)
(***************************************************************************)
THEOREM LossHasCause == Spec => []LossCauses
<1>1. Init => LossInv
  BY NotificationInit
<1>2. LossInv /\ [Next]_vars => LossInv'
  BY TypeStep, BatchStep, ReadStep, LossStep DEF LossInv
<1>3. LossInv => LossCauses
  BY DEF LossInv
<1> QED
  BY <1>1, <1>2, <1>3, PTL DEF Spec

(***************************************************************************)
(* With one connection of the recipient no notification is sent twice,     *)
(* however many handlers produce and retry at the same time.               *)
(***************************************************************************)
THEOREM NotSentTwice == ASSUME OneConnection PROVE Spec => []SentOnce
<1>1. Init => OnceInv
  BY NotificationInit
<1>2. OnceInv /\ [Next]_vars => OnceInv'
  BY OneConnection, TypeStep, BatchStep, CopyStep, UnsentStep, OnceStep DEF OnceInv
<1>3. OnceInv => SentOnce
  BY DEF OnceInv
<1> QED
  BY <1>1, <1>2, <1>3, PTL DEF Spec
=============================================================================
