--------------------------- MODULE Clients_proofs ----------------------------
(***************************************************************************)
(* What the server keeps of those it serves: the messages of a connection    *)
(* (Outbox), their accounts (Accounts) and which connection speaks for a      *)
(* player (Sessions), for any clients, names and bounds.                     *)
(***************************************************************************)
EXTENDS Outbox, Accounts, Sessions, SequenceTheorems, WellFoundedInduction, TLAPS

-----------------------------------------------------------------------------
(* Outbox *)

OutboxSpec == OutboxInit /\ [][OutboxNext]_outboxVars

OutboxTypeOK ==
    /\ sent \in Nat /\ listedSocket \in BOOLEAN /\ writing \in BOOLEAN /\ closed \in BOOLEAN
    /\ onStrand \in Seq(Nat) /\ sendQueue \in Seq(Nat) /\ underWay \in Seq(Nat) /\ written \in Seq(Nat)

\* The flag of the strand is set exactly while there is something to write.
WritingIsBusy == ~closed => (writing <=> sendQueue # << >>)

OutboxInv == OutboxTypeOK /\ WritingIsBusy /\ SentInOrder

Sent(n) == [k \in 1..n |-> k]
Ending(listed) == IF listed THEN << >> ELSE <<CloseIt>>

\* Sending one more message appends its number.
LEMMA SentFacts ==
  ASSUME NEW n \in Nat
  PROVE  Sent(n) \in Seq(Nat) /\ Append(Sent(n), n + 1) = Sent(n + 1)
<1>1. Sent(n) \in Seq(Nat) /\ Sent(n + 1) \in Seq(Nat) /\ Len(Sent(n)) = n /\ Len(Sent(n + 1)) = n + 1
  BY DEF Sent
<1>2. Append(Sent(n), n + 1) = Sent(n + 1)
  <2>1. Append(Sent(n), n + 1) \in Seq(Nat) /\ Len(Append(Sent(n), n + 1)) = n + 1
    BY <1>1, AppendProperties
  <2>2. \A k \in 1..(n + 1) : Append(Sent(n), n + 1)[k] = k /\ Sent(n + 1)[k] = k
    BY <1>1, AppendProperties DEF Sent
  <2> QED
    BY <1>1, <2>1, <2>2, SeqEqual
<1> QED
  BY <1>1, <1>2

\* It does not matter which of three queues are joined first.
LEMMA JoinedAlike ==
  ASSUME NEW a \in Seq(Nat), NEW b \in Seq(Nat), NEW c \in Seq(Nat)
  PROVE  a \o b \o c = a \o (b \o c)
  BY ConcatAssociative, SMTT(30)

\* What is appended to the last of two sequences is appended to both of them.
LEMMA AppendOne ==
  ASSUME NEW a \in Seq(Nat), NEW b \in Seq(Nat), NEW e \in Nat
  PROVE  a \o b \in Seq(Nat) /\ a \o Append(b, e) = Append(a \o b, e)
<1> DEFINE one == <<e>>
<1>1. a \o b \in Seq(Nat) /\ one \in Seq(Nat)
  BY ConcatProperties
<1>2. Append(b, e) = b \o one /\ Append(a \o b, e) = (a \o b) \o one
  BY <1>1, AppendIsConcat
<1> HIDE DEF one
<1>3. (a \o b) \o one = a \o (b \o one)
  BY <1>1, JoinedAlike
<1> QED
  BY <1>1, <1>2, <1>3, Zenon

\* What is appended to the last of three sequences is appended to all of them.
LEMMA AppendLast ==
  ASSUME NEW a \in Seq(Nat), NEW b \in Seq(Nat), NEW c \in Seq(Nat), NEW e \in Nat
  PROVE  a \o b \o Append(c, e) = Append(a \o b \o c, e)
<1>1. a \o b \in Seq(Nat)
  BY ConcatProperties
<1> QED
  BY <1>1, AppendOne, Zenon

\* A queue to which a message is added is a queue, and not empty.
LEMMA AppendGrows ==
  ASSUME NEW q \in Seq(Nat), NEW e \in Nat
  PROVE  Append(q, e) \in Seq(Nat) /\ Append(q, e) # << >>
  BY AppendProperties

\* The first of one sequence may as well be the last of the one before it.
LEMMA HandOn ==
  ASSUME NEW a \in Seq(Nat), NEW b \in Seq(Nat), b # << >>
  PROVE  /\ Head(b) \in Nat /\ Tail(b) \in Seq(Nat) /\ Append(a, Head(b)) \in Seq(Nat)
         /\ Append(a, Head(b)) \o Tail(b) = a \o b
<1>1. Head(b) \in Nat /\ Tail(b) \in Seq(Nat) /\ <<Head(b)>> \in Seq(Nat)
  BY HeadTailProperties
<1>2. b = <<Head(b)>> \o Tail(b)
  <2>1. Len(b) \in Nat \ {0} /\ SubSeq(b, 1, Len(b)) = b
    BY EmptySeq, SubSeqFull
  <2>2. SubSeq(b, 1, Len(b)) = <<b[1]>> \o SubSeq(b, 2, Len(b))
    BY <2>1, SubSeqRecursiveFirst
  <2>3. Tail(b) = SubSeq(b, 2, Len(b)) /\ Head(b) = b[1]
    BY TailIsSubSeq, HeadTailProperties
  <2> QED
    BY <2>1, <2>2, <2>3
<1>3. Append(a, Head(b)) = a \o <<Head(b)>>
  BY <1>1, AppendIsConcat
<1> QED
  BY <1>1, <1>2, <1>3, ConcatAssociative, AppendProperties, SMTT(30)

\* A new connection has nothing sent, queued or under way.
LEMMA OutboxInvInit == OutboxInit => OutboxInv
<1> SUFFICES ASSUME OutboxInit PROVE OutboxInv
  OBVIOUS
<1>1. Sent(0) = << >> /\ << >> \in Seq(Nat) /\ << >> \o << >> = << >>
  BY EmptySeq, ConcatEmptySeq DEF Sent
<1>2. OutboxTypeOK /\ WritingIsBusy
  BY <1>1 DEF OutboxInit, OutboxTypeOK, WritingIsBusy
<1>3. SentInOrder
  BY <1>1 DEF OutboxInit, SentInOrder, Sent
<1> QED
  BY <1>2, <1>3 DEF OutboxInv

\* What doWrite does to a queue whose messages nobody is writing yet.
LEMMA DoWriteWrites ==
  ASSUME NEW queue \in Seq(Nat), closed = FALSE, DoWrite(queue, << >>)
  PROVE  /\ writing' = (queue # << >>)
         /\ underWay' = IF queue = << >> THEN << >> ELSE <<Head(queue)>>
<1>1. CASE queue = << >>
  BY <1>1 DEF DoWrite
<1>2. CASE queue # << >>
  <2>1. Append(<< >>, Head(queue)) = <<Head(queue)>>
    BY <1>2, HeadTailProperties, AppendIsConcat, ConcatEmptySeq, EmptySeq
  <2> QED
    BY <1>2, <2>1 DEF DoWrite
<1> QED
  BY <1>1, <1>2

\* A message that is sent comes after those posted before.
LEMMA SendMessageKeeps == OutboxInv /\ SendMessage => OutboxInv'
<1> SUFFICES ASSUME OutboxInv, SendMessage PROVE OutboxInv'
  OBVIOUS
<1> USE DEF OutboxInv, OutboxTypeOK
<1>0. written \in Seq(Nat) /\ sendQueue \in Seq(Nat) /\ onStrand \in Seq(Nat) /\ sent + 1 \in Nat
  OBVIOUS
<1>1. /\ listedSocket = TRUE /\ sent' = sent + 1 /\ onStrand' = Append(onStrand, sent + 1)
      /\ UNCHANGED <<open, listedSocket, sendQueue, writing, underWay, written, closed>>
  BY DEF SendMessage
<1>2. OutboxTypeOK'
  BY <1>1, AppendProperties
<1>3. WritingIsBusy'
  BY <1>1 DEF WritingIsBusy
<1>4. ASSUME ~closed'
      PROVE  written' \o sendQueue' \o onStrand' = Sent(sent') \o Ending(listedSocket')
  <2>1. written \o sendQueue \o onStrand = Sent(sent)
    BY <1>1, <1>4, SentFacts, ConcatEmptySeq DEF SentInOrder, Sent
  <2>2. written \o sendQueue \o Append(onStrand, sent + 1) = Append(written \o sendQueue \o onStrand, sent + 1)
    <3> HIDE DEF OutboxInv, OutboxTypeOK
    <3> DEFINE e == sent + 1
    <3>1. written \in Seq(Nat) /\ sendQueue \in Seq(Nat) /\ onStrand \in Seq(Nat) /\ e \in Nat
      BY <1>0
    <3> HIDE DEF e
    <3>2. written \o sendQueue \o Append(onStrand, e) = Append(written \o sendQueue \o onStrand, e)
      BY <3>1, AppendLast
    <3> QED
      BY <3>2 DEF e
  <2>3. written \o sendQueue \o onStrand' = Append(Sent(sent), sent + 1)
    BY <1>1, <2>1, <2>2, Zenon
  <2>4. Append(Sent(sent), sent + 1) = Sent(sent') /\ Sent(sent') \in Seq(Nat)
    <3>1. sent \in Nat /\ sent' \in Nat /\ sent' = sent + 1
      BY <1>1
    <3> QED
      BY <3>1, SentFacts, Zenon
  <2>5. Sent(sent') \o Ending(listedSocket') = Sent(sent')
    BY <1>1, <2>4, ConcatEmptySeq DEF Ending
  <2> QED
    BY <1>1, <2>3, <2>4, <2>5, Zenon
<1>5. SentInOrder'
  BY <1>1, <1>4 DEF SentInOrder, Sent, Ending
<1> QED
  BY <1>2, <1>3, <1>5

\* The close is posted after all messages.
LEMMA RequestCloseKeeps == OutboxInv /\ RequestClose => OutboxInv'
<1> SUFFICES ASSUME OutboxInv, RequestClose PROVE OutboxInv'
  OBVIOUS
<1> USE DEF OutboxInv, OutboxTypeOK
<1>0. written \in Seq(Nat) /\ sendQueue \in Seq(Nat) /\ onStrand \in Seq(Nat) /\ CloseIt \in Nat
  BY DEF CloseIt
<1>1. /\ listedSocket = TRUE /\ listedSocket' = FALSE /\ onStrand' = Append(onStrand, CloseIt) /\ CloseIt \in Nat
      /\ UNCHANGED <<open, sent, sendQueue, writing, underWay, written, closed>>
  BY DEF RequestClose, CloseIt
<1>2. OutboxTypeOK'
  BY <1>1, AppendProperties
<1>3. WritingIsBusy'
  BY <1>1 DEF WritingIsBusy
<1>4. ASSUME ~closed'
      PROVE  written' \o sendQueue' \o onStrand' = Sent(sent') \o Ending(listedSocket')
  <2>1. written \o sendQueue \o onStrand = Sent(sent)
    BY <1>1, <1>4, SentFacts, ConcatEmptySeq DEF SentInOrder, Sent
  <2>2. written \o sendQueue \o Append(onStrand, CloseIt) = Append(written \o sendQueue \o onStrand, CloseIt)
    <3> HIDE DEF OutboxInv, OutboxTypeOK
    <3> QED
      BY <1>0, AppendLast
  <2>3. Append(Sent(sent), CloseIt) = Sent(sent) \o <<CloseIt>>
    BY <1>0, SentFacts, AppendIsConcat, Zenon DEF OutboxInv, OutboxTypeOK
  <2>4. Sent(sent) \o Ending(listedSocket') = Sent(sent) \o <<CloseIt>>
    BY <1>1 DEF Ending
  <2> QED
    BY <1>1, <2>1, <2>2, <2>3, <2>4, Zenon
<1>5. SentInOrder'
  BY <1>1, <1>4 DEF SentInOrder, Sent, Ending
<1> QED
  BY <1>2, <1>3, <1>5

\* The strand moves what is posted first to the queue, and begins to write if it was idle.
LEMMA RunPostedKeeps == OutboxInv /\ RunPosted => OutboxInv'
<1> SUFFICES ASSUME OutboxInv, RunPosted PROVE OutboxInv'
  OBVIOUS
<1> USE DEF OutboxInv, OutboxTypeOK
<1>1. onStrand # << >> /\ onStrand' = Tail(onStrand) /\ UNCHANGED <<open, listedSocket, sent, written>>
  BY DEF RunPosted
<1>2. Head(onStrand) \in Nat /\ onStrand' \in Seq(Nat)
  BY <1>1, HeadTailProperties
<1>3. CASE Head(onStrand) = CloseIt \/ closed
  <2>1. closed' = TRUE /\ UNCHANGED <<sendQueue, writing, underWay>>
    BY <1>3 DEF RunPosted, Enqueue
  <2> QED
    BY <1>1, <1>2, <2>1 DEF WritingIsBusy, SentInOrder
<1>4. CASE Head(onStrand) # CloseIt /\ closed = FALSE
  <2>1. UNCHANGED closed /\ sendQueue' = Append(sendQueue, Head(onStrand))
        /\ IF writing THEN UNCHANGED <<writing, underWay>> ELSE DoWrite(sendQueue', underWay)
    BY <1>4 DEF RunPosted, Enqueue
  <2>2. sendQueue' \in Seq(Nat) /\ sendQueue' # << >>
    <3> DEFINE first == Head(onStrand)
    <3>1. sendQueue \in Seq(Nat) /\ first \in Nat
      BY <1>2
    <3>2. sendQueue' = Append(sendQueue, first)
      BY <2>1
    <3> HIDE DEF first, OutboxInv, OutboxTypeOK
    <3> QED
      BY <3>1, <3>2, AppendGrows
  <2>3. sendQueue' \o onStrand' = sendQueue \o onStrand
    BY <1>1, <2>1, HandOn
  <2>4. written' \o sendQueue' \o onStrand' = written \o sendQueue \o onStrand
    <3>1. written \in Seq(Nat) /\ sendQueue \in Seq(Nat) /\ onStrand \in Seq(Nat)
          /\ sendQueue' \in Seq(Nat) /\ onStrand' \in Seq(Nat)
      BY <1>2, <2>2
    <3>2. written \o sendQueue' \o onStrand' = written \o (sendQueue' \o onStrand')
      BY <3>1, JoinedAlike, Zenon
    <3>3. written \o sendQueue \o onStrand = written \o (sendQueue \o onStrand)
      BY <3>1, JoinedAlike, Zenon
    <3> QED
      BY <1>1, <2>3, <3>2, <3>3, Zenon
  <2>5. writing' = TRUE /\ underWay' = <<Head(sendQueue')>>
    <3>1. CASE writing
      <4>1. sendQueue # << >> /\ underWay = <<Head(sendQueue)>>
        BY <1>4, <3>1 DEF WritingIsBusy, SentInOrder
      <4>2. Head(sendQueue') = Head(sendQueue)
        BY <2>1, <4>1, HeadTailAppend
      <4> QED
        BY <2>1, <3>1, <4>1, <4>2
    <3>2. CASE ~writing
      <4>1. underWay = << >>
        BY <1>4, <3>2 DEF WritingIsBusy, SentInOrder
      <4> QED
        BY <1>4, <2>1, <2>2, <3>2, <4>1, DoWriteWrites
    <3> QED
      BY <3>1, <3>2
  <2>6. OutboxTypeOK'
    <3>1. Head(sendQueue') \in Nat
      BY <2>2, HeadTailProperties
    <3> QED
      BY <1>1, <1>2, <2>1, <2>2, <2>5, <3>1
  <2>7. WritingIsBusy'
    BY <2>2, <2>5 DEF WritingIsBusy
  <2>8. SentInOrder'
    BY <1>1, <1>4, <2>1, <2>2, <2>4, <2>5 DEF SentInOrder
  <2> QED
    BY <2>6, <2>7, <2>8
<1> QED
  BY <1>3, <1>4

\* The end of a write takes the message at the front off the queue and begins the next write.
LEMMA WriteEndsKeeps == OutboxInv /\ WriteEnds => OutboxInv'
<1> SUFFICES ASSUME OutboxInv, WriteEnds PROVE OutboxInv'
  OBVIOUS
<1> USE DEF OutboxInv, OutboxTypeOK
<1>1. /\ underWay # << >> /\ written' = Append(written, Head(underWay))
      /\ sendQueue' = IF sendQueue = << >> THEN << >> ELSE Tail(sendQueue)
      /\ DoWrite(sendQueue', Tail(underWay))
      /\ UNCHANGED <<open, listedSocket, sent, onStrand, closed>>
  BY DEF WriteEnds
<1>2. Head(underWay) \in Nat /\ Tail(underWay) \in Seq(Nat) /\ written' \in Seq(Nat)
  BY <1>1, HeadTailProperties, AppendProperties
<1>3. sendQueue' \in Seq(Nat)
  BY <1>1, HeadTailProperties, EmptySeq
<1>4. OutboxTypeOK'
  <2>1. writing' \in BOOLEAN /\ underWay' \in Seq(Nat)
    <3>1. CASE sendQueue' = << >> \/ closed
      BY <1>1, <1>2, <3>1 DEF DoWrite
    <3>2. CASE ~(sendQueue' = << >> \/ closed)
      <4>1. Head(sendQueue') \in Nat
        BY <1>3, <3>2, HeadTailProperties
      <4>2. Append(Tail(underWay), Head(sendQueue')) \in Seq(Nat)
        BY <1>2, <4>1, AppendProperties
      <4> QED
        BY <1>1, <3>2, <4>2 DEF DoWrite
    <3> QED
      BY <3>1, <3>2
  <2> QED
    BY <1>1, <1>2, <1>3, <2>1
<1>5. CASE closed
  BY <1>1, <1>4, <1>5 DEF WritingIsBusy, SentInOrder
<1>6. CASE ~closed
  <2>1. sendQueue # << >> /\ underWay = <<Head(sendQueue)>>
    BY <1>1, <1>6 DEF SentInOrder
  <2>2. Head(underWay) = Head(sendQueue) /\ Tail(underWay) = << >> /\ sendQueue' = Tail(sendQueue)
    BY <1>1, <2>1
  <2>3. written' \o sendQueue' = written \o sendQueue
    BY <1>1, <2>1, <2>2, HandOn
  <2>4. /\ writing' = (sendQueue' # << >>)
        /\ underWay' = IF sendQueue' = << >> THEN << >> ELSE <<Head(sendQueue')>>
    BY <1>1, <1>3, <1>6, <2>2, DoWriteWrites
  <2>5. SentInOrder'
    BY <1>1, <1>6, <2>3, <2>4 DEF SentInOrder
  <2> QED
    BY <1>4, <2>4, <2>5 DEF WritingIsBusy
<1> QED
  BY <1>5, <1>6

\* So every step keeps the order of the messages.
LEMMA OutboxInvNext == OutboxInv /\ [OutboxNext]_outboxVars => OutboxInv'
<1> SUFFICES ASSUME OutboxInv, [OutboxNext]_outboxVars PROVE OutboxInv'
  OBVIOUS
<1>1. ASSUME NEW how, Handshake(how) PROVE OutboxInv'
  BY <1>1 DEF Handshake, OutboxInv, OutboxTypeOK, WritingIsBusy, SentInOrder
<1>2. CASE SendMessage \/ RequestClose \/ RunPosted \/ WriteEnds
  BY <1>2, SendMessageKeeps, RequestCloseKeeps, RunPostedKeeps, WriteEndsKeeps
<1>3. ASSUME OnClosed, UNCHANGED <<sent, onStrand, written>>, underWay' \in Seq(Nat)
      PROVE  OutboxInv'
  <2>1. closed' = TRUE
    BY <1>3 DEF OnClosed, OutboxInv, OutboxTypeOK
  <2> QED
    BY <1>3, <2>1, EmptySeq DEF OnClosed, OutboxInv, OutboxTypeOK, WritingIsBusy, SentInOrder
<1>4. CASE WriteFails
  BY <1>3, <1>4, HeadTailProperties DEF WriteFails, OutboxInv, OutboxTypeOK
<1>5. CASE ReadEnds
  BY <1>3, <1>5 DEF ReadEnds, OutboxInv, OutboxTypeOK
<1>6. CASE UNCHANGED outboxVars
  BY <1>6 DEF outboxVars, OutboxInv, OutboxTypeOK, WritingIsBusy, SentInOrder
<1> QED
  BY <1>1, <1>2, <1>4, <1>5, <1>6 DEF OutboxNext

\* As long as a connection is open, what was sent over it has been written or is
\* queued, all of it and in order, and one write at a time is under way, however
\* sending, writing and closing overtake each other (websocket_server_asio.cpp).
THEOREM OutboxSentInOrder == OutboxSpec => []SentInOrder
<1>1. OutboxInv => SentInOrder
  BY DEF OutboxInv
<1> QED
  BY <1>1, OutboxInvInit, OutboxInvNext, PTL DEF OutboxSpec

-----------------------------------------------------------------------------
(* Accounts *)

User == [id : Id, nickname : Nickname, secret : BOOLEAN, avatar : Id \cup {NoOne}, preset : Presets]

AccountsTypeOK ==
    /\ users \in Seq(User) /\ nextId \in Nat /\ nextId >= FirstId
    /\ disk.users \in Seq(User) /\ disk.nextId \in Nat /\ disk.nextId >= FirstId
    /\ serving \in BOOLEAN /\ saved \in BOOLEAN
    /\ tokenOf \in [Id -> Nat] /\ issued \in Nat
    /\ held \in [Client -> [user : Id \cup {NoOne}, number : Nat]]
    /\ asking = [c \in Client |-> asking[c]]

\* No two of these users have one id or name, and next is the id of none of them.
Distinct(us, next) ==
    /\ \A k \in DOMAIN us : us[k].id < next
    /\ \A j, k \in DOMAIN us : us[j].id = us[k].id \/ us[j].nickname = us[k].nickname => j = k

\* The users that are there again in vs: with their names and secrets, and with their
\* own picture if they had one.
Carries(us, vs) ==
    \A k \in DOMAIN us :
        /\ k \in DOMAIN vs
        /\ vs[k].id = us[k].id /\ vs[k].nickname = us[k].nickname /\ vs[k].secret = us[k].secret
        /\ us[k].avatar = us[k].id => vs[k].avatar = vs[k].id

SameUsers(us, vs) == DOMAIN us = DOMAIN vs /\ Carries(us, vs)

Has(us, i) == \E k \in DOMAIN us : us[k].id = i

\* An answer is kept in memory, and in the file that the next start will read: when
\* the last save went well, and when there is nothing but the file.
Kept(a) ==
    /\ serving => KeptIn(users, a)
    /\ saved \/ ~serving => KeptIn(disk.users, a)

\* What the process has in memory and what it would find after a crash.
StoreInv ==
    /\ Distinct(users, nextId) /\ Distinct(disk.users, disk.nextId)
    /\ \A a \in promised \ lapsed : Kept(a)
    /\ serving /\ saved => SameUsers(disk.users, users)

\* Requests under way and tokens are those of users there are.
RequestInv ==
    /\ \A c \in Client :
           /\ asking[c].op \in {"none", "issue", "avatar", "preset"}
           /\ asking[c].op # "none" =>
                  serving /\ asking[c].user \in Id /\ Has(users, asking[c].user)
           /\ asking[c].op = "issue" =>
                  /\ asking[c].nickname \in Nickname
                  /\ Kept([id |-> asking[c].user, nickname |-> asking[c].nickname])
           /\ held[c] # NoToken => held[c].user \in Id /\ held[c].number # 0
    /\ \A i \in Id : tokenOf[i] # 0 => serving /\ Has(users, i)

AccountsInv == AccountsTypeOK /\ StoreInv /\ RequestInv

\* Every set of numbers that has one has a least one.
LEMMA LeastNat ==
  ASSUME NEW S, S # {}, S \subseteq Nat
  PROVE  \E l \in S : \A n \in S : l <= n
<1> DEFINE R == OpToRel(<, Nat)
<1>1. IsWellFoundedOn(R, Nat)
  BY NatLessThanWellFounded
<1>2. \A x, y \in Nat : <<y, x>> \in R <=> y < x
  BY DEF OpToRel
<1> HIDE DEF R
<1>3. \E x \in S : \A y \in S : ~ (<<y, x>> \in R)
  BY <1>1, WFMin
<1>4. PICK l \in S : \A n \in S : ~ (<<n, l>> \in R)
  BY <1>3
<1>5. \A n \in S : ~(n < l)
  <2> TAKE n \in S
  <2>1. n \in Nat /\ l \in Nat
    OBVIOUS
  <2> QED
    BY <1>2, <1>4, <2>1, Zenon
<1> QED
  BY <1>5

\* Who carries the users of a list has its users and keeps their promises.
LEMMA CarriesKept ==
  ASSUME NEW us, NEW vs, Carries(us, vs)
  PROVE  /\ \A a : KeptIn(us, a) => KeptIn(vs, a)
         /\ \A i : Has(us, i) => Has(vs, i)
  BY DEF Carries, KeptIn, Has

\* The first start has no file and no users.
LEMMA AccountsInvInit == AccountsInit => AccountsInv
<1> SUFFICES ASSUME AccountsInit PROVE AccountsInv
  OBVIOUS
<1>1. AccountsTypeOK
  BY EmptySeq DEF AccountsInit, AccountsTypeOK, FirstId, NoToken, NoOne, Id
<1>2. StoreInv
  BY DEF AccountsInit, StoreInv, Distinct, SameUsers, Carries
<1>3. RequestInv
  BY DEF AccountsInit, RequestInv, NothingAsked, NoToken
<1> QED
  BY <1>1, <1>2, <1>3 DEF AccountsInv

\* What the loops over the users do to one of them.
LEMMA UpdatesCarry ==
  ASSUME AccountsInv, NEW i \in Id, NEW p \in Presets
  PROVE  /\ WithAvatar(i) \in Seq(User) /\ Carries(users, WithAvatar(i)) /\ Distinct(WithAvatar(i), nextId)
         /\ WithPreset(i, p) \in Seq(User) /\ Carries(users, WithPreset(i, p))
         /\ Distinct(WithPreset(i, p), nextId)
         /\ Has(users, i) => KeptIn(WithAvatar(i), [id |-> i, picture |-> TRUE])
<1>1. users \in Seq(User) /\ DOMAIN users = 1..Len(users) /\ Len(users) \in Nat
      /\ \A k \in DOMAIN users : users[k] \in User
  BY DEF AccountsInv, AccountsTypeOK
<1>2. ASSUME NEW k \in DOMAIN users
      PROVE  /\ WithAvatar(i)[k] \in User /\ WithPreset(i, p)[k] \in User
             /\ WithAvatar(i)[k].id = users[k].id /\ WithPreset(i, p)[k].id = users[k].id
             /\ WithAvatar(i)[k].nickname = users[k].nickname /\ WithPreset(i, p)[k].nickname = users[k].nickname
             /\ WithAvatar(i)[k].secret = users[k].secret /\ WithPreset(i, p)[k].secret = users[k].secret
             /\ WithAvatar(i)[k].avatar = IF users[k].id = i THEN i ELSE users[k].avatar
             /\ WithPreset(i, p)[k].avatar = users[k].avatar
  BY <1>1 DEF WithAvatar, WithPreset, User
<1>3. DOMAIN WithAvatar(i) = DOMAIN users /\ DOMAIN WithPreset(i, p) = DOMAIN users
  BY DEF WithAvatar, WithPreset
<1>4. WithAvatar(i) \in Seq(User) /\ WithPreset(i, p) \in Seq(User)
  <2>1. WithAvatar(i) \in [1..Len(users) -> User] /\ WithPreset(i, p) \in [1..Len(users) -> User]
    BY <1>1, <1>2 DEF WithAvatar, WithPreset
  <2> QED
    BY <1>1, <2>1, SeqDef
<1>5. Distinct(users, nextId)
  BY DEF AccountsInv, StoreInv
<1>6. Distinct(WithAvatar(i), nextId) /\ Distinct(WithPreset(i, p), nextId)
  BY <1>2, <1>3, <1>5 DEF Distinct
<1>7. Carries(users, WithAvatar(i)) /\ Carries(users, WithPreset(i, p))
  BY <1>2, <1>3 DEF Carries
<1>8. Has(users, i) => KeptIn(WithAvatar(i), [id |-> i, picture |-> TRUE])
  BY <1>2, <1>3 DEF Has, KeptIn
<1> QED
  BY <1>4, <1>6, <1>7, <1>8

\* A user with a new name and the next id is distinct from the others.
LEMMA RegisterCarries ==
  ASSUME AccountsInv, NEW n \in Nickname, nextId < MaxId,
         \A k \in DOMAIN users : users[k].nickname # n
  PROVE  /\ WithUser(n) \in Seq(User) /\ Carries(users, WithUser(n)) /\ Distinct(WithUser(n), nextId + 1)
         /\ nextId \in Id /\ KeptIn(WithUser(n), [id |-> nextId, nickname |-> n])
         /\ Has(WithUser(n), nextId)
<1> DEFINE u == [id |-> nextId, nickname |-> n, secret |-> TRUE, avatar |-> NoOne, preset |-> "avatar_2"]
<1>1. users \in Seq(User) /\ DOMAIN users = 1..Len(users) /\ Len(users) \in Nat
  BY DEF AccountsInv, AccountsTypeOK
<1>2. nextId \in Id
  BY AccountBoundsAssumption DEF AccountsInv, AccountsTypeOK, Id, FirstId
<1>3. u \in User
  BY <1>2 DEF User, Presets
<1>4. u.id = nextId /\ u.nickname = n /\ u.secret = TRUE
  OBVIOUS
<1>5. WithUser(n) = Append(users, u)
  BY DEF WithUser
<1> HIDE DEF u
<1>6. /\ WithUser(n) \in Seq(User) /\ DOMAIN WithUser(n) = 1..(Len(users) + 1)
      /\ \A k \in 1..Len(users) : WithUser(n)[k] = users[k]
      /\ WithUser(n)[Len(users) + 1] = u
  BY <1>1, <1>3, <1>5, AppendProperties
<1>7. Distinct(users, nextId) /\ nextId \in Int /\ \A k \in 1..Len(users) : users[k].id \in Int
  <2>1. \A k \in 1..Len(users) : users[k].id \in Id
    <3>1. \A k \in 1..Len(users) : users[k] \in User
      BY <1>1
    <3> QED
      BY <3>1 DEF User
  <2> QED
    BY <2>1 DEF AccountsInv, AccountsTypeOK, StoreInv, Id
<1>8. Distinct(WithUser(n), nextId + 1)
  <2> DEFINE us == WithUser(n)
             new == Len(users) + 1
  <2>1. /\ DOMAIN us = 1..new /\ us[new].id = nextId /\ us[new].nickname = n /\ new \in Nat
        /\ \A k \in 1..new : k # new => k \in 1..Len(users)
    BY <1>1, <1>4, <1>6
  <2>2. \A k \in 1..Len(users) : /\ us[k] = users[k] /\ k \in DOMAIN users
                                 /\ users[k].id < nextId /\ users[k].id # nextId /\ users[k].nickname # n
    BY <1>1, <1>6, <1>7 DEF Distinct
  <2>3. ASSUME NEW k \in 1..new PROVE us[k].id < nextId + 1
    <3>1. CASE k = new
      BY <1>7, <2>1, <3>1
    <3>2. CASE k # new
      BY <1>7, <2>1, <2>2, <3>2
    <3> QED
      BY <3>1, <3>2
  <2>4. ASSUME NEW j \in 1..new, NEW k \in 1..new, us[j].id = us[k].id \/ us[j].nickname = us[k].nickname
        PROVE  j = k
    <3> HIDE DEF us, new
    <3>1. CASE j # new /\ k # new
      <4>1. j \in 1..Len(users) /\ k \in 1..Len(users)
        BY <2>1, <3>1
      <4> QED
        BY <1>7, <2>2, <2>4, <4>1 DEF Distinct
    <3>2. CASE j = new /\ k # new
      BY <2>1, <2>2, <2>4, <3>2
    <3>3. CASE j # new /\ k = new
      BY <2>1, <2>2, <2>4, <3>3
    <3> QED
      BY <3>1, <3>2, <3>3
  <2> HIDE DEF us, new
  <2>5. Distinct(us, nextId + 1)
    BY <2>1, <2>3, <2>4 DEF Distinct
  <2> QED
    BY <2>5 DEF us
<1>9. Carries(users, WithUser(n))
  BY <1>1, <1>6 DEF Carries
<1>10. Len(users) + 1 \in DOMAIN WithUser(n)
  BY <1>1, <1>6
<1> QED
  BY <1>2, <1>4, <1>6, <1>8, <1>9, <1>10 DEF KeptIn, Has

\* A beginning of a file of distinct users is one, too.
LEMMA TornIsDistinct ==
  ASSUME NEW us \in Seq(User), NEW next \in Nat, next >= FirstId, Distinct(us, next),
         NEW f \in Torn(us, next)
  PROVE  /\ f.users \in Seq(User) /\ f.nextId \in Nat /\ f.nextId >= FirstId
         /\ Distinct(f.users, f.nextId)
<1>1. Len(us) \in Nat /\ DOMAIN us = 1..Len(us) /\ \A k \in DOMAIN us : us[k] \in User
  BY LenProperties, ElementOfSeq
<1>2. CASE f = [nextId |-> FirstId, users |-> << >>]
  BY <1>2, EmptySeq DEF Distinct, FirstId
<1>3. ASSUME NEW k \in 0..Len(us)
      PROVE  /\ SubSeq(us, 1, k) \in Seq(User) /\ Len(SubSeq(us, 1, k)) = k
             /\ \A j \in 1..k : SubSeq(us, 1, k)[j] = us[j]
  <2>1. \A i \in 1..k : us[i] \in User
    BY <1>1
  <2>2. /\ SubSeq(us, 1, k) \in Seq(User)
        /\ Len(SubSeq(us, 1, k)) = IF 1 <= k THEN k - 1 + 1 ELSE 0
        /\ \A i \in 1..(k - 1 + 1) : SubSeq(us, 1, k)[i] = us[1 + i - 1]
    BY <2>1, SubSeqProperties
  <2> QED
    BY <2>2
<1>4. ASSUME NEW k \in 0..Len(us), f = [nextId |-> next, users |-> SubSeq(us, 1, k)]
      PROVE  f.users \in Seq(User) /\ f.nextId = next /\ Distinct(f.users, next)
  <2>1. DOMAIN SubSeq(us, 1, k) = 1..k /\ \A j \in 1..k : SubSeq(us, 1, k)[j] = us[j] /\ j \in DOMAIN us
    BY <1>1, <1>3, LenProperties
  <2>2. Distinct(SubSeq(us, 1, k), next)
    BY <2>1 DEF Distinct
  <2> QED
    BY <1>3, <1>4, <2>2
<1>5. ASSUME NEW k \in DOMAIN us, NEW u \in Beginnings(us[k]),
             f = [nextId |-> next, users |-> Append(SubSeq(us, 1, k - 1), u)]
      PROVE  f.users \in Seq(User) /\ f.nextId = next /\ Distinct(f.users, next)
  <2> DEFINE part == SubSeq(us, 1, k - 1)
             all == Append(part, u)
  <2>1. u \in User /\ u.id = us[k].id /\ u.nickname = us[k].nickname
    <3>1. us[k] \in User
      BY <1>1
    <3> QED
      BY <3>1 DEF Beginnings, User, Presets
  <2>2. k \in Nat /\ k - 1 \in 0..Len(us) /\ part \in Seq(User) /\ Len(part) = k - 1
        /\ \A j \in 1..(k - 1) : part[j] = us[j]
    BY <1>1, <1>3
  <2> HIDE DEF part
  <2>3. all \in Seq(User) /\ Len(all) = k /\ (\A j \in 1..(k - 1) : all[j] = us[j]) /\ all[k] = u
    BY <2>1, <2>2, AppendProperties
  <2>4. DOMAIN all = 1..k
    BY <2>3, LenProperties
  <2> HIDE DEF all
  <2>5. \A j \in DOMAIN all : j \in DOMAIN us /\ all[j].id = us[j].id /\ all[j].nickname = us[j].nickname
    BY <1>1, <2>1, <2>2, <2>3, <2>4
  <2>6. Distinct(all, next)
    BY <2>5 DEF Distinct
  <2> QED
    BY <1>5, <2>3, <2>6 DEF all, part
<1> QED
  BY <1>2, <1>4, <1>5 DEF Torn

\* What load makes of a file has the users of the file, and all the pictures that
\* were promised.
LEMMA LoadedCarries ==
  ASSUME NEW us \in Seq(User)
  PROVE  Records(us) \in Seq(User) /\ Carries(us, Records(us)) /\ DOMAIN Records(us) = DOMAIN us
<1>1. Len(us) \in Nat /\ DOMAIN us = 1..Len(us) /\ \A k \in DOMAIN us : us[k] \in User
  BY LenProperties, ElementOfSeq
<1>2. ASSUME NEW k \in DOMAIN us
      PROVE  /\ Found(us, k, "avatar", NoOne) \in Id \cup {NoOne}
             /\ us[k].avatar # NoOne => Found(us, k, "avatar", NoOne) = us[k].avatar
  <2> DEFINE later == {j \in k..Len(us) : us[j].avatar # NoOne}
  <2>1. later \subseteq DOMAIN us /\ \A j \in DOMAIN us : us[j].avatar \in Id \cup {NoOne}
    BY <1>1 DEF User
  <2>2. CASE later = {}
    BY <1>1, <2>2 DEF Found
  <2>3. CASE later # {}
    <3>1. PICK least \in later : \A i \in later : least <= i
      <4>1. later \subseteq Nat
        BY <1>1
      <4> HIDE DEF later
      <4> QED
        BY <2>3, <4>1, LeastNat
    <3> DEFINE j == CHOOSE l \in later : \A i \in later : l <= i
    <3>2. j \in later /\ \A i \in later : j <= i
      BY <3>1
    <3>3. Found(us, k, "avatar", NoOne) = us[j].avatar
      BY <2>3 DEF Found
    <3>4. us[k].avatar # NoOne => j = k
      BY <1>1, <3>2
    <3> HIDE DEF j
    <3> QED
      BY <2>1, <3>2, <3>3, <3>4
  <2> QED
    BY <2>2, <2>3
<1>3. ASSUME NEW k \in DOMAIN us
      PROVE  Found(us, k, "preset", "none") \in Presets
  <2> DEFINE later == {j \in k..Len(us) : us[j].preset # "none"}
  <2>1. later \subseteq DOMAIN us /\ \A j \in DOMAIN us : us[j].preset \in Presets
    BY <1>1 DEF User
  <2>2. CASE later = {}
    BY <2>2 DEF Found, Presets
  <2>3. CASE later # {}
    <3>1. PICK least \in later : \A i \in later : least <= i
      <4>1. later \subseteq Nat
        BY <1>1
      <4> HIDE DEF later
      <4> QED
        BY <2>3, <4>1, LeastNat
    <3>2. (CHOOSE j \in later : \A i \in later : j <= i) \in later
      BY <3>1
    <3> QED
      BY <2>1, <2>3, <3>2 DEF Found
  <2> QED
    BY <2>2, <2>3
<1>4. ASSUME NEW k \in DOMAIN us
      PROVE  /\ Records(us)[k] \in User /\ Records(us)[k].id = us[k].id
             /\ Records(us)[k].nickname = us[k].nickname /\ Records(us)[k].secret = us[k].secret
             /\ us[k].avatar = us[k].id => Records(us)[k].avatar = us[k].id
  <2>1. us[k] \in User
    BY <1>1
  <2>2. us[k].id # NoOne
    BY <2>1 DEF User, Id, FirstId, NoOne
  <2> QED
    BY <1>2, <1>3, <2>1, <2>2 DEF Records, User
<1>5. DOMAIN Records(us) = DOMAIN us
  BY DEF Records
<1>6. Records(us) \in Seq(User)
  <2>1. Records(us) \in [1..Len(us) -> User]
    BY <1>1, <1>4 DEF Records
  <2> QED
    BY <1>1, <2>1, SeqDef
<1> QED
  BY <1>4, <1>5, <1>6 DEF Carries

\* A save of users that lose none and no picture of their own, however it ends, keeps
\* every answer in memory, and in the file if it is written whole.
LEMMA SaveKeeps ==
  ASSUME AccountsInv, serving, NEW us \in Seq(User), NEW next \in Nat, next >= FirstId,
         Carries(users, us), Distinct(us, next), Save(us, next), UNCHANGED <<serving, tokenVars, held>>,
         \A a \in promised' \ lapsed' : a \in promised \ lapsed \/ KeptIn(us, a),
         asking' = [c \in Client |-> asking'[c]],
         \A c \in Client :
             \/ asking'[c] \in {asking[c], NothingAsked}
             \/ /\ asking'[c].op = "issue" /\ asking'[c].user \in Id /\ Has(us, asking'[c].user)
                /\ asking'[c].nickname \in Nickname
                /\ KeptIn(us, [id |-> asking'[c].user, nickname |-> asking'[c].nickname])
  PROVE  AccountsInv'
<1>1. users' = us /\ nextId' = next /\ saved' \in BOOLEAN /\ (saved' => disk'.users = us)
  <2>1. CASE disk' = [nextId |-> next, users |-> us] /\ saved' = TRUE
    BY <2>1 DEF Save
  <2>2. CASE saved' = FALSE
    BY <2>2 DEF Save
  <2> QED
    BY <2>1, <2>2 DEF Save
<1>2. disk'.users \in Seq(User) /\ disk'.nextId \in Nat /\ disk'.nextId >= FirstId
      /\ Distinct(disk'.users, disk'.nextId)
  <2>1. CASE disk' = [nextId |-> next, users |-> us]
    BY <2>1
  <2>2. CASE disk' = disk
    BY <2>2 DEF AccountsInv, AccountsTypeOK, StoreInv
  <2>3. CASE disk' \in Torn(us, next)
    BY <2>3, TornIsDistinct
  <2> QED
    BY <2>1, <2>2, <2>3 DEF Save
<1>3. AccountsTypeOK'
  BY <1>1, <1>2 DEF AccountsInv, AccountsTypeOK, tokenVars
<1>4. (\A a : KeptIn(users, a) => KeptIn(us, a)) /\ (\A i : Has(users, i) => Has(us, i))
  BY CarriesKept
<1>5. ASSUME NEW a, Kept(a) \/ KeptIn(us, a)
      PROVE  Kept(a)'
  BY <1>1, <1>4, <1>5 DEF Kept
<1>6. StoreInv'
  <2>1. SameUsers(us, us)
    BY DEF SameUsers, Carries
  <2>2. \A a \in promised' \ lapsed' : Kept(a)'
    BY <1>5 DEF AccountsInv, StoreInv
  <2> QED
    BY <1>1, <1>2, <2>1, <2>2 DEF StoreInv
<1>7. ASSUME NEW c \in Client
      PROVE  /\ asking'[c].op \in {"none", "issue", "avatar", "preset"}
             /\ asking'[c].op # "none" =>
                    serving' /\ asking'[c].user \in Id /\ Has(us, asking'[c].user)
             /\ asking'[c].op = "issue" =>
                    /\ asking'[c].nickname \in Nickname
                    /\ \/ Kept([id |-> asking'[c].user, nickname |-> asking'[c].nickname])
                       \/ KeptIn(us, [id |-> asking'[c].user, nickname |-> asking'[c].nickname])
             /\ held'[c] # NoToken => held'[c].user \in Id /\ held'[c].number # 0
  <2>1. CASE asking'[c] = asking[c]
    BY <1>4, <2>1 DEF AccountsInv, RequestInv
  <2>2. CASE asking'[c] = NothingAsked
    <3>1. NothingAsked.op = "none"
      BY DEF NothingAsked
    <3>2. held[c] # NoToken => held[c].user \in Id /\ held[c].number # 0
      BY DEF AccountsInv, RequestInv
    <3> QED
      BY <2>2, <3>1, <3>2
  <2>3. CASE asking'[c].op = "issue" /\ asking'[c].user \in Id /\ Has(us, asking'[c].user)
             /\ asking'[c].nickname \in Nickname
             /\ KeptIn(us, [id |-> asking'[c].user, nickname |-> asking'[c].nickname])
    BY <2>3 DEF AccountsInv, RequestInv
  <2> QED
    BY <2>1, <2>2, <2>3
<1>8. \A i \in Id : tokenOf'[i] # 0 => serving' /\ Has(us, i)
  BY <1>4 DEF AccountsInv, RequestInv, tokenVars
<1>9. \A c \in Client : asking'[c].op = "issue" =>
          Kept([id |-> asking[c].user, nickname |-> asking[c].nickname])'
  BY <1>5, <1>7
<1>10. RequestInv'
  BY <1>1, <1>7, <1>8, <1>9 DEF RequestInv
<1> QED
  BY <1>3, <1>6, <1>10 DEF AccountsInv

\* A registration adds a user with a name and an id of their own.
LEMMA RegisterKeeps ==
  ASSUME AccountsInv, NEW c \in Client, NEW n \in Nickname, Register(c, n)
  PROVE  AccountsInv'
<1>1. /\ serving /\ nextId < MaxId /\ Save(WithUser(n), nextId + 1)
      /\ \A k \in DOMAIN users : users[k].nickname # n
      /\ asking' = [asking EXCEPT ![c] = [op |-> "issue", user |-> nextId, nickname |-> n]]
      /\ UNCHANGED <<serving, tokenVars, held, promised, lapsed>>
  BY DEF Register, Asks
<1>2. nextId + 1 \in Nat /\ nextId + 1 >= FirstId /\ asking = [d \in Client |-> asking[d]]
  BY DEF AccountsInv, AccountsTypeOK, FirstId
<1>3. /\ WithUser(n) \in Seq(User) /\ Carries(users, WithUser(n)) /\ Distinct(WithUser(n), nextId + 1)
      /\ nextId \in Id /\ KeptIn(WithUser(n), [id |-> nextId, nickname |-> n]) /\ Has(WithUser(n), nextId)
  BY <1>1, RegisterCarries
<1>4. asking' = [d \in Client |-> asking'[d]]
      /\ asking'[c] = [op |-> "issue", user |-> nextId, nickname |-> n]
      /\ \A d \in Client \ {c} : asking'[d] = asking[d]
  BY <1>1, <1>2
<1> QED
  BY <1>1, <1>2, <1>3, <1>4, SaveKeeps

\* A picture is stored for the user that the token was for, who is still there.
LEMMA UpdateKeeps ==
  ASSUME AccountsInv, NEW c \in Client,
         UpdateAvatar(c) \/ \E p \in Presets : UpdateAvatarPreset(c, p)
  PROVE  AccountsInv'
<1> DEFINE i == asking[c].user
<1>1. serving /\ i \in Id /\ Has(users, i) /\ UNCHANGED <<serving, tokenVars, held>> /\ Answered(c)
  BY DEF UpdateAvatar, UpdateAvatarPreset, AnsweredThat, Asks, AccountsInv, RequestInv
<1>2. nextId \in Nat /\ nextId >= FirstId /\ asking = [d \in Client |-> asking[d]]
  BY DEF AccountsInv, AccountsTypeOK
<1>3. asking' = [d \in Client |-> asking'[d]]
      /\ \A d \in Client : asking'[d] \in {asking[d], NothingAsked}
  BY <1>1, <1>2 DEF Answered
<1> HIDE DEF i
<1>4. CASE UpdateAvatar(c)
  <2>1. /\ Save(WithAvatar(i), nextId) /\ promised' = promised \cup {[id |-> i, picture |-> TRUE]}
        /\ lapsed' = lapsed \ {[id |-> i, picture |-> TRUE]}
    BY <1>4 DEF UpdateAvatar, AnsweredThat, i
  <2>2. /\ WithAvatar(i) \in Seq(User) /\ Carries(users, WithAvatar(i)) /\ Distinct(WithAvatar(i), nextId)
        /\ KeptIn(WithAvatar(i), [id |-> i, picture |-> TRUE])
    BY <1>1, UpdatesCarry DEF Presets
  <2> QED
    BY <1>1, <1>2, <1>3, <2>1, <2>2, SaveKeeps
<1>5. ASSUME NEW p \in Presets, UpdateAvatarPreset(c, p)
      PROVE  AccountsInv'
  <2>1. Save(WithPreset(i, p), nextId) /\ UNCHANGED <<promised, lapsed>>
    BY <1>5 DEF UpdateAvatarPreset, i
  <2>2. /\ WithPreset(i, p) \in Seq(User) /\ Carries(users, WithPreset(i, p)) /\ Distinct(WithPreset(i, p), nextId)
    BY <1>1, UpdatesCarry
  <2> QED
    BY <1>1, <1>2, <1>3, <2>1, <2>2, SaveKeeps
<1> QED
  BY <1>4, <1>5


\* A request that leaves the users alone.
LEMMA RequestKeeps ==
  ASSUME AccountsInv, serving, NEW c \in Client, UNCHANGED <<storeVars, serving>>,
         tokenOf' \in [Id -> Nat], issued' \in Nat,
         \A a \in promised' \ lapsed' : a \in promised \ lapsed \/ Kept(a),
         \A i \in Id : tokenOf'[i] # 0 => Has(users, i),
         held' \in [Client -> [user : Id \cup {NoOne}, number : Nat]],
         \A d \in Client : held'[d] = held[d] \/ (held'[d].user \in Id /\ held'[d].number # 0),
         asking' = [d \in Client |-> asking'[d]],
         \A d \in Client \ {c} : asking'[d] = asking[d],
         \/ asking'[c] \in {asking[c], NothingAsked}
         \/ /\ asking'[c].op \in {"avatar", "preset"}
            /\ asking'[c].user \in Id /\ Has(users, asking'[c].user)
         \/ /\ asking'[c].op = "issue" /\ asking'[c].user \in Id /\ Has(users, asking'[c].user)
            /\ asking'[c].nickname \in Nickname
            /\ Kept([id |-> asking'[c].user, nickname |-> asking'[c].nickname])
  PROVE  AccountsInv'
<1>1. users' = users /\ nextId' = nextId /\ disk' = disk /\ serving' = serving /\ saved' = saved
  BY DEF storeVars
<1>2. AccountsTypeOK'
  BY <1>1 DEF AccountsInv, AccountsTypeOK
<1> DEFINE kept(a) == Kept(a)
<1>3. StoreInv' /\ \A a : kept(a) => Kept(a)'
  BY <1>1 DEF AccountsInv, StoreInv, Kept
<1>4. ASSUME NEW d \in Client
      PROVE  /\ asking'[d].op \in {"none", "issue", "avatar", "preset"}
             /\ asking'[d].op # "none" => asking'[d].user \in Id /\ Has(users, asking'[d].user)
             /\ asking'[d].op = "issue" =>
                    /\ asking'[d].nickname \in Nickname
                    /\ kept([id |-> asking'[d].user, nickname |-> asking'[d].nickname])
  <2>1. CASE asking'[d] = asking[d]
    BY <2>1 DEF AccountsInv, RequestInv
  <2>2. CASE asking'[d] = NothingAsked
    <3>1. NothingAsked.op = "none"
      BY DEF NothingAsked
    <3> QED
      BY <2>2, <3>1
  <2>3. CASE d = c /\ ~(asking'[c] \in {asking[c], NothingAsked})
    BY <2>3
  <2> QED
    BY <2>1, <2>2, <2>3
<1>5. \A d \in Client : held'[d] # NoToken => held'[d].user \in Id /\ held'[d].number # 0
  BY DEF AccountsInv, RequestInv
<1>6. \A d \in Client : asking'[d].op = "issue" =>
          Kept([id |-> asking[d].user, nickname |-> asking[d].nickname])'
  BY <1>3, <1>4
<1>7. RequestInv'
  BY <1>1, <1>4, <1>5, <1>6 DEF RequestInv
<1> QED
  BY <1>2, <1>3, <1>7 DEF AccountsInv

\* A login finds a user there is.
LEMMA LoginKeeps ==
  ASSUME AccountsInv, NEW c \in Client, NEW n \in Nickname, Login(c, n)
  PROVE  AccountsInv'
<1>1. serving /\ UNCHANGED <<storeVars, serving, tokenVars, held, promised, lapsed>>
  BY DEF Login, Asks
<1>2. PICK k \in DOMAIN users :
          /\ users[k].nickname = n /\ users[k].secret
          /\ asking' = [asking EXCEPT ![c] = [op |-> "issue", user |-> users[k].id, nickname |-> n]]
  BY DEF Login
<1> DEFINE i == users[k].id
<1>3. i \in Id /\ Has(users, i)
  <2>1. users[k] \in User
    BY DEF AccountsInv, AccountsTypeOK
  <2> QED
    BY <2>1 DEF User, Has
<1>4. Kept([id |-> i, nickname |-> n])
  BY <1>1, <1>2 DEF AccountsInv, StoreInv, SameUsers, Carries, Kept, KeptIn
<1> HIDE DEF i
<1>5. /\ issued \in Nat /\ tokenOf \in [Id -> Nat] /\ asking = [d \in Client |-> asking[d]]
      /\ held \in [Client -> [user : Id \cup {NoOne}, number : Nat]]
      /\ \A j \in Id : tokenOf[j] # 0 => Has(users, j)
  BY DEF AccountsInv, AccountsTypeOK, RequestInv
<1>6. /\ asking' = [d \in Client |-> asking'[d]] /\ asking'[c] = [op |-> "issue", user |-> i, nickname |-> n]
      /\ \A d \in Client \ {c} : asking'[d] = asking[d]
  BY <1>2, <1>5 DEF i
<1> QED
  BY <1>1, <1>3, <1>4, <1>5, <1>6, RequestKeeps DEF tokenVars

\* A token is made for the user that was found, and the answer promises the account.
LEMMA IssueTokenKeeps ==
  ASSUME AccountsInv, NEW c \in Client, IssueToken(c)
  PROVE  AccountsInv'
<1> DEFINE i == asking[c].user
           answer == [id |-> i, nickname |-> asking[c].nickname]
<1>1. /\ serving /\ i \in Id /\ Has(users, i)
      /\ Kept(answer)
  BY DEF IssueToken, Asks, AccountsInv, RequestInv
<1>2. /\ promised' = promised \cup {answer} /\ lapsed' = lapsed \ {answer}
      /\ UNCHANGED <<storeVars, serving>>
      /\ issued' = issued + 1 /\ tokenOf' = [tokenOf EXCEPT ![i] = issued + 1]
      /\ held' = [held EXCEPT ![c] = [user |-> i, number |-> issued + 1]]
      /\ asking' = [asking EXCEPT ![c] = NothingAsked]
  BY DEF IssueToken, AnsweredThat, Answered
<1> HIDE DEF answer, i
<1>3. /\ issued \in Nat /\ tokenOf \in [Id -> Nat] /\ asking = [d \in Client |-> asking[d]]
      /\ held \in [Client -> [user : Id \cup {NoOne}, number : Nat]]
  BY DEF AccountsInv, AccountsTypeOK
<1>4. tokenOf' \in [Id -> Nat] /\ issued' \in Nat /\ \A j \in Id : tokenOf'[j] # 0 => Has(users, j)
  BY <1>1, <1>2, <1>3 DEF AccountsInv, RequestInv
<1>5. /\ held' \in [Client -> [user : Id \cup {NoOne}, number : Nat]]
      /\ \A d \in Client : held'[d] = held[d] \/ (held'[d].user \in Id /\ held'[d].number # 0)
  BY <1>1, <1>2, <1>3
<1>6. /\ asking' = [d \in Client |-> asking'[d]] /\ asking'[c] = NothingAsked
      /\ \A d \in Client \ {c} : asking'[d] = asking[d]
  BY <1>2, <1>3
<1> QED
  BY <1>1, <1>2, <1>4, <1>5, <1>6, RequestKeeps

\* A token that is valid is that of a user there is.
LEMMA ValidateTokenKeeps ==
  ASSUME AccountsInv, NEW c \in Client, NEW op \in {"avatar", "preset"}, ValidateToken(c, op)
  PROVE  AccountsInv'
<1> DEFINE i == held[c].user
<1>1. /\ serving /\ held[c] # NoToken /\ tokenOf[i] = held[c].number
      /\ asking' = [asking EXCEPT ![c] = [op |-> op, user |-> i]]
      /\ UNCHANGED <<storeVars, serving, tokenVars, held, promised, lapsed>>
  BY DEF ValidateToken, Asks
<1>2. i \in Id /\ Has(users, i)
  BY <1>1 DEF AccountsInv, RequestInv
<1> HIDE DEF i
<1>3. /\ issued \in Nat /\ tokenOf \in [Id -> Nat] /\ asking = [d \in Client |-> asking[d]]
      /\ held \in [Client -> [user : Id \cup {NoOne}, number : Nat]]
      /\ \A j \in Id : tokenOf[j] # 0 => Has(users, j)
  BY DEF AccountsInv, AccountsTypeOK, RequestInv
<1>4. /\ asking' = [d \in Client |-> asking'[d]] /\ asking'[c] = [op |-> op, user |-> i]
      /\ \A d \in Client \ {c} : asking'[d] = asking[d]
  BY <1>1, <1>3
<1> QED
  BY <1>1, <1>2, <1>3, <1>4, RequestKeeps DEF tokenVars

\* A token that expires is nobody's.
LEMMA ExpireTokenKeeps ==
  ASSUME AccountsInv, NEW i \in Id, ExpireToken(i)
  PROVE  AccountsInv'
<1>1. /\ serving /\ UNCHANGED <<storeVars, serving, issued, held, asking, promised, lapsed>>
      /\ tokenOf' = [tokenOf EXCEPT ![i] = 0]
  BY DEF ExpireToken
<1>2. AccountsTypeOK'
  BY <1>1 DEF AccountsInv, AccountsTypeOK, storeVars
<1>3. StoreInv'
  BY <1>1 DEF AccountsInv, StoreInv, storeVars, Kept
<1>4. tokenOf \in [Id -> Nat] /\ \A j \in Id : tokenOf[j] # 0 => serving /\ Has(users, j)
  BY DEF AccountsInv, AccountsTypeOK, RequestInv
<1>5. \A j \in Id : tokenOf'[j] # 0 => serving' /\ Has(users', j)
  BY <1>1, <1>4 DEF storeVars
<1>6. RequestInv'
  BY <1>1, <1>5 DEF AccountsInv, RequestInv, storeVars, Kept
<1> QED
  BY <1>2, <1>3, <1>6 DEF AccountsInv

\* Whatever the file, when the users in it are distinct and the answers that have not
\* lapsed are in it.
LEMMA StopKeeps ==
  ASSUME AccountsInv, NEW f, Stop(f),
         f.users \in Seq(User), f.nextId \in Nat, f.nextId >= FirstId, Distinct(f.users, f.nextId),
         \A a \in promised \ lapsed' : KeptIn(f.users, a)
  PROVE  AccountsInv'
<1>1. /\ serving' = FALSE /\ disk' = f /\ users' = << >> /\ nextId' = FirstId
      /\ tokenOf' = [i \in Id |-> 0] /\ asking' = [c \in Client |-> NothingAsked]
      /\ UNCHANGED <<issued, held, promised, saved>>
  BY DEF Stop
<1>2. AccountsTypeOK'
  <2>1. users' \in Seq(User) /\ nextId' \in Nat /\ nextId' >= FirstId
    BY <1>1, EmptySeq DEF FirstId
  <2> QED
    BY <1>1, <2>1 DEF AccountsInv, AccountsTypeOK
<1>3. StoreInv'
  BY <1>1 DEF StoreInv, Distinct, Kept
<1>4. \A c \in Client : asking'[c].op = "none"
  BY <1>1 DEF NothingAsked
<1>5. RequestInv'
  BY <1>1, <1>4 DEF AccountsInv, RequestInv
<1> QED
  BY <1>2, <1>3, <1>5 DEF AccountsInv

\* A crash loses what is in memory, and one in a save a part of the file.
LEMMA CrashKeeps ==
  ASSUME AccountsInv, Crash \/ CrashInSave
  PROVE  AccountsInv'
<1>1. CASE Crash
  <2>1. Stop(disk) /\ lapsed' = IF saved THEN lapsed ELSE promised
    BY <1>1 DEF Crash
  <2>2. \A a \in promised \ lapsed' : KeptIn(disk.users, a)
    BY <2>1 DEF AccountsInv, StoreInv, Kept
  <2> QED
    BY <2>1, <2>2, StopKeeps DEF AccountsInv, AccountsTypeOK, StoreInv
<1>2. CASE CrashInSave
  <2>1. PICK c \in Client :
          /\ \/ /\ asking[c].op = "none" /\ nextId < MaxId /\ Len(users) < MaxUsers
                /\ \E n \in Nickname :
                      /\ \A k \in DOMAIN users : users[k].nickname # n
                      /\ \E f \in Torn(WithUser(n), nextId + 1) : Stop(f)
             \/ /\ asking[c].op = "avatar"
                /\ \E f \in Torn(WithAvatar(asking[c].user), nextId) : Stop(f)
             \/ /\ asking[c].op = "preset"
                /\ \E p \in Presets : \E f \in Torn(WithPreset(asking[c].user, p), nextId) : Stop(f)
          /\ lapsed' = promised
    BY <1>2 DEF CrashInSave
  <2>2. nextId \in Nat /\ nextId + 1 \in Nat /\ nextId >= FirstId /\ nextId + 1 >= FirstId
    BY DEF AccountsInv, AccountsTypeOK, FirstId
  <2>3. \E us \in Seq(User), next \in {nextId, nextId + 1} :
            Distinct(us, next) /\ \E f \in Torn(us, next) : Stop(f)
    <3>1. CASE asking[c].op = "none" /\ nextId < MaxId
               /\ \E n \in Nickname :
                      /\ \A k \in DOMAIN users : users[k].nickname # n
                      /\ \E f \in Torn(WithUser(n), nextId + 1) : Stop(f)
      BY <3>1, RegisterCarries
    <3>2. CASE asking[c].op = "avatar" /\ \E f \in Torn(WithAvatar(asking[c].user), nextId) : Stop(f)
      <4>1. asking[c].user \in Id /\ "none" \in Presets
        BY <3>2 DEF AccountsInv, RequestInv, Presets
      <4> QED
        BY <3>2, <4>1, UpdatesCarry
    <3>3. CASE asking[c].op = "preset"
               /\ \E p \in Presets : \E f \in Torn(WithPreset(asking[c].user, p), nextId) : Stop(f)
      <4>1. asking[c].user \in Id
        BY <3>3 DEF AccountsInv, RequestInv
      <4> QED
        BY <3>3, <4>1, UpdatesCarry
    <3> QED
      BY <2>1, <3>1, <3>2, <3>3
  <2>4. PICK us \in Seq(User), next \in {nextId, nextId + 1} :
            Distinct(us, next) /\ \E f \in Torn(us, next) : Stop(f)
    BY <2>3
  <2>5. PICK f \in Torn(us, next) : Stop(f)
    BY <2>4
  <2>6. f.users \in Seq(User) /\ f.nextId \in Nat /\ f.nextId >= FirstId /\ Distinct(f.users, f.nextId)
    BY <2>2, <2>4, TornIsDistinct
  <2> QED
    BY <2>1, <2>5, <2>6, StopKeeps
<1> QED
  BY <1>1, <1>2

\* A restart reads what is left of the file.
LEMMA RestartKeeps ==
  ASSUME AccountsInv, Restart
  PROVE  AccountsInv'
<1>1. /\ ~serving /\ serving' = TRUE /\ users' = Records(disk.users) /\ nextId' = disk.nextId
      /\ saved' = TRUE /\ UNCHANGED <<disk, tokenVars, held, asking, promised, lapsed>>
  BY DEF Restart, Loaded
<1>2. disk.users \in Seq(User) /\ Distinct(disk.users, disk.nextId)
      /\ \A a \in promised \ lapsed : KeptIn(disk.users, a)
  BY <1>1 DEF AccountsInv, AccountsTypeOK, StoreInv, Kept
<1>3. /\ Records(disk.users) \in Seq(User) /\ Carries(disk.users, Records(disk.users))
      /\ DOMAIN Records(disk.users) = DOMAIN disk.users
  BY <1>2, LoadedCarries
<1>4. AccountsTypeOK'
  BY <1>1, <1>3 DEF AccountsInv, AccountsTypeOK, tokenVars
<1>5. Distinct(Records(disk.users), disk.nextId)
  BY <1>2, <1>3 DEF Distinct, Carries
<1>6. \A a : KeptIn(disk.users, a) => KeptIn(Records(disk.users), a)
  BY <1>3, CarriesKept
<1>7. StoreInv'
  BY <1>1, <1>2, <1>3, <1>5, <1>6 DEF StoreInv, SameUsers, Kept
<1>8. /\ \A c \in Client : asking[c].op = "none"
      /\ \A c \in Client : held[c] # NoToken => held[c].user \in Id /\ held[c].number # 0
      /\ \A i \in Id : tokenOf[i] = 0
  BY <1>1 DEF AccountsInv, RequestInv
<1>9. RequestInv'
  BY <1>1, <1>8 DEF RequestInv, tokenVars
<1> QED
  BY <1>4, <1>7, <1>9 DEF AccountsInv

\* So every step keeps what was answered, in memory and in a file that was saved.
LEMMA AccountsInvNext == AccountsInv /\ [AccountsNext]_accountsVars => AccountsInv'
<1> SUFFICES ASSUME AccountsInv, [AccountsNext]_accountsVars PROVE AccountsInv'
  OBVIOUS
<1>1. ASSUME NEW c \in Client, NEW n \in Nickname, Register(c, n) \/ Login(c, n)
      PROVE  AccountsInv'
  BY <1>1, RegisterKeeps, LoginKeeps
<1>2. ASSUME NEW c \in Client, NEW op \in {"avatar", "preset"}, ValidateToken(c, op)
      PROVE  AccountsInv'
  BY <1>2, ValidateTokenKeeps
<1>3. ASSUME NEW c \in Client, IssueToken(c)
      PROVE  AccountsInv'
  BY <1>3, IssueTokenKeeps
<1>4. ASSUME NEW c \in Client, UpdateAvatar(c) \/ \E p \in Presets : UpdateAvatarPreset(c, p)
      PROVE  AccountsInv'
  BY <1>4, UpdateKeeps
<1>5. ASSUME NEW i \in Id, ExpireToken(i)
      PROVE  AccountsInv'
  BY <1>5, ExpireTokenKeeps
<1>6. CASE Crash \/ CrashInSave
  BY <1>6, CrashKeeps
<1>7. CASE Restart
  BY <1>7, RestartKeeps
<1>8. CASE UNCHANGED accountsVars
  <2>1. /\ users' = users /\ nextId' = nextId /\ disk' = disk /\ serving' = serving
        /\ tokenOf' = tokenOf /\ issued' = issued /\ held' = held /\ asking' = asking /\ promised' = promised
        /\ saved' = saved /\ lapsed' = lapsed
    BY <1>8 DEF accountsVars, storeVars, tokenVars
  <2> QED
    BY <2>1 DEF AccountsInv, AccountsTypeOK, StoreInv, RequestInv, Kept
<1> QED
  BY <1>1, <1>2, <1>3, <1>4, <1>5, <1>6, <1>7, <1>8 DEF AccountsNext

\* The invariant of the accounts holds in every state.
LEMMA AccountsInvAlways == AccountsSpec => []AccountsInv
  BY AccountsInvInit, AccountsInvNext, PTL DEF AccountsSpec

\* No two users have one id or one name, and the id that registerUser gives next is
\* no user's, also after a restart from a file that was cut short.
THEOREM AccountsUsersDistinct == AccountsSpec => []UsersDistinct
<1>1. AccountsInv => UsersDistinct
  BY DEF AccountsInv, StoreInv, Distinct, UsersDistinct
<1> QED
  BY <1>1, AccountsInvAlways, PTL

\* Who was answered that there is an account for a name has it, and who was answered
\* that a picture was taken has it, over stops and restarts, unless the process
\* stopped in a save or after a save that had failed (user_store.cpp).
THEOREM AccountsPromisesKept == AccountsSpec => []PromisesKept
<1>1. AccountsInv => PromisesKept
  BY DEF AccountsInv, StoreInv, Kept, PromisesKept
<1> QED
  BY <1>1, AccountsInvAlways, PTL

-----------------------------------------------------------------------------
(* Sessions *)

\* What is kept of the sessions and of the players.
SessionsTypeOK ==
    /\ connection \in [SessionId -> {"new", "open", "closed"}]
    /\ Known \subseteq SessionId
    /\ sessionOf \in [PlayerId -> SessionId \cup {NoSessionId}]
    /\ loggedIn \in [Registered -> SessionId \cup {NoSessionId}]

\* Nobody has logged in on a connection that is still to come.
NoneLoggedInBefore ==
    \A p \in Registered : \A s \in SessionId : loggedIn[p] = s => connection[s] # "new"

SessionsInv == SessionsTypeOK /\ NoneLoggedInBefore /\ LogInIsReached

\* Where messages for a user who logged in on s may go.
ReachedAt(p, s) ==
    \/ sessionOf[p] = s
    \/ \E t \in SessionId : p = AnonymousId(t) /\ sessionOf[p] \in {t, NoSessionId}

\* At first nobody is bound and nobody has logged in.
LEMMA SessionsInvInit == SessionsInit => SessionsInv
  BY DEF SessionsInit, SessionsInv, SessionsTypeOK, NoneLoggedInBefore, LogInIsReached, Known, SessionId, NoSessionId

\* Log-ins and what happens to other players' entries keep everybody reached.
LEMMA SessionsInvNext == SessionsInv /\ [SessionsNext]_sessionVars => SessionsInv'
<1> SUFFICES ASSUME SessionsInv, [SessionsNext]_sessionVars PROVE SessionsInv'
  OBVIOUS
<1> USE DEF SessionsInv, SessionsTypeOK, NoneLoggedInBefore
<1>0. /\ LogInIsReached <=> \A p \in Registered : \A s \in SessionId :
                                loggedIn[p] = s /\ connection[s] = "open" => ReachedAt(p, s)
      /\ LogInIsReached' <=> \A p \in Registered : \A s \in SessionId :
                                 loggedIn'[p] = s /\ connection'[s] = "open" => ReachedAt(p, s)'
  BY DEF LogInIsReached, ReachedAt
<1>a. Registered \subseteq PlayerId
  BY DEF PlayerId
<1>b. ASSUME NEW p, NEW s, sessionOf'[p] = sessionOf[p], ReachedAt(p, s) PROVE ReachedAt(p, s)'
  BY <1>b DEF ReachedAt
<1>1. ASSUME NEW s \in SessionId, Connect(s) PROVE SessionsInv'
  <2>1. /\ Known' \subseteq SessionId /\ connection[s] = "new"
        /\ connection' = [connection EXCEPT ![s] = "open"]
        /\ sessionOf' = sessionOf /\ loggedIn' = loggedIn
    BY <1>1 DEF Connect, EnsureSession, With, Known
  <2>2. SessionsTypeOK' /\ NoneLoggedInBefore'
    BY <2>1
  <2>3. ASSUME NEW q \in Registered, NEW t \in SessionId, loggedIn'[q] = t, connection'[t] = "open"
        PROVE  ReachedAt(q, t)'
    BY <1>0, <1>b, <2>1, <2>3
  <2> QED
    BY <1>0, <2>2, <2>3
<1>2. ASSUME NEW s \in SessionId, NEW p \in Registered, HandleLogin(s, p) PROVE SessionsInv'
  <2>1. /\ Known' \subseteq SessionId /\ connection[s] = "open" /\ connection' = connection
        /\ sessionOf' = [sessionOf EXCEPT ![p] = s] /\ p \in PlayerId
        /\ loggedIn' = [q \in Registered |-> IF q = p THEN s
                                             ELSE IF loggedIn[q] = s THEN NoSessionId ELSE loggedIn[q]]
    BY <1>2 DEF HandleLogin, BindPlayer, With, Known, PlayerId
  <2>2. SessionsTypeOK'
    BY <2>1
  <2>3. ASSUME NEW q \in Registered, NEW t \in SessionId, loggedIn'[q] = t
        PROVE  connection'[t] # "new" /\ (connection'[t] = "open" => ReachedAt(q, t)')
    <3>1. CASE q = p
      BY <2>1, <2>3, <3>1 DEF ReachedAt
    <3>2. CASE q # p
      <4>1. loggedIn[q] = t /\ q \in PlayerId
        BY <2>1, <2>3, <3>2 DEF PlayerId, SessionId, NoSessionId
      <4>2. sessionOf'[q] = sessionOf[q]
        BY <2>1, <3>2, <4>1
      <4> QED
        BY <1>0, <1>b, <2>1, <4>1, <4>2
    <3> QED
      BY <3>1, <3>2
  <2> QED
    BY <1>0, <2>2, <2>3
<1>3. ASSUME NEW s \in SessionId, BindPlayer(s, AnonymousId(s)), UNCHANGED <<connection, loggedIn>>
      PROVE  SessionsInv'
  <2>1. /\ Known' \subseteq SessionId /\ AnonymousId(s) \in PlayerId
        /\ sessionOf' = [sessionOf EXCEPT ![AnonymousId(s)] = s]
    BY <1>3 DEF BindPlayer, With, Known, PlayerId, MadeUp
  <2>2. SessionsTypeOK' /\ NoneLoggedInBefore'
    BY <1>3, <2>1
  <2>3. ASSUME NEW q \in Registered, NEW t \in SessionId, loggedIn'[q] = t, connection'[t] = "open"
        PROVE  ReachedAt(q, t)'
    <3>1. CASE q = AnonymousId(s)
      <4>1. sessionOf'[q] = s
        BY <2>1, <3>1
      <4> QED
        BY <3>1, <4>1 DEF ReachedAt
    <3>2. CASE q # AnonymousId(s)
      <4>1. sessionOf'[q] = sessionOf[q]
        BY <1>a, <2>1, <3>2
      <4> QED
        BY <1>0, <1>b, <1>3, <2>3, <4>1
    <3> QED
      BY <3>1, <3>2
  <2> QED
    BY <1>0, <2>2, <2>3
<1>4. ASSUME Known' \subseteq SessionId, UNCHANGED <<connection, sessionOf, loggedIn>>
      PROVE  SessionsInv'
  <2>1. ASSUME NEW q \in Registered, NEW t \in SessionId, loggedIn'[q] = t, connection'[t] = "open"
        PROVE  ReachedAt(q, t)'
    BY <1>0, <1>b, <1>4, <2>1
  <2> QED
    BY <1>0, <1>4, <2>1
<1>5. ASSUME NEW s \in SessionId, Disconnect(s) PROVE SessionsInv'
  <2>1. /\ Known' = Known \ {s} /\ connection' = [connection EXCEPT ![s] = "closed"]
        /\ \A q \in PlayerId : sessionOf'[q] = sessionOf[q] \/ (sessionOf[q] = s /\ sessionOf'[q] = NoSessionId)
        /\ sessionOf' \in [PlayerId -> SessionId \cup {NoSessionId}] /\ loggedIn' = loggedIn
    BY <1>5 DEF Disconnect, RemoveSession, Without, Known
  <2>2. SessionsTypeOK' /\ NoneLoggedInBefore'
    BY <2>1
  <2>3. ASSUME NEW q \in Registered, NEW t \in SessionId, loggedIn'[q] = t, connection'[t] = "open"
        PROVE  ReachedAt(q, t)'
    <3>1. t # s /\ ReachedAt(q, t)
      BY <1>0, <2>1, <2>3
    <3>2. CASE sessionOf'[q] = sessionOf[q]
      BY <1>b, <3>1, <3>2
    <3>3. CASE sessionOf[q] = s /\ sessionOf'[q] = NoSessionId
      BY <3>1, <3>3 DEF ReachedAt
    <3> QED
      BY <1>a, <2>1, <3>2, <3>3
  <2> QED
    BY <1>0, <2>2, <2>3
<1>7. ASSUME NEW s \in SessionId, ResolveAtOnce(s) PROVE SessionsInv'
  BY <1>3, <1>7 DEF ResolveAtOnce
<1>8. ASSUME NEW s \in SessionId, BeginResolve(s) PROVE SessionsInv'
  <2>1. Known' \subseteq SessionId
    BY <1>8 DEF BeginResolve, EnsureSession, With, Known
  <2> QED
    BY <1>4, <1>8, <2>1 DEF BeginResolve
<1>9. ASSUME NEW s \in SessionId, EndResolve(s) PROVE SessionsInv'
  BY <1>3, <1>4, <1>9 DEF EndResolve, bindingVars, Known
<1>10. ASSUME NEW s \in SessionId, PostRoomMessage(s) PROVE SessionsInv'
  BY <1>4, <1>10 DEF PostRoomMessage, bindingVars, Known
<1>11. CASE UNCHANGED sessionVars
  BY <1>4, <1>11 DEF sessionVars, bindingVars, Known
<1> HIDE DEF SessionsInv, SessionsTypeOK, NoneLoggedInBefore
<1> QED
  BY <1>1, <1>2, <1>5, <1>7, <1>8, <1>9, <1>10, <1>11 DEF SessionsNext

\* Whichever connections close and whichever late requests bind an anonymous player,
\* before, between or after log-ins, a user is reached where they logged in last,
\* unless their id is the one made up for a connection: only that connection may
\* take them (session_manager.cpp).
THEOREM SessionsLogInIsReached == SessionsSpec => []LogInIsReached
<1>1. SessionsInv => LogInIsReached
  BY DEF SessionsInv
<1> QED
  BY <1>1, SessionsInvInit, SessionsInvNext, PTL DEF SessionsSpec
=============================================================================
