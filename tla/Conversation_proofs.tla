------------------------- MODULE Conversation_proofs -------------------------
(***************************************************************************)
(* What a conversation guarantees for any number of questions, turns kept, *)
(* failures and deletions.                                                 *)
(***************************************************************************)
EXTENDS Conversation, SequenceTheorems, FiniteSetTheorems, TLAPS

USE ConversationAssumption DEF ConversationAssumption

\* The keys in Redis did not expire where this matters.
Undisturbed == hit \cap {"lapse", "expiry"} = {}

\* Whoever is between taking the lock and giving it back is named in it.
LockInv == "lapse" \notin hit => \A q \in Questions : ask[q].pc \in Section => lock = q

\* The turns about to be written were read from what Redis still holds.
ReadInv == Undisturbed => \A q \in Questions : ask[q].pc = "write" => ask[q].turns = cache

\* What is recorded, or on the way to that, was written to Redis before.
WrittenInv ==
    \A q \in Questions :
        \/ q \in chat.turns
        \/ ask[q].pc \in {"record", "commit"}
        \/ ask[q].pc \in {"release", "delete"} /\ ask[q].ok
        => q \in SeqRange(written)

\* A request records its turn once, and a transaction that records keeps the chat.
RecordInv ==
    \A q \in Questions :
        /\ q \in chat.turns => ask[q].pc = "done"
        /\ ask[q].pc = "commit" => chat.live

\* The inductive invariant.
ConversationInv ==
    /\ TypeOK /\ LockInv /\ ReadInv /\ WrittenInv /\ RecordInv
    /\ CacheIsHistory /\ CountIsMessages /\ NoOrphans

\* What a request does, its failures included.
AskStep(q) == Step(q) \/ AnswerFails(q) \/ AcquireTimesOut(q) \/ AppendFails(q) \/ Lost(q)

-----------------------------------------------------------------------------
(* Sequences.                                                              *)

\* Recent keeps the last turns, at most MaxTurns of them.
LEMMA RecentIsSuffix ==
    ASSUME NEW s \in Seq(Questions)
    PROVE  /\ Recent(s) \in Seq(Questions)
           /\ Len(Recent(s)) = IF Len(s) > MaxTurns THEN MaxTurns ELSE Len(s)
           /\ \A n \in 1..Len(Recent(s)) : Recent(s)[n] = s[Len(s) - Len(Recent(s)) + n]
  <1> DEFINE m == IF Len(s) > MaxTurns THEN Len(s) - MaxTurns + 1 ELSE 1
  <1>1. Len(s) \in Nat /\ m \in 1..Len(s) + 1
    BY LenProperties
  <1>2. Recent(s) = SubSeq(s, m, Len(s))
    BY DEF Recent
  <1>3. \A n \in m..Len(s) : s[n] \in Questions
    BY <1>1, ElementOfSeq
  <1>4. /\ SubSeq(s, m, Len(s)) \in Seq(Questions)
        /\ Len(SubSeq(s, m, Len(s))) = IF m <= Len(s) THEN Len(s) - m + 1 ELSE 0
        /\ \A n \in 1..Len(s) - m + 1 : SubSeq(s, m, Len(s))[n] = s[m + n - 1]
    BY <1>1, <1>3, SubSeqProperties
  <1> HIDE DEF m
  <1>5. Recent(s) \in Seq(Questions) /\ Len(Recent(s)) = Len(s) - m + 1
    BY <1>1, <1>2, <1>4
  <1>6. \A n \in 1..Len(s) - m + 1 : Recent(s)[n] = s[m + n - 1]
    BY <1>2, <1>4
  <1>7. \A n \in Nat : m + n - 1 = Len(s) - (Len(s) - m + 1) + n
    BY <1>1
  <1>8. Len(s) - m + 1 = IF Len(s) > MaxTurns THEN MaxTurns ELSE Len(s)
    BY <1>1 DEF m
  <1>9. \A n \in 1..Len(Recent(s)) : Recent(s)[n] = s[Len(s) - Len(Recent(s)) + n]
    <2> TAKE n \in 1..Len(Recent(s))
    <2>1. n \in Nat /\ n \in 1..Len(s) - m + 1
      BY <1>1, <1>5
    <2> QED  BY <2>1, <1>5, <1>6, <1>7
  <1> QED  BY <1>5, <1>8, <1>9

\* Appending keeps what is in a sequence.
LEMMA AppendRange ==
    ASSUME NEW s \in Seq(Questions), NEW q \in Questions
    PROVE  SeqRange(s) \subseteq SeqRange(Append(s, q)) /\ q \in SeqRange(Append(s, q))
  <1>1. /\ Len(s) \in Nat /\ Len(Append(s, q)) = Len(s) + 1
        /\ \A n \in 1..Len(s) : Append(s, q)[n] = s[n]
        /\ Append(s, q)[Len(s) + 1] = q
    BY AppendProperties, LenProperties
  <1> QED  BY <1>1 DEF SeqRange

-----------------------------------------------------------------------------
(* Types.                                                                  *)

\* Each step keeps the types.
LEMMA StepType == TypeOK /\ [Next]_vars => TypeOK'
  <1> SUFFICES ASSUME TypeOK, [Next]_vars
               PROVE  TypeOK'
    OBVIOUS
  <1> DEFINE ChatType == [live : BOOLEAN, count : Nat, turns : SUBSET Questions]
             UsedType == [mishaps : 0..MaxMishaps, deletes : 0..MaxDeletes]
             Pcs == Running \cup {"new", "done", "raised", "lost"}
  <1>t. /\ chat \in ChatType /\ used \in UsedType /\ ask \in [Questions -> AskRecord]
        /\ cache \in Seq(Questions) /\ Len(cache) <= MaxTurns /\ written \in Seq(Questions)
        /\ lock \in Questions \cup {None} /\ hit \subseteq {"lapse", "expiry", "count"}
    BY DEF TypeOK
  <1>g. ASSUME /\ chat' \in ChatType /\ used' \in UsedType /\ ask' \in [Questions -> AskRecord]
               /\ cache' \in Seq(Questions) /\ Len(cache') <= MaxTurns /\ written' \in Seq(Questions)
               /\ lock' \in Questions \cup {None} /\ hit' \subseteq {"lapse", "expiry", "count"}
        PROVE  TypeOK'
    BY <1>g DEF TypeOK
  <1>a. ASSUME NEW q \in Questions
        PROVE  /\ ask[q].pc \in Pcs /\ ask[q].turns \in Seq(Questions)
               /\ ask[q].count \in Nat /\ ask[q].ok \in BOOLEAN
    BY <1>t DEF AskRecord
  <1>1. ASSUME NEW q \in Questions, NEW pc \in Pcs, Goto(q, pc)
        PROVE  ask' \in [Questions -> AskRecord]
    BY <1>t, <1>1, ZenonT(30) DEF Goto, AskRecord
  <1>b. ASSUME NEW a \in [Questions -> AskRecord], NEW q \in Questions
        PROVE  /\ \A pc \in Pcs : [a EXCEPT ![q].pc = pc] \in [Questions -> AskRecord]
               /\ \A t \in Seq(Questions) : [a EXCEPT ![q].turns = t] \in [Questions -> AskRecord]
               /\ \A n \in Nat : [a EXCEPT ![q].count = n] \in [Questions -> AskRecord]
               /\ \A b \in BOOLEAN : [a EXCEPT ![q].ok = b] \in [Questions -> AskRecord]
    BY DEF AskRecord
  <1>2. ASSUME Mishap
        PROVE  used' \in UsedType
    <2>1. used.mishaps \in 0..MaxMishaps /\ used.mishaps + 1 \in 0..MaxMishaps
      BY <1>t, <1>2 DEF Mishap
    <2> QED  BY <1>t, <1>2, <2>1 DEF Mishap

  <1>3. ASSUME NEW q \in Questions
        PROVE  AfterAppend(q) \in Pcs
    BY DEF AfterAppend, Running, Section
  <1>4. ASSUME NEW q \in Questions, AskStep(q)
        PROVE  TypeOK'
    <2> USE DEF NoSpend
    <2>p. Pcs = {"create", "answer", "lock", "read", "write", "release", "delete", "record", "commit",
                 "new", "done", "raised", "lost"}
      BY DEF Running, Section
    <2> HIDE DEF Pcs, ChatType, UsedType
    <2>1. CASE EnsureRead(q)
      BY <2>1, <2>p, <1>1, <1>g, <1>t DEF EnsureRead
    <2>2. CASE EnsureCreate(q)
      <3>1. chat' \in ChatType
        BY <2>2, <1>t DEF EnsureCreate, ChatType
      <3> QED  BY <2>2, <3>1, <2>p, <1>1, <1>g, <1>t DEF EnsureCreate
    <2>3. CASE Answer(q)
      BY <2>3, <2>p, <1>1, <1>g, <1>t DEF Answer
    <2>4. CASE AnswerFails(q)
      BY <2>4, <2>p, <1>1, <1>2, <1>g, <1>t DEF AnswerFails
    <2>5. CASE Acquire(q)
      BY <2>5, <2>p, <1>1, <1>g, <1>t DEF Acquire
    <2>6. CASE AcquireTimesOut(q)
      BY <2>6, <2>p, <1>1, <1>2, <1>g, <1>t DEF AcquireTimesOut
    <2>7. CASE ReadTurns(q)
      <3>1. ask' \in [Questions -> AskRecord]
        <4> DEFINE a == [ask EXCEPT ![q].pc = "write"]
        <4>1. "write" \in Pcs /\ a \in [Questions -> AskRecord]
          BY <2>p, <1>b, <1>t
        <4>2. ask' = [a EXCEPT ![q].turns = cache]
          BY <2>7 DEF ReadTurns
        <4> HIDE DEF a
        <4> QED  BY <4>1, <4>2, <1>b, <1>t
      <3> QED  BY <2>7, <3>1, <1>g, <1>t DEF ReadTurns
    <2>8. CASE WriteTurns(q)
      <3>1. Append(ask[q].turns, q) \in Seq(Questions) /\ written' \in Seq(Questions)
        BY <2>8, <1>a, <1>t, AppendProperties DEF WriteTurns
      <3>2. cache' \in Seq(Questions) /\ Len(cache') <= MaxTurns
        <4>1. Len(Append(ask[q].turns, q)) \in Nat
          BY <3>1, LenProperties
        <4> DEFINE s == Append(ask[q].turns, q)
        <4>2. Recent(s) \in Seq(Questions) /\ Len(Recent(s)) = IF Len(s) > MaxTurns THEN MaxTurns ELSE Len(s)
          BY <3>1, RecentIsSuffix
        <4>3. cache' = Recent(s)
          BY <2>8 DEF WriteTurns
        <4> HIDE DEF s
        <4> QED  BY <4>1, <4>2, <4>3 DEF s
      <3>3. ask' \in [Questions -> AskRecord]
        BY <2>8, <2>p, <1>1 DEF WriteTurns
      <3> QED  BY <2>8, <3>1, <3>2, <3>3, <1>g, <1>t DEF WriteTurns
    <2>9. CASE AppendFails(q)
      <3>1. ask' \in [Questions -> AskRecord]
        <4> DEFINE a == [ask EXCEPT ![q].pc = "release"]
        <4>1. "release" \in Pcs /\ a \in [Questions -> AskRecord]
          BY <2>p, <1>b, <1>t
        <4>2. ask' = [a EXCEPT ![q].ok = FALSE]
          BY <2>9 DEF AppendFails
        <4> HIDE DEF a
        <4> QED  BY <4>1, <4>2, <1>b, <1>t
      <3> QED  BY <2>9, <3>1, <1>2, <1>g, <1>t DEF AppendFails
    <2>10. CASE ReleaseCheck(q)
      BY <2>10, <2>p, <1>1, <1>3, <1>g, <1>t DEF ReleaseCheck
    <2>11. CASE ReleaseDelete(q)
      BY <2>11, <1>1, <1>3, <1>g, <1>t DEF ReleaseDelete
    <2>12. CASE RecordRead(q)
      <3>1. ask' \in [Questions -> AskRecord]
        <4>1. CASE chat.live
          <5> DEFINE a == [ask EXCEPT ![q].pc = "commit"]
          <5>1. "commit" \in Pcs /\ a \in [Questions -> AskRecord]
            BY <2>p, <1>b, <1>t
          <5>2. ask' = [a EXCEPT ![q].count = chat.count]
            BY <2>12, <4>1 DEF RecordRead
          <5>3. chat.count \in Nat
            BY <1>t DEF ChatType
          <5> HIDE DEF a
          <5> QED  BY <5>1, <5>2, <5>3, <1>b
        <4>2. CASE ~chat.live
          BY <2>12, <2>p, <4>2, <1>b, <1>t DEF RecordRead
        <4> QED  BY <4>1, <4>2
      <3> QED  BY <2>12, <3>1, <1>g, <1>t DEF RecordRead
    <2>13. CASE RecordCommit(q)
      <3>1. chat' \in ChatType
        <4>1. ask[q].count + 2 \in Nat /\ chat.turns \cup {q} \in SUBSET Questions
          BY <1>a, <1>t DEF ChatType
        <4>2. chat' = [chat EXCEPT !.count = ask[q].count + 2, !.turns = chat.turns \cup {q}]
          BY <2>13 DEF RecordCommit, Counted
        <4> QED  BY <4>1, <4>2, <1>t DEF ChatType
      <3>2. hit' \subseteq {"lapse", "expiry", "count"}
        BY <2>13, <1>t DEF RecordCommit
      <3>3. ask' \in [Questions -> AskRecord]
        BY <2>13, <2>p, <1>1 DEF RecordCommit
      <3> QED  BY <2>13, <3>1, <3>2, <3>3, <1>g, <1>t DEF RecordCommit
    <2>14. CASE Lost(q)
      BY <2>14, <2>p, <1>1, <1>2, <1>g, <1>t DEF Lost
    <2> QED
      BY <1>4, <2>1, <2>2, <2>3, <2>4, <2>5, <2>6, <2>7, <2>8, <2>9, <2>10, <2>11, <2>12, <2>13, <2>14
      DEF AskStep, Step
  <1>5. CASE LockExpires
    <2>1. used' \in UsedType /\ hit' \subseteq {"lapse", "expiry", "count"}
      BY <1>5, <1>2, <1>t DEF LockExpires, NoSpend
    <2> QED  BY <1>5, <2>1, <1>g, <1>t DEF LockExpires
  <1>6. CASE TurnsExpire
    <2>1. << >> \in Seq(Questions) /\ Len(<< >>) = 0
      BY EmptySeq
    <2>2. hit' \subseteq {"lapse", "expiry", "count"}
      BY <1>6, <1>t DEF TurnsExpire
    <2>3. MaxTurns \in Nat
      OBVIOUS
    <2> QED  BY <1>6, <1>2, <2>1, <2>2, <2>3, <1>g, <1>t DEF TurnsExpire
  <1>7. CASE DeleteChat
    <2>1. chat' \in ChatType /\ used' \in UsedType
      BY <1>7, <1>t DEF DeleteChat, Absent
    <2> QED  BY <1>7, <2>1, <1>g, <1>t DEF DeleteChat
  <1>8. CASE UNCHANGED vars
    BY <1>8, <1>g, <1>t DEF vars
  <1> QED  BY <1>4, <1>5, <1>6, <1>7, <1>8 DEF Next, AskStep

-----------------------------------------------------------------------------
(* The lock.                                                               *)

\* A request is in its section only with the lock, unless the lock lapsed under somebody.
LEMMA StepLock == ConversationInv /\ [Next]_vars => LockInv'
  <1> SUFFICES ASSUME ConversationInv, [Next]_vars, "lapse" \notin hit'
               PROVE  \A q \in Questions : ask'[q].pc \in Section => lock' = q
    BY DEF LockInv
  <1>t. ask \in [Questions -> AskRecord] /\ lock \in Questions \cup {None}
    BY DEF ConversationInv, TypeOK
  <1>h. "lapse" \notin hit => \A q \in Questions : ask[q].pc \in Section => lock = q
    BY DEF ConversationInv, LockInv
  <1>f. ASSUME NEW q \in Questions, NEW pc, Goto(q, pc)
        PROVE  ask'[q].pc = pc /\ \A p \in Questions \ {q} : ask'[p].pc = ask[p].pc
    BY <1>f, <1>t DEF Goto, AskRecord
  <1> USE DEF Section
  <1>1. ASSUME NEW q \in Questions, AskStep(q)
        PROVE  \A p \in Questions : ask'[p].pc \in Section => lock' = p
    <2>1. CASE Answer(q) \/ AnswerFails(q) \/ AcquireTimesOut(q) \/ Lost(q)
      BY <2>1, <1>f, <1>h DEF Answer, AnswerFails, AcquireTimesOut, Lost
    <2>2. CASE Acquire(q)
      BY <2>2, <1>f, <1>h DEF Acquire, LockIsFree
    <2>3. CASE ReadTurns(q) \/ WriteTurns(q) \/ AppendFails(q)
      BY <2>3, <1>t, <1>h DEF ReadTurns, WriteTurns, AppendFails, Goto, AskRecord, Running
    <2>4. CASE ReleaseCheck(q)
      BY <2>4, <1>f, <1>h DEF ReleaseCheck, AfterAppend
    <2>5. CASE ReleaseDelete(q)
      <3>1. ask'[q].pc \in {"record", "raised"} /\ \A p \in Questions \ {q} : ask'[p].pc = ask[p].pc
        BY <2>5, <1>f DEF ReleaseDelete, AfterAppend
      <3>2. CASE "lapse" \notin hit
        BY <2>5, <3>1, <3>2, <1>h DEF ReleaseDelete
      <3> QED  BY <2>5, <3>2 DEF ReleaseDelete
    <2>6. CASE RecordRead(q)
      BY <2>6, <1>t, <1>h DEF RecordRead, AskRecord
    <2>7. CASE RecordCommit(q)
      <3>1. "lapse" \notin hit
        BY <2>7 DEF RecordCommit
      <3> QED  BY <2>7, <3>1, <1>f, <1>h DEF RecordCommit
    <2>8. CASE EnsureRead(q)
      BY <2>8, <1>f, <1>h DEF EnsureRead
    <2>9. CASE EnsureCreate(q)
      BY <2>9, <1>f, <1>h DEF EnsureCreate
    <2> QED  BY <1>1, <2>1, <2>2, <2>3, <2>4, <2>5, <2>6, <2>7, <2>8, <2>9 DEF AskStep, Step
  <1>2. CASE LockExpires
    BY <1>2, <1>t, <1>h DEF LockExpires
  <1>3. CASE TurnsExpire \/ DeleteChat \/ UNCHANGED vars
    BY <1>3, <1>t, <1>h DEF TurnsExpire, DeleteChat, vars
  <1> QED  BY <1>1, <1>2, <1>3 DEF Next, AskStep

\* What a request read in its section is what Redis holds until it writes.
LEMMA StepRead == ConversationInv /\ [Next]_vars => ReadInv'
  <1> SUFFICES ASSUME ConversationInv, [Next]_vars, Undisturbed'
               PROVE  \A q \in Questions : ask'[q].pc = "write" => ask'[q].turns = cache'
    BY DEF ReadInv
  <1>t. ask \in [Questions -> AskRecord] /\ lock \in Questions \cup {None}
    BY DEF ConversationInv, TypeOK
  <1>h. "lapse" \notin hit => \A q \in Questions : ask[q].pc \in Section => lock = q
    BY DEF ConversationInv, LockInv
  <1>r. Undisturbed => \A q \in Questions : ask[q].pc = "write" => ask[q].turns = cache
    BY DEF ConversationInv, ReadInv
  <1> USE DEF Goto, AskRecord, Running, Section, Undisturbed
  <1>1. ASSUME NEW q \in Questions, AskStep(q)
        PROVE  \A p \in Questions : ask'[p].pc = "write" => ask'[p].turns = cache'
    <2>1. CASE EnsureRead(q) \/ EnsureCreate(q) \/ Answer(q) \/ AnswerFails(q) \/ AcquireTimesOut(q)
      BY <2>1, <1>t, <1>r, ZenonT(30) DEF EnsureRead, EnsureCreate, Answer, AnswerFails, AcquireTimesOut
    <2>2. CASE Acquire(q) \/ ReadTurns(q) \/ AppendFails(q)
      BY <2>2, <1>t, <1>r, ZenonT(30) DEF Acquire, ReadTurns, AppendFails
    <2>3. CASE WriteTurns(q)
      <3>1. \A p \in Questions : ask[p].pc = "write" => p = q
        BY <2>3, <1>h DEF WriteTurns
      <3>2. \A p \in Questions : ask'[p].pc # "write"
        BY <2>3, <3>1, <1>t DEF WriteTurns
      <3> QED  BY <3>2
    <2>4. CASE ReleaseCheck(q) \/ ReleaseDelete(q)
      BY <2>4, <1>t, <1>r, ZenonT(30) DEF ReleaseCheck, ReleaseDelete, AfterAppend
    <2>5. CASE RecordRead(q) \/ Lost(q)
      BY <2>5, <1>t, <1>r, ZenonT(30) DEF RecordRead, Lost
    <2>6. CASE RecordCommit(q)
      BY <2>6, <1>t, <1>r DEF RecordCommit
    <2> QED  BY <1>1, <2>1, <2>2, <2>3, <2>4, <2>5, <2>6 DEF AskStep, Step
  <1>2. CASE LockExpires
    BY <1>2, <1>t, <1>r DEF LockExpires
  <1>3. CASE TurnsExpire \/ DeleteChat \/ UNCHANGED vars
    BY <1>3, <1>t, <1>r DEF TurnsExpire, DeleteChat, vars
  <1> QED  BY <1>1, <1>2, <1>3 DEF Next, AskStep

-----------------------------------------------------------------------------
(* What is written and recorded.                                           *)

\* Overlapping requests lose no turn as long as the keys live.
LEMMA StepHistory == ConversationInv /\ [Next]_vars => CacheIsHistory'
  <1> SUFFICES ASSUME ConversationInv, [Next]_vars, Undisturbed'
               PROVE  CacheIsHistory'
    BY DEF CacheIsHistory, Undisturbed
  <1>t. /\ ask \in [Questions -> AskRecord] /\ cache \in Seq(Questions) /\ written \in Seq(Questions)
        /\ Len(cache) \in Nat /\ Len(written) \in Nat
    BY LenProperties DEF ConversationInv, TypeOK
  <1>1. CASE UNCHANGED <<cache, written>> /\ Undisturbed
    BY <1>1 DEF ConversationInv, CacheIsHistory, Undisturbed
  <1>2. ASSUME NEW q \in Questions, WriteTurns(q)
        PROVE  CacheIsHistory'
    <2>1. Undisturbed
      BY <1>2 DEF WriteTurns, Undisturbed
    <2>2. ask[q].turns = cache
      BY <1>2, <2>1 DEF WriteTurns, ConversationInv, ReadInv
    <2> DEFINE c == Append(cache, q)
               w == Append(written, q)
    <2>3. cache' = Recent(c) /\ written' = w
      BY <1>2, <2>2 DEF WriteTurns
    <2>4. /\ c \in Seq(Questions) /\ Len(c) = Len(cache) + 1 /\ c[Len(cache) + 1] = q
          /\ \A n \in 1..Len(cache) : c[n] = cache[n]
      BY <1>t, AppendProperties
    <2>5. /\ Len(w) = Len(written) + 1 /\ w[Len(written) + 1] = q
          /\ \A n \in 1..Len(written) : w[n] = written[n]
      BY <1>t, AppendProperties
    <2>6. /\ Len(cache) = IF Len(written) > MaxTurns THEN MaxTurns ELSE Len(written)
          /\ \A n \in 1..Len(cache) : cache[n] = written[Len(written) - Len(cache) + n]
      BY <2>1 DEF ConversationInv, CacheIsHistory, Undisturbed
    <2>7. /\ Len(Recent(c)) = IF Len(c) > MaxTurns THEN MaxTurns ELSE Len(c)
          /\ \A n \in 1..Len(Recent(c)) : Recent(c)[n] = c[Len(c) - Len(Recent(c)) + n]
      BY <2>4, RecentIsSuffix
    <2> HIDE DEF c, w
    <2>8. Len(Recent(c)) = IF Len(w) > MaxTurns THEN MaxTurns ELSE Len(w)
      BY <2>4, <2>5, <2>6, <2>7, <1>t
    <2>9. \A k \in 1..Len(c) : c[k] = w[Len(w) - Len(c) + k]
      <3> TAKE k \in 1..Len(c)
      <3>1. CASE k = Len(cache) + 1
        BY <3>1, <2>4, <2>5, <1>t
      <3>2. CASE k \in 1..Len(cache)
        <4>1. Len(written) - Len(cache) + k \in 1..Len(written)
          BY <3>2, <2>6, <1>t
        <4>2. Len(w) - Len(c) + k = Len(written) - Len(cache) + k
          BY <2>4, <2>5, <1>t
        <4> QED  BY <3>2, <4>1, <4>2, <2>4, <2>5, <2>6
      <3> QED  BY <3>1, <3>2, <2>4, <1>t
    <2>10. \A n \in 1..Len(Recent(c)) : Recent(c)[n] = w[Len(w) - Len(Recent(c)) + n]
      <3> TAKE n \in 1..Len(Recent(c))
      <3> DEFINE k == Len(c) - Len(Recent(c)) + n
      <3>1. Recent(c)[n] = c[k]
        BY <2>7
      <3>2. k \in 1..Len(c) /\ Len(w) - Len(c) + k = Len(w) - Len(Recent(c)) + n
        BY <2>4, <2>5, <2>7, <1>t
      <3> QED  BY <3>1, <3>2, <2>9
    <2> QED  BY <2>3, <2>8, <2>10 DEF CacheIsHistory
  <1>3. ASSUME NEW q \in Questions, AskStep(q), ~WriteTurns(q)
        PROVE  UNCHANGED <<cache, written>> /\ Undisturbed
    BY <1>3 DEF AskStep, Step, EnsureRead, EnsureCreate, Answer, AnswerFails, Acquire, AcquireTimesOut, ReadTurns,
                AppendFails, ReleaseCheck, ReleaseDelete, RecordRead, RecordCommit, Lost, Undisturbed
  <1>4. LockExpires \/ DeleteChat \/ UNCHANGED vars => UNCHANGED <<cache, written>> /\ Undisturbed
    BY DEF LockExpires, DeleteChat, vars, Undisturbed
  <1>5. ~TurnsExpire
    BY DEF TurnsExpire, Undisturbed
  <1> QED  BY <1>1, <1>2, <1>3, <1>4, <1>5 DEF Next, AskStep

\* Nothing is recorded before it is written to Redis.
LEMMA StepWritten == ConversationInv /\ [Next]_vars => WrittenInv'
  <1> SUFFICES ASSUME ConversationInv, [Next]_vars
               PROVE  WrittenInv'
    OBVIOUS
  <1> DEFINE Put(p) == \/ p \in chat.turns
                       \/ ask[p].pc \in {"record", "commit"}
                       \/ ask[p].pc \in {"release", "delete"} /\ ask[p].ok
  <1>t. ask \in [Questions -> AskRecord] /\ chat.turns \subseteq Questions /\ written \in Seq(Questions)
    BY DEF ConversationInv, TypeOK
  <1>h. \A p \in Questions : Put(p) => p \in SeqRange(written)
    BY DEF ConversationInv, WrittenInv
  <1>f. ASSUME NEW q \in Questions, NEW pc, Goto(q, pc)
        PROVE  /\ ask'[q].pc = pc /\ ask'[q].ok = ask[q].ok
               /\ \A p \in Questions \ {q} : ask'[p].pc = ask[p].pc /\ ask'[p].ok = ask[p].ok
    BY <1>f, <1>t DEF Goto, AskRecord
  <1>g. ASSUME NEW q \in Questions, \A p \in Questions \ {q} : ask'[p].pc = ask[p].pc /\ ask'[p].ok = ask[p].ok,
               UNCHANGED <<chat, written>>, ask'[q].pc \notin {"record", "commit", "release", "delete"}
        PROVE  WrittenInv'
    BY <1>g, <1>h DEF WrittenInv
  <1>1. ASSUME NEW q \in Questions, AskStep(q)
        PROVE  WrittenInv'
    <2>1. CASE EnsureRead(q)
      BY <2>1, <1>f, <1>g DEF EnsureRead
    <2>2. CASE EnsureCreate(q)
      <3>1. chat'.turns = chat.turns /\ written' = written /\ ask'[q].pc \in {"raised", "answer"}
        BY <2>2, <1>f, <1>t DEF EnsureCreate, ConversationInv, TypeOK
      <3>2. \A p \in Questions \ {q} : ask'[p].pc = ask[p].pc /\ ask'[p].ok = ask[p].ok
        BY <2>2, <1>f DEF EnsureCreate
      <3> QED  BY <3>1, <3>2, <1>h DEF WrittenInv
    <2>3. CASE Answer(q) \/ AnswerFails(q) \/ Acquire(q) \/ AcquireTimesOut(q) \/ Lost(q)
      BY <2>3, <1>f, <1>g DEF Answer, AnswerFails, Acquire, AcquireTimesOut, Lost
    <2>4. CASE ReadTurns(q)
      BY <2>4, <1>t, <1>g DEF ReadTurns, AskRecord
    <2>5. CASE WriteTurns(q)
      <3>1. written' = Append(written, q) /\ chat' = chat
        BY <2>5 DEF WriteTurns
      <3>2. SeqRange(written) \subseteq SeqRange(written') /\ q \in SeqRange(written')
        BY <3>1, <1>t, AppendRange
      <3>3. \A p \in Questions \ {q} : ask'[p].pc = ask[p].pc /\ ask'[p].ok = ask[p].ok
        BY <2>5, <1>f DEF WriteTurns
      <3> QED  BY <3>1, <3>2, <3>3, <1>h DEF WrittenInv
    <2>6. CASE AppendFails(q)
      <3>1. /\ ask'[q].ok = FALSE /\ ask'[q].pc = "release" /\ UNCHANGED <<chat, written>>
            /\ \A p \in Questions \ {q} : ask'[p].pc = ask[p].pc /\ ask'[p].ok = ask[p].ok
        BY <2>6, <1>t DEF AppendFails, AskRecord
      <3> QED  BY <3>1, <1>h DEF WrittenInv
    <2>7. CASE ReleaseCheck(q) \/ ReleaseDelete(q)
      <3>1. ask[q].pc \in {"release", "delete"} /\ UNCHANGED <<chat, written>>
        BY <2>7 DEF ReleaseCheck, ReleaseDelete
      <3>2. /\ ask'[q].ok = ask[q].ok
            /\ ask'[q].pc = "delete" \/ ask'[q].pc = AfterAppend(q)
            /\ \A p \in Questions \ {q} : ask'[p].pc = ask[p].pc /\ ask'[p].ok = ask[p].ok
        BY <2>7, <1>f DEF ReleaseCheck, ReleaseDelete
      <3> QED  BY <3>1, <3>2, <1>h DEF WrittenInv, AfterAppend
    <2>8. CASE RecordRead(q)
      <3>1. /\ ask[q].pc = "record" /\ UNCHANGED <<chat, written>>
            /\ \A p \in Questions \ {q} : ask'[p].pc = ask[p].pc /\ ask'[p].ok = ask[p].ok
        BY <2>8, <1>t DEF RecordRead, AskRecord
      <3> QED  BY <3>1, <1>h DEF WrittenInv
    <2>9. CASE RecordCommit(q)
      <3>1. /\ ask[q].pc = "commit" /\ written' = written
            /\ \A p \in Questions \ {q} : ask'[p].pc = ask[p].pc /\ ask'[p].ok = ask[p].ok
        BY <2>9, <1>f DEF RecordCommit
      <3>2. chat'.turns = chat.turns \cup {q}
        BY <2>9 DEF RecordCommit, ConversationInv, TypeOK
      <3> QED  BY <3>1, <3>2, <1>h DEF WrittenInv
    <2> QED  BY <1>1, <2>1, <2>2, <2>3, <2>4, <2>5, <2>6, <2>7, <2>8, <2>9 DEF AskStep, Step
  <1>2. CASE LockExpires \/ TurnsExpire \/ UNCHANGED vars
    BY <1>2, <1>h DEF LockExpires, TurnsExpire, vars, WrittenInv
  <1>3. CASE DeleteChat
    BY <1>3, <1>h DEF DeleteChat, Absent, WrittenInv
  <1> QED  BY <1>1, <1>2, <1>3 DEF Next, AskStep

\* A request records once, into a chat that is there; messages go with their chat; and unless two
\* transactions counted from one number, every message is counted.
LEMMA StepRecord == ConversationInv /\ [Next]_vars => RecordInv' /\ NoOrphans' /\ CountIsMessages'
  <1> SUFFICES ASSUME ConversationInv, [Next]_vars
               PROVE  RecordInv' /\ NoOrphans' /\ CountIsMessages'
    OBVIOUS
  <1>t. /\ ask \in [Questions -> AskRecord] /\ hit \subseteq {"lapse", "expiry", "count"}
        /\ chat \in [live : BOOLEAN, count : Nat, turns : SUBSET Questions]
    BY DEF ConversationInv, TypeOK
  <1>h. /\ \A q \in Questions : q \in chat.turns => ask[q].pc = "done"
        /\ \A q \in Questions : ask[q].pc = "commit" => chat.live
        /\ chat.turns # {} => chat.live
        /\ "count" \notin hit => chat.count = 2 * Cardinality(chat.turns)
    BY DEF ConversationInv, RecordInv, NoOrphans, CountIsMessages
  <1>f. ASSUME NEW q \in Questions, NEW pc, Goto(q, pc)
        PROVE  ask'[q].pc = pc /\ \A p \in Questions \ {q} : ask'[p].pc = ask[p].pc
    BY <1>f, <1>t DEF Goto, AskRecord
  <1> DEFINE Same == chat' = chat /\ ("count" \in hit <=> "count" \in hit')
  <1>g. ASSUME NEW q \in Questions, ask[q].pc # "done", ask'[q].pc # "commit", Same,
               \A p \in Questions \ {q} : ask'[p].pc = ask[p].pc
        PROVE  RecordInv' /\ NoOrphans' /\ CountIsMessages'
    BY <1>g, <1>h DEF RecordInv, NoOrphans, CountIsMessages
  <1>1. ASSUME NEW q \in Questions, AskStep(q)
        PROVE  RecordInv' /\ NoOrphans' /\ CountIsMessages'
    <2>1. CASE EnsureRead(q)
      BY <2>1, <1>f, <1>g DEF EnsureRead
    <2>2. CASE EnsureCreate(q)
      <3>1. chat'.live /\ chat'.turns = chat.turns /\ chat'.count = chat.count /\ hit' = hit
        BY <2>2, <1>t DEF EnsureCreate
      <3>2. /\ ask[q].pc = "create" /\ ask'[q].pc \in {"raised", "answer"}
            /\ \A p \in Questions \ {q} : ask'[p].pc = ask[p].pc
        BY <2>2, <1>f DEF EnsureCreate
      <3> QED  BY <3>1, <3>2, <1>h DEF RecordInv, NoOrphans, CountIsMessages
    <2>3. CASE Answer(q) \/ AnswerFails(q) \/ Acquire(q) \/ AcquireTimesOut(q)
      BY <2>3, <1>f, <1>g DEF Answer, AnswerFails, Acquire, AcquireTimesOut
    <2>4. CASE Lost(q)
      BY <2>4, <1>f, <1>g DEF Lost, Running, Section
    <2>5. CASE ReadTurns(q) \/ WriteTurns(q) \/ AppendFails(q)
      <3>1. ask[q].pc \in {"read", "write"} /\ ask'[q].pc \in {"write", "release"} /\ Same
        BY <2>5, <1>t, <1>f DEF ReadTurns, WriteTurns, AppendFails, AskRecord
      <3>2. \A p \in Questions \ {q} : ask'[p].pc = ask[p].pc
        BY <2>5, <1>t, <1>f DEF ReadTurns, WriteTurns, AppendFails, AskRecord
      <3> QED  BY <3>1, <3>2, <1>g
    <2>6. CASE ReleaseCheck(q) \/ ReleaseDelete(q)
      <3>1. /\ ask[q].pc \in {"release", "delete"} /\ Same
            /\ ask'[q].pc = "delete" \/ ask'[q].pc = AfterAppend(q)
            /\ \A p \in Questions \ {q} : ask'[p].pc = ask[p].pc
        BY <2>6, <1>f DEF ReleaseCheck, ReleaseDelete
      <3> QED  BY <3>1, <1>g DEF AfterAppend
    <2>7. CASE RecordRead(q)
      <3>1. /\ ask[q].pc = "record" /\ Same
            /\ ask'[q].pc = "commit" => chat.live
            /\ \A p \in Questions \ {q} : ask'[p].pc = ask[p].pc
        BY <2>7, <1>t DEF RecordRead, AskRecord
      <3> QED  BY <3>1, <1>h DEF RecordInv, NoOrphans, CountIsMessages
    <2>8. CASE RecordCommit(q)
      <3>1. ask[q].pc = "commit" /\ chat.live /\ q \notin chat.turns
        BY <2>8, <1>h DEF RecordCommit
      <3>2. chat'.live = chat.live /\ chat'.count = ask[q].count + 2 /\ chat'.turns = chat.turns \cup {q}
        BY <2>8, <1>t DEF RecordCommit, Counted
      <3>3. ask'[q].pc = "done" /\ \A p \in Questions \ {q} : ask'[p].pc = ask[p].pc
        BY <2>8, <1>f DEF RecordCommit
      <3>4. RecordInv' /\ NoOrphans'
        BY <3>1, <3>2, <3>3, <1>h DEF RecordInv, NoOrphans
      <3>5. Cardinality(chat.turns) \in Nat /\ Cardinality(chat'.turns) = Cardinality(chat.turns) + 1
        <4>1. IsFiniteSet(chat.turns)
          BY <1>t, FS_Subset
        <4> QED  BY <4>1, <3>1, <3>2, FS_AddElement, FS_CardinalityType
      <3>6. ASSUME "count" \notin hit'
            PROVE  chat'.count = 2 * Cardinality(chat'.turns)
        <4>1. "count" \notin hit /\ chat.count = ask[q].count
          BY <2>8, <3>6 DEF RecordCommit
        <4> QED  BY <4>1, <3>2, <3>5, <1>h
      <3> QED  BY <3>4, <3>6 DEF CountIsMessages
    <2> QED  BY <1>1, <2>1, <2>2, <2>3, <2>4, <2>5, <2>6, <2>7, <2>8 DEF AskStep, Step
  <1>2. CASE LockExpires \/ TurnsExpire \/ UNCHANGED vars
    <2>1. chat' = chat /\ ask' = ask /\ ("count" \in hit <=> "count" \in hit')
      BY <1>2 DEF LockExpires, TurnsExpire, vars
    <2> QED  BY <2>1, <1>h DEF RecordInv, NoOrphans, CountIsMessages
  <1>3. CASE DeleteChat
    <2>1. /\ chat'.turns = {} /\ chat'.count = 0
          /\ \A q \in Questions : ask'[q].pc # "commit"
      BY <1>3 DEF DeleteChat, Absent
    <2> QED  BY <2>1, FS_EmptySet DEF RecordInv, NoOrphans, CountIsMessages
  <1> QED  BY <1>1, <1>2, <1>3 DEF Next, AskStep

-----------------------------------------------------------------------------
(* The theorems.                                                           *)

\* The invariant is inductive: it holds at first and no step ends it.
THEOREM ConversationIsInductive == Spec => []ConversationInv
  <1>1. Init => ConversationInv
    <2> SUFFICES ASSUME Init
                 PROVE  ConversationInv
      OBVIOUS
    <2>1. /\ chat \in [live : BOOLEAN, count : Nat, turns : SUBSET Questions]
          /\ chat.turns = {} /\ chat.count = 0
      <3>1. Absent \in [live : BOOLEAN, count : Nat, turns : SUBSET Questions]
        BY DEF Absent
      <3>2. chat = Absent \/ chat = [Absent EXCEPT !.live = TRUE]
        BY DEF Init
      <3>3. CASE chat = Absent
        BY <3>1, <3>3 DEF Absent
      <3>4. CASE chat = [Absent EXCEPT !.live = TRUE]
        <4>1. /\ chat \in [live : BOOLEAN, count : Nat, turns : SUBSET Questions]
              /\ chat.turns = Absent.turns /\ chat.count = Absent.count
          BY <3>1, <3>4
        <4> QED  BY <4>1 DEF Absent
      <3> QED  BY <3>2, <3>3, <3>4
    <2>2. << >> \in Seq(Questions) /\ Len(<< >>) = 0
      BY EmptySeq
    <2>3. \A q \in Questions : ask[q].pc = "new"
      BY DEF Init, NewAsk
    <2>4. ask \in [Questions -> AskRecord]
      BY <2>2 DEF Init, NewAsk, AskRecord
    <2>5. used \in [mishaps : 0..MaxMishaps, deletes : 0..MaxDeletes] /\ MaxTurns \in Nat
      BY DEF Init
    <2>6. TypeOK
      BY <2>1, <2>2, <2>4, <2>5 DEF Init, TypeOK
    <2>7. LockInv /\ ReadInv /\ WrittenInv /\ RecordInv
      BY <2>1, <2>3 DEF LockInv, ReadInv, WrittenInv, RecordInv, Section
    <2>8. CacheIsHistory
      BY <2>2, <2>5 DEF Init, CacheIsHistory
    <2>9. CountIsMessages /\ NoOrphans
      BY <2>1, FS_EmptySet DEF CountIsMessages, NoOrphans
    <2> QED  BY <2>6, <2>7, <2>8, <2>9 DEF ConversationInv
  <1>2. ConversationInv /\ [Next]_vars => ConversationInv'
    BY StepType, StepLock, StepRead, StepHistory, StepWritten, StepRecord DEF ConversationInv
  <1> QED  BY <1>1, <1>2, PTL DEF Spec

\* Every variable keeps its type; in particular no more than MaxTurns turns are ever kept.
THEOREM TypeCorrect == Spec => []TypeOK
  <1>1. ConversationInv => TypeOK
    BY DEF ConversationInv
  <1> QED  BY <1>1, ConversationIsInductive, PTL

\* The lock works: however requests overlap, fail or are lost, Redis holds the last turns in the
\* order they were written.
THEOREM NoTurnIsLost == Spec => []CacheIsHistory
  <1>1. ConversationInv => CacheIsHistory
    BY DEF ConversationInv
  <1> QED  BY <1>1, ConversationIsInductive, PTL

\* The turns in Redis may stand for those in the database.
THEOREM CacheIsEnough == Spec => []CacheCoversRecords
  <1>1. ConversationInv => CacheCoversRecords
    <2> SUFFICES ASSUME ConversationInv, hit \cap {"lapse", "expiry"} = {}, Len(cache) < MaxTurns,
                        NEW q \in chat.turns
                 PROVE  q \in SeqRange(cache)
      BY DEF CacheCoversRecords
    <2>1. q \in Questions
      BY DEF ConversationInv, TypeOK
    <2>2. PICK n \in 1..Len(written) : q = written[n]
      BY <2>1 DEF ConversationInv, WrittenInv, SeqRange
    <2>3. Len(cache) \in Nat /\ Len(written) \in Nat
      BY LenProperties DEF ConversationInv, TypeOK
    <2>4. Len(cache) = Len(written) /\ \A k \in 1..Len(cache) : cache[k] = written[Len(written) - Len(cache) + k]
      BY <2>3 DEF ConversationInv, CacheIsHistory
    <2>5. n \in 1..Len(cache) /\ Len(written) - Len(cache) + n = n
      BY <2>2, <2>3, <2>4
    <2> QED  BY <2>2, <2>4, <2>5 DEF SeqRange
  <1> QED  BY <1>1, ConversationIsInductive, PTL

\* Messages are counted, unless two transactions counted from one number.
THEOREM MessagesAreCounted == Spec => []CountIsMessages
  <1>1. ConversationInv => CountIsMessages
    BY DEF ConversationInv
  <1> QED  BY <1>1, ConversationIsInductive, PTL

\* Messages go with their chat, whatever transactions are recording then.
THEOREM MessagesHaveTheirChat == Spec => []NoOrphans
  <1>1. ConversationInv => NoOrphans
    BY DEF ConversationInv
  <1> QED  BY <1>1, ConversationIsInductive, PTL

=============================================================================
