---------------------------- MODULE Conversation ----------------------------
(***************************************************************************)
(* One conversation: the questions asked in it, the turns kept in Redis    *)
(* for follow-up questions, and the chat with its messages in the          *)
(* database.  Questions overlap, answers fail or are cut off, keys in      *)
(* Redis expire, and the owner deletes the chat.                           *)
(*                                                                         *)
(* A turn is known by the question it answers.  Answering is one step: it  *)
(* reads earlier turns and documents and changes nothing here.             *)
(***************************************************************************)
EXTENDS Naturals, Sequences, FiniteSets

CONSTANTS
    Questions,   \* bound: requests to /query and /query/stream
    MaxTurns,    \* MAX_STORED_TURNS
    MaxMishaps,  \* bound: requests that fail or are lost, keys that expire
    MaxDeletes,  \* bound: deletions of the chat
    None

ASSUME ConversationAssumption ==
    /\ MaxTurns \in Nat \ {0}
    /\ MaxMishaps \in Nat /\ MaxDeletes \in Nat
    /\ None \notin Questions
    /\ IsFiniteSet(Questions)

VARIABLES
    chat,      \* the chat: whether it exists, message_count, the turns recorded in its messages
    cache,     \* the turns in Redis; none is the same as no key
    lock,      \* the holder named in the lock of the conversation
    ask,       \* the requests
    used,      \* how much of the bounds is used up
    written,   \* history: the turns in the order they were written to Redis
    hit        \* history: what went wrong with a key or a count

vars == <<chat, cache, lock, ask, used, written, hit>>

SeqRange(s) == {s[n] : n \in 1..Len(s)}

-----------------------------------------------------------------------------
(* Turns.                                                                  *)

\* turns[-MAX_STORED_TURNS:]
Recent(s) == SubSeq(s, IF Len(s) > MaxTurns THEN Len(s) - MaxTurns + 1 ELSE 1, Len(s))

-----------------------------------------------------------------------------
(* Requests.                                                               *)

Section == {"read", "write", "release", "delete"}
Running == {"create", "answer", "lock"} \cup Section \cup {"record", "commit"}
AskRecord == [pc : Running \cup {"new", "done", "raised", "lost"},
              turns : Seq(Questions), count : Nat, ok : BOOLEAN]
NewAsk == [pc |-> "new", turns |-> << >>, count |-> 0, ok |-> TRUE]

Goto(q, pc) == ask' = [ask EXCEPT ![q].pc = pc]
Mishap  == used.mishaps < MaxMishaps /\ used' = [used EXCEPT !.mishaps = @ + 1]
NoSpend == UNCHANGED used

Absent == [live |-> FALSE, count |-> 0, turns |-> {}]

\* ensure_chat_session reads, and creates a chat that is missing.
EnsureRead(q) ==
    /\ ask[q].pc = "new"
    /\ Goto(q, IF chat.live THEN "answer" ELSE "create")
    /\ UNCHANGED <<chat, cache, lock, written, hit>> /\ NoSpend

\* Another request may have created it meanwhile: the primary key refuses a second one.
EnsureCreate(q) ==
    /\ ask[q].pc = "create"
    /\ Goto(q, IF chat.live THEN "raised" ELSE "answer")
    /\ chat' = [chat EXCEPT !.live = TRUE]
    /\ UNCHANGED <<cache, lock, written, hit>> /\ NoSpend

\* prepare_context takes the turns in Redis or else those in the database, and the graph of
\* agents finds an answer; a failing evaluation is only logged.
Answer(q) ==
    /\ ask[q].pc = "answer"
    /\ Goto(q, "lock")
    /\ UNCHANGED <<chat, cache, lock, written, hit>> /\ NoSpend

\* Retrieval, synthesis or Redis fails, or the reader of a stream goes away.
AnswerFails(q) ==
    /\ ask[q].pc = "answer"
    /\ Goto(q, "raised") /\ Mishap
    /\ UNCHANGED <<chat, cache, lock, written, hit>>

-----------------------------------------------------------------------------
(* RedisConversationStore.append_turn.                                     *)

\* Mutant of LockIsFree: the lock is taken without a look.
LockIsFree_Always == TRUE

LockIsFree == lock = None

Acquire(q) ==
    /\ ask[q].pc = "lock"
    /\ LockIsFree
    /\ lock' = q
    /\ Goto(q, "read")
    /\ UNCHANGED <<chat, cache, written, hit>> /\ NoSpend

\* The lock is not had in 200 attempts.
AcquireTimesOut(q) ==
    /\ ask[q].pc = "lock"
    /\ lock # None
    /\ Goto(q, "raised") /\ Mishap
    /\ UNCHANGED <<chat, cache, lock, written, hit>>

ReadTurns(q) ==
    /\ ask[q].pc = "read"
    /\ ask' = [ask EXCEPT ![q].pc = "write", ![q].turns = cache]
    /\ UNCHANGED <<chat, cache, lock, written, hit>> /\ NoSpend

WriteTurns(q) ==
    /\ ask[q].pc = "write"
    /\ cache' = Recent(Append(ask[q].turns, q))
    /\ written' = Append(written, q)
    /\ Goto(q, "release")
    /\ UNCHANGED <<chat, lock, hit>> /\ NoSpend

\* Redis fails inside of the lock, which the finally clause releases.
AppendFails(q) ==
    /\ ask[q].pc \in {"read", "write"}
    /\ ask' = [ask EXCEPT ![q].pc = "release", ![q].ok = FALSE]
    /\ Mishap
    /\ UNCHANGED <<chat, cache, lock, written, hit>>

\* Mutant of AfterAppend: the messages are recorded without the turn.
AfterAppend_Anyway(q) == "record"

AfterAppend(q) == IF ask[q].ok THEN "record" ELSE "raised"

\* The lock is deleted when it still names its holder, in two calls.
ReleaseCheck(q) ==
    /\ ask[q].pc = "release"
    /\ Goto(q, IF lock = q THEN "delete" ELSE AfterAppend(q))
    /\ UNCHANGED <<chat, cache, lock, written, hit>> /\ NoSpend

ReleaseDelete(q) ==
    /\ ask[q].pc = "delete"
    /\ lock' = None
    /\ Goto(q, AfterAppend(q))
    /\ UNCHANGED <<chat, cache, written, hit>> /\ NoSpend

\* Mutant of LockExpires: the lock has no time to live.
LockExpires_Never == FALSE /\ UNCHANGED vars

\* The lock expires, be its holder gone or just slow.
LockExpires ==
    /\ lock # None
    /\ lock' = None
    /\ IF ask[lock].pc \in Section
       THEN Mishap /\ hit' = hit \cup {"lapse"}
       ELSE NoSpend /\ UNCHANGED hit
    /\ UNCHANGED <<chat, cache, ask, written>>

\* The turns expire, a week after the last one.
TurnsExpire ==
    /\ cache # << >>
    /\ cache' = << >>
    /\ hit' = hit \cup {"expiry"}
    /\ Mishap
    /\ UNCHANGED <<chat, lock, ask, written>>

-----------------------------------------------------------------------------
(* QueryPersistenceService.record_interaction: one transaction.            *)

\* Mutant of RecordRead: the messages have no foreign key.
RecordRead_Unchecked(q) ==
    /\ ask[q].pc = "record"
    /\ ask' = [ask EXCEPT ![q].pc = "commit", ![q].count = chat.count]
    /\ UNCHANGED <<chat, cache, lock, written, hit>> /\ NoSpend

\* The messages are inserted and the chat is read.  The foreign key refuses the messages of
\* a chat that is gone.
RecordRead(q) ==
    /\ ask[q].pc = "record"
    /\ ask' = IF chat.live THEN [ask EXCEPT ![q].pc = "commit", ![q].count = chat.count]
                           ELSE [ask EXCEPT ![q].pc = "raised"]
    /\ UNCHANGED <<chat, cache, lock, written, hit>> /\ NoSpend

\* Mutant of Counted: only the question is counted.
Counted_One(n) == n + 1

\* message_count += 1 for each of the two messages.
Counted(n) == n + 2

RecordCommit(q) ==
    /\ ask[q].pc = "commit"
    /\ chat' = [chat EXCEPT !.count = Counted(ask[q].count), !.turns = @ \cup {q}]
    /\ hit' = IF chat.count = ask[q].count THEN hit ELSE hit \cup {"count"}
    /\ Goto(q, "done")
    /\ UNCHANGED <<cache, lock, written>> /\ NoSpend

\* The process of a request is lost, or a call fails that nothing handles.
Lost(q) ==
    /\ ask[q].pc \in Running
    /\ Goto(q, "lost") /\ Mishap
    /\ UNCHANGED <<chat, cache, lock, written, hit>>

\* DeleteChatUseCase; a transaction that has inserted messages keeps the chat until it ends.
\* Nothing is deleted in Redis.
DeleteChat ==
    /\ chat.live
    /\ \A q \in Questions : ask[q].pc # "commit"
    /\ used.deletes < MaxDeletes
    /\ used' = [used EXCEPT !.deletes = @ + 1]
    /\ chat' = Absent
    /\ hit' = hit \ {"count"}
    /\ UNCHANGED <<cache, lock, ask, written>>

-----------------------------------------------------------------------------
\* The chat may have been created before the first question.
Init ==
    /\ chat \in {Absent, [Absent EXCEPT !.live = TRUE]}
    /\ cache = << >>
    /\ lock = None
    /\ ask = [q \in Questions |-> NewAsk]
    /\ used = [mishaps |-> 0, deletes |-> 0]
    /\ written = << >>
    /\ hit = {}

\* What a request does by itself, its failures left out.
Step(q) ==
    \/ EnsureRead(q) \/ EnsureCreate(q) \/ Answer(q)
    \/ Acquire(q) \/ ReadTurns(q) \/ WriteTurns(q) \/ ReleaseCheck(q) \/ ReleaseDelete(q)
    \/ RecordRead(q) \/ RecordCommit(q)

Next ==
    \/ \E q \in Questions : Step(q) \/ AnswerFails(q) \/ AcquireTimesOut(q) \/ AppendFails(q) \/ Lost(q)
    \/ LockExpires \/ TurnsExpire \/ DeleteChat

Spec == Init /\ [][Next]_vars

\* Requests go on, and keys have a time to live.
Fairness ==
    /\ \A q \in Questions : WF_vars(Step(q))
    /\ WF_vars(LockExpires)

FairSpec == Spec /\ Fairness

-----------------------------------------------------------------------------
(* Properties.                                                             *)

\* Every variable has its type.
TypeOK ==
    /\ chat \in [live : BOOLEAN, count : Nat, turns : SUBSET Questions]
    /\ cache \in Seq(Questions) /\ Len(cache) <= MaxTurns
    /\ lock \in Questions \cup {None}
    /\ ask \in [Questions -> AskRecord]
    /\ used \in [mishaps : 0..MaxMishaps, deletes : 0..MaxDeletes]
    /\ written \in Seq(Questions)
    /\ hit \subseteq {"lapse", "expiry", "count"}

\* Overlapping requests lose no turn: Redis holds the last turns written, in their order,
\* as long as no lock lapsed under its holder and no key expired.
CacheIsHistory ==
    hit \cap {"lapse", "expiry"} = {} =>
        /\ Len(cache) = IF Len(written) > MaxTurns THEN MaxTurns ELSE Len(written)
        /\ \A n \in 1..Len(cache) : cache[n] = written[Len(written) - Len(cache) + n]

\* The turns in Redis hide those in the database; as long as the key did not expire, they
\* lack none of those but the oldest.
CacheCoversRecords ==
    hit \cap {"lapse", "expiry"} = {} /\ Len(cache) < MaxTurns => chat.turns \subseteq SeqRange(cache)

\* message_count counts the messages unless two transactions counted from one number.
CountIsMessages == "count" \notin hit => chat.count = 2 * Cardinality(chat.turns)

\* Messages never outlive their chat.
NoOrphans == chat.turns # {} => chat.live

\* A request that waits for the lock gets it: no failure leaves the conversation locked.
LockIsGranted == \A q \in Questions : ask[q].pc = "lock" ~> ask[q].pc # "lock"

=============================================================================
