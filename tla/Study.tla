------------------------------- MODULE Study --------------------------------
(***************************************************************************)
(* Three things a user works on, each read and written by requests that    *)
(* may overlap: a flashcard and its reviews, a learning goal with the      *)
(* resources ranked for it, and a draft with its versions.                 *)
(***************************************************************************)
EXTENDS Naturals, Integers, Sequences, SequencesExt, FiniteSets

CONSTANTS
    Clients,       \* bound: requests that overlap
    GoalTopics,
    MaxReviews,    \* bound: reviews of the card
    MaxVersions,   \* bound: versions of the draft
    NoTopic

ASSUME StudyAssumption == MaxReviews \in Nat /\ MaxVersions \in Nat /\ NoTopic \notin GoalTopics

VARIABLES
    card,          \* the schedule of a flashcard
    reviews,       \* flashcard_reviews
    goalTopic,     \* the topic of the learning goal, or NoTopic when it is deleted
    resources,     \* learning_goal_resources: the topics they were ranked for
    draft,         \* the number of the version the draft shows, 0 before there is one
    drafted,       \* draft_versions: their numbers, in the order of their insertion
    client,        \* the requests
    clash,         \* history: requests that overlapped another on the same thing
    restored       \* history: a version was restored

studyVars == <<card, reviews, goalTopic, resources, draft, drafted, client, clash, restored>>

-----------------------------------------------------------------------------

Grades == {"again", "hard", "good", "easy"}
\* Days, and the ease factor in hundredths.
Card   == [interval : Nat, ease : Nat, count : Nat]
Review == [from : Nat, to : Nat]
Things == {"card", "goal", "draft"}
NoWork == [on |-> "none", card |-> [interval |-> 0, ease |-> 250, count |-> 0],
           topic |-> NoTopic, number |-> 0, stale |-> FALSE]

StudyTypeOK ==
    /\ card \in Card /\ reviews \in Seq(Review)
    /\ goalTopic \in GoalTopics \cup {NoTopic} /\ resources \subseteq GoalTopics
    /\ draft \in 0..MaxVersions /\ drafted \in Seq(1..MaxVersions)
    /\ client \in [Clients -> [on : {"none"} \cup Things, card : Card, stale : BOOLEAN,
                               topic : GoalTopics \cup {NoTopic}, number : Nat]]
    /\ clash \subseteq Things /\ restored \in BOOLEAN

StudyInit ==
    /\ card = NoWork.card /\ reviews = <<>>
    /\ goalTopic \in GoalTopics /\ resources = {}
    /\ draft = 0 /\ drafted = <<>>
    /\ client = [c \in Clients |-> NoWork]
    /\ clash = {} /\ restored = FALSE

AtRest(c) == client[c].on = "none"
Works(c, thing) == client[c].on = thing

\* A request reads; it writes over what others have read, and is over.
Reads(c, r) == client' = [client EXCEPT ![c] = r] /\ UNCHANGED clash
Overwrites(c, thing) ==
    /\ client' = [x \in Clients |-> IF x = c THEN NoWork
                    ELSE IF Works(x, thing) THEN [client[x] EXCEPT !.stale = TRUE]
                    ELSE client[x]]
    /\ clash' = IF client[c].stale THEN clash \cup {thing} ELSE clash
GivesUp(c) == client' = [client EXCEPT ![c] = NoWork] /\ UNCHANGED clash

-----------------------------------------------------------------------------
(* Flashcards.                                                             *)

AtLeast(n, m) == IF n >= m THEN n ELSE m
AtMost(n, m)  == IF n <= m THEN n ELSE m

\* int(days * factor): a product that is a whole number may be a little less in floating point.
Days(days, factor) ==
    LET product == AtLeast(1, days) * factor IN
    {product \div 100} \cup (IF product % 100 = 0 THEN {product \div 100 - 1} ELSE {})

\* next_review_schedule.
NextEase(grade, ease) ==
    CASE grade = "again" -> AtLeast(130, ease - 20)
      [] grade = "hard"  -> AtLeast(130, ease - 10)
      [] grade = "good"  -> ease
      [] grade = "easy"  -> AtMost(320, ease + 15)

NextIntervals(grade, interval, ease) ==
    CASE grade = "again" -> {1}
      [] grade = "hard"  -> {AtLeast(2, d) : d \in Days(interval, 120)}
      [] grade = "good"  -> {AtLeast(3, d) : d \in Days(interval, ease)}
      [] grade = "easy"  -> {AtLeast(4, d) : d \in Days(interval, ease + 30)}

\* ReviewFlashcardUseCase reads the card and computes from what it read.
ReviewRead(c) ==
    /\ AtRest(c)
    /\ Reads(c, [NoWork EXCEPT !.on = "card", !.card = card])
    /\ UNCHANGED <<card, reviews, goalTopic, resources, draft, drafted, restored>>

ReviewWrite(c, grade) ==
    /\ Works(c, "card") /\ Len(reviews) < MaxReviews
    /\ LET read == client[c].card IN
       \E days \in NextIntervals(grade, read.interval, read.ease) :
          /\ card' = [interval |-> days, ease |-> NextEase(grade, read.ease),
                      count |-> read.count + 1]
          /\ reviews' = Append(reviews, [from |-> read.interval, to |-> days])
    /\ Overwrites(c, "card")
    /\ UNCHANGED <<goalTopic, resources, draft, drafted, restored>>

-----------------------------------------------------------------------------
(* Learning goals.                                                         *)

\* Mutant: the resources of the old topic are kept.
UpdateGoal_Keep(topic) ==
    /\ goalTopic # NoTopic
    /\ goalTopic' = topic
    /\ client' = [x \in Clients |-> IF Works(x, "goal") THEN [client[x] EXCEPT !.stale = TRUE]
                                    ELSE client[x]]
    /\ UNCHANGED <<card, reviews, resources, draft, drafted, clash, restored>>

\* UpdateLearningGoalUseCase clears the resources in the transaction that changes the goal.
UpdateGoal(topic) ==
    /\ goalTopic # NoTopic
    /\ goalTopic' = topic
    /\ resources' = {}
    /\ client' = [x \in Clients |-> IF Works(x, "goal") THEN [client[x] EXCEPT !.stale = TRUE]
                                    ELSE client[x]]
    /\ UNCHANGED <<card, reviews, draft, drafted, clash, restored>>

DeleteGoal ==
    /\ goalTopic # NoTopic
    /\ goalTopic' = NoTopic /\ resources' = {}
    /\ UNCHANGED <<card, reviews, draft, drafted, client, clash, restored>>

\* RankLearningGoalResourcesUseCase answers from resources of the last 24 hours; otherwise it
\* reads the goal, fetches pages without a transaction, ...
RankRead(c, refresh) ==
    /\ AtRest(c) /\ goalTopic # NoTopic /\ (refresh \/ resources = {})
    /\ Reads(c, [NoWork EXCEPT !.on = "goal", !.topic = goalTopic])
    /\ UNCHANGED <<card, reviews, goalTopic, resources, draft, drafted, restored>>

\* ... and replaces the resources.  A goal that has gone refuses them.
RankWrite(c) ==
    /\ Works(c, "goal")
    /\ IF goalTopic = NoTopic
       THEN GivesUp(c) /\ UNCHANGED resources
       ELSE resources' = {client[c].topic} /\ Overwrites(c, "goal")
    /\ UNCHANGED <<card, reviews, goalTopic, draft, drafted, restored>>

\* 24 hours pass.
ResourcesAge ==
    /\ resources # {}
    /\ resources' = {}
    /\ UNCHANGED <<card, reviews, goalTopic, draft, drafted, client, clash, restored>>

-----------------------------------------------------------------------------
(* Drafts.                                                                 *)

CreateDraft ==
    /\ draft = 0 /\ MaxVersions > 0
    /\ draft' = 1 /\ drafted' = <<1>>
    /\ UNCHANGED <<card, reviews, goalTopic, resources, client, clash, restored>>

\* GenerateDraftUseCase for a draft that is there: the number of the version it shows is read ...
DraftRead(c) ==
    /\ AtRest(c) /\ draft # 0
    /\ Reads(c, [NoWork EXCEPT !.on = "draft", !.number = draft + 1])
    /\ UNCHANGED <<card, reviews, goalTopic, resources, draft, drafted, restored>>

\* ... and, plus one, written by append_version to the draft and to a new version.
DraftWrite(c) ==
    /\ Works(c, "draft") /\ Len(drafted) < MaxVersions
    /\ draft' = client[c].number
    /\ drafted' = Append(drafted, client[c].number)
    /\ Overwrites(c, "draft")
    /\ UNCHANGED <<card, reviews, goalTopic, resources, restored>>

\* RestoreDraftVersionUseCase: the draft takes the number of the version, too.
RestoreDraft(n) ==
    /\ n \in Range(drafted)
    /\ draft' = n
    /\ restored' = (restored \/ n # Last(drafted))
    /\ client' = [x \in Clients |-> IF Works(x, "draft") THEN [client[x] EXCEPT !.stale = TRUE]
                                    ELSE client[x]]
    /\ UNCHANGED <<card, reviews, goalTopic, resources, drafted, clash>>

\* DeleteDraftUseCase: the versions go with it; a writer that is under way finds no draft.
DeleteDraft ==
    /\ draft # 0
    /\ draft' = 0 /\ drafted' = <<>> /\ restored' = FALSE
    /\ client' = [x \in Clients |-> IF Works(x, "draft") THEN NoWork ELSE client[x]]
    /\ UNCHANGED <<card, reviews, goalTopic, resources, clash>>

-----------------------------------------------------------------------------

CardNext  == \E c \in Clients : ReviewRead(c) \/ \E g \in Grades : ReviewWrite(c, g)
GoalNext  == \/ \E t \in GoalTopics : UpdateGoal(t)
             \/ \E c \in Clients : RankWrite(c) \/ \E b \in BOOLEAN : RankRead(c, b)
             \/ DeleteGoal \/ ResourcesAge
DraftNext == \/ \E c \in Clients : DraftRead(c) \/ DraftWrite(c)
             \/ \E n \in 1..MaxVersions : RestoreDraft(n)
             \/ CreateDraft \/ DeleteDraft

StudyNext == CardNext \/ GoalNext \/ DraftNext
StudySpec == StudyInit /\ [][StudyNext]_studyVars

-----------------------------------------------------------------------------

\* Every review counts and goes on from where the one before it ended, and from any schedule a
\* card can reach a better grade never brings it back earlier.  Two reviews that overlap start
\* from the same interval and count once.
ReviewsAreChained ==
    /\ "card" \notin clash =>
          /\ card.count = Len(reviews)
          /\ \A i \in 2..Len(reviews) : reviews[i].from = reviews[i - 1].to
    /\ \A i \in 1..3 :
          LET worse == <<"again", "hard", "good", "easy">>[i]
              better == <<"hard", "good", "easy">>[i]
          IN \A d \in NextIntervals(worse, card.interval, card.ease) :
                \E e \in NextIntervals(better, card.interval, card.ease) : d <= e

\* What is kept beside a thing that changes is about the thing as it is: the resources are those
\* of the topic the goal has, and the versions of a draft are numbered one by one.  A ranking
\* that overlaps a change of the goal stores the resources of the old topic for a day; after a
\* restoration the next version takes a number that is taken.
SidesFollow ==
    /\ "goal" \notin clash => resources \subseteq {goalTopic}
    /\ ("draft" \notin clash /\ ~restored) => \A i \in DOMAIN drafted : drafted[i] = i

\* What a user is shown of a card, a goal and a draft is what came of the requests made.
StudyKeepsUp == ReviewsAreChained /\ SidesFollow

=============================================================================
