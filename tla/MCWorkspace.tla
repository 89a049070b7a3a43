------------------------------ MODULE MCWorkspace ------------------------------
(***************************************************************************)
(* The components beside the document core in one run.  They share no      *)
(* state, so a behaviour moves one of them, the one in focus, and leaves   *)
(* the others where they start: the state spaces add up, as they would in  *)
(* runs of their own.                                                      *)
(***************************************************************************)
EXTENDS Notes, StatusCache, Topics, Library, Sessions, Integrations, Study, Chunker,
        Answering, Compare, KnowledgeGraph, Conflicts, Statistics, CollectionView,
        Extraction, Evaluation, Metrics, TelegramBot, Drafting, Flashcards

CONSTANT Moved   \* the components this run is about

VARIABLE focus   \* the one of them that moves

vars == <<focus, notesVars, cacheVars, topicVars, libraryVars, sessionVars, chatVars, notionVars,
          studyVars, chunkerVars, answeringVars, compareVars, graphVars, conflictsVars,
          statVars, viewVars, extractionVars, evaluationVars, metricsVars, botVars, draftingVars,
          flashcardVars>>

AnyMaterial == [ready |-> TRUE, text |-> TRUE, folder |-> CHOOSE f \in DraftFolders : TRUE,
                tag |-> CHOOSE t \in DraftTags : TRUE]

\* One document of two varies.
AnyDeck == [ready : BOOLEAN, suggested : Suggestions, summary : BOOLEAN,
            content : {"nothing", "raw", "chunk"}]
OneDeck == [ready |-> TRUE, suggested |-> CHOOSE s \in Suggestions : TRUE, summary |-> TRUE, content |-> "raw"]

\* Where a component has many initial states, it starts in one of them when it is not moved.
\* A document that makes no claim takes no part in conflicts until it is edited, and what
\* follows an edit is excused below.
Elsewhere ==
    /\ focus = "goals" \/ goalTopic = CHOOSE t \in GoalTopics : TRUE
    /\ focus = "chunker" \/ (text = <<>> /\ limit = 1)
    /\ focus = "pictures" \/ picture = {}
    /\ focus = "answering" \/ (rate = [p \in Passages |-> "full"] /\ followUp = {})
    /\ keep \in (IF focus = "evaluation" THEN BOOLEAN ELSE {FALSE})
    /\ focus = "writing" \/ material = [d \in MaterialIds |-> AnyMaterial]
    /\ deck \in (IF focus = "making" THEN {[d \in DeckIds |-> IF d = Decks[1] THEN x ELSE OneDeck] : x \in AnyDeck}
                ELSE {[d \in DeckIds |-> OneDeck]})
    /\ focus = "graph" \/ folder = [d \in GraphDocs |-> CHOOSE f \in Folders : TRUE]
    /\ IF focus = "conflicts" THEN stance \in [Sources -> (SUBSET Polarity) \ {{}}]
       ELSE /\ stance = [d \in Sources |-> {}]
            /\ binder = [d \in Sources |-> CHOOSE b \in Binders : TRUE]

Init ==
    /\ focus \in Moved /\ Elsewhere
    /\ NotesInit /\ CacheInit /\ TopicsInit /\ LibraryInit /\ SessionsInit /\ IntegrationsInit
    /\ StudyInit /\ ChunkerInit /\ AnsweringInit /\ CompareInit /\ GraphInit /\ ConflictsInit
    /\ StatInit /\ ViewInit /\ ExtractionInit /\ EvaluationInit /\ MetricsInit /\ BotInit
    /\ DraftingInit /\ FlashcardsInit

\* What component part leaves alone.
Rest(part) ==
    /\ UNCHANGED focus
    /\ part # "notes"      => UNCHANGED notesVars
    /\ part # "cache"      => UNCHANGED cacheVars
    /\ part # "topics"     => UNCHANGED topicVars
    /\ part \notin {"papers", "shelves"} => UNCHANGED libraryVars
    /\ part # "sessions"   => UNCHANGED sessionVars
    /\ part \notin {"chats", "notion"} => UNCHANGED integrationVars
    /\ part \notin {"cards", "goals", "drafts"} => UNCHANGED studyVars
    /\ part # "chunker"    => UNCHANGED chunkerVars
    /\ part # "answering"  => UNCHANGED answeringVars
    /\ part # "compare"    => UNCHANGED compareVars
    /\ part # "graph"      => UNCHANGED graphVars
    /\ part # "conflicts"  => UNCHANGED conflictsVars
    /\ part # "statistics" => UNCHANGED statVars
    /\ part # "gaps"       => UNCHANGED viewVars
    /\ part \notin {"pictures", "vectors"} => UNCHANGED extractionVars
    /\ part # "evaluation" => UNCHANGED evaluationVars
    /\ part # "metrics"    => UNCHANGED metricsVars
    /\ part # "bot"        => UNCHANGED botVars
    /\ part # "writing"    => UNCHANGED draftingVars
    /\ part # "making"     => UNCHANGED flashcardVars

NotesMove      == focus = "notes"      /\ NotesNext     /\ Rest("notes")
CacheMove      == focus = "cache"      /\ CacheNext     /\ Rest("cache")
TopicsMove     == focus = "topics"     /\ TopicsNext    /\ Rest("topics")
PapersMove     == focus = "papers"     /\ PapersNext    /\ Rest("papers")
ShelvesMove    == focus = "shelves"    /\ ShelvesNext   /\ Rest("shelves")
SessionsMove   == focus = "sessions"   /\ SessionsNext  /\ Rest("sessions")
ChatsMove      == focus = "chats"      /\ ChatsNext     /\ Rest("chats")
NotionMove     == focus = "notion"     /\ NotionNext    /\ Rest("notion")
CardMove       == focus = "cards"      /\ CardNext      /\ Rest("cards")
GoalMove       == focus = "goals"      /\ GoalNext      /\ Rest("goals")
DraftMove      == focus = "drafts"     /\ DraftNext     /\ Rest("drafts")
ChunkerMove    == focus = "chunker"    /\ ChunkerNext   /\ Rest("chunker")
AnsweringMove  == focus = "answering"  /\ AnsweringNext /\ Rest("answering")
CompareMove    == focus = "compare"    /\ CompareNext   /\ Rest("compare")
GraphMove      == focus = "graph"      /\ GraphNext     /\ Rest("graph")
ConflictsMove  == focus = "conflicts"  /\ ConflictsNext /\ Rest("conflicts")
StatisticsMove == focus = "statistics" /\ StatNext      /\ Rest("statistics")
GapsMove       == focus = "gaps"       /\ ViewNext      /\ Rest("gaps")
PicturesMove   == focus = "pictures"   /\ PictureNext   /\ Rest("pictures")
VectorsMove    == focus = "vectors"    /\ VectorsNext   /\ Rest("vectors")
EvaluationMove == focus = "evaluation" /\ EvaluationNext /\ Rest("evaluation")
MetricsMove    == focus = "metrics"    /\ MetricsNext   /\ Rest("metrics")
BotMove        == focus = "bot"        /\ BotNext       /\ Rest("bot")
WritingMove    == focus = "writing"    /\ DraftingNext  /\ Rest("writing")
MakingMove     == focus = "making"     /\ FlashcardsNext /\ Rest("making")

Next ==
    \/ NotesMove \/ CacheMove \/ TopicsMove \/ PapersMove \/ ShelvesMove \/ SessionsMove \/ ChatsMove
    \/ NotionMove \/ CardMove \/ GoalMove \/ DraftMove \/ ChunkerMove \/ AnsweringMove
    \/ CompareMove \/ GraphMove \/ ConflictsMove \/ StatisticsMove \/ GapsMove
    \/ PicturesMove \/ VectorsMove \/ EvaluationMove \/ MetricsMove \/ BotMove
    \/ WritingMove \/ MakingMove

\* The fairness is that of StatusCache; no other component has a liveness property here.
Spec ==
    /\ Init /\ [][Next]_vars
    /\ \A r \in Requests : WF_cacheVars(AskRow(r) \/ AskValue(r) \/ AskSend(r) \/ AskLate(r))
    /\ \A w \in Workers : WF_cacheVars(WorkNext(w))
    /\ WF_cacheVars(Lapse)

\* Every picture of 3 x 3 pixels, and two boxes of that size with a line between them that
\* touches none or both.
Ring(x) == {<<i, j>> : i \in x..(x + 2), j \in 1..3} \ {<<x + 1, 2>>}
Apart   == Ring(1) \cup Ring(9) \cup {<<i, 2>> : i \in 5..7}
Drawings == SUBSET ((1..3) \X (1..3)) \cup {Apart, Apart \cup {<<4, 2>>, <<8, 2>>}}

\* Short texts of all characters, and longer ones that may have three pages.
ShortTexts ==
    UNION {[1..n -> Chars] : n \in 0..5} \cup [1..6 -> {"x", " ", "n"}]
    \cup UNION {[1..n -> {"x", "n"}] : n \in 7..8}

\* Questions a document suggests: none, one twice and an empty one, more than are taken.
DeckList == <<"own", "new">>
SomeQuestions == {<<>>, <<"why", " ", "why">>, <<"who", "idea", "when", "where">>}

\* A collection with a text and one without, so that one question has no answer.
TwoFolders == <<<<"text", "noise">>, <<>>>>

\* The last document is somebody else's.
MaterialList == <<"own", "new", "theirs">>

GapMatches == {{}, {1, 2}, {2, 3}, {4}}

\* Most properties excuse what follows a race the code does not prevent, which a history
\* variable records for good: nothing is left to check in the states behind it.
Excusable ==
    /\ ~crossed /\ ~outdated /\ ~twins /\ ~shared /\ ~moved /\ "card" \notin clash
    /\ "goal" \notin clash /\ "draft" \notin clash /\ ~restored
    /\ ~mingled /\ ~unsettled /\ ~turned /\ ~stirred /\ ~doubled /\ unshared = {}

\* Components that answer one question together are checked by one property.

\* A chat and a key give access to what their owner granted, and the bot of the chat says what
\* became of a message.
ChatsAreServed == AccessIsBound /\ BotIsHonest

\* What is studied keeps up with the reviews, the goals and the drafts, a draft is written from
\* what it was to be written from, and the cards are new.
StudyIsSound == StudyKeepsUp /\ DraftIsBacked /\ CardsAreNew

\* What the owner and the operator are told, of documents, of a collection and of the calls,
\* is what happened.
ReportsHold == ReportsAreRight /\ ViewAgrees /\ MetricsAreRight

=============================================================================
