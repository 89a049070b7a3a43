--------------------------- MODULE Workspace_proofs ---------------------------
(***************************************************************************)
(* The components beside the document core, together: a behaviour of the   *)
(* whole is one of each component, so what is proved of a component holds  *)
(* where it runs beside the others.                                        *)
(***************************************************************************)
EXTENDS MCWorkspace, Owner_proofs, Knowledge_proofs

-----------------------------------------------------------------------------

\* A step moves one component and leaves the others alone; a step that stutters moves none.
LEMMA OneMoves ==
    ASSUME [Next]_vars
    PROVE  \E part :
              /\ Rest(part)
              /\ part = "notes"      => NotesNext
              /\ part = "cache"      => CacheNext
              /\ part = "topics"     => TopicsNext
              /\ part = "papers"     => PapersNext
              /\ part = "shelves"    => ShelvesNext
              /\ part = "sessions"   => SessionsNext
              /\ part = "chats"      => ChatsNext
              /\ part = "notion"     => NotionNext
              /\ part = "compare"    => CompareNext
              /\ part = "graph"      => GraphNext
              /\ part = "conflicts"  => ConflictsNext
              /\ part = "gaps"       => ViewNext
              /\ part = "bot"        => BotNext
              /\ part = "cards"      => CardNext
              /\ part = "goals"      => GoalNext
              /\ part = "drafts"     => DraftNext
              /\ part = "writing"    => DraftingNext
              /\ part = "making"     => FlashcardsNext
              /\ part = "statistics" => StatNext
              /\ part = "metrics"    => MetricsNext
              /\ part = "pictures"   => PictureNext
              /\ part = "vectors"    => VectorsNext
              /\ part = "chunker"    => ChunkerNext
              /\ part = "answering"  => AnsweringNext
              /\ part = "evaluation" => EvaluationNext
<1>1. CASE Next
  BY <1>1 DEF Next, NotesMove, CacheMove, TopicsMove, PapersMove, ShelvesMove, SessionsMove,
              ChatsMove, NotionMove, CardMove, GoalMove, DraftMove, ChunkerMove,
              AnsweringMove, CompareMove, GraphMove, ConflictsMove, StatisticsMove, GapsMove,
              PicturesMove, VectorsMove, EvaluationMove, MetricsMove, BotMove, WritingMove,
              MakingMove
<1>2. CASE UNCHANGED vars
  <2>1. Rest("none")
    BY <1>2 DEF vars, Rest, integrationVars, chatVars, notionVars
  <2> QED BY <2>1
<1> QED BY <1>1, <1>2

\* A behaviour of the whole begins and goes on as one of each component.
LEMMA WholeSteps == Spec => Init /\ [][Next]_vars
BY PTL DEF Spec

\* What a behaviour of the whole does to notes and their versions.
LEMMA NotesTakesPart == Spec => NotesSpec
<1>1. Init => NotesInit
  BY DEF Init
<1>2. [Next]_vars => [NotesNext]_notesVars
  BY OneMoves DEF Rest
<1> QED BY <1>1, <1>2, WholeSteps, PTL DEF NotesSpec

\* What a behaviour of the whole does to the status shown of documents.
LEMMA CacheTakesPart == Spec => CacheSpec
<1>1. Init => CacheInit
  BY DEF Init
<1>2. [Next]_vars => [CacheNext]_cacheVars
  BY OneMoves DEF Rest
<1> QED BY <1>1, <1>2, WholeSteps, PTL DEF CacheSpec

\* What a behaviour of the whole does to topics.
LEMMA TopicsTakesPart == Spec => TopicsSpec
<1>1. Init => TopicsInit
  BY DEF Init
<1>2. [Next]_vars => [TopicsNext]_topicVars
  BY OneMoves DEF Rest
<1> QED BY <1>1, <1>2, WholeSteps, PTL DEF TopicsSpec

\* What a behaviour of the whole does to tags and shares.
LEMMA LibraryTakesPart == Spec => LibrarySpec
<1>1. Init => LibraryInit
  BY DEF Init
<1>2. [Next]_vars => [LibraryNext]_libraryVars
  BY OneMoves DEF Rest, LibraryNext
<1> QED BY <1>1, <1>2, WholeSteps, PTL DEF LibrarySpec

\* What a behaviour of the whole does to sessions.
LEMMA SessionsTakesPart == Spec => SessionsSpec
<1>1. Init => SessionsInit
  BY DEF Init
<1>2. [Next]_vars => [SessionsNext]_sessionVars
  BY OneMoves DEF Rest
<1> QED BY <1>1, <1>2, WholeSteps, PTL DEF SessionsSpec

\* What a behaviour of the whole does to chats and workspaces.
LEMMA IntegrationsTakesPart == Spec => IntegrationsSpec
<1>1. Init => IntegrationsInit
  BY DEF Init
<1>2. [Next]_vars => [IntegrationsNext]_integrationVars
  BY OneMoves DEF Rest, IntegrationsNext
<1> QED BY <1>1, <1>2, WholeSteps, PTL DEF IntegrationsSpec

\* What a behaviour of the whole does to a comparison.
LEMMA CompareTakesPart == Spec => CompareSpec
<1>1. Init => CompareInit
  BY DEF Init
<1>2. [Next]_vars => [CompareNext]_compareVars
  BY OneMoves DEF Rest
<1> QED BY <1>1, <1>2, WholeSteps, PTL DEF CompareSpec

\* What a behaviour of the whole does to the graph of documents.
LEMMA GraphTakesPart == Spec => GraphSpec
<1>1. Init => GraphInit
  BY DEF Init
<1>2. [Next]_vars => [GraphNext]_graphVars
  BY OneMoves DEF Rest
<1> QED BY <1>1, <1>2, WholeSteps, PTL DEF GraphSpec

\* What a behaviour of the whole does to conflicts.
LEMMA ConflictsTakesPart == Spec => ConflictsSpec
<1>1. Init => ConflictsInit
  BY DEF Init
<1>2. [Next]_vars => [ConflictsNext]_conflictsVars
  BY OneMoves DEF Rest
<1> QED BY <1>1, <1>2, WholeSteps, PTL DEF ConflictsSpec

\* What a behaviour of the whole does to the holdings of a collection.
LEMMA GapsTakesPart == Spec => GapsSpec
<1>1. Init => GapsInit
  BY DEF Init, ViewInit
<1>2. [Next]_vars => [GapsNext]_holdings
  BY OneMoves DEF Rest, ViewNext, viewVars, ViewDocuments, ViewCounts, ViewEnd
<1> QED BY <1>1, <1>2, WholeSteps, PTL DEF GapsSpec

\* What a behaviour of the whole does to the updates of the bot.
LEMMA BotTakesPart == Spec => BotSpec
<1>1. Init => BotInit
  BY DEF Init
<1>2. [Next]_vars => [BotNext]_botVars
  BY OneMoves DEF Rest
<1> QED BY <1>1, <1>2, WholeSteps, PTL DEF BotSpec

\* What a behaviour of the whole does to reviews, goals and drafts.
LEMMA StudyTakesPart == Spec => StudySpec
<1>1. Init => StudyInit
  BY DEF Init
<1>2. [Next]_vars => [StudyNext]_studyVars
  BY OneMoves DEF Rest, StudyNext
<1> QED BY <1>1, <1>2, WholeSteps, PTL DEF StudySpec

\* What a behaviour of the whole does to a draft that is written.
LEMMA DraftingTakesPart == Spec => DraftingSpec
<1>1. Init => DraftingInit
  BY DEF Init
<1>2. [Next]_vars => [DraftingNext]_draftingVars
  BY OneMoves DEF Rest
<1> QED BY <1>1, <1>2, WholeSteps, PTL DEF DraftingSpec

\* What a behaviour of the whole does to flashcards that are made.
LEMMA FlashcardsTakesPart == Spec => FlashcardsSpec
<1>1. Init => FlashcardsInit
  BY DEF Init
<1>2. [Next]_vars => [FlashcardsNext]_flashcardVars
  BY OneMoves DEF Rest
<1> QED BY <1>1, <1>2, WholeSteps, PTL DEF FlashcardsSpec

\* What a behaviour of the whole does to the timeline and the digest.
LEMMA StatTakesPart == Spec => StatSpec
<1>1. Init => StatInit
  BY DEF Init
<1>2. [Next]_vars => [StatNext]_statVars
  BY OneMoves DEF Rest
<1> QED BY <1>1, <1>2, WholeSteps, PTL DEF StatSpec

\* What a behaviour of the whole does to the page of a collection, which is read at once.
LEMMA ViewTakesPart == Spec => ViewSpec
<1>1. Init => ViewInit
  BY DEF Init
<1>2. [Next]_vars => [ViewNext]_viewVars
  BY OneMoves DEF Rest
<1> QED BY <1>1, <1>2, WholeSteps, PTL DEF ViewSpec

\* What a behaviour of the whole does to the metrics.
LEMMA MetricsTakesPart == Spec => MetricsSpec
<1>1. Init => MetricsInit
  BY DEF Init
<1>2. [Next]_vars => [MetricsNext]_metricsVars
  BY OneMoves DEF Rest
<1> QED BY <1>1, <1>2, WholeSteps, PTL DEF MetricsSpec

\* What a behaviour of the whole does to what is extracted.
LEMMA ExtractionTakesPart == Spec => ExtractionSpec
<1>1. Init => ExtractionInit
  BY DEF Init
<1>2. [Next]_vars => [ExtractionNext]_extractionVars
  BY OneMoves DEF Rest, ExtractionNext, extractionVars
<1> QED BY <1>1, <1>2, WholeSteps, PTL DEF ExtractionSpec

\* What a behaviour of the whole does to the chunks of a text.
LEMMA ChunkerTakesPart == Spec => ChunkerSpec
<1>1. Init => ChunkerInit
  BY DEF Init
<1>2. [Next]_vars => [ChunkerNext]_chunkerVars
  BY OneMoves DEF Rest
<1> QED BY <1>1, <1>2, WholeSteps, PTL DEF ChunkerSpec

\* What a behaviour of the whole does to an answer.
LEMMA AnsweringTakesPart == Spec => AnsweringSpec
<1>1. Init => AnsweringInit
  BY DEF Init
<1>2. [Next]_vars => [AnsweringNext]_answeringVars
  BY OneMoves DEF Rest
<1> QED BY <1>1, <1>2, WholeSteps, PTL DEF AnsweringSpec

\* What a behaviour of the whole does to an evaluation.
LEMMA EvaluationTakesPart == Spec => EvaluationSpec
<1>1. Init => EvaluationInit
  BY DEF Init
<1>2. [Next]_vars => [EvaluationNext]_evaluationVars
  BY OneMoves DEF Rest
<1> QED BY <1>1, <1>2, WholeSteps, PTL DEF EvaluationSpec

-----------------------------------------------------------------------------

\* For any users, chats, codes, workspaces, messages and faults, beside all the other components:
\* a chat and a workspace give access to what their owner granted, and the bot of the chat says
\* what became of a message.
THEOREM ChatsAreAlwaysServed == Spec => []ChatsAreServed
<1>1. Spec => []AccessIsBound
  BY IntegrationsTakesPart, AccessStaysBound
<1>2. Spec => []BotIsHonest
  BY BotTakesPart, BotStaysHonest
<1> QED BY <1>1, <1>2, PTL DEF ChatsAreServed

\* For any documents, cards, goals and drafts, beside all the other components: what an owner
\* reviews, aims at and writes goes on from what there was, and rests on the owner's material.
THEOREM StudyIsAlwaysSound == Spec => []StudyIsSound
<1>1. Spec => []StudyKeepsUp
  BY StudyTakesPart, StudyGoesOn
<1>2. Spec => []DraftIsBacked
  BY DraftingTakesPart, DraftsAreBacked
<1>3. Spec => []CardsAreNew
  BY FlashcardsTakesPart, CardsStayNew
<1> QED BY <1>1, <1>2, <1>3, PTL DEF StudyIsSound

\* For any documents, months, processes and calls, beside all the other components: the reports
\* on documents, on a collection and on the program count what there is.
THEOREM ReportsAlwaysHold == Spec => []ReportsHold
<1>1. Spec => []ReportsAreRight
  BY StatTakesPart, ReportsAreTrue
<1>2. Spec => []ViewAgrees
  BY ViewTakesPart, ViewIsTrue
<1>3. Spec => []MetricsAreRight
  BY MetricsTakesPart, MetricsAreTrue
<1> QED BY <1>1, <1>2, <1>3, PTL DEF ReportsHold

\* What is proved of each of these components holds of all of them together.
THEOREM WorkspaceIsSafe ==
    Spec => /\ []HistoryIsKept /\ []QuietIsShown /\ []OwnerDecides /\ []SessionsHold
            /\ []EvidenceIsCited /\ []EdgesFollowTopics /\ []ConflictsAreBacked
            /\ []ExtractionIsExact /\ []ChunksCoverText
            /\ []CitationsFollowScores /\ []EvaluationIsSound
            /\ OwnerSeesEffect /\ SourcesNeverHurt
BY NotesTakesPart, HistoriesAreKept, CacheTakesPart, StatusIsShown, LibraryTakesPart,
   DecisionsStand, SessionsTakesPart, SessionsAreChains, CompareTakesPart,
   RowsRestOnCitations, GraphTakesPart, EdgesAreThoseOfTopics, ConflictsTakesPart,
   KeptConflictsAreBacked, TopicsTakesPart, EffectsAreSeen, GapsTakesPart, SourcesOnlyHelp,
   ExtractionTakesPart, SourcesAreExact, ChunkerTakesPart, ChunksAlwaysCover, AnsweringTakesPart, CitationsAreRight, EvaluationTakesPart, EvaluationsAreSound

=============================================================================
