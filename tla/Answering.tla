------------------------------ MODULE Answering -------------------------------
(***************************************************************************)
(* One question: what retrieval finds, what the reranker and the filters   *)
(* leave of it, what the prompt shows of that under which number, and      *)
(* which sources the answer is then said to have used.  How the answer is  *)
(* kept is the subject of Conversation.                                    *)
(***************************************************************************)
EXTENDS Naturals, Sequences, FiniteSets, SequencesExt

CONSTANTS
    Passages,     \* chunks of documents
    Limit,        \* the limit of the question
    TopK,         \* RERANKER_TOP_K
    FullTop,      \* FULL_TEXT_TOP_K
    Fallbacks     \* sources that stay whatever the relevance filter says

ASSUME AnsweringAssumption ==
    /\ IsFiniteSet(Passages)
    /\ Limit \in Nat /\ TopK \in Nat /\ FullTop \in Nat /\ Fallbacks \in Nat

VARIABLES
    stage,        \* what the question is about to do
    rate,         \* the class of the score of each passage
    followUp,     \* passages of documents that the last turns were about
    sources,      \* state.sources
    prompt,       \* state.refrag_context: in full, compressed and discarded
    cited,        \* the numbers in the answer
    used          \* the passages marked used_in_answer

answeringVars == <<stage, rate, followUp, sources, prompt, cited, used>>

-----------------------------------------------------------------------------

\* Scores count by the two thresholds of HeuristicRefragContextBuilder.
Rates  == {"full", "compressed", "discarded"}
Better == {<<"full", "compressed">>, <<"full", "discarded">>, <<"compressed", "discarded">>}
Stages == {"retrieve", "rerank", "filter", "promote", "build", "answer", "mark", "end", "failed"}
Found  == {s \in SeqOf(Passages, Cardinality(Passages)) : IsInjective(s)}
NoPrompt == [full |-> <<>>, compressed |-> <<>>, discarded |-> <<>>]

AnsweringTypeOK ==
    /\ stage \in Stages /\ rate \in [Passages -> Rates] /\ followUp \subseteq Passages
    /\ sources \in Found /\ prompt \in [DOMAIN NoPrompt -> Found]
    /\ cited \subseteq 1..Cardinality(Passages) /\ used \subseteq Passages

InScoreOrder(s) == \A i, j \in DOMAIN s : i < j => <<rate[s[j]], rate[s[i]]>> \notin Better

\* What a filter or a stable sort can make of s: the passages in S, those in front first, and
\* all else as it was in s.
InFront(s, x, y) == \E i, j \in DOMAIN s : i < j /\ s[i] = x /\ s[j] = y
Arranged(s, S, front) ==
    {t \in Found : /\ ToSet(t) = S
                   /\ \A i, j \in DOMAIN t : i < j =>
                         \/ t[i] \in front /\ t[j] \notin front
                         \/ (t[i] \in front <=> t[j] \in front) /\ InFront(s, t[i], t[j])}
Filtered(s, S) == Arranged(s, S, {})

\* The passages are rated and the conversation is known.  ConversationContextAgent: a question
\* that looks like a follow-up promotes the documents of the recent turns.
AnsweringInit ==
    /\ stage = "retrieve" /\ rate \in [Passages -> Rates] /\ followUp \in SUBSET Passages
    /\ sources = <<>> /\ prompt = NoPrompt /\ cited = {} /\ used = {}

Goes(to) == stage' = to /\ UNCHANGED <<rate, followUp>>

\* hybrid_search fuses the ranks of two searches and sorts by the sum; without a hit there is
\* nothing to rerank, to filter or to show.
Retrieve ==
    /\ stage = "retrieve"
    /\ \E s \in Found :
          /\ Len(s) <= Limit /\ InScoreOrder(s)
          /\ sources' = s
    /\ Goes("rerank") /\ UNCHANGED <<prompt, cited, used>>

\* Every service on the way can fail, and the question with it.
Lose ==
    /\ stage \in {"retrieve", "rerank", "answer"}
    /\ Goes("failed") /\ UNCHANGED <<sources, prompt, cited, used>>

\* CrossEncoderReranker, or EmbeddingReranker when it fails, sorts by scores of its own, which it
\* does not keep; when there is no reranker the order stays.
Rerank ==
    /\ stage = "rerank"
    /\ \/ UNCHANGED sources
       \/ \E s \in Found :
             /\ ToSet(s) \subseteq ToSet(sources)
             /\ Len(s) = IF TopK < Len(sources) THEN TopK ELSE Len(sources)
             /\ sources' = s
    /\ Goes("filter") /\ UNCHANGED <<prompt, cited, used>>

\* ChunkQualityFilter, then ChunkRelevanceFilter.  A question with a relevance query of its own,
\* or one about given documents, gets back the first sources of quality at the end.
Filter ==
    /\ stage = "filter"
    /\ \E good \in SUBSET ToSet(sources), strict \in BOOLEAN :
       \E quality \in Filtered(sources, good), relevant \in SUBSET good :
          LET fallback == IF strict THEN {} ELSE {quality[i] : i \in DOMAIN quality \cap 1..Fallbacks}
          IN sources' \in Arranged(quality, relevant \cup fallback, relevant)
    /\ Goes("promote") /\ UNCHANGED <<prompt, cited, used>>

\* The documents of a follow-up come first; the sort is stable.
Promote ==
    /\ stage = "promote"
    /\ sources' \in Arranged(sources, ToSet(sources), followUp)
    /\ Goes("build") /\ UNCHANGED <<prompt, cited, used>>

\* The first FullTop sources are shown in full whatever their score.
Representation(i) == IF i <= FullTop THEN "full" ELSE rate[sources[i]]

Represented(r) == {sources[i] : i \in {j \in DOMAIN sources : Representation(j) = r}}

BuildContext ==
    /\ stage = "build"
    /\ \E f \in Filtered(sources, Represented("full")),
         c \in Filtered(sources, Represented("compressed")),
         d \in Filtered(sources, Represented("discarded")) :
            prompt' = [full |-> f, compressed |-> c, discarded |-> d]
    /\ Goes("answer") /\ UNCHANGED <<sources, cited, used>>

\* _build_messages numbers the passages in full, and goes on with the compressed ones.
NumberIn(shown, x) ==
    CHOOSE n \in 1..(Len(shown.full) + Len(shown.compressed)) :
        \/ n \in DOMAIN shown.full /\ shown.full[n] = x
        \/ n > Len(shown.full) /\ shown.compressed[n - Len(shown.full)] = x
Number(x) == NumberIn(prompt, x)
Selected == ToSet(prompt.full) \cup ToSet(prompt.compressed)

\* What the model relies on, it cites; without a key the answer cites everything selected.
Answer ==
    /\ stage = "answer"
    /\ \E meant \in SUBSET Selected : cited' = {Number(x) : x \in meant}
    /\ Goes("mark") /\ UNCHANGED <<sources, prompt, used>>

\* Mutant: the numbers are taken to begin with zero.
Marked_FromZero == {sources[i] : i \in {n + 1 : n \in cited} \cap DOMAIN sources}

\* mark_sources_used_in_answer and stream_sources_payload number by the place in state.sources.
Marked == {sources[i] : i \in cited \cap DOMAIN sources}

Mark ==
    /\ stage = "mark"
    /\ used' = Marked
    /\ Goes("end") /\ UNCHANGED <<sources, prompt, cited>>

AnsweringNext ==
    Retrieve \/ Lose \/ Rerank \/ Filter \/ Promote \/ BuildContext \/ Answer \/ Mark

AnsweringSpec == AnsweringInit /\ [][AnsweringNext]_answeringVars

-----------------------------------------------------------------------------

\* The sources an answer is said to use are the ones it cites, as the prompt numbers them.
\* README.md promises citations that name their sources.
CitationsNameSources ==
    stage = "end" => cited = {Number(x) : x \in used \cap Selected} /\ used \subseteq Selected

\* They are at least when the sources are still in the order of their scores, because then what
\* is discarded comes last and what is compressed just before: the prompt numbers the sources
\* like the list, whatever the filters and the limit on full texts do.
CitationsFollowScores == InScoreOrder(sources) => CitationsNameSources

=============================================================================
