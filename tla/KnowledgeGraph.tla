---------------------------- MODULE KnowledgeGraph ----------------------------
(***************************************************************************)
(* The edges between the documents of one owner.  They are derived from    *)
(* the topics of the documents when the owner asks for it, kept, and shown *)
(* with the topics as they are now.  A recomputation reads, then deletes   *)
(* all edges, then inserts its own; recomputations overlap.                *)
(***************************************************************************)
EXTENDS FiniteSets, FiniteSetsExt

CONSTANTS
    GraphDocs,
    GraphTopics,
    Folders,      \* collections
    Recomputes,   \* recomputations, each made once
    Unfiltered,   \* no filter
    Hidden        \* an ignored topic

ASSUME KnowledgeGraphAssumption ==
    /\ IsFiniteSet(GraphDocs)
    /\ Unfiltered \notin Folders /\ Hidden \notin GraphTopics

VARIABLES
    about,        \* the topics of each document; one that is gone has none
    folder,       \* the collection of each document
    shownAs,      \* the name a topic is shown by
    edges,        \* rows of knowledge_edges: a pair and the recomputation that made it
    recompute,    \* the recomputations
    steady,       \* history: documents and topics are as the last recomputation read them
    mingled       \* history: recomputations overlapped, or one was narrower than all

graphVars == <<about, folder, shownAs, edges, recompute, steady, mingled>>

-----------------------------------------------------------------------------

Pairs == kSubset(2, GraphDocs)
Edge  == [pair : Pairs, by : Recomputes]
Scope == [folder : Folders \cup {Unfiltered}, topic : GraphTopics \cup {Unfiltered}]
All   == [folder |-> Unfiltered, topic |-> Unfiltered]
Phases == {"new", "read", "deleted", "done"}

GraphTypeOK ==
    /\ about \in [GraphDocs -> SUBSET GraphTopics]
    /\ folder \in [GraphDocs -> Folders]
    /\ shownAs \in [GraphTopics -> GraphTopics \cup {Hidden}]
    /\ edges \subseteq Edge
    /\ recompute \in [Recomputes -> [phase : Phases, pairs : SUBSET Pairs,
                                     seen : SUBSET Edge]]
    /\ steady \in BOOLEAN /\ mingled \in BOOLEAN

GraphInit ==
    /\ about = [d \in GraphDocs |-> GraphTopics]
    /\ folder \in [GraphDocs -> Folders]
    /\ shownAs = [t \in GraphTopics |-> t]
    /\ edges = {} /\ steady = FALSE /\ mingled = FALSE
    /\ recompute = [r \in Recomputes |->
           [phase |-> "new", pairs |-> {}, seen |-> {}]]

\* list_topic_document_links with apply_topic_overrides: the topics a document is shown under.
\* The limits on documents and topics are left out.
Shown(d, s) ==
    {t \in GraphTopics :
        /\ s.folder \in {Unfiltered, folder[d]} /\ s.topic \in {Unfiltered, t}
        /\ \E u \in about[d] : shownAs[u] = t}

\* document_relation_edges: two documents with a topic in common, once.
Related(s) ==
    {p \in Pairs : \E d, e \in p : d # e /\ Shown(d, s) \cap Shown(e, s) # {}}

Running == {r \in Recomputes : recompute[r].phase \in {"read", "deleted"}}

-----------------------------------------------------------------------------

RecomputeRead(r, s) ==
    /\ recompute[r].phase = "new"
    /\ recompute' = [recompute EXCEPT ![r].phase = "read", ![r].pairs = Related(s)]
    /\ mingled' = (mingled \/ Running # {} \/ s # All)
    /\ steady' = TRUE
    /\ UNCHANGED <<about, folder, shownAs, edges>>

\* Mutant: the old edges are left.
ReplaceDelete_None(r) ==
    /\ recompute[r].phase = "read"
    /\ recompute' = [recompute EXCEPT ![r].phase = "deleted", ![r].seen = {}]
    /\ UNCHANGED <<about, folder, shownAs, edges, steady, mingled>>

\* The DELETE of replace_edges takes all the rows of the owner that are committed when it
\* starts: rows that another recomputation has inserted meanwhile stay.
ReplaceDelete(r) ==
    /\ recompute[r].phase = "read"
    /\ recompute' = [recompute EXCEPT ![r].phase = "deleted", ![r].seen = edges]
    /\ UNCHANGED <<about, folder, shownAs, edges, steady, mingled>>

\* A document that has gone meanwhile makes the transaction fail.
Gone(d) == about[d] = {}
ReplaceInsert(r) ==
    /\ recompute[r].phase = "deleted"
    /\ recompute' = [recompute EXCEPT ![r] = [phase |-> "done", pairs |-> {}, seen |-> {}]]
    /\ IF \E p \in recompute[r].pairs : \E d \in p : Gone(d)
       THEN steady' = FALSE /\ UNCHANGED edges
       ELSE /\ edges' = (edges \ recompute[r].seen)
                          \cup {[pair |-> p, by |-> r] : p \in recompute[r].pairs}
            /\ UNCHANGED steady
    /\ UNCHANGED <<about, folder, shownAs, mingled>>

\* Documents get other topics, and topics are renamed, merged or ignored, at any time.
Retopic(d, topics) ==
    /\ ~Gone(d) /\ topics # about[d] /\ topics # {}
    /\ about' = [about EXCEPT ![d] = topics] /\ steady' = FALSE
    /\ UNCHANGED <<folder, shownAs, edges, recompute, mingled>>

ManageTopic(t, name) ==
    /\ shownAs[t] # name
    /\ shownAs' = [shownAs EXCEPT ![t] = name] /\ steady' = FALSE
    /\ UNCHANGED <<about, folder, edges, recompute, mingled>>

\* The edges of a document go with it.
RemoveGraphDoc(d) ==
    /\ ~Gone(d)
    /\ about' = [about EXCEPT ![d] = {}]
    /\ edges' = {e \in edges : d \notin e.pair}
    /\ UNCHANGED <<folder, shownAs, recompute, steady, mingled>>

GraphNext ==
    \/ \E r \in Recomputes :
          \/ \E s \in Scope : RecomputeRead(r, s)
          \/ ReplaceDelete(r) \/ ReplaceInsert(r)
    \/ \E d \in GraphDocs : RemoveGraphDoc(d) \/ \E topics \in SUBSET GraphTopics : Retopic(d, topics)
    \/ \E t \in GraphTopics, name \in GraphTopics \cup {Hidden} : ManageTopic(t, name)

GraphSpec == GraphInit /\ [][GraphNext]_graphVars

-----------------------------------------------------------------------------

\* GetKnowledgeGraphUseCase: of the edges that are kept, those between documents shown.
GraphOf(s) == {e \in edges : \A d \in e.pair : Shown(d, s) # {}}

Quiescent == Running = {} /\ \E r \in Recomputes : recompute[r].phase = "done"

\* The graph of any collection or topic shows an edge, and one only, for all related
\* documents of it: a recomputation replaces what was there.  Two that overlap leave the rows
\* of both, and one that is limited to a collection deletes the edges of all others.
EdgesFollowTopics ==
    (steady /\ Quiescent /\ ~mingled) =>
        \A s \in Scope :
            /\ Related(s) \subseteq {e.pair : e \in GraphOf(s)}
            /\ s.topic = Unfiltered => \A e, f \in GraphOf(s) : e.pair = f.pair => e = f

=============================================================================
