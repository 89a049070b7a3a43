---------------------------- MODULE CollectionView ----------------------------
(***************************************************************************)
(* GetCollectionWorkspaceUseCase: the page about a collection.  It reads   *)
(* the latest documents, then counts all of them by status, each with a    *)
(* query of its own; documents may change in between.                      *)
(***************************************************************************)
EXTENDS Gaps

VARIABLES
    view,      \* the request: what it has read
    stirred    \* history: the documents changed while it ran

viewVars == <<holdings, view, stirred>>

-----------------------------------------------------------------------------

NoView == [pc |-> "none", listed |-> <<>>, count |-> [s \in {"working", "ready", "failed"} |-> 0]]

ViewInit == GapsInit /\ view = NoView /\ stirred = FALSE

Counted(s) == Cardinality({i \in DOMAIN holdings : holdings[i].state = s})

\* get_collection_documents_with_status_counts: the documents by the page, whatever their
\* status, ...
ViewDocuments ==
    /\ view.pc = "none"
    /\ view' = [view EXCEPT !.pc = "documents",
                    !.listed = SubSeq(holdings, 1, IF Page < Len(holdings) THEN Page ELSE Len(holdings))]
    /\ UNCHANGED <<holdings, stirred>>

\* ... and count_by_status.
ViewCounts ==
    /\ view.pc = "documents"
    /\ view' = [view EXCEPT !.pc = "told", !.count = [s \in DOMAIN @ |-> Counted(s)]]
    /\ UNCHANGED <<holdings, stirred>>

ViewEnd ==
    /\ view.pc = "told"
    /\ view' = NoView /\ stirred' = FALSE /\ UNCHANGED holdings

Total == view.count["working"] + view.count["ready"] + view.count["failed"]

\* workspace_topics: of everything listed, with the number of documents.
ViewTopics == [s \in UNION {h.subjects : h \in ToSet(view.listed)} |->
                  Cardinality({i \in DOMAIN view.listed : s \in view.listed[i].subjects})]

\* workspace_gaps
Operational ==
    (IF Total = 0 THEN {"no sources"} ELSE {})
    \cup (IF Total > 0 /\ view.count["ready"] = 0 THEN {"no ready documents"} ELSE {})
    \cup (IF view.count["failed"] > 0 THEN {"failed processing"} ELSE {})
    \cup (IF view.count["ready"] > 0 /\ DOMAIN ViewTopics = {} THEN {"no topic coverage"} ELSE {})
    \cup (IF Total > 0 /\ view.count["ready"] < 3 THEN {"thin evidence base"} ELSE {})

\* The topics of the READY documents that are listed have a gap each.
TopicGaps == UNION {h.subjects : h \in {x \in ToSet(view.listed) : x.state = "ready"}}

ViewNext ==
    \/ GapsNext /\ stirred' = (view.pc # "none") /\ UNCHANGED view
    \/ ViewDocuments \/ ViewCounts \/ ViewEnd

ViewSpec == ViewInit /\ [][ViewNext]_viewVars

-----------------------------------------------------------------------------

\* What the page says fits together and is so, unless the documents changed while it was made:
\* it speaks of no sources, or of none that is ready, only when there are none at all, of no
\* topics only when no document on the page has one, and of gaps in topics that are listed.
ViewAgrees ==
    view.pc = "told" /\ ~stirred =>
        /\ Total = Len(holdings) /\ Len(view.listed) <= Total
        /\ "no sources" \in Operational => view.listed = <<>> /\ Operational = {"no sources"}
        /\ "no ready documents" \in Operational => TopicGaps = {} /\ ReadyFirst = {}
        /\ "no ready documents" \notin Operational /\ Total > 0 => ReadyFirst # {}
        /\ "no topic coverage" \in Operational =>
              TopicGaps = {} /\ (Len(holdings) <= Page => Reported = {})
        /\ "failed processing" \in Operational =>
              \E i \in DOMAIN holdings : holdings[i].state = "failed"
        /\ TopicGaps \subseteq DOMAIN ViewTopics

=============================================================================
