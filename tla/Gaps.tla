--------------------------------- MODULE Gaps ---------------------------------
(***************************************************************************)
(* What the documents of a collection do not cover: for each topic a       *)
(* rubric of areas, each covered by the READY documents whose title or     *)
(* summary has one of its words.  A gap can be filled with a note that is  *)
(* a document like any other.                                              *)
(***************************************************************************)
EXTENDS Naturals, Sequences, FiniteSets, SequencesExt

CONSTANTS
    Subjects,     \* tags of documents
    Areas,        \* the areas of the rubric
    Matches,      \* bound: the sets of areas that the words of a document match
    Page,         \* the limit on documents, 200 in the code
    MaxHoldings    \* bound: documents

ASSUME GapsAssumption ==
    IsFiniteSet(Areas) /\ Matches \subseteq SUBSET Areas /\ Page \in Nat \ {0} /\ MaxHoldings \in Nat

VARIABLE holdings \* the documents of the collection, the latest first

Holding == [subjects : SUBSET Subjects, areas : SUBSET Areas,
            state : {"working", "ready", "failed"}]

GapsTypeOK == holdings \in Seq(Holding) /\ Len(holdings) <= MaxHoldings

GapsInit == holdings = <<>>

-----------------------------------------------------------------------------

\* get_by_user_id: the latest READY documents of the collection, by the page.
Ready(i) == holdings[i].state = "ready"
ReadyFirst ==
    {i \in DOMAIN holdings : Ready(i) /\ Cardinality({j \in 1..i : Ready(j)}) <= Page}

About(s) == {i \in ReadyFirst : s \in holdings[i].subjects}

\* Mutant: only the latest document of a topic counts.
EvidenceFor_Latest(s, area) ==
    {i \in About(s) : area \in holdings[i].areas /\ \A j \in About(s) : i <= j}

\* area_coverage
EvidenceFor(s, area) == {i \in About(s) : area \in holdings[i].areas}
Covered(s) == {area \in Areas : EvidenceFor(s, area) # {}}

\* gap_severity: 0 is low, 2 is high.
Severity(s) ==
    LET n == Cardinality(Covered(s))
        m == Cardinality(Areas)
    IN IF About(s) = {} \/ 4 * n < m      THEN 2
       ELSE IF m - n >= 3 \/ 10 * n < 6 * m THEN 1
       ELSE 0

\* collection_topic_gaps
Reported == {s \in Subjects : About(s) # {}}

-----------------------------------------------------------------------------

SaveHolding(subjects, areas) ==
    /\ Len(holdings) < MaxHoldings
    /\ holdings' = <<[subjects |-> subjects, areas |-> areas, state |-> "working"]>> \o holdings

\* CreateKnowledgeGapNoteUseCase: the title of the note has the topic and the area, and often
\* this is enough for it to be evidence itself.
FillGap(s, area) ==
    /\ s \in Reported /\ area \notin Covered(s)
    /\ \E names \in {{area}, {}} : SaveHolding({s}, names)

FinishHolding(i, to) ==
    /\ holdings[i].state # "ready"
    /\ holdings' = [holdings EXCEPT ![i].state = to]

RemoveHolding(i) == holdings' = RemoveAt(holdings, i)

GapsNext ==
    \/ \E subjects \in SUBSET Subjects, areas \in Matches : SaveHolding(subjects, areas)
    \/ \E s \in Subjects, area \in Areas : FillGap(s, area)
    \/ \E i \in DOMAIN holdings : RemoveHolding(i) \/ \E to \in {"ready", "failed"} : FinishHolding(i, to)

GapsSpec == GapsInit /\ [][GapsNext]_holdings

-----------------------------------------------------------------------------

\* A document that becomes READY never makes a gap worse: no area that was covered is lost and
\* no severity rises, although the documents of the same topic share one ratio.  Only a
\* collection larger than the page loses evidence to a newer document.
SourcesNeverHurt ==
    [][(Len(holdings') = Len(holdings) /\ Len(holdings) <= Page) =>
           \A s \in Reported : Covered(s) \subseteq Covered(s)' /\ Severity(s)' <= Severity(s)
      ]_holdings

=============================================================================
