------------------------------- MODULE Topics -------------------------------
(***************************************************************************)
(* The topics of one owner.  Enrichment gives documents topics; the owner  *)
(* renames, merges, pins and hides them with overrides, which are kept per *)
(* stored name and merged into what is shown only when topics are read.    *)
(***************************************************************************)
EXTENDS Naturals, FiniteSets

CONSTANTS
    Names,       \* topic names, in lower case and without extra blanks
    TopicDocs,   \* documents
    NoOverride

Override == [display : Names, pinned : BOOLEAN, ignored : BOOLEAN]

ASSUME TopicsAssumption ==
    IsFiniteSet(Names) /\ IsFiniteSet(TopicDocs) /\ NoOverride \notin Override

VARIABLES
    topicsOf,    \* document_topics: the names of each document
    tagsOf,      \* document_tags, which stand in for a document without topics
    override     \* topic_overrides: how a stored name is shown

topicVars == <<topicsOf, tagsOf, override>>

TopicsTypeOK ==
    /\ topicsOf \in [TopicDocs -> SUBSET Names]
    /\ tagsOf \in [TopicDocs -> SUBSET Names]
    /\ override \in [Names -> Override \cup {NoOverride}]

TopicsInit ==
    /\ topicsOf = [d \in TopicDocs |-> {}]
    /\ tagsOf = [d \in TopicDocs |-> {}]
    /\ override = [n \in Names |-> NoOverride]

-----------------------------------------------------------------------------
(* Reading.                                                                *)

\* _stored_topics and _fallback_tag_topics: the names a document counts under.
NamesOf(d)   == IF topicsOf[d] # {} THEN topicsOf[d] ELSE tagsOf[d]
StoredTopics == UNION {NamesOf(d) : d \in TopicDocs}

\* _documents_for_topic_names: each document once, whatever the number of its names.
DocumentsOf(names) == {d \in TopicDocs : NamesOf(d) \cap names # {}}

Flagged(n)   == override[n] # NoOverride
DisplayOf(n) == IF Flagged(n) THEN override[n].display ELSE n
Pinned(n)    == Flagged(n) /\ override[n].pinned
Ignored(n)   == Flagged(n) /\ override[n].ignored

\* merge_topic_overrides: names with one display are one topic, pinned when one of them is,
\* and hidden when all of them are.
MergedTopics ==
    {[name    |-> shown,
      sources |-> {n \in StoredTopics : DisplayOf(n) = shown},
      pinned  |-> \E n \in StoredTopics : DisplayOf(n) = shown /\ Pinned(n),
      ignored |-> \A n \in StoredTopics : DisplayOf(n) = shown => Ignored(n)]
        : shown \in {DisplayOf(n) : n \in StoredTopics}}

ListedTopics == {t \in MergedTopics : ~t.ignored}
ListedNames  == {t.name : t \in ListedTopics}

\* _find_topic takes the first topic that is shown as n or stored as n; the rows come in no
\* order.  A name that nothing has stands for itself.
Matching(n) == {t \in MergedTopics : t.name = n \/ n \in t.sources}
FoundTopics(n) ==
    IF Matching(n) # {} THEN Matching(n)
    ELSE {[name |-> n, sources |-> {n}, pinned |-> FALSE, ignored |-> FALSE]}

-----------------------------------------------------------------------------
(* Managing.                                                               *)

Unflagged(shown) == [display |-> shown, pinned |-> FALSE, ignored |-> FALSE]

\* _upsert_override for each of names: a new row takes the defaults, a row that is there keeps
\* the flags that are not given.
Upsert(names, shown, flags) ==
    override' = [n \in Names |->
        IF n \in names
        THEN flags[IF Flagged(n) THEN [override[n] EXCEPT !.display = shown] ELSE Unflagged(shown)]
        ELSE override[n]]

\* RenameTopicUseCase takes the name as a stored one, unlike pinning and hiding.
RenameTopic(n, shown) ==
    /\ Upsert({n}, shown, [o \in Override |-> o])
    /\ UNCHANGED <<topicsOf, tagsOf>>

MergeTopics(names, shown) ==
    /\ Cardinality(names \cup {shown}) >= 2
    /\ Upsert(names \cup {shown}, shown, [o \in Override |-> o])
    /\ UNCHANGED <<topicsOf, tagsOf>>

\* set_pinned and set_ignored, which undo each other.
SetPinned(n, pinned) ==
    /\ \E t \in FoundTopics(n) :
          Upsert(t.sources, t.name,
                 [o \in Override |-> [o EXCEPT !.pinned = pinned, !.ignored = @ /\ ~pinned]])
    /\ UNCHANGED <<topicsOf, tagsOf>>

\* Mutant: only the stored name is hidden, not those that were merged with it.
SetIgnored_OneName(n, ignored) ==
    /\ \E t \in FoundTopics(n) :
          Upsert({n}, t.name,
                 [o \in Override |-> [o EXCEPT !.ignored = ignored, !.pinned = @ /\ ~ignored]])
    /\ UNCHANGED <<topicsOf, tagsOf>>

SetIgnored(n, ignored) ==
    /\ \E t \in FoundTopics(n) :
          Upsert(t.sources, t.name,
                 [o \in Override |-> [o EXCEPT !.ignored = ignored, !.pinned = @ /\ ~ignored]])
    /\ UNCHANGED <<topicsOf, tagsOf>>

\* sync_topics: enrichment replaces the topics of a document by its first tags.
SyncTopics(d, names) ==
    /\ topicsOf' = [topicsOf EXCEPT ![d] = names]
    /\ tagsOf' = [tagsOf EXCEPT ![d] = @ \cup names]
    /\ UNCHANGED override

\* A tag added by hand is a topic only while the document has no others.
TagByHand(d, n) ==
    /\ tagsOf' = [tagsOf EXCEPT ![d] = @ \cup {n}]
    /\ UNCHANGED <<topicsOf, override>>

TopicsNext ==
    \/ \E n, shown \in Names : RenameTopic(n, shown)
    \/ \E names \in SUBSET Names, shown \in Names : MergeTopics(names, shown)
    \/ \E n \in Names, b \in BOOLEAN : SetPinned(n, b) \/ SetIgnored(n, b)
    \/ \E d \in TopicDocs, names \in SUBSET Names : SyncTopics(d, names)
    \/ \E d \in TopicDocs, n \in Names : TagByHand(d, n)

TopicsSpec == TopicsInit /\ [][TopicsNext]_topicVars

-----------------------------------------------------------------------------

\* A name means one topic when it is shown for itself, or for nothing but one renamed topic.
Plain(n) == n \in ListedNames /\ Cardinality(Matching(n)) = 1

\* What the owner does to a topic of the list is what the list shows next: a pinned topic is
\* there and pinned, a hidden one is gone, with all the stored names behind it, and a merged
\* one has the documents of all that were merged.  A name that means two topics, one by
\* display and one by origin, may act on either.
OwnerSeesEffect ==
    [][/\ \A n \in Names : (Plain(n) /\ SetPinned(n, TRUE)) =>
              \E t \in ListedTopics' : t.name \in {s.name : s \in Matching(n)} /\ t.pinned
       /\ \A n \in Names : (Plain(n) /\ SetIgnored(n, TRUE)) => n \notin ListedNames'
       /\ \A n, shown \in ListedNames \cap StoredTopics :
              MergeTopics({n}, shown) =>
                  \E t \in MergedTopics' :
                      t.name = shown /\ DocumentsOf({n, shown}) \subseteq DocumentsOf(t.sources)'
      ]_topicVars

=============================================================================
