-------------------------------- MODULE Drafting --------------------------------
(***************************************************************************)
(* GenerateDraftUseCase: what a draft is written from.  The scope of the   *)
(* request is normalised, the query is asked, and when its answer uses no  *)
(* source the documents of the scope are read themselves, later, as they   *)
(* are by then.  Study has what becomes of the versions of a draft.        *)
(***************************************************************************)
EXTENDS Naturals, Sequences, FiniteSets, SequencesExt

CONSTANTS
    Materials,     \* the documents, the newest first
    Foreigner,     \* the one that is not the owner's
    DraftFolders, DraftTags,
    NoScope,       \* nothing was asked for
    FallbackLimit  \* max(limit, 8)

ASSUME DraftingAssumption ==
    /\ Materials \in Seq(ToSet(Materials)) /\ IsInjective(Materials)
    /\ FallbackLimit \in Nat \ {0}
    /\ NoScope \notin DraftFolders \cup DraftTags

VARIABLES
    material,   \* the documents: whether they are there and READY, have text, and their tag
    drafting    \* the request

draftingVars == <<material, drafting>>

-----------------------------------------------------------------------------

MaterialIds == ToSet(Materials)
ScopeTypes == {"all", "documents", "collection", "topic", "knowledge_gap"}

\* What DraftGenerateDTO says of the scope.  Where documents are named nobody looks at the
\* type and the gap.
AskedScopes == {a \in [type : ScopeTypes, documents : SUBSET MaterialIds,
                  folder : DraftFolders \cup {NoScope}, topic : DraftTags \cup {NoScope},
                  gap : BOOLEAN] :
              a.documents # {} => a.type = "all" /\ ~a.gap}

NotDrafting == [pc |-> "none", by |-> "none", scope |-> NoScope, sources |-> <<>>, gaps |-> FALSE]

DraftingInit ==
    /\ material \in [MaterialIds -> [ready : BOOLEAN, text : BOOLEAN,
                                     folder : DraftFolders \cup {NoScope},
                                     tag : DraftTags \cup {NoScope}]]
    /\ LET m == material[Foreigner] IN m.ready /\ m.text /\ m.folder # NoScope /\ m.tag # NoScope
    /\ drafting = NotDrafting

\* normalize_scope: what is asked for in detail wins over the type; the topic is a tag more.
ScopeType(a) ==
    CASE a.documents # {} -> "documents"
      [] a.documents = {} /\ a.type # "all" -> a.type
      [] a.documents = {} /\ a.type = "all" /\ a.folder # NoScope -> "collection"
      [] a.documents = {} /\ a.type = "all" /\ a.folder = NoScope /\ a.topic # NoScope -> "topic"
      [] a.documents = {} /\ a.type = "all" /\ a.folder = NoScope /\ a.topic = NoScope ->
             IF a.gap THEN "knowledge_gap" ELSE "all"

\* ... and a scope without what it is about is refused.
Complete(a) ==
    CASE ScopeType(a) = "documents"     -> a.documents # {}
      [] ScopeType(a) = "collection"    -> a.folder # NoScope
      [] ScopeType(a) = "topic"         -> a.topic # NoScope
      [] ScopeType(a) = "knowledge_gap" -> a.gap /\ a.topic # NoScope
      [] ScopeType(a) = "all"           -> TRUE

AskDraft(a) ==
    /\ drafting.pc = "none"
    /\ drafting' = [drafting EXCEPT !.pc = IF Complete(a) THEN "query" ELSE "refused", !.scope = a]
    /\ UNCHANGED material

Tagged(d) == drafting.scope.topic \in {NoScope, material[d].tag}
Filed(d)  == drafting.scope.folder \in {NoScope, material[d].folder}
InScope(d) == Tagged(d) /\ Filed(d) /\ drafting.scope.documents \in {{}, drafting.scope.documents \cup {d}}

\* draft_query_dto hands the whole scope to the query, which finds READY documents of the
\* owner (Answering); the sources of a draft are those its answer uses, parts of documents, of
\* which a document may have several.
QueryDraft(used) ==
    /\ drafting.pc = "query"
    /\ \A d \in ToSet(used) : d # Foreigner /\ material[d].ready /\ InScope(d)
    /\ drafting' = [drafting EXCEPT !.pc = IF used = <<>> THEN "fallback" ELSE "saved",
                                    !.by = "query", !.sources = used]
    /\ UNCHANGED material

\* The first documents of a set, as many as a request takes.
NotNewer(d, e) == \E i, j \in DOMAIN Materials : j <= i /\ Materials[i] = d /\ Materials[j] = e
Newest(S) == {d \in S : Cardinality({e \in S : NotNewer(d, e)}) <= FallbackLimit}

\* _fallback_sources: the documents that were named, or the newest READY ones of the
\* collection.  The tag is looked at after the limit.
Candidates ==
    IF drafting.scope.documents # {}
    THEN {d \in drafting.scope.documents : material[d].ready}
    ELSE Newest({d \in MaterialIds : d # Foreigner /\ material[d].ready /\ Filed(d)})

UsableMaterial == {d \in Candidates : Tagged(d) /\ material[d].text}

\* Each once, as many as it takes, in the order they were named in or the newest first.
FallbackSources ==
    {s \in SeqOf(UsableMaterial, FallbackLimit) :
        /\ IsInjective(s) /\ (Len(s) = FallbackLimit \/ ToSet(s) = UsableMaterial)
        /\ drafting.scope.documents = {} =>
              \A i, j \in DOMAIN s : i <= j => NotNewer(s[j], s[i])}

\* A document of somebody else, if it was named, ends the request.
FallbackDraft ==
    /\ drafting.pc = "fallback"
    /\ IF Foreigner \in drafting.scope.documents THEN drafting' = [drafting EXCEPT !.pc = "refused"]
       ELSE \E s \in FallbackSources :
               drafting' = [drafting EXCEPT !.pc = "saved", !.by = "fallback", !.sources = s,
                                            !.gaps = s = <<>>]
    /\ UNCHANGED material

\* Meanwhile a document becomes READY or is processed again.
MaterialTurns(d) ==
    /\ drafting.pc = "fallback"
    /\ material' = [material EXCEPT ![d].ready = ~@]
    /\ UNCHANGED drafting

DraftingNext ==
    \/ \E a \in AskedScopes : AskDraft(a)
    \/ \E n \in 0..2 : \E used \in [1..n -> MaterialIds] : QueryDraft(used)
    \/ FallbackDraft
    \/ \E d \in MaterialIds : MaterialTurns(d)

DraftingSpec == DraftingInit /\ [][DraftingNext]_draftingVars

-----------------------------------------------------------------------------
(* Properties.                                                             *)

\* A draft is written from READY documents of the owner in the scope that was asked for, each
\* once when they are read themselves, or says that there is too little: only when the newest
\* documents of the scope, at least, give nothing.  A collection asked for beside documents
\* binds the query alone.
DraftIsBacked ==
    drafting.pc = "saved" =>
        /\ drafting.gaps <=> drafting.sources = <<>>
        /\ drafting.by = "fallback" => IsInjective(drafting.sources)
        /\ \A d \in ToSet(drafting.sources) :
              /\ d # Foreigner /\ material[d].ready /\ Tagged(d)
              /\ drafting.scope.documents # {} => d \in drafting.scope.documents
              /\ drafting.scope.documents = {} => Filed(d)
        /\ drafting.gaps =>
              \A d \in MaterialIds \ {Foreigner} :
                  InScope(d) /\ material[d].ready /\ material[d].text =>
                     Cardinality({e \in MaterialIds : material[e].ready}) > FallbackLimit

=============================================================================
