------------------------------ MODULE Library -------------------------------
(***************************************************************************)
(* The documents of one owner: their tags by hand and by enrichment, which *)
(* of them are duplicates, and the public share of a collection.  Requests *)
(* and enrichments overlap; each is one transaction that reads first and   *)
(* writes at its end, without locks.  Requests that are over in an instant *)
(* are one step here.                                                      *)
(***************************************************************************)
EXTENDS Naturals, FiniteSets

CONSTANTS
    Papers,       \* documents
    Shelves,      \* collections
    Tags,
    Tasks,        \* bound: overlapping requests and enrichments
    MaxShares,    \* bound: shares of a collection that are active at a time
    Nothing

ASSUME LibraryAssumption ==
    /\ Nothing \notin Papers \cup Shelves
    /\ MaxShares \in Nat \ {0}

VARIABLES
    paper,        \* the documents
    shelves,      \* the collections that exist
    mark,         \* tags.auto: made by enrichment or claimed by the owner
    shares,       \* how many shares of a collection are active
    task,         \* overlapping requests and enrichments
    given,        \* history: tags the owner put on a document
    outdated      \* history: a task wrote what it had decided before another wrote

libraryVars == <<paper, shelves, mark, shares, task, given, outdated>>

-----------------------------------------------------------------------------

Paper == [live : BOOLEAN, tags : SUBSET Tags, vector : BOOLEAN, duplicate : BOOLEAN,
          original : Papers \cup {Nothing}]
Task  == [op : {"none", "tag", "enrich", "share"}, pc : {"read", "write"},
          on : Papers \cup Shelves \cup {Nothing}, tags : SUBSET Tags, drop : SUBSET Tags,
          claim : SUBSET Tags, fresh : SUBSET Tags, copy : Paper, stale : BOOLEAN]

LibraryTypeOK ==
    /\ paper \in [Papers -> Paper]
    /\ shelves \subseteq Shelves
    /\ mark \in [Tags -> {"absent", "auto", "manual"}]
    /\ shares \in [Shelves -> 0..MaxShares]
    /\ task \in [Tasks -> Task]
    /\ given \subseteq Papers \X Tags
    /\ outdated \in BOOLEAN

NewPaper == [live |-> TRUE, tags |-> {}, vector |-> FALSE, duplicate |-> FALSE,
             original |-> Nothing]
NoTask   == [op |-> "none", pc |-> "read", on |-> Nothing, tags |-> {}, drop |-> {},
             claim |-> {}, fresh |-> {}, copy |-> NewPaper, stale |-> FALSE]

LibraryInit ==
    /\ paper = [p \in Papers |-> NewPaper]
    /\ shelves = Shelves
    /\ mark = [t \in Tags |-> "absent"]
    /\ shares = [s \in Shelves |-> 0]
    /\ task = [k \in Tasks |-> NoTask]
    /\ given = {} /\ outdated = FALSE

\* DocumentEntity refuses a duplicate without an original: a row like that cannot be read, and
\* neither can a list that has it.
Sound(p)     == paper[p].duplicate => paper[p].original # Nothing
Readable(p)  == paper[p].live /\ Sound(p)
AllReadable  == \A p \in Papers : paper[p].live => Sound(p)

Idle(k) == task[k].op = "none"
At(k, op, pc) == task[k].op = op /\ task[k].pc = pc

\* Task k becomes r; what other tasks have decided about the same row is now old.
Written(k, r, on) ==
    task' = [x \in Tasks |-> IF x = k THEN r
                             ELSE [task[x] EXCEPT !.stale = @ \/ (~Idle(x) /\ task[x].on = on)]]

\* The end of task k: what it decided is written, or its transaction fails.
Ends(k) == /\ Written(k, NoTask, task[k].on)
           /\ outdated' = (outdated \/ task[k].stale)
Fails(k) == /\ task' = [task EXCEPT ![k] = NoTask]
            /\ UNCHANGED <<paper, shelves, mark, shares, given, outdated>>

-----------------------------------------------------------------------------
(* Tags by hand: add_manual_tags reads the tags, then adds what is missing *)
(* and claims the tags that enrichment had made.                           *)

\* The rows in tags that have to be made.  Their unique index refuses one that has come
\* meanwhile, and so does the key of document_tags.
Unmade(tags) == {t \in tags : mark[t] = "absent"}
Unhindered(k) ==
    /\ \A t \in task[k].fresh : mark[t] = "absent"
    /\ paper[task[k].on].live /\ task[k].tags \cap paper[task[k].on].tags = {}

TagRead(k, p, tags) ==
    /\ Idle(k) /\ Readable(p) /\ tags # {}
    /\ task' = [task EXCEPT ![k] = [NoTask EXCEPT !.op = "tag", !.pc = "write", !.on = p,
                    !.claim = tags, !.fresh = Unmade(tags), !.tags = tags \ paper[p].tags]]
    /\ UNCHANGED <<paper, shelves, mark, shares, given, outdated>>

TagWrite(k) ==
    /\ At(k, "tag", "write")
    /\ LET p == task[k].on IN
       IF Unhindered(k)
       THEN /\ paper' = [paper EXCEPT ![p].tags = @ \cup task[k].tags]
            /\ mark' = [t \in Tags |-> IF t \in task[k].claim THEN "manual" ELSE mark[t]]
            /\ given' = given \cup ({p} \X task[k].claim)
            /\ Ends(k)
            /\ UNCHANGED <<shelves, shares>>
       ELSE Fails(k)

-----------------------------------------------------------------------------
(* Enrichment works for minutes on the copy of the row it read first.      *)

EnrichRead(k, p) ==
    /\ Idle(k) /\ Readable(p)
    /\ task' = [task EXCEPT ![k] = [NoTask EXCEPT !.op = "enrich", !.on = p,
                    !.copy = [paper[p] EXCEPT !.tags = {}]]]
    /\ UNCHANGED <<paper, shelves, mark, shares, given, outdated>>

\* Mutant: enrichment replaces all the tags.
KeptTags_None(p) == {}

\* sync_auto_tags: the tags that stay are those by hand.
KeptTags(p) == {t \in paper[p].tags : mark[t] = "manual"}

\* The document has an embedding from here on; the mark of an earlier enrichment is never
\* cleared.
Enriched(copy, original) ==
    IF original = Nothing THEN [copy EXCEPT !.vector = TRUE]
    ELSE [copy EXCEPT !.vector = TRUE, !.duplicate = TRUE, !.original = original]

\* DuplicateDetector takes any similar document with an embedding, the older or the younger.
EnrichDecide(k, tags, original) ==
    /\ At(k, "enrich", "read")
    /\ LET p == task[k].on IN
       IF Readable(p) /\ AllReadable
       THEN /\ original # Nothing =>
                  original # p /\ paper[original].live /\ paper[original].vector
            /\ task' = [task EXCEPT ![k] = [task[k] EXCEPT !.pc = "write", !.stale = FALSE,
                   !.tags = tags \ paper[p].tags, !.fresh = Unmade(tags),
                   !.drop = paper[p].tags \ (KeptTags(p) \cup tags),
                   !.copy = Enriched(task[k].copy, original)]]
            /\ UNCHANGED <<paper, shelves, mark, shares, given, outdated>>
       ELSE Fails(k)

\* The copy goes back, and the rows of the tags change by the difference that was decided.  A
\* row that has gone meanwhile makes it all fail, like an original that is no more.
Possible(k) ==
    /\ Unhindered(k)
    /\ task[k].drop \subseteq paper[task[k].on].tags
    /\ task[k].copy.original # Nothing => paper[task[k].copy.original].live

EnrichWrite(k) ==
    /\ At(k, "enrich", "write")
    /\ LET p == task[k].on IN
       IF Possible(k)
       THEN /\ paper' = [paper EXCEPT ![p] =
                  [task[k].copy EXCEPT !.tags = (paper[p].tags \cup task[k].tags) \ task[k].drop]]
            /\ mark' = [t \in Tags |-> IF t \in task[k].fresh
                                       THEN "auto" ELSE mark[t]]
            /\ Ends(k)
            /\ UNCHANGED <<shelves, shares, given>>
       ELSE Fails(k)

-----------------------------------------------------------------------------
(* Documents and collections.                                              *)

\* DeleteDocumentUseCase and BulkDeleteDocumentsUseCase.  The database clears duplicate_of_id
\* of the duplicates and leaves is_duplicate as it is.
RemovePapers(gone) ==
    /\ gone # {} /\ \A p \in gone : Readable(p)
    /\ paper' = [p \in Papers |->
           IF p \in gone THEN [NewPaper EXCEPT !.live = FALSE]
           ELSE IF paper[p].original \in gone THEN [paper[p] EXCEPT !.original = Nothing]
           ELSE paper[p]]
    /\ given' = {g \in given : g[1] \notin gone}
    /\ UNCHANGED <<shelves, mark, shares, task, outdated>>

\* DeleteCollectionUseCase: its documents stay, its shares do not.
RemoveShelf(s) ==
    /\ s \in shelves
    /\ shelves' = shelves \ {s}
    /\ shares' = [shares EXCEPT ![s] = 0]
    /\ UNCHANGED <<paper, mark, task, given, outdated>>

-----------------------------------------------------------------------------
(* Shares: a collection has one that is active, or none.                   *)

\* CreateCollectionShareUseCase returns the active share if it finds one; with two it raises.
ShareRead(k, s) ==
    /\ Idle(k) /\ s \in shelves /\ shares[s] = 0
    /\ task' = [task EXCEPT ![k] = [NoTask EXCEPT !.op = "share", !.pc = "write", !.on = s]]
    /\ UNCHANGED <<paper, shelves, mark, shares, given, outdated>>

ShareWrite(k) ==
    /\ At(k, "share", "write")
    /\ LET s == task[k].on IN
       IF s \in shelves /\ shares[s] < MaxShares
       THEN /\ shares' = [shares EXCEPT ![s] = @ + 1]
            /\ Ends(k)
            /\ UNCHANGED <<paper, shelves, mark, given>>
       ELSE Fails(k)

\* RevokeCollectionShareUseCase reads with scalar_one_or_none, which raises when there are two.
Revoke(s) ==
    /\ shares[s] = 1
    /\ shares' = [shares EXCEPT ![s] = 0]
    /\ UNCHANGED <<paper, shelves, mark, task, given, outdated>>

PapersNext ==
    \/ \E k \in Tasks :
          \/ \E p \in Papers, tags \in SUBSET Tags : TagRead(k, p, tags)
          \/ TagWrite(k)
          \/ \E p \in Papers : EnrichRead(k, p)
          \/ \E tags \in SUBSET Tags, o \in Papers \cup {Nothing} : EnrichDecide(k, tags, o)
          \/ EnrichWrite(k)
    \/ \E gone \in SUBSET Papers : RemovePapers(gone)

ShelvesNext ==
    \/ \E k \in Tasks : ShareWrite(k) \/ \E s \in Shelves : ShareRead(k, s)
    \/ \E s \in Shelves : RemoveShelf(s) \/ Revoke(s)

LibraryNext == PapersNext \/ ShelvesNext

LibrarySpec == LibraryInit /\ [][LibraryNext]_libraryVars

-----------------------------------------------------------------------------

\* A tag the owner put on a document stays on it, whatever enrichment finds later: the flag of
\* a tag belongs to the owner and not to the document, so claiming it once must be enough.
\* Only a task that decided before another wrote may lose one.
ManualTagsStay ==
    ~outdated => \A g \in given : g[2] \in paper[g[1]].tags

\* A collection has at most one active share, so that it can be revoked, unless two requests
\* made one at the same time: nothing but the reading before it prevents that.
ShareIsRevocable == ~outdated => \A s \in Shelves : shares[s] <= 1

\* What DocumentEntity demands of every row it is made from: a duplicate has an original.
DuplicatesHaveOriginals == AllReadable

\* What the owner has decided about documents and collections stands and can be taken back.
OwnerDecides == ManualTagsStay /\ ShareIsRevocable

=============================================================================
