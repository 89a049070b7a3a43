------------------------------ MODULE Chunker -------------------------------
(***************************************************************************)
(* SimpleTextChunker: the text of a document is cut into chunks of at most *)
(* max_chunk_chars.  Paragraphs that follow each other share a chunk while *)
(* they fit; one that is longer is cut at white space.  A span [from, to)  *)
(* holds the positions from .. to - 1 of the text.                         *)
(***************************************************************************)
EXTENDS Integers, Sequences, FiniteSets

CONSTANTS
    ChunkTexts,    \* the texts that are cut
    MaxChunkChars  \* bound: the largest max_chunk_chars

\* A letter, a blank, a line break, and white space that is neither.
Chars == {"x", " ", "n", "t"}

ASSUME ChunkerAssumption == ChunkTexts \subseteq Seq(Chars) /\ MaxChunkChars \in Nat \ {0}

VARIABLES
    text,       \* what is cut
    limit,      \* max_chunk_chars
    place,      \* everything before this position has been looked at
    span,       \* current_start and current_end: the chunk that is being collected
    long,       \* the end of the long paragraph that is being cut, or 0
    chunks      \* the chunks

chunkerVars == <<text, limit, place, span, long, chunks>>

-----------------------------------------------------------------------------

Spans == [from : Nat, to : Nat]
None  == [from |-> 0, to |-> 0]

ChunkerTypeOK ==
    /\ text \in Seq(Chars)
    /\ limit \in Nat \ {0}
    /\ place \in 1..(Len(text) + 1)
    /\ span \in Spans
    /\ long \in 0..(Len(text) + 1)
    /\ chunks \in Seq(Spans)

ChunkerInit ==
    /\ text \in ChunkTexts
    /\ limit \in 1..MaxChunkChars
    /\ place = 1 /\ span = None /\ long = 0 /\ chunks = <<>>

Letter(i) == text[i] = "x"
TextEnd   == Len(text) + 1

\* The ends of a nonempty set of positions.
First(S) == CHOOSE i \in S : \A j \in S : i <= j
Latest(S) == CHOOSE i \in S : \A j \in S : i >= j

-----------------------------------------------------------------------------
(* _paragraph_spans: a paragraph goes from a letter to a letter, and no    *)
(* line in between is blank.                                               *)

BlankLineIn(i, j) ==
    \E a, b \in i..(j - 1) : /\ a < b /\ text[a] = "n" /\ text[b] = "n"
                             /\ \A k \in a..b : ~Letter(k)

\* The next paragraph at or after place p, when there is one.
LettersFrom(p) == {i \in p..Len(text) : Letter(i)}

ParagraphAt(p) ==
    LET first == First(LettersFrom(p)) IN
    [from |-> first,
     to   |-> Latest({i \in LettersFrom(first) : ~BlankLineIn(first, i)}) + 1]

-----------------------------------------------------------------------------

Flushed == IF span = None THEN chunks ELSE Append(chunks, span)

\* A paragraph that fits begins a chunk, or ...
Begin ==
    /\ long = 0 /\ LettersFrom(place) # {}
    /\ LET p == ParagraphAt(place) IN
       /\ p.to - p.from <= limit
       /\ span = None \/ p.to - span.from > limit
       /\ span' = p /\ place' = p.to
    /\ chunks' = Flushed
    /\ UNCHANGED <<text, limit, long>>

\* ... joins the one before it.
Join ==
    /\ long = 0 /\ LettersFrom(place) # {}
    /\ LET p == ParagraphAt(place) IN
       /\ span # None /\ p.to - p.from <= limit /\ p.to - span.from <= limit
       /\ span' = [span EXCEPT !.to = p.to] /\ place' = p.to
    /\ UNCHANGED <<text, limit, long, chunks>>

\* One that does not fit is cut by _split_long_span.
BeginLong ==
    /\ long = 0 /\ LettersFrom(place) # {}
    /\ LET p == ParagraphAt(place) IN
       /\ p.to - p.from > limit
       /\ place' = p.from /\ long' = p.to
    /\ chunks' = Flushed /\ span' = None
    /\ UNCHANGED <<text, limit>>

\* White space is skipped; the piece ends at the last blank or line break that is near enough,
\* or at the limit, without the white space before that.
Start(p) == First({i \in p..long : i = long \/ Letter(i)})

Split(p) ==
    LET near == IF p + limit < long THEN p + limit ELSE long
        gaps == {i \in (p + 1)..near : text[i] \in {" ", "n"}}
    IN IF near < long /\ gaps # {} THEN Latest(gaps) ELSE near

\* Mutant: the end is taken for the last position.
PieceEnd_Short(p) == Latest({i \in p..(Split(p) - 1) : Letter(i)})

PieceEnd(p) == Latest({i \in p..(Split(p) - 1) : Letter(i)}) + 1

Cut ==
    /\ long # 0 /\ Start(place) < long
    /\ LET from == Start(place) IN
       /\ chunks' = Append(chunks, [from |-> from, to |-> PieceEnd(from)])
       /\ place' = PieceEnd(from)
    /\ UNCHANGED <<text, limit, span, long>>

EndLong ==
    /\ long # 0 /\ Start(place) = long
    /\ place' = long /\ long' = 0
    /\ UNCHANGED <<text, limit, span, chunks>>

Done == long = 0 /\ LettersFrom(place) = {}

Finish ==
    /\ Done /\ (span # None \/ place < TextEnd)
    /\ chunks' = Flushed /\ span' = None /\ place' = TextEnd
    /\ UNCHANGED <<text, limit, long>>

ChunkerNext == Begin \/ Join \/ BeginLong \/ Cut \/ EndLong \/ Finish

ChunkerSpec     == ChunkerInit /\ [][ChunkerNext]_chunkerVars
ChunkerFairSpec == ChunkerSpec /\ WF_chunkerVars(ChunkerNext)

-----------------------------------------------------------------------------
(* A PDF: its pages are joined by an empty line, and chunks get the pages  *)
(* whose places in the text are found again by adding up their lengths.    *)

\* Where pages may have been joined; others of these empty lines are inside a page.
Joints == {i \in 2..(Len(text) - 2) : /\ text[i] = "n" /\ text[i + 1] = "n"
                                     /\ Letter(i - 1) /\ Letter(i + 2)}

\* The page of a position, and the lengths of the pages, when these are the joints.
PageAt(joints, i) == 1 + Cardinality({j \in joints : j < i})
PageLength(joints, n) ==
    Cardinality({i \in DOMAIN text : PageAt(joints, i) = n /\ i \notin joints /\ i - 1 \notin joints})

Gap == 2

\* _build_page_ranges.
PageRange(joints, n) ==
    LET start[k \in 1..n] == IF k = 1 THEN 1 ELSE start[k - 1] + PageLength(joints, k - 1) + Gap
    IN [from |-> start[n], to |-> start[n] + PageLength(joints, n)]

\* _page_number_for_span: the first page it meets, or else the last.
PageNumber(s, joints) ==
    LET pages == 1..(Cardinality(joints) + 1)
        met   == {n \in pages : s.from < PageRange(joints, n).to /\ s.to > PageRange(joints, n).from}
    IN IF met = {} THEN Latest(pages) ELSE First(met)

-----------------------------------------------------------------------------

\* However the text is broken up, its chunks keep within the limit, follow one another without
\* repeating anything, and hold every letter that has been passed, so that no sentence is out
\* of reach of a search.
LettersAreCovered ==
    /\ \A i \in DOMAIN chunks : chunks[i].from < chunks[i].to /\ chunks[i].to - chunks[i].from <= limit
    /\ \A i \in 2..Len(chunks) : chunks[i - 1].to <= chunks[i].from
    /\ \A k \in 1..(place - 1) : Letter(k) =>
          \/ span.from <= k /\ k < span.to
          \/ \E i \in DOMAIN chunks : chunks[i].from <= k /\ k < chunks[i].to

\* The page a chunk is said to be on is the one it begins on, however the pages were joined and
\* wherever the text was cut.
PagesFollowChunks ==
    \A joints \in SUBSET Joints : \A i \in DOMAIN chunks :
        PageNumber(chunks[i], joints) = PageAt(joints, chunks[i].from)

\* A search can find every word, and names the page where it is.
ChunksCoverText == LettersAreCovered /\ PagesFollowChunks

=============================================================================
