----------------------------- MODULE Extraction -----------------------------
(***************************************************************************)
(* What becomes of the source of a document before it is stored: the       *)
(* reading of a picture by ImageExtractor (its text, and the boxes and     *)
(* lines of a diagram), and the vectors of texts, which                    *)
(* CachedEmbeddingProvider keeps in Redis for all jobs and requests.       *)
(***************************************************************************)
EXTENDS Integers, Sequences, FiniteSets

CONSTANTS
    Width, Height,     \* bounds: the size of a picture
    Pictures,          \* the dark pixels of the pictures that are read
    MinWidth, MinHeight, MinArea, MaxFill, MinBorder, MinLength, Close,
                       \* 35, 20, 600, 35 %, 25 %, 30 and 2 in the code
    Pieces,            \* texts to embed
    Callers,           \* jobs and requests that embed texts
    ListLength,        \* bound: texts of one call
    Missing

ASSUME ExtractionAssumption ==
    /\ {Width, Height, MinWidth, MinHeight, MinArea, MaxFill, MinBorder, MinLength, Close} \subseteq Nat
    /\ Pictures \subseteq SUBSET ((1..Width) \X (1..Height))
    /\ ListLength \in Nat /\ Missing \notin Pieces

VARIABLES
    picture,    \* the dark pixels of the picture after its preprocessing
    ocr,        \* how far it has been read, and in which language
    visited,    \* _connected_dark_components: pixels that are on the stack or were
    stack,      \* ... and those that are to be popped
    area,       \* ... the bounds and the number of pixels of the current component
    areas,      \* ... the components that are complete
    embedded,   \* Redis: "emb:" keys; the vector of a text is written as the text
    call        \* calls of embed_texts

pictureVars == <<picture, ocr, visited, stack, area, areas>>
vectorVars  == <<embedded, call>>
extractionVars == <<pictureVars, vectorVars>>

-----------------------------------------------------------------------------

Pixels  == (1..Width) \X (1..Height)
NoArea  == [left |-> Width, top |-> Height, right |-> 1, bottom |-> 1, count |-> 0]
NewCall == [pc |-> "new", texts |-> <<>>, at |-> 1, vectors |-> <<>>, misses |-> <<>>]

ExtractionInit ==
    /\ picture \in Pictures
    /\ ocr = [pc |-> "load", language |-> "own"]
    /\ visited = {} /\ stack = <<>> /\ area = NoArea /\ areas = <<>>
    /\ embedded = [t \in Pieces |-> Missing]
    /\ call = [c \in Callers |-> NewCall]

-----------------------------------------------------------------------------
(* _ocr_image: when Tesseract fails on the text or on the word boxes, all  *)
(* is read again in English, unless that was the language.  An empty text  *)
(* or a second failure ends the extraction.                                *)

ReadText ==
    /\ ocr.pc = "load"
    /\ \/ ocr' = [ocr EXCEPT !.pc = "scan"]
       \/ ocr.language = "own" /\ ocr' = [ocr EXCEPT !.language = "eng"]
       \/ ocr' = [ocr EXCEPT !.pc = "failed"]
    /\ UNCHANGED <<picture, visited, stack, area, areas, vectorVars>>

\* The pixels next to p, in the order of the loop.
Around(p) == << <<p[1] - 1, p[2]>>, <<p[1] + 1, p[2]>>, <<p[1], p[2] - 1>>, <<p[1], p[2] + 1>> >>

\* Rows from top to bottom, and in them from left to right.
Before(p, q) == p[2] < q[2] \/ (p[2] = q[2] /\ p[1] < q[1])

BeginArea ==
    /\ ocr.pc = "scan" /\ stack = <<>> /\ area = NoArea
    /\ \E p \in picture \ visited :
          /\ \A q \in picture \ visited : p = q \/ Before(p, q)
          /\ stack' = <<p>> /\ visited' = visited \cup {p}
    /\ UNCHANGED <<picture, ocr, area, areas, vectorVars>>

\* Mutant: a pixel is marked when it is popped, so that it may be pushed twice.
Marked_Late(seen, pushed) == seen

\* A pixel is marked as visited when it is pushed.
Marks(seen, pushed) == seen \cup pushed

\* What is pushed for the k-th of the pixels next to p.
Pushed(p, k) == IF Around(p)[k] \in picture \ visited THEN <<Around(p)[k]>> ELSE <<>>

PopPixel ==
    /\ stack # <<>>
    /\ LET p    == stack[Len(stack)]
           next == Pushed(p, 1) \o Pushed(p, 2) \o Pushed(p, 3) \o Pushed(p, 4)
       IN /\ stack' = SubSeq(stack, 1, Len(stack) - 1) \o next
          /\ visited' = Marks(visited \cup {p}, {next[i] : i \in DOMAIN next})
          /\ area' = [left   |-> IF p[1] < area.left THEN p[1] ELSE area.left,
                      top    |-> IF p[2] < area.top THEN p[2] ELSE area.top,
                      right  |-> IF p[1] > area.right THEN p[1] ELSE area.right,
                      bottom |-> IF p[2] > area.bottom THEN p[2] ELSE area.bottom,
                      count  |-> area.count + 1]
    /\ UNCHANGED <<picture, ocr, areas, vectorVars>>

EndArea ==
    /\ stack = <<>> /\ area # NoArea
    /\ areas' = Append(areas, area) /\ area' = NoArea
    /\ UNCHANGED <<picture, ocr, visited, stack, vectorVars>>

EndScan ==
    /\ ocr.pc = "scan" /\ stack = <<>> /\ area = NoArea /\ picture \subseteq visited
    /\ ocr' = [ocr EXCEPT !.pc = "done"]
    /\ UNCHANGED <<picture, visited, stack, area, areas, vectorVars>>

-----------------------------------------------------------------------------
(* The boxes and lines of a diagram, from the components and the pixels.   *)

Wide(a) == a.right - a.left + 1
High(a) == a.bottom - a.top + 1

\* Corners are counted for both of their sides.
DarkBorder(a) ==
    Cardinality({p \in picture : p[1] \in a.left..a.right /\ p[2] = a.top})
  + Cardinality({p \in picture : p[1] \in a.left..a.right /\ p[2] = a.bottom})
  + Cardinality({p \in picture : p[2] \in a.top..a.bottom /\ p[1] = a.left})
  + Cardinality({p \in picture : p[2] \in a.top..a.bottom /\ p[1] = a.right})

Candidate(a) ==
    /\ Wide(a) >= MinWidth /\ High(a) >= MinHeight /\ Wide(a) * High(a) >= MinArea
    /\ 100 * a.count <= MaxFill * Wide(a) * High(a)
    /\ 100 * DarkBorder(a) >= MinBorder * 2 * (Wide(a) + High(a))

Least(S) == CHOOSE x \in S : \A y \in S : x <= y
Most(S)  == CHOOSE x \in S : \A y \in S : x >= y

\* More than three quarters of the smaller one.
Overlap(a, b) ==
    LET w == Least({a.right, b.right}) - Most({a.left, b.left}) + 1
        h == Least({a.bottom, b.bottom}) - Most({a.top, b.top}) + 1
    IN w > 0 /\ h > 0 /\ 4 * w * h > 3 * Least({Wide(a) * High(a), Wide(b) * High(b)})

\* _merge_overlapping_rectangles and _dedupe_segments: each is kept unless it is like one that
\* comes before it and is kept.
Thinned(S, Comes(_, _), Alike(_, _)) ==
    LET kept[x \in S] == \A y \in S : Comes(y, x) /\ Alike(x, y) => ~kept[y]
    IN {x \in S : kept[x]}

\* The order of the boxes, which are the numbers of their components.
FirstBox(i, j) ==
    LET a == areas[i]
        b == areas[j]
    IN \/ Before(<<a.left, a.top>>, <<b.left, b.top>>)
       \/ a.left = b.left /\ a.top = b.top /\ i < j
Overlapping(i, j) == Overlap(areas[i], areas[j])

DiagramBoxes == Thinned({i \in DOMAIN areas : Candidate(areas[i])}, FirstBox, Overlapping)

\* A run of dark pixels, as long as it goes, along a row or a column.
Runs(along) ==
    LET Last  == IF along = "horizontal" THEN Width ELSE Height
        Dark(k, line) == (IF along = "horizontal" THEN <<k, line>> ELSE <<line, k>>) \in picture
    IN {s \in [along : {along}, line : 1..(Width + Height), from : 1..Last, to : 1..Last] :
           /\ s.to - s.from + 1 >= MinLength
           /\ \A k \in s.from..s.to : Dark(k, s.line)
           /\ ~Dark(s.from - 1, s.line) /\ ~Dark(s.to + 1, s.line)}

Near(i, j) == i - j <= Close /\ j - i <= Close
SameLine(s, t) == Near(s.line, t.line) /\ Near(s.from, t.from) /\ Near(s.to, t.to)

FirstLine(s, t) ==
    IF s.along = "horizontal" THEN Before(<<s.from, s.line>>, <<t.from, t.line>>)
                              ELSE Before(<<s.line, s.from>>, <<t.line, t.from>>)

Lines(along) == Thinned(Runs(along), FirstLine, SameLine)

\* Four times the square of the distance to the centre of the box, which is rounded down.
Distance(i, x, y) ==
    LET dx == areas[i].left + Wide(areas[i]) \div 2 - x
        dy == areas[i].top + High(areas[i]) \div 2 - y
    IN 4 * (dx * dx + dy * dy)

\* Within one and a half times the longer side of the box.
NearEnough(i, x, y) ==
    LET side == Most({Wide(areas[i]), High(areas[i])}) IN Distance(i, x, y) <= 9 * side * side

\* The nearest of the boxes that are near enough, and of those the first, if any.
NearestBox(boxes, x, y) ==
    {i \in boxes : /\ NearEnough(i, x, y)
                   /\ \A j \in boxes \ {i} : NearEnough(j, x, y) =>
                         \/ Distance(i, x, y) < Distance(j, x, y)
                         \/ Distance(i, x, y) = Distance(j, x, y) /\ FirstBox(i, j)}

\* A connector joins the boxes at its two ends; each pair counts once.
Joined(boxes, s) ==
    IF s.along = "horizontal"
    THEN NearestBox(boxes, s.from, s.line) \X NearestBox(boxes, s.to, s.line)
    ELSE NearestBox(boxes, s.line, s.from) \X NearestBox(boxes, s.line, s.to)

Relationships ==
    LET boxes == DiagramBoxes IN
    {e \in boxes \X boxes :
        e[1] # e[2] /\ \E s \in Lines("horizontal") \cup Lines("vertical") : e \in Joined(boxes, s)}

PictureNext == ReadText \/ BeginArea \/ PopPixel \/ EndArea \/ EndScan

-----------------------------------------------------------------------------
(* embed_texts: the keys are looked up one after the other, the provider   *)
(* is asked for those that are missing, and each is stored with a time to  *)
(* live.  A text is embedded anew by every call that misses it.            *)

Embed(c, texts) ==
    /\ call[c].pc = "new"
    /\ call' = [call EXCEPT ![c] = [NewCall EXCEPT !.pc = "look", !.texts = texts]]
    /\ UNCHANGED <<pictureVars, embedded>>

LookUp(c) ==
    /\ call[c].pc = "look"
    /\ LET i     == call[c].at
           found == embedded[call[c].texts[i]]
       IN call' = [call EXCEPT
             ![c].vectors = Append(@, found),
             ![c].misses = IF found = Missing THEN Append(@, i) ELSE @,
             ![c].at = IF i = Len(call[c].texts) THEN 1 ELSE i + 1,
             ![c].pc = IF i = Len(call[c].texts) THEN "ask" ELSE "look"]
    /\ UNCHANGED <<pictureVars, embedded>>

\* The answers come in the order of the misses; each belongs where its text is.
Place(misses, k) == misses[k]

Filled(c) ==
    LET m == call[c].misses IN
    [i \in DOMAIN call[c].texts |->
        IF \E k \in DOMAIN m : Place(m, k) = i
        THEN call[c].texts[m[CHOOSE k \in DOMAIN m : Place(m, k) = i]]
        ELSE call[c].vectors[i]]

\* A failure of the provider ends the call.
AskProvider(c) ==
    /\ call[c].pc = "ask"
    /\ \/ call' = [call EXCEPT ![c].vectors = Filled(c),
                               ![c].pc = IF call[c].misses = <<>> THEN "done" ELSE "store"]
       \/ call[c].misses # <<>> /\ call' = [call EXCEPT ![c] = [NewCall EXCEPT !.pc = "failed"]]
    /\ UNCHANGED <<pictureVars, embedded>>

StoreVector(c) ==
    /\ call[c].pc = "store"
    /\ LET i == call[c].misses[call[c].at] IN
       /\ embedded' = [embedded EXCEPT ![call[c].texts[i]] = call[c].vectors[i]]
       /\ call' = [call EXCEPT
             ![c].at = @ + 1,
             ![c].pc = IF call[c].at = Len(call[c].misses) THEN "done" ELSE "store"]
    /\ UNCHANGED pictureVars

VectorLapses(t) ==
    /\ embedded[t] # Missing
    /\ embedded' = [embedded EXCEPT ![t] = Missing]
    /\ UNCHANGED <<pictureVars, call>>

VectorsNext ==
    \/ \E c \in Callers : \/ \E n \in 1..ListLength : \E texts \in [1..n -> Pieces] : Embed(c, texts)
                          \/ LookUp(c) \/ AskProvider(c) \/ StoreVector(c)
    \/ \E t \in Pieces : VectorLapses(t)

ExtractionNext == PictureNext \/ VectorsNext
ExtractionSpec == ExtractionInit /\ [][ExtractionNext]_extractionVars

-----------------------------------------------------------------------------

\* The component of p, as it should be: grown from p until nothing is added.
Spread(S) == S \cup {q \in picture : \E k \in 1..4 : Around(q)[k] \in S}

Whole(p) ==
    LET grown[i \in 0..Cardinality(picture)] ==
          IF i = 0 THEN {p} ELSE Spread(grown[i - 1])
    IN grown[Cardinality(picture)]

BoundsOf(S) == [left  |-> Least({q[1] : q \in S}), top    |-> Least({q[2] : q \in S}),
                right |-> Most({q[1] : q \in S}),  bottom |-> Most({q[2] : q \in S}),
                count |-> Cardinality(S)]

\* Every component of the picture is found, once and whole, whatever its shape: a box of a
\* diagram is neither split nor counted twice, and its fill ratio is that of its pixels.  A
\* relationship joins boxes that do not touch each other: a line that is drawn up to both of
\* them makes one component of the three and joins nothing.
AreasAreWhole ==
    ocr.pc = "done" =>
        LET components == {Whole(p) : p \in picture} IN
        /\ Len(areas) = Cardinality(components)
        /\ {areas[i] : i \in DOMAIN areas} = {BoundsOf(S) : S \in components}
        /\ \A e \in Relationships : \E S, T \in components :
              S # T /\ BoundsOf(S) = areas[e[1]] /\ BoundsOf(T) = areas[e[2]]

\* A call that ends has the vector of each text in its place, although texts repeat, and other
\* calls store and keys lapse while its keys are looked up one after the other.
VectorsFollowTexts ==
    \A c \in Callers : call[c].pc = "done" => call[c].vectors = call[c].texts

\* What is stored of a source is what the source holds.
ExtractionIsExact == AreasAreWhole /\ VectorsFollowTexts

=============================================================================
