------------------------------- MODULE Flashcards -------------------------------
(***************************************************************************)
(* GenerateFlashcardsUseCase: the cards a request makes of the documents   *)
(* in its scope.  It reads the documents and the questions that have cards *)
(* already, and stores what is new; nothing in the database keeps two      *)
(* requests from storing the same.  Study has what reviews do to a card.   *)
(***************************************************************************)
EXTENDS Naturals, Sequences, FiniteSets, SequencesExt

CONSTANTS
    Decks,         \* the documents, in the order a request takes them
    Suggestions,   \* the lists of questions a document may suggest
    NoQuestion,    \* a question of white space
    Makers,        \* bound: requests, each made once
    CardLimit      \* bound: the limit of a request, 20 in the code

ASSUME FlashcardsAssumption ==
    /\ Decks \in Seq(ToSet(Decks)) /\ IsInjective(Decks)
    /\ \A s \in Suggestions : s \in Seq(ToSet(s))
    /\ CardLimit \in Nat \ {0}

VARIABLES
    deck,      \* the documents: their status and what questions and answers come from
    cards,     \* the flashcards: document and question, and where the answer came from
    maker,     \* the requests
    doubled    \* history: a request stored while another one was between its steps

flashcardVars == <<deck, cards, maker, doubled>>

-----------------------------------------------------------------------------

DeckIds == ToSet(Decks)
NewMaker == [pc |-> "new", scope |-> <<>>, limit |-> 1, made |-> <<>>, stale |-> FALSE]

FlashcardsInit ==
    /\ deck \in [DeckIds -> [ready : BOOLEAN, suggested : Suggestions, summary : BOOLEAN,
                             content : {"nothing", "raw", "chunk"}]]
    /\ cards = <<>>
    /\ maker = [r \in Makers |-> NewMaker]
    /\ doubled = FALSE

\* The questions are compared in lower case, without white space around them.
Question(d, q) == [document |-> d, question |-> q]
Existing == {Question(c.document, c.question) : c \in ToSet(cards)}

\* The answer of a suggested question: the summary, the first chunk or the text.
AnswerOf(d) == IF deck[d].summary THEN "summary" ELSE deck[d].content

CardOf(d, q, answer) == [document |-> d, question |-> q, answer |-> answer]

\* build_flashcards_for_document: three suggested questions at most, one on the summary and
\* one on the first chunk, ...
CardCandidates(d) ==
    LET asked == deck[d].suggested IN
    [i \in 1..(IF Len(asked) < 3 THEN Len(asked) ELSE 3) |-> CardOf(d, asked[i], AnswerOf(d))]
    \o (IF deck[d].summary THEN <<CardOf(d, "idea", "summary")>> ELSE <<>>)
    \o (IF deck[d].content = "chunk" THEN <<CardOf(d, "remember", "chunk")>> ELSE <<>>)

\* ... each unless it is empty, or has a card, ...
Fits(c) == /\ c.question # NoQuestion /\ c.answer # "nothing"
           /\ Question(c.document, c.question) \notin Existing

\* ... or was taken just now.
CardsFor(d) ==
    {i \in DOMAIN CardCandidates(d) :
        /\ Fits(CardCandidates(d)[i])
        /\ \A j \in 1..(i - 1) : Fits(CardCandidates(d)[j]) =>
              CardCandidates(d)[j].question # CardCandidates(d)[i].question}

\* Where the cards of the scope's READY documents come from: the place of the document, and of
\* the candidate among its own.
CardPlaces(scope) ==
    {p \in (DOMAIN scope) \X (1..5) : deck[scope[p[1]]].ready /\ p[2] \in CardsFor(scope[p[1]])}
Earlier(p, q) == p[1] < q[1] \/ (p[1] = q[1] /\ p[2] < q[2])

\* They are made in that order, up to the limit.
Built(scope, most) ==
    {[i \in DOMAIN s |-> CardCandidates(scope[s[i][1]])[s[i][2]]] : s \in
        {t \in SeqOf(CardPlaces(scope), most) :
            /\ \A i, j \in DOMAIN t : i < j => Earlier(t[i], t[j])
            /\ \A i \in DOMAIN t : \A p \in CardPlaces(scope) : Earlier(p, t[i]) => p \in ToSet(t)
            /\ Len(t) = most \/ ToSet(t) = CardPlaces(scope)}}

\* A document that is named, or those of a topic, of a collection or all.
MakeCards(r, scope, most) ==
    /\ maker[r].pc = "new"
    /\ \E made \in Built(scope, most) :
          maker' = [maker EXCEPT ![r] = [pc |-> "built", scope |-> scope, limit |-> most,
                                         made |-> made, stale |-> FALSE]]
    /\ UNCHANGED <<deck, cards, doubled>>

StoreCards(r) ==
    /\ maker[r].pc = "built"
    /\ cards' = cards \o maker[r].made
    /\ doubled' = (doubled \/ maker[r].stale)
    /\ maker' = [x \in Makers |->
                    IF x = r THEN [maker[r] EXCEPT !.pc = "stored"]
                    ELSE IF maker[x].pc = "built" THEN [maker[x] EXCEPT !.stale = TRUE] ELSE maker[x]]
    /\ UNCHANGED deck

\* A request that fails stores nothing.
LoseCards(r) ==
    /\ maker[r].pc = "built"
    /\ maker' = [maker EXCEPT ![r].pc = "failed"]
    /\ UNCHANGED <<deck, cards, doubled>>

\* The enrichment finds a summary and questions, between two requests or during one.
EnrichDeck(d) ==
    /\ ~deck[d].summary
    /\ \E s \in Suggestions :
          deck' = [deck EXCEPT ![d].summary = TRUE, ![d].suggested = s]
    /\ UNCHANGED <<cards, maker, doubled>>

FlashcardsNext ==
    \/ \E r \in Makers, most \in 1..CardLimit :
          MakeCards(r, Decks, most) \/ \E d \in DeckIds : MakeCards(r, <<d>>, most)
    \/ \E r \in Makers : StoreCards(r) \/ LoseCards(r)
    \/ \E d \in DeckIds : EnrichDeck(d)

FlashcardsSpec == FlashcardsInit /\ [][FlashcardsNext]_flashcardVars

-----------------------------------------------------------------------------
(* Properties.                                                             *)

\* No question of a document is on two cards, unless two requests overlapped.  A request makes
\* as many cards as it may; when it makes fewer, every question of its READY documents that has
\* an answer has a card, until the enrichment finds others.
CardsAreNew ==
    /\ ~doubled => \A i, j \in DOMAIN cards :
          Question(cards[i].document, cards[i].question) = Question(cards[j].document, cards[j].question)
              => i = j
    /\ \A i \in DOMAIN cards : cards[i].question # NoQuestion /\ cards[i].answer # "nothing"
    /\ \A r \in Makers : maker[r].pc = "stored" =>
          /\ Len(maker[r].made) <= maker[r].limit
          /\ \A d \in ToSet(maker[r].scope) :
                Len(maker[r].made) < maker[r].limit /\ deck[d].ready /\ ~deck[d].summary =>
                   \A c \in ToSet(CardCandidates(d)) :
                      c.question # NoQuestion /\ c.answer # "nothing"
                          => Question(d, c.question) \in Existing

=============================================================================
