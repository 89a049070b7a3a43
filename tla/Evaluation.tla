------------------------------ MODULE Evaluation -------------------------------
(***************************************************************************)
(* scripts/run_live_eval.py: it seeds collections and documents through    *)
(* the public API of a running system, asks its cases, scores the sources  *)
(* of the answers and removes what it seeded.  Any request may fail, with  *)
(* or without its effect.  scripts/run_eval_harness.py scores the same     *)
(* answers by thresholds of its own.                                       *)
(***************************************************************************)
EXTENDS Naturals, Sequences, FiniteSets, SequencesExt

CONSTANTS
    Seeds,        \* the dataset: for each collection, "text" or "noise" for each document
    Attempts,     \* attempts of _request_with_retry
    Foreign,      \* a source that was not seeded
    MaxShown,     \* bound: sources of an answer
    MaxFailures   \* bound: requests that fail

\* A source of another collection is none of the tuples that stand for what is seeded, and there
\* are not so many cases that one of them is lost in four decimals.
ASSUME EvaluationAssumption ==
    /\ Seeds \in Seq(Seq({"text", "noise"})) /\ Seeds # <<>> /\ Len(Seeds) < 2 * 10000
    /\ Attempts \in Nat \ {0} /\ Foreign \notin Seq(Nat)
    /\ MaxShown \in Nat /\ MaxFailures \in Nat

VARIABLES
    script,       \* where the script is: what it does, for which document, the how manieth time
    keep,         \* --keep-seed
    server,       \* what the system holds of this run: collections <<c>>, documents <<c, d, n>>
    context,      \* what LiveEvalContext knows of it
    unanswered,   \* history: made by requests that failed all the same
    unremoved,    \* history: whose removal failed or was never asked for
    cases,        \* the cases that were asked, with what came back
    failures       \* how much of the bound is used up

evaluationVars == <<script, keep, server, context, unanswered, unremoved, cases, failures>>

-----------------------------------------------------------------------------
(* Requests.                                                               *)

\* A request had its effect or not; it raises RuntimeError, which is transient or not, or,
\* when the answer is late, the TimeoutError that ApiClient.request does not convert.
Errors   == {"transient", "final", "late"}
Outcome  == [effect : BOOLEAN, error : Errors] \cup {[effect |-> TRUE, error |-> "none"]}
Errs(o) == o.error # "none"
Ask(o)   == IF Errs(o) THEN failures < MaxFailures /\ failures' = failures + 1
                        ELSE UNCHANGED failures

ScriptAt(pc)   == script.pc = pc
Here     == <<script.folder>>
Document == <<script.folder, script.item, script.try>>
ScriptGoes(pc) == script' = [script EXCEPT !.pc = pc, !.try = 1]

\* What a request that should make x leaves behind.
Makes(o, x) ==
    /\ server' = IF o.effect THEN server \cup {x} ELSE server
    /\ unanswered' = IF o.effect /\ Errs(o) THEN unanswered \cup {x} ELSE unanswered

\* What a request that should remove X leaves behind.
Removes(o, X) ==
    /\ server' = IF o.effect THEN server \ X ELSE server
    /\ unremoved' = IF o.effect THEN unremoved ELSE unremoved \cup X

EvaluationInit ==
    /\ script = [pc |-> "register", folder |-> 1, item |-> 1, try |-> 1]
    /\ keep \in BOOLEAN
    /\ server = {} /\ context = {} /\ unanswered = {} /\ unremoved = {}
    /\ cases = <<>> /\ failures = 0

\* _authenticate: a registration that fails is followed by a login.  Nothing is seeded yet,
\* and nothing is removed when this raises.
Authenticate(o) ==
    /\ ScriptAt("register") \/ ScriptAt("login")
    /\ Ask(o)
    /\ ScriptGoes(CASE ~Errs(o) -> "collection"
              [] Errs(o) /\ ScriptAt("register") /\ o.error # "late" -> "login"
              [] OTHER -> "ended")
    /\ UNCHANGED <<keep, server, context, unanswered, unremoved, cases>>

\* Removal starts only when a collection is known.
Cleanup == IF keep \/ {x \in context : Len(x) = 1} = {} THEN "ended" ELSE "documents"

\* _seed_dataset: a collection is asked for once, and known from its answer on.
SeedCollection(o) ==
    /\ ScriptAt("collection")
    /\ Ask(o) /\ Makes(o, Here)
    /\ IF Errs(o) THEN ScriptGoes(Cleanup) /\ UNCHANGED context
                   ELSE ScriptGoes("ingest") /\ context' = context \cup {Here}
    /\ UNCHANGED <<keep, unremoved, cases>>

\* _ingest_text_document: POST /ingest is sent again after a transient error, whatever
\* became of the one before.
Ingest(o) ==
    /\ ScriptAt("ingest") /\ script.item <= Len(Seeds[script.folder])
    /\ Ask(o) /\ Makes(o, Document)
    /\ CASE ~Errs(o) -> script' = [script EXCEPT !.pc = "wait"]
         [] o.error = "transient" /\ script.try < Attempts ->
              script' = [script EXCEPT !.try = @ + 1]
         [] OTHER -> ScriptGoes(Cleanup)
    /\ UNCHANGED <<keep, context, unremoved, cases>>

\* _wait_document_ready: the document is READY in time, or it is FAILED, the deadline passes
\* or a request for its status fails.
Wait(ready) ==
    /\ ScriptAt("wait")
    /\ IF ready THEN /\ context' = context \cup {Document}
                     /\ script' = [script EXCEPT !.pc = "ingest", !.item = @ + 1, !.try = 1]
                ELSE script' = [script EXCEPT !.pc = "discard"] /\ UNCHANGED context
    /\ UNCHANGED <<keep, server, unanswered, unremoved, cases, failures>>

\* Mutant of Discard: the cleanup at the end is taken to remove this document as well.
Discard_Later(o) ==
    /\ ScriptAt("discard") /\ ScriptGoes(Cleanup) /\ o.error = "none"
    /\ UNCHANGED <<keep, server, unanswered, unremoved, context, cases, failures>>

\* A document that is not READY is removed before the error is raised again.
Discard(o) ==
    /\ ScriptAt("discard")
    /\ Ask(o) /\ Removes(o, {Document})
    /\ ScriptGoes(Cleanup)
    /\ UNCHANGED <<keep, context, unanswered, cases>>

NextCollection ==
    /\ ScriptAt("ingest") /\ script.item > Len(Seeds[script.folder])
    /\ script' = IF script.folder < Len(Seeds)
                 THEN [pc |-> "collection", folder |-> script.folder + 1, item |-> 1, try |-> 1]
                 ELSE [pc |-> "query", folder |-> 1, item |-> 1, try |-> 1]
    /\ UNCHANGED <<keep, server, context, unanswered, unremoved, cases, failures>>

\* _run_case, one of the texts of the collection or, where there is none, a question that it
\* cannot answer.  The sources are those of any documents, each at most once.
Query(o, got, abstained) ==
    /\ ScriptAt("query")
    /\ Ask(o)
    /\ IF Errs(o) THEN ScriptGoes(Cleanup) /\ UNCHANGED cases
       ELSE /\ cases' = Append(cases, [folder |-> script.folder, got |-> got, abstained |-> abstained])
            /\ script' = IF script.folder < Len(Seeds) THEN [script EXCEPT !.folder = @ + 1]
                                                       ELSE [script EXCEPT !.pc = Cleanup]
    /\ UNCHANGED <<keep, server, context, unanswered, unremoved>>

\* _cleanup: the documents in one request, then each collection; a RuntimeError is printed,
\* a late answer ends the script.
RemoveDocuments(o) ==
    LET docs == {x \in context : Len(x) = 3} IN
    /\ ScriptAt("documents")
    /\ IF docs = {} THEN UNCHANGED <<server, unremoved, failures>> /\ o.error = "none"
                    ELSE Ask(o) /\ (o.error # "late" => Removes(o, docs))
    /\ o.error = "late" =>
          /\ server' = IF o.effect THEN server \ docs ELSE server
          /\ unremoved' = unremoved \cup context
    /\ ScriptGoes(IF o.error = "late" THEN "ended" ELSE "collections")
    /\ UNCHANGED <<keep, context, unanswered, cases>>

RemoveCollection(o) ==
    LET left == {x \in context : Len(x) = 1} IN
    /\ ScriptAt("collections") /\ left # {}
    /\ \E x \in left :
          /\ \A y \in left : x[1] <= y[1]
          /\ Ask(o)
          /\ context' = context \ {x}
          /\ server' = IF o.effect THEN server \ {x} ELSE server
          /\ unremoved' = unremoved \cup (IF o.effect THEN {} ELSE {x})
                                    \cup (IF o.error = "late" THEN left \ {x} ELSE {})
    /\ ScriptGoes(IF o.error = "late" \/ Cardinality(left) = 1 THEN "ended" ELSE "collections")
    /\ UNCHANGED <<keep, unanswered, cases>>

-----------------------------------------------------------------------------
(* Scores, in ten-thousandths: four decimals are kept.                     *)

Full == 10000
Share(n, m) == (2 * Full * n + m) \div (2 * m)
Grade(b) == IF b THEN Full ELSE 0

Wanted(c) == {x \in context : Len(x) = 3 /\ x[1] = c /\ Seeds[c][x[2]] = "text"}
Intruders == {x \in context : Len(x) = 3 /\ Seeds[x[1]][x[2]] = "noise"}
Negative(case) == Wanted(case.folder) = {}

\* _score_retrieval: whether, how many and how early expected sources were found.
RetrievalScores(got, expected) ==
    LET ranks == {i \in DOMAIN got : got[i] \in expected} IN
    IF expected = {} THEN [hit |-> Full, recall |-> Full, mrr |-> Full]
    ELSE [hit    |-> Grade(ranks # {}),
          recall |-> Share(Cardinality(ToSet(got) \cap expected), Cardinality(expected)),
          mrr    |-> IF ranks = {} THEN 0 ELSE Share(1, CHOOSE i \in ranks : \A j \in ranks : i <= j)]

\* _run_case: all the scores of one case.
Scores(case) ==
    LET r == RetrievalScores(case.got, Wanted(case.folder))
    IN  [hit |-> r.hit, recall |-> r.recall, mrr |-> r.mrr,
         scope |-> Grade(\A x \in ToSet(case.got) : x \in context /\ x[1] = case.folder),
         noise |-> Grade(ToSet(case.got) \cap Intruders = {}),
         abstention |-> Grade(case.abstained)]

\* The sum of values that belong to some of the first n cases.
AddedUp(values, n) ==
    LET sum[k \in 0..n] ==
          IF k = 0 THEN 0 ELSE sum[k - 1] + (IF k \in DOMAIN values THEN values[k] ELSE 0)
    IN sum[n]
Mean(values) == Share(AddedUp(values, Len(cases)), Full * Cardinality(DOMAIN values))

\* _average: 1.0 when there is no value.
Average(values) == IF DOMAIN values = {} THEN Full ELSE Mean(values)

\* _summarize: what there is to find counts where it is, abstention where there is nothing,
\* noise and scope everywhere.
CountedCases(score) ==
    {i \in DOMAIN cases : score \in {"noise", "scope"} \/ (Negative(cases[i]) <=> score = "abstention")}
Sums(score) == Average([i \in CountedCases(score) |-> Scores(cases[i])[score]])

\* _threshold_failures with the defaults of the script, and those of the harness, which looks
\* at every collection besides.
Required == [hit |-> 9000, recall |-> 9000, mrr |-> 7500, noise |-> Full, scope |-> Full,
             abstention |-> Full]
Passes == \A score \in DOMAIN Required : Sums(score) >= Required[score]

\* _score_retrieval of the harness.
RetrievalOf(case) ==
    LET r == RetrievalScores(case.got, Wanted(case.folder))
    IN  [hit |-> r.hit, recall |-> r.recall, mrr |-> r.mrr, noise |-> Scores(case).noise]

\* _apply_negative_case_scores: where there is no answer the API has to say so.
NegativeAnswer(case) ==
    [faithfulness |-> Grade(case.abstained), relevancy |-> Grade(case.abstained),
     context |-> Grade(case.got = <<>>)]

\* _score_api_case: an answer that does not abstain is taken to have the terms expected.
ApiAnswer(case) ==
    LET sources == Grade(case.got # <<>>)
    IN  IF Negative(case) THEN NegativeAnswer(case)
        ELSE [faithfulness |-> sources, relevancy |-> Grade(~case.abstained), context |-> sources]

HarnessScores(case) ==
    LET r == RetrievalOf(case)
        a == ApiAnswer(case)
    IN  [hit |-> r.hit, recall |-> r.recall, mrr |-> r.mrr, noise |-> r.noise,
         faithfulness |-> a.faithfulness, relevancy |-> a.relevancy, context |-> a.context]

HarnessAverage(S, score) ==
    IF S = {} THEN 0 ELSE Mean([i \in S |-> HarnessScores(cases[i])[score]])

\* The defaults of the harness: for answers, and for what is retrieved in every collection too.
AnswerRequired    == [faithfulness |-> 8000, relevancy |-> 7500, context |-> 7500]
RetrievalRequired == [hit |-> 9000, recall |-> 7500, mrr |-> 7500, noise |-> Full]

Reaches(S, required) == \A score \in DOMAIN required : HarnessAverage(S, score) >= required[score]

HarnessPasses ==
    /\ Reaches(DOMAIN cases, AnswerRequired) /\ Reaches(DOMAIN cases, RetrievalRequired)
    /\ \A c \in {cases[i].folder : i \in DOMAIN cases} :
          Reaches({i \in DOMAIN cases : cases[i].folder = c}, RetrievalRequired)

-----------------------------------------------------------------------------

Answers == {s \in SeqOf(context \cup {Foreign}, MaxShown) :
              IsInjective(s) /\ \A i \in DOMAIN s : s[i] = Foreign \/ Len(s[i]) = 3}

EvaluationNext ==
    \/ \E o \in Outcome :
          \/ Authenticate(o) \/ SeedCollection(o) \/ Ingest(o) \/ Discard(o)
          \/ RemoveDocuments(o) \/ RemoveCollection(o)
          \/ \E got \in Answers, abstained \in BOOLEAN : Query(o, got, abstained)
    \/ \E ready \in BOOLEAN : Wait(ready)
    \/ NextCollection

EvaluationSpec == EvaluationInit /\ [][EvaluationNext]_evaluationVars

-----------------------------------------------------------------------------
(* Properties.                                                             *)

EvaluationTypeOK ==
    /\ script \in [pc : {"register", "login", "collection", "ingest", "wait", "discard", "query",
                         "documents", "collections", "ended"},
                   folder : DOMAIN Seeds, item : Nat \ {0}, try : 1..Attempts]
    /\ keep \in BOOLEAN /\ failures \in 0..MaxFailures

\* However a run ends, what it made is removed but for what it never heard of and what it
\* failed to remove: "deletes seeded documents and collections unless --keep-seed is passed".
SeedsAreRemoved == ScriptAt("ended") /\ ~keep => server \subseteq unanswered \cup unremoved

\* A run that passes has shown no noise and nothing of another collection, and claimed no
\* answer where there is none; one that passes the harness has shown no noise, and something of
\* what was wanted wherever it was there.
AskedAll == Len(cases) = Len(Seeds)
PassIsClean ==
    AskedAll /\ ScriptAt(Cleanup) =>
       /\ Passes => \A i \in DOMAIN cases :
             /\ ToSet(cases[i].got) \cap Intruders = {} /\ Foreign \notin ToSet(cases[i].got)
             /\ \A x \in ToSet(cases[i].got) : x[1] = cases[i].folder
             /\ Negative(cases[i]) => cases[i].abstained
       /\ HarnessPasses => \A i \in DOMAIN cases :
             /\ ToSet(cases[i].got) \cap Intruders = {}
             /\ ~Negative(cases[i]) => ToSet(cases[i].got) \cap Wanted(cases[i].folder) # {}

\* What an evaluation leaves behind and what it concludes.
EvaluationIsSound == SeedsAreRemoved /\ PassIsClean

=============================================================================
