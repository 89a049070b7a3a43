------------------------------ MODULE Statistics ------------------------------
(***************************************************************************)
(* What one owner is told about the use of the documents: which are hot,   *)
(* cold and forgotten, what to read again today, and a timeline by month.  *)
(* Days pass, documents are saved, asked about and deleted.  A timeline    *)
(* reads the clock of the application first and the rows after it.         *)
(***************************************************************************)
EXTENDS Integers, FiniteSets, FiniteSetsExt

CONSTANTS
    StatDocs,
    ColdDays, ForgottenDays,   \* 14 and 30 in the code
    MonthDays,                 \* days of a month
    FirstMonth,                \* bound: the month of day 0, counted from 0
    LastDay,                   \* bound: where the clock stops
    Window                     \* months of a timeline, at most 24 in the code

ASSUME StatisticsAssumption ==
    /\ ColdDays \in Nat /\ ForgottenDays \in Nat /\ ColdDays <= ForgottenDays
    /\ MonthDays \in Nat \ {0} /\ FirstMonth \in 0..11 /\ LastDay \in Nat
    /\ Window \in 1..24

VARIABLES
    day,          \* today
    saved,        \* the day a document was saved, or Never
    askedOn,      \* the days a document was asked about
    timeline,     \* the request: the month it started in and, at the end, its counts
    turned        \* history: the month ended while the request ran

statVars == <<day, saved, askedOn, timeline, turned>>

-----------------------------------------------------------------------------

Never == -1
Month == [year : 0..LastDay + 3, month : 1..12]
MonthOf(d) == LET m == FirstMonth + d \div MonthDays
              IN [year |-> 2 + m \div 12, month |-> 1 + (m % 12)]

\* Mutant: December counts as month 0 of the next year.
ShiftMonth_December(m, offset) ==
    [year |-> m.year + (m.month + offset) \div 12, month |-> 1 + ((m.month - 1 + offset) % 12)]

\* shift_month, for months before as for months after.
ShiftMonth(m, offset) ==
    LET index == m.month - 1 + offset
    IN [year |-> m.year + index \div 12, month |-> 1 + (index % 12)]

NoTimeline == [pc |-> "none", start |-> MonthOf(0), counts |-> <<>>]

StatTypeOK ==
    /\ day \in 0..LastDay
    /\ saved \in [StatDocs -> {Never} \cup 0..LastDay]
    /\ askedOn \in [StatDocs -> SUBSET (0..LastDay)]
    /\ timeline.pc \in {"none", "clock", "told", "failed"} /\ timeline.start \in Month
    /\ turned \in BOOLEAN

StatInit ==
    /\ day = 0 /\ saved = [d \in StatDocs |-> Never] /\ askedOn = [d \in StatDocs |-> {}]
    /\ timeline = NoTimeline /\ turned = FALSE

IsSaved(d) == saved[d] # Never

\* The last time a document was of use: its latest activity, or the day it was saved.
LastUsed(d) == IF askedOn[d] = {} THEN saved[d] ELSE Max(askedOn[d])

Hot       == {d \in StatDocs : IsSaved(d) /\ day - LastUsed(d) <= ColdDays}
Forgotten == {d \in StatDocs : IsSaved(d) /\ day - LastUsed(d) > ForgottenDays}

\* get_daily_digest_items: the documents that have not been used for longest, up to a limit.
\* All documents are READY here.
IsDigest(s, limit) ==
    /\ \A d \in s : IsSaved(d) /\ \A e \in StatDocs \ s : IsSaved(e) => LastUsed(d) <= LastUsed(e)
    /\ Cardinality(s) = limit \/ \A d \in StatDocs : IsSaved(d) => d \in s

-----------------------------------------------------------------------------

Save(d) ==
    /\ saved[d] = Never
    /\ saved' = [saved EXCEPT ![d] = day]
    /\ UNCHANGED <<day, askedOn, timeline, turned>>

Drop(d) ==
    /\ IsSaved(d)
    /\ saved' = [saved EXCEPT ![d] = Never] /\ askedOn' = [askedOn EXCEPT ![d] = {}]
    /\ UNCHANGED <<day, timeline, turned>>

\* record_document_activity of the documents an answer is about.
AskAbout(d) ==
    /\ IsSaved(d) /\ day \notin askedOn[d]
    /\ askedOn' = [askedOn EXCEPT ![d] = @ \cup {day}]
    /\ UNCHANGED <<day, saved, timeline, turned>>

NextDay ==
    /\ day < LastDay
    /\ day' = day + 1
    /\ turned' = (turned \/ (timeline.pc = "clock" /\ MonthOf(day + 1) # MonthOf(day)))
    /\ UNCHANGED <<saved, askedOn, timeline>>

-----------------------------------------------------------------------------
(* get_learning_timeline                                                   *)

ReadClock ==
    /\ timeline.pc = "none"
    /\ timeline' = [NoTimeline EXCEPT !.pc = "clock",
                        !.start = ShiftMonth(MonthOf(day), -(Window - 1))]
    /\ UNCHANGED <<day, saved, askedOn, turned>>

Buckets == {ShiftMonth(timeline.start, i) : i \in 0..Window - 1}
NotBefore(m, n) == m.year > n.year \/ (m.year = n.year /\ m.month >= n.month)
SavedIn(m)  == {d \in StatDocs : IsSaved(d) /\ MonthOf(saved[d]) = m}
ActiveIn(m) == {d \in StatDocs : \E x \in askedOn[d] : MonthOf(x) = m}

\* The rows from the first month on.  One of a month that has no bucket is a KeyError.
Rows == {m \in {MonthOf(x) : x \in UNION ({askedOn[d] : d \in StatDocs} \cup
                                         {{saved[d]} \ {Never} : d \in StatDocs})} :
             NotBefore(m, timeline.start)}

ReadRows ==
    /\ timeline.pc = "clock"
    /\ timeline' = IF Rows \subseteq Buckets
                   THEN [timeline EXCEPT !.pc = "told", !.counts =
                            [m \in Buckets |-> [saved  |-> Cardinality(SavedIn(m)),
                                                active |-> Cardinality(ActiveIn(m))]]]
                   ELSE [timeline EXCEPT !.pc = "failed"]
    /\ UNCHANGED <<day, saved, askedOn, turned>>

\* The owner has read it and may ask again.
CloseTimeline ==
    /\ timeline.pc \in {"told", "failed"}
    /\ timeline' = NoTimeline /\ turned' = FALSE
    /\ UNCHANGED <<day, saved, askedOn>>

StatNext ==
    \/ \E d \in StatDocs : Save(d) \/ Drop(d) \/ AskAbout(d)
    \/ NextDay \/ ReadClock \/ ReadRows \/ CloseTimeline

StatSpec == StatInit /\ [][StatNext]_statVars

-----------------------------------------------------------------------------

\* A timeline has one bucket for each month of its window, the current one the last, across
\* the turn of a year too, and an owner gets it with every document of the window counted,
\* unless the month ends between the clock and the rows.
TimelineCounts ==
    ~turned =>
        /\ timeline.pc # "failed"
        /\ timeline.pc \in {"clock", "told"} => Cardinality(Buckets) = Window
        /\ timeline.pc = "clock" =>
               \A d \in StatDocs : IsSaved(d) =>
                   LET ago == (FirstMonth + day \div MonthDays)
                                - (FirstMonth + saved[d] \div MonthDays)
                   IN (MonthOf(saved[d]) \in Buckets) <=> (ago < Window)

\* The digest moves on: what is forgotten is offered before anything else, and a document that
\* is hot only when there is nothing else to offer.
DigestMovesOn ==
    \A limit \in 1..Cardinality(StatDocs) : \A s \in kSubset(limit, StatDocs) :
        IsDigest(s, limit) => /\ Forgotten \subseteq s \/ s \subseteq Forgotten
                              /\ s \cap Hot # {} => {d \in StatDocs : IsSaved(d)} \subseteq s \cup Hot

\* What the owner is told about the use of the documents is what the rows say.
ReportsAreRight == TimelineCounts /\ DigestMovesOn

=============================================================================
