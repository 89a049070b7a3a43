-------------------------------- MODULE Metrics --------------------------------
(***************************************************************************)
(* src/core/metrics.py: each process counts in its own memory and, one     *)
(* command after another, in hashes of Redis that all processes share.  A  *)
(* scrape reads the hashes one by one, and takes the memory of its process *)
(* instead when Redis fails or the hashes are empty.  A call of the        *)
(* program counts a request, perhaps a hit, and observes its latency.      *)
(* Nothing calls add_gauge, whose hashes stay empty.                       *)
(***************************************************************************)
EXTENDS Naturals, Sequences, FiniteSets, SequencesExt

CONSTANTS
    Processes,
    Calls,            \* bound: measured calls, each made once
    MaxLosses         \* bound: commands that fail and processes that restart

ASSUME MetricsAssumption == Processes # {} /\ IsFiniteSet(Calls) /\ MaxLosses \in Nat

VARIABLES
    measured,    \* the calls: where they run, what they record next
    own,         \* the memory of each process
    inRedis,      \* the hashes of Redis
    scrape,      \* a request for the metrics
    recorded,    \* history: what all calls recorded
    unshared,    \* history: recorded, and not in Redis
    losses       \* how much of the bound is used up

metricsVars == <<measured, own, inRedis, scrape, recorded, unshared, losses>>

-----------------------------------------------------------------------------

Metrics == {"requests", "hits", "latency"}

\* The hash fields a record increments, in this order: _with_redis runs one command for each.
\* The help text of a metric, which goes before its value and is read before it, is left out.
Fields(m) == IF m = "latency" THEN <<"sum", "count">> ELSE <<"value">>
AllFields == {"value", "sum", "count"}
NoCounts == [m \in Metrics |-> [f \in AllFields |-> 0]]

Increment(hashes, m, f) == [hashes EXCEPT ![m][f] = @ + 1]
IncrementAll(hashes, m) ==
    [hashes EXCEPT ![m] = [f \in AllFields |-> @[f] + IF f \in ToSet(Fields(m)) THEN 1 ELSE 0]]

NoScrape == [pc |-> "none", by |-> CHOOSE p \in Processes : TRUE, seen |-> NoCounts,
             before |-> NoCounts]

MetricsInit ==
    /\ measured = [c \in Calls |-> [at |-> CHOOSE p \in Processes : TRUE, pc |-> "new", todo |-> <<>>]]
    /\ own = [p \in Processes |-> NoCounts] /\ inRedis = NoCounts
    /\ scrape = NoScrape
    /\ recorded = NoCounts /\ unshared = {}
    /\ losses = 0

\* Commands block their process: nothing else of it runs until the record is made.
Blocked(p) ==
    \/ \E c \in Calls : measured[c].at = p /\ measured[c].todo # <<>>
    \/ scrape.by = p /\ scrape.pc \in {"counters", "sums", "counts"}

Loss == losses < MaxLosses /\ losses' = losses + 1

\* What a call records after pc; a retrieval that found nothing is no hit.
NextRecord == [new |-> {"requests"}, requests |-> {"hits", "latency"}, hits |-> {"latency"}, latency |-> {}]

\* inc_counter and observe_histogram: in memory first.
Record(c, p, m) ==
    /\ m \in NextRecord[measured[c].pc] /\ ~Blocked(p)
    /\ measured[c].pc = "new" \/ measured[c].at = p
    /\ own' = [own EXCEPT ![p] = IncrementAll(@, m)]
    /\ recorded' = IncrementAll(recorded, m)
    /\ measured' = [measured EXCEPT ![c] = [at |-> p, pc |-> m, todo |-> Fields(m)]]
    /\ UNCHANGED <<inRedis, scrape, unshared, losses>>

\* One command of a record, which Redis applies at once.  One that fails, with its effect or
\* without, ends the record, as does a connection that cannot be made.
Command(c) ==
    LET m == measured[c].pc
        f == Head(measured[c].todo)
    IN
    /\ measured[c].todo # <<>>
    /\ \/ /\ inRedis' = Increment(inRedis, m, f)
          /\ measured' = [measured EXCEPT ![c].todo = Tail(@)]
          /\ UNCHANGED <<unshared, losses>>
       \/ /\ Loss
          /\ inRedis' \in {inRedis, Increment(inRedis, m, f)}
          /\ measured' = [measured EXCEPT ![c].todo = <<>>]
          /\ unshared' = unshared \cup {m}
    /\ UNCHANGED <<own, scrape, recorded>>

\* A process ends: its memory, its calls and its scrape with it.
ProcessEnds(p) ==
    /\ Loss
    /\ own' = [own EXCEPT ![p] = NoCounts]
    /\ unshared' = unshared \cup {measured[c].pc : c \in {x \in Calls :
                                      measured[x].at = p /\ measured[x].todo # <<>>}}
    /\ measured' = [c \in Calls |-> IF measured[c].at = p /\ measured[c].pc # "new"
                                    THEN [measured[c] EXCEPT !.pc = "latency", !.todo = <<>>]
                                    ELSE measured[c]]
    /\ scrape' = IF scrape.by = p THEN NoScrape ELSE scrape
    /\ UNCHANGED <<inRedis, recorded>>

-----------------------------------------------------------------------------
(* render_prometheus.                                                      *)

\* What is finished when a scrape starts: all but what is being written just now.
InWriting(m) == {c \in Calls : measured[c].pc = m /\ measured[c].todo # <<>>}
Finished(m) ==
    [f \in AllFields |-> IF recorded[m][f] = 0 THEN 0 ELSE recorded[m][f] - Cardinality(InWriting(m))]

ScrapeBegin(p) ==
    /\ scrape.pc = "none" /\ ~Blocked(p)
    /\ scrape' = [pc |-> "counters", by |-> p, seen |-> NoCounts,
                  before |-> [m \in Metrics |-> Finished(m)]]
    /\ UNCHANGED <<measured, own, inRedis, recorded, unshared, losses>>

\* The counters come in one reply, the sums in the next, then the counts.
Replied(pc) == CASE pc = "counters" -> {<<"requests", "value">>, <<"hits", "value">>}
               [] pc = "sums"     -> {<<"latency", "sum">>}
               [] pc = "counts"   -> {<<"latency", "count">>}

\* _render_snapshot: a sum without a count is a KeyError.  Without anything in Redis the
\* process reports what it counted itself.
Rendered(r) == IF r = NoCounts THEN "own"
               ELSE IF r["latency"]["sum"] > 0 /\ r["latency"]["count"] = 0 THEN "failed" ELSE "told"

Steps == [counters |-> "sums", sums |-> "counts", counts |-> "end"]

ScrapeRead ==
    LET seen == [m \in Metrics |-> [f \in AllFields |->
                    IF <<m, f>> \in Replied(scrape.pc) THEN inRedis[m][f] ELSE scrape.seen[m][f]]]
        next == IF Steps[scrape.pc] # "end" THEN Steps[scrape.pc] ELSE Rendered(seen)
    IN
    /\ scrape.pc \in {"counters", "sums", "counts"}
    /\ scrape' = [scrape EXCEPT !.pc = next,
                                !.seen = IF next = "own" THEN own[scrape.by] ELSE seen]
    /\ UNCHANGED <<measured, own, inRedis, recorded, unshared, losses>>

\* Redis fails: the same.
ScrapeFails ==
    /\ scrape.pc \in {"counters", "sums", "counts"} /\ Loss
    /\ scrape' = [scrape EXCEPT !.pc = "own", !.seen = own[scrape.by]]
    /\ UNCHANGED <<measured, own, inRedis, recorded, unshared>>

ScrapeEnd ==
    /\ scrape.pc \in {"told", "own", "failed"}
    /\ scrape' = NoScrape
    /\ UNCHANGED <<measured, own, inRedis, recorded, unshared, losses>>

MetricsNext ==
    \/ \E c \in Calls : Command(c) \/ \E p \in Processes, m \in Metrics : Record(c, p, m)
    \/ \E p \in Processes : ScrapeBegin(p) \/ ProcessEnds(p)
    \/ ScrapeRead \/ ScrapeFails \/ ScrapeEnd

MetricsSpec == MetricsInit /\ [][MetricsNext]_metricsVars

-----------------------------------------------------------------------------
(* Properties.                                                             *)

MetricsTypeOK ==
    /\ measured \in [Calls -> [at : Processes, pc : {"new"} \cup Metrics, todo : Seq(AllFields)]]
    /\ scrape.pc \in {"none", "counters", "sums", "counts", "own", "told", "failed"}
    /\ unshared \subseteq Metrics

\* The counts of one hash are not above those of another.
AtMostAs(r, s, m) == \A f \in AllFields : r[m][f] <= s[m][f]

\* A report from Redis counts what every process had recorded before it was asked for, those
\* that restarted since included, and never what did not happen, unless a record was cut short.
ReportCounts ==
    scrape.pc = "told" =>
        \A m \in Metrics \ unshared :
            AtMostAs(scrape.before, scrape.seen, m) /\ AtMostAs(scrape.seen, recorded, m)

\* observability_summary divides the hits by the requests: the rate is a rate.
RateIsARate ==
    scrape.pc \in {"told", "own"} /\ "requests" \notin unshared =>
        scrape.seen["hits"]["value"] <= scrape.seen["requests"]["value"]

\* A report fails for a sum without its count alone: no observation was complete when it was
\* asked for, or one was cut short.
FailsForTheFirst ==
    scrape.pc = "failed" /\ "latency" \notin unshared => scrape.before["latency"]["count"] = 0

\* The metrics are those of the calls.
MetricsAreRight == ReportCounts /\ RateIsARate /\ FailsForTheFirst

=============================================================================
