----------------------------- MODULE Owner_proofs -----------------------------
(*****************************************************************************)
(* What belongs to the owner, for any documents, notes, devices, chats and   *)
(* topics: what is decided, written and granted stands as long as no request *)
(* acts on something it read before another one wrote.                       *)
(*****************************************************************************)
EXTENDS Library, Notes, Sessions, Integrations, TelegramBot, Topics, Study, Drafting,
        Flashcards, FiniteSetTheorems, SequenceTheorems, WellFoundedInduction, TLAPS

-----------------------------------------------------------------------------
(* Tags and shares.                                                          *)

USE LibraryAssumption DEF LibraryAssumption

(* The inductive invariant.                                                *)

\* A task works on a document or on a collection.
AimInv ==
    \A k \in Tasks :
        /\ task[k].op \in {"tag", "enrich"} => task[k].on \in Papers
        /\ task[k].op = "share" => task[k].on \in Shelves

\* Whatever the owner put on a document is the owner's tag from then on.
ClaimedInv == \A g \in given : mark[g[2]] = "manual"

\* What a task has decided while nobody wrote: the tags it does not add are there, it drops
\* none of the owner's, and the collection it shares is not shared.
TagDecided(k) ==
    At(k, "tag", "write") /\ paper[task[k].on].live =>
        task[k].claim \subseteq task[k].tags \cup paper[task[k].on].tags
DropDecided(k) ==
    At(k, "enrich", "write") => \A t \in task[k].drop : <<task[k].on, t>> \notin given
ShareDecided(k) == At(k, "share", "write") => shares[task[k].on] = 0

Decided(k) == task[k].stale \/ (TagDecided(k) /\ DropDecided(k) /\ ShareDecided(k))

\* What the owner decided is upheld.
Upheld ==
    /\ \A g \in given : g[2] \in paper[g[1]].tags
    /\ \A s \in Shelves : shares[s] <= 1
    /\ \A k \in Tasks : Decided(k)

\* The types, and what a task aims at.
LibraryTypes    == LibraryTypeOK /\ AimInv
LibraryInv == LibraryTypes /\ ClaimedInv /\ (outdated \/ Upheld)

-----------------------------------------------------------------------------
(* Types.  A step changes one task, and says of others that they are old.  *)

\* The first values are of their types.
LEMMA BlankTask == NewPaper \in Paper /\ NoTask \in Task
BY DEF NewPaper, NoTask, Paper, Task

\* A task that writes leaves the others what they are, but stale.
LEMMA WrittenTasks ==
    ASSUME LibraryTypes, NEW k \in Tasks, NEW r \in Task, NEW on, Written(k, r, on),
           r.op \in {"tag", "enrich"} => r.on \in Papers,
           r.op = "share" => r.on \in Shelves
    PROVE  /\ task' \in [Tasks -> Task] /\ AimInv'
           /\ task'[k] = r
           /\ \A x \in Tasks \ {k} :
                 /\ task'[x] = [task[x] EXCEPT !.stale = task'[x].stale]
                 /\ ~task'[x].stale => ~task[x].stale /\ (task[x].op = "none" \/ task[x].on # on)
<1>1. task \in [Tasks -> Task]
  BY DEF LibraryTypes, LibraryTypeOK
<1> DEFINE old(x) == task[x].stale \/ (~Idle(x) /\ task[x].on = on)
<1>2. \A x \in Tasks : old(x) \in BOOLEAN
  BY <1>1 DEF Idle, Task
<1>3. task' = [x \in Tasks |-> IF x = k THEN r ELSE [task[x] EXCEPT !.stale = old(x)]]
  BY DEF Written
<1>4. \A x \in Tasks : (~old(x)) => ~task[x].stale /\ (task[x].op = "none" \/ task[x].on # on)
  BY DEF Idle
<1> HIDE DEF old
<1>5. \A x \in Tasks : [task[x] EXCEPT !.stale = old(x)] \in Task
  BY <1>1, <1>2 DEF Task
<1>6. task' \in [Tasks -> Task]
  BY <1>3, <1>5
<1>7. task'[k] = r
  BY <1>3
<1>8. ASSUME NEW x \in Tasks, x # k
      PROVE  task'[x] = [task[x] EXCEPT !.stale = old(x)] /\ task'[x].stale = old(x)
  <2>1. task'[x] = [task[x] EXCEPT !.stale = old(x)]
    BY <1>3, <1>8
  <2> QED BY <1>1, <2>1 DEF Task
<1>9. AimInv'
  <2> SUFFICES ASSUME NEW x \in Tasks
               PROVE  /\ task'[x].op \in {"tag", "enrich"} => task'[x].on \in Papers
                      /\ task'[x].op = "share" => task'[x].on \in Shelves
    BY DEF AimInv
  <2>1. CASE x = k
    BY <2>1, <1>7
  <2>2. CASE x # k
    <3>1. task'[x].op = task[x].op /\ task'[x].on = task[x].on
      BY <1>1, <1>8, <2>2 DEF Task
    <3> QED BY <3>1 DEF LibraryTypes, AimInv
  <2> QED BY <2>1, <2>2
<1> QED BY <1>4, <1>6, <1>7, <1>8, <1>9

\* A task that changes only itself.
LEMMA ChangedTask ==
    ASSUME LibraryTypes, NEW k \in Tasks, NEW r \in Task, task' = [task EXCEPT ![k] = r],
           r.op \in {"tag", "enrich"} => r.on \in Papers,
           r.op = "share" => r.on \in Shelves
    PROVE  /\ task' \in [Tasks -> Task] /\ AimInv'
           /\ task'[k] = r /\ \A x \in Tasks \ {k} : task'[x] = task[x]
BY DEF LibraryTypes, LibraryTypeOK, AimInv

-----------------------------------------------------------------------------
(* Tasks that a step leaves alone, and steps that change nothing else.     *)

\* A task that was not told to be old has decided what it had decided, if the step changed
\* neither its document nor its collection.
LEMMA OtherTasks ==
    ASSUME LibraryTypes, Upheld, NEW x \in Tasks,
           task'[x] = [task[x] EXCEPT !.stale = task'[x].stale],
           ~task'[x].stale => ~task[x].stale,
           (~task'[x].stale /\ task[x].op # "none") =>
               LET on == task[x].on IN
               /\ on \in Papers => \/ ~paper'[on].live
                                   \/ paper[on].live /\ paper'[on].tags = paper[on].tags
               /\ \A t \in Tags : <<on, t>> \in given' => <<on, t>> \in given
               /\ on \in Shelves => shares'[on] \in {0, shares[on]}
    PROVE  Decided(x)'
<1>1. task \in [Tasks -> Task] /\ Decided(x)
  BY DEF LibraryTypes, LibraryTypeOK, Upheld
<1>2. /\ task'[x].op = task[x].op /\ task'[x].pc = task[x].pc /\ task'[x].on = task[x].on
      /\ task'[x].claim = task[x].claim /\ task'[x].tags = task[x].tags
      /\ task'[x].drop = task[x].drop
  BY <1>1 DEF Task
<1>3. task[x].drop \subseteq Tags
  BY <1>1 DEF Task
<1> SUFFICES ASSUME ~task'[x].stale
             PROVE  TagDecided(x)' /\ DropDecided(x)' /\ ShareDecided(x)'
  BY DEF Decided
<1>4. TagDecided(x) /\ DropDecided(x) /\ ShareDecided(x)
  BY <1>1 DEF Decided
<1>5. TagDecided(x)'
  BY <1>2, <1>4 DEF TagDecided, At, LibraryTypes, AimInv
<1>6. DropDecided(x)'
  BY <1>2, <1>3, <1>4 DEF DropDecided, At
<1>7. ShareDecided(x)'
  BY <1>2, <1>4 DEF ShareDecided, At, LibraryTypes, AimInv
<1> QED BY <1>5, <1>6, <1>7

\* A step that only changes task k, to one that has decided nothing yet or decides now.
LEMMA OnlyTask ==
    ASSUME LibraryInv, NEW k \in Tasks, NEW r \in Task, task' = [task EXCEPT ![k] = r],
           r.op \in {"tag", "enrich"} => r.on \in Papers,
           r.op = "share" => r.on \in Shelves,
           UNCHANGED <<paper, shelves, mark, shares, given, outdated>>,
           ~outdated => Decided(k)'
    PROVE  LibraryInv'
<1>1. task' \in [Tasks -> Task] /\ AimInv' /\ \A x \in Tasks \ {k} : task'[x] = task[x]
  BY ChangedTask DEF LibraryInv
<1>2. LibraryTypes' /\ ClaimedInv'
  BY <1>1 DEF LibraryInv, LibraryTypes, LibraryTypeOK, ClaimedInv
<1>3. ASSUME Upheld, Decided(k)' PROVE Upheld'
  BY <1>1, <1>3 DEF Upheld, Decided, TagDecided, DropDecided, ShareDecided, At
<1> QED BY <1>2, <1>3 DEF LibraryInv

\* A task that fails leaves everything alone.
LEMMA FailsInv == ASSUME LibraryInv, NEW k \in Tasks, Fails(k) PROVE LibraryInv'
<1>1. task' = [task EXCEPT ![k] = NoTask] /\ UNCHANGED <<paper, shelves, mark, shares, given, outdated>>
  BY DEF Fails
<1>2. NoTask.op = "none"
  BY DEF NoTask
<1>3. task'[k] = NoTask
  BY <1>1 DEF LibraryInv, LibraryTypes, LibraryTypeOK
<1>4. Decided(k)'
  BY <1>2, <1>3 DEF Decided, TagDecided, DropDecided, ShareDecided, At
<1> QED BY <1>1, <1>2, <1>4, BlankTask, OnlyTask

-----------------------------------------------------------------------------
(* What a task decides holds when it decides it.                           *)

\* The owner's change of tags reads the document.
LEMMA TagReadInv ==
    ASSUME LibraryInv, NEW k \in Tasks, NEW p \in Papers, NEW tags \in SUBSET Tags,
           TagRead(k, p, tags)
    PROVE  LibraryInv'
<1> DEFINE r == [NoTask EXCEPT !.op = "tag", !.pc = "write", !.on = p, !.claim = tags,
                     !.fresh = Unmade(tags), !.tags = tags \ paper[p].tags]
<1>1. /\ task' = [task EXCEPT ![k] = r]
      /\ UNCHANGED <<paper, shelves, mark, shares, given, outdated>>
  BY DEF TagRead
<1>2. Unmade(tags) \in SUBSET Tags /\ tags \ paper[p].tags \in SUBSET Tags
  BY DEF Unmade
<1>3. r \in Task /\ r.op = "tag" /\ r.pc = "write" /\ r.on = p /\ r.claim = tags
         /\ r.tags = tags \ paper[p].tags
  BY <1>2 DEF NoTask, NewPaper, Paper, Task
<1> HIDE DEF r
<1>4. task'[k] = r
  BY <1>1 DEF LibraryInv, LibraryTypes, LibraryTypeOK
<1>5. TagDecided(k)'
  BY <1>1, <1>3, <1>4 DEF TagDecided
<1>6. Decided(k)'
  BY <1>3, <1>4, <1>5 DEF Decided, DropDecided, ShareDecided, At
<1> QED BY <1>1, <1>3, <1>6, OnlyTask

\* An enrichment reads the document.
LEMMA EnrichReadInv ==
    ASSUME LibraryInv, NEW k \in Tasks, NEW p \in Papers, EnrichRead(k, p)
    PROVE  LibraryInv'
<1> DEFINE copy == [paper[p] EXCEPT !.tags = {}]
           r == [NoTask EXCEPT !.op = "enrich", !.on = p, !.copy = copy]
<1>1. /\ task' = [task EXCEPT ![k] = r]
      /\ UNCHANGED <<paper, shelves, mark, shares, given, outdated>>
  BY DEF EnrichRead
<1>2. copy \in Paper
  BY DEF LibraryInv, LibraryTypes, LibraryTypeOK, Paper
<1> HIDE DEF copy
<1>3. r \in Task /\ r.op = "enrich" /\ r.pc = "read" /\ r.on = p
  BY <1>2 DEF NoTask, Task
<1> HIDE DEF r
<1>4. task'[k] = r
  BY <1>1 DEF LibraryInv, LibraryTypes, LibraryTypeOK
<1>5. Decided(k)'
  BY <1>3, <1>4 DEF Decided, TagDecided, DropDecided, ShareDecided, At
<1> QED BY <1>1, <1>3, <1>5, OnlyTask

\* A tag the owner put on the document is there and the owner's, so that it is kept.
LEMMA EnrichDecideInv ==
    ASSUME LibraryInv, NEW k \in Tasks, NEW tags \in SUBSET Tags,
           NEW original \in Papers \cup {Nothing}, EnrichDecide(k, tags, original)
    PROVE  LibraryInv'
<1> DEFINE p == task[k].on
           drop == paper[p].tags \ (KeptTags(p) \cup tags)
           copy == Enriched(task[k].copy, original)
           r == [task[k] EXCEPT !.pc = "write", !.stale = FALSE, !.tags = tags \ paper[p].tags,
                     !.fresh = Unmade(tags), !.drop = drop, !.copy = copy]
<1>1. /\ task \in [Tasks -> Task] /\ paper \in [Papers -> Paper]
      /\ At(k, "enrich", "read") /\ p \in Papers
  BY DEF LibraryInv, LibraryTypes, LibraryTypeOK, AimInv, EnrichDecide, At
<1>2. CASE ~(Readable(p) /\ AllReadable)
  BY <1>2, FailsInv DEF EnrichDecide
<1>3. CASE Readable(p) /\ AllReadable
  <2>1. UNCHANGED <<paper, shelves, mark, shares, given, outdated>>
    BY <1>3 DEF EnrichDecide
  <2>2. task[k].copy \in Paper
    BY <1>1 DEF Task
  <2>3. copy \in Paper
    BY <2>2 DEF Enriched, Paper
  <2>4. task' = [task EXCEPT ![k] = r]
    BY <1>3 DEF EnrichDecide
  <2>5. /\ Unmade(tags) \in SUBSET Tags /\ tags \ paper[p].tags \in SUBSET Tags
        /\ drop \in SUBSET Tags
    BY <1>1 DEF Unmade, Paper
  <2>6. \A t \in drop : <<p, t>> \notin given \/ outdated
    BY <1>1 DEF LibraryInv, ClaimedInv, Upheld, KeptTags
  <2> HIDE DEF copy, drop
  <2>7. /\ r \in Task /\ r.op = "enrich" /\ r.pc = "write" /\ r.on = p /\ r.drop = drop
    BY <1>1, <2>3, <2>5, ZenonT(30) DEF Task, At
  <2> HIDE DEF r
  <2>8. task'[k] = r
    BY <1>1, <2>4
  <2>9. ~outdated => Decided(k)'
    BY <1>1, <2>1, <2>6, <2>7, <2>8 DEF Decided, TagDecided, DropDecided, ShareDecided, At
  <2> QED BY <1>1, <2>1, <2>4, <2>7, <2>9, OnlyTask
<1> QED BY <1>2, <1>3

\* A request for a link reads the shares of the collection.
LEMMA ShareReadInv ==
    ASSUME LibraryInv, NEW k \in Tasks, NEW s \in Shelves, ShareRead(k, s)
    PROVE  LibraryInv'
<1> DEFINE r == [NoTask EXCEPT !.op = "share", !.pc = "write", !.on = s]
<1>1. /\ task' = [task EXCEPT ![k] = r] /\ shares[s] = 0
      /\ UNCHANGED <<paper, shelves, mark, shares, given, outdated>>
  BY DEF ShareRead
<1>2. r \in Task /\ r.op = "share" /\ r.on = s
  BY DEF NoTask, NewPaper, Paper, Task
<1> HIDE DEF r
<1>3. task'[k] = r
  BY <1>1 DEF LibraryInv, LibraryTypes, LibraryTypeOK
<1>4. Decided(k)'
  BY <1>1, <1>2, <1>3 DEF Decided, TagDecided, DropDecided, ShareDecided, At
<1> QED BY <1>1, <1>2, <1>4, OnlyTask

-----------------------------------------------------------------------------
(* The transactions that write what a task has decided.                    *)

\* The end of a task: whoever works on the same thing is told, or it was old itself.
LEMMA EndsTasks ==
    ASSUME LibraryTypes, NEW k \in Tasks, Ends(k)
    PROVE  /\ task' \in [Tasks -> Task] /\ AimInv' /\ outdated' \in BOOLEAN
           /\ Decided(k)'
           /\ ~outdated' => ~outdated /\ ~task[k].stale
           /\ \A x \in Tasks \ {k} :
                 /\ task'[x] = [task[x] EXCEPT !.stale = task'[x].stale]
                 /\ ~task'[x].stale =>
                        ~task[x].stale /\ (task[x].op = "none" \/ task[x].on # task[k].on)
<1>1. Written(k, NoTask, task[k].on) /\ outdated' = (outdated \/ task[k].stale)
  BY DEF Ends
<1>2. NoTask.op = "none" /\ outdated \in BOOLEAN /\ task[k].stale \in BOOLEAN
  BY DEF NoTask, LibraryTypes, LibraryTypeOK, Task
<1>3. task' \in [Tasks -> Task] /\ AimInv' /\ task'[k] = NoTask
      /\ \A x \in Tasks \ {k} :
            /\ task'[x] = [task[x] EXCEPT !.stale = task'[x].stale]
            /\ ~task'[x].stale => ~task[x].stale /\ (task[x].op = "none" \/ task[x].on # task[k].on)
  BY <1>1, <1>2, BlankTask, WrittenTasks
<1>4. Decided(k)'
  BY <1>2, <1>3 DEF Decided, TagDecided, DropDecided, ShareDecided, At
<1> QED BY <1>1, <1>2, <1>3, <1>4

\* The owner's tags are written.
LEMMA TagWriteInv ==
    ASSUME LibraryInv, NEW k \in Tasks, TagWrite(k)
    PROVE  LibraryInv'
<1> DEFINE p == task[k].on
<1>1. /\ LibraryTypes /\ ClaimedInv
      /\ task \in [Tasks -> Task] /\ paper \in [Papers -> Paper]
      /\ mark \in [Tags -> {"absent", "auto", "manual"}] /\ given \subseteq Papers \X Tags
      /\ At(k, "tag", "write") /\ p \in Papers
  BY DEF LibraryInv, LibraryTypes, LibraryTypeOK, AimInv, TagWrite, At
<1>2. CASE ~Unhindered(k)
  BY <1>2, FailsInv DEF TagWrite
<1>3. CASE Unhindered(k)
  <2>1. /\ paper' = [paper EXCEPT ![p].tags = @ \cup task[k].tags]
        /\ mark' = [t \in Tags |-> IF t \in task[k].claim THEN "manual" ELSE mark[t]]
        /\ given' = given \cup ({p} \X task[k].claim)
        /\ Ends(k) /\ UNCHANGED <<shelves, shares>>
    BY <1>3 DEF TagWrite
  <2>2. task[k].tags \in SUBSET Tags /\ task[k].claim \in SUBSET Tags
    BY <1>1 DEF Task
  <2>3. /\ paper' \in [Papers -> Paper]
        /\ \A q \in Papers \ {p} : paper'[q] = paper[q]
        /\ paper'[p].tags = paper[p].tags \cup task[k].tags /\ paper'[p].live = paper[p].live
    BY <1>1, <2>1, <2>2 DEF Paper
  <2>4. given' \subseteq Papers \X Tags /\ mark' \in [Tags -> {"absent", "auto", "manual"}]
    BY <1>1, <2>1, <2>2
  <2>5. /\ task' \in [Tasks -> Task] /\ AimInv' /\ outdated' \in BOOLEAN /\ Decided(k)'
        /\ ~outdated' => ~outdated /\ ~task[k].stale
        /\ \A x \in Tasks \ {k} :
              /\ task'[x] = [task[x] EXCEPT !.stale = task'[x].stale]
              /\ ~task'[x].stale => ~task[x].stale /\ (task[x].op = "none" \/ task[x].on # p)
    BY <1>1, <2>1, EndsTasks
  <2>6. LibraryTypes'
    BY <1>1, <2>1, <2>3, <2>4, <2>5 DEF LibraryTypes, LibraryTypeOK
  <2>7. ClaimedInv'
    BY <1>1, <2>1, <2>2 DEF ClaimedInv
  <2>8. ASSUME ~outdated' PROVE Upheld'
    <3>1. Upheld /\ ~task[k].stale
      BY <2>5, <2>8 DEF LibraryInv
    <3>2. task[k].claim \subseteq task[k].tags \cup paper[p].tags
      BY <1>1, <1>3, <3>1 DEF Upheld, Decided, TagDecided, Unhindered
    <3>3. \A g \in given' : g[2] \in paper'[g[1]].tags
      <4> SUFFICES ASSUME NEW g \in given' PROVE g[2] \in paper'[g[1]].tags
        OBVIOUS
      <4>1. CASE g \in given
        BY <1>1, <2>3, <3>1, <4>1 DEF Upheld
      <4>2. CASE g \in {p} \X task[k].claim
        BY <2>3, <3>2, <4>2
      <4> QED BY <2>1, <4>1, <4>2
    <3>4. ASSUME NEW x \in Tasks, x # k PROVE Decided(x)'
      <4>1. (~task'[x].stale /\ task[x].op # "none") =>
                LET on == task[x].on IN
                /\ on \in Papers => \/ ~paper'[on].live
                                    \/ paper[on].live /\ paper'[on].tags = paper[on].tags
                /\ \A t \in Tags : <<on, t>> \in given' => <<on, t>> \in given
                /\ on \in Shelves => shares'[on] \in {0, shares[on]}
        <5> SUFFICES ASSUME ~task'[x].stale, task[x].op # "none"
                     PROVE  LET on == task[x].on IN
                            /\ on \in Papers => \/ ~paper'[on].live
                                                \/ paper[on].live /\ paper'[on].tags = paper[on].tags
                            /\ \A t \in Tags : <<on, t>> \in given' => <<on, t>> \in given
                            /\ on \in Shelves => shares'[on] \in {0, shares[on]}
          OBVIOUS
        <5>1. task[x].on # p
          BY <2>5, <3>4
        <5> QED BY <2>1, <2>3, <5>1
      <4> QED BY <1>1, <2>5, <3>1, <3>4, <4>1, OtherTasks
    <3> QED BY <2>1, <2>5, <3>1, <3>3, <3>4 DEF Upheld
  <2> QED BY <2>6, <2>7, <2>8 DEF LibraryInv
<1> QED BY <1>2, <1>3

\* The enrichment's tags are written: it leaves the owner's alone unless it is stale.
LEMMA EnrichWriteInv ==
    ASSUME LibraryInv, NEW k \in Tasks, EnrichWrite(k)
    PROVE  LibraryInv'
<1> DEFINE p == task[k].on
<1>1. /\ LibraryTypes /\ ClaimedInv
      /\ task \in [Tasks -> Task] /\ paper \in [Papers -> Paper]
      /\ mark \in [Tags -> {"absent", "auto", "manual"}] /\ given \subseteq Papers \X Tags
      /\ At(k, "enrich", "write") /\ p \in Papers
  BY DEF LibraryInv, LibraryTypes, LibraryTypeOK, AimInv, EnrichWrite, At
<1>2. CASE ~Possible(k)
  BY <1>2, FailsInv DEF EnrichWrite
<1>3. CASE Possible(k)
  <2> DEFINE tags == (paper[p].tags \cup task[k].tags) \ task[k].drop
  <2>1. /\ paper' = [paper EXCEPT ![p] = [task[k].copy EXCEPT !.tags = tags]]
        /\ mark' = [t \in Tags |-> IF t \in task[k].fresh THEN "auto" ELSE mark[t]]
        /\ Ends(k) /\ UNCHANGED <<shelves, shares, given>>
    BY <1>3 DEF EnrichWrite
  <2>2. /\ task[k].tags \in SUBSET Tags /\ task[k].copy \in Paper /\ paper[p].tags \in SUBSET Tags
        /\ \A t \in task[k].fresh : mark[t] = "absent"
    BY <1>1, <1>3 DEF Task, Paper, Possible, Unhindered
  <2>3. tags \in SUBSET Tags
    BY <2>2
  <2>4. /\ paper' \in [Papers -> Paper]
        /\ \A q \in Papers \ {p} : paper'[q] = paper[q]
        /\ paper'[p].tags = tags
    <3> HIDE DEF tags
    <3>1. [task[k].copy EXCEPT !.tags = tags] \in Paper
              /\ [task[k].copy EXCEPT !.tags = tags].tags = tags
      BY <2>2, <2>3 DEF Paper
    <3> QED BY <1>1, <2>1, <3>1
  <2>5. mark' \in [Tags -> {"absent", "auto", "manual"}]
    BY <1>1, <2>1
  <2>6. /\ task' \in [Tasks -> Task] /\ AimInv' /\ outdated' \in BOOLEAN /\ Decided(k)'
        /\ ~outdated' => ~outdated /\ ~task[k].stale
        /\ \A x \in Tasks \ {k} :
              /\ task'[x] = [task[x] EXCEPT !.stale = task'[x].stale]
              /\ ~task'[x].stale => ~task[x].stale /\ (task[x].op = "none" \/ task[x].on # p)
    BY <1>1, <2>1, EndsTasks
  <2>7. LibraryTypes'
    BY <1>1, <2>1, <2>4, <2>5, <2>6 DEF LibraryTypes, LibraryTypeOK
  <2>8. ClaimedInv'
    BY <1>1, <2>1, <2>2 DEF ClaimedInv
  <2>9. ASSUME ~outdated' PROVE Upheld'
    <3>1. Upheld /\ ~task[k].stale
      BY <2>6, <2>9 DEF LibraryInv
    <3>2. \A t \in task[k].drop : <<p, t>> \notin given
      BY <1>1, <3>1 DEF Upheld, Decided, DropDecided
    <3>3. \A g \in given : g[2] \in paper'[g[1]].tags
      <4> SUFFICES ASSUME NEW g \in given PROVE g[2] \in paper'[g[1]].tags
        OBVIOUS
      <4>1. g[1] \in Papers /\ g[2] \in paper[g[1]].tags /\ g = <<g[1], g[2]>>
        BY <1>1, <3>1 DEF Upheld
      <4>2. CASE g[1] = p
        BY <2>4, <3>2, <4>1, <4>2
      <4>3. CASE g[1] # p
        BY <2>4, <4>1, <4>3
      <4> QED BY <4>2, <4>3
    <3>4. ASSUME NEW x \in Tasks, x # k PROVE Decided(x)'
      <4>1. (~task'[x].stale /\ task[x].op # "none") =>
                LET on == task[x].on IN
                /\ on \in Papers => \/ ~paper'[on].live
                                    \/ paper[on].live /\ paper'[on].tags = paper[on].tags
                /\ \A t \in Tags : <<on, t>> \in given' => <<on, t>> \in given
                /\ on \in Shelves => shares'[on] \in {0, shares[on]}
        <5> SUFFICES ASSUME ~task'[x].stale, task[x].op # "none"
                     PROVE  LET on == task[x].on IN
                            /\ on \in Papers => \/ ~paper'[on].live
                                                \/ paper[on].live /\ paper'[on].tags = paper[on].tags
                            /\ \A t \in Tags : <<on, t>> \in given' => <<on, t>> \in given
                            /\ on \in Shelves => shares'[on] \in {0, shares[on]}
          OBVIOUS
        <5>1. task[x].on # p
          BY <2>6, <3>4
        <5> QED BY <2>1, <2>4, <5>1
      <4> QED BY <1>1, <2>6, <3>1, <3>4, <4>1, OtherTasks
    <3> QED BY <2>1, <2>6, <3>1, <3>3, <3>4 DEF Upheld
  <2> QED BY <2>7, <2>8, <2>9 DEF LibraryInv
<1> QED BY <1>2, <1>3

\* A share is written: there was none unless the request is stale.
LEMMA ShareWriteInv ==
    ASSUME LibraryInv, NEW k \in Tasks, ShareWrite(k)
    PROVE  LibraryInv'
<1> DEFINE s == task[k].on
<1>1. /\ LibraryTypes /\ ClaimedInv /\ At(k, "share", "write") /\ s \in Shelves
      /\ shares \in [Shelves -> 0..MaxShares]
  BY DEF LibraryInv, LibraryTypes, LibraryTypeOK, AimInv, ShareWrite, At
<1>2. CASE ~(s \in shelves /\ shares[s] < MaxShares)
  BY <1>2, FailsInv DEF ShareWrite
<1>3. CASE s \in shelves /\ shares[s] < MaxShares
  <2>1. /\ shares' = [shares EXCEPT ![s] = @ + 1] /\ Ends(k)
        /\ UNCHANGED <<paper, shelves, mark, given>>
    BY <1>3 DEF ShareWrite
  <2>2. /\ shares' \in [Shelves -> 0..MaxShares] /\ shares'[s] = shares[s] + 1
        /\ \A q \in Shelves \ {s} : shares'[q] = shares[q]
    BY <1>1, <1>3, <2>1
  <2>3. /\ task' \in [Tasks -> Task] /\ AimInv' /\ outdated' \in BOOLEAN /\ Decided(k)'
        /\ ~outdated' => ~outdated /\ ~task[k].stale
        /\ \A x \in Tasks \ {k} :
              /\ task'[x] = [task[x] EXCEPT !.stale = task'[x].stale]
              /\ ~task'[x].stale => ~task[x].stale /\ (task[x].op = "none" \/ task[x].on # s)
    BY <1>1, <2>1, EndsTasks
  <2>4. LibraryTypes' /\ ClaimedInv'
    BY <1>1, <2>1, <2>2, <2>3 DEF LibraryTypes, LibraryTypeOK, ClaimedInv
  <2>5. ASSUME ~outdated' PROVE Upheld'
    <3>1. Upheld /\ ~task[k].stale
      BY <2>3, <2>5 DEF LibraryInv
    <3>2. shares[s] = 0
      BY <1>1, <3>1 DEF Upheld, Decided, ShareDecided
    <3>3. \A q \in Shelves : shares'[q] <= 1
      BY <2>2, <3>1, <3>2 DEF Upheld
    <3>4. ASSUME NEW x \in Tasks, x # k PROVE Decided(x)'
      <4>1. (~task'[x].stale /\ task[x].op # "none") =>
                LET on == task[x].on IN
                /\ on \in Papers => \/ ~paper'[on].live
                                    \/ paper[on].live /\ paper'[on].tags = paper[on].tags
                /\ \A t \in Tags : <<on, t>> \in given' => <<on, t>> \in given
                /\ on \in Shelves => shares'[on] \in {0, shares[on]}
        BY <2>1, <2>2, <2>3, <3>4
      <4> QED BY <1>1, <2>3, <3>1, <3>4, <4>1, OtherTasks
    <3> QED BY <2>1, <2>3, <3>1, <3>3, <3>4 DEF Upheld
  <2> QED BY <2>4, <2>5 DEF LibraryInv
<1> QED BY <1>2, <1>3

-----------------------------------------------------------------------------
(* The steps that are over in an instant tell nobody.                      *)

\* Tasks are untouched, documents go or keep their tags, and shares stay or are taken back.
LEMMA InstantInv ==
    ASSUME LibraryInv, UNCHANGED <<mark, task, outdated>>,
           paper' \in [Papers -> Paper], shelves' \subseteq Shelves,
           shares' \in [Shelves -> 0..MaxShares],
           \A s \in Shelves : shares'[s] \in {0, shares[s]},
           given' \subseteq given,
           \A g \in given' : paper'[g[1]].tags = paper[g[1]].tags,
           \A q \in Papers : ~paper'[q].live \/ (paper[q].live /\ paper'[q].tags = paper[q].tags)
    PROVE  LibraryInv'
<1>1. LibraryTypes' /\ ClaimedInv'
  BY DEF LibraryInv, LibraryTypes, LibraryTypeOK, AimInv, ClaimedInv
<1>2. ASSUME Upheld PROVE Upheld'
  <2>1. \A g \in given' : g[2] \in paper'[g[1]].tags
    BY <1>2 DEF Upheld
  <2>2. \A s \in Shelves : shares'[s] <= 1
    BY <1>2 DEF Upheld, LibraryInv, LibraryTypes, LibraryTypeOK
  <2>3. ASSUME NEW x \in Tasks PROVE Decided(x)'
    <3>1. task'[x] = [task[x] EXCEPT !.stale = task'[x].stale]
      BY DEF LibraryInv, LibraryTypes, LibraryTypeOK, Task
    <3> QED BY <1>2, <3>1, OtherTasks DEF LibraryInv
  <2> QED BY <2>1, <2>2, <2>3 DEF Upheld
<1> QED BY <1>1, <1>2 DEF LibraryInv

\* Documents are removed, ...
LEMMA RemovePapersInv ==
    ASSUME LibraryInv, NEW gone \in SUBSET Papers, RemovePapers(gone)
    PROVE  LibraryInv'
<1>1. /\ paper \in [Papers -> Paper] /\ given \subseteq Papers \X Tags /\ shelves \subseteq Shelves
      /\ shares \in [Shelves -> 0..MaxShares]
  BY DEF LibraryInv, LibraryTypes, LibraryTypeOK
<1>2. /\ paper' = [p \in Papers |->
             IF p \in gone THEN [NewPaper EXCEPT !.live = FALSE]
             ELSE IF paper[p].original \in gone THEN [paper[p] EXCEPT !.original = Nothing]
             ELSE paper[p]]
      /\ given' = {g \in given : g[1] \notin gone}
      /\ UNCHANGED <<shelves, mark, shares, task, outdated>>
      /\ \A p \in gone : paper[p].live
  BY DEF RemovePapers, Readable
<1>3. [NewPaper EXCEPT !.live = FALSE] \in Paper /\ ~[NewPaper EXCEPT !.live = FALSE].live
  BY DEF NewPaper, Paper
<1>4. \A p \in Papers : /\ [paper[p] EXCEPT !.original = Nothing] \in Paper
                        /\ [paper[p] EXCEPT !.original = Nothing].live = paper[p].live
                        /\ [paper[p] EXCEPT !.original = Nothing].tags = paper[p].tags
  BY <1>1 DEF Paper
<1>5. paper' \in [Papers -> Paper]
  BY <1>1, <1>2, <1>3, <1>4
<1>6. \A p \in Papers : IF p \in gone THEN ~paper'[p].live
                        ELSE paper'[p].tags = paper[p].tags /\ paper'[p].live = paper[p].live
  BY <1>2, <1>3, <1>4
<1>7. \A q \in Papers : ~paper'[q].live \/ (paper[q].live /\ paper'[q].tags = paper[q].tags)
  BY <1>6
<1>8. given' \subseteq given /\ \A g \in given' : paper'[g[1]].tags = paper[g[1]].tags
  BY <1>1, <1>2, <1>6
<1> QED BY <1>1, <1>2, <1>5, <1>7, <1>8, InstantInv

\* ... or a collection is, or a share of it.
LEMMA RemoveShelfInv ==
    ASSUME LibraryInv, NEW s \in Shelves, RemoveShelf(s) \/ Revoke(s)
    PROVE  LibraryInv'
<1>1. /\ paper \in [Papers -> Paper] /\ shelves \subseteq Shelves
      /\ shares \in [Shelves -> 0..MaxShares]
  BY DEF LibraryInv, LibraryTypes, LibraryTypeOK
<1>2. /\ UNCHANGED <<paper, mark, task, given, outdated>> /\ shelves' \subseteq Shelves
      /\ shares' = [shares EXCEPT ![s] = 0]
  BY <1>1 DEF RemoveShelf, Revoke
<1>3. shares' \in [Shelves -> 0..MaxShares] /\ \A q \in Shelves : shares'[q] \in {0, shares[q]}
  BY <1>1, <1>2
<1>4. \A q \in Papers : ~paper[q].live \/ (paper[q].live /\ paper[q].tags = paper[q].tags)
  BY <1>1 DEF Paper
<1> QED BY <1>1, <1>2, <1>3, <1>4, InstantInv

-----------------------------------------------------------------------------

\* Nothing is shared or tagged at first.
LEMMA LibraryStart == LibraryInit => LibraryInv
<1> SUFFICES ASSUME LibraryInit PROVE LibraryInv
  OBVIOUS
<1>1. LibraryTypeOK
  <2>1. paper \in [Papers -> Paper] /\ task \in [Tasks -> Task]
    BY BlankTask DEF LibraryInit
  <2>2. shares \in [Shelves -> 0..MaxShares]
    BY DEF LibraryInit
  <2> QED BY <2>1, <2>2 DEF LibraryInit, LibraryTypeOK
<1>2. NoTask.op = "none"
  BY DEF NoTask
<1>3. AimInv /\ ClaimedInv
  BY <1>2 DEF LibraryInit, AimInv, ClaimedInv
<1>4. Upheld
  BY <1>2 DEF LibraryInit, Upheld, Decided, TagDecided, DropDecided, ShareDecided, At
<1> QED BY <1>1, <1>3, <1>4 DEF LibraryInv, LibraryTypes

\* One step for each action.
LEMMA LibraryStep ==
    ASSUME LibraryInv, [LibraryNext]_libraryVars
    PROVE  LibraryInv'
<1>1. CASE PapersNext
  BY <1>1, TagReadInv, TagWriteInv, EnrichReadInv, EnrichDecideInv, EnrichWriteInv,
     RemovePapersInv DEF PapersNext
<1>2. CASE ShelvesNext
  BY <1>2, ShareReadInv, ShareWriteInv, RemoveShelfInv DEF ShelvesNext
<1>3. CASE UNCHANGED libraryVars
  BY <1>3 DEF libraryVars, LibraryInv, LibraryTypes, LibraryTypeOK, AimInv, ClaimedInv, Upheld,
     Decided, TagDecided, DropDecided, ShareDecided, At
<1> QED BY <1>1, <1>2, <1>3 DEF LibraryNext

-----------------------------------------------------------------------------

\* For any number of documents, tags, collections and overlapping requests and enrichments: a
\* tag the owner put on a document stays on it, and a collection has at most one share that is
\* active, unless a task wrote what it had decided before another one wrote.
THEOREM DecisionsStand == LibrarySpec => []OwnerDecides
<1>1. LibraryInit => LibraryInv
  BY LibraryStart
<1>2. LibraryInv /\ [LibraryNext]_libraryVars => LibraryInv'
  BY LibraryStep
<1>3. LibraryInv => OwnerDecides
  BY DEF LibraryInv, Upheld, OwnerDecides, ManualTagsStay, ShareIsRevocable
<1> QED BY <1>1, <1>2, <1>3, PTL DEF LibrarySpec

HIDE LibraryAssumption DEF LibraryAssumption

-----------------------------------------------------------------------------

USE NotesAssumption DEF NotesAssumption

(* A note and its history.                                                 *)

\* A request that has read the note holds texts, and unless another wrote since, those of
\* the note: the old one until it commits, then the new one.
CopiesAreCurrent ==
    \A w \in Writers : Busy(w) =>
        /\ writer[w].text \in Texts /\ writer[w].copy \in Texts
        /\ writer[w].stale \/
           note = IF writer[w].pc = "queue" THEN writer[w].text ELSE writer[w].copy

\* A note that is not there has no history.
GoneIsBare == note = NoNote => versions = <<>> /\ stood = {}

\* While the latest version is young, every text that stood has a version, the one of the
\* note too: this is what lets an edit go without one.
YoungKeeps == versions # <<>> /\ Last(versions).recent => stood \subseteq VersionTexts

\* What a request counted is still so when it commits, and without a version nothing is lost.
CountIsCurrent ==
    \A w \in Writers : writer[w].pc = "commit" /\ ~writer[w].stale =>
        IF writer[w].number = 0
        THEN writer[w].copy = writer[w].text \/ stood \subseteq VersionTexts
        ELSE writer[w].number = Len(versions) + 1

\* The versions of a note are numbered from 1, and every text that stood is the note or a version
\* of it.
Numbered == \A i \in DOMAIN versions : versions[i].number = i

\* Every text that stood for long is the note or a version.
Standing == note # NoNote => stood \subseteq {note} \cup VersionTexts

\* What holds as long as no two edits cross.
InOrder  == Numbered /\ Standing /\ YoungKeeps /\ CountIsCurrent

\* The invariant; where two edits crossed, only what does not depend on their order.
NotesInv == NotesTypeOK /\ CopiesAreCurrent /\ GoneIsBare /\ (crossed \/ InOrder)

\* The texts of a history are those of its places.
LEMMA TextsOfVersions == VersionTexts = {versions[i].text : i \in DOMAIN versions}
  BY DEF VersionTexts, Range

\* A request that writes makes the copies of the others old, and changes nothing else of them.
LEMMA OvertakeOthers ==
    ASSUME writer \in [Writers -> Writer], NEW w \in Writers, NEW r \in Writer, Overtake(w, r)
    PROVE  /\ writer' \in [Writers -> Writer] /\ writer'[w] = r
           /\ \A x \in Writers \ {w} :
                 /\ writer'[x] = [writer[x] EXCEPT !.stale = writer'[x].stale]
                 /\ writer'[x].pc = writer[x].pc /\ writer'[x].copy = writer[x].copy
                 /\ writer'[x].text = writer[x].text
                 /\ Busy(x) => writer'[x].stale
  <1> DEFINE old(x) == writer[x].stale \/ Busy(x)
  <1>1. \A x \in Writers : old(x) \in BOOLEAN
    BY DEF Busy, Writer
  <1>2. writer' = [x \in Writers |-> IF x = w THEN r ELSE [writer[x] EXCEPT !.stale = old(x)]]
    BY DEF Overtake
  <1>3. \A x \in Writers : [writer[x] EXCEPT !.stale = old(x)] \in Writer
    BY <1>1 DEF Writer
  <1>4. ASSUME NEW x \in Writers \ {w}
        PROVE  /\ writer'[x] = [writer[x] EXCEPT !.stale = old(x)]
               /\ writer'[x].stale = old(x)
               /\ writer'[x].pc = writer[x].pc /\ writer'[x].copy = writer[x].copy
               /\ writer'[x].text = writer[x].text
    BY <1>2 DEF Writer
  <1> QED  BY <1>2, <1>3, <1>4

\* A history that gains a version.
LEMMA AppendVersion ==
    ASSUME versions \in Seq(Version), NEW v \in Version, versions' = Append(versions, v)
    PROVE  /\ versions' \in Seq(Version) /\ versions' # <<>>
           /\ VersionTexts' = VersionTexts \cup {v.text}
           /\ Numbered /\ v.number = Len(versions) + 1 => Numbered'
  <1>1. /\ Len(versions) \in Nat /\ DOMAIN versions = 1..Len(versions)
    BY LenProperties
  <1>2. /\ versions' \in Seq(Version) /\ versions' # <<>> /\ Len(versions') = Len(versions) + 1
        /\ \A i \in 1..Len(versions) : versions'[i] = versions[i]
        /\ versions'[Len(versions) + 1] = v
    BY AppendProperties
  <1>3. DOMAIN versions' = 1..(Len(versions) + 1)
    BY <1>2, LenProperties
  <1>4. VersionTexts' = {versions'[i].text : i \in DOMAIN versions'}
    BY DEF VersionTexts, Range
  <1>5. \A t : t \in VersionTexts' <=> t \in VersionTexts \cup {v.text}
    BY <1>1, <1>2, <1>3, <1>4, TextsOfVersions
  <1>6. ASSUME Numbered, v.number = Len(versions) + 1
        PROVE  Numbered'
    BY <1>1, <1>2, <1>3, <1>6 DEF Numbered
  <1> QED  BY <1>2, <1>5, <1>6

\* A history that grows old.
LEMMA AgeVersions ==
    ASSUME versions \in Seq(Version),
           versions' = [i \in DOMAIN versions |-> [versions[i] EXCEPT !.recent = FALSE]]
    PROVE  /\ versions' \in Seq(Version)
           /\ Len(versions') = Len(versions) /\ VersionTexts' = VersionTexts
           /\ Numbered => Numbered'
           /\ versions' # <<>> => ~Last(versions').recent
  <1>1. Len(versions) \in Nat /\ DOMAIN versions = 1..Len(versions)
    BY LenProperties
  <1>2. \A i \in 1..Len(versions) : versions[i] \in Version
    BY ElementOfSeq
  <1>3. ASSUME NEW i \in 1..Len(versions)
        PROVE  /\ versions'[i] \in Version /\ versions'[i].recent = FALSE
               /\ versions'[i].text = versions[i].text /\ versions'[i].number = versions[i].number
    BY <1>1, <1>2 DEF Version
  <1>4. versions' \in [1..Len(versions) -> Version]
    BY <1>1, <1>3
  <1>5. versions' \in Seq(Version)
    BY <1>1, <1>4, SeqDef
  <1>6. DOMAIN versions' = 1..Len(versions) /\ Len(versions') = Len(versions)
    BY <1>1, <1>4, <1>5, LenProperties
  <1>7. VersionTexts' = {versions'[i].text : i \in DOMAIN versions'}
    BY ZenonT(30) DEF VersionTexts, Range
  <1>8. VersionTexts' = VersionTexts
    BY <1>1, <1>3, <1>6, <1>7, TextsOfVersions
  <1>9. Numbered => Numbered'
    BY <1>1, <1>3, <1>6 DEF Numbered
  <1>10. ASSUME versions' # <<>>
         PROVE  ~Last(versions').recent
    <2>1. Len(versions') \in 1..Len(versions)
      BY <1>1, <1>5, <1>6, <1>10, EmptySeq
    <2> QED  BY <1>3, <2>1 DEF Last
  <1> QED  BY <1>5, <1>6, <1>8, <1>9, <1>10

\* Reading and counting.
LEMMA NoteReadInv ==
    ASSUME NotesInv, NEW w \in Writers, NEW op \in {"update", "refile", "restore"}, NEW t \in Texts,
           NoteRead(w, op, t)
    PROVE  NotesInv'
  <1> USE DEF NotesInv, NotesTypeOK
  <1> DEFINE r == [IdleWriter EXCEPT !.pc = "save", !.op = op, !.copy = note, !.text = t]
  <1>1. /\ r \in Writer /\ r.pc = "save" /\ r.copy = note /\ r.text = t
        /\ note \in Texts /\ writer' = [writer EXCEPT ![w] = r]
    BY DEF NoteRead, IdleWriter, Writer, Operations, Writing, NoteCopy
  <1> HIDE DEF r
  <1>2. UNCHANGED <<note, versions, stood, crossed>>
    BY DEF NoteRead
  <1>3. CopiesAreCurrent'
    BY <1>1, <1>2 DEF CopiesAreCurrent, Busy
  <1>4. InOrder => InOrder'
    BY <1>1, <1>2 DEF InOrder, Numbered, Standing, YoungKeeps, CountIsCurrent, VersionTexts
  <1> QED  BY <1>1, <1>2, <1>3, <1>4 DEF GoneIsBare

\* The versions are counted for the number of the next one.
LEMMA NoteCountInv ==
    ASSUME NotesInv, NEW w \in Writers, NoteCount(w)
    PROVE  NotesInv'
  <1> USE DEF NotesInv, NotesTypeOK
  <1>1. writer[w] \in Writer /\ Len(versions) \in Nat
    BY LenProperties
  <1>2. VersionNumber(w) \in Nat
    BY <1>1 DEF VersionNumber
  <1> DEFINE r == [writer[w] EXCEPT !.pc = "commit", !.number = VersionNumber(w)]
  <1>3. /\ r \in Writer /\ r.pc = "commit" /\ r.copy = writer[w].copy /\ r.text = writer[w].text
        /\ r.number = VersionNumber(w) /\ r.stale = writer[w].stale
    BY <1>1, <1>2 DEF Writer, Writing
  <1>4. writer' = [writer EXCEPT ![w] = r] /\ writer[w].pc = "save"
        /\ UNCHANGED <<note, versions, stood, crossed>>
    BY DEF NoteCount
  <1> HIDE DEF r
  <1>5. CopiesAreCurrent'
    BY <1>3, <1>4 DEF CopiesAreCurrent, Busy, Writing
  <1>6. ASSUME InOrder
        PROVE  InOrder'
    <2>1. ASSUME r.number = 0
          PROVE  r.copy = r.text \/ stood \subseteq VersionTexts
      BY <1>1, <1>3, <1>6, <2>1 DEF VersionNumber, Coalesced, InOrder, YoungKeeps
    <2>2. ASSUME r.number # 0
          PROVE  r.number = Len(versions) + 1
      BY <1>3, <2>2 DEF VersionNumber
    <2> QED
      BY <1>3, <1>4, <1>6, <2>1, <2>2
         DEF InOrder, Numbered, Standing, YoungKeeps, CountIsCurrent, VersionTexts
  <1> QED  BY <1>3, <1>4, <1>5, <1>6 DEF GoneIsBare

\* Writing.  What the others hold is old from then on.
LEMMA NoteCommitInv ==
    ASSUME NotesInv, NEW w \in Writers, NoteCommit(w)
    PROVE  NotesInv'
  <1> USE DEF NotesInv, NotesTypeOK
  <1>1. /\ writer[w] \in Writer /\ writer[w].pc = "commit" /\ stood' = stood
        /\ writer[w].text \in Texts /\ writer[w].copy \in Texts
        /\ writer[w].stale \/ note = writer[w].copy
    BY DEF NoteCommit, CopiesAreCurrent, Busy, Writing
  <1>2. CASE note = NoNote
    <2>1. Leave(w) \in Writer /\ Leave(w).pc = "done"
      BY <1>1 DEF Leave, Writer
    <2>2. writer' = [writer EXCEPT ![w] = Leave(w)] /\ UNCHANGED <<note, versions, crossed>>
      BY <1>2 DEF NoteCommit
    <2>3. CopiesAreCurrent'
      BY <2>1, <2>2 DEF CopiesAreCurrent, Busy, Writing
    <2>4. InOrder => InOrder'
      BY <1>1, <2>1, <2>2 DEF InOrder, Numbered, Standing, YoungKeeps, CountIsCurrent, VersionTexts
    <2> QED  BY <1>1, <2>1, <2>2, <2>3, <2>4 DEF GoneIsBare
  <1>3. CASE note # NoNote
    <2> DEFINE r == [writer[w] EXCEPT !.pc = IF writer[w].text = Blank THEN "done" ELSE "queue"]
               v == [number |-> writer[w].number, text |-> Kept(w), recent |-> TRUE]
    <2>1. /\ r \in Writer /\ r.pc \in {"done", "queue"} /\ r.text = writer[w].text
          /\ r.copy = writer[w].copy
      BY <1>1 DEF Writer, Writing
    <2>2. v \in Version /\ v.text = writer[w].copy /\ v.number = writer[w].number
      BY <1>1 DEF Version, Kept, Writer
    <2>3. /\ note' = writer[w].text /\ Overtake(w, r) /\ crossed' = (crossed \/ writer[w].stale)
          /\ versions' = IF writer[w].number = 0 THEN versions ELSE Append(versions, v)
      BY <1>3 DEF NoteCommit
    <2> HIDE DEF r, v
    <2>4. /\ writer' \in [Writers -> Writer] /\ writer'[w] = r
          /\ \A x \in Writers \ {w} :
                /\ writer'[x].pc = writer[x].pc /\ writer'[x].copy = writer[x].copy
                /\ writer'[x].text = writer[x].text
                /\ Busy(x) => writer'[x].stale
      BY <2>1, <2>3, OvertakeOthers
    <2>5. CopiesAreCurrent'
      BY <1>1, <2>1, <2>3, <2>4 DEF CopiesAreCurrent, Busy, Writing
    <2>6. versions' \in Seq(Version) /\ note' \in Texts
      BY <1>1, <2>2, <2>3, AppendVersion
    <2>7. ASSUME ~crossed'
          PROVE  InOrder'
      <3>1. InOrder /\ ~writer[w].stale /\ note = writer[w].copy
        BY <1>1, <2>3, <2>7 DEF Writer
      <3>2. \A x \in Writers : writer'[x].pc = "commit" => writer'[x].stale
        BY <2>1, <2>4 DEF Busy, Writing
      <3>3. CountIsCurrent'
        BY <3>2 DEF CountIsCurrent
      <3>4. stood \subseteq {note} \cup VersionTexts
        BY <1>3, <3>1 DEF InOrder, Standing
      <3>5. CASE writer[w].number = 0
        <4>1. versions' = versions
          BY <2>3, <3>5
        <4>2. writer[w].copy = writer[w].text \/ stood \subseteq VersionTexts
          BY <1>1, <3>1, <3>5 DEF InOrder, CountIsCurrent
        <4>3. stood \subseteq {note'} \cup VersionTexts
          BY <2>3, <3>1, <3>4, <4>2
        <4> QED
          BY <1>1, <3>1, <3>3, <4>1, <4>3
             DEF InOrder, Numbered, Standing, YoungKeeps, VersionTexts
      <3>6. CASE writer[w].number # 0
        <4>1. /\ VersionTexts' = VersionTexts \cup {note}
              /\ Numbered /\ v.number = Len(versions) + 1 => Numbered'
          BY <2>2, <2>3, <3>1, <3>6, AppendVersion
        <4>2. Numbered'
          BY <1>1, <2>2, <3>1, <3>6, <4>1 DEF InOrder, CountIsCurrent
        <4> QED  BY <1>1, <3>3, <3>4, <4>1, <4>2 DEF InOrder, Standing, YoungKeeps
      <3> QED  BY <3>5, <3>6
    <2> QED  BY <1>1, <2>3, <2>4, <2>5, <2>6, <2>7 DEF GoneIsBare, NoteCopy, Writer
  <1> QED  BY <1>2, <1>3

\* The outbox row of the edit is written after its commit.
LEMMA NoteQueueInv ==
    ASSUME NotesInv, NEW w \in Writers, NoteQueue(w)
    PROVE  NotesInv'
  <1> USE DEF NotesInv, NotesTypeOK
  <1>1. /\ writer[w] \in Writer /\ writer[w].pc = "queue" /\ UNCHANGED <<versions, stood>>
        /\ writer[w].text \in Texts
        /\ writer[w].stale \/ note = writer[w].text
    BY DEF NoteQueue, CopiesAreCurrent, Busy, Writing
  <1>2. Leave(w) \in Writer /\ Leave(w).pc = "done"
    BY <1>1 DEF Leave, Writer
  <1>3. CASE note = NoNote
    <2>1. writer' = [writer EXCEPT ![w] = Leave(w)] /\ UNCHANGED <<note, crossed>>
      BY <1>3 DEF NoteQueue
    <2>2. CopiesAreCurrent'
      BY <1>2, <2>1 DEF CopiesAreCurrent, Busy, Writing
    <2>3. InOrder => InOrder'
      BY <1>1, <1>2, <2>1 DEF InOrder, Numbered, Standing, YoungKeeps, CountIsCurrent, VersionTexts
    <2> QED  BY <1>1, <1>2, <2>1, <2>2, <2>3 DEF GoneIsBare
  <1>4. CASE note # NoNote
    <2>1. /\ note' = writer[w].text /\ Overtake(w, Leave(w))
          /\ crossed' = (crossed \/ writer[w].stale)
      BY <1>4 DEF NoteQueue
    <2>2. /\ writer' \in [Writers -> Writer] /\ writer'[w] = Leave(w)
          /\ \A x \in Writers \ {w} :
                /\ writer'[x].pc = writer[x].pc /\ writer'[x].copy = writer[x].copy
                /\ writer'[x].text = writer[x].text
                /\ Busy(x) => writer'[x].stale
      BY <1>2, <2>1, OvertakeOthers
    <2>3. CopiesAreCurrent'
      BY <1>2, <2>2 DEF CopiesAreCurrent, Busy, Writing
    <2>4. ASSUME ~crossed'
          PROVE  InOrder'
      <3>1. InOrder /\ note' = note
        BY <1>1, <2>1, <2>4 DEF Writer
      <3>2. \A x \in Writers : writer'[x].pc = "commit" => writer'[x].stale
        BY <1>2, <2>2 DEF Busy, Writing
      <3> QED
        BY <1>1, <3>1, <3>2 DEF InOrder, Numbered, Standing, YoungKeeps, CountIsCurrent, VersionTexts
    <2> QED  BY <1>1, <2>1, <2>2, <2>3, <2>4 DEF GoneIsBare, NoteCopy, Writer
  <1> QED  BY <1>3, <1>4

\* The rest: creating, deleting, losing a request, and the passing of time.
LEMMA NoteLifeInv ==
    ASSUME NotesInv, NEW w \in Writers,
           (\E t \in Texts : NoteCreate(w, t)) \/ NoteDelete(w) \/ WriterLost(w)
    PROVE  NotesInv'
  <1> USE DEF NotesInv, NotesTypeOK
  <1>1. IdleWriter \in Writer /\ writer[w] \in Writer
    BY DEF IdleWriter, Writer, Operations, NoteCopy
  <1>2. Leave(w) \in Writer /\ Leave(w).pc = "done"
    BY <1>1 DEF Leave, Writer
  <1>3. ASSUME NEW r \in Writer, Overtake(w, r), r.pc # "commit", crossed' = crossed,
               versions' = <<>>, stood' = {}, note' \in NoteCopy,
               r.pc \in {"done", "queue"},
               r.pc = "queue" => r.text \in Texts /\ r.copy \in Texts /\ note' = r.text
        PROVE  NotesInv'
    <2>1. /\ writer' \in [Writers -> Writer] /\ writer'[w] = r
          /\ \A x \in Writers \ {w} :
                /\ writer'[x].pc = writer[x].pc /\ writer'[x].copy = writer[x].copy
                /\ writer'[x].text = writer[x].text
                /\ Busy(x) => writer'[x].stale
      BY <1>3, OvertakeOthers
    <2>2. CopiesAreCurrent'
      BY <1>3, <2>1 DEF CopiesAreCurrent, Busy, Writing
    <2>3. versions' \in Seq(Version) /\ DOMAIN versions' = {}
      BY <1>3, EmptySeq
    <2>4. InOrder'
      BY <1>3, <2>1, <2>3 DEF InOrder, Numbered, Standing, YoungKeeps, CountIsCurrent, Busy, Writing
    <2> QED  BY <1>3, <2>1, <2>2, <2>3, <2>4 DEF GoneIsBare
  <1>4. ASSUME NEW t \in Texts, NoteCreate(w, t)
        PROVE  NotesInv'
    <2> DEFINE r == [IdleWriter EXCEPT !.pc = IF t = Blank THEN "done" ELSE "queue",
                                       !.op = "create", !.copy = t, !.text = t]
    <2>1. r \in Writer /\ r.pc \in {"done", "queue"} /\ r.text = t /\ r.copy = t
      BY DEF IdleWriter, Writer, Operations, NoteCopy, Writing
    <2>2. Overtake(w, r) /\ note' = t /\ UNCHANGED <<versions, stood, crossed>> /\ note = NoNote
      BY <1>4 DEF NoteCreate
    <2> HIDE DEF r
    <2> QED  BY <1>3, <2>1, <2>2 DEF GoneIsBare, NoteCopy
  <1>5. CASE NoteDelete(w)
    <2> DEFINE r == [IdleWriter EXCEPT !.pc = "done", !.op = "delete"]
    <2>1. r \in Writer /\ r.pc = "done"
      BY DEF IdleWriter, Writer, Operations, NoteCopy
    <2>2. /\ Overtake(w, r) /\ note' = NoNote /\ versions' = <<>> /\ stood' = {}
          /\ crossed' = crossed
      BY <1>5 DEF NoteDelete
    <2> HIDE DEF r
    <2> QED  BY <1>3, <2>1, <2>2 DEF NoteCopy
  <1>6. CASE WriterLost(w)
    <2>1. writer' = [writer EXCEPT ![w] = Leave(w)] /\ UNCHANGED <<note, versions, stood, crossed>>
      BY <1>6 DEF WriterLost
    <2>2. CopiesAreCurrent'
      BY <1>2, <2>1 DEF CopiesAreCurrent, Busy, Writing
    <2>3. InOrder => InOrder'
      BY <1>2, <2>1 DEF InOrder, Numbered, Standing, YoungKeeps, CountIsCurrent, VersionTexts
    <2> QED  BY <1>2, <2>1, <2>2, <2>3 DEF GoneIsBare
  <1> QED  BY <1>4, <1>5, <1>6

\* Time passes: the latest version is old, and no text is lost by it.
LEMMA AgeInv == NotesInv /\ Age => NotesInv'
  <1> SUFFICES ASSUME NotesInv, Age
               PROVE  NotesInv'
    OBVIOUS
  <1> USE DEF NotesInv, NotesTypeOK
  <1>1. /\ versions' \in Seq(Version)
        /\ Len(versions') = Len(versions) /\ VersionTexts' = VersionTexts
        /\ Numbered => Numbered'
        /\ versions' # <<>> => ~Last(versions').recent
    BY AgeVersions DEF Age
  <1>2. note # NoNote /\ UNCHANGED <<note, writer, crossed>>
    BY DEF Age
  <1>3. stood' \subseteq Texts /\ stood' \subseteq stood \cup {note}
    BY <1>2 DEF Age, NoteCopy
  <1>4. ASSUME InOrder
        PROVE  InOrder'
    <2>1. CountIsCurrent'
      BY <1>1, <1>2, <1>4 DEF Age, InOrder, CountIsCurrent
    <2>2. Standing'
      BY <1>1, <1>2, <1>3, <1>4 DEF InOrder, Standing
    <2> QED  BY <1>1, <1>4, <2>1, <2>2 DEF InOrder, YoungKeeps
  <1>5. CopiesAreCurrent'
    BY <1>2 DEF CopiesAreCurrent, Busy
  <1> QED  BY <1>1, <1>2, <1>3, <1>4, <1>5 DEF GoneIsBare

\* The history of a note is in order and complete, whoever edits, restores, moves or deletes it,
\* unless a request wrote over what it had not read.
THEOREM HistoriesAreKept == NotesSpec => []HistoryIsKept
  <1>1. NotesInit => NotesInv
    <2> SUFFICES ASSUME NotesInit
                 PROVE  NotesInv
      OBVIOUS
    <2>1. IdleWriter \in Writer /\ IdleWriter.pc = "idle"
      BY DEF IdleWriter, Writer, Operations, NoteCopy
    <2>2. versions \in Seq(Version) /\ DOMAIN versions = {}
      BY EmptySeq DEF NotesInit
    <2> QED
      BY <2>1, <2>2 DEF NotesInit, NotesInv, NotesTypeOK, NoteCopy, CopiesAreCurrent, Busy, Writing,
         GoneIsBare, InOrder, Numbered, Standing, YoungKeeps, CountIsCurrent
  <1>2. NotesInv /\ [NotesNext]_notesVars => NotesInv'
    <2>1. NotesInv /\ UNCHANGED notesVars => NotesInv'
      BY DEF notesVars, NotesInv, NotesTypeOK, CopiesAreCurrent, Busy, GoneIsBare, InOrder, Numbered,
         Standing, YoungKeeps, CountIsCurrent, VersionTexts
    <2> QED
      BY <2>1, NoteReadInv, NoteCountInv, NoteCommitInv, NoteQueueInv, NoteLifeInv, AgeInv
         DEF NotesNext
  <1>3. NotesInv => HistoryIsKept
    BY DEF NotesInv, InOrder, Numbered, Standing, HistoryIsKept, VersionsAreNumbered,
       StandingTextIsKept
  <1> QED  BY <1>1, <1>2, <1>3, PTL DEF NotesSpec

HIDE NotesAssumption DEF NotesAssumption

-----------------------------------------------------------------------------

USE SessionsAssumption DEF SessionsAssumption

(* The sessions of a user.                                                 *)

\* Every session that goes on has a token of its own.
TokensAreOwn ==
    \A d, e \in Devices :
        session[d].pc = "in" /\ session[e].pc = "in" /\ session[d].token = session[e].token => d = e

\* A key that a sign-out has to take it has found, as long as it is under way.
OutIsFound ==
    \A d \in out : session[d].token \in keys => sweep.pc # "off" /\ session[d].token \in sweep.found

\* A session that was to end is not about to get a token.
OutIsIdle == \A d \in out : session[d].pc # "issue"

\* A token that was exchanged is no key, and a device that is in has a key unless it lapsed.
OneChain ==
    /\ exchanged \cap keys = {}
    /\ \A d \in Devices : session[d].pc = "in" => session[d].token \in keys \/ d \in lapsed

\* The invariant; the history of a session is open once the same token was exchanged twice.
Chains      == OneChain /\ TokensAreOwn /\ OutIsFound /\ OutIsIdle

\* The invariant; where a token was exchanged twice, only the types.
SessionsInv == SessionsTypeOK /\ (twins \/ Chains)

\* The types: a device has a token of the clock or none.
LEMMA SessionStepTypes ==
    ASSUME SessionsTypeOK, [SessionsNext]_sessionVars
    PROVE  SessionsTypeOK'
  <1> USE DEF SessionsTypeOK
  <1>1. SignedOut \in Session /\ second \in Token /\ NoSweep \in [pc : {"off", "scan", "delete"}, found : SUBSET Token]
    BY DEF SignedOut, Session, NoSweep
  <1>2. \A S : HeldBy(S) \subseteq Devices
    BY DEF HeldBy
  <1>3. ASSUME NEW d \in Devices, Enter(d) \/ Refresh(d) \/ Issue(d) \/ IssueFails(d) \/ Logout(d)
        PROVE  SessionsTypeOK'
    <2>1. /\ session[d] \in Session
          /\ [session[d] EXCEPT !.pc = "issue"] \in Session
          /\ session[d].pc = "in" /\ session[d].token \in keys => session[d].token \in Token
          /\ [pc |-> "in", token |-> second] \in Session
      BY <1>1 DEF Session
    <2>2. session' \in [Devices -> Session]
      BY <1>1, <1>3, <2>1 DEF Enter, Refresh, Issue, IssueFails, Logout
    <2>3. /\ keys' \subseteq Token /\ exchanged' \subseteq Token /\ UNCHANGED <<second, sweep>>
          /\ lapsed' \subseteq Devices /\ out' \subseteq Devices
          /\ account' \in {"none", "active", "deleted"}
      BY <1>1, <1>3, <2>1 DEF Enter, Refresh, Issue, IssueFails, Logout, TakenKeys
    <2>4. twins' \in BOOLEAN
      BY <1>3 DEF Enter, Refresh, Issue, IssueFails, Logout, Twin
    <2> QED  BY <2>2, <2>3, <2>4
  <1>4. ASSUME NEW t \in Token, Replay(t) \/ Expire(t)
        PROVE  SessionsTypeOK'
    BY <1>2, <1>4 DEF Replay, Expire, TakenKeys
  <1>5. CASE SweepStart \/ SweepScanned \/ SweepDelete \/ DeleteAccount
    BY <1>1, <1>2, <1>5 DEF SweepStart, SweepScanned, SweepDelete, DeleteAccount
  <1>6. CASE Tick
    BY <1>6 DEF Tick, Token
  <1>7. CASE UNCHANGED sessionVars
    BY <1>7 DEF sessionVars
  <1> QED  BY <1>3, <1>4, <1>5, <1>6, <1>7 DEF SessionsNext

\* A device that enters, leaves or exchanges its token touches the key of no other.
LEMMA DeviceChains ==
    ASSUME SessionsTypeOK, Chains, NEW d \in Devices, ~twins',
           Enter(d) \/ Refresh(d) \/ Issue(d) \/ IssueFails(d) \/ Logout(d)
    PROVE  Chains'
  <1> USE DEF SessionsTypeOK, Chains, OneChain, TokensAreOwn, OutIsFound, OutIsIdle
  <1>1. \A e \in Devices : session[e] \in Session
    OBVIOUS
  <1>2. SignedOut.pc = "out" /\ SignedOut.token \notin Token
    BY DEF SignedOut, Token
  <1>3. CASE Enter(d)
    <2>1. /\ session'[d].pc = "issue"
          /\ \A e \in Devices \ {d} : session'[e] = session[e]
          /\ UNCHANGED <<keys, exchanged, lapsed, sweep>> /\ out' = out \ {d}
      BY <1>1, <1>3 DEF Enter, Session
    <2> QED  BY <1>1, <2>1
  <1>4. CASE Refresh(d)
    <2> DEFINE t == session[d].token
    <2>1. /\ session[d].pc = "in" /\ keys' = keys \ {t} /\ lapsed' = lapsed \ {d}
          /\ \A e \in Devices \ {d} : session'[e] = session[e]
          /\ UNCHANGED sweep
      BY <1>4 DEF Refresh, TakenKeys
    <2>2. \A e \in Devices \ {d} : session[e].pc = "in" => session[e].token # t
      BY <2>1
    <2>3. CASE t \in keys
      <3>1. session'[d].pc = "issue" /\ session'[d].token = t /\ exchanged' = exchanged \cup {t}
        BY <1>1, <1>4, <2>3 DEF Refresh, Session
      <3>2. d \notin out'
        BY <1>4, <2>1, <2>3 DEF Refresh
      <3>3. out' \subseteq out
        BY <1>4 DEF Refresh
      <3> QED  BY <2>1, <2>2, <3>1, <3>2, <3>3
    <2>4. CASE t \notin keys
      <3>1. session'[d] = SignedOut /\ exchanged' = exchanged
        BY <1>4, <2>4 DEF Refresh
      <3>2. out' \subseteq out
        BY <1>4 DEF Refresh
      <3> QED  BY <1>2, <2>1, <3>1, <3>2
    <2> QED  BY <2>3, <2>4
  <1>5. ASSUME ~Twin
        PROVE  second \notin keys \cup exchanged /\ \A e \in Devices : session[e].token # second
    BY <1>5 DEF Twin
  <1>6. CASE Issue(d)
    <2>1. /\ session[d].pc = "issue" /\ keys' = keys \cup {second} /\ ~Twin
          /\ session'[d].pc = "in" /\ session'[d].token = second
          /\ \A e \in Devices \ {d} : session'[e] = session[e]
          /\ UNCHANGED <<exchanged, lapsed, sweep, out>>
      BY <1>6 DEF Issue
    <2> QED  BY <1>5, <2>1
  <1>7. CASE IssueFails(d)
    <2>1. /\ session'[d] = SignedOut
          /\ \A e \in Devices \ {d} : session'[e] = session[e]
          /\ UNCHANGED <<exchanged, lapsed, sweep, out>>
          /\ keys' = keys \/ (keys' = keys \cup {second} /\ ~Twin)
      BY <1>7 DEF IssueFails
    <2> QED  BY <1>2, <1>5, <2>1
  <1>8. CASE Logout(d)
    <2>1. /\ session[d].pc = "in" /\ keys' = keys \ {session[d].token} /\ lapsed' = lapsed \ {d}
          /\ session'[d] = SignedOut
          /\ \A e \in Devices \ {d} : session'[e] = session[e]
          /\ UNCHANGED <<exchanged, sweep, out>>
      BY <1>8 DEF Logout
    <2> QED  BY <1>2, <2>1
  <1> QED  BY <1>3, <1>4, <1>6, <1>7, <1>8

\* Neither do Redis, a sign-out, a replay and the clock, but for keys whose sessions lapse.
LEMMA OtherChains ==
    ASSUME SessionsTypeOK, Chains,
           \/ \E t \in Token : Replay(t) \/ Expire(t)
           \/ SweepStart \/ SweepScanned \/ SweepDelete \/ DeleteAccount \/ Tick
    PROVE  Chains'
  <1> USE DEF SessionsTypeOK, Chains, OneChain, TokensAreOwn, OutIsFound, OutIsIdle
  <1>1. ASSUME NEW t \in Token, Replay(t)
        PROVE  Chains'
    <2>1. keys' = keys
      BY <1>1 DEF Replay, TakenKeys
    <2> QED  BY <1>1, <2>1 DEF Replay
  <1>2. ASSUME NEW t \in Token, Expire(t)
        PROVE  Chains'
    BY <1>2 DEF Expire, HeldBy
  <1>3. CASE SweepStart
    <2>1. /\ sweep'.pc = "scan" /\ sweep'.found = keys
          /\ \A d \in out' : session[d].pc = "in"
          /\ UNCHANGED <<keys, session, exchanged, lapsed>>
      BY <1>3 DEF SweepStart
    <2> QED  BY <2>1
  <1>4. CASE SweepScanned
    <2>1. sweep'.pc = "delete" /\ sweep.found \cap keys \subseteq sweep'.found
      BY <1>4 DEF SweepScanned
    <2> QED  BY <1>4, <2>1 DEF SweepScanned
  <1>5. CASE SweepDelete
    <2>1. OutIsFound'
      BY <1>5 DEF SweepDelete
    <2> QED  BY <1>5, <2>1 DEF SweepDelete, HeldBy
  <1>6. CASE DeleteAccount \/ Tick
    BY <1>6 DEF DeleteAccount, Tick
  <1> QED  BY <1>1, <1>2, <1>3, <1>4, <1>5, <1>6

\* A token is accepted until it is exchanged, lapses or is swept, and a sign-out everywhere ends
\* every session that had begun, however many devices exchange their tokens meanwhile.
THEOREM SessionsAreChains == SessionsSpec => []SessionsHold
  <1>1. SessionsInit => SessionsInv
    <2> SUFFICES ASSUME SessionsInit
                 PROVE  SessionsInv
      OBVIOUS
    <2>1. SignedOut \in Session /\ SignedOut.pc = "out"
      BY DEF SignedOut, Session
    <2>2. SessionsTypeOK
      <3>1. session \in [Devices -> Session] /\ second \in Token
        BY <2>1 DEF SessionsInit, Token
      <3>2. sweep \in [pc : {"off", "scan", "delete"}, found : SUBSET Token]
        BY DEF SessionsInit, NoSweep
      <3> QED  BY <3>1, <3>2 DEF SessionsInit, SessionsTypeOK
    <2>3. Chains
      BY <2>1 DEF SessionsInit, Chains, OneChain, TokensAreOwn, OutIsFound, OutIsIdle
    <2> QED  BY <2>2, <2>3 DEF SessionsInv
  <1>2. SessionsInv /\ [SessionsNext]_sessionVars => SessionsInv'
    <2> SUFFICES ASSUME SessionsTypeOK, [SessionsNext]_sessionVars, ~twins => Chains, ~twins'
                 PROVE  Chains'
      BY SessionStepTypes DEF SessionsInv
    <2>1. ~twins
      BY DEF SessionsTypeOK, SessionsNext, sessionVars, Enter, Refresh, Issue, IssueFails, Logout, Replay,
         Expire, SweepStart, SweepScanned, SweepDelete, DeleteAccount, Tick
    <2>2. CASE UNCHANGED sessionVars
      BY <2>1, <2>2 DEF sessionVars, Chains, OneChain, TokensAreOwn, OutIsFound, OutIsIdle
    <2> QED  BY <2>1, <2>2, DeviceChains, OtherChains DEF SessionsNext
  <1>3. SessionsInv => SessionsHold
    BY DEF SessionsInv, Chains, OneChain, OutIsFound, SessionsHold, SessionIsOneChain, SignedOutIsOut
  <1> QED  BY <1>1, <1>2, <1>3, PTL DEF SessionsSpec

HIDE SessionsAssumption DEF SessionsAssumption

-----------------------------------------------------------------------------
(* Chats that are paired and workspaces that are connected.                  *)

USE IntegrationsAssumption

\* A connection that can be read has a workspace, and as long as nobody moves it what is exported
\* goes to pages of that workspace.
ParentIsOwn ==
    /\ connection.readable => connection.workspace \in Workspaces
    /\ ~moved => /\ connection.parent \in {Nobody, connection.workspace}
                 /\ seenPages \subseteq {connection.workspace}

\* A row holds the owner of the code it was paired with, which is used up.
CodesAreUsed ==
    /\ \A c \in Codes : code[c].state # "none" => code[c].owner \in Users
    /\ \A i \in DOMAIN bindings : /\ code[bindings[i].key].state = "consumed"
                                  /\ bindings[i].owner = code[bindings[i].key].owner

\* Who unpairs a chat has read a row of its own, unless the chat is shared.
RowsAreOwn ==
    \A u \in Users : unpairing[u] # 0 =>
        /\ unpairing[u] \in DOMAIN bindings
        /\ ~shared => bindings[unpairing[u]].owner = u

\* A chat has one live row at most.
OneIsLive ==
    \A i, j \in DOMAIN bindings :
        bindings[i].live /\ bindings[j].live /\ bindings[i].chat = bindings[j].chat => i = j

\* The invariant, for the chats and for Notion.
ChatsInv == CodesAreUsed /\ RowsAreOwn /\ OneIsLive /\ PairingIsExclusive
NotionInv == ParentIsOwn /\ ExportsStayInWorkspace

\* The types of both halves, the part of the type invariant that a step of the other leaves alone.
ChatsTyped ==
    /\ code \in [Codes -> PairingCode]
    /\ revokedKeys \subseteq Codes
    /\ bindings \in Seq(Binding)
    /\ pairing \in [Chats -> Codes \cup {Nobody}]
    /\ unpairing \in [Users -> 0..MaxBindings]
    /\ shared \in BOOLEAN

NotionTyped ==
    /\ connection \in Connection
    /\ seenPages \subseteq Workspaces
    /\ moved \in BOOLEAN
    /\ exports \subseteq Workspaces \X Workspaces

AccessInv == ChatsTyped /\ NotionTyped /\ ChatsInv /\ NotionInv

\* Notion: a connection is made, refreshed, moved, removed, and a page is exported.
LEMMA NotionStep == NotionTyped /\ NotionInv /\ NotionNext => (NotionTyped /\ NotionInv)'
<1> SUFFICES ASSUME NotionTyped, NotionInv, NotionNext PROVE (NotionTyped /\ NotionInv)'
    OBVIOUS
<1> USE DEF NotionTyped, NotionInv, ParentIsOwn, ExportsStayInWorkspace, Connection
<1>1. ASSUME NEW w \in Workspaces, Connect(w) PROVE (NotionTyped /\ NotionInv)'
    <2>1. connection' = [on |-> TRUE, workspace |-> w, parent |-> connection.parent, readable |-> TRUE]
          /\ moved' = (moved \/ ~(seenPages \cup {connection.workspace} \subseteq {w, Nobody}))
          /\ seenPages' = seenPages /\ exports' = exports
        BY <1>1 DEF Connect
    <2> QED BY <2>1
<1>2. ASSUME NEW p \in Workspaces \cup {Nobody}, SetParent(p) PROVE (NotionTyped /\ NotionInv)'
    <2>1. connection' = [connection EXCEPT !.parent = p]
          /\ p \in seenPages \cup {Nobody}
          /\ moved' = moved /\ seenPages' = seenPages /\ exports' = exports
        BY <1>2 DEF SetParent
    <2> QED BY <2>1
<1>3. ASSUME Disconnect PROVE (NotionTyped /\ NotionInv)'
    BY <1>3 DEF Disconnect, NoConnection
<1>4. ASSUME ChangeSecret PROVE (NotionTyped /\ NotionInv)'
    BY <1>4 DEF ChangeSecret
<1>5. ASSUME SearchPages PROVE (NotionTyped /\ NotionInv)'
    BY <1>5 DEF SearchPages
<1>6. ASSUME ExportPage PROVE (NotionTyped /\ NotionInv)'
    BY <1>6 DEF ExportPage
<1> QED BY <1>1, <1>2, <1>3, <1>4, <1>5, <1>6 DEF NotionNext

\* A place of the table holds a row.
LEMMA RowTyped ==
    ASSUME bindings \in Seq(Binding), NEW i \in DOMAIN bindings
    PROVE  bindings[i] \in Binding
BY LenProperties, ElementOfSeq

\* What a pairing makes of the rows: the live row of the chat is replaced, or a row is added.
LEMMA RowsOfBind ==
    ASSUME ChatsTyped, OneIsLive, NEW chat \in Chats, NEW c \in Codes, code[c].owner \in Users,
           NEW b, b = [chat |-> chat, owner |-> code[c].owner, key |-> c, live |-> TRUE]
    PROVE  /\ Bind(chat, c) \in Seq(Binding)
           /\ DOMAIN bindings \subseteq DOMAIN Bind(chat, c)
           /\ \E n \in DOMAIN Bind(chat, c) :
                 /\ Bind(chat, c)[n] = b
                 /\ \A i \in DOMAIN Bind(chat, c) \ {n} :
                       /\ i \in DOMAIN bindings /\ Bind(chat, c)[i] = bindings[i]
                       /\ i \notin LiveAt(chat)
                 /\ n \in DOMAIN bindings => n \in LiveAt(chat)
<1> DEFINE s == Bind(chat, c)
<1>1. b \in Binding
    BY DEF Binding, ChatsTyped
<1>2. bindings \in Seq(Binding) /\ DOMAIN bindings = 1..Len(bindings) /\ Len(bindings) \in Nat
    BY LenProperties DEF ChatsTyped
<1>3. CASE LiveAt(chat) = {}
    <2>1. s = Append(bindings, b)
        BY <1>3 DEF Bind
    <2>2. s \in Seq(Binding) /\ Len(s) = Len(bindings) + 1 /\ s[Len(bindings) + 1] = b
          /\ \A i \in 1..Len(bindings) : s[i] = bindings[i]
        BY <2>1, <1>1, <1>2, AppendProperties
    <2>3. DOMAIN s = 1..(Len(bindings) + 1)
        BY <2>2, LenProperties
    <2> HIDE DEF s
    <2>4. DOMAIN bindings \subseteq DOMAIN s /\ (Len(bindings) + 1) \in DOMAIN s
          /\ \A i \in DOMAIN s \ {Len(bindings) + 1} : i \in DOMAIN bindings
          /\ Len(bindings) + 1 \notin DOMAIN bindings
        BY <2>3, <1>2
    <2> QED BY <2>2, <2>4, <1>2, <1>3 DEF s
<1>4. CASE LiveAt(chat) # {}
    <2>1. PICK n \in DOMAIN bindings : bindings[n].chat = chat /\ bindings[n].live
        BY <1>4 DEF LiveAt
    <2>2. LiveAt(chat) = {n}
        BY <2>1 DEF LiveAt, OneIsLive
    <2>3. s = [i \in DOMAIN bindings |-> IF i \in LiveAt(chat) THEN b ELSE bindings[i]]
        BY <1>4 DEF Bind
    <2>4. \A i \in 1..Len(bindings) : bindings[i] \in Binding
        BY <1>2, ElementOfSeq
    <2>5. s \in Seq(Binding)
        BY <2>3, <1>1, <2>4, <1>2, SeqDef
    <2>6. DOMAIN s = DOMAIN bindings /\ s[n] = b /\ \A i \in DOMAIN s \ {n} : s[i] = bindings[i]
        BY <2>3, <2>2, <2>1
    <2> HIDE DEF s
    <2> QED BY <2>1, <2>2, <2>5, <2>6 DEF s
<1> QED BY <1>3, <1>4

\* A pairing writes its row: the code is used up, and no other row of the chat stays live.
LEMMA PairStep ==
    ASSUME ChatsTyped, ChatsInv, NEW chat \in Chats, PairWrite(chat)
    PROVE  (ChatsTyped /\ ChatsInv)'
<1> DEFINE c == pairing[chat]
<1>1. c \in Codes /\ revokedKeys' = revokedKeys /\ unpairing' = unpairing
      /\ pairing' = [pairing EXCEPT ![chat] = Nobody]
    BY DEF PairWrite, ChatsTyped
<1>2. CASE UNCHANGED <<code, bindings, shared>>
    BY <1>1, <1>2 DEF ChatsTyped, ChatsInv, CodesAreUsed, RowsAreOwn, OneIsLive, PairingIsExclusive
<1>3. CASE ~UNCHANGED <<code, bindings, shared>>
    <2>1. /\ code[c].state # "none"
          /\ code' = [code EXCEPT ![c].state = "consumed"]
          /\ bindings' = Bind(chat, c)
          /\ shared' = (\/ shared \/ code[c].state = "consumed"
                        \/ \E u \in Users : unpairing[u] \in LiveAt(chat))
        BY <1>3 DEF PairWrite
    <2>2. code[c] \in PairingCode /\ code[c].owner \in Users
        BY <2>1, <1>1 DEF ChatsTyped, ChatsInv, CodesAreUsed
    <2>3. code' \in [Codes -> PairingCode]
        BY <2>1, <2>2, <1>1 DEF ChatsTyped, PairingCode
    <2>4. /\ \A x \in Codes : code'[x].owner = code[x].owner
          /\ \A x \in Codes : code[x].state = "consumed" => code'[x].state = "consumed"
          /\ \A x \in Codes : code'[x].state # "none" => code[x].state # "none"
          /\ code'[c].state = "consumed"
        BY <2>1, <2>2, <1>1 DEF ChatsTyped, PairingCode
    <2>5. PICK b : b = [chat |-> chat, owner |-> code[c].owner, key |-> c, live |-> TRUE]
        OBVIOUS
    <2>6. /\ bindings' \in Seq(Binding)
          /\ DOMAIN bindings \subseteq DOMAIN bindings'
          /\ \E n \in DOMAIN bindings' :
                 /\ bindings'[n] = b
                 /\ \A i \in DOMAIN bindings' \ {n} :
                       /\ i \in DOMAIN bindings /\ bindings'[i] = bindings[i]
                       /\ i \notin LiveAt(chat)
                 /\ n \in DOMAIN bindings => n \in LiveAt(chat)
        BY <1>1, <2>1, <2>2, <2>5, RowsOfBind DEF ChatsInv
    <2>7. PICK n \in DOMAIN bindings' :
                 /\ bindings'[n] = b
                 /\ \A i \in DOMAIN bindings' \ {n} :
                       /\ i \in DOMAIN bindings /\ bindings'[i] = bindings[i]
                       /\ i \notin LiveAt(chat)
                 /\ n \in DOMAIN bindings => n \in LiveAt(chat)
        BY <2>6
    <2>8. b.chat = chat /\ b.owner = code[c].owner /\ b.key = c /\ b.live
        BY <2>5
    <2>9. \A i \in DOMAIN bindings : bindings[i] \in Binding /\ bindings[i].key \in Codes
        BY RowTyped DEF ChatsTyped, Binding
    <2> HIDE DEF c
    <2>10. ChatsTyped'
        BY <1>1, <2>3, <2>6, <2>1 DEF ChatsTyped
    <2>11. CodesAreUsed'
        <3>1. \A x \in Codes : code'[x].state # "none" => code'[x].owner \in Users
            BY <2>4, <2>1, <2>2 DEF ChatsInv, CodesAreUsed
        <3>2. ASSUME NEW i \in DOMAIN bindings'
              PROVE  code'[bindings'[i].key].state = "consumed" /\ bindings'[i].owner = code'[bindings'[i].key].owner
            <4>1. CASE i = n
                BY <4>1, <2>7, <2>8, <2>4, <1>1
            <4>2. CASE i # n
                BY <4>2, <2>7, <2>9, <2>4 DEF ChatsInv, CodesAreUsed
            <4> QED BY <4>1, <4>2
        <3> QED BY <3>1, <3>2 DEF CodesAreUsed
    <2>12. RowsAreOwn'
        BY <1>1, <2>1, <2>6, <2>7 DEF ChatsInv, RowsAreOwn
    <2>13. OneIsLive'
        <3>1. \A i \in DOMAIN bindings' \ {n} :
                 bindings'[i].live => bindings'[i].chat # chat
            BY <2>7 DEF LiveAt
        <3> QED BY <3>1, <2>7, <2>8 DEF ChatsInv, OneIsLive
    <2>14. PairingIsExclusive'
        <3> SUFFICES ASSUME ~shared'
                     PROVE  /\ \A i, j \in DOMAIN bindings' : bindings'[i].key = bindings'[j].key => i = j
                            /\ \A i \in DOMAIN bindings' : ~bindings'[i].live => bindings'[i].key \in revokedKeys'
            BY DEF PairingIsExclusive
        <3>1. ~shared /\ code[c].state # "consumed"
            BY <2>1
        <3>2. \A i \in DOMAIN bindings : bindings[i].key # c
            BY <3>1 DEF ChatsInv, CodesAreUsed
        <3> QED BY <3>1, <3>2, <2>7, <2>8, <1>1 DEF ChatsInv, PairingIsExclusive
    <2> QED BY <2>10, <2>11, <2>12, <2>13, <2>14 DEF ChatsInv
<1> QED BY <1>2, <1>3

\* Who unpairs ends the row it read.
LEMMA UnpairStep ==
    ASSUME ChatsTyped, ChatsInv, NEW u \in Users, UnpairWrite(u)
    PROVE  (ChatsTyped /\ ChatsInv)'
<1>1. PICK i : i = unpairing[u]
    OBVIOUS
<1>2. i \in DOMAIN bindings /\ (~shared => bindings[i].owner = u)
    BY <1>1 DEF UnpairWrite, ChatsInv, RowsAreOwn
<1>3. /\ bindings' = [bindings EXCEPT ![i].live = FALSE]
      /\ revokedKeys' = revokedKeys \cup KeysToRevoke(u, i)
      /\ unpairing' = [unpairing EXCEPT ![u] = 0]
      /\ code' = code /\ pairing' = pairing /\ shared' = shared
    BY <1>1 DEF UnpairWrite
<1>4. \A j \in DOMAIN bindings : bindings[j] \in Binding
    BY RowTyped DEF ChatsTyped
<1>5. bindings' \in Seq(Binding) /\ DOMAIN bindings' = DOMAIN bindings
    <2>1. [bindings[i] EXCEPT !.live = FALSE] \in Binding
        BY <1>2, <1>4 DEF Binding
    <2>2. bindings \in Seq(Binding) /\ DOMAIN bindings = 1..Len(bindings)
        BY LenProperties DEF ChatsTyped
    <2> QED BY <1>2, <1>3, <2>1, <2>2, ExceptSeq
<1>6. /\ \A j \in DOMAIN bindings : /\ bindings'[j].key = bindings[j].key
                                    /\ bindings'[j].owner = bindings[j].owner
                                    /\ bindings'[j].chat = bindings[j].chat
                                    /\ j # i => bindings'[j].live = bindings[j].live
      /\ bindings'[i].live = FALSE
    BY <1>2, <1>3, <1>4 DEF Binding
<1>7. bindings[i].key \in Codes /\ KeysToRevoke(u, i) \subseteq Codes
    BY <1>2, <1>4 DEF Binding, KeysToRevoke
<1>8. ~shared => bindings[i].key \in revokedKeys'
    BY <1>2, <1>3 DEF KeysToRevoke, ChatsInv, CodesAreUsed
<1>9. ChatsTyped'
    BY <1>3, <1>5, <1>7 DEF ChatsTyped
<1>10. CodesAreUsed' /\ OneIsLive'
    BY <1>3, <1>5, <1>6 DEF ChatsInv, CodesAreUsed, OneIsLive
<1>11. RowsAreOwn'
    BY <1>3, <1>5, <1>6 DEF ChatsInv, RowsAreOwn, ChatsTyped
<1>12. PairingIsExclusive'
    BY <1>3, <1>5, <1>6, <1>8 DEF ChatsInv, PairingIsExclusive
<1> QED BY <1>9, <1>10, <1>11, <1>12 DEF ChatsInv

\* The other steps of the chats write no row.
LEMMA ChatsStep == ChatsTyped /\ ChatsInv /\ ChatsNext => (ChatsTyped /\ ChatsInv)'
<1> SUFFICES ASSUME ChatsTyped, ChatsInv, ChatsNext PROVE (ChatsTyped /\ ChatsInv)'
    OBVIOUS
<1>a. \A i \in DOMAIN bindings : bindings[i] \in Binding /\ bindings[i].key \in Codes
    BY RowTyped DEF ChatsTyped, Binding
<1>1. ASSUME NEW u \in Users, NEW c \in Codes, CreateCode(u, c) PROVE (ChatsTyped /\ ChatsInv)'
    <2>1. /\ code' = [code EXCEPT ![c] = [state |-> "open", owner |-> u, old |-> FALSE]]
          /\ code[c].state = "none"
          /\ UNCHANGED <<revokedKeys, bindings, pairing, unpairing, shared>>
        BY <1>1 DEF CreateCode
    <2>2. ChatsTyped'
        BY <2>1 DEF ChatsTyped, PairingCode
    <2>3. CodesAreUsed'
        BY <2>1, <1>a DEF ChatsTyped, ChatsInv, CodesAreUsed
    <2>4. RowsAreOwn' /\ OneIsLive' /\ PairingIsExclusive'
        BY <2>1 DEF ChatsInv, RowsAreOwn, OneIsLive, PairingIsExclusive
    <2> QED BY <2>2, <2>3, <2>4 DEF ChatsInv
<1>2. ASSUME NEW c \in Codes, CodeAges(c) PROVE (ChatsTyped /\ ChatsInv)'
    <2>1. /\ code' = [code EXCEPT ![c].old = TRUE]
          /\ UNCHANGED <<revokedKeys, bindings, pairing, unpairing, shared>>
        BY <1>2 DEF CodeAges
    <2>2. ChatsTyped'
        BY <2>1 DEF ChatsTyped, PairingCode
    <2>3. \A x \in Codes : code'[x].owner = code[x].owner /\ code'[x].state = code[x].state
        BY <2>1 DEF ChatsTyped, PairingCode
    <2>4. CodesAreUsed'
        BY <2>1, <2>3, <1>a DEF ChatsInv, CodesAreUsed
    <2>5. RowsAreOwn' /\ OneIsLive' /\ PairingIsExclusive'
        BY <2>1 DEF ChatsInv, RowsAreOwn, OneIsLive, PairingIsExclusive
    <2> QED BY <2>2, <2>4, <2>5 DEF ChatsInv
<1>3. ASSUME NEW chat \in Chats, NEW c \in Codes, PairRead(chat, c) PROVE (ChatsTyped /\ ChatsInv)'
    BY <1>3 DEF PairRead, ChatsTyped, ChatsInv, CodesAreUsed, RowsAreOwn, OneIsLive, PairingIsExclusive
<1>4. ASSUME NEW u \in Users, NEW i \in 1..MaxBindings, UnpairRead(u, i) PROVE (ChatsTyped /\ ChatsInv)'
    BY <1>4 DEF UnpairRead, ChatsTyped, ChatsInv, CodesAreUsed, RowsAreOwn, OneIsLive, PairingIsExclusive
<1>5. ASSUME NEW u \in Users, NEW c \in Codes, RevokeKey(u, c) PROVE (ChatsTyped /\ ChatsInv)'
    BY <1>5 DEF RevokeKey, ChatsTyped, ChatsInv, CodesAreUsed, RowsAreOwn, OneIsLive, PairingIsExclusive
<1> QED BY <1>1, <1>2, <1>3, <1>4, <1>5, PairStep, UnpairStep DEF ChatsNext

\* A step of one half leaves the other alone.
LEMMA AccessStep == AccessInv /\ [IntegrationsNext]_integrationVars => AccessInv'
<1> SUFFICES ASSUME AccessInv, [IntegrationsNext]_integrationVars PROVE AccessInv'
    OBVIOUS
<1>1. UNCHANGED notionVars => (NotionTyped /\ NotionInv)'
    BY DEF AccessInv, NotionTyped, NotionInv, ParentIsOwn, ExportsStayInWorkspace, notionVars
<1>2. UNCHANGED chatVars => (ChatsTyped /\ ChatsInv)'
    BY DEF AccessInv, ChatsTyped, ChatsInv, CodesAreUsed, RowsAreOwn, OneIsLive, PairingIsExclusive, chatVars
<1>3. CASE ChatsNext
    <2>1. UNCHANGED notionVars
        BY <1>3 DEF ChatsNext, CreateCode, RevokeKey, CodeAges, PairRead, PairWrite, UnpairRead, UnpairWrite
    <2> QED BY <2>1, <1>1, <1>3, ChatsStep DEF AccessInv
<1>4. CASE NotionNext
    <2>1. UNCHANGED chatVars
        BY <1>4 DEF NotionNext, Connect, SetParent, Disconnect, ChangeSecret, SearchPages, ExportPage
    <2> QED BY <2>1, <1>2, <1>4, NotionStep DEF AccessInv
<1>5. CASE UNCHANGED integrationVars
    BY <1>1, <1>2, <1>5 DEF integrationVars, AccessInv
<1> QED BY <1>3, <1>4, <1>5 DEF IntegrationsNext

\* Nothing is paired or connected at first.
LEMMA AccessInit == IntegrationsInit => AccessInv
<1> SUFFICES ASSUME IntegrationsInit PROVE AccessInv
    OBVIOUS
<1>1. NotionTyped /\ NotionInv
    BY DEF IntegrationsInit, NotionTyped, NotionInv, ParentIsOwn, ExportsStayInWorkspace, NoConnection, Connection
<1>2. \A c \in Codes : code[c] = [state |-> "none", owner |-> Nobody, old |-> FALSE]
    BY DEF IntegrationsInit
<1>3. bindings = <<>> /\ DOMAIN bindings = {} /\ bindings \in Seq(Binding)
    BY DEF IntegrationsInit
<1>4. ChatsTyped
    <2>1. code \in [Codes -> PairingCode]
        BY DEF IntegrationsInit, PairingCode
    <2>2. unpairing \in [Users -> 0..MaxBindings]
        BY 0 \in 0..MaxBindings DEF IntegrationsInit
    <2> QED BY <1>3, <2>1, <2>2 DEF IntegrationsInit, ChatsTyped
<1>5. ChatsInv
    BY <1>2, <1>3 DEF IntegrationsInit, ChatsInv, CodesAreUsed, RowsAreOwn, OneIsLive, PairingIsExclusive
<1> QED BY <1>1, <1>4, <1>5 DEF AccessInv

\* For any users, chats, codes and workspaces: a chat is paired with whoever it was paired by, with
\* nobody after it was unpaired, and no page is exported to a workspace that its owner did not connect.
THEOREM AccessStaysBound == IntegrationsSpec => []AccessIsBound
<1>1. AccessInv => AccessIsBound
    BY DEF AccessInv, ChatsInv, NotionInv, AccessIsBound
<1> QED BY <1>1, AccessInit, AccessStep, PTL DEF IntegrationsSpec

\* The types, from the same invariant: a row that is looked up is in the table.
THEOREM AccessIsTyped == IntegrationsSpec => []IntegrationsTypeOK
<1>1. AccessInv => IntegrationsTypeOK
    BY DEF AccessInv, ChatsTyped, NotionTyped, IntegrationsTypeOK
<1> QED BY <1>1, AccessInit, AccessStep, PTL DEF IntegrationsSpec

HIDE IntegrationsAssumption

-----------------------------------------------------------------------------
(* What the bot tells a chat.                                                *)

USE BotAssumption

\* An update that waits has no answer yet; only a message with something to take is accepted; who
\* is told that it is paired has seen the code consumed; and what was answered is stored.
QueuedIsBare == \A u \in Updates : update[u].pc \in {"none", "queued"} => update[u].reply = "none"
OnlyItems == \A u \in Updates : Told(u, "accepted") => u[1] \in Items
PairedIsSeen ==
    pairCode = "ours" => \E v \in Updates : update[v].reply = "paired" \/ v \in disturbed
ItemsAreKept ==
    \A u \in Updates : update[u].pc \in {"reply", "done"} /\ u[1] \in Items =>
        stored[u[1]] # 0 \/ update[u].reply = "unpaired"
BotInv == BotTypeOK /\ QueuedIsBare /\ OnlyItems /\ PairedIsSeen /\ ItemsAreKept /\ RepliesAreTrue

\* An update about an item is its first or its second.
LEMMA AcceptedHolds ==
    ASSUME BotTypeOK, NEW u \in Updates, u[1] \in Items
    PROVE  Key(u) \in {1, 2}
<1>1. u \in (Items \X {1, 2}) \cup (PairMessages \X {1})
    BY DEF Updates
<1>2. u[2] \in {1, 2}
    BY <1>1
<1> QED BY <1>2 DEF Key, BotTypeOK

\* What an update can be.
UpdateType == [pc : {"none", "queued", "reply", "done"},
               reply : {"none", "accepted", "unpaired", "paired", "invalid"}]

\* How an update that is raised, or answered, moves on: the others stay as they are.
LEMMA RaiseFacts ==
    ASSUME BotTypeOK, NEW u \in Updates, Raise(u)
    PROVE  /\ update' \in [Updates -> UpdateType] /\ botFaults' \in 0..MaxBotFaults
           /\ update'[u].pc = "queued" /\ update'[u].reply = "none"
           /\ \A v \in Updates \ {u} : update'[v] = update[v]
           /\ disturbed' = disturbed \cup {u}
<1>1. update \in [Updates -> UpdateType]
    BY DEF BotTypeOK, UpdateType
<1>2. [pc |-> "queued", reply |-> "none"] \in UpdateType
    BY DEF UpdateType
<1>3. botFaults' \in 0..MaxBotFaults
    BY DEF Raise, BotFault, BotTypeOK
<1>4. update'[u] = [pc |-> "queued", reply |-> "none"]
      /\ \A v \in Updates \ {u} : update'[v] = update[v]
    BY <1>1 DEF Raise
<1> QED BY <1>1, <1>2, <1>3, <1>4 DEF Raise

\* How an update gets its answer.
LEMMA ReplyFacts ==
    ASSUME BotTypeOK, NEW u \in Updates, NEW t \in {"accepted", "unpaired", "paired", "invalid"},
           Reply(u, t)
    PROVE  /\ update' \in [Updates -> UpdateType]
           /\ update'[u] = [pc |-> "reply", reply |-> t]
           /\ update'[u].pc = "reply" /\ update'[u].reply = t
           /\ \A v \in Updates \ {u} : update'[v] = update[v]
<1>1. update \in [Updates -> UpdateType]
    BY DEF BotTypeOK, UpdateType
<1>2. [pc |-> "reply", reply |-> t] \in UpdateType
    BY DEF UpdateType
<1>4. update'[u] = [pc |-> "reply", reply |-> t]
      /\ \A v \in Updates \ {u} : update'[v] = update[v]
    BY <1>1 DEF Reply
<1> QED BY <1>1, <1>2, <1>4 DEF Reply

\* What is left to show of a step that does not answer u: the chat is not told more.
LEMMA RaiseStep ==
    ASSUME BotInv, NEW u \in Updates, Waits(u), Raise(u), replies' = replies,
           stored' \in [Items -> 0..2], \A m \in Items : stored[m] # 0 => stored'[m] # 0,
           pairCode' \in {"open", "ours", "other", "expired"}, bound' \in BOOLEAN,
           pairCode # "open" => pairCode' = pairCode
    PROVE  BotInv'
<1>1. /\ update' \in [Updates -> UpdateType] /\ botFaults' \in 0..MaxBotFaults
      /\ update'[u].pc = "queued" /\ update'[u].reply = "none"
      /\ \A v \in Updates \ {u} : update'[v] = update[v]
      /\ disturbed' = disturbed \cup {u}
    BY RaiseFacts DEF BotInv
<1>2. \A v \in Updates : \A t \in {"accepted", "paired", "invalid"} : Told(v, t)' => Told(v, t)
    BY <1>1 DEF Told
<1>3. BotTypeOK'
    BY <1>1 DEF BotTypeOK, UpdateType
<1>4. QueuedIsBare' /\ OnlyItems' /\ ItemsAreKept'
    BY <1>1, <1>2 DEF BotInv, QueuedIsBare, OnlyItems, ItemsAreKept
<1>5. PairedIsSeen'
    BY <1>1 DEF PairedIsSeen
<1>6. RepliesAreTrue'
    BY <1>1, <1>2 DEF BotInv, RepliesAreTrue, OnlyItems
<1> QED BY <1>3, <1>4, <1>5, <1>6 DEF BotInv

\* A step that answers u with t keeps the invariant when t is true then.
LEMMA ReplyStep ==
    ASSUME BotInv, NEW u \in Updates, Waits(u), replies' = replies,
           NEW t \in {"accepted", "unpaired", "paired", "invalid"}, Reply(u, t),
           disturbed \subseteq disturbed', botFaults' \in 0..MaxBotFaults,
           stored' \in [Items -> 0..2], \A m \in Items : stored[m] # 0 => stored'[m] # 0,
           pairCode' \in {"open", "ours", "other", "expired"}, bound' \in BOOLEAN,
           pairCode # "open" => pairCode' = pairCode,
           t \in {"accepted", "unpaired"} <=> u[1] \in Items,
           t = "accepted" => stored'[u[1]] # 0,
           t = "paired" => pairCode' = "ours",
           pairCode' = "ours" => pairCode = "ours" \/ t = "paired",
           t = "invalid" => pairCode # "open" \/ u \in disturbed'
    PROVE  BotInv'
<1>1. /\ update' \in [Updates -> UpdateType]
      /\ update'[u].pc = "reply" /\ update'[u].reply = t
      /\ \A v \in Updates \ {u} : update'[v] = update[v]
    BY ReplyFacts DEF BotInv
<1>2. update[u].pc = "queued" /\ update[u].reply = "none"
    BY DEF BotInv, QueuedIsBare, Waits
<1>3. \A v \in Updates \ {u} : \A x \in {"accepted", "paired", "invalid"} : Told(v, x)' => Told(v, x)
    BY <1>1 DEF Told
<1>4. \A x \in {"accepted", "paired", "invalid"} : Told(u, x)' => x = t \/ Told(u, x)
    BY <1>1 DEF Told
<1>5. BotTypeOK'
    BY <1>1 DEF BotTypeOK, UpdateType
<1>6. QueuedIsBare' /\ OnlyItems' /\ ItemsAreKept'
    BY <1>1, <1>3, <1>4 DEF BotInv, QueuedIsBare, OnlyItems, ItemsAreKept
<1>7. PairedIsSeen'
    BY <1>1, <1>2 DEF BotInv, PairedIsSeen
<1>8. \A v \in Updates : update[v].reply = "paired" => v # u /\ update'[v].reply = "paired"
    BY <1>1, <1>2
<1>9. RepliesAreTrue'
    <2>1. \A v \in Updates : Told(v, "accepted")' => stored'[v[1]] # 0
        BY <1>3, <1>4 DEF BotInv, RepliesAreTrue, OnlyItems
    <2>2. \A v \in Updates : Told(v, "paired")' => pairCode' = "ours"
        BY <1>3, <1>4 DEF BotInv, RepliesAreTrue
    <2>3. ASSUME NEW v \in Updates, v \notin disturbed', Told(v, "invalid")'
          PROVE  \/ pairCode' \in {"other", "expired"}
                 \/ \E w \in Updates \ {v} : update'[w].reply = "paired" \/ w \in disturbed'
        <3>1. CASE Told(v, "invalid")
            BY <3>1, <2>3, <1>8 DEF BotInv, RepliesAreTrue
        <3>2. CASE ~Told(v, "invalid")
            <4>1. v = u /\ t = "invalid"
                BY <3>2, <2>3, <1>3, <1>4
            <4>2. pairCode \in {"ours", "other", "expired"} /\ pairCode' = pairCode
                BY <4>1, <2>3 DEF BotInv, BotTypeOK
            <4>3. CASE pairCode = "ours"
                <5>1. PICK w \in Updates : update[w].reply = "paired" \/ w \in disturbed
                    BY <4>3 DEF BotInv, PairedIsSeen
                <5>2. w # v /\ (update'[w].reply = "paired" \/ w \in disturbed')
                    BY <5>1, <4>1, <1>8, <2>3
                <5> QED BY <5>2
            <4> QED BY <4>2, <4>3
        <3> QED BY <3>1, <3>2
    <2> QED BY <2>1, <2>2, <2>3 DEF RepliesAreTrue
<1> QED BY <1>5, <1>6, <1>7, <1>9 DEF BotInv

\* A message is written to the bot.
LEMMA WriteStep == ASSUME BotInv, NEW u \in Updates, Write(u) PROVE BotInv'
<1>1. update \in [Updates -> UpdateType]
    BY DEF BotInv, BotTypeOK, UpdateType
<1>2. /\ update' \in [Updates -> UpdateType]
      /\ update'[u].pc = "queued" /\ update'[u].reply = update[u].reply /\ update[u].pc = "none"
      /\ \A v \in Updates \ {u} : update'[v] = update[v]
    BY <1>1 DEF Write, UpdateType
<1>3. UNCHANGED <<pairCode, bound, stored, replies, disturbed, botFaults>>
    BY DEF Write
<1>4. \A v \in Updates : \A t \in {"accepted", "paired", "invalid"} : Told(v, t)' => Told(v, t)
    BY <1>2, <1>3 DEF Told
<1>5. \A v \in Updates : update'[v].reply = update[v].reply
    BY <1>2
<1>6. BotTypeOK'
    BY <1>2, <1>3 DEF BotInv, BotTypeOK, UpdateType
<1>7. QueuedIsBare' /\ OnlyItems' /\ ItemsAreKept'
    BY <1>2, <1>3, <1>4 DEF BotInv, QueuedIsBare, OnlyItems, ItemsAreKept
<1>8. PairedIsSeen' /\ RepliesAreTrue'
    BY <1>3, <1>4, <1>5 DEF BotInv, PairedIsSeen, RepliesAreTrue
<1> QED BY <1>6, <1>7, <1>8 DEF BotInv

\* The bot takes an item ...
LEMMA SendItemStep == ASSUME BotInv, NEW u \in Updates, SendItem(u) PROVE BotInv'
<1>1. u[1] \in Items /\ Waits(u) /\ UNCHANGED <<pairCode, bound, replies>>
    BY DEF SendItem
<1>2. /\ pairCode' \in {"open", "ours", "other", "expired"} /\ bound' \in BOOLEAN
      /\ stored \in [Items -> 0..2] /\ botFaults \in 0..MaxBotFaults
    BY <1>1 DEF BotInv, BotTypeOK
<1>3. CASE /\ stored' = [stored EXCEPT ![u[1]] = Key(u)]
           /\ \/ Reply(u, "accepted") /\ UNCHANGED <<disturbed, botFaults>>
              \/ Raise(u)
    <2>1. stored'[u[1]] # 0 /\ stored' \in [Items -> 0..2]
          /\ \A m \in Items : stored[m] # 0 => stored'[m] # 0
        BY <1>1, <1>2, <1>3, AcceptedHolds DEF BotInv
    <2> QED BY <1>1, <1>2, <1>3, <2>1, RaiseStep, ReplyStep
<1>4. CASE UNCHANGED stored /\ ((Reply(u, "unpaired") /\ UNCHANGED <<disturbed, botFaults>>) \/ Raise(u))
    BY <1>1, <1>2, <1>4, RaiseStep, ReplyStep
<1> QED BY <1>3, <1>4 DEF SendItem

\* ... or a pairing code, ...
LEMMA SendCodeStep == ASSUME BotInv, NEW u \in Updates, SendCode(u) PROVE BotInv'
<1>1. u[1] \in PairMessages /\ u[1] \notin Items /\ Waits(u) /\ UNCHANGED <<stored, replies>>
    BY DEF SendCode
<1>2. /\ stored' \in [Items -> 0..2] /\ botFaults \in 0..MaxBotFaults
      /\ pairCode \in {"open", "ours", "other", "expired"} /\ bound \in BOOLEAN
    BY <1>1 DEF BotInv, BotTypeOK
<1>3. CASE /\ pairCode = "open" /\ pairCode' = "ours" /\ bound' = TRUE
           /\ \/ Reply(u, "paired") /\ UNCHANGED <<disturbed, botFaults>>
              \/ Raise(u)
    BY <1>1, <1>2, <1>3, RaiseStep, ReplyStep
<1>4. CASE /\ UNCHANGED <<pairCode, bound>>
           /\ \/ pairCode # "open" /\ Reply(u, "invalid") /\ UNCHANGED <<disturbed, botFaults>>
              \/ BotFault /\ Reply(u, "invalid") /\ disturbed' = disturbed \cup {u}
              \/ Raise(u)
    <2>1. BotFault => botFaults' \in 0..MaxBotFaults
        BY <1>2 DEF BotFault
    <2> QED BY <1>1, <1>2, <1>4, <2>1, RaiseStep, ReplyStep
<1> QED BY <1>3, <1>4 DEF SendCode

\* ... and tells the chat what it answered, once or, after a fault, again.
LEMMA TellChatStep == ASSUME BotInv, NEW u \in Updates, TellChat(u) PROVE BotInv'
<1>1. PICK shown \in BOOLEAN :
         /\ replies' = IF shown THEN replies \cup {<<u, update[u].reply>>} ELSE replies
         /\ \/ Raise(u)
            \/ /\ shown \/ botFaults < MaxBotFaults
               /\ update' = [update EXCEPT ![u].pc = "done"]
               /\ botFaults' = IF shown THEN botFaults ELSE botFaults + 1
               /\ UNCHANGED disturbed
    BY DEF TellChat
<1>2. update[u].pc = "reply" /\ UNCHANGED <<pairCode, bound, stored>>
    BY DEF TellChat
<1>3. update \in [Updates -> UpdateType]
    BY DEF BotInv, BotTypeOK, UpdateType
<1>4. update[u] = [pc |-> "reply", reply |-> update[u].reply]
    BY <1>2, <1>3 DEF UpdateType
<1>5. ASSUME NEW t \in {"accepted", "paired", "invalid"}, NEW v \in Updates,
             \A w \in Updates \ {u} : update'[w] = update[w], update'[u].pc # "reply", Told(v, t)'
      PROVE  Told(v, t)
    <2>1. CASE <<v, t>> \in replies'
        <3>1. CASE <<v, t>> \in replies
            BY <3>1 DEF Told
        <3>2. CASE <<v, t>> \notin replies
            <4>1. <<v, t>> = <<u, update[u].reply>>
                BY <2>1, <3>2, <1>1
            <4>2. v = u /\ t = update[u].reply
                BY <4>1
            <4> QED BY <4>2, <1>4 DEF Told
        <3> QED BY <3>1, <3>2
    <2>2. CASE <<v, t>> \notin replies'
        <3>1. update'[v] = [pc |-> "reply", reply |-> t]
            BY <2>2, <1>5 DEF Told
        <3>2. v # u
            BY <3>1, <1>5
        <3> QED BY <3>1, <3>2, <1>5 DEF Told
    <2> QED BY <2>1, <2>2
<1>6. CASE Raise(u)
    <2>1. /\ update' \in [Updates -> UpdateType] /\ botFaults' \in 0..MaxBotFaults
          /\ update'[u].pc = "queued" /\ update'[u].reply = "none"
          /\ \A v \in Updates \ {u} : update'[v] = update[v]
          /\ disturbed' = disturbed \cup {u}
        BY <1>6, RaiseFacts DEF BotInv
    <2>2. \A v \in Updates : \A t \in {"accepted", "paired", "invalid"} : Told(v, t)' => Told(v, t)
        BY <1>5, <2>1
    <2>3. BotTypeOK'
        BY <1>2, <2>1 DEF BotInv, BotTypeOK, UpdateType
    <2>4. QueuedIsBare' /\ OnlyItems' /\ ItemsAreKept'
        BY <1>2, <2>1, <2>2 DEF BotInv, QueuedIsBare, OnlyItems, ItemsAreKept
    <2>5. PairedIsSeen'
        BY <2>1 DEF PairedIsSeen
    <2>6. RepliesAreTrue'
        BY <1>2, <2>1, <2>2 DEF BotInv, RepliesAreTrue
    <2> QED BY <2>3, <2>4, <2>5, <2>6 DEF BotInv
<1>7. CASE /\ shown \/ botFaults < MaxBotFaults
           /\ update' = [update EXCEPT ![u].pc = "done"]
           /\ botFaults' = IF shown THEN botFaults ELSE botFaults + 1
           /\ UNCHANGED disturbed
    <2>1. /\ update' \in [Updates -> UpdateType]
          /\ update'[u].pc = "done" /\ update'[u].reply = update[u].reply
          /\ \A v \in Updates \ {u} : update'[v] = update[v]
        BY <1>3, <1>7 DEF UpdateType
    <2>2. \A v \in Updates : \A t \in {"accepted", "paired", "invalid"} : Told(v, t)' => Told(v, t)
        BY <1>5, <2>1
    <2>3. botFaults' \in 0..MaxBotFaults
        BY <1>7 DEF BotInv, BotTypeOK
    <2>4. BotTypeOK'
        BY <1>2, <2>1, <2>3 DEF BotInv, BotTypeOK, UpdateType
    <2>5. QueuedIsBare' /\ OnlyItems' /\ ItemsAreKept'
        BY <1>2, <2>1, <2>2 DEF BotInv, QueuedIsBare, OnlyItems, ItemsAreKept
    <2>6. \A v \in Updates : update'[v].reply = update[v].reply
        BY <2>1
    <2>7. PairedIsSeen' /\ RepliesAreTrue'
        BY <1>2, <1>7, <2>2, <2>6 DEF BotInv, PairedIsSeen, RepliesAreTrue
    <2> QED BY <2>4, <2>5, <2>7 DEF BotInv
<1> QED BY <1>1, <1>6, <1>7

\* One step for each action of the bot.
LEMMA BotStep == BotInv /\ [BotNext]_botVars => BotInv'
<1> SUFFICES ASSUME BotInv, [BotNext]_botVars PROVE BotInv'
    OBVIOUS
<1>1. \A v \in Updates : \A t \in {"accepted", "paired", "invalid"} :
         update' = update /\ replies' = replies => (Told(v, t)' <=> Told(v, t))
    BY DEF Told
<1>2. ASSUME UNCHANGED <<update, stored, replies, disturbed, botFaults>>,
             pairCode' \in {"open", "ours", "other", "expired"}, bound' \in BOOLEAN,
             pairCode' = pairCode \/ (pairCode = "open" /\ pairCode' # "ours")
      PROVE  BotInv'
    <2>1. BotTypeOK' /\ QueuedIsBare' /\ ItemsAreKept'
        BY <1>2 DEF BotInv, BotTypeOK, QueuedIsBare, ItemsAreKept
    <2>2. OnlyItems' /\ PairedIsSeen' /\ RepliesAreTrue'
        BY <1>1, <1>2 DEF BotInv, OnlyItems, PairedIsSeen, RepliesAreTrue
    <2> QED BY <2>1, <2>2 DEF BotInv
<1>3. pairCode \in {"open", "ours", "other", "expired"} /\ bound \in BOOLEAN
    BY DEF BotInv, BotTypeOK
<1>4. CASE Unbind \/ CodeGoes \/ UNCHANGED botVars
    BY <1>2, <1>3, <1>4 DEF Unbind, CodeGoes, botVars
<1>5. CASE \E u \in Updates : Write(u) \/ SendItem(u) \/ SendCode(u) \/ TellChat(u)
    BY <1>5, WriteStep, SendItemStep, SendCodeStep, TellChatStep
<1> QED BY <1>4, <1>5 DEF BotNext

\* No update is there at first.
LEMMA BotStart == BotInit => BotInv
<1> SUFFICES ASSUME BotInit PROVE BotInv
    OBVIOUS
<1>1. \A u \in Updates : update[u].pc = "none" /\ update[u].reply = "none"
    BY DEF BotInit, NoUpdate
<1>2. \A u \in Updates : \A t \in {"accepted", "paired", "invalid"} : ~Told(u, t)
    BY <1>1 DEF Told, BotInit
<1>3. update \in [Updates -> UpdateType]
    BY DEF BotInit, NoUpdate, UpdateType
<1>4. stored \in [Items -> 0..2] /\ botFaults \in 0..MaxBotFaults
    BY DEF BotInit
<1>5. BotTypeOK
    BY <1>3, <1>4 DEF BotTypeOK, UpdateType, BotInit
<1> QED BY <1>1, <1>2, <1>5 DEF BotInit, BotInv, QueuedIsBare, OnlyItems, PairedIsSeen, ItemsAreKept, RepliesAreTrue

\* For any messages, items and faults: what the bot tells a chat is what became of the message.
THEOREM BotStaysHonest == BotSpec => []BotIsHonest
<1>1. BotInv => BotIsHonest
    BY DEF BotInv, BotIsHonest, ItemsAreKept, NothingIsDropped
<1> QED BY <1>1, BotStart, BotStep, PTL DEF BotSpec

HIDE BotAssumption

-----------------------------------------------------------------------------
(* What the owner makes of topics.                                           *)

USE TopicsAssumption

\* What makes a topic of the list: the names that are stored and shown as one.
ShownAs(shown) == {k \in StoredTopics : DisplayOf(k) = shown}

\* The list of topics: its topics are what their names say, and no stored name is missing.
TopicsAreMerged ==
    /\ \A t \in MergedTopics :
          /\ t.sources = ShownAs(t.name) /\ t.sources # {}
          /\ t.pinned <=> \E k \in t.sources : Pinned(k)
          /\ t.ignored <=> \A k \in t.sources : Ignored(k)
    /\ \A k \in StoredTopics : \E t \in MergedTopics : t.name = DisplayOf(k)

\* A topic of the list is made of the names that are shown as it is.
LEMMA TopicOfName ==
    \A t \in MergedTopics :
        /\ t.sources = ShownAs(t.name) /\ t.sources # {}
        /\ t.pinned <=> \E k \in t.sources : Pinned(k)
        /\ t.ignored <=> \A k \in t.sources : Ignored(k)
<1> TAKE t \in MergedTopics
<1>1. PICK shown \in {DisplayOf(k) : k \in StoredTopics} :
         t = [name    |-> shown,
              sources |-> {k \in StoredTopics : DisplayOf(k) = shown},
              pinned  |-> \E k \in StoredTopics : DisplayOf(k) = shown /\ Pinned(k),
              ignored |-> \A k \in StoredTopics : DisplayOf(k) = shown => Ignored(k)]
    BY DEF MergedTopics
<1>2. /\ t.name = shown /\ t.sources = ShownAs(shown)
      /\ t.pinned = (\E k \in StoredTopics : DisplayOf(k) = shown /\ Pinned(k))
      /\ t.ignored = (\A k \in StoredTopics : DisplayOf(k) = shown => Ignored(k))
    BY <1>1 DEF ShownAs
<1>3. t.sources # {}
    BY <1>1, <1>2 DEF ShownAs
<1> QED BY <1>2, <1>3 DEF ShownAs

\* Every name that is stored makes a topic.
LEMMA NameMakesTopic ==
    \A k \in StoredTopics : \E t \in MergedTopics : t.name = DisplayOf(k)
<1> TAKE k \in StoredTopics
<1>1. PICK t : t = [name    |-> DisplayOf(k),
              sources |-> {n \in StoredTopics : DisplayOf(n) = DisplayOf(k)},
              pinned  |-> \E n \in StoredTopics : DisplayOf(n) = DisplayOf(k) /\ Pinned(n),
              ignored |-> \A n \in StoredTopics : DisplayOf(n) = DisplayOf(k) => Ignored(n)]
    OBVIOUS
<1>2. t \in MergedTopics
    BY <1>1 DEF MergedTopics
<1> QED BY <1>1, <1>2

\* Both, as one fact of every state, ...
LEMMA MergedAlways == TopicsAreMerged
BY TopicOfName, NameMakesTopic DEF TopicsAreMerged

\* ... and so of the next one.
LEMMA MergedNext == TopicsAreMerged'
BY MergedAlways, PTL

\* The list has one topic of a name.
LEMMA SameNameSameTopic ==
    ASSUME NEW t \in MergedTopics, NEW u \in MergedTopics, t.name = u.name
    PROVE  t = u
<1>1. PICK shown \in {DisplayOf(k) : k \in StoredTopics} :
         t = [name    |-> shown,
              sources |-> {k \in StoredTopics : DisplayOf(k) = shown},
              pinned  |-> \E k \in StoredTopics : DisplayOf(k) = shown /\ Pinned(k),
              ignored |-> \A k \in StoredTopics : DisplayOf(k) = shown => Ignored(k)]
    BY DEF MergedTopics
<1>2. PICK other \in {DisplayOf(k) : k \in StoredTopics} :
         u = [name    |-> other,
              sources |-> {k \in StoredTopics : DisplayOf(k) = other},
              pinned  |-> \E k \in StoredTopics : DisplayOf(k) = other /\ Pinned(k),
              ignored |-> \A k \in StoredTopics : DisplayOf(k) = other => Ignored(k)]
    BY DEF MergedTopics
<1>3. t.name = shown /\ u.name = other
    BY <1>1, <1>2
<1>4. shown = other
    BY <1>3
<1> QED BY <1>1, <1>2, <1>4

\* What is stored, and what it is shown as, is a name.
LEMMA StoredAreNames ==
    ASSUME TopicsTypeOK
    PROVE  StoredTopics \subseteq Names /\ \A k \in StoredTopics : DisplayOf(k) \in Names
<1>1. StoredTopics \subseteq Names
    BY DEF StoredTopics, NamesOf, TopicsTypeOK
<1>2. \A k \in Names : DisplayOf(k) \in Names
    BY DEF DisplayOf, Flagged, TopicsTypeOK, Override
<1> QED BY <1>1, <1>2

\* A name that means one topic is the name of that topic.
LEMMA OneMatch ==
    ASSUME NEW n \in Names, Plain(n), TopicsTypeOK
    PROVE  \E m \in ListedTopics : Matching(n) = {m} /\ m.name = n
<1>1. StoredTopics \subseteq Names /\ \A k \in StoredTopics : DisplayOf(k) \in Names
    BY StoredAreNames
<1>2. \A t \in MergedTopics : t.name \in Names
    BY <1>1, TopicOfName DEF ShownAs
<1>3. [t \in MergedTopics |-> t.name] \in Injection(MergedTopics, Names)
    BY <1>2, SameNameSameTopic DEF Injection, IsInjective
<1>4. IsFiniteSet(MergedTopics)
    BY <1>3, FS_Injection
<1>5. IsFiniteSet(Matching(n))
    BY <1>4, FS_Subset DEF Matching
<1>6. PICK m : Matching(n) = {m}
    BY <1>5, FS_Singleton DEF Plain
<1>7. PICK t \in ListedTopics : t.name = n
    BY DEF Plain, ListedNames
<1>8. t \in Matching(n)
    BY <1>7 DEF ListedTopics, Matching
<1> QED BY <1>6, <1>7, <1>8

\* What an upsert leaves: the names it is about are shown as asked, with the flags, and the
\* others as before.
LEMMA UpsertFacts ==
    ASSUME TopicsTypeOK, NEW names \in SUBSET Names, NEW shown \in Names,
           NEW flags, \A o \in Override : flags[o] \in Override /\ flags[o].display = o.display,
           Upsert(names, shown, flags), UNCHANGED <<topicsOf, tagsOf>>
    PROVE  /\ TopicsTypeOK'
           /\ \A k \in names : Flagged(k)' /\ DisplayOf(k)' = shown
           /\ \A k \in names : \E o \in Override : override'[k] = flags[o]
           /\ \A k \in Names \ names : override'[k] = override[k]
           /\ StoredTopics' = StoredTopics
<1>1. ASSUME NEW k \in names
      PROVE  \E o \in Override : override'[k] = flags[o] /\ o.display = shown
    <2>1. PICK o : o = IF Flagged(k) THEN [override[k] EXCEPT !.display = shown] ELSE Unflagged(shown)
        OBVIOUS
    <2>2. override'[k] = flags[o]
        BY <2>1 DEF Upsert
    <2>3. o \in Override /\ o.display = shown
        BY <2>1 DEF Unflagged, Override, Flagged, TopicsTypeOK
    <2> QED BY <2>2, <2>3
<1>2. \A k \in names : override'[k] \in Override /\ override'[k].display = shown
    BY <1>1
<1>3. \A k \in Names \ names : override'[k] = override[k]
    BY DEF Upsert
<1>4. \A k \in names : Flagged(k)' /\ DisplayOf(k)' = shown
    BY <1>2 DEF Flagged, DisplayOf
<1>5. StoredTopics' = StoredTopics
    BY DEF StoredTopics, NamesOf
<1>6. override' \in [Names -> Override \cup {NoOverride}]
    <2>1. \A k \in Names : override'[k] \in Override \cup {NoOverride}
        BY <1>2, <1>3 DEF TopicsTypeOK
    <2>2. DOMAIN override' = Names /\ override' = [k \in Names |-> override'[k]]
        BY DEF Upsert
    <2> QED BY <2>1, <2>2
<1> QED BY <1>1, <1>3, <1>4, <1>5, <1>6 DEF TopicsTypeOK

\* The types, which is all that the steps below need of the past.
LEMMA TopicsInvariant == TopicsTypeOK /\ [TopicsNext]_topicVars => TopicsTypeOK'
<1> SUFFICES ASSUME TopicsTypeOK, [TopicsNext]_topicVars PROVE TopicsTypeOK'
    OBVIOUS
<1>1. ASSUME NEW n \in Names, NEW shown \in Names, RenameTopic(n, shown) PROVE TopicsTypeOK'
    <2>1. PICK flags : flags = [o \in Override |-> o]
        OBVIOUS
    <2> QED BY <1>1, <2>1, UpsertFacts DEF RenameTopic
<1>2. ASSUME NEW names \in SUBSET Names, NEW shown \in Names, MergeTopics(names, shown) PROVE TopicsTypeOK'
    <2>1. PICK flags : flags = [o \in Override |-> o]
        OBVIOUS
    <2> QED BY <1>2, <2>1, UpsertFacts DEF MergeTopics
<1>3. ASSUME NEW n \in Names, NEW b \in BOOLEAN, SetPinned(n, b) \/ SetIgnored(n, b) PROVE TopicsTypeOK'
    <2>0. PICK t \in FoundTopics(n) : \E flags :
             /\ Upsert(t.sources, t.name, flags)
             /\ \/ flags = [o \in Override |-> [o EXCEPT !.pinned = b, !.ignored = @ /\ ~b]]
                \/ flags = [o \in Override |-> [o EXCEPT !.ignored = b, !.pinned = @ /\ ~b]]
        BY <1>3 DEF SetPinned, SetIgnored
    <2>1. PICK flags :
             /\ Upsert(t.sources, t.name, flags)
             /\ \/ flags = [o \in Override |-> [o EXCEPT !.pinned = b, !.ignored = @ /\ ~b]]
                \/ flags = [o \in Override |-> [o EXCEPT !.ignored = b, !.pinned = @ /\ ~b]]
        BY <2>0
    <2>2. \A o \in Override : flags[o] \in Override /\ flags[o].display = o.display
        <3>1. CASE flags = [o \in Override |-> [o EXCEPT !.pinned = b, !.ignored = @ /\ ~b]]
            BY <3>1 DEF Override
        <3>2. CASE flags = [o \in Override |-> [o EXCEPT !.ignored = b, !.pinned = @ /\ ~b]]
            BY <3>2 DEF Override
        <3> QED BY <2>1, <3>1, <3>2
    <2>3. t.sources \in SUBSET Names /\ t.name \in Names
        <3>1. CASE Matching(n) # {}
            <4>1. t \in MergedTopics
                BY <3>1, <2>0 DEF FoundTopics, Matching
            <4> QED BY <4>1, TopicOfName, StoredAreNames DEF ShownAs
        <3>2. CASE Matching(n) = {}
            <4>1. t = [name |-> n, sources |-> {n}, pinned |-> FALSE, ignored |-> FALSE]
                BY <3>2, <2>0 DEF FoundTopics
            <4> QED BY <4>1
        <3> QED BY <3>1, <3>2
    <2>4. UNCHANGED <<topicsOf, tagsOf>>
        BY <1>3 DEF SetPinned, SetIgnored
    <2> QED BY <2>1, <2>2, <2>3, <2>4, UpsertFacts
<1>4. CASE \E d \in TopicDocs, names \in SUBSET Names : SyncTopics(d, names)
    BY <1>4 DEF SyncTopics, TopicsTypeOK
<1>5. CASE \E d \in TopicDocs, n \in Names : TagByHand(d, n)
    BY <1>5 DEF TagByHand, TopicsTypeOK
<1>6. CASE UNCHANGED topicVars
    BY <1>6 DEF topicVars, TopicsTypeOK
<1> QED BY <1>1, <1>2, <1>3, <1>4, <1>5, <1>6 DEF TopicsNext

\* A topic of one name is pinned ...
LEMMA PinnedIsShown ==
    ASSUME TopicsTypeOK, NEW n \in Names, Plain(n), SetPinned(n, TRUE)
    PROVE  \E t \in ListedTopics' : t.name \in {s.name : s \in Matching(n)} /\ t.pinned
<1>1. PICK m \in ListedTopics : Matching(n) = {m} /\ m.name = n
    BY OneMatch
<1>2. PICK flags : flags = [o \in Override |-> [o EXCEPT !.pinned = TRUE, !.ignored = @ /\ ~TRUE]]
    OBVIOUS
<1>3. Upsert(m.sources, m.name, flags) /\ UNCHANGED <<topicsOf, tagsOf>>
    BY <1>1, <1>2 DEF SetPinned, FoundTopics
<1>4. m \in MergedTopics
    BY DEF ListedTopics
<1>5. m.sources = ShownAs(n) /\ m.sources # {} /\ m.sources \in SUBSET Names
    BY <1>1, <1>4, TopicOfName, StoredAreNames DEF ShownAs
<1>6. \A o \in Override : /\ flags[o] \in Override /\ flags[o].display = o.display
                          /\ flags[o].pinned /\ ~flags[o].ignored
    BY <1>2 DEF Override
<1>7. /\ \A k \in m.sources : Flagged(k)' /\ DisplayOf(k)' = n
      /\ \A k \in m.sources : \E o \in Override : override'[k] = flags[o]
      /\ StoredTopics' = StoredTopics
    BY <1>1, <1>3, <1>5, <1>6, UpsertFacts
<1>8. PICK k \in m.sources : k \in StoredTopics
    BY <1>5 DEF ShownAs
<1>9. Pinned(k)' /\ ~Ignored(k)'
    BY <1>6, <1>7, <1>8 DEF Pinned, Ignored
<1>10. PICK t \in MergedTopics' : t.name = n
    BY <1>7, <1>8, MergedNext DEF TopicsAreMerged
<1>11. t.sources = ShownAs(n)' /\ (t.pinned <=> \E j \in t.sources : Pinned(j)')
       /\ (t.ignored <=> \A j \in t.sources : Ignored(j)')
    BY <1>10, MergedNext DEF TopicsAreMerged
<1>12. k \in t.sources
    BY <1>7, <1>8, <1>11 DEF ShownAs
<1>13. t.pinned /\ ~t.ignored
    BY <1>9, <1>11, <1>12
<1>14. t \in ListedTopics'
    BY <1>10, <1>13 DEF ListedTopics
<1> QED BY <1>1, <1>10, <1>13, <1>14

\* ... or hidden as a whole.
LEMMA IgnoredIsGone ==
    ASSUME TopicsTypeOK, NEW n \in Names, Plain(n), SetIgnored(n, TRUE)
    PROVE  n \notin ListedNames'
<1>1. PICK m \in ListedTopics : Matching(n) = {m} /\ m.name = n
    BY OneMatch
<1>2. PICK flags : flags = [o \in Override |-> [o EXCEPT !.ignored = TRUE, !.pinned = @ /\ ~TRUE]]
    OBVIOUS
<1>3. Upsert(m.sources, m.name, flags) /\ UNCHANGED <<topicsOf, tagsOf>>
    BY <1>1, <1>2 DEF SetIgnored, FoundTopics
<1>4. m \in MergedTopics
    BY DEF ListedTopics
<1>5. m.sources = ShownAs(n) /\ m.sources # {} /\ m.sources \in SUBSET Names
    BY <1>1, <1>4, TopicOfName, StoredAreNames DEF ShownAs
<1>6. \A o \in Override : flags[o] \in Override /\ flags[o].display = o.display /\ flags[o].ignored
    BY <1>2 DEF Override
<1>7. /\ \A k \in m.sources : Flagged(k)' /\ DisplayOf(k)' = n
      /\ \A k \in m.sources : \E o \in Override : override'[k] = flags[o]
      /\ \A k \in Names \ m.sources : override'[k] = override[k]
      /\ StoredTopics' = StoredTopics
    BY <1>1, <1>3, <1>5, <1>6, UpsertFacts
<1>8. \A k \in m.sources : Ignored(k)'
    BY <1>6, <1>7 DEF Ignored
<1>9. \A k \in Names \ m.sources : DisplayOf(k)' = DisplayOf(k)
    BY <1>7 DEF DisplayOf, Flagged
<1>10. \A k \in StoredTopics : DisplayOf(k)' = n => k \in m.sources
    BY <1>5, <1>9, StoredAreNames DEF ShownAs
<1>11. ASSUME NEW t \in ListedTopics', t.name = n PROVE FALSE
    <2>1. t \in MergedTopics' /\ ~t.ignored
        BY <1>11 DEF ListedTopics
    <2>2. t.sources = ShownAs(n)' /\ (t.ignored <=> \A j \in t.sources : Ignored(j)')
        BY <1>11, <2>1, MergedNext DEF TopicsAreMerged
    <2>3. t.sources \subseteq m.sources
        BY <1>7, <1>10, <2>2 DEF ShownAs
    <2> QED BY <1>8, <2>1, <2>2, <2>3
<1> QED BY <1>11 DEF ListedNames

\* Topics that are merged bring their documents.
LEMMA MergedHasAll ==
    ASSUME TopicsTypeOK, NEW n \in ListedNames \cap StoredTopics,
           NEW shown \in ListedNames \cap StoredTopics, MergeTopics({n}, shown)
    PROVE  \E t \in MergedTopics' :
               t.name = shown /\ DocumentsOf({n, shown}) \subseteq DocumentsOf(t.sources)'
<1>1. n \in Names /\ shown \in Names
    BY StoredAreNames
<1>2. PICK flags : flags = [o \in Override |-> o]
    OBVIOUS
<1>3. Upsert({n} \cup {shown}, shown, flags) /\ UNCHANGED <<topicsOf, tagsOf>>
    BY <1>2 DEF MergeTopics
<1>4. /\ DisplayOf(n)' = shown /\ DisplayOf(shown)' = shown
      /\ StoredTopics' = StoredTopics
    BY <1>1, <1>2, <1>3, UpsertFacts
<1>5. PICK t \in MergedTopics' : t.name = shown
    BY <1>4, MergedNext DEF TopicsAreMerged
<1>6. t.sources = ShownAs(shown)'
    BY <1>5, MergedNext DEF TopicsAreMerged
<1>7. {n, shown} \subseteq t.sources
    BY <1>4, <1>6 DEF ShownAs
<1>8. \A names, more : names \subseteq more => DocumentsOf(names) \subseteq DocumentsOf(more)'
    BY <1>3 DEF DocumentsOf, NamesOf
<1> QED BY <1>5, <1>7, <1>8

\* For any documents and names: a topic that its owner pins, ignores or merges is shown so at once,
\* as a whole, and one that is merged brings its documents along.
THEOREM EffectsAreSeen == TopicsSpec => OwnerSeesEffect
<1>1. TopicsInit => TopicsTypeOK
    BY DEF TopicsInit, TopicsTypeOK
<1>2. ASSUME TopicsTypeOK, [TopicsNext]_topicVars
      PROVE  [/\ \A n \in Names : (Plain(n) /\ SetPinned(n, TRUE)) =>
                    \E t \in ListedTopics' : t.name \in {s.name : s \in Matching(n)} /\ t.pinned
              /\ \A n \in Names : (Plain(n) /\ SetIgnored(n, TRUE)) => n \notin ListedNames'
              /\ \A n, shown \in ListedNames \cap StoredTopics :
                    MergeTopics({n}, shown) =>
                        \E t \in MergedTopics' :
                            t.name = shown /\ DocumentsOf({n, shown}) \subseteq DocumentsOf(t.sources)'
             ]_topicVars
    BY <1>2, PinnedIsShown, IgnoredIsGone, MergedHasAll
<1> QED BY <1>1, <1>2, TopicsInvariant, PTL DEF TopicsSpec, OwnerSeesEffect

HIDE TopicsAssumption

-----------------------------------------------------------------------------
(* Flashcards to review, goals and drafts.                                   *)

USE StudyAssumption DEF StudyAssumption

\* What a request holds, and what there is of the three things; the ease of a card stays in the
\* bounds of its grades.
Schedule == [interval : Nat, ease : 130..320, count : Nat]
Work == [on : {"none"} \cup Things, card : Schedule, stale : BOOLEAN,
         topic : GoalTopics \cup {NoTopic}, number : Nat]
StudyTyped ==
    /\ card \in Schedule /\ reviews \in Seq(Review)
    /\ goalTopic \in GoalTopics \cup {NoTopic} /\ resources \subseteq GoalTopics \cup {NoTopic}
    /\ draft \in Nat /\ drafted \in Seq(Nat)
    /\ client \in [Clients -> Work] /\ clash \subseteq Things /\ restored \in BOOLEAN

\* A request that nobody overtook holds what there is, and the sides are as they have to be.
CardFollows ==
    "card" \notin clash =>
        /\ \A c \in Clients : Works(c, "card") /\ ~client[c].stale => client[c].card = card
        /\ card.count = Len(reviews)
        /\ reviews # <<>> => reviews[Len(reviews)].to = card.interval
        /\ \A i \in 2..Len(reviews) : reviews[i].from = reviews[i - 1].to

\* A goal that is there counts what a request read, unless two crossed.
GoalFollows ==
    "goal" \notin clash =>
        /\ \A c \in Clients : Works(c, "goal") /\ ~client[c].stale /\ goalTopic # NoTopic =>
              client[c].topic = goalTopic
        /\ resources \subseteq {goalTopic}

\* A draft that is there has a version for every text that was saved.
DraftFollows ==
    /\ \A c \in Clients : Works(c, "draft") => client[c].number >= 1
    /\ draft = 0 => drafted = <<>> /\ ~restored /\ \A c \in Clients : ~Works(c, "draft")
    /\ "draft" \notin clash /\ ~restored =>
        /\ \A c \in Clients : Works(c, "draft") /\ ~client[c].stale => client[c].number = draft + 1
        /\ draft = Len(drafted)
        /\ \A i \in DOMAIN drafted : drafted[i] = i

\* The invariant; where two requests crossed it says no more than the types.
StudyInv == StudyTyped /\ CardFollows /\ GoalFollows /\ DraftFollows

\* What is computed of a schedule: the ease stays in its bounds ...
LEMMA EaseIsBound ==
    ASSUME NEW ease \in 130..320, NEW g \in Grades
    PROVE  NextEase(g, ease) \in 130..320
BY DEF NextEase, Grades, AtLeast, AtMost

\* ... and days of a factor are natural, and grow with it.
LEMMA DaysGrow ==
    ASSUME NEW n \in Nat, NEW f \in 120..350, NEW g \in 120..350, f <= g
    PROVE  /\ Days(n, f) \subseteq Nat
           /\ \A d \in Days(n, f) : \E e \in Days(n, g) : d <= e
<1> DEFINE m == AtLeast(1, n)
<1>1. m \in Nat /\ m >= 1
  BY DEF AtLeast
<1> HIDE DEF m
<1>2. PICK a : a = m * f
  OBVIOUS
<1>3. PICK b : b = m * g
  OBVIOUS
<1>4. a \in Nat /\ b \in Nat /\ a <= b /\ a >= 120
  <2>1. a \in Nat /\ b \in Nat
    BY <1>1, <1>2, <1>3
  <2>2. m * f <= m * g
    BY <1>1
  <2>3. m * f >= 120
    BY <1>1
  <2> QED BY <2>1, <2>2, <2>3, <1>2, <1>3
<1>5. a \div 100 <= b \div 100 /\ a \div 100 \in Nat /\ a \div 100 >= 1
  BY <1>4
<1>6. Days(n, f) = {a \div 100} \cup (IF a % 100 = 0 THEN {a \div 100 - 1} ELSE {})
  BY <1>2 DEF Days, m
<1>7. b \div 100 \in Days(n, g)
  BY <1>3 DEF Days, m
<1>8. Days(n, f) \subseteq Nat
  BY <1>5, <1>6
<1>9. \A d \in Days(n, f) : d <= a \div 100
  BY <1>5, <1>6
<1>10. b \div 100 \in Nat
  BY <1>4
<1>11. ASSUME NEW d \in Days(n, f)  PROVE d <= b \div 100
  BY <1>5, <1>8, <1>9, <1>10, <1>11
<1> QED BY <1>7, <1>8, <1>11

\* A grade gives an interval and an ease in their bounds ...
LEMMA DaysAreNatural ==
    ASSUME NEW n \in Nat, NEW f \in 120..350
    PROVE  Days(n, f) \subseteq Nat
<1>1. f <= f
  OBVIOUS
<1> QED BY <1>1, DaysGrow

\* ... which is so in every state.
LEMMA AllDaysAreNatural ==
    ASSUME NEW n \in Nat, NEW ease \in 130..320
    PROVE  Days(n, 120) \subseteq Nat /\ Days(n, ease) \subseteq Nat /\ Days(n, ease + 30) \subseteq Nat
<1>1. 120 \in 120..350 /\ ease \in 120..350 /\ ease + 30 \in 120..350
  OBVIOUS
<1> QED BY <1>1, DaysAreNatural

\* A better grade never brings a card back earlier.
LEMMA GradesAreOrdered ==
    ASSUME NEW n \in Nat, NEW ease \in 130..320, NEW i \in 1..3
    PROVE  LET worse == <<"again", "hard", "good", "easy">>[i]
               better == <<"hard", "good", "easy">>[i]
           IN \A d \in NextIntervals(worse, n, ease) :
                 \E e \in NextIntervals(better, n, ease) : d <= e
<1>1. NextIntervals("again", n, ease) = {1}
  BY DEF NextIntervals
<1>2. NextIntervals("hard", n, ease) = {AtLeast(2, d) : d \in Days(n, 120)}
  BY DEF NextIntervals
<1>3. NextIntervals("good", n, ease) = {AtLeast(3, d) : d \in Days(n, ease)}
  BY DEF NextIntervals
<1>4. NextIntervals("easy", n, ease) = {AtLeast(4, d) : d \in Days(n, ease + 30)}
  BY DEF NextIntervals
<1>0. 120 \in 120..350 /\ ease \in 120..350 /\ ease + 30 \in 120..350 /\ 120 <= ease /\ ease <= ease + 30
  OBVIOUS
<1>5. Days(n, 120) \subseteq Nat /\ Days(n, ease) \subseteq Nat /\ Days(n, ease + 30) \subseteq Nat
  BY AllDaysAreNatural
<1>6. Days(n, 120) # {}
  BY DEF Days
<1>7. \A d \in Days(n, 120) : \E e \in Days(n, ease) : d <= e
  BY <1>0, DaysGrow
<1>8. \A d \in Days(n, ease) : \E e \in Days(n, ease + 30) : d <= e
  BY <1>0, DaysGrow
<1>9. CASE i = 1
  <2>1. PICK d \in Days(n, 120) : TRUE
    BY <1>6
  <2>2. AtLeast(2, d) \in NextIntervals("hard", n, ease) /\ 1 <= AtLeast(2, d)
    BY <1>2, <1>5 DEF AtLeast
  <2> QED BY <1>1, <1>9, <2>2
<1>10. CASE i = 2
  <2>1. ASSUME NEW d \in Days(n, 120)  PROVE \E e \in Days(n, ease) : AtLeast(2, d) <= AtLeast(3, e)
    <3>1. PICK e \in Days(n, ease) : d <= e
      BY <1>7
    <3>2. d \in Nat /\ e \in Nat
      BY <1>5
    <3>3. AtLeast(2, d) <= AtLeast(3, e)
      BY <3>1, <3>2 DEF AtLeast
    <3> QED BY <3>3
  <2> QED BY <1>2, <1>3, <1>10, <2>1
<1>11. CASE i = 3
  <2>1. ASSUME NEW d \in Days(n, ease)
        PROVE  \E e \in Days(n, ease + 30) : AtLeast(3, d) <= AtLeast(4, e)
    <3>1. PICK e \in Days(n, ease + 30) : d <= e
      BY <1>8
    <3>2. d \in Nat /\ e \in Nat
      BY <1>5
    <3>3. AtLeast(3, d) <= AtLeast(4, e)
      BY <3>1, <3>2 DEF AtLeast
    <3> QED BY <3>3
  <2> QED BY <1>3, <1>4, <1>11, <2>1
<1> QED BY <1>9, <1>10, <1>11

\* An interval that is computed is natural.
LEMMA IntervalsAreNatural ==
    ASSUME NEW n \in Nat, NEW ease \in 130..320, NEW g \in Grades
    PROVE  NextIntervals(g, n, ease) \subseteq Nat
<1>1. Days(n, 120) \subseteq Nat /\ Days(n, ease) \subseteq Nat /\ Days(n, ease + 30) \subseteq Nat
  BY AllDaysAreNatural
<1> QED BY <1>1 DEF NextIntervals, Grades, AtLeast

\* A request that reads, and one that overwrites or gives up.
LEMMA ReadingKeeps ==
    ASSUME StudyTyped, NEW c \in Clients, NEW r \in Work, Reads(c, r)
    PROVE  /\ client' \in [Clients -> Work] /\ client'[c] = r /\ clash' = clash
           /\ \A x \in Clients \ {c} : client'[x] = client[x]
BY DEF Reads, StudyTyped

\* A request that does nothing is a request.
LEMMA NoWorkIsWork == NoWork \in Work /\ NoWork.on = "none"
BY DEF NoWork, Work, Schedule

\* A request that writes makes the others of its kind stale.
LEMMA OverwritingMarks ==
    ASSUME StudyTyped, NEW c \in Clients, NEW thing \in Things, Overwrites(c, thing)
    PROVE  /\ client' \in [Clients -> Work] /\ client'[c] = NoWork /\ clash' \subseteq Things
           /\ clash \subseteq clash' /\ clash' \subseteq clash \cup {thing}
           /\ thing \notin clash' => ~client[c].stale
           /\ \A x \in Clients : client'[x].on = thing =>
                 client'[x].stale /\ client[x].on = thing /\ client'[x].number = client[x].number
           /\ \A x \in Clients : client'[x].on \notin {"none", thing} => client'[x] = client[x]
<1>1. clash' = IF client[c].stale THEN clash \cup {thing} ELSE clash
  BY DEF Overwrites
<1>2. client' = [x \in Clients |-> IF x = c THEN NoWork
                    ELSE IF Works(x, thing) THEN [client[x] EXCEPT !.stale = TRUE]
                    ELSE client[x]]
  BY DEF Overwrites
<1>3. \A x \in Clients : client[x] \in Work /\ [client[x] EXCEPT !.stale = TRUE] \in Work
  BY DEF StudyTyped, Work
<1>4. client' \in [Clients -> Work]
  BY <1>2, <1>3, NoWorkIsWork
<1>5. ASSUME NEW x \in Clients
      PROVE  /\ client'[x].on = thing =>
                   client'[x].stale /\ client[x].on = thing /\ client'[x].number = client[x].number
             /\ client'[x].on \notin {"none", thing} => client'[x] = client[x]
  <2>1. CASE x = c
    BY <1>2, <2>1, NoWorkIsWork DEF Things
  <2>2. CASE x # c /\ Works(x, thing)
    <3>1. client'[x] = [client[x] EXCEPT !.stale = TRUE]
      BY <1>2, <2>2
    <3>2. client'[x].on = thing /\ client'[x].stale /\ client[x].on = thing /\ client'[x].number = client[x].number
      BY <1>3, <2>2, <3>1 DEF Works, Work
    <3> QED BY <3>2
  <2>3. CASE x # c /\ ~Works(x, thing)
    BY <1>2, <2>3 DEF Works
  <2> QED BY <2>1, <2>2, <2>3
<1>6. client'[c] = NoWork
  BY <1>2
<1> QED BY <1>1, <1>4, <1>5, <1>6 DEF StudyTyped

\* Work on one thing leaves what is said of the others alone.
LEMMA OthersFollow ==
    ASSUME StudyTyped, NEW thing \in Things, clash \subseteq clash', clash' \subseteq clash \cup {thing},
           \A x \in Clients : client'[x].on \notin {"none", thing} => client'[x] = client[x]
    PROVE  /\ thing # "card" /\ CardFollows /\ UNCHANGED <<card, reviews>> => CardFollows'
           /\ thing # "goal" /\ GoalFollows /\ UNCHANGED <<goalTopic, resources>> => GoalFollows'
           /\ thing # "draft" /\ DraftFollows /\ UNCHANGED <<draft, drafted, restored>> => DraftFollows'
<1>1. ASSUME thing # "card", CardFollows, UNCHANGED <<card, reviews>>  PROVE CardFollows'
  <2>1. \A c \in Clients : client'[c].on = "card" => client'[c] = client[c]
    BY <1>1
  <2> QED BY <1>1, <2>1 DEF CardFollows, Works
<1>2. ASSUME thing # "goal", GoalFollows, UNCHANGED <<goalTopic, resources>>  PROVE GoalFollows'
  <2>1. \A c \in Clients : client'[c].on = "goal" => client'[c] = client[c]
    BY <1>2
  <2> QED BY <1>2, <2>1 DEF GoalFollows, Works
<1>3. ASSUME thing # "draft", DraftFollows, UNCHANGED <<draft, drafted, restored>>  PROVE DraftFollows'
  <2>1. \A c \in Clients : client'[c].on = "draft" => client'[c] = client[c]
    BY <1>3
  <2> QED BY <1>3, <2>1 DEF DraftFollows, Works
<1> QED BY <1>1, <1>2, <1>3

\* A request that reads holds what there is.
LEMMA ReadStep ==
    ASSUME StudyInv, NEW c \in Clients, NEW r \in Work, AtRest(c), Reads(c, r), ~r.stale,
           UNCHANGED <<card, reviews, goalTopic, resources, draft, drafted, restored>>,
           \/ r.on = "card" /\ r.card = card
           \/ r.on = "goal" /\ r.topic = goalTopic
           \/ r.on = "draft" /\ r.number = draft + 1 /\ draft # 0
    PROVE  StudyInv'
<1>1. /\ client' \in [Clients -> Work] /\ client'[c] = r /\ clash' = clash
      /\ \A x \in Clients \ {c} : client'[x] = client[x]
  BY ReadingKeeps DEF StudyInv
<1>2. StudyTyped'
  BY <1>1 DEF StudyInv, StudyTyped
<1>3. CardFollows'
  BY <1>1 DEF StudyInv, CardFollows, Works
<1>4. GoalFollows'
  BY <1>1 DEF StudyInv, GoalFollows, Works
<1>5. DraftFollows'
  <2>1. draft \in Nat
    BY DEF StudyInv, StudyTyped
  <2>2. r.on = "draft" => r.number = draft + 1 /\ draft # 0 /\ r.number >= 1
    BY <2>1
  <2>3. \A x \in Clients : client'[x].on = "draft" =>
           \/ x = c /\ r.on = "draft" /\ client'[x] = r
           \/ client'[x] = client[x] /\ client[x].on = "draft"
    <3> TAKE x \in Clients
    <3>1. CASE x = c
      BY <1>1, <3>1
    <3>2. CASE x # c
      BY <1>1, <3>2
    <3> QED BY <3>1, <3>2
  <2>4. \A x \in Clients : client'[x].on = "draft" => client'[x].number >= 1
    BY <2>2, <2>3 DEF StudyInv, DraftFollows, Works
  <2>5. draft = 0 => \A x \in Clients : client'[x].on # "draft"
    BY <2>2, <2>3 DEF StudyInv, DraftFollows, Works
  <2>6. "draft" \notin clash /\ ~restored =>
           \A x \in Clients : client'[x].on = "draft" /\ ~client'[x].stale => client'[x].number = draft + 1
    BY <2>2, <2>3 DEF StudyInv, DraftFollows, Works
  <2> QED BY <1>1, <2>4, <2>5, <2>6 DEF StudyInv, DraftFollows, Works
<1> QED BY <1>2, <1>3, <1>4, <1>5 DEF StudyInv

\* A request reads its row.
LEMMA ReadsStep ==
    ASSUME StudyInv, NEW c \in Clients,
           ReviewRead(c) \/ (\E b \in BOOLEAN : RankRead(c, b)) \/ DraftRead(c)
    PROVE  StudyInv'
<1>0. card \in Schedule /\ goalTopic \in GoalTopics \cup {NoTopic} /\ draft \in Nat
  BY DEF StudyInv, StudyTyped
<1>1. CASE ReviewRead(c)
  <2>1. PICK r : r = [NoWork EXCEPT !.on = "card", !.card = card]
    OBVIOUS
  <2>2. r \in Work /\ ~r.stale /\ r.on = "card" /\ r.card = card
    BY <1>0, <2>1 DEF NoWork, Work, Things, Schedule
  <2> QED BY <1>1, <2>1, <2>2, ReadStep DEF ReviewRead
<1>2. CASE \E b \in BOOLEAN : RankRead(c, b)
  <2>1. PICK r : r = [NoWork EXCEPT !.on = "goal", !.topic = goalTopic]
    OBVIOUS
  <2>1a. r = [on |-> "goal", card |-> NoWork.card, topic |-> goalTopic, number |-> 0, stale |-> FALSE]
    BY <2>1 DEF NoWork
  <2>1b. NoWork.card \in Schedule /\ draft + 1 \in Nat
    BY <1>0 DEF NoWork, Schedule
  <2>2. r \in Work /\ ~r.stale /\ r.on = "goal" /\ r.topic = goalTopic
    BY <1>0, <2>1a, <2>1b DEF Work, Things
  <2> QED BY <1>2, <2>1, <2>2, ReadStep DEF RankRead
<1>3. CASE DraftRead(c)
  <2>1. PICK r : r = [NoWork EXCEPT !.on = "draft", !.number = draft + 1]
    OBVIOUS
  <2>1a. r = [on |-> "draft", card |-> NoWork.card, topic |-> NoTopic, number |-> draft + 1, stale |-> FALSE]
    BY <2>1 DEF NoWork
  <2>1b. NoWork.card \in Schedule /\ draft + 1 \in Nat
    BY <1>0 DEF NoWork, Schedule
  <2>2. r \in Work /\ ~r.stale /\ r.on = "draft" /\ r.number = draft + 1
    BY <1>0, <2>1a, <2>1b DEF Work, Things
  <2> QED BY <1>3, <2>1, <2>2, ReadStep DEF DraftRead
<1> QED BY <1>1, <1>2, <1>3

\* A review is written: the card and its history go on together, unless it was overtaken.
LEMMA ReviewWriteStep ==
    ASSUME StudyInv, NEW c \in Clients, NEW g \in Grades, ReviewWrite(c, g)
    PROVE  StudyInv'
<1> DEFINE read == client[c].card
<1>1. PICK days \in NextIntervals(g, read.interval, read.ease) :
         /\ card' = [interval |-> days, ease |-> NextEase(g, read.ease), count |-> read.count + 1]
         /\ reviews' = Append(reviews, [from |-> read.interval, to |-> days])
  BY DEF ReviewWrite
<1>2. /\ Works(c, "card") /\ Overwrites(c, "card")
      /\ UNCHANGED <<goalTopic, resources, draft, drafted, restored>>
  BY DEF ReviewWrite
<1>3. StudyTyped /\ reviews \in Seq(Review) /\ client \in [Clients -> Work] /\ card \in Schedule
  BY DEF StudyInv, StudyTyped
<1>4. read \in Schedule /\ read.interval \in Nat /\ read.ease \in 130..320 /\ read.count \in Nat
  BY <1>3 DEF Work, Schedule
<1>5. days \in Nat /\ NextEase(g, read.ease) \in 130..320
  BY <1>4, EaseIsBound, IntervalsAreNatural
<1>6. /\ client' \in [Clients -> Work] /\ client'[c] = NoWork /\ clash' \subseteq Things
      /\ clash \subseteq clash' /\ clash' \subseteq clash \cup {"card"}
      /\ "card" \notin clash' => ~client[c].stale
      /\ \A x \in Clients : client'[x].on = "card" => client'[x].stale
      /\ \A x \in Clients : client'[x].on \notin {"none", "card"} => client'[x] = client[x]
  BY <1>2, <1>3, OverwritingMarks DEF Things
<1>7. PICK rv : rv = [from |-> read.interval, to |-> days]
  OBVIOUS
<1>8. rv \in Review /\ rv.from = read.interval /\ rv.to = days /\ reviews' = Append(reviews, rv)
  BY <1>1, <1>4, <1>5, <1>7 DEF Review
<1>9. /\ reviews' \in Seq(Review) /\ Len(reviews') = Len(reviews) + 1
      /\ \A i \in 1..Len(reviews) : reviews'[i] = reviews[i]
      /\ reviews'[Len(reviews) + 1] = rv
  BY <1>3, <1>8, AppendProperties
<1>10. card' \in Schedule
  BY <1>1, <1>4, <1>5 DEF Schedule
<1>11. StudyTyped'
  BY <1>2, <1>3, <1>6, <1>9, <1>10 DEF StudyTyped
<1>12. GoalFollows' /\ DraftFollows'
  BY <1>2, <1>3, <1>6, OthersFollow DEF StudyInv, Things
<1>13. CardFollows'
  <2> SUFFICES ASSUME "card" \notin clash'
               PROVE  /\ \A x \in Clients : Works(x, "card")' /\ ~client'[x].stale => client'[x].card = card'
                      /\ card'.count = Len(reviews')
                      /\ reviews'[Len(reviews')].to = card'.interval
                      /\ \A i \in 2..Len(reviews') : reviews'[i].from = reviews'[i - 1].to
    BY DEF CardFollows
  <2>1. read = card /\ card.count = Len(reviews)
        /\ (reviews # <<>> => reviews[Len(reviews)].to = card.interval)
        /\ \A i \in 2..Len(reviews) : reviews[i].from = reviews[i - 1].to
    BY <1>2, <1>6 DEF StudyInv, CardFollows
  <2>2. \A x \in Clients : Works(x, "card")' /\ ~client'[x].stale => client'[x].card = card'
    BY <1>6 DEF Works
  <2>3. card'.count = Len(reviews') /\ reviews'[Len(reviews')].to = card'.interval
    BY <1>1, <1>8, <1>9, <2>1
  <2>4. ASSUME NEW i \in 2..Len(reviews')  PROVE reviews'[i].from = reviews'[i - 1].to
    <3>0. Len(reviews) \in Nat
      BY <1>3
    <3>1. CASE i \in 2..Len(reviews)
      BY <1>9, <2>1, <3>0, <3>1
    <3>2. CASE i = Len(reviews) + 1
      <4>1. Len(reviews) >= 1 /\ reviews # <<>> /\ i - 1 = Len(reviews)
        BY <2>4, <1>9, <3>0, <3>2
      <4>2. reviews'[i - 1] = reviews[Len(reviews)]
        BY <1>9, <3>0, <4>1
      <4> QED BY <1>8, <1>9, <2>1, <3>2, <4>1, <4>2
    <3> QED BY <1>9, <3>0, <3>1, <3>2
  <2> QED BY <2>2, <2>3, <2>4
<1> QED BY <1>11, <1>12, <1>13 DEF StudyInv

\* The goal changes or goes, with its resources; they are ranked, or grow old.
LEMMA GoalStep ==
    ASSUME StudyInv, (\E t \in GoalTopics : UpdateGoal(t)) \/ DeleteGoal \/ ResourcesAge
                     \/ \E c \in Clients : RankWrite(c)
    PROVE  StudyInv'
<1>0. StudyTyped /\ client \in [Clients -> Work] /\ CardFollows /\ GoalFollows /\ DraftFollows
  BY DEF StudyInv, StudyTyped
<1>1. ASSUME NEW t \in GoalTopics, UpdateGoal(t)  PROVE StudyInv'
  <2>1. /\ goalTopic' = t /\ resources' = {} /\ UNCHANGED <<card, reviews, draft, drafted, clash, restored>>
        /\ client' = [x \in Clients |-> IF Works(x, "goal") THEN [client[x] EXCEPT !.stale = TRUE]
                                        ELSE client[x]]
    BY <1>1 DEF UpdateGoal
  <2>2. \A x \in Clients : client[x] \in Work /\ [client[x] EXCEPT !.stale = TRUE] \in Work
    BY <1>0 DEF Work
  <2>3. client' \in [Clients -> Work]
    BY <2>1, <2>2
  <2>4. \A x \in Clients : /\ client'[x].on \notin {"none", "goal"} => client'[x] = client[x]
                           /\ client'[x].on = "goal" => client'[x].stale
    BY <2>1, <2>2 DEF Works, Work
  <2>5. StudyTyped'
    BY <1>0, <2>1, <2>3 DEF StudyTyped
  <2>6. CardFollows' /\ DraftFollows'
    BY <1>0, <2>1, <2>4, OthersFollow DEF Things
  <2>7. GoalFollows'
    BY <2>1, <2>4 DEF GoalFollows, Works
  <2> QED BY <2>5, <2>6, <2>7 DEF StudyInv
<1>2. CASE DeleteGoal
  <2>1. /\ goalTopic' = NoTopic /\ resources' = {}
        /\ UNCHANGED <<card, reviews, draft, drafted, client, clash, restored>>
    BY <1>2 DEF DeleteGoal
  <2> QED BY <1>0, <2>1 DEF StudyInv, StudyTyped, CardFollows, GoalFollows, DraftFollows, Works
<1>3. CASE ResourcesAge
  <2>1. resources' = {} /\ UNCHANGED <<card, reviews, goalTopic, draft, drafted, client, clash, restored>>
    BY <1>3 DEF ResourcesAge
  <2> QED BY <1>0, <2>1 DEF StudyInv, StudyTyped, CardFollows, GoalFollows, DraftFollows, Works
<1>4. ASSUME NEW c \in Clients, RankWrite(c), goalTopic = NoTopic  PROVE StudyInv'
  <2>1. client' = [client EXCEPT ![c] = NoWork]
        /\ UNCHANGED <<card, reviews, goalTopic, resources, draft, drafted, clash, restored>>
    BY <1>4 DEF RankWrite, GivesUp
  <2>2. client' \in [Clients -> Work]
    BY <1>0, <2>1, NoWorkIsWork
  <2>3. \A x \in Clients : client'[x].on # "none" => client'[x] = client[x]
    BY <1>0, <2>1, NoWorkIsWork
  <2>4. StudyTyped'
    BY <1>0, <2>1, <2>2 DEF StudyTyped
  <2>5. CardFollows' /\ GoalFollows' /\ DraftFollows'
    BY <1>0, <2>1, <2>3 DEF CardFollows, GoalFollows, DraftFollows, Works
  <2> QED BY <2>4, <2>5 DEF StudyInv
<1>5. ASSUME NEW c \in Clients, RankWrite(c), goalTopic # NoTopic  PROVE StudyInv'
  <2>1. /\ Works(c, "goal") /\ resources' = {client[c].topic} /\ Overwrites(c, "goal")
        /\ UNCHANGED <<card, reviews, goalTopic, draft, drafted, restored>>
    BY <1>5 DEF RankWrite
  <2>2. /\ client' \in [Clients -> Work] /\ client'[c] = NoWork /\ clash' \subseteq Things
        /\ clash \subseteq clash' /\ clash' \subseteq clash \cup {"goal"}
        /\ "goal" \notin clash' => ~client[c].stale
        /\ \A x \in Clients : client'[x].on = "goal" => client'[x].stale
        /\ \A x \in Clients : client'[x].on \notin {"none", "goal"} => client'[x] = client[x]
    BY <1>0, <2>1, OverwritingMarks DEF Things
  <2>3. client[c].topic \in GoalTopics \cup {NoTopic}
    BY <1>0 DEF Work
  <2>4. StudyTyped'
    BY <1>0, <2>1, <2>2, <2>3 DEF StudyTyped
  <2>5. CardFollows' /\ DraftFollows'
    BY <1>0, <2>1, <2>2, OthersFollow DEF Things
  <2>6. GoalFollows'
    BY <1>0, <1>5, <2>1, <2>2 DEF GoalFollows, Works
  <2> QED BY <2>4, <2>5, <2>6 DEF StudyInv
<1> QED BY <1>1, <1>2, <1>3, <1>4, <1>5

\* The versions of the draft.
LEMMA DraftStep ==
    ASSUME StudyInv, CreateDraft \/ DeleteDraft \/ (\E c \in Clients : DraftWrite(c))
                     \/ \E n \in 1..MaxVersions : RestoreDraft(n)
    PROVE  StudyInv'
<1>0. /\ StudyTyped /\ client \in [Clients -> Work] /\ drafted \in Seq(Nat) /\ draft \in Nat
      /\ CardFollows /\ GoalFollows /\ DraftFollows
  BY DEF StudyInv, StudyTyped
<1>1. CASE CreateDraft
  <2>1. /\ draft = 0 /\ draft' = 1 /\ drafted' = <<1>>
        /\ UNCHANGED <<card, reviews, goalTopic, resources, client, clash, restored>>
    BY <1>1 DEF CreateDraft
  <2>2. drafted' \in Seq(Nat) /\ Len(drafted') = 1 /\ DOMAIN drafted' = {1} /\ drafted'[1] = 1
    BY <2>1
  <2>3a. StudyTyped'
    BY <1>0, <2>1, <2>2 DEF StudyTyped
  <2>3b. CardFollows' /\ GoalFollows'
    BY <1>0, <2>1 DEF CardFollows, GoalFollows, Works
  <2>3. StudyTyped' /\ CardFollows' /\ GoalFollows'
    BY <2>3a, <2>3b
  <2>4. \A x \in Clients : ~Works(x, "draft")'
    BY <1>0, <2>1 DEF DraftFollows, Works
  <2>5. DraftFollows'
    BY <2>1, <2>2, <2>4 DEF DraftFollows
  <2> QED BY <2>3, <2>5 DEF StudyInv
<1>2. CASE DeleteDraft
  <2>1. /\ draft' = 0 /\ drafted' = <<>> /\ restored' = FALSE
        /\ UNCHANGED <<card, reviews, goalTopic, resources, clash>>
        /\ client' = [x \in Clients |-> IF Works(x, "draft") THEN NoWork ELSE client[x]]
    BY <1>2 DEF DeleteDraft
  <2>2. client' \in [Clients -> Work]
    BY <1>0, <2>1, NoWorkIsWork
  <2>3. \A x \in Clients : /\ client'[x].on # "none" => client'[x] = client[x]
                           /\ client'[x].on # "draft"
    BY <2>1, NoWorkIsWork DEF Works
  <2>4a. drafted' \in Seq(Nat) /\ draft' \in Nat
    BY <2>1
  <2>4b. restored' \in BOOLEAN
    BY <2>1
  <2>4. StudyTyped'
    BY <1>0, <2>1, <2>2, <2>4a, <2>4b DEF StudyTyped
  <2>5. CardFollows' /\ GoalFollows'
    BY <1>0, <2>1, <2>3, OthersFollow DEF Things
  <2>6. DraftFollows'
    BY <2>1, <2>3 DEF DraftFollows, Works
  <2> QED BY <2>4, <2>5, <2>6 DEF StudyInv
<1>3. ASSUME NEW c \in Clients, DraftWrite(c)  PROVE StudyInv'
  <2>1. /\ Works(c, "draft") /\ draft' = client[c].number /\ Overwrites(c, "draft")
        /\ drafted' = Append(drafted, client[c].number)
        /\ UNCHANGED <<card, reviews, goalTopic, resources, restored>>
    BY <1>3 DEF DraftWrite
  <2>2. /\ client' \in [Clients -> Work] /\ client'[c] = NoWork /\ clash' \subseteq Things
        /\ clash \subseteq clash' /\ clash' \subseteq clash \cup {"draft"}
        /\ "draft" \notin clash' => ~client[c].stale
        /\ \A x \in Clients : client'[x].on = "draft" =>
              client'[x].stale /\ client[x].on = "draft" /\ client'[x].number = client[x].number
        /\ \A x \in Clients : client'[x].on \notin {"none", "draft"} => client'[x] = client[x]
    BY <1>0, <2>1, OverwritingMarks DEF Things
  <2>3. client[c].number \in Nat
    BY <1>0 DEF Work
  <2>4. /\ drafted' \in Seq(Nat) /\ Len(drafted') = Len(drafted) + 1 /\ Len(drafted) \in Nat
        /\ \A i \in 1..Len(drafted) : drafted'[i] = drafted[i]
        /\ drafted'[Len(drafted) + 1] = client[c].number
    BY <1>0, <2>1, <2>3, AppendProperties
  <2>5. StudyTyped'
    BY <1>0, <2>1, <2>2, <2>3, <2>4 DEF StudyTyped
  <2>6. CardFollows' /\ GoalFollows'
    BY <1>0, <2>1, <2>2, OthersFollow DEF Things
  <2>7. draft # 0
    BY <1>0, <2>1 DEF DraftFollows
  <2>8. ASSUME "draft" \notin clash', ~restored  PROVE
           /\ draft' = Len(drafted') /\ draft' # 0
           /\ \A i \in DOMAIN drafted' : drafted'[i] = i
    <3>1. client[c].number = draft + 1 /\ draft = Len(drafted)
          /\ \A i \in DOMAIN drafted : drafted[i] = i
      BY <1>0, <2>1, <2>2, <2>8 DEF DraftFollows
    <3>2. DOMAIN drafted = 1..Len(drafted) /\ DOMAIN drafted' = 1..(Len(drafted) + 1)
      BY <1>0, <2>4
    <3>3. \A i \in 1..(Len(drafted) + 1) : drafted'[i] = i
      BY <2>4, <3>1, <3>2
    <3> QED BY <2>1, <2>3, <2>4, <3>1, <3>2, <3>3
  <2>9. draft' # 0
    BY <1>0, <2>1, <2>3 DEF DraftFollows
  <2>10. \A x \in Clients : Works(x, "draft")' => client'[x].number >= 1
    BY <1>0, <2>2 DEF DraftFollows, Works
  <2>11. DraftFollows'
    BY <2>1, <2>2, <2>8, <2>9, <2>10 DEF DraftFollows, Works
  <2> QED BY <2>5, <2>6, <2>11 DEF StudyInv
<1>4. ASSUME NEW n \in 1..MaxVersions, RestoreDraft(n)  PROVE StudyInv'
  <2>1. /\ n \in Range(drafted) /\ draft' = n /\ restored' = (restored \/ n # Last(drafted))
        /\ client' = [x \in Clients |-> IF Works(x, "draft") THEN [client[x] EXCEPT !.stale = TRUE]
                                        ELSE client[x]]
        /\ UNCHANGED <<card, reviews, goalTopic, resources, drafted, clash>>
    BY <1>4 DEF RestoreDraft
  <2>2. \A x \in Clients : client[x] \in Work /\ [client[x] EXCEPT !.stale = TRUE] \in Work
    BY <1>0 DEF Work
  <2>3. client' \in [Clients -> Work]
    BY <2>1, <2>2
  <2>4. \A x \in Clients : /\ client'[x].on \notin {"none", "draft"} => client'[x] = client[x]
                           /\ client'[x].on = "draft" =>
                                client'[x].stale /\ client[x].on = "draft" /\ client'[x].number = client[x].number
    BY <2>1, <2>2 DEF Works, Work
  <2>5. StudyTyped'
    BY <1>0, <2>1, <2>3 DEF StudyTyped
  <2>6. CardFollows' /\ GoalFollows'
    BY <1>0, <2>1, <2>4, OthersFollow DEF Things
  <2>7. ASSUME "draft" \notin clash, ~restored'  PROVE n = Len(drafted) /\ \A i \in DOMAIN drafted : drafted[i] = i
    <3>1. ~restored /\ n = Last(drafted) /\ \A i \in DOMAIN drafted : drafted[i] = i
      BY <1>0, <2>1, <2>7 DEF DraftFollows
    <3>2. drafted # <<>>
      BY <2>1 DEF Range
    <3>3. Len(drafted) \in DOMAIN drafted
      BY <1>0, <3>2
    <3> QED BY <3>1, <3>3 DEF Last
  <2>7a. \A x \in Clients : Works(x, "draft")' => client'[x].number >= 1
    BY <1>0, <2>4 DEF DraftFollows, Works
  <2>8. DraftFollows'
    BY <2>1, <2>4, <2>7, <2>7a DEF DraftFollows, Works
  <2> QED BY <2>5, <2>6, <2>8 DEF StudyInv
<1> QED BY <1>1, <1>2, <1>3, <1>4

\* One step for each action.
LEMMA StudyStep == StudyInv /\ [StudyNext]_studyVars => StudyInv'
<1> SUFFICES ASSUME StudyInv, [StudyNext]_studyVars  PROVE StudyInv'
  OBVIOUS
<1>1. CASE CardNext
  BY <1>1, ReadsStep, ReviewWriteStep DEF CardNext
<1>2. CASE GoalNext
  BY <1>2, ReadsStep, GoalStep DEF GoalNext
<1>3. CASE DraftNext
  BY <1>3, ReadsStep, DraftStep DEF DraftNext
<1>4. CASE UNCHANGED studyVars
  BY <1>4 DEF studyVars, StudyInv, StudyTyped, CardFollows, GoalFollows, DraftFollows, Works
<1> QED BY <1>1, <1>2, <1>3, <1>4 DEF StudyNext

\* Nothing is due at first.
LEMMA StudyStart == StudyInit => StudyInv
<1> SUFFICES ASSUME StudyInit  PROVE StudyInv
  OBVIOUS
<1>1. card \in Schedule /\ card.count = 0
  BY DEF StudyInit, NoWork, Schedule
<1>2. client \in [Clients -> Work] /\ \A c \in Clients : client[c].on = "none"
  BY NoWorkIsWork DEF StudyInit
<1>3. StudyTyped
  <2>1. reviews \in Seq(Review) /\ drafted \in Seq(Nat) /\ draft \in Nat
    BY DEF StudyInit
  <2>2. goalTopic \in GoalTopics \cup {NoTopic} /\ resources \subseteq GoalTopics \cup {NoTopic}
    BY DEF StudyInit
  <2>3. restored \in BOOLEAN /\ clash \subseteq Things
    BY DEF StudyInit
  <2> QED BY <1>1, <1>2, <2>1, <2>2, <2>3 DEF StudyTyped
<1>4. CardFollows /\ GoalFollows /\ DraftFollows
  BY <1>1, <1>2 DEF StudyInit, CardFollows, GoalFollows, DraftFollows, Works
<1> QED BY <1>3, <1>4 DEF StudyInv

\* For any requests, topics, reviews and versions: reviews that do not overlap count and go on
\* from one another, a better grade never brings a card back earlier, the resources are those of
\* the goal, and the versions of a draft are numbered one by one.
THEOREM StudyGoesOn == StudySpec => []StudyKeepsUp
<1>1. StudyInv => StudyKeepsUp
  <2> SUFFICES ASSUME StudyInv  PROVE StudyKeepsUp
    OBVIOUS
  <2>1. card.interval \in Nat /\ card.ease \in 130..320
    BY DEF StudyInv, StudyTyped, Schedule
  <2>2. ReviewsAreChained
    BY <2>1, GradesAreOrdered DEF StudyInv, CardFollows, ReviewsAreChained
  <2>3. SidesFollow
    BY DEF StudyInv, GoalFollows, DraftFollows, SidesFollow
  <2> QED BY <2>2, <2>3 DEF StudyKeepsUp
<1> QED BY <1>1, StudyStart, StudyStep, PTL DEF StudySpec

HIDE StudyAssumption DEF StudyAssumption

-----------------------------------------------------------------------------
(* What a draft is written from.                                             *)

USE DraftingAssumption DEF DraftingAssumption

\* A request says that there is too little at its end alone, and what is written then is backed.
DraftingTyped ==
    drafting \in [pc : {"none", "query", "fallback", "refused", "saved"},
                  by : {"none", "query", "fallback"}, scope : AskedScopes \cup {NoScope},
                  sources : Seq(MaterialIds), gaps : BOOLEAN]

\* The invariant: what is written is backed as soon as it is there.
DraftingInv ==
    /\ DraftingTyped /\ DraftIsBacked
    /\ drafting.gaps => drafting.pc = "saved"
    /\ drafting.pc \in {"query", "fallback"} => drafting.scope \in AskedScopes

\* What is usable is among the candidates, and these are documents of the owner in the scope.
LEMMA UsableIsInScope ==
    ASSUME drafting.scope \in AskedScopes, Foreigner \notin drafting.scope.documents,
           NEW d \in UsableMaterial
    PROVE  /\ d \in MaterialIds /\ d # Foreigner /\ material[d].ready /\ Tagged(d)
           /\ drafting.scope.documents # {} => d \in drafting.scope.documents
           /\ drafting.scope.documents = {} => Filed(d)
<1>1. drafting.scope.documents \subseteq MaterialIds
  BY DEF AskedScopes
<1>2. d \in Candidates /\ Tagged(d)
  BY DEF UsableMaterial
<1>3. CASE drafting.scope.documents # {}
  BY <1>1, <1>2, <1>3 DEF Candidates
<1>4. CASE drafting.scope.documents = {}
  BY <1>2, <1>4 DEF Candidates, Newest
<1> QED BY <1>3, <1>4

\* Where nothing is usable the newest documents of the scope give nothing.
LEMMA NothingNewIsUsable ==
    ASSUME UsableMaterial = {}, NEW d \in MaterialIds \ {Foreigner},
           InScope(d), material[d].ready, material[d].text
    PROVE  Cardinality({e \in MaterialIds : material[e].ready}) > FallbackLimit
<1> DEFINE filed == {x \in MaterialIds : x # Foreigner /\ material[x].ready /\ Filed(x)}
           newer == {e \in filed : NotNewer(d, e)}
           all   == {e \in MaterialIds : material[e].ready}
<1>1. d \notin Candidates
  BY DEF UsableMaterial, InScope
<1>2. drafting.scope.documents = {}
  BY <1>1 DEF Candidates, InScope
<1>3. d \in filed /\ Candidates = Newest(filed)
  BY <1>2 DEF Candidates, InScope
<1>4. ~(Cardinality(newer) <= FallbackLimit)
  BY <1>1, <1>3 DEF Newest
<1>5. IsFiniteSet(MaterialIds)
  <2>1. Len(Materials) \in Nat /\ DOMAIN Materials = 1..Len(Materials)
    OBVIOUS
  <2>2. IsFiniteSet(DOMAIN Materials)
    BY <2>1, FS_Interval
  <2>3. Materials \in Surjection(DOMAIN Materials, MaterialIds)
    BY <2>1 DEF Surjection, MaterialIds, ToSet
  <2> QED BY <2>2, <2>3, FS_Surjection
<1>6. IsFiniteSet(all) /\ newer \subseteq all
  BY <1>5, FS_Subset
<1>7. IsFiniteSet(newer) /\ Cardinality(newer) <= Cardinality(all)
  BY <1>6, FS_Subset
<1>8. Cardinality(newer) \in Nat /\ Cardinality(all) \in Nat
  BY <1>6, <1>7, FS_CardinalityType
<1> QED BY <1>4, <1>7, <1>8

\* A request asks, ...
LEMMA AskDraftStep ==
    ASSUME DraftingInv, NEW a \in AskedScopes, AskDraft(a)
    PROVE  DraftingInv'
<1>1. drafting' = [drafting EXCEPT !.pc = IF Complete(a) THEN "query" ELSE "refused", !.scope = a]
      /\ drafting.pc = "none"
  BY DEF AskDraft
<1>2. DraftingTyped' /\ drafting'.pc \in {"query", "refused"} /\ drafting'.gaps = drafting.gaps
      /\ drafting'.scope \in AskedScopes
  BY <1>1 DEF DraftingInv, DraftingTyped
<1>3. ~drafting.gaps
  BY <1>1 DEF DraftingInv
<1> QED BY <1>2, <1>3 DEF DraftingInv, DraftIsBacked

\* ... the query answers, ...
LEMMA QueryDraftStep ==
    ASSUME DraftingInv, NEW used \in Seq(MaterialIds), QueryDraft(used)
    PROVE  DraftingInv'
<1>1. /\ drafting.pc = "query" /\ UNCHANGED material
      /\ \A d \in ToSet(used) : d # Foreigner /\ material[d].ready /\ InScope(d)
      /\ drafting' = [drafting EXCEPT !.pc = IF used = <<>> THEN "fallback" ELSE "saved",
                                      !.by = "query", !.sources = used]
  BY DEF QueryDraft
<1>2. /\ DraftingTyped' /\ drafting'.gaps = drafting.gaps /\ drafting'.scope = drafting.scope
      /\ drafting'.by = "query" /\ drafting'.sources = used
      /\ drafting'.pc = IF used = <<>> THEN "fallback" ELSE "saved"
  BY <1>1 DEF DraftingInv, DraftingTyped
<1>3. ~drafting.gaps /\ drafting'.scope \in AskedScopes
  BY <1>1, <1>2 DEF DraftingInv
<1>4. ASSUME NEW d \in ToSet(used)
      PROVE  /\ d # Foreigner /\ material'[d].ready /\ Tagged(d)'
             /\ drafting'.scope.documents # {} => d \in drafting'.scope.documents
             /\ Filed(d)'
  BY <1>1, <1>2, <1>4 DEF InScope, Tagged, Filed
<1>5. DraftIsBacked'
  BY <1>2, <1>3, <1>4 DEF DraftIsBacked
<1> QED BY <1>2, <1>3, <1>5 DEF DraftingInv

\* ... and where it uses nothing the documents are read.
LEMMA FallbackDraftStep ==
    ASSUME DraftingInv, FallbackDraft
    PROVE  DraftingInv'
<1>1. drafting.pc = "fallback" /\ UNCHANGED material /\ drafting.scope \in AskedScopes /\ ~drafting.gaps
  BY DEF DraftingInv, FallbackDraft
<1>2. CASE Foreigner \in drafting.scope.documents
  <2>1. drafting' = [drafting EXCEPT !.pc = "refused"]
    BY <1>2 DEF FallbackDraft
  <2>2. DraftingTyped' /\ drafting'.pc = "refused" /\ drafting'.gaps = drafting.gaps
    BY <2>1 DEF DraftingInv, DraftingTyped
  <2> QED BY <1>1, <2>2 DEF DraftingInv, DraftIsBacked
<1>3. CASE Foreigner \notin drafting.scope.documents
  <2>1. PICK s \in FallbackSources :
           drafting' = [drafting EXCEPT !.pc = "saved", !.by = "fallback", !.sources = s,
                                        !.gaps = s = <<>>]
    BY <1>3 DEF FallbackDraft
  <2>2. s \in Seq(UsableMaterial) /\ IsInjective(s) /\ (Len(s) = FallbackLimit \/ ToSet(s) = UsableMaterial)
    BY DEF FallbackSources, SeqOf
  <2>3. UsableMaterial \subseteq MaterialIds
    BY <1>1, <1>3, UsableIsInScope
  <2>4. s \in Seq(MaterialIds)
    BY <2>2, <2>3
  <2>5. PICK none \in BOOLEAN : none <=> s = <<>>
    OBVIOUS
  <2>6. drafting' = [drafting EXCEPT !.pc = "saved", !.by = "fallback", !.sources = s, !.gaps = none]
    BY <2>1, <2>5
  <2>7. /\ DraftingTyped' /\ drafting'.pc = "saved" /\ drafting'.scope = drafting.scope
        /\ drafting'.sources = s /\ drafting'.gaps = none
    BY <2>4, <2>6 DEF DraftingInv, DraftingTyped
  <2>8. ASSUME NEW d \in ToSet(s)
        PROVE  /\ d # Foreigner /\ material'[d].ready /\ Tagged(d)'
               /\ drafting'.scope.documents # {} => d \in drafting'.scope.documents
               /\ drafting'.scope.documents = {} => Filed(d)'
    <3>1. d \in UsableMaterial
      BY <2>2 DEF ToSet
    <3> QED BY <1>1, <1>3, <2>7, <3>1, UsableIsInScope DEF Tagged, Filed
  <2>9. ASSUME none, NEW d \in MaterialIds \ {Foreigner},
               InScope(d)', material'[d].ready, material'[d].text
        PROVE  Cardinality({e \in MaterialIds : material'[e].ready}) > FallbackLimit
    <3>1. UsableMaterial = {}
      BY <2>2, <2>5, <2>9 DEF ToSet
    <3>2. InScope(d) /\ material[d].ready /\ material[d].text
      BY <1>1, <2>7, <2>9 DEF InScope, Tagged, Filed
    <3>3. Cardinality({e \in MaterialIds : material[e].ready}) > FallbackLimit
      BY <3>1, <3>2, NothingNewIsUsable
    <3> QED BY <1>1, <3>3
  <2>10. DraftIsBacked'
    BY <2>2, <2>5, <2>7, <2>8, <2>9 DEF DraftIsBacked
  <2> QED BY <2>7, <2>10 DEF DraftingInv
<1> QED BY <1>2, <1>3

\* One step for each action.
LEMMA DraftingStep == DraftingInv /\ [DraftingNext]_draftingVars => DraftingInv'
<1> SUFFICES ASSUME DraftingInv, [DraftingNext]_draftingVars  PROVE DraftingInv'
  OBVIOUS
<1>1. ASSUME NEW a \in AskedScopes, AskDraft(a)  PROVE DraftingInv'
  BY <1>1, AskDraftStep
<1>2. ASSUME NEW n \in 0..2, NEW used \in [1..n -> MaterialIds], QueryDraft(used)  PROVE DraftingInv'
  <2>1. used \in Seq(MaterialIds)
    OBVIOUS
  <2> QED BY <1>2, <2>1, QueryDraftStep
<1>3. ASSUME NEW d \in MaterialIds, MaterialTurns(d)  PROVE DraftingInv'
  <2>1. UNCHANGED drafting /\ drafting.pc = "fallback"
    BY <1>3 DEF MaterialTurns
  <2> QED BY <2>1 DEF DraftingInv, DraftingTyped, DraftIsBacked
<1>4. ASSUME UNCHANGED draftingVars  PROVE DraftingInv'
  BY <1>4 DEF draftingVars, DraftingInv, DraftingTyped, DraftIsBacked, Tagged, Filed, InScope
<1> QED BY <1>1, <1>2, <1>3, <1>4, FallbackDraftStep DEF DraftingNext

\* For any documents, collections, tags and limits: a draft is written from READY documents of
\* the owner in its scope, each once when they are read themselves, and says that there is too
\* little only when the newest documents of the scope give nothing.
THEOREM DraftsAreBacked == DraftingSpec => []DraftIsBacked
<1>1. DraftingInit => DraftingInv
  BY DEF DraftingInit, NotDrafting, DraftingInv, DraftingTyped, DraftIsBacked
<1>2. DraftingInv => DraftIsBacked
  BY DEF DraftingInv
<1> QED BY <1>1, <1>2, DraftingStep, PTL DEF DraftingSpec

HIDE DraftingAssumption DEF DraftingAssumption

-----------------------------------------------------------------------------
(* What a flashcard asks.                                                    *)

\* What a document and a card are, and when a card says anything.
Questions == (UNION {ToSet(s) : s \in Suggestions}) \cup {"idea", "remember"}
DeckRow == [ready : BOOLEAN, suggested : Suggestions, summary : BOOLEAN,
            content : {"nothing", "raw", "chunk"}]
CardRow == [document : DeckIds, question : Questions, answer : {"nothing", "raw", "chunk", "summary"}]
Says(c) == c.question # NoQuestion /\ c.answer # "nothing"
Asks(c) == Question(c.document, c.question)
Distinct(s) == \A i, j \in DOMAIN s : Asks(s[i]) = Asks(s[j]) => i = j

\* The candidates of a document are cards of it, five at most.
LEMMA CandidatesAreCards ==
    ASSUME deck \in [DeckIds -> DeckRow], NEW d \in DeckIds
    PROVE  /\ CardCandidates(d) \in Seq(CardRow) /\ Len(CardCandidates(d)) \in 0..5
           /\ \A i \in DOMAIN CardCandidates(d) : CardCandidates(d)[i].document = d
<1> DEFINE OwnRow == {c \in CardRow : c.document = d}
<1>1. PICK asked : asked = deck[d].suggested
  OBVIOUS
<1>2. PICK n : n = IF Len(asked) < 3 THEN Len(asked) ELSE 3
  OBVIOUS
<1>3. asked \in Seq(ToSet(asked)) /\ asked \in Suggestions /\ n \in 0..3 /\ n <= Len(asked)
  <2>1. asked \in Suggestions
    BY <1>1 DEF DeckRow
  <2>2. asked \in Seq(ToSet(asked))
    BY <2>1, FlashcardsAssumption DEF FlashcardsAssumption
  <2>3. Len(asked) \in Nat
    BY <2>2
  <2>4. n \in 0..3 /\ n <= Len(asked)
    <3>1. CASE Len(asked) < 3
      BY <1>2, <2>3, <3>1
    <3>2. CASE ~(Len(asked) < 3)
      BY <1>2, <2>3, <3>2
    <3> QED BY <3>1, <3>2
  <2> QED BY <2>1, <2>2, <2>4
<1>4. AnswerOf(d) \in {"nothing", "raw", "chunk", "summary"}
  BY DEF AnswerOf, DeckRow
<1>5. ASSUME NEW q \in Questions, NEW a \in {"nothing", "raw", "chunk", "summary"}
      PROVE  CardOf(d, q, a) \in OwnRow
  BY <1>5 DEF CardOf, CardRow
<1>5a. "idea" \in Questions /\ "remember" \in Questions
  BY DEF Questions
<1> HIDE DEF OwnRow
<1>6. PICK one : one = [i \in 1..n |-> CardOf(d, asked[i], AnswerOf(d))]
  OBVIOUS
<1>7. one \in Seq(OwnRow) /\ Len(one) = n
  <2>1. \A i \in 1..n : asked[i] \in Questions
    BY <1>3 DEF Questions, ToSet
  <2>2. one \in [1..n -> OwnRow]
    BY <1>4, <1>5, <1>6, <2>1
  <2> QED BY <1>3, <2>2
<1>8. PICK two : two = IF deck[d].summary THEN <<CardOf(d, "idea", "summary")>> ELSE <<>>
  OBVIOUS
<1>9. two \in Seq(OwnRow) /\ Len(two) \in 0..1
  <2>1. CardOf(d, "idea", "summary") \in OwnRow
    BY <1>5, <1>5a
  <2>2. CASE deck[d].summary
    BY <1>8, <2>1, <2>2
  <2>3. CASE ~deck[d].summary
    BY <1>8, <2>3
  <2> QED BY <2>2, <2>3
<1>10. PICK three : three = IF deck[d].content = "chunk" THEN <<CardOf(d, "remember", "chunk")>> ELSE <<>>
  OBVIOUS
<1>11. three \in Seq(OwnRow) /\ Len(three) \in 0..1
  <2>1. CardOf(d, "remember", "chunk") \in OwnRow
    BY <1>5, <1>5a
  <2>2. CASE deck[d].content = "chunk"
    BY <1>10, <2>1, <2>2
  <2>3. CASE deck[d].content # "chunk"
    BY <1>10, <2>3
  <2> QED BY <2>2, <2>3
<1>12. CardCandidates(d) = (one \o two) \o three
  BY <1>1, <1>2, <1>6, <1>8, <1>10 DEF CardCandidates
<1>13. one \o two \in Seq(OwnRow) /\ Len(one \o two) = Len(one) + Len(two)
  BY <1>7, <1>9, ConcatProperties
<1>14. CardCandidates(d) \in Seq(OwnRow) /\ Len(CardCandidates(d)) = Len(one \o two) + Len(three)
  BY <1>11, <1>12, <1>13, ConcatProperties
<1>15. Len(CardCandidates(d)) \in 0..5
  <2>1. Len(CardCandidates(d)) = (n + Len(two)) + Len(three)
    BY <1>7, <1>13, <1>14
  <2>2. PICK k, l : k = Len(two) /\ l = Len(three)
    OBVIOUS
  <2>3. n \in 0..3 /\ k \in 0..1 /\ l \in 0..1
    BY <1>3, <1>9, <1>11, <2>2
  <2>4. n + k + l \in 0..5
    BY <2>3
  <2> QED BY <2>1, <2>2, <2>4
<1>16. \A i \in DOMAIN CardCandidates(d) : CardCandidates(d)[i] \in OwnRow
  BY <1>14
<1>17. OwnRow \subseteq CardRow /\ \A c \in OwnRow : c.document = d
  BY DEF OwnRow
<1>18. CardCandidates(d) \in Seq(CardRow)
  BY <1>14, <1>17
<1> QED BY <1>15, <1>16, <1>17, <1>18

\* A set of numbers that is not empty has a least one.
LEMMA LeastOne ==
    ASSUME NEW T, T \subseteq Nat, T # {}
    PROVE  \E x \in T : \A y \in T : x <= y
<1> DEFINE R == {ss \in Nat \X Nat : ss[1] < ss[2]}
<1>1. IsWellFoundedOn(R, Nat)
  BY NatLessThanWellFounded DEF OpToRel
<1>2. \E x \in T : \A y \in T : ~(<<y, x>> \in R)
  <2> HIDE DEF R
  <2> QED BY <1>1, WFMin
<1>3. PICK x \in T : \A y \in T : <<y, x>> \notin R
  BY <1>2
<1>4. \A y \in T : ~(y < x)
  BY <1>3
<1> QED BY <1>4

\* The question of a candidate that fits is among those that are taken.
LEMMA FittingIsTaken ==
    ASSUME deck \in [DeckIds -> DeckRow], NEW d \in DeckIds,
           NEW i \in DOMAIN CardCandidates(d), Fits(CardCandidates(d)[i])
    PROVE  \E j \in CardsFor(d) : CardCandidates(d)[j].question = CardCandidates(d)[i].question
<1> DEFINE T == {j \in DOMAIN CardCandidates(d) : /\ Fits(CardCandidates(d)[j])
                     /\ CardCandidates(d)[j].question = CardCandidates(d)[i].question}
<1>1. DOMAIN CardCandidates(d) = 1..Len(CardCandidates(d)) /\ Len(CardCandidates(d)) \in Nat
  BY CandidatesAreCards
<1>2. i \in T /\ T \subseteq Nat
  BY <1>1
<1>3. PICK j \in T : \A k \in T : j <= k
  <2> HIDE DEF T
  <2> QED BY <1>2, LeastOne
<1>4. ASSUME NEW k \in 1..(j - 1), Fits(CardCandidates(d)[k])
      PROVE  CardCandidates(d)[k].question # CardCandidates(d)[j].question
  <2>1. j \in 1..Len(CardCandidates(d))
    BY <1>1, <1>3
  <2>2. k \in DOMAIN CardCandidates(d) /\ ~(j <= k)
    BY <1>1, <2>1
  <2> QED BY <1>3, <1>4, <2>2
<1> QED BY <1>3, <1>4 DEF CardsFor

\* What a request makes: cards that say something, each of a question that has none, and where
\* they are fewer than it may make, of every such question.
LEMMA BuiltIsNew ==
    ASSUME deck \in [DeckIds -> DeckRow], NEW scope \in Seq(DeckIds), IsInjective(scope),
           NEW most \in Nat, NEW made \in Built(scope, most)
    PROVE  /\ made \in Seq(CardRow) /\ Len(made) <= most /\ Distinct(made)
           /\ \A i \in DOMAIN made : Says(made[i]) /\ Asks(made[i]) \notin Existing
           /\ \A d \in ToSet(scope) : Len(made) < most /\ deck[d].ready =>
                 \A c \in ToSet(CardCandidates(d)) : Says(c) =>
                    Asks(c) \in Existing \cup {Asks(made[i]) : i \in DOMAIN made}
<1>1. PICK s \in SeqOf(CardPlaces(scope), most) :
         /\ made = [i \in DOMAIN s |-> CardCandidates(scope[s[i][1]])[s[i][2]]]
         /\ \A i, j \in DOMAIN s : i < j => Earlier(s[i], s[j])
         /\ Len(s) = most \/ ToSet(s) = CardPlaces(scope)
  BY DEF Built
<1>2. PICK n \in 0..most : s \in [1..n -> CardPlaces(scope)]
  BY DEF SeqOf
<1>3. DOMAIN s = 1..n /\ Len(s) = n /\ n \in Nat /\ \A i \in 1..n : s[i] \in CardPlaces(scope)
  BY <1>2
<1>4. ASSUME NEW p \in CardPlaces(scope)
      PROVE  /\ p[1] \in DOMAIN scope /\ p[2] \in 1..5 /\ p = <<p[1], p[2]>>
             /\ p[2] \in CardsFor(scope[p[1]]) /\ scope[p[1]] \in DeckIds
             /\ CardCandidates(scope[p[1]])[p[2]] \in CardRow
             /\ CardCandidates(scope[p[1]])[p[2]].document = scope[p[1]]
             /\ Fits(CardCandidates(scope[p[1]])[p[2]])
  <2>1. p \in (DOMAIN scope) \X (1..5) /\ p[2] \in CardsFor(scope[p[1]])
    BY DEF CardPlaces
  <2>2. p[1] \in DOMAIN scope /\ p[2] \in 1..5 /\ p = <<p[1], p[2]>> /\ scope[p[1]] \in DeckIds
    BY <2>1
  <2>3. p[2] \in DOMAIN CardCandidates(scope[p[1]]) /\ Fits(CardCandidates(scope[p[1]])[p[2]])
    BY <2>1 DEF CardsFor
  <2> QED BY <2>1, <2>2, <2>3, CandidatesAreCards
<1>5. DOMAIN made = 1..n /\ \A i \in 1..n : made[i] = CardCandidates(scope[s[i][1]])[s[i][2]]
  BY <1>1, <1>3
<1>6. made \in Seq(CardRow) /\ Len(made) = n /\ Len(made) <= most
  <2>1. \A i \in 1..n : made[i] \in CardRow
    BY <1>3, <1>4, <1>5
  <2>2. made \in [1..n -> CardRow]
    BY <1>1, <1>3, <1>5, <2>1
  <2> QED BY <1>2, <1>3, <2>2
<1>7. ASSUME NEW i \in DOMAIN made
      PROVE  Says(made[i]) /\ Asks(made[i]) \notin Existing
  <2>1. Fits(made[i])
    BY <1>3, <1>4, <1>5
  <2> QED BY <2>1 DEF Fits, Says, Asks
<1>8. ASSUME NEW i \in 1..n, NEW j \in 1..n, Asks(made[i]) = Asks(made[j]), i < j  PROVE FALSE
  <2>1. PICK p, q : p = s[i] /\ q = s[j]
    OBVIOUS
  <2>2. p \in CardPlaces(scope) /\ q \in CardPlaces(scope) /\ Earlier(p, q)
    BY <1>1, <1>3, <1>8, <2>1
  <2>3. /\ made[i] = CardCandidates(scope[p[1]])[p[2]] /\ made[j] = CardCandidates(scope[q[1]])[q[2]]
        /\ made[i].document = scope[p[1]] /\ made[j].document = scope[q[1]] /\ Fits(made[i])
    BY <1>4, <1>5, <2>1, <2>2
  <2>4. made[i].document = made[j].document /\ made[i].question = made[j].question
    BY <1>8 DEF Asks, Question
  <2>5. p[1] = q[1]
    BY <1>4, <2>2, <2>3, <2>4 DEF IsInjective
  <2>6. p[2] \in 1..5 /\ q[2] \in 1..5 /\ p[1] \in Nat /\ q[2] \in CardsFor(scope[q[1]])
    BY <1>4, <2>2
  <2>7. p[2] < q[2]
    BY <2>2, <2>5, <2>6 DEF Earlier
  <2>8. p[2] \in 1..(q[2] - 1)
    BY <2>6, <2>7
  <2> QED BY <2>3, <2>4, <2>5, <2>6, <2>8 DEF CardsFor
<1>9. Distinct(made)
  <2> SUFFICES ASSUME NEW i \in 1..n, NEW j \in 1..n, Asks(made[i]) = Asks(made[j])  PROVE i = j
    BY <1>5 DEF Distinct
  <2>1. ~(i < j) /\ ~(j < i)
    BY <1>8
  <2> QED BY <2>1
<1>10. ASSUME NEW d \in ToSet(scope), Len(made) < most, deck[d].ready,
              NEW c \in ToSet(CardCandidates(d)), Says(c), Asks(c) \notin Existing
       PROVE  Asks(c) \in {Asks(made[i]) : i \in DOMAIN made}
  <2>1. PICK k \in DOMAIN scope : scope[k] = d
    BY DEF ToSet
  <2>2. PICK i \in DOMAIN CardCandidates(d) : c = CardCandidates(d)[i]
    BY DEF ToSet
  <2>3. d \in DeckIds /\ Fits(CardCandidates(d)[i])
    BY <1>10, <2>1, <2>2 DEF Says, Asks, Fits
  <2>4. PICK j \in CardsFor(d) : CardCandidates(d)[j].question = c.question
    BY <2>2, <2>3, FittingIsTaken
  <2>5. j \in 1..5 /\ j \in DOMAIN CardCandidates(d)
    <3>1. j \in DOMAIN CardCandidates(d)
      BY DEF CardsFor
    <3>2. DOMAIN CardCandidates(d) = 1..Len(CardCandidates(d)) /\ Len(CardCandidates(d)) \in 0..5
      BY <2>3, CandidatesAreCards
    <3> QED BY <3>1, <3>2
  <2>6. CardCandidates(d)[j].document = d /\ c.document = d
    BY <2>2, <2>3, <2>5, CandidatesAreCards
  <2>7. PICK p : p = <<k, j>>
    OBVIOUS
  <2>8. p \in CardPlaces(scope) /\ p[1] = k /\ p[2] = j
    BY <1>10, <2>1, <2>4, <2>5, <2>7 DEF CardPlaces
  <2>9. ToSet(s) = CardPlaces(scope)
    BY <1>1, <1>3, <1>6, <1>10
  <2>10. PICK m \in 1..n : s[m] = p
    BY <1>3, <2>8, <2>9 DEF ToSet
  <2>11. made[m] = CardCandidates(d)[j]
    BY <1>5, <2>1, <2>8, <2>10
  <2> QED BY <1>5, <2>4, <2>6, <2>11 DEF Asks
<1> QED BY <1>6, <1>7, <1>9, <1>10

\* The types; what is on the cards and on those that a request is about to store; and that no
\* question of its documents is left out where it may make more.
FlashcardsTyped ==
    /\ deck \in [DeckIds -> DeckRow] /\ cards \in Seq(CardRow) /\ doubled \in BOOLEAN
    /\ maker \in [Makers -> [pc : {"new", "built", "stored", "failed"}, scope : Seq(DeckIds),
                             limit : Nat, made : Seq(CardRow), stale : BOOLEAN]]

\* What a request has made asks something new, once.
MadeIsNew(r) ==
    /\ \A i \in DOMAIN maker[r].made : Says(maker[r].made[i])
    /\ Len(maker[r].made) <= maker[r].limit
    /\ ~maker[r].stale => /\ Distinct(maker[r].made)
                          /\ \A i \in DOMAIN maker[r].made : Asks(maker[r].made[i]) \notin Existing

\* A request that made fewer cards than it may has used every question there was.
NothingIsLeft(r, asked) ==
    \A d \in ToSet(maker[r].scope) :
        Len(maker[r].made) < maker[r].limit /\ deck[d].ready /\ ~deck[d].summary =>
            \A c \in ToSet(CardCandidates(d)) : Says(c) => Asks(c) \in asked

\* The invariant, while the requests run and after them.
FlashcardsInv ==
    /\ FlashcardsTyped
    /\ ~doubled => Distinct(cards)
    /\ \A i \in DOMAIN cards : Says(cards[i])
    /\ \A r \in Makers :
          /\ maker[r].pc = "built" =>
                /\ MadeIsNew(r)
                /\ NothingIsLeft(r, Existing \cup {Asks(c) : c \in ToSet(maker[r].made)})
          /\ maker[r].pc = "stored" =>
                Len(maker[r].made) <= maker[r].limit /\ NothingIsLeft(r, Existing)

\* A request reads the documents and makes its cards.
LEMMA MakeCardsStep ==
    ASSUME FlashcardsInv, NEW r \in Makers, NEW scope \in Seq(DeckIds), IsInjective(scope),
           NEW most \in Nat, MakeCards(r, scope, most)
    PROVE  FlashcardsInv'
<1>0. /\ deck \in [DeckIds -> DeckRow] /\ UNCHANGED <<deck, cards, doubled>>
      /\ Existing' = Existing /\ \A d : CardCandidates(d)' = CardCandidates(d)
  BY DEF FlashcardsInv, FlashcardsTyped, MakeCards, Existing, CardCandidates, AnswerOf
<1>1. PICK made \in Built(scope, most) :
         maker' = [maker EXCEPT ![r] = [pc |-> "built", scope |-> scope, limit |-> most,
                                        made |-> made, stale |-> FALSE]]
  BY DEF MakeCards
<1>2. /\ made \in Seq(CardRow) /\ Len(made) <= most /\ Distinct(made)
      /\ \A i \in DOMAIN made : Says(made[i]) /\ Asks(made[i]) \notin Existing
      /\ \A d \in ToSet(scope) : Len(made) < most /\ deck[d].ready =>
            \A c \in ToSet(CardCandidates(d)) : Says(c) =>
               Asks(c) \in Existing \cup {Asks(made[i]) : i \in DOMAIN made}
  BY <1>0, BuiltIsNew
<1>3. PICK m : m = [pc |-> "built", scope |-> scope, limit |-> most, made |-> made, stale |-> FALSE]
  OBVIOUS
<1>4. /\ m \in [pc : {"new", "built", "stored", "failed"}, scope : Seq(DeckIds),
                 limit : Nat, made : Seq(CardRow), stale : BOOLEAN]
      /\ m.pc = "built" /\ m.scope = scope /\ m.limit = most /\ m.made = made /\ ~m.stale
  BY <1>2, <1>3
<1>5. FlashcardsTyped' /\ maker'[r] = m /\ \A x \in Makers \ {r} : maker'[x] = maker[x]
  BY <1>0, <1>1, <1>3, <1>4 DEF FlashcardsInv, FlashcardsTyped
<1>6. MadeIsNew(r)'
  BY <1>0, <1>2, <1>4, <1>5 DEF MadeIsNew
<1>7. {Asks(made[i]) : i \in DOMAIN made} = {Asks(c) : c \in ToSet(made)}
  BY DEF ToSet
<1>8. NothingIsLeft(r, Existing \cup {Asks(c) : c \in ToSet(maker[r].made)})'
  BY <1>0, <1>2, <1>4, <1>5, <1>7 DEF NothingIsLeft
<1>9. \A x \in Makers \ {r} :
         /\ MadeIsNew(x)' <=> MadeIsNew(x)
         /\ \A asked : NothingIsLeft(x, asked)' <=> NothingIsLeft(x, asked)
  BY <1>0, <1>5 DEF MadeIsNew, NothingIsLeft
<1> QED BY <1>0, <1>4, <1>5, <1>6, <1>8, <1>9 DEF FlashcardsInv

\* It stores them: the others that are under way no longer know what has a card.
LEMMA StoreCardsStep ==
    ASSUME FlashcardsInv, NEW r \in Makers, StoreCards(r)
    PROVE  FlashcardsInv'
<1> DEFINE Record == [pc : {"new", "built", "stored", "failed"}, scope : Seq(DeckIds),
                      limit : Nat, made : Seq(CardRow), stale : BOOLEAN]
<1>1. /\ deck \in [DeckIds -> DeckRow] /\ cards \in Seq(CardRow) /\ doubled \in BOOLEAN
      /\ maker \in [Makers -> Record]
  BY DEF FlashcardsInv, FlashcardsTyped
<1>2. PICK made : made = maker[r].made
  OBVIOUS
<1>3. /\ maker[r].pc = "built" /\ cards' = cards \o made /\ UNCHANGED deck
      /\ doubled' = (doubled \/ maker[r].stale)
      /\ maker' = [x \in Makers |->
                      IF x = r THEN [maker[r] EXCEPT !.pc = "stored"]
                      ELSE IF maker[x].pc = "built" THEN [maker[x] EXCEPT !.stale = TRUE] ELSE maker[x]]
  BY <1>2 DEF StoreCards
<1>4. made \in Seq(CardRow)
  BY <1>1, <1>2
<1>5. /\ cards' \in Seq(CardRow) /\ Len(cards') = Len(cards) + Len(made)
      /\ \A i \in 1..Len(cards) : cards'[i] = cards[i]
      /\ \A i \in 1..Len(made) : cards'[Len(cards) + i] = made[i]
      /\ Len(cards) \in Nat /\ Len(made) \in Nat
      /\ DOMAIN cards = 1..Len(cards) /\ DOMAIN made = 1..Len(made)
      /\ DOMAIN cards' = 1..(Len(cards) + Len(made))
  BY <1>1, <1>3, <1>4, ConcatProperties
<1>6. \A i \in DOMAIN cards' : \/ i \in DOMAIN cards /\ cards'[i] = cards[i]
                               \/ /\ i - Len(cards) \in DOMAIN made /\ cards'[i] = made[i - Len(cards)]
                                  /\ i = Len(cards) + (i - Len(cards))
  <2> TAKE i \in DOMAIN cards'
  <2>1. CASE i \in 1..Len(cards)
    BY <1>5, <2>1
  <2>2. CASE i \notin 1..Len(cards)
    <3>1. i - Len(cards) \in 1..Len(made) /\ i = Len(cards) + (i - Len(cards))
      BY <1>5, <2>2
    <3> QED BY <1>5, <3>1
  <2> QED BY <2>1, <2>2
<1>7. Existing' = Existing \cup {Asks(c) : c \in ToSet(made)}
  <2>1. Existing = {Asks(cards[i]) : i \in DOMAIN cards}
    BY DEF Existing, Asks, ToSet
  <2>2. Existing' = {Asks(cards'[i]) : i \in DOMAIN cards'}
    BY DEF Existing, Asks, ToSet
  <2>3. \A i \in DOMAIN made : Len(cards) + i \in DOMAIN cards' /\ cards'[Len(cards) + i] = made[i]
    BY <1>5
  <2>4. \A i \in DOMAIN cards : i \in DOMAIN cards' /\ cards'[i] = cards[i]
    BY <1>5
  <2>5. {Asks(c) : c \in ToSet(made)} = {Asks(made[i]) : i \in DOMAIN made}
    BY DEF ToSet
  <2> QED BY <1>6, <2>1, <2>2, <2>3, <2>4, <2>5
<1>8. /\ MadeIsNew(r) /\ NothingIsLeft(r, Existing \cup {Asks(c) : c \in ToSet(made)})
      /\ \A i \in DOMAIN cards : Says(cards[i])
      /\ ~doubled => Distinct(cards)
  BY <1>2, <1>3 DEF FlashcardsInv
<1>9. ASSUME NEW i \in DOMAIN cards'  PROVE Says(cards'[i])
  BY <1>2, <1>6, <1>8 DEF MadeIsNew
<1>10. ASSUME ~doubled'  PROVE Distinct(cards')
  <2>1. /\ Distinct(cards) /\ Distinct(made)
        /\ \A i \in DOMAIN made : Asks(made[i]) \notin Existing
    BY <1>2, <1>3, <1>8, <1>10 DEF MadeIsNew
  <2>2. \A i \in DOMAIN cards : Asks(cards[i]) \in Existing
    BY DEF Existing, Asks, ToSet
  <2> SUFFICES ASSUME NEW i \in DOMAIN cards', NEW j \in DOMAIN cards', Asks(cards'[i]) = Asks(cards'[j])
               PROVE  i = j
    BY DEF Distinct
  <2>3. CASE i \in DOMAIN cards /\ cards'[i] = cards[i]
    BY <1>6, <2>1, <2>2, <2>3 DEF Distinct
  <2>4. CASE i - Len(cards) \in DOMAIN made /\ cards'[i] = made[i - Len(cards)]
    <3>1. j - Len(cards) \in DOMAIN made /\ cards'[j] = made[j - Len(cards)]
      BY <1>6, <2>1, <2>2, <2>4
    <3>2. i - Len(cards) = j - Len(cards)
      BY <2>1, <2>4, <3>1 DEF Distinct
    <3> QED BY <1>5, <3>2
  <2> QED BY <1>6, <2>3, <2>4
<1>11. ASSUME NEW x \in Makers
       PROVE  /\ maker'[x] \in Record
              /\ maker'[x].made = maker[x].made /\ maker'[x].limit = maker[x].limit
              /\ maker'[x].scope = maker[x].scope
              /\ maker'[x].pc = IF x = r THEN "stored" ELSE maker[x].pc
              /\ maker'[x].pc = "built" => maker'[x].stale
  <2>1. maker[x] \in Record
    BY <1>1
  <2>2. CASE x = r
    BY <1>3, <2>1, <2>2
  <2>3. CASE x # r /\ maker[x].pc = "built"
    BY <1>3, <2>1, <2>3
  <2>4. CASE x # r /\ maker[x].pc # "built"
    BY <1>3, <2>1, <2>4
  <2> QED BY <2>2, <2>3, <2>4
<1>12. FlashcardsTyped'
  <2>1. doubled' \in BOOLEAN
    BY <1>3
  <2>2. maker' \in [Makers -> Record]
    BY <1>3, <1>11
  <2> QED BY <1>1, <1>3, <1>5, <2>1, <2>2 DEF FlashcardsTyped
<1>13. \A d : CardCandidates(d)' = CardCandidates(d)
  BY <1>3 DEF CardCandidates, AnswerOf
<1>14. ASSUME NEW x \in Makers, NEW asked, NEW more, NothingIsLeft(x, asked), asked \subseteq more
       PROVE  /\ \A d \in ToSet(maker'[x].scope) :
                   Len(maker'[x].made) < maker'[x].limit /\ deck'[d].ready /\ ~deck'[d].summary =>
                      \A c \in ToSet(CardCandidates(d)') : Says(c) => Asks(c) \in more
  BY <1>3, <1>11, <1>13, <1>14 DEF NothingIsLeft
<1>15. ASSUME NEW x \in Makers, maker'[x].pc = "built"
       PROVE  MadeIsNew(x)' /\ NothingIsLeft(x, Existing \cup {Asks(c) : c \in ToSet(maker[x].made)})'
  <2>1. x # r /\ maker[x].pc = "built" /\ maker'[x].stale
    BY <1>11, <1>15
  <2>2. MadeIsNew(x)'
    BY <1>11, <2>1 DEF FlashcardsInv, MadeIsNew
  <2>3. NothingIsLeft(x, Existing \cup {Asks(c) : c \in ToSet(maker[x].made)})
    BY <2>1 DEF FlashcardsInv
  <2>4. Existing \cup {Asks(c) : c \in ToSet(maker[x].made)}
           \subseteq Existing' \cup {Asks(c) : c \in ToSet(maker'[x].made)}
    BY <1>7, <1>11
  <2>5. NothingIsLeft(x, Existing \cup {Asks(c) : c \in ToSet(maker[x].made)})'
    BY <1>14, <2>3, <2>4 DEF NothingIsLeft
  <2> QED BY <2>2, <2>5
<1>16. ASSUME NEW x \in Makers, maker'[x].pc = "stored"
       PROVE  Len(maker'[x].made) <= maker'[x].limit /\ NothingIsLeft(x, Existing)'
  <2>1. CASE x = r
    <3>1. NothingIsLeft(x, Existing \cup {Asks(c) : c \in ToSet(made)})
      BY <1>8, <2>1
    <3>2. NothingIsLeft(x, Existing)'
      BY <1>7, <1>14, <3>1 DEF NothingIsLeft
    <3> QED BY <1>2, <1>8, <1>11, <2>1, <3>2 DEF MadeIsNew
  <2>2. CASE x # r
    <3>1. maker[x].pc = "stored" /\ NothingIsLeft(x, Existing) /\ Len(maker[x].made) <= maker[x].limit
      BY <1>11, <1>16, <2>2 DEF FlashcardsInv
    <3>2. NothingIsLeft(x, Existing)'
      BY <1>7, <1>14, <3>1 DEF NothingIsLeft
    <3> QED BY <1>11, <3>1, <3>2
  <2> QED BY <2>1, <2>2
<1> QED BY <1>9, <1>10, <1>12, <1>15, <1>16 DEF FlashcardsInv

\* A request fails; the enrichment writes a summary.
LEMMA OtherCardSteps ==
    ASSUME FlashcardsInv, (\E r \in Makers : LoseCards(r)) \/ \E d \in DeckIds : EnrichDeck(d)
    PROVE  FlashcardsInv'
<1> DEFINE Record == [pc : {"new", "built", "stored", "failed"}, scope : Seq(DeckIds),
                      limit : Nat, made : Seq(CardRow), stale : BOOLEAN]
<1>1. ASSUME NEW r \in Makers, LoseCards(r)  PROVE FlashcardsInv'
  <2>1. maker' = [maker EXCEPT ![r].pc = "failed"] /\ UNCHANGED <<deck, cards, doubled>>
    BY <1>1 DEF LoseCards
  <2>2. maker \in [Makers -> Record]
    BY DEF FlashcardsInv, FlashcardsTyped
  <2>3. /\ maker' \in [Makers -> Record] /\ maker'[r].pc = "failed"
        /\ \A x \in Makers \ {r} : maker'[x] = maker[x]
    BY <2>1, <2>2
  <2>4. Existing' = Existing /\ \A d : CardCandidates(d)' = CardCandidates(d)
    BY <2>1 DEF Existing, CardCandidates, AnswerOf
  <2>5. \A x \in Makers \ {r} :
           /\ MadeIsNew(x)' <=> MadeIsNew(x)
           /\ \A asked : NothingIsLeft(x, asked)' <=> NothingIsLeft(x, asked)
    BY <2>1, <2>3, <2>4 DEF MadeIsNew, NothingIsLeft
  <2>6. FlashcardsTyped'
    BY <2>1, <2>3 DEF FlashcardsInv, FlashcardsTyped
  <2> QED BY <2>1, <2>3, <2>4, <2>5, <2>6 DEF FlashcardsInv
<1>2. ASSUME NEW d \in DeckIds, EnrichDeck(d)  PROVE FlashcardsInv'
  <2>1. PICK s \in Suggestions : deck' = [deck EXCEPT ![d].summary = TRUE, ![d].suggested = s]
    BY <1>2 DEF EnrichDeck
  <2>2. UNCHANGED <<cards, maker, doubled>> /\ Existing' = Existing
    BY <1>2 DEF EnrichDeck, Existing
  <2>3. deck \in [DeckIds -> DeckRow]
    BY DEF FlashcardsInv, FlashcardsTyped
  <2>4. /\ deck' \in [DeckIds -> DeckRow] /\ deck'[d].summary
        /\ \A e \in DeckIds \ {d} : deck'[e] = deck[e]
    BY <2>1, <2>3 DEF DeckRow
  <2>5. FlashcardsTyped'
    BY <2>2, <2>4 DEF FlashcardsInv, FlashcardsTyped
  <2>6. \A e \in DeckIds \ {d} : CardCandidates(e)' = CardCandidates(e)
    BY <2>4 DEF CardCandidates, AnswerOf
  <2>7. ASSUME NEW x \in Makers, NEW asked, NothingIsLeft(x, asked)
        PROVE  \A e \in ToSet(maker'[x].scope) :
                  Len(maker'[x].made) < maker'[x].limit /\ deck'[e].ready /\ ~deck'[e].summary =>
                     \A c \in ToSet(CardCandidates(e)') : Says(c) => Asks(c) \in asked
    <3>1. ToSet(maker[x].scope) \subseteq DeckIds
      BY DEF FlashcardsInv, FlashcardsTyped, ToSet
    <3> QED BY <2>2, <2>4, <2>6, <2>7, <3>1 DEF NothingIsLeft
  <2>8. \A x \in Makers : MadeIsNew(x)' <=> MadeIsNew(x)
    BY <2>2 DEF MadeIsNew
  <2>9. ASSUME NEW x \in Makers, maker'[x].pc = "built"
        PROVE  MadeIsNew(x)' /\ NothingIsLeft(x, Existing \cup {Asks(c) : c \in ToSet(maker[x].made)})'
    <3>1. MadeIsNew(x) /\ NothingIsLeft(x, Existing \cup {Asks(c) : c \in ToSet(maker[x].made)})
      BY <2>2, <2>9 DEF FlashcardsInv
    <3> QED BY <2>2, <2>7, <2>8, <3>1 DEF NothingIsLeft
  <2>10. ASSUME NEW x \in Makers, maker'[x].pc = "stored"
         PROVE  Len(maker'[x].made) <= maker'[x].limit /\ NothingIsLeft(x, Existing)'
    <3>1. Len(maker[x].made) <= maker[x].limit /\ NothingIsLeft(x, Existing)
      BY <2>2, <2>10 DEF FlashcardsInv
    <3> QED BY <2>2, <2>7, <3>1 DEF NothingIsLeft
  <2> QED BY <2>2, <2>5, <2>9, <2>10 DEF FlashcardsInv
<1> QED BY <1>1, <1>2

\* One step for each action.
LEMMA FlashcardsStep == FlashcardsInv /\ [FlashcardsNext]_flashcardVars => FlashcardsInv'
<1> SUFFICES ASSUME FlashcardsInv, [FlashcardsNext]_flashcardVars  PROVE FlashcardsInv'
  OBVIOUS
<1>1. ASSUME NEW r \in Makers, NEW most \in 1..CardLimit, MakeCards(r, Decks, most)  PROVE FlashcardsInv'
  BY <1>1, MakeCardsStep, FlashcardsAssumption DEF FlashcardsAssumption, DeckIds
<1>2. ASSUME NEW r \in Makers, NEW most \in 1..CardLimit, NEW d \in DeckIds, MakeCards(r, <<d>>, most)
      PROVE  FlashcardsInv'
  <2>1. PICK scope : scope = <<d>>
    OBVIOUS
  <2>2. scope \in Seq(DeckIds) /\ IsInjective(scope) /\ MakeCards(r, scope, most)
    BY <1>2, <2>1 DEF IsInjective
  <2>3. most \in Nat
    BY FlashcardsAssumption DEF FlashcardsAssumption
  <2> QED BY <2>2, <2>3, MakeCardsStep
<1>3. ASSUME NEW r \in Makers, StoreCards(r)  PROVE FlashcardsInv'
  BY <1>3, StoreCardsStep
<1>4. ASSUME UNCHANGED flashcardVars  PROVE FlashcardsInv'
  <2>1. UNCHANGED <<deck, cards, maker, doubled>>
    BY <1>4 DEF flashcardVars
  <2>2. Existing' = Existing /\ \A d : CardCandidates(d)' = CardCandidates(d)
    BY <2>1 DEF Existing, CardCandidates, AnswerOf
  <2>3. \A x \in Makers : /\ MadeIsNew(x)' <=> MadeIsNew(x)
                          /\ \A asked : NothingIsLeft(x, asked)' <=> NothingIsLeft(x, asked)
    BY <2>1, <2>2 DEF MadeIsNew, NothingIsLeft
  <2> QED BY <2>1, <2>2, <2>3 DEF FlashcardsInv, FlashcardsTyped
<1> QED BY <1>1, <1>2, <1>3, <1>4, OtherCardSteps DEF FlashcardsNext

\* No card is there at first.
LEMMA FlashcardsStart == FlashcardsInit => FlashcardsInv
<1> SUFFICES ASSUME FlashcardsInit  PROVE FlashcardsInv
  OBVIOUS
<1>1. /\ deck \in [DeckIds -> DeckRow] /\ cards = <<>> /\ ~doubled /\ doubled \in BOOLEAN
      /\ maker = [r \in Makers |-> NewMaker]
  BY DEF FlashcardsInit, DeckRow
<1>2. /\ NewMaker \in [pc : {"new", "built", "stored", "failed"}, scope : Seq(DeckIds),
                       limit : Nat, made : Seq(CardRow), stale : BOOLEAN]
      /\ NewMaker.pc = "new"
  <2>1. <<>> \in Seq(DeckIds) /\ <<>> \in Seq(CardRow)
    OBVIOUS
  <2> QED BY <2>1 DEF NewMaker
<1>3. FlashcardsTyped
  <2>1. cards \in Seq(CardRow)
    BY <1>1
  <2> QED BY <1>1, <1>2, <2>1 DEF FlashcardsTyped
<1> QED BY <1>1, <1>2, <1>3 DEF FlashcardsInv, Distinct

\* For any documents, questions, requests and limits: a question of a document is on one card,
\* unless two requests overlapped, every card says something, and a request that makes fewer
\* cards than it may leaves out no question of its documents.
THEOREM CardsStayNew == FlashcardsSpec => []CardsAreNew
<1>1. FlashcardsInv => CardsAreNew
  <2> SUFFICES ASSUME FlashcardsInv  PROVE CardsAreNew
    OBVIOUS
  <2>1. ASSUME NEW r \in Makers, maker[r].pc = "stored", NEW d \in ToSet(maker[r].scope),
               Len(maker[r].made) < maker[r].limit, deck[d].ready, ~deck[d].summary,
               NEW c \in ToSet(CardCandidates(d)), c.question # NoQuestion, c.answer # "nothing"
        PROVE  Question(d, c.question) \in Existing
    <3>1. d \in DeckIds /\ deck \in [DeckIds -> DeckRow]
      BY DEF FlashcardsInv, FlashcardsTyped, ToSet
    <3>2. c.document = d
      BY <3>1, CandidatesAreCards DEF ToSet
    <3>3. Asks(c) \in Existing
      BY <2>1 DEF FlashcardsInv, NothingIsLeft, Says
    <3> QED BY <3>2, <3>3 DEF Asks
  <2> QED BY <2>1 DEF FlashcardsInv, CardsAreNew, Distinct, Asks, Says
<1> QED BY <1>1, FlashcardsStart, FlashcardsStep, PTL DEF FlashcardsSpec

=============================================================================
