------------------------------- MODULE Notes --------------------------------
(***************************************************************************)
(* A note, its numbered versions, and requests that write it at the same   *)
(* time.  A request reads the note, works on that copy and writes the      *)
(* whole row twice: once with the new text and the version that keeps the  *)
(* old one, and once more, in a transaction of its own, to queue the note  *)
(* for processing.  What the jobs make of the note is the subject of       *)
(* DocumentPipeline; its status is left out here.                          *)
(***************************************************************************)
EXTENDS Naturals, Sequences, SequencesExt, FiniteSets

CONSTANTS
    Texts,        \* a text stands for a title with its content
    Blank,        \* the text without content
    Writers,      \* requests, each made once
    NoNote        \* the note is not in the database

ASSUME NotesAssumption ==
    /\ Blank \in Texts
    /\ NoNote \notin Texts

VARIABLES
    note,         \* the text of the row, or NoNote
    versions,     \* note_versions of the note, in the order of their insertion
    writer,       \* the requests
    stood,        \* history: texts the note has had for the length of the window
    crossed       \* history: a request wrote a copy that was no longer the row

notesVars == <<note, versions, writer, stood, crossed>>

-----------------------------------------------------------------------------

Version    == [number : Nat, text : Texts, recent : BOOLEAN]
NoteCopy   == Texts \cup {NoNote}
Operations == {"create", "update", "refile", "restore", "delete"}
Writing    == {"save", "commit", "queue"}
Writer     == [pc : {"idle", "done"} \cup Writing, op : Operations, copy : NoteCopy,
               text : NoteCopy, number : Nat, stale : BOOLEAN]

NotesTypeOK ==
    /\ note \in NoteCopy
    /\ versions \in Seq(Version)
    /\ writer \in [Writers -> Writer]
    /\ stood \subseteq Texts
    /\ crossed \in BOOLEAN

IdleWriter == [pc |-> "idle", op |-> "update", copy |-> NoNote, text |-> NoNote,
               number |-> 0, stale |-> FALSE]

NotesInit ==
    /\ note = NoNote /\ versions = <<>>
    /\ writer = [w \in Writers |-> IdleWriter]
    /\ stood = {} /\ crossed = FALSE

VersionTexts == {v.text : v \in Range(versions)}
Busy(w) == writer[w].pc \in Writing

\* Writer w becomes r, and those that hold a copy of the row hold an old one.
Overtake(w, r) ==
    writer' = [x \in Writers |-> IF x = w THEN r
                                 ELSE [writer[x] EXCEPT !.stale = @ \/ Busy(x)]]
Leave(w) == [writer[w] EXCEPT !.pc = "done"]

-----------------------------------------------------------------------------
(* CreateNoteUseCase: the note is PENDING, or READY when it is blank, and  *)
(* then queued like an updated one.                                        *)

NoteCreate(w, t) ==
    /\ writer[w].pc = "idle" /\ note = NoNote /\ \A x \in Writers : writer[x].op # "create"
    /\ note' = t
    /\ Overtake(w, [IdleWriter EXCEPT !.pc = IF t = Blank THEN "done" ELSE "queue",
                                      !.op = "create", !.copy = t, !.text = t])
    /\ UNCHANGED <<versions, stood, crossed>>

(* UpdateNoteUseCase and RestoreNoteVersionUseCase.                        *)

\* What a request can ask for: another text, another collection, an older version, which
\* is left alone when it is what the note has.
Asked(op) ==
    CASE op = "update"  -> Texts \ {note}
      [] op = "refile"  -> {note}
      [] op = "restore" -> VersionTexts \ {note}

NoteRead(w, op, t) ==
    /\ writer[w].pc = "idle" /\ note # NoNote /\ t \in Asked(op)
    /\ writer' = [writer EXCEPT ![w] = [IdleWriter EXCEPT
                      !.pc = "save", !.op = op, !.copy = note, !.text = t]]
    /\ UNCHANGED <<note, versions, stood, crossed>>

\* save_note_version: a text that changes is kept, unless the latest version is younger than
\* the window.  A restoration forces a version.
Coalesced(op) == op # "restore" /\ versions # <<>> /\ Last(versions).recent

VersionNumber(w) ==
    IF writer[w].copy = writer[w].text \/ Coalesced(writer[w].op) THEN 0 ELSE Len(versions) + 1

\* The first half of the transaction: the versions are counted.
NoteCount(w) ==
    /\ writer[w].pc = "save"
    /\ writer' = [writer EXCEPT ![w].pc = "commit", ![w].number = VersionNumber(w)]
    /\ UNCHANGED <<note, versions, stood, crossed>>

\* Mutant: the version keeps the text after the change.
Kept_After(w) == writer[w].text

\* What the version keeps: the snapshot taken before the change.
Kept(w) == writer[w].copy

\* The second half.  A note that was deleted meanwhile ends the request: neither the
\* foreign key of the version nor the row is there.
NoteCommit(w) ==
    /\ writer[w].pc = "commit"
    /\ IF note = NoNote
       THEN /\ writer' = [writer EXCEPT ![w] = Leave(w)]
            /\ UNCHANGED <<note, versions, crossed>>
       ELSE /\ note' = writer[w].text
            /\ versions' = IF writer[w].number = 0 THEN versions
                           ELSE Append(versions, [number |-> writer[w].number,
                                                  text |-> Kept(w), recent |-> TRUE])
            /\ Overtake(w, [writer[w] EXCEPT
                   !.pc = IF writer[w].text = Blank THEN "done" ELSE "queue"])
            /\ crossed' = (crossed \/ writer[w].stale)
    /\ UNCHANGED stood

\* queue_note_processing writes the whole copy again, text included, with the status QUEUED.
NoteQueue(w) ==
    /\ writer[w].pc = "queue"
    /\ IF note = NoNote
       THEN /\ writer' = [writer EXCEPT ![w] = Leave(w)]
            /\ UNCHANGED <<note, crossed>>
       ELSE /\ note' = writer[w].text
            /\ Overtake(w, Leave(w))
            /\ crossed' = (crossed \/ writer[w].stale)
    /\ UNCHANGED <<versions, stood>>

\* DeleteNoteUseCase; the versions go with the note.
NoteDelete(w) ==
    /\ writer[w].pc = "idle" /\ note # NoNote
    /\ note' = NoNote /\ versions' = <<>> /\ stood' = {}
    /\ Overtake(w, [IdleWriter EXCEPT !.pc = "done", !.op = "delete"])
    /\ UNCHANGED crossed

\* A request that is lost between its transactions.
WriterLost(w) ==
    /\ Busy(w)
    /\ writer' = [writer EXCEPT ![w] = Leave(w)]
    /\ UNCHANGED <<note, versions, stood, crossed>>

\* Time passes: the window of the versions is over, and perhaps that of the text, which is
\* younger than the version that made room for it.  A transaction does not last that long.
Age ==
    /\ note # NoNote
    /\ versions' = [i \in DOMAIN versions |-> [versions[i] EXCEPT !.recent = FALSE]]
    /\ \/ UNCHANGED stood
       \/ stood' = stood \cup {note} /\ \A w \in Writers : writer[w].pc # "commit"
    /\ UNCHANGED <<note, writer, crossed>>

NotesNext ==
    \/ \E w \in Writers :
          \/ \E t \in Texts : NoteCreate(w, t)
          \/ \E op \in {"update", "refile", "restore"} : \E t \in Texts : NoteRead(w, op, t)
          \/ NoteCount(w) \/ NoteCommit(w) \/ NoteQueue(w) \/ NoteDelete(w) \/ WriterLost(w)
    \/ Age

NotesSpec == NotesInit /\ [][NotesNext]_notesVars

-----------------------------------------------------------------------------

\* The number of a version is its place in the history, so no two versions share one, as
\* long as no request writes a copy that another has overtaken: save_note_version counts the
\* versions and adds one, without a lock or a unique index.
VersionsAreNumbered ==
    ~crossed => \A i \in DOMAIN versions : versions[i].number = i

\* A text that stood for the length of the window is never lost by an edit, a move or a
\* restoration: the note still has it or a version does.  Only edits within the window are
\* allowed to leave no version.  Requests that overtake each other do lose texts.
StandingTextIsKept ==
    (~crossed /\ note # NoNote) => stood \subseteq {note} \cup VersionTexts

\* The history of a note is what its owner can go back to: it is in order and complete.
HistoryIsKept == VersionsAreNumbered /\ StandingTextIsKept

=============================================================================
