---------------------------- MODULE CommitJournal ----------------------------
(***************************************************************************)
(* The commit journal of src/engine.mjs: appendCommitLog() pushes onto one *)
(* array and, when that has become too long, goes on with a new one.  Both *)
(* functions hand out the array itself, so a caller may hold an array that *)
(* the journal still writes to, or one that it has left behind.            *)
(***************************************************************************)
EXTENDS Naturals, Sequences, SequencesExt

CONSTANTS
    MaxLog,         \* MAX_LOG_THRESHOLD
    MaxEntries      \* bound: entries ever appended

ASSUME JournalAssumption == MaxLog \in Nat \ {0} /\ MaxEntries \in Nat

VARIABLES
    arrays,     \* every array that was made, in their order; the last is COMMIT_JOURNAL_LOG
    history,    \* history: the entries appended since the journal was cleared
    entries     \* entries ever appended; they are numbered

journalVars == <<arrays, history, entries>>

JournalTypeOK ==
    /\ entries \in 0..MaxEntries
    /\ arrays \in Seq(Seq(1..entries)) /\ arrays # <<>>
    /\ history \in Seq(1..entries)

JournalInit == arrays = <<<<>>>> /\ history = <<>> /\ entries = 0

Journal == Last(arrays)

\* slice(-n)
LastOf(n, log) == SubSeq(log, Len(log) - n + 1, Len(log))

\* The oldest entry is taken out of the array itself.  (An operator named
\* Faulty... is the one after it with a plausible mistake; no specification
\* uses it.)
FaultyPushed(entry) ==
    LET grown == Append(Journal, entry)
    IN [arrays EXCEPT ![Len(arrays)] =
           IF Len(grown) > MaxLog THEN LastOf(MaxLog, grown) ELSE grown]

\* The journal goes on with an array that keeps one entry too few.
ShorterPushed(entry) ==
    LET grown == Append(Journal, entry)
        pushed == [arrays EXCEPT ![Len(arrays)] = grown]
    IN IF Len(grown) > MaxLog THEN Append(pushed, LastOf(MaxLog - 1, grown)) ELSE pushed

Pushed(entry) ==
    LET grown == Append(Journal, entry)
        pushed == [arrays EXCEPT ![Len(arrays)] = grown]
    IN IF Len(grown) > MaxLog THEN Append(pushed, LastOf(MaxLog, grown)) ELSE pushed

\* appendCommitLog; without an entry it returns the array and nothing more.
AppendCommitLog ==
    /\ entries < MaxEntries
    /\ entries' = entries + 1
    /\ arrays' = Pushed(entries')
    /\ history' = Append(history, entries')

ClearCommitJournal ==
    /\ Journal # <<>>
    /\ arrays' = Append(arrays, <<>>)
    /\ history' = <<>>
    /\ UNCHANGED entries

JournalNext == AppendCommitLog \/ ClearCommitJournal

-----------------------------------------------------------------------------
(* Properties.                                                             *)

\* getCommitJournal: the journal holds the newest entries since it was cleared,
\* as many of them as there are up to the threshold, in their order, across
\* every change of the array.
JournalIsTail ==
    Journal = LastOf(IF Len(history) < MaxLog THEN Len(history) ELSE MaxLog, history)

\* An array that a caller got hold of, whenever that was, loses nothing and is
\* not reordered: it grows at its end, and not at all once it was left behind.
HeldArraysGrow ==
    [][\A i \in DOMAIN arrays :
          /\ IsPrefix(arrays[i], arrays'[i])
          /\ i < Len(arrays) => arrays'[i] = arrays[i]]_journalVars

\* engine.mjs:1614: "The updated, bounded journal log array".  An array that
\* appendCommitLog returned stays within the threshold.
HeldArraysAreBounded == \A i \in DOMAIN arrays : Len(arrays[i]) <= MaxLog

=============================================================================
