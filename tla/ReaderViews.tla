----------------------------- MODULE ReaderViews -----------------------------
(***************************************************************************)
(* What a reader holds while the store moves on: snapshots of              *)
(* src/snapshot-manager.mjs, answers of the query cache, which is asked    *)
(* over the live store and over snapshots alike, and arrays of the commit  *)
(* journal.  The manager reads the store it was given, into which the      *)
(* application writes its changes.                                         *)
(***************************************************************************)
EXTENDS QueryCache, CommitJournal

CONSTANTS
    MaxSnapshots    \* bound: snapshots ever made

ASSUME ReaderAssumption == MaxSnapshots \in Nat

VARIABLES
    snapshots,  \* activeSnapshots: the objects of each snapshot that is held
    sequence,   \* versionSequence
    source,     \* the object whose nested fields an object shares
    touched     \* objects whose nested fields were written into since they were made

readerVars == <<snapshots, sequence, source, touched>>

\* `was' is a history variable: the memories when the snapshot was made.
Snapshot == [number : 1..MaxSnapshots, objects : SUBSET Object, was : SUBSET Memory]

ReaderTypeOK ==
    /\ TypeOK /\ JournalTypeOK
    /\ snapshots \subseteq Snapshot
    /\ \A s \in snapshots : s.number <= sequence /\ s.objects \subseteq DOMAIN heap
    /\ \A s, t \in snapshots : s.number = t.number => s = t
    /\ DOMAIN source = DOMAIN heap /\ touched \subseteq DOMAIN heap
    /\ \A o \in DOMAIN source : source[o] \in 1..o

ReaderInit ==
    /\ Init /\ JournalInit
    /\ snapshots = {} /\ sequence = 0 /\ source = <<>> /\ touched = {}

-----------------------------------------------------------------------------

\* Some order of the objects of a set.
Listing(objects) == SetToSeq(objects)

\* The array is copied, the records are not.  (An operator named Faulty... is
\* the one after it with a plausible mistake; no specification uses it.)
FaultyCreateSnapshot ==
    /\ sequence < MaxSnapshots
    /\ sequence' = sequence + 1
    /\ snapshots' = snapshots \cup {[number |-> sequence', objects |-> live, was |-> Values(live)]}
    /\ UNCHANGED <<heap, live, cache, source, touched>>
    /\ reply' = {}

\* Every record is copied, and what is nested in it is shared.
CreateSnapshot ==
    LET originals == Listing(live)
        copies == {Len(heap) + i : i \in DOMAIN originals}
    IN /\ sequence < MaxSnapshots /\ Len(heap) + Len(originals) <= MaxObjects
       /\ sequence' = sequence + 1
       /\ heap' = heap \o [i \in DOMAIN originals |-> heap[originals[i]]]
       /\ source' = source \o [i \in DOMAIN originals |-> source[originals[i]]]
       /\ snapshots' = snapshots \cup {[number |-> sequence', objects |-> copies, was |-> Values(live)]}
       /\ reply' = {}
       /\ UNCHANGED <<live, cache, touched>>

\* A snapshot that was released is not found, and the call throws.
QuerySnapshot == \E s \in snapshots : Ask(s.objects) /\ UNCHANGED readerVars

ReleaseSnapshot ==
    /\ \E s \in snapshots : snapshots' = snapshots \ {s}
    /\ reply' = {}
    /\ UNCHANGED <<heap, live, cache, sequence, source, touched>>

QueryLive == Ask(live) /\ UNCHANGED readerVars

EditLive ==
    /\ Edit
    /\ source' = IF Len(heap') > Len(heap) THEN Append(source, NewObject) ELSE source
    /\ UNCHANGED <<snapshots, sequence, touched>>

\* Other code writes into what is nested in a record of the store; nobody can
\* tell unless a snapshot shares it.
WriteNested ==
    /\ \E s \in snapshots, o \in live :
           /\ source[o] \in {source[copy] : copy \in s.objects}
           /\ touched' = touched \cup {source[o]}
    /\ reply' = {}
    /\ UNCHANGED <<heap, live, cache, snapshots, sequence, source>>

ReaderNext ==
    \/ /\ \/ QueryLive \/ EditLive \/ WriteNested
          \/ CreateSnapshot \/ QuerySnapshot \/ ReleaseSnapshot
       /\ UNCHANGED journalVars
    \/ JournalNext /\ UNCHANGED <<vars, readerVars>>

ReaderSpec == ReaderInit /\ [][ReaderNext]_<<vars, readerVars, journalVars>>

-----------------------------------------------------------------------------
(* Properties.                                                             *)

\* test/snapshot-manager.test.mjs:29: a snapshot shows the memories of the
\* moment it was made, with the fields they had, whatever is added, replaced,
\* deleted or written in place before it is read.
SnapshotsAreIsolated ==
    \A s \in snapshots : Values(s.objects) = s.was

-----------------------------------------------------------------------------
(* Properties the repository's words promise and the code breaks.          *)

\* snapshot-manager.mjs:36: "Routes a query to an isolated snapshot, completely
\* bypassing active mutations".  A query over a snapshot is answered with
\* records of the snapshot.
AnswersComeFromSnapshot ==
    \A r \in reply, s \in snapshots :
        r.over = s.objects => {heap[a[1]] : a \in r.answer} \subseteq s.was

\* snapshot-manager.mjs:45: "Route execution to the isolated immutable state
\* reference".  What is nested in a record of a snapshot does not change.
SnapshotsAreImmutable ==
    \A s \in snapshots : \A o \in s.objects : source[o] \notin touched

=============================================================================
