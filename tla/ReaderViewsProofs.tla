---------------------------- MODULE ReaderViewsProofs ---------------------------
(***************************************************************************)
(* What readers hold, for any memories, queries, thresholds and numbers of *)
(* objects and whatever changes the store meanwhile: the commit journal    *)
(* holds the newest entries and no array that it handed out loses or       *)
(* reorders one, snapshots show the moment they were made, and the cache   *)
(* answers with memories that the query was asked over.                    *)
(***************************************************************************)
EXTENDS ReaderViews, FiniteSetTheorems, SequenceTheorems, TLAPS

-----------------------------------------------------------------------------
(* The newest entries of a log.                                            *)

\* As many entries as are asked for, from the end.
LEMMA LastOfType ==
    ASSUME NEW S, NEW log \in Seq(S), NEW n \in 0..Len(log)
    PROVE  /\ LastOf(n, log) \in Seq(S)
           /\ Len(LastOf(n, log)) = n
           /\ \A i \in 1..n : LastOf(n, log)[i] = log[Len(log) - n + i]
<1> DEFINE m == Len(log) - n + 1
<1>1. m \in Int /\ Len(log) \in Int /\ Len(log) \in Nat
    OBVIOUS
<1>2. \A i \in m .. Len(log) : log[i] \in S
    BY ElementOfSeq, <1>1
<1>3. /\ SubSeq(log, m, Len(log)) \in Seq(S)
      /\ Len(SubSeq(log, m, Len(log))) = IF m <= Len(log) THEN Len(log) - m + 1 ELSE 0
      /\ \A i \in 1 .. Len(log) - m + 1 : SubSeq(log, m, Len(log))[i] = log[m + i - 1]
    BY <1>1, <1>2, SubSeqProperties
<1>4. QED
    BY <1>1, <1>3 DEF LastOf

\* Of a log that grew by one entry, the newest n + 1 entries are those that were
\* the newest n, and the entry.
LEMMA LastOfGrown ==
    ASSUME NEW S, NEW log \in Seq(S), NEW n \in 0..Len(log), NEW e \in S
    PROVE  LastOf(n + 1, Append(log, e)) = Append(LastOf(n, log), e)
<1> DEFINE grown == Append(log, e)
           few == LastOf(n, log)
           more == LastOf(n + 1, grown)
<1>1. /\ grown \in Seq(S) /\ Len(grown) = Len(log) + 1 /\ Len(log) \in Nat
      /\ \A i \in 1..Len(log) : grown[i] = log[i]
      /\ grown[Len(log) + 1] = e
    OBVIOUS
<1>2. /\ few \in Seq(S) /\ Len(few) = n /\ \A i \in 1..n : few[i] = log[Len(log) - n + i]
    BY LastOfType
<1> HIDE DEF grown, few
<1>3. n + 1 \in 0..Len(grown)
    BY <1>1
<1>4. /\ more \in Seq(S) /\ Len(more) = n + 1
      /\ \A i \in 1..(n + 1) : more[i] = grown[Len(grown) - (n + 1) + i]
    BY <1>1, <1>3, LastOfType
<1> HIDE DEF more
<1>5. /\ Append(few, e) \in Seq(S) /\ Len(Append(few, e)) = n + 1
      /\ \A i \in 1..n : Append(few, e)[i] = few[i]
      /\ Append(few, e)[n + 1] = e
    BY <1>2
<1>6. ASSUME NEW i \in 1..(n + 1) PROVE more[i] = Append(few, e)[i]
  <2>0. i = n + 1 \/ i \in 1..n
      BY <1>1
  <2>1. CASE i = n + 1
    <3>1. Len(grown) - (n + 1) + i = Len(log) + 1
        BY <1>1, <2>1
    <3>2. more[i] = grown[Len(log) + 1]
        BY <1>4, <3>1
    <3>3. Append(few, e)[i] = e
        BY <1>5, <2>1
    <3>4. QED
        BY <1>1, <3>2, <3>3
  <2>2. CASE i \in 1..n
    <3>1. Len(grown) - (n + 1) + i = Len(log) - n + i /\ Len(log) - n + i \in 1..Len(log)
        BY <1>1, <2>2
    <3>2. more[i] = grown[Len(log) - n + i]
        BY <1>4, <3>1
    <3>3. grown[Len(log) - n + i] = log[Len(log) - n + i]
        BY <1>1, <3>1
    <3>4. Append(few, e)[i] = log[Len(log) - n + i]
        BY <1>2, <1>5, <2>2
    <3>5. QED
        BY <3>2, <3>3, <3>4
  <2>3. QED
      BY <2>0, <2>1, <2>2
<1>7. more = Append(few, e)
    BY <1>4, <1>5, <1>6, SeqEqual
<1>8. QED
    BY <1>7 DEF more, few, grown

\* The newest of the newest entries are the newest ones.
LEMMA LastOfLastOf ==
    ASSUME NEW S, NEW log \in Seq(S), NEW n \in 0..Len(log), NEW k \in 0..n
    PROVE  LastOf(k, LastOf(n, log)) = LastOf(k, log)
<1> DEFINE few == LastOf(n, log)
           fewer == LastOf(k, log)
           last == LastOf(k, few)
<1>1. few \in Seq(S) /\ Len(few) = n /\ \A i \in 1..n : few[i] = log[Len(log) - n + i]
    BY LastOfType
<1>2. fewer \in Seq(S) /\ Len(fewer) = k /\ \A i \in 1..k : fewer[i] = log[Len(log) - k + i]
    BY LastOfType
<1> HIDE DEF few, fewer
<1>3. k \in 0..Len(few)
    BY <1>1
<1>4. last \in Seq(S) /\ Len(last) = k /\ \A i \in 1..k : last[i] = few[n - k + i]
    BY <1>1, <1>3, LastOfType
<1> HIDE DEF last
<1>5. ASSUME NEW i \in 1..k PROVE last[i] = fewer[i]
  <2>1. Len(log) \in Nat /\ n - k + i \in 1..n /\ Len(log) - n + (n - k + i) = Len(log) - k + i
      OBVIOUS
  <2>2. QED
      BY <1>1, <1>2, <1>4, <2>1
<1>6. last = fewer
    BY <1>2, <1>4, <1>5, SeqEqual
<1>7. QED
    BY <1>6 DEF last, few, fewer

\* All entries are the newest ones as well.
LEMMA LastOfAll ==
    ASSUME NEW S, NEW log \in Seq(S)
    PROVE  LastOf(Len(log), log) = log
<1>1. /\ LastOf(Len(log), log) \in Seq(S) /\ Len(LastOf(Len(log), log)) = Len(log)
      /\ \A i \in 1..Len(log) : LastOf(Len(log), log)[i] = log[i]
    BY LastOfType
<1>2. QED
    BY <1>1, SeqEqual

-----------------------------------------------------------------------------
(* The journal.                                                            *)

JournalTyped ==
    /\ entries \in Nat
    /\ arrays \in Seq(Seq(Nat)) /\ arrays # <<>>
    /\ history \in Seq(Nat)

JournalInvariant == JournalTyped /\ JournalIsTail

\* How many entries the journal holds.
Kept(log) == IF Len(log) < MaxLog THEN Len(log) ELSE MaxLog

\* What an append does to the arrays.
LEMMA AppendedArrays ==
    ASSUME JournalTyped, AppendCommitLog
    PROVE  /\ Journal \in Seq(Nat) /\ entries' \in Nat
           /\ arrays' \in Seq(Seq(Nat)) /\ Len(arrays') >= Len(arrays) /\ arrays' # <<>>
           /\ \A i \in DOMAIN arrays : i < Len(arrays) => arrays'[i] = arrays[i]
           /\ arrays'[Len(arrays)] = Append(Journal, entries')
           /\ Journal' = IF Len(Append(Journal, entries')) > MaxLog
                         THEN LastOf(MaxLog, Append(Journal, entries'))
                         ELSE Append(Journal, entries')
<1> DEFINE grown == Append(Journal, entries')
           pushed == [arrays EXCEPT ![Len(arrays)] = grown]
           newest == LastOf(MaxLog, grown)
<1>1. MaxLog \in Nat \ {0}
    BY JournalAssumption
<1>2. Journal \in Seq(Nat) /\ entries' \in Nat /\ Len(arrays) \in Nat /\ Len(arrays) >= 1
    BY DEF JournalTyped, AppendCommitLog, Journal, Last
<1>3. grown \in Seq(Nat)
    BY <1>2
<1>4. arrays' = IF Len(grown) > MaxLog THEN Append(pushed, newest) ELSE pushed
    BY DEF AppendCommitLog, Pushed
<1> HIDE DEF grown
<1>5. /\ pushed \in Seq(Seq(Nat)) /\ Len(pushed) = Len(arrays)
      /\ pushed[Len(arrays)] = grown
      /\ \A i \in DOMAIN arrays : i < Len(arrays) => pushed[i] = arrays[i]
    BY <1>2, <1>3 DEF JournalTyped
<1>6. ASSUME Len(grown) > MaxLog PROVE newest \in Seq(Nat)
    BY <1>1, <1>3, <1>6, LastOfType
<1> HIDE DEF pushed, newest
<1>7. /\ arrays' \in Seq(Seq(Nat)) /\ Len(arrays') >= Len(arrays) /\ arrays' # <<>>
      /\ \A i \in 1..Len(arrays) : arrays'[i] = pushed[i]
      /\ arrays'[Len(arrays')] = IF Len(grown) > MaxLog THEN newest ELSE grown
  <2>1. CASE Len(grown) > MaxLog
      BY <1>2, <1>4, <1>5, <1>6, <2>1
  <2>2. CASE ~(Len(grown) > MaxLog)
      BY <1>2, <1>4, <1>5, <2>2
  <2>3. QED
      BY <2>1, <2>2
<1>8. /\ \A i \in DOMAIN arrays : i < Len(arrays) => arrays'[i] = arrays[i]
      /\ arrays'[Len(arrays)] = grown
  <2>1. DOMAIN arrays = 1..Len(arrays) /\ Len(arrays) \in 1..Len(arrays)
      BY <1>2 DEF JournalTyped
  <2>2. \A i \in 1..Len(arrays) : arrays'[i] = pushed[i]
      BY <1>7
  <2>3. QED
      BY <1>5, <2>1, <2>2
<1>9. Journal' = IF Len(grown) > MaxLog THEN newest ELSE grown
    BY <1>7 DEF Journal, Last
<1>10. QED
    BY <1>2, <1>7, <1>8, <1>9 DEF grown, newest

\* The journal holds the newest entries before and after an append: if it was
\* full it drops one, and otherwise it held all of them.
LEMMA AppendKeepsTail ==
    ASSUME JournalInvariant, AppendCommitLog
    PROVE  JournalInvariant'
<1> DEFINE e == entries'
           k == Kept(history)
           longer == Append(history, e)
<1>1. MaxLog \in Nat \ {0} /\ history \in Seq(Nat) /\ history' = longer /\ JournalTyped
    BY JournalAssumption DEF JournalInvariant, JournalTyped, AppendCommitLog
<1>2. /\ Journal \in Seq(Nat) /\ e \in Nat
      /\ Journal' = IF Len(Append(Journal, e)) > MaxLog
                    THEN LastOf(MaxLog, Append(Journal, e)) ELSE Append(Journal, e)
      /\ arrays' \in Seq(Seq(Nat)) /\ arrays' # <<>>
    BY <1>1, AppendedArrays
<1> HIDE DEF e
<1>3. k \in 0..Len(history) /\ k <= MaxLog /\ (k < MaxLog => k = Len(history))
    BY <1>1 DEF Kept
<1>4. Journal = LastOf(k, history)
    BY DEF JournalInvariant, JournalIsTail, Kept
<1> HIDE DEF k
<1>5. Len(Journal) = k
    BY <1>1, <1>3, <1>4, LastOfType
<1>6. Append(Journal, e) = LastOf(k + 1, longer)
    BY <1>1, <1>2, <1>3, <1>4, LastOfGrown
<1>7. longer \in Seq(Nat) /\ Len(longer) = Len(history) + 1 /\ Len(Append(Journal, e)) = k + 1
  <2>1. longer \in Seq(Nat) /\ Len(longer) = Len(history) + 1
      BY <1>1, <1>2
  <2>2. Len(Append(Journal, e)) = Len(Journal) + 1
      BY <1>2
  <2>3. QED
      BY <1>5, <2>1, <2>2
<1> HIDE DEF longer
<1>8. Journal' = LastOf(Kept(longer), longer)
  <2>1. CASE k = MaxLog
    <3>1. Journal' = LastOf(MaxLog, LastOf(k + 1, longer))
        BY <1>1, <1>2, <1>6, <1>7, <2>1
    <3>2. k + 1 \in 0..Len(longer) /\ MaxLog \in 0..(k + 1)
        BY <1>1, <1>3, <1>7, <2>1
    <3>3. Journal' = LastOf(MaxLog, longer)
        BY <1>7, <3>1, <3>2, LastOfLastOf
    <3>4. Kept(longer) = MaxLog
        BY <1>1, <1>3, <1>7, <2>1 DEF Kept
    <3>5. QED
        BY <3>3, <3>4
  <2>2. CASE k # MaxLog
    <3>1. k = Len(history) /\ k + 1 <= MaxLog
        BY <1>1, <1>3, <2>2
    <3>2. Journal' = LastOf(k + 1, longer)
        BY <1>1, <1>2, <1>3, <1>6, <1>7, <3>1
    <3>3. Kept(longer) = k + 1
        BY <1>1, <1>3, <1>7, <3>1 DEF Kept
    <3>4. QED
        BY <3>2, <3>3
  <2>3. QED
      BY <2>1, <2>2
<1>9. JournalIsTail'
    BY <1>1, <1>8 DEF JournalIsTail, Kept
<1>10. QED
    BY <1>1, <1>2, <1>7, <1>9 DEF JournalInvariant, JournalTyped, e

\* The journal is empty after it was cleared, as is what was appended since.
LEMMA ClearKeepsTail ==
    ASSUME JournalInvariant, ClearCommitJournal
    PROVE  JournalInvariant'
<1>1. MaxLog \in Nat \ {0} /\ history' = <<>> /\ <<>> \in Seq(Nat)
    BY JournalAssumption DEF ClearCommitJournal
<1>2. arrays \in Seq(Seq(Nat)) /\ entries \in Nat /\ <<>> \in Seq(Nat)
    BY DEF JournalInvariant, JournalTyped
<1>3. arrays' = Append(arrays, <<>>) /\ entries' = entries
    BY DEF ClearCommitJournal
<1>4. /\ Append(arrays, <<>>) \in Seq(Seq(Nat)) /\ Append(arrays, <<>>) # <<>>
      /\ Last(Append(arrays, <<>>)) = <<>>
  <2>1. ASSUME NEW T, NEW all \in Seq(T), NEW new \in T
        PROVE  /\ Append(all, new) \in Seq(T) /\ Append(all, new) # <<>>
               /\ Append(all, new)[Len(Append(all, new))] = new
      OBVIOUS
  <2>2. QED
      BY <1>2, <2>1 DEF Last
<1>5. JournalTyped' /\ Journal' = <<>>
    BY <1>1, <1>2, <1>3, <1>4 DEF JournalTyped, Journal
<1>6. LastOf(0, <<>>) = <<>>
    BY <1>1, LastOfAll
<1>7. QED
    BY <1>1, <1>5, <1>6 DEF JournalInvariant, JournalIsTail

\* The journal and its history begin empty.
LEMMA TailInitially == ReaderInit => JournalInvariant
<1> SUFFICES ASSUME ReaderInit PROVE JournalInvariant
    OBVIOUS
<1>1. MaxLog \in Nat \ {0} /\ <<>> \in Seq(Nat)
    BY JournalAssumption
<1>2. arrays = <<<<>>>> /\ history = <<>> /\ entries = 0
    BY DEF ReaderInit, JournalInit
<1>3. LastOf(0, <<>>) = <<>>
    BY <1>1, LastOfAll
<1>4. QED
    BY <1>1, <1>2, <1>3 DEF JournalInvariant, JournalTyped, JournalIsTail, Journal, Last

\* Nothing else writes to the journal.
LEMMA TailPreserved ==
    JournalInvariant /\ [ReaderNext]_<<vars, readerVars, journalVars>> => JournalInvariant'
<1> SUFFICES ASSUME JournalInvariant, [ReaderNext]_<<vars, readerVars, journalVars>>
             PROVE  JournalInvariant'
    OBVIOUS
<1>1. CASE JournalNext
    BY <1>1, AppendKeepsTail, ClearKeepsTail DEF JournalNext
<1>2. CASE UNCHANGED journalVars
    BY <1>2 DEF journalVars, JournalInvariant, JournalTyped, JournalIsTail, Journal
<1>3. QED
    BY <1>1, <1>2 DEF ReaderNext

\* getCommitJournal() returns the newest entries since the journal was cleared,
\* in their order and as many as the threshold allows, whatever callers do.
THEOREM JournalHoldsTheTail == ReaderSpec => []JournalIsTail
<1>1. JournalInvariant => JournalIsTail
    BY DEF JournalInvariant
<1>2. QED
    BY <1>1, TailInitially, TailPreserved, PTL DEF ReaderSpec

-----------------------------------------------------------------------------
(* The arrays that were handed out.                                        *)

\* An entry is appended at the end.
LEMMA AppendExtends ==
    ASSUME NEW S, NEW log \in Seq(S), NEW e \in S
    PROVE  IsPrefix(log, Append(log, e))
<1> DEFINE n == Len(log)
           grown == Append(log, e)
<1>1. n \in Nat /\ grown \in Seq(S) /\ Len(grown) = n + 1 /\ \A i \in 1..n : grown[i] = log[i]
    OBVIOUS
<1>2. (\A i \in 1..n : log[i] \in S) /\ (\A i \in 1..n : grown[i] \in S)
    BY <1>1, ElementOfSeq
<1> HIDE DEF grown
<1>3. /\ SubSeq(log, 1, n) \in Seq(S) /\ Len(SubSeq(log, 1, n)) = n
      /\ \A i \in 1..n : SubSeq(log, 1, n)[i] = log[i]
    BY <1>1, <1>2, SubSeqProperties
<1>4. /\ SubSeq(grown, 1, n) \in Seq(S) /\ Len(SubSeq(grown, 1, n)) = n
      /\ \A i \in 1..n : SubSeq(grown, 1, n)[i] = grown[i]
    BY <1>1, <1>2, SubSeqProperties
<1>5. SubSeq(log, 1, n) = SubSeq(grown, 1, n)
    BY <1>1, <1>3, <1>4, SeqEqual
<1>6. n <= Len(grown)
    BY <1>1
<1>7. QED
    BY <1>5, <1>6 DEF IsPrefix, grown

\* An array that is not written to is a prefix of itself.
LEMMA SameIsPrefix == ASSUME NEW S, NEW log \in Seq(S) PROVE IsPrefix(log, log)
    BY DEF IsPrefix

\* An array that the journal has left behind stays as it is, and the one that it
\* uses grows at its end.
Grow ==
    \A i \in DOMAIN arrays :
        /\ IsPrefix(arrays[i], arrays'[i])
        /\ i < Len(arrays) => arrays'[i] = arrays[i]

\* So arrays that are not written to have grown.
LEMMA SameArraysGrow ==
    ASSUME JournalTyped, \A i \in DOMAIN arrays : arrays'[i] = arrays[i]
    PROVE  Grow
<1>1. \A i \in DOMAIN arrays : arrays[i] \in Seq(Nat)
    BY DEF JournalTyped
<1>2. QED
    BY <1>1, SameIsPrefix DEF Grow

\* Every step lets the arrays grow.
LEMMA ArraysGrow ==
    JournalInvariant /\ [ReaderNext]_<<vars, readerVars, journalVars>> => [Grow]_journalVars
<1> SUFFICES ASSUME JournalInvariant, [ReaderNext]_<<vars, readerVars, journalVars>>,
                    ~UNCHANGED journalVars
             PROVE  Grow
    OBVIOUS
<1>1. JournalTyped /\ DOMAIN arrays = 1..Len(arrays) /\ Len(arrays) \in Nat
    BY DEF JournalInvariant, JournalTyped
<1>2. \A i \in DOMAIN arrays : arrays[i] \in Seq(Nat)
    BY <1>1 DEF JournalTyped
<1>3. CASE AppendCommitLog
  <2>1. /\ \A i \in DOMAIN arrays : i < Len(arrays) => arrays'[i] = arrays[i]
        /\ arrays'[Len(arrays)] = Append(Journal, entries') /\ entries' \in Nat
      BY <1>1, <1>3, AppendedArrays
  <2>2. ASSUME NEW i \in DOMAIN arrays PROVE IsPrefix(arrays[i], arrays'[i])
    <3>1. CASE i < Len(arrays)
        BY <1>2, <2>1, <3>1, SameIsPrefix
    <3>2. CASE i = Len(arrays)
      <4>1. arrays'[i] = Append(arrays[i], entries')
          BY <2>1, <3>2 DEF Journal, Last
      <4>2. QED
          BY <1>2, <2>1, <4>1, AppendExtends
    <3>3. QED
        BY <1>1, <3>1, <3>2
  <2>3. QED
      BY <2>1, <2>2 DEF Grow
<1>4. CASE ClearCommitJournal
  <2>1. arrays' = Append(arrays, <<>>)
      BY <1>4 DEF ClearCommitJournal
  <2>2. \A i \in DOMAIN arrays : arrays'[i] = arrays[i]
      BY <1>1, <2>1 DEF JournalTyped
  <2>3. QED
      BY <1>1, <2>2, SameArraysGrow
<1>5. QED
    BY <1>3, <1>4 DEF ReaderNext, JournalNext

\* Whatever array a caller of appendCommitLog() or getCommitJournal() holds, no
\* entry of it is lost or moved, and it changes only while it is the journal's.
THEOREM HeldArraysOnlyGrow == ReaderSpec => HeldArraysGrow
<1>1. ReaderSpec => [][Grow]_journalVars
    BY TailInitially, TailPreserved, ArraysGrow, PTL DEF ReaderSpec
<1>2. QED
    BY <1>1 DEF HeldArraysGrow, Grow

-----------------------------------------------------------------------------
(* Snapshots and answers.                                                  *)

\* The cache answers a key with objects whose ids and strengths the key names.
CacheTyped ==
    /\ cache \subseteq Keys \X Answers
    /\ \A e, f \in cache : e[1] = f[1] => e = f
    /\ \A e \in cache : \A a \in e[2] :
           /\ a[1] \in DOMAIN heap
           /\ <<heap[a[1]].id, heap[a[1]].strength>> \in e[1][2]

StoreTyped ==
    /\ heap \in Seq(Memory) /\ Len(heap) <= MaxObjects
    /\ live \subseteq DOMAIN heap
    /\ \A o, p \in live : heap[o].id = heap[p].id => o = p

\* Snapshots hold objects of their own, none of which is in the store; this is
\* what a write in place cannot reach.
SnapshotsApart ==
    \A s \in snapshots :
        /\ s.objects \subseteq DOMAIN heap \ live
        /\ Values(s.objects) = s.was

RepliesStored ==
    \A r \in reply : \A a \in r.answer :
        \E m \in Values(r.over) : m.id = heap[a[1]].id /\ m.strength = heap[a[1]].strength

ReaderInvariant == StoreTyped /\ CacheTyped /\ SnapshotsApart /\ RepliesStored

\* Nothing is held at first.
LEMMA ReaderInitially == ReaderInit => ReaderInvariant
<1> SUFFICES ASSUME ReaderInit PROVE ReaderInvariant
    OBVIOUS
<1>1. heap = <<>> /\ live = {} /\ cache = {} /\ reply = {} /\ snapshots = {}
    BY DEF ReaderInit, Init
<1>2. heap \in Seq(Memory) /\ Len(heap) = 0
    BY <1>1
<1>3. QED
    BY <1>1, <1>2, QueryAssumption
       DEF ReaderInvariant, StoreTyped, CacheTyped, SnapshotsApart, RepliesStored

\* An answer names objects it was asked over, by hit and by miss.
LEMMA AskAnswers ==
    ASSUME ReaderInvariant, NEW objects \in SUBSET DOMAIN heap, Ask(objects)
    PROVE  /\ CacheTyped' /\ RepliesStored'
           /\ UNCHANGED <<heap, live>>
<1>1. PICK query \in Query, threshold \in Threshold :
          Hit(query, threshold, objects) \/ Miss(query, threshold, objects)
    BY DEF Ask
<1> DEFINE key == CacheKey(query, objects)
<1>2. UNCHANGED <<heap, live>>
    BY <1>1 DEF Hit, Miss
<1>3. heap \in Seq(Memory) /\ DOMAIN heap \subseteq Object /\ \A o \in DOMAIN heap : heap[o] \in Memory
  <2>1. heap \in Seq(Memory) /\ Len(heap) <= MaxObjects /\ MaxObjects \in Nat
      BY QueryAssumption DEF ReaderInvariant, StoreTyped
  <2>2. DOMAIN heap = 1..Len(heap) /\ Len(heap) \in Nat
      BY <2>1
  <2>3. QED
      BY <2>1, <2>2 DEF Object
<1>4. /\ key[1] = query /\ key \in Keys
      /\ key[2] = {<<m.id, m.strength>> : m \in Values(objects)}
  <2>1. Values(objects) \subseteq Memory
      BY <1>3 DEF Values
  <2>2. {<<m.id, m.strength>> : m \in Values(objects)} \in SUBSET (MemoryId \X Strength)
      BY <2>1 DEF Memory
  <2>3. QED
      BY <2>2 DEF CacheKey, Keys
<1> HIDE DEF key
<1>5. ASSUME NEW answer, reply' = {[query |-> query, threshold |-> threshold,
                                    over |-> objects, answer |-> answer]},
             \A a \in answer : <<heap[a[1]].id, heap[a[1]].strength>> \in key[2]
      PROVE  RepliesStored'
  <2> SUFFICES ASSUME NEW a \in answer
               PROVE  \E m \in Values(objects) : m.id = heap[a[1]].id /\ m.strength = heap[a[1]].strength
      BY <1>2, <1>5 DEF RepliesStored, Values
  <2>1. QED
      BY <1>4, <1>5
<1>6. CASE Hit(query, threshold, objects)
  <2>1. PICK entry \in cache :
            entry[1] = key /\ Replied(query, threshold, objects, entry[2])
      BY <1>6 DEF Hit, key
  <2>2. cache' = cache
      BY <1>6 DEF Hit
  <2>3. \A a \in entry[2] : <<heap[a[1]].id, heap[a[1]].strength>> \in key[2]
      BY <2>1 DEF ReaderInvariant, CacheTyped
  <2>4. CacheTyped'
      BY <1>2, <2>2 DEF ReaderInvariant, CacheTyped
  <2>5. QED
      BY <1>2, <1>5, <2>1, <2>3, <2>4 DEF Replied
<1>7. CASE Miss(query, threshold, objects)
  <2> DEFINE answer == Matching(query, threshold, objects)
  <2>1. /\ \A entry \in cache : entry[1] # key
        /\ cache' = cache \cup {<<key, answer>>}
        /\ Replied(query, threshold, objects, answer)
      BY <1>7 DEF Miss, key
  <2>2. \A a \in answer : a[1] \in objects /\ a \in Object \X Nat
    <3> SUFFICES ASSUME NEW a \in answer PROVE a[1] \in objects /\ a \in Object \X Nat
        OBVIOUS
    <3>1. PICK o \in objects : a = <<o, Score[query, heap[o].label]>>
        BY DEF Matching
    <3>2. o \in Object /\ heap[o].label \in Label
        BY <1>3 DEF Memory
    <3>3. Score[query, heap[o].label] \in Nat
        BY <3>2, QueryAssumption
    <3>4. QED
        BY <3>1, <3>2, <3>3
  <2> HIDE DEF answer
  <2>3. \A a \in answer : <<heap[a[1]].id, heap[a[1]].strength>> \in key[2]
      BY <1>4, <2>2 DEF Values
  <2>4. CacheTyped'
    <3>1. answer \in Answers
        BY <2>2 DEF Answers
    <3>2. cache' \subseteq Keys \X Answers
        BY <1>4, <2>1, <3>1 DEF ReaderInvariant, CacheTyped
    <3>3. \A e, f \in cache' : e[1] = f[1] => e = f
        BY <2>1 DEF ReaderInvariant, CacheTyped
    <3>4. \A e \in cache' : \A a \in e[2] :
              a[1] \in DOMAIN heap /\ <<heap[a[1]].id, heap[a[1]].strength>> \in e[1][2]
        BY <2>1, <2>2, <2>3 DEF ReaderInvariant, CacheTyped
    <3>5. QED
        BY <1>2, <3>2, <3>3, <3>4 DEF CacheTyped
  <2>5. QED
      BY <1>2, <1>5, <2>1, <2>3, <2>4 DEF Replied
<1>8. QED
    BY <1>1, <1>6, <1>7

\* Nothing that is stored changes when objects are appended to the heap.
LEMMA LongerHeap ==
    ASSUME ReaderInvariant, NEW new \in Seq(Memory), heap' = heap \o new,
           Len(heap) + Len(new) <= MaxObjects
    PROVE  /\ heap' \in Seq(Memory) /\ Len(heap') = Len(heap) + Len(new) /\ Len(heap') <= MaxObjects
           /\ DOMAIN heap = 1..Len(heap) /\ Len(heap) \in Nat
           /\ DOMAIN heap' = 1..(Len(heap) + Len(new)) /\ DOMAIN heap \subseteq DOMAIN heap'
           /\ \A o \in DOMAIN heap : heap'[o] = heap[o]
           /\ \A i \in 1..Len(new) : heap'[Len(heap) + i] = new[i]
           /\ \A objects \in SUBSET DOMAIN heap : Values(objects)' = Values(objects)
           /\ cache' = cache => CacheTyped'
<1>1. heap \in Seq(Memory) /\ MaxObjects \in Nat
    BY QueryAssumption DEF ReaderInvariant, StoreTyped
<1>2. /\ heap' \in Seq(Memory) /\ Len(heap') = Len(heap) + Len(new)
      /\ Len(heap) \in Nat /\ Len(new) \in Nat
      /\ \A i \in 1..(Len(heap) + Len(new)) :
             heap'[i] = IF i <= Len(heap) THEN heap[i] ELSE new[i - Len(heap)]
    BY <1>1, ConcatProperties
<1>3. /\ DOMAIN heap = 1..Len(heap) /\ DOMAIN heap' = 1..(Len(heap) + Len(new))
      /\ DOMAIN heap \subseteq DOMAIN heap'
    BY <1>1, <1>2
<1>4. \A o \in DOMAIN heap : heap'[o] = heap[o]
    BY <1>2, <1>3
<1>5. \A i \in 1..Len(new) : heap'[Len(heap) + i] = new[i]
  <2> TAKE i \in 1..Len(new)
  <2>1. Len(heap) + i \in 1..(Len(heap) + Len(new)) /\ ~(Len(heap) + i <= Len(heap))
        /\ (Len(heap) + i) - Len(heap) = i
      BY <1>2
  <2>2. QED
      BY <1>2, <2>1
<1>6. \A objects \in SUBSET DOMAIN heap : Values(objects)' = Values(objects)
    BY <1>4 DEF Values
<1>7. cache' = cache => CacheTyped'
    BY <1>3, <1>4 DEF ReaderInvariant, CacheTyped
<1>8. QED
    BY <1>2, <1>3, <1>4, <1>5, <1>6, <1>7

\* A new object is in no snapshot, and one that is taken out of the store stays
\* what it was.
LEMMA EditKeepsApart ==
    ASSUME ReaderInvariant, Edit, UNCHANGED snapshots
    PROVE  ReaderInvariant'
<1>1. RepliesStored'
    BY DEF Edit, RepliesStored
<1>2. /\ heap \in Seq(Memory) /\ DOMAIN heap = 1..Len(heap) /\ Len(heap) \in Nat
      /\ Len(heap) <= MaxObjects /\ MaxObjects \in Nat /\ live \subseteq DOMAIN heap
      /\ \A o, p \in live : heap[o].id = heap[p].id => o = p
    BY QueryAssumption DEF ReaderInvariant, StoreTyped
<1>3. ASSUME NEW m \in Memory, Len(heap) < MaxObjects, heap' = Append(heap, m),
             live' = {o \in live : heap[o].id # m.id} \cup {NewObject},
             cache' = cache \/ cache' = {}
      PROVE  ReaderInvariant'
  <2>1. <<m>> \in Seq(Memory) /\ Len(<<m>>) = 1 /\ heap' = heap \o <<m>> /\ <<m>>[1] = m
      BY <1>2, <1>3, AppendIsConcat
  <2> DEFINE new == <<m>>
  <2> HIDE DEF new
  <2>3. /\ heap' \in Seq(Memory) /\ Len(heap') = Len(heap) + 1 /\ Len(heap') <= MaxObjects
        /\ DOMAIN heap' = 1..(Len(heap) + 1)
        /\ \A o \in DOMAIN heap : heap'[o] = heap[o]
        /\ heap'[Len(heap) + 1] = m
        /\ \A objects \in SUBSET DOMAIN heap : Values(objects)' = Values(objects)
        /\ cache' = cache => CacheTyped'
    <3>1. new \in Seq(Memory) /\ Len(new) = 1 /\ new[1] = m /\ heap' = heap \o new
        BY <2>1 DEF new
    <3>2. Len(heap) + Len(new) <= MaxObjects
        BY <1>2, <1>3, <3>1
    <3>3. /\ heap' \in Seq(Memory) /\ Len(heap') = Len(heap) + Len(new) /\ Len(heap') <= MaxObjects
          /\ DOMAIN heap' = 1..(Len(heap) + Len(new))
          /\ \A o \in DOMAIN heap : heap'[o] = heap[o]
          /\ \A i \in 1..Len(new) : heap'[Len(heap) + i] = new[i]
          /\ \A objects \in SUBSET DOMAIN heap : Values(objects)' = Values(objects)
          /\ cache' = cache => CacheTyped'
        BY <3>1, <3>2, LongerHeap
    <3>4. QED
        BY <3>1, <3>3
  <2>4. CacheTyped'
      BY <1>3, <2>3 DEF CacheTyped
  <2>5. StoreTyped'
    <3>1. live' \subseteq DOMAIN heap'
        BY <1>2, <1>3, <2>3 DEF NewObject
    <3>2. ASSUME NEW o \in live', NEW p \in live', heap'[o].id = heap'[p].id PROVE o = p
        BY <1>2, <1>3, <2>3, <3>2 DEF NewObject
    <3>3. QED
        BY <2>3, <3>1, <3>2 DEF StoreTyped
  <2>6. SnapshotsApart'
    <3> SUFFICES ASSUME NEW s \in snapshots
                 PROVE  s.objects \subseteq DOMAIN heap' \ live' /\ Values(s.objects)' = s.was
        BY DEF SnapshotsApart, Values
    <3>1. s.objects \subseteq DOMAIN heap \ live /\ Values(s.objects) = s.was
        BY DEF ReaderInvariant, SnapshotsApart
    <3>2. QED
        BY <1>2, <1>3, <2>3, <3>1 DEF NewObject
  <2>7. QED
      BY <1>1, <2>4, <2>5, <2>6 DEF ReaderInvariant
<1>4. CASE Write
    BY <1>3, <1>4 DEF Write
<1>5. CASE Build
    BY <1>3, <1>5 DEF Build
<1>6. CASE Take
  <2>1. live' \subseteq live /\ heap' = heap /\ cache' = cache
      BY <1>6 DEF Take
  <2>2. StoreTyped' /\ CacheTyped' /\ SnapshotsApart'
      BY <2>1 DEF ReaderInvariant, StoreTyped, CacheTyped, SnapshotsApart, Values
  <2>3. QED
      BY <1>1, <2>2 DEF ReaderInvariant
<1>7. CASE WriteInPlace
  <2>1. PICK o \in live, label \in Label : heap' = [heap EXCEPT ![o].label = label]
      BY <1>7 DEF WriteInPlace
  <2>2. live' = live /\ cache' = cache
      BY <1>7 DEF WriteInPlace
  <2>3. o \in DOMAIN heap /\ heap[o] \in Memory
      BY <1>2
  <2>4. /\ heap' \in Seq(Memory) /\ Len(heap') = Len(heap) /\ DOMAIN heap' = DOMAIN heap
        /\ \A p \in DOMAIN heap : /\ p # o => heap'[p] = heap[p]
                                  /\ heap'[p].id = heap[p].id /\ heap'[p].strength = heap[p].strength
    <3>1. heap' = [heap EXCEPT ![o] = [@ EXCEPT !.label = label]]
        BY <2>1
    <3>2. /\ [heap[o] EXCEPT !.label = label] \in Memory
          /\ [heap[o] EXCEPT !.label = label].id = heap[o].id
          /\ [heap[o] EXCEPT !.label = label].strength = heap[o].strength
        BY <2>3 DEF Memory
    <3>3. heap' \in Seq(Memory) /\ Len(heap') = Len(heap) /\ DOMAIN heap' = DOMAIN heap
        BY <1>2, <2>3, <3>1, <3>2, ExceptSeq
    <3>4. QED
        BY <2>3, <3>1, <3>2, <3>3
  <2>5. StoreTyped' /\ CacheTyped'
    <3>1. StoreTyped'
        BY <1>2, <2>2, <2>4 DEF StoreTyped
    <3>2. CacheTyped'
        BY <2>2, <2>4 DEF ReaderInvariant, CacheTyped
    <3>3. QED
        BY <3>1, <3>2
  <2>6. SnapshotsApart'
    <3> SUFFICES ASSUME NEW s \in snapshots
                 PROVE  s.objects \subseteq DOMAIN heap' \ live' /\ Values(s.objects)' = s.was
        BY DEF SnapshotsApart, Values
    <3>1. s.objects \subseteq DOMAIN heap \ live /\ Values(s.objects) = s.was
        BY DEF ReaderInvariant, SnapshotsApart
    <3>2. \A p \in s.objects : heap'[p] = heap[p]
        BY <2>4, <3>1
    <3>3. QED
        BY <2>2, <2>4, <3>1, <3>2 DEF Values
  <2>7. QED
      BY <1>1, <2>5, <2>6 DEF ReaderInvariant
<1>8. QED
    BY <1>4, <1>5, <1>6, <1>7 DEF Edit

\* Listing names each object of a finite set once.
LEMMA ListingIsBijective ==
    ASSUME NEW S, IsFiniteSet(S)
    PROVE  /\ Cardinality(S) \in Nat
           /\ Listing(S) \in [1..Cardinality(S) -> S]
           /\ \A x \in S : \E i \in 1..Cardinality(S) : Listing(S)[i] = x
<1> DEFINE n == Cardinality(S)
<1>1. n \in Nat /\ ExistsBijection(1..n, S)
    BY FS_CardinalityType
<1>2. IsFiniteSet(1..n) /\ Cardinality(1..n) = n
  <2>1. \A k \in Nat : IsFiniteSet(1..k) /\ Cardinality(1..k) = k
      BY FS_Interval
  <2>2. QED
      BY <1>1, <2>1
<1> HIDE DEF n
<1>3. \E f \in [1..n -> S] : IsInjective(f)
    BY <1>1 DEF ExistsBijection, Bijection, Injection
<1>4. Listing(S) \in [1..n -> S] /\ IsInjective(Listing(S))
    BY <1>3 DEF Listing, SetToSeq, n
<1>5. Listing(S) \in Injection(1..n, S)
    BY <1>4 DEF Injection
<1>6. Listing(S) \in Surjection(1..n, S)
  <2>1. Cardinality(1..n) = Cardinality(S)
      BY <1>2 DEF n
  <2>2. QED
      BY <1>5, <2>1, FS_Injection
<1>7. QED
    BY <1>1, <1>4, <1>6 DEF Surjection, n

\* A snapshot is made of copies, which are behind every object there was.
LEMMA CreateKeepsApart ==
    ASSUME ReaderInvariant, CreateSnapshot
    PROVE  ReaderInvariant'
<1> DEFINE n == Cardinality(live)
           originals == Listing(live)
           new == [i \in DOMAIN originals |-> heap[originals[i]]]
           copies == {Len(heap) + i : i \in DOMAIN originals}
<1>1. /\ heap \in Seq(Memory) /\ DOMAIN heap = 1..Len(heap) /\ Len(heap) \in Nat
      /\ live \subseteq DOMAIN heap
      /\ \A o, p \in live : heap[o].id = heap[p].id => o = p
    BY DEF ReaderInvariant, StoreTyped
<1>2. IsFiniteSet(live)
  <2>1. \A k \in Nat : IsFiniteSet(1..k)
      BY FS_Interval
  <2>2. QED
      BY <1>1, <2>1, FS_Subset
<1>3. /\ n \in Nat /\ originals \in [1..n -> live]
      /\ \A o \in live : \E i \in 1..n : originals[i] = o
    BY <1>2, ListingIsBijective
<1>4. /\ Len(heap) + Len(originals) <= MaxObjects
      /\ heap' = heap \o new
      /\ snapshots' = snapshots \cup {[number |-> sequence', objects |-> copies, was |-> Values(live)]}
      /\ reply' = {} /\ UNCHANGED <<live, cache>>
    BY DEF CreateSnapshot
<1> HIDE DEF n, originals
<1>5. DOMAIN originals = 1..n /\ Len(originals) = n
    BY <1>3
<1>6. new \in Seq(Memory) /\ Len(new) = n /\ \A i \in 1..n : new[i] = heap[originals[i]]
  <2>1. new \in [1..n -> Memory]
      BY <1>1, <1>3, <1>5
  <2>2. QED
      BY <1>3, <1>5, <2>1
<1> HIDE DEF new
<1>7. /\ heap' \in Seq(Memory) /\ Len(heap') <= MaxObjects
      /\ DOMAIN heap' = 1..(Len(heap) + n) /\ DOMAIN heap \subseteq DOMAIN heap'
      /\ \A o \in DOMAIN heap : heap'[o] = heap[o]
      /\ \A i \in 1..n : heap'[Len(heap) + i] = new[i]
      /\ \A objects \in SUBSET DOMAIN heap : Values(objects)' = Values(objects)
      /\ CacheTyped'
    BY <1>4, <1>5, <1>6, LongerHeap
<1>8. StoreTyped' /\ RepliesStored'
    BY <1>1, <1>4, <1>7 DEF StoreTyped, RepliesStored
<1>9. copies \subseteq DOMAIN heap' \ live'
    BY <1>1, <1>3, <1>4, <1>5, <1>7
<1>10. {heap'[o] : o \in copies} = Values(live)
  <2>1. \A i \in 1..n : heap'[Len(heap) + i] = heap[originals[i]]
      BY <1>6, <1>7
  <2>2. ASSUME NEW m \in {heap'[o] : o \in copies} PROVE m \in Values(live)
    <3>1. PICK i \in 1..n : m = heap'[Len(heap) + i]
        BY <1>5
    <3>2. m = heap[originals[i]] /\ originals[i] \in live
        BY <1>3, <2>1, <3>1
    <3>3. QED
        BY <3>2 DEF Values
  <2>3. ASSUME NEW m \in Values(live) PROVE m \in {heap'[o] : o \in copies}
    <3>1. PICK o \in live : m = heap[o]
        BY DEF Values
    <3>2. PICK i \in 1..n : originals[i] = o
        BY <1>3
    <3>3. Len(heap) + i \in copies /\ heap'[Len(heap) + i] = m
        BY <1>5, <2>1, <3>1, <3>2
    <3>4. QED
        BY <3>3
  <2>4. QED
      BY <2>2, <2>3
<1> HIDE DEF copies
<1>11. SnapshotsApart'
  <2> SUFFICES ASSUME NEW s \in snapshots'
               PROVE  s.objects \subseteq DOMAIN heap' \ live' /\ Values(s.objects)' = s.was
      BY DEF SnapshotsApart, Values
  <2>1. CASE s \in snapshots
      BY <1>4, <1>7, <2>1 DEF ReaderInvariant, SnapshotsApart
  <2>2. CASE s \notin snapshots
    <3>1. s.objects = copies /\ s.was = Values(live)
        BY <1>4, <2>2
    <3>2. QED
        BY <1>9, <1>10, <3>1 DEF Values
  <2>3. QED
      BY <2>1, <2>2
<1>12. QED
    BY <1>7, <1>8, <1>11 DEF ReaderInvariant

\* Every step keeps all of it.
LEMMA ReaderInductive ==
    ReaderInvariant /\ [ReaderNext]_<<vars, readerVars, journalVars>> => ReaderInvariant'
<1> SUFFICES ASSUME ReaderInvariant, [ReaderNext]_<<vars, readerVars, journalVars>>
             PROVE  ReaderInvariant'
    OBVIOUS
<1>1. ASSUME NEW objects \in SUBSET DOMAIN heap, Ask(objects), UNCHANGED readerVars
      PROVE  ReaderInvariant'
    BY <1>1, AskAnswers DEF readerVars, ReaderInvariant, StoreTyped, SnapshotsApart, Values
<1>2. CASE QueryLive
    BY <1>1, <1>2 DEF QueryLive, ReaderInvariant, StoreTyped
<1>3. CASE QuerySnapshot
    BY <1>1, <1>3 DEF QuerySnapshot, ReaderInvariant, SnapshotsApart
<1>4. CASE EditLive
    BY <1>4, EditKeepsApart DEF EditLive
<1>5. CASE CreateSnapshot
    BY <1>5, CreateKeepsApart
<1>6. CASE ReleaseSnapshot \/ WriteNested
  <2>1. UNCHANGED <<heap, live, cache>> /\ snapshots' \subseteq snapshots /\ reply' = {}
      BY <1>6 DEF ReleaseSnapshot, WriteNested
  <2>2. StoreTyped' /\ CacheTyped' /\ RepliesStored'
      BY <2>1 DEF ReaderInvariant, StoreTyped, CacheTyped, RepliesStored
  <2>3. SnapshotsApart'
      BY <2>1 DEF ReaderInvariant, SnapshotsApart, Values
  <2>4. QED
      BY <2>2, <2>3 DEF ReaderInvariant
<1>7. CASE UNCHANGED <<vars, readerVars>>
    BY <1>7 DEF vars, readerVars, ReaderInvariant, StoreTyped, CacheTyped,
                SnapshotsApart, RepliesStored, Values
<1>8. QED
    BY <1>2, <1>3, <1>4, <1>5, <1>6, <1>7 DEF ReaderNext

\* So it always holds.
LEMMA ReaderHolds == ReaderSpec => []ReaderInvariant
    BY ReaderInitially, ReaderInductive, PTL DEF ReaderSpec

\* A snapshot shows the memories of the moment it was made, however many there
\* are and whatever is written, taken out or written in place meanwhile.
THEOREM SnapshotsStayIsolated == ReaderSpec => []SnapshotsAreIsolated
<1>1. ReaderInvariant => SnapshotsAreIsolated
    BY DEF ReaderInvariant, SnapshotsApart, SnapshotsAreIsolated
<1>2. QED
    BY <1>1, ReaderHolds, PTL

\* An answer of the query cache names only memories it was asked over, with the
\* strengths they have.
THEOREM AnswersAreStored == ReaderSpec => []AnswerIsStored
<1>1. ReaderInvariant => AnswerIsStored
    BY DEF ReaderInvariant, RepliesStored, AnswerIsStored
<1>2. QED
    BY <1>1, ReaderHolds, PTL

=============================================================================
