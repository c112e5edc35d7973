------------------------------ MODULE JsonFile ------------------------------
(***************************************************************************)
(* The JSON file adapter of src/storage.mjs, one system call at a time.    *)
(* save() opens the file, which empties it, and then writes the text piece *)
(* by piece; load() reads piece by piece until the end and parses what it  *)
(* got.  Nothing keeps the calls of clients, daemon runs and processes     *)
(* apart, a write may fail and a process may be killed between two steps.  *)
(*                                                                         *)
(* What is saved is a version: saves are numbered as they start, and       *)
(* version 0 is the empty store that load() makes up for a missing file.   *)
(* A text is cut into pieces; a piece in the file remembers the version it *)
(* was written for.  Pieces of several versions may make up a text that    *)
(* parses, and then a load returns a store that nobody saved.              *)
(***************************************************************************)
EXTENDS Naturals, Sequences

CONSTANTS
    Caller,         \* who may have a call of load() or save() open
    MaxSaves,       \* bound: saves ever started
    Chunk,          \* what a piece may say
    NoChunk,        \* what is read from a hole in the file
    JsonText,       \* the sequences of contents that JSON.parse reads
    StoreText       \* those that a store may be written as

\* A text that misses its end is no JSON text (the line feed that save() adds
\* belongs to the last piece, with the brace before it).
ASSUME JsonFileAssumption ==
    /\ MaxSaves \in Nat /\ NoChunk \notin Chunk
    /\ StoreText \subseteq JsonText /\ JsonText \subseteq Seq(Chunk)
    /\ <<>> \notin JsonText
    /\ \A s, t \in JsonText : Len(s) <= Len(t) /\ (\A i \in 1..Len(s) : s[i] = t[i]) => s = t

Version == 1..MaxSaves

Piece == [version : Version, at : Nat \ {0}]

\* What a hole holds that a write beyond the end leaves behind.
Hole == [version |-> 0, at |-> 0]

Missing == [exists |-> FALSE, text |-> <<>>]

\* No load has just ended.
Nothing == [text |-> <<>>, may |-> {0}]

VARIABLES
    file,       \* whether there is a file, and its pieces
    call,       \* the open call of each caller
    texts,      \* the text of each version that was started
    current,    \* history: versions that no later save began after
    clean,      \* history: the version of the last undisturbed save, or 0
    loaded      \* history: the pieces of which a load that ended in this step read
                \* its store, none for a missing file, and the versions to be had

fileVars == <<file, call, texts, current, clean, loaded>>

Idle == [op |-> "idle"]

\* `before' are the versions that were current when a save started, `alone'
\* says that no other save has been open at the same time; `may' are the
\* versions that a load may return.
Loading(got, may) == [op |-> "load", got |-> got, may |-> may]
Saving(version, written, before, alone) ==
    [op |-> "save", version |-> version, written |-> written, before |-> before, alone |-> alone]

Pieces == Seq(Piece \cup {Hole})

LoadCall == [op : {"load"}, got : Pieces, may : SUBSET (Version \cup {0})]

SaveCall == [op : {"save"}, version : Version, written : Nat,
             before : SUBSET (Version \cup {0}), alone : BOOLEAN]

Saves == {c \in Caller : call[c].op = "save"}

InFlight == {call[c].version : c \in Saves}

FileTypeOK ==
    /\ file \in [exists : BOOLEAN, text : Pieces]
    /\ file.exists \/ file = Missing
    /\ call \in [Caller -> {Idle} \cup LoadCall \cup SaveCall]
    /\ \A c \in Saves : call[c].version \in DOMAIN texts
                        /\ call[c].written <= Len(texts[call[c].version])
    /\ texts \in Seq(StoreText) /\ Len(texts) <= MaxSaves
    /\ current \in SUBSET (0..Len(texts)) /\ current # {}
    /\ clean \in 0..Len(texts)
    /\ loaded \in [text : Pieces, may : SUBSET (Version \cup {0})]

FileInit ==
    /\ file = Missing
    /\ call = [c \in Caller |-> Idle]
    /\ texts = <<>>
    /\ current = {0} /\ clean = 0
    /\ loaded = Nothing

-----------------------------------------------------------------------------

Text(version) == [i \in 1..Len(texts[version]) |-> [version |-> version, at |-> i]]

\* What is read, whoever wrote it.
Contents(text) ==
    [i \in 1..Len(text) |->
        IF text[i] = Hole THEN NoChunk ELSE texts[text[i].version][text[i].at]]

Parses(text) == Contents(text) \in JsonText

-----------------------------------------------------------------------------
(* load()                                                                  *)

StartLoad(c) ==
    /\ call[c] = Idle
    /\ file.exists
    /\ call' = [call EXCEPT ![c] = Loading(<<>>, current \cup InFlight)]
    /\ loaded' = Nothing
    /\ UNCHANGED <<file, texts, current, clean>>

\* ENOENT
LoadMissing(c) ==
    /\ call[c] = Idle
    /\ ~file.exists
    /\ loaded' = [text |-> <<>>, may |-> current \cup InFlight]
    /\ UNCHANGED <<file, call, texts, current, clean>>

ReadPiece(c) ==
    /\ call[c].op = "load"
    /\ Len(call[c].got) < Len(file.text)
    /\ call' = [call EXCEPT ![c].got = Append(@, file.text[Len(@) + 1])]
    /\ loaded' = Nothing
    /\ UNCHANGED <<file, texts, current, clean>>

AtEnd(c) == call[c].op = "load" /\ Len(call[c].got) >= Len(file.text)

\* Whatever does not parse is an empty store.  (An operator named Faulty... is
\* the one after it with a plausible mistake; no specification uses it.)
FaultyEndLoad(c) ==
    /\ AtEnd(c)
    /\ loaded' = [text |-> IF Parses(call[c].got) THEN call[c].got ELSE <<>>,
                  may |-> call[c].may]
    /\ call' = [call EXCEPT ![c] = Idle]
    /\ UNCHANGED <<file, texts, current, clean>>

\* The end of the file: what was read is parsed, or the call throws and its
\* caller does nothing.
EndLoad(c) ==
    /\ AtEnd(c)
    /\ loaded' = IF Parses(call[c].got)
                 THEN [text |-> call[c].got, may |-> call[c].may]
                 ELSE Nothing
    /\ call' = [call EXCEPT ![c] = Idle]
    /\ UNCHANGED <<file, texts, current, clean>>

-----------------------------------------------------------------------------
(* save()                                                                  *)

\* The calls that are open when version `new' starts to be saved by c: no save
\* is alone any more, and a load may return the new version.
Joined(c, new) ==
    [d \in Caller |->
        IF d = c THEN Saving(new, 0, current, Saves = {})
        ELSE IF call[d].op = "save" THEN [call[d] EXCEPT !.alone = FALSE]
        ELSE IF call[d].op = "load" THEN [call[d] EXCEPT !.may = @ \cup {new}]
        ELSE Idle]

\* The file is opened without O_TRUNC.
FaultyStartSave(c) ==
    /\ call[c] = Idle
    /\ Len(texts) < MaxSaves
    /\ \E text \in StoreText : texts' = Append(texts, text)
    /\ call' = Joined(c, Len(texts) + 1)
    /\ file' = [file EXCEPT !.exists = TRUE]
    /\ clean' = 0
    /\ loaded' = Nothing
    /\ UNCHANGED <<current>>

\* writeFile opens the file with O_CREAT and O_TRUNC.
StartSave(c) ==
    /\ call[c] = Idle
    /\ Len(texts) < MaxSaves
    /\ \E text \in StoreText : texts' = Append(texts, text)
    /\ call' = Joined(c, Len(texts) + 1)
    /\ file' = [exists |-> TRUE, text |-> <<>>]
    /\ clean' = 0
    /\ loaded' = Nothing
    /\ UNCHANGED <<current>>

\* A write at a position of its own, whatever others did to the file.
Written(text, at, piece) ==
    [i \in 1..(IF at > Len(text) THEN at ELSE Len(text)) |->
        IF i = at THEN piece ELSE IF i <= Len(text) THEN text[i] ELSE Hole]

WritePiece(c) ==
    /\ call[c].op = "save"
    /\ call[c].written < Len(texts[call[c].version])
    /\ LET at == call[c].written + 1
       IN file' = [file EXCEPT !.text =
                      Written(@, at, [version |-> call[c].version, at |-> at])]
    /\ call' = [call EXCEPT ![c].written = @ + 1]
    /\ loaded' = Nothing
    /\ UNCHANGED <<texts, current, clean>>

EndSave(c) ==
    /\ call[c].op = "save"
    /\ call[c].written = Len(texts[call[c].version])
    /\ current' = (current \ call[c].before) \cup {call[c].version}
    /\ clean' = IF call[c].alone THEN call[c].version ELSE clean
    /\ call' = [call EXCEPT ![c] = Idle]
    /\ loaded' = Nothing
    /\ UNCHANGED <<file, texts>>

\* A failing write rejects the promise, a killed process never settles it:
\* what was written until then stays in the file.
BreakOff(c) ==
    /\ call[c] # Idle
    /\ current' = IF call[c].op = "save" THEN current \cup {call[c].version} ELSE current
    /\ call' = [call EXCEPT ![c] = Idle]
    /\ loaded' = Nothing
    /\ UNCHANGED <<file, texts, clean>>

-----------------------------------------------------------------------------

Step(c) ==
    \/ ReadPiece(c) \/ EndLoad(c)
    \/ WritePiece(c) \/ EndSave(c)

FileNext ==
    \E c \in Caller :
        \/ StartLoad(c) \/ LoadMissing(c) \/ StartSave(c)
        \/ Step(c) \/ BreakOff(c)

FileSpec == FileInit /\ [][FileNext]_fileVars

-----------------------------------------------------------------------------
(* Properties.                                                             *)

\* load() in src/storage.mjs:95 either throws or returns a store of which every
\* piece was to be had at some moment of the call: it was written by a save that
\* no other one had replaced before the load began, or by one that overlapped
\* with it.  If one save wrote all of it, it is the whole text of that save: no
\* torn file is taken for a store, nor for an empty one, which the caller would
\* then change and save.
LoadsAreRecent ==
    /\ loaded.text = <<>> => 0 \in loaded.may
    /\ \A i \in DOMAIN loaded.text : loaded.text[i].version \in loaded.may
    /\ \A v \in Version :
           loaded.text # <<>> /\ (\A i \in DOMAIN loaded.text : loaded.text[i].version = v) =>
               loaded.text = Text(v)

\* A save that no other save overlapped leaves exactly its own text in the
\* file, whatever was there before (a longer text, half a text of a process
\* that was killed, a mixture of two), until the next save starts: a file that
\* does not load is repaired by the next undisturbed save.
CleanSaveIsStored ==
    clean # 0 => file.text = Text(clean)

-----------------------------------------------------------------------------
(* What a caller of load() takes for granted and the code does not keep.    *)

\* src/storage.mjs:39, :51, :57: `current' is what load() returned, a store that
\* was saved.  Saves that overlap write a mixture into the file.
LoadsWereSaved ==
    loaded.text = <<>> \/ \E v \in DOMAIN texts : Contents(loaded.text) = texts[v]

=============================================================================
