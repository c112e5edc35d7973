---------------------------- MODULE AdapterProofs ---------------------------
(***************************************************************************)
(* What the package keeps with others: a file, a database, a token.  A     *)
(* load of the JSON file returns recent pieces and, if they are of one     *)
(* save, all of it, or throws, for any number of callers, saves, texts and *)
(* whatever mixtures are JSON.  The PostgreSQL adapter implements          *)
(* UserStores for any number of users, savers and connections, if no       *)
(* memory id belongs to two users.  A cached token has not expired when it *)
(* is used, unless its answer took longer or stated less than the margin   *)
(* makes up for, for any number of callers, lifetimes and latencies.       *)
(***************************************************************************)
EXTENDS JsonFile, PostgresAdapter, TokenCache, FiniteSetTheorems, TLAPS

-----------------------------------------------------------------------------
(* The JSON file.  The argument follows the version of each piece: what is *)
(* in the file is current or is being written, because a save empties the  *)
(* file when it starts and makes old only what was current by then; and an *)
(* open load may return all that is current or being written.  That pieces *)
(* are in their places makes a text of one save that parses a whole one.   *)

Loads == {c \in Caller : call[c].op = "load"}

\* A save that is open is not current yet, and no two write the same version.
SavesAreApart ==
    /\ \A c \in Saves : call[c].version \notin current
    /\ \A c, d \in Saves : call[c].version = call[d].version => c = d
    /\ ~file.exists => 0 \in current /\ Saves = {}

\* The pieces of the file; what a save replaces is not among them.
FileIsLive ==
    /\ \A i \in 1..Len(file.text) : file.text[i].version \in current \cup InFlight \cup {0}
    /\ \A c \in Saves :
          /\ call[c].before \cap InFlight = {} /\ call[c].before \subseteq 0..Len(texts)
          /\ \A i \in 1..Len(file.text) :
                file.text[i].version \in call[c].before => file.text[i].version = 0

LoadsAreCovered ==
    \A c \in Loads :
        /\ current \cup InFlight \subseteq call[c].may
        /\ \A i \in 1..Len(call[c].got) : call[c].got[i].version \in call[c].may \cup {0}

\* A piece is where it belongs in the text of its version.
InPlace(p, i) ==
    p = Hole \/ (p.version \in DOMAIN texts /\ p.at = i /\ i <= Len(texts[p.version]))

PiecesInPlace ==
    /\ \A i \in 1..Len(file.text) : InPlace(file.text[i], i)
    /\ \A c \in Loads : \A i \in 1..Len(call[c].got) : InPlace(call[c].got[i], i)

FileInvariant ==
    /\ FileTypeOK /\ SavesAreApart /\ FileIsLive /\ LoadsAreCovered
    /\ PiecesInPlace /\ LoadsAreRecent

-----------------------------------------------------------------------------

\* The values a call may have are told apart by their operation.
LEMMA Calls ==
    ASSUME FileTypeOK, NEW c \in Caller
    PROVE  /\ call[c].op = "load" <=> call[c] \in LoadCall
           /\ call[c].op = "save" <=> call[c] \in SaveCall
           /\ call[c] \notin LoadCall \cup SaveCall => call[c] = Idle
  BY DEF FileTypeOK, LoadCall, SaveCall, Idle

\* The first file satisfies it.
LEMMA FileInitially == FileInit => FileInvariant
  <1> SUFFICES ASSUME FileInit PROVE FileInvariant
    OBVIOUS
  <1>1. Saves = {} /\ Loads = {}
    BY DEF FileInit, Saves, Loads, Idle
  <1>2. FileTypeOK
    BY <1>1, JsonFileAssumption DEF FileInit, FileTypeOK, Missing, Pieces, Version, Nothing
  <1>3. LoadsAreRecent /\ PiecesInPlace
    BY <1>1 DEF FileInit, LoadsAreRecent, PiecesInPlace, Missing, Nothing
  <1>4. QED
    BY <1>1, <1>2, <1>3 DEF FileInit, FileInvariant, SavesAreApart, FileIsLive, LoadsAreCovered,
                            Missing, InFlight

\* Texts are sequences of contents with at least one piece.
LEMMA TextsAreSequences ==
    ASSUME FileTypeOK
    PROVE  /\ texts \in Seq(StoreText) /\ Len(texts) \in Nat
           /\ \A v \in DOMAIN texts : /\ texts[v] \in StoreText /\ texts[v] \in JsonText
                                     /\ texts[v] \in Seq(Chunk) /\ Len(texts[v]) \in Nat
  <1>1. texts \in Seq(StoreText)
    BY DEF FileTypeOK
  <1>2. \A v \in DOMAIN texts : texts[v] \in StoreText
    BY <1>1
  <1>3. StoreText \subseteq JsonText /\ JsonText \subseteq Seq(Chunk)
    BY JsonFileAssumption
  <1>4. QED
    BY <1>1, <1>2, <1>3

\* No load has just ended, and then there is nothing to show.
LEMMA NothingIsRecent ==
    ASSUME loaded' = Nothing
    PROVE  LoadsAreRecent' /\ loaded' \in [text : Pieces, may : SUBSET (Version \cup {0})]
  <1>1. loaded'.text = <<>> /\ loaded'.may = {0} /\ DOMAIN loaded'.text = {}
    BY DEF Nothing
  <1>2. loaded' \in [text : Pieces, may : SUBSET (Version \cup {0})]
    BY DEF Nothing, Pieces
  <1>3. QED
    BY <1>1, <1>2 DEF LoadsAreRecent

\* What parses has no holes, and what one save wrote of it is the whole.
LEMMA ParsedIsWhole ==
    ASSUME FileTypeOK, NEW got \in Pieces, Parses(got),
           \A i \in 1..Len(got) : InPlace(got[i], i)
    PROVE  /\ got # <<>> /\ DOMAIN got = 1..Len(got)
           /\ \A i \in 1..Len(got) : got[i] # Hole /\ got[i].version \in Version
           /\ \A v : (\A i \in 1..Len(got) : got[i].version = v) => got = Text(v)
  <1> DEFINE read == Contents(got)
  <1>1. got \in Seq(Piece \cup {Hole}) /\ Len(got) \in Nat /\ DOMAIN got = 1..Len(got)
    BY DEF Pieces
  <1>2. read = [i \in 1..Len(got) |-> IF got[i] = Hole THEN NoChunk
                                      ELSE texts[got[i].version][got[i].at]]
    BY DEF Contents
  <1>3. read \in JsonText /\ read \in Seq(Chunk) /\ read # <<>> /\ NoChunk \notin Chunk
    BY JsonFileAssumption DEF Parses
  <1>4. Len(read) = Len(got) /\ DOMAIN read = 1..Len(got)
    BY <1>1, <1>2, <1>3
  <1>5. got # <<>>
    BY <1>1, <1>3, <1>4
  <1>6. ASSUME NEW i \in 1..Len(got) PROVE got[i] # Hole
    <2>1. read[i] \in Chunk
      BY <1>3, <1>4
    <2>2. QED
      BY <1>2, <1>3, <2>1
  <1>7. ASSUME NEW i \in 1..Len(got) PROVE got[i].version \in Version
    <2>1. got[i] \in Piece
      BY <1>1, <1>6
    <2>2. QED
      BY <2>1 DEF Piece
  <1>8. ASSUME NEW v, \A i \in 1..Len(got) : got[i].version = v PROVE got = Text(v)
    <2>1. \A i \in 1..Len(got) : v \in DOMAIN texts /\ got[i].at = i /\ i <= Len(texts[v])
      BY <1>6, <1>8 DEF InPlace
    <2>2. Len(got) \in 1..Len(got)
      BY <1>1, <1>5
    <2>3. v \in DOMAIN texts /\ Len(got) <= Len(texts[v])
      BY <2>1, <2>2
    <2>4. texts[v] \in JsonText /\ Len(texts[v]) \in Nat
      BY <2>3, TextsAreSequences
    <2>5. \A i \in 1..Len(read) : read[i] = texts[v][i]
      BY <1>2, <1>4, <1>6, <1>8, <2>1
    <2>6. read = texts[v]
      BY <1>3, <1>4, <2>3, <2>4, <2>5, JsonFileAssumption
    <2>7. Len(texts[v]) = Len(got)
      BY <1>4, <2>6
    <2>8. \A i \in 1..Len(got) : got[i] = [version |-> v, at |-> i]
      <3> SUFFICES ASSUME NEW i \in 1..Len(got) PROVE got[i] = [version |-> v, at |-> i]
        OBVIOUS
      <3>1. got[i] \in Piece
        BY <1>1, <1>6
      <3>2. QED
        BY <1>8, <2>1, <3>1 DEF Piece
    <2>9. QED
      BY <1>1, <2>7, <2>8 DEF Text
  <1>9. QED
    BY <1>1, <1>5, <1>6, <1>7, <1>8

\* Pieces stay where they are while the file, the texts and the loads do.
LEMMA PlacesKept ==
    ASSUME PiecesInPlace, UNCHANGED <<file, texts>>,
           \A d \in Loads' : d \in Loads /\ call'[d] = call[d]
    PROVE  PiecesInPlace'
  <1>1. \A p, i : InPlace(p, i) => InPlace(p, i)'
    BY DEF InPlace
  <1>2. QED
    BY <1>1 DEF PiecesInPlace

\* Only versions that were started are current or being written.
LEMMA Started ==
    ASSUME FileTypeOK PROVE current \cup InFlight \subseteq Version \cup {0}
  <1>1. Len(texts) \in Nat /\ Len(texts) <= MaxSaves /\ MaxSaves \in Nat
    BY JsonFileAssumption DEF FileTypeOK
  <1>2. current \subseteq Version \cup {0}
    BY <1>1 DEF FileTypeOK, Version
  <1>3. \A c \in Saves : call[c].version \in Version
    BY Calls DEF Saves, SaveCall
  <1>4. QED
    BY <1>2, <1>3 DEF InFlight

-----------------------------------------------------------------------------
(* Loads.                                                                  *)

\* A load that starts may return what is current or in flight.
LEMMA StartLoadPreserves ==
    ASSUME FileInvariant, NEW c \in Caller, StartLoad(c) PROVE FileInvariant'
  <1> USE DEF FileInvariant
  <1>1. current \cup InFlight \subseteq Version \cup {0}
    BY Started
  <1>2. call'[c] \in LoadCall /\ call'[c].op = "load" /\ call'[c].got = <<>>
        /\ call'[c].may = current \cup InFlight
    BY <1>1 DEF StartLoad, Loading, LoadCall, Pieces, FileTypeOK
  <1>3. \A d \in Caller : d # c => call'[d] = call[d]
    BY DEF StartLoad, FileTypeOK
  <1>4. Saves' = Saves /\ \A d \in Saves : call'[d] = call[d]
    BY <1>2, <1>3 DEF Saves, StartLoad, Idle
  <1>5. InFlight' = InFlight
    BY <1>4 DEF InFlight
  <1>6. FileTypeOK'
    BY <1>2, <1>3, <1>4, NothingIsRecent DEF FileTypeOK, StartLoad
  <1> UNCHANGED <<file, texts, current>>
    BY DEF StartLoad
  <1>7. SavesAreApart' /\ FileIsLive'
    BY <1>4, <1>5 DEF SavesAreApart, FileIsLive
  <1>8. LoadsAreCovered'
    <2>1. Loads' = Loads \cup {c} /\ \A d \in Loads' : d # c => d \in Loads
      BY <1>2, <1>3 DEF Loads
    <2>2. \A i \in 1..Len(call'[c].got) : FALSE
      BY <1>2
    <2>3. QED
      BY <1>2, <1>3, <1>5, <2>1, <2>2 DEF LoadsAreCovered, Loads
  <1>9. PiecesInPlace'
    <2>1. \A p, i : InPlace(p, i) => InPlace(p, i)'
      BY DEF InPlace
    <2>2. \A i \in 1..Len(call'[c].got) : FALSE
      BY <1>2
    <2>3. QED
      BY <1>3, <2>1, <2>2 DEF PiecesInPlace, Loads
  <1>10. QED
    BY <1>6, <1>7, <1>8, <1>9, NothingIsRecent DEF StartLoad

\* A load that finds no file returns the empty store.
LEMMA LoadMissingPreserves ==
    ASSUME FileInvariant, NEW c \in Caller, LoadMissing(c) PROVE FileInvariant'
  <1> USE DEF FileInvariant
  <1>1. current \cup InFlight \subseteq Version \cup {0}
    BY Started
  <1>2. 0 \in current
    BY DEF SavesAreApart, LoadMissing
  <1>3. UNCHANGED <<Saves, InFlight, Loads>>
    BY DEF LoadMissing, Saves, InFlight, Loads
  <1>4. FileTypeOK'
    BY <1>1, <1>2, <1>3 DEF FileTypeOK, LoadMissing, Pieces
  <1>5. SavesAreApart' /\ FileIsLive' /\ LoadsAreCovered'
    BY <1>3 DEF SavesAreApart, FileIsLive, LoadsAreCovered, LoadMissing
  <1>6. PiecesInPlace'
    BY <1>3, PlacesKept DEF LoadMissing
  <1>7. LoadsAreRecent'
    <2>1. loaded'.text = <<>> /\ 0 \in loaded'.may /\ DOMAIN loaded'.text = {}
      BY <1>2 DEF LoadMissing
    <2>2. QED
      BY <2>1 DEF LoadsAreRecent
  <1>8. QED
    BY <1>4, <1>5, <1>6, <1>7

\* One more piece of the file is read.
LEMMA ReadPiecePreserves ==
    ASSUME FileInvariant, NEW c \in Caller, ReadPiece(c) PROVE FileInvariant'
  <1> USE DEF FileInvariant
  <1> DEFINE k == Len(call[c].got) + 1
  <1>1. call[c] \in LoadCall /\ c \in Loads
    BY Calls DEF ReadPiece, Loads
  <1>2. call[c].got \in Pieces /\ k \in 1..Len(file.text) /\ file.text[k] \in Piece \cup {Hole}
    BY <1>1 DEF LoadCall, Pieces, ReadPiece, FileTypeOK
  <1>3. call'[c] = [call[c] EXCEPT !.got = Append(@, file.text[k])]
    BY DEF ReadPiece, FileTypeOK
  <1>4. Append(call[c].got, file.text[k]) \in Pieces
    BY <1>2 DEF Pieces
  <1>5. call'[c] \in LoadCall /\ call'[c].op = "load" /\ call'[c].may = call[c].may
        /\ call'[c].got = Append(call[c].got, file.text[k])
    BY <1>1, <1>3, <1>4 DEF LoadCall
  <1>6. \A d \in Caller : d # c => call'[d] = call[d]
    BY DEF ReadPiece, FileTypeOK
  <1>7. Saves' = Saves /\ \A d \in Saves : call'[d] = call[d]
    BY <1>5, <1>6 DEF Saves, ReadPiece
  <1>8. InFlight' = InFlight
    BY <1>7 DEF InFlight
  <1>9. FileTypeOK'
    BY <1>5, <1>6, <1>7, NothingIsRecent DEF FileTypeOK, ReadPiece
  <1>10. SavesAreApart' /\ FileIsLive'
    BY <1>7, <1>8 DEF SavesAreApart, FileIsLive, ReadPiece
  <1>11. \A i \in 1..Len(call'[c].got) : call'[c].got[i].version \in call'[c].may \cup {0}
    <2>1. file.text[k].version \in call[c].may \cup {0}
      BY <1>1, <1>2 DEF FileIsLive, LoadsAreCovered
    <2>2. \A i \in 1..Len(call[c].got) : call[c].got[i].version \in call[c].may \cup {0}
      BY <1>1 DEF LoadsAreCovered
    <2>3. QED
      BY <1>2, <1>5, <2>1, <2>2 DEF Pieces
  <1>12. LoadsAreCovered'
    BY <1>1, <1>5, <1>6, <1>8, <1>11 DEF LoadsAreCovered, Loads, ReadPiece
  <1>13. PiecesInPlace'
    <2>1. \A p, i : InPlace(p, i) => InPlace(p, i)'
      BY DEF InPlace, ReadPiece
    <2>2. InPlace(file.text[k], k) /\ \A i \in 1..Len(call[c].got) : InPlace(call[c].got[i], i)
      BY <1>1, <1>2 DEF PiecesInPlace
    <2>3. \A i \in 1..Len(call'[c].got) : InPlace(call'[c].got[i], i)
      BY <1>2, <1>5, <2>2 DEF Pieces
    <2>4. \A d \in Loads' : d # c => d \in Loads /\ call'[d] = call[d]
      BY <1>6 DEF Loads
    <2>5. file' = file
      BY DEF ReadPiece
    <2>6. QED
      BY <2>1, <2>3, <2>4, <2>5 DEF PiecesInPlace
  <1>14. QED
    BY <1>9, <1>10, <1>12, <1>13, NothingIsRecent DEF ReadPiece

\* A load ends: what it has read is parsed, or it throws.
LEMMA EndLoadPreserves ==
    ASSUME FileInvariant, NEW c \in Caller, EndLoad(c) PROVE FileInvariant'
  <1> USE DEF FileInvariant
  <1>1. call[c] \in LoadCall /\ c \in Loads
    BY Calls DEF EndLoad, AtEnd, Loads
  <1>2. call[c].got \in Pieces /\ call[c].may \in SUBSET (Version \cup {0})
    BY <1>1 DEF LoadCall
  <1>3. call'[c] = Idle /\ \A d \in Caller : d # c => call'[d] = call[d]
    BY DEF EndLoad, FileTypeOK
  <1>4. Saves' = Saves /\ \A d \in Saves : call'[d] = call[d]
    BY <1>1, <1>3 DEF Saves, Idle, LoadCall
  <1>5. InFlight' = InFlight
    BY <1>4 DEF InFlight
  <1>6. loaded' \in [text : Pieces, may : SUBSET (Version \cup {0})] /\ LoadsAreRecent'
    <2>1. CASE Parses(call[c].got)
      <3> DEFINE got == call[c].got
      <3>1. loaded' = [text |-> got, may |-> call[c].may]
        BY <2>1 DEF EndLoad
      <3>2. \A i \in 1..Len(got) : InPlace(got[i], i)
        BY <1>1 DEF PiecesInPlace
      <3>3. /\ got # <<>> /\ DOMAIN got = 1..Len(got)
            /\ \A i \in 1..Len(got) : got[i].version \in Version
            /\ \A v : (\A i \in 1..Len(got) : got[i].version = v) => got = Text(v)
        BY <1>2, <2>1, <3>2, ParsedIsWhole
      <3>4. \A i \in 1..Len(got) : got[i].version \in call[c].may \cup {0}
        BY <1>1 DEF LoadsAreCovered
      <3>5. 0 \notin Version
        BY DEF Version
      <3>6. \A i \in DOMAIN got : got[i].version \in call[c].may
        BY <3>3, <3>4, <3>5
      <3>7. \A v : Text(v)' = Text(v)
        BY DEF EndLoad, Text
      <3>8. QED
        BY <1>2, <3>1, <3>3, <3>6, <3>7 DEF LoadsAreRecent
    <2>2. CASE ~Parses(call[c].got)
      <3>1. loaded' = Nothing
        BY <2>2 DEF EndLoad
      <3>2. QED
        BY <3>1, NothingIsRecent
    <2>3. QED
      BY <2>1, <2>2
  <1>7. FileTypeOK'
    BY <1>3, <1>4, <1>6 DEF FileTypeOK, EndLoad
  <1>8. SavesAreApart' /\ FileIsLive'
    BY <1>4, <1>5 DEF SavesAreApart, FileIsLive, EndLoad
  <1>9. LoadsAreCovered'
    BY <1>3, <1>5 DEF LoadsAreCovered, Loads, EndLoad, Idle
  <1>10. PiecesInPlace'
    <2>1. \A d \in Loads' : d \in Loads /\ call'[d] = call[d]
      BY <1>3 DEF Loads, Idle
    <2>2. QED
      BY <2>1, PlacesKept DEF EndLoad
  <1>11. QED
    BY <1>6, <1>7, <1>8, <1>9, <1>10

-----------------------------------------------------------------------------
(* Saves.                                                                  *)

\* The new version is none that is current, being written or replaced.
LEMMA StartSavePreserves ==
    ASSUME FileInvariant, NEW c \in Caller, StartSave(c) PROVE FileInvariant'
  <1> USE DEF FileInvariant
  <1> DEFINE new == Len(texts) + 1
  <1>1. PICK text \in StoreText : texts' = Append(texts, text)
    BY DEF StartSave
  <1>2. /\ texts' \in Seq(StoreText) /\ Len(texts) \in Nat /\ Len(texts') = new
        /\ new \in Version /\ Len(texts') <= MaxSaves
        /\ \A v \in 1..Len(texts) : texts'[v] = texts[v]
    BY <1>1, JsonFileAssumption DEF FileTypeOK, StartSave, Version
  <1>3. /\ file' = [exists |-> TRUE, text |-> <<>>] /\ current' = current
        /\ clean' = 0 /\ loaded' = Nothing
        /\ call' = Joined(c, new)
    BY DEF StartSave
  <1>4. /\ call'[c] = Saving(new, 0, current, Saves = {})
        /\ call'[c] \in SaveCall /\ call'[c].op = "save" /\ call'[c].version = new
        /\ call'[c].written = 0 /\ call'[c].before = current
    <2>1. call'[c] = Saving(new, 0, current, Saves = {})
      BY <1>3 DEF Joined
    <2>2. current \in SUBSET (Version \cup {0}) /\ (Saves = {}) \in BOOLEAN
      BY Started
    <2>3. QED
      BY <1>2, <2>1, <2>2 DEF Saving, SaveCall
  <1>5. ASSUME NEW d \in Saves
        PROVE  /\ d # c /\ call'[d] \in SaveCall /\ call'[d].op = "save"
               /\ call'[d].version = call[d].version /\ call'[d].written = call[d].written
               /\ call'[d].before = call[d].before
    <2>1. d \in Caller /\ d # c /\ call[d] \in SaveCall /\ call[d].op = "save"
      BY Calls DEF Saves, StartSave, Idle
    <2>2. call'[d] = [call[d] EXCEPT !.alone = FALSE]
      BY <1>3, <2>1 DEF Joined
    <2>3. QED
      BY <2>1, <2>2 DEF SaveCall
  <1>6. ASSUME NEW d \in Loads
        PROVE  /\ d # c /\ call'[d] \in LoadCall /\ call'[d].op = "load"
               /\ call'[d].got = call[d].got /\ call'[d].may = call[d].may \cup {new}
    <2>1. d \in Caller /\ d # c /\ call[d] \in LoadCall /\ call[d].op = "load"
      BY Calls DEF Loads, StartSave, Idle
    <2>2. call'[d] = [call[d] EXCEPT !.may = @ \cup {new}]
      BY <1>3, <2>1 DEF Joined
    <2>3. QED
      BY <1>2, <2>1, <2>2 DEF LoadCall
  <1>7. \A d \in Caller \ (Saves \cup Loads \cup {c}) : call'[d] = Idle
    BY <1>3 DEF Joined, Saves, Loads
  <1>8. Saves' = Saves \cup {c} /\ Loads' = Loads
    BY <1>4, <1>5, <1>6, <1>7 DEF Saves, Loads, Idle
  <1>9. InFlight' = InFlight \cup {new}
    BY <1>4, <1>5, <1>8 DEF InFlight
  <1>10. ASSUME NEW v \in current \cup InFlight PROVE v # new
    BY <1>2 DEF FileTypeOK, InFlight
  <1>11. FileTypeOK'
    <2>1. call' \in [Caller -> {Idle} \cup LoadCall \cup SaveCall]
      BY <1>3, <1>4, <1>5, <1>6, <1>7 DEF Joined
    <2>2. \A d \in Saves' : /\ call'[d].version \in DOMAIN texts'
                            /\ call'[d].written <= Len(texts'[call'[d].version])
      <3>1. Len(text) \in Nat
        BY JsonFileAssumption
      <3>2. texts'[new] = text
        BY <1>1 DEF FileTypeOK
      <3>3. call'[c].version \in DOMAIN texts' /\ call'[c].written <= Len(texts'[call'[c].version])
        BY <1>2, <1>4, <3>1, <3>2
      <3>4. ASSUME NEW d \in Saves
            PROVE  /\ call'[d].version \in DOMAIN texts'
                   /\ call'[d].written <= Len(texts'[call'[d].version])
        BY <1>2, <1>5 DEF FileTypeOK
      <3>5. QED
        BY <1>8, <3>3, <3>4
    <2>3. loaded' \in [text : Pieces, may : SUBSET (Version \cup {0})]
      BY <1>3, NothingIsRecent
    <2>4. current' \in SUBSET (0..Len(texts')) /\ current' # {} /\ clean' \in 0..Len(texts')
      BY <1>2, <1>3 DEF FileTypeOK
    <2>5. file' \in [exists : BOOLEAN, text : Pieces] /\ file'.exists
      BY <1>3 DEF Pieces
    <2>6. QED
      BY <1>2, <2>1, <2>2, <2>3, <2>4, <2>5 DEF FileTypeOK
  <1>12. SavesAreApart'
    <2>1. ASSUME NEW d \in Saves PROVE call[d].version \in InFlight
      BY DEF InFlight
    <2>2. QED
      BY <1>3, <1>4, <1>5, <1>8, <1>10, <2>1 DEF SavesAreApart
  <1>13. FileIsLive'
    <2>1. Len(file'.text) = 0
      BY <1>3
    <2>2. current \cap InFlight' = {} /\ current \subseteq 0..Len(texts')
      <3>1. current \cap InFlight = {}
        BY DEF SavesAreApart, InFlight
      <3>2. new \notin current
        BY <1>10
      <3>3. current \subseteq 0..Len(texts)
        BY DEF FileTypeOK
      <3>4. QED
        BY <1>2, <1>9, <3>1, <3>2, <3>3
    <2>3. ASSUME NEW d \in Saves
          PROVE  call[d].before \cap InFlight' = {} /\ call[d].before \subseteq 0..Len(texts')
      <3>1. call[d].before \subseteq 0..Len(texts) /\ call[d].before \cap InFlight = {}
        BY DEF FileIsLive
      <3>2. new \notin call[d].before
        BY <1>2, <3>1
      <3>3. QED
        BY <1>2, <1>9, <3>1, <3>2
    <2>4. ASSUME NEW d \in Saves'
          PROVE  call'[d].before \cap InFlight' = {} /\ call'[d].before \subseteq 0..Len(texts')
      <3>1. CASE d = c
        BY <1>4, <2>2, <3>1
      <3>2. CASE d \in Saves
        BY <1>5, <2>3, <3>2
      <3>3. QED
        BY <1>8, <3>1, <3>2
    <2>5. 1..Len(file'.text) = {}
      BY <2>1
    <2>6. QED
      BY <2>4, <2>5 DEF FileIsLive
  <1>14. LoadsAreCovered'
    BY <1>3, <1>6, <1>8, <1>9 DEF LoadsAreCovered
  <1>15. PiecesInPlace'
    <2>1. \A p, i : InPlace(p, i) => InPlace(p, i)'
      BY <1>2 DEF InPlace
    <2>2. 1..Len(file'.text) = {}
      BY <1>3
    <2>3. QED
      BY <1>6, <1>8, <2>1, <2>2 DEF PiecesInPlace
  <1>16. QED
    BY <1>3, <1>11, <1>12, <1>13, <1>14, <1>15, NothingIsRecent

\* What is written is a piece of a version in flight, or leaves a hole.
LEMMA WritePiecePreserves ==
    ASSUME FileInvariant, NEW c \in Caller, WritePiece(c) PROVE FileInvariant'
  <1> USE DEF FileInvariant
  <1> DEFINE v == call[c].version
             pos == call[c].written + 1
             piece == [version |-> v, at |-> pos]
             text == file.text
  <1>1. call[c] \in SaveCall /\ c \in Saves
    BY Calls DEF WritePiece, Saves
  <1>2. pos \in Nat /\ pos >= 1 /\ v \in Version /\ piece \in Piece /\ v \in InFlight
    BY <1>1 DEF SaveCall, Piece, InFlight
  <1>3. text \in Pieces /\ Len(text) \in Nat
    BY DEF FileTypeOK, Pieces
  <1>4. /\ UNCHANGED <<texts, current, clean>> /\ loaded' = Nothing
        /\ file' = [file EXCEPT !.text = Written(@, pos, piece)]
        /\ call' = [call EXCEPT ![c].written = @ + 1]
    BY DEF WritePiece
  <1>5. file'.text = Written(text, pos, piece) /\ file'.exists = file.exists
        /\ file' = [exists |-> file.exists, text |-> Written(text, pos, piece)]
    BY <1>4 DEF FileTypeOK
  <1>6. /\ Written(text, pos, piece) \in Pieces
        /\ \A i \in 1..Len(Written(text, pos, piece)) :
               LET p == Written(text, pos, piece)[i]
               IN p = piece \/ p = Hole \/ (i \in 1..Len(text) /\ p = text[i])
    <2> DEFINE n == IF pos > Len(text) THEN pos ELSE Len(text)
               w == Written(text, pos, piece)
    <2>1. n \in Nat /\ w = [i \in 1..n |-> IF i = pos THEN piece
                                           ELSE IF i <= Len(text) THEN text[i] ELSE Hole]
      BY <1>2, <1>3 DEF Written
    <2>2. \A i \in 1..n : \/ w[i] = piece \/ w[i] = Hole
                          \/ i \in 1..Len(text) /\ w[i] = text[i]
      BY <1>3, <2>1
    <2>3. \A i \in 1..n : w[i] \in Piece \cup {Hole}
      BY <1>2, <1>3, <2>2 DEF Pieces
    <2>4. w \in Seq(Piece \cup {Hole}) /\ Len(w) = n
      BY <2>1, <2>3
    <2>5. QED
      BY <2>2, <2>4 DEF Pieces
  <1>7. call'[c] = [call[c] EXCEPT !.written = @ + 1]
        /\ \A d \in Caller : d # c => call'[d] = call[d]
    BY <1>4 DEF FileTypeOK
  <1>8. /\ call'[c] \in SaveCall /\ call'[c].op = "save" /\ call'[c].version = v
        /\ call'[c].before = call[c].before /\ call'[c].written = pos
    BY <1>1, <1>2, <1>7 DEF SaveCall
  <1>9. Saves' = Saves /\ Loads' = Loads /\ \A d \in Loads : d # c
    BY <1>1, <1>7, <1>8 DEF Saves, Loads, SaveCall
  <1>10. InFlight' = InFlight
    BY <1>1, <1>7, <1>8, <1>9 DEF InFlight, Saves
  <1>16. v \in DOMAIN texts /\ pos <= Len(texts[v])
    <2>1. v \in DOMAIN texts
      BY <1>1 DEF FileTypeOK
    <2>2. Len(texts[v]) \in Nat
      BY <2>1, TextsAreSequences
    <2>3. QED
      BY <1>1, <2>1, <2>2 DEF WritePiece, SaveCall
  <1>11. FileTypeOK'
    <2>2. file' \in [exists : BOOLEAN, text : Pieces] /\ file'.exists
      BY <1>1, <1>5, <1>6 DEF SavesAreApart, FileTypeOK
    <2>3. \A d \in Saves' : call'[d].version \in DOMAIN texts
                            /\ call'[d].written <= Len(texts[call'[d].version])
      BY <1>1, <1>7, <1>8, <1>9, <1>16 DEF FileTypeOK, Saves
    <2>4. call' \in [Caller -> {Idle} \cup LoadCall \cup SaveCall]
      BY <1>4, <1>7, <1>8 DEF FileTypeOK
    <2>5. QED
      BY <1>4, <2>2, <2>3, <2>4, NothingIsRecent DEF FileTypeOK
  <1>12. SavesAreApart'
    BY <1>1, <1>4, <1>5, <1>7, <1>8, <1>9 DEF SavesAreApart, Saves
  <1>13. FileIsLive'
    <2>1. \A i \in 1..Len(file'.text) :
              file'.text[i].version \in current \cup InFlight \cup {0}
      BY <1>2, <1>5, <1>6 DEF FileIsLive, Hole
    <2>2. ASSUME NEW d \in Saves
          PROVE  \A i \in 1..Len(file'.text) :
                    file'.text[i].version \in call[d].before => file'.text[i].version = 0
      <3>1. v \notin call[d].before
        BY <1>2 DEF FileIsLive
      <3>2. QED
        BY <1>5, <1>6, <3>1 DEF FileIsLive, Hole
    <2>3. \A d \in Saves : call'[d].before = call[d].before
      BY <1>7, <1>8 DEF Saves
    <2>4. QED
      BY <1>4, <1>9, <1>10, <2>1, <2>2, <2>3 DEF FileIsLive
  <1>14. LoadsAreCovered'
    BY <1>4, <1>7, <1>9, <1>10 DEF LoadsAreCovered, Loads
  <1>15. PiecesInPlace'
    <2>1. \A p, i : InPlace(p, i) => InPlace(p, i)'
      BY <1>4 DEF InPlace
    <2>2. InPlace(piece, pos)
      BY <1>16 DEF InPlace
    <2>3. Written(text, pos, piece)[pos] = piece
      BY <1>2, <1>3 DEF Written
    <2>4. \A i \in 1..Len(file'.text) : InPlace(file'.text[i], i)
      <3> SUFFICES ASSUME NEW i \in 1..Len(file'.text) PROVE InPlace(file'.text[i], i)
        OBVIOUS
      <3>1. CASE i = pos
        BY <1>5, <2>2, <2>3, <3>1
      <3>2. CASE i # pos
        <4>1. file'.text[i] = Hole \/ (i \in 1..Len(text) /\ file'.text[i] = text[i])
          BY <1>2, <1>3, <1>5, <1>6, <3>2 DEF Written
        <4>2. QED
          BY <4>1 DEF PiecesInPlace, InPlace
      <3>3. QED
        BY <3>1, <3>2
    <2>5. QED
      BY <1>7, <1>9, <2>1, <2>4 DEF PiecesInPlace, Loads
  <1>17. QED
    BY <1>4, <1>11, <1>12, <1>13, <1>14, <1>15, NothingIsRecent

\* What a save replaces was current before it; what it wrote is current now.
LEMMA EndSavePreserves ==
    ASSUME FileInvariant, NEW c \in Caller, EndSave(c) PROVE FileInvariant'
  <1> USE DEF FileInvariant
  <1> DEFINE v == call[c].version
  <1>1. call[c] \in SaveCall /\ c \in Saves /\ v \in InFlight
    BY Calls DEF EndSave, Saves, InFlight
  <1>2. /\ UNCHANGED <<file, texts>> /\ loaded' = Nothing
        /\ current' = (current \ call[c].before) \cup {v}
        /\ clean' = IF call[c].alone THEN v ELSE clean
    BY DEF EndSave
  <1>3. call'[c] = Idle /\ \A d \in Caller : d # c => call'[d] = call[d]
    BY DEF EndSave, FileTypeOK
  <1>4. Saves' = Saves \ {c} /\ Loads' = Loads /\ \A d \in Loads : d # c
    BY <1>1, <1>3 DEF Saves, Loads, SaveCall, Idle
  <1>5. InFlight' \subseteq InFlight /\ InFlight \subseteq InFlight' \cup {v}
    BY <1>3, <1>4 DEF InFlight, Saves
  <1>6. v \in 1..Len(texts)
    BY <1>1 DEF FileTypeOK
  <1>7. FileTypeOK'
    <2>1. current' \in SUBSET (0..Len(texts')) /\ current' # {} /\ clean' \in 0..Len(texts')
      <3>1. current \in SUBSET (0..Len(texts)) /\ clean \in 0..Len(texts) /\ v \in 0..Len(texts)
        BY <1>6 DEF FileTypeOK
      <3>2. QED
        BY <1>2, <3>1
    <2>2. call' \in [Caller -> {Idle} \cup LoadCall \cup SaveCall]
      BY <1>3 DEF FileTypeOK, EndSave
    <2>3. \A d \in Saves' : call'[d].version \in DOMAIN texts
                            /\ call'[d].written <= Len(texts[call'[d].version])
      BY <1>3, <1>4 DEF FileTypeOK, Saves
    <2>4. QED
      BY <1>2, <2>1, <2>2, <2>3, NothingIsRecent DEF FileTypeOK
  <1>8. SavesAreApart'
    <2>1. file'.exists
      BY <1>1, <1>2 DEF SavesAreApart, FileTypeOK
    <2>2. ASSUME NEW d \in Saves' PROVE call'[d] = call[d] /\ d \in Saves /\ d # c
      BY <1>3, <1>4 DEF Saves
    <2>3. QED
      BY <1>1, <1>2, <2>1, <2>2 DEF SavesAreApart
  <1>9. FileIsLive'
    <2>1. ASSUME NEW i \in 1..Len(file.text)
          PROVE  file.text[i].version \in current' \cup InFlight' \cup {0}
      BY <1>1, <1>2, <1>5 DEF FileIsLive
    <2>2. ASSUME NEW d \in Saves' PROVE call'[d] = call[d] /\ d \in Saves
      BY <1>3, <1>4 DEF Saves
    <2>3. QED
      BY <1>2, <1>5, <2>1, <2>2 DEF FileIsLive
  <1>10. LoadsAreCovered'
    <2>1. current' \cup InFlight' \subseteq current \cup InFlight
      BY <1>1, <1>2, <1>5
    <2>2. ASSUME NEW d \in Loads' PROVE call'[d] = call[d] /\ d \in Loads
      BY <1>3, <1>4 DEF Loads
    <2>3. QED
      BY <2>1, <2>2 DEF LoadsAreCovered
  <1>11. PiecesInPlace'
    <2>1. \A d \in Loads' : d \in Loads /\ call'[d] = call[d]
      BY <1>3, <1>4 DEF Loads
    <2>2. QED
      BY <1>2, <2>1, PlacesKept
  <1>12. QED
    BY <1>2, <1>7, <1>8, <1>9, <1>10, <1>11, NothingIsRecent

\* A save that breaks off may have stored its version, and replaced nothing.
LEMMA BreakOffPreserves ==
    ASSUME FileInvariant, NEW c \in Caller, BreakOff(c) PROVE FileInvariant'
  <1> USE DEF FileInvariant
  <1>1. /\ UNCHANGED <<file, texts, clean>> /\ loaded' = Nothing
        /\ current' = IF c \in Saves THEN current \cup {call[c].version} ELSE current
    BY DEF BreakOff, Saves
  <1>2. call'[c] = Idle /\ \A d \in Caller : d # c => call'[d] = call[d]
    BY DEF BreakOff, FileTypeOK
  <1>3. Saves' = Saves \ {c} /\ Loads' = Loads \ {c}
    BY <1>2 DEF Saves, Loads, Idle
  <1>4. ASSUME NEW d \in Saves' PROVE call'[d] = call[d] /\ d \in Saves /\ d # c
    BY <1>2, <1>3 DEF Saves
  <1>5. /\ InFlight' \subseteq InFlight
        /\ current' \cup InFlight' = current \cup InFlight
    BY <1>1, <1>2, <1>3 DEF InFlight, Saves
  <1>6. FileTypeOK'
    <2>1. c \in Saves => call[c].version \in 0..Len(texts)
      BY DEF FileTypeOK
    <2>2. current' \in SUBSET (0..Len(texts')) /\ current' # {}
      BY <1>1, <2>1 DEF FileTypeOK
    <2>3. call' \in [Caller -> {Idle} \cup LoadCall \cup SaveCall]
      BY <1>2 DEF FileTypeOK, BreakOff
    <2>4. QED
      BY <1>1, <1>4, <2>2, <2>3, NothingIsRecent DEF FileTypeOK
  <1>7. SavesAreApart'
    BY <1>1, <1>3, <1>4 DEF SavesAreApart
  <1>8. FileIsLive'
    BY <1>1, <1>4, <1>5 DEF FileIsLive
  <1>9. LoadsAreCovered'
    <2>1. ASSUME NEW d \in Loads' PROVE call'[d] = call[d] /\ d \in Loads
      BY <1>2, <1>3 DEF Loads
    <2>2. QED
      BY <1>5, <2>1 DEF LoadsAreCovered
  <1>10. PiecesInPlace'
    <2>1. \A d \in Loads' : d \in Loads /\ call'[d] = call[d]
      BY <1>2, <1>3 DEF Loads
    <2>2. QED
      BY <1>1, <2>1, PlacesKept
  <1>11. QED
    BY <1>1, <1>6, <1>7, <1>8, <1>9, <1>10, NothingIsRecent

-----------------------------------------------------------------------------

\* Every step preserves the invariant.
LEMMA FilePreserved == FileInvariant /\ [FileNext]_fileVars => FileInvariant'
  <1> SUFFICES ASSUME FileInvariant, [FileNext]_fileVars PROVE FileInvariant'
    OBVIOUS
  <1>1. CASE UNCHANGED fileVars
    BY <1>1 DEF fileVars, FileInvariant, FileTypeOK, SavesAreApart, FileIsLive, LoadsAreCovered,
                LoadsAreRecent, PiecesInPlace, InPlace, Text, Saves, Loads, InFlight
  <1>2. ASSUME NEW c \in Caller,
               \/ StartLoad(c) \/ LoadMissing(c) \/ StartSave(c)
               \/ Step(c) \/ BreakOff(c)
        PROVE  FileInvariant'
    BY <1>2, StartLoadPreserves, LoadMissingPreserves, StartSavePreserves, ReadPiecePreserves,
       EndLoadPreserves, WritePiecePreserves, EndSavePreserves, BreakOffPreserves DEF Step
  <1>3. QED
    BY <1>1, <1>2 DEF FileNext

\* Whatever is open at a time, and wherever it breaks off, load() throws or
\* returns a store of pieces that were to be had at some moment of the call, and
\* if one save wrote them, the whole store of that save.
THEOREM JsonLoadsAreRecent == FileSpec => []LoadsAreRecent
  <1>1. FileInvariant => LoadsAreRecent
    BY DEF FileInvariant
  <1>2. QED
    BY <1>1, FileInitially, FilePreserved, PTL DEF FileSpec

\* The variables keep their types, for any number of callers and saves.
THEOREM JsonTypeOK == FileSpec => []FileTypeOK
  <1>1. FileInvariant => FileTypeOK
    BY DEF FileInvariant
  <1>2. QED
    BY <1>1, FileInitially, FilePreserved, PTL DEF FileSpec

-----------------------------------------------------------------------------
(* Undisturbed saves.                                                      *)

Prefix(version, n) == [i \in 1..n |-> [version |-> version, at |-> i]]

\* A save that has been alone so far wrote all that there is.
CleanInvariant ==
    /\ \A c \in Saves : call[c].alone =>
           Saves = {c} /\ file.text = Prefix(call[c].version, call[c].written)
    /\ clean # 0 => Saves = {}
    /\ CleanSaveIsStored

\* No save is under way at first.
LEMMA CleanInitially == FileInit => CleanInvariant
  BY DEF FileInit, CleanInvariant, CleanSaveIsStored, Saves, Idle

\* The steps of a load do not touch the file or a save.
LEMMA LoadsKeepClean ==
    ASSUME FileTypeOK, CleanInvariant, NEW c \in Caller,
           StartLoad(c) \/ LoadMissing(c) \/ ReadPiece(c) \/ EndLoad(c)
    PROVE  CleanInvariant'
  <1>1. UNCHANGED <<file, texts, clean>>
    BY DEF StartLoad, LoadMissing, ReadPiece, EndLoad
  <1>2. c \notin Saves /\ \A d \in Caller : d # c => call'[d] = call[d]
    BY DEF StartLoad, LoadMissing, ReadPiece, EndLoad, AtEnd, Saves, Idle, FileTypeOK
  <1>3. call'[c].op # "save"
    <2>1. CASE StartLoad(c)
      BY <2>1 DEF StartLoad, Loading, FileTypeOK
    <2>2. CASE LoadMissing(c)
      BY <2>2 DEF LoadMissing, Idle
    <2>3. CASE ReadPiece(c)
      <3>1. call[c] \in LoadCall
        BY <2>3, Calls DEF ReadPiece
      <3>2. call'[c] = [call[c] EXCEPT !.got = Append(@, file.text[Len(@) + 1])]
        BY <2>3 DEF ReadPiece, FileTypeOK
      <3>3. QED
        BY <3>1, <3>2 DEF LoadCall
    <2>4. CASE EndLoad(c)
      BY <2>4 DEF EndLoad, Idle, FileTypeOK
    <2>5. QED
      BY <2>1, <2>2, <2>3, <2>4
  <1>4. Saves' = Saves /\ \A d \in Saves : call'[d] = call[d]
    BY <1>2, <1>3 DEF Saves
  <1>5. clean # 0 => Text(clean)' = Text(clean)
    BY <1>1 DEF Text
  <1>6. QED
    BY <1>1, <1>4, <1>5 DEF CleanInvariant, CleanSaveIsStored

\* A save starts with an empty file, and the others are not alone any more.
LEMMA StartSaveKeepsClean ==
    ASSUME FileTypeOK, CleanInvariant, NEW c \in Caller, StartSave(c) PROVE CleanInvariant'
  <1>1. file'.text = <<>> /\ clean' = 0 /\ call' = Joined(c, Len(texts) + 1)
    BY DEF StartSave
  <1>2. /\ call'[c].op = "save" /\ call'[c].written = 0 /\ call'[c].alone = (Saves = {})
    BY <1>1 DEF Joined, Saving
  <1>3. ASSUME NEW d \in Saves PROVE d # c /\ call'[d].alone = FALSE
    <2>1. d \in Caller /\ d # c /\ call[d] \in SaveCall /\ call[d].op = "save"
      BY Calls DEF Saves, StartSave, Idle
    <2>2. call'[d] = [call[d] EXCEPT !.alone = FALSE]
      BY <1>1, <2>1 DEF Joined
    <2>3. QED
      BY <2>1, <2>2 DEF SaveCall
  <1>4. ASSUME NEW d \in Saves', d # c PROVE d \in Saves
    <2>1. d \in Caller /\ call'[d].op = "save"
      BY DEF Saves
    <2>2. CASE call[d].op = "load"
      <3>1. call[d] \in LoadCall
        BY <2>1, <2>2, Calls
      <3>2. call'[d] = [call[d] EXCEPT !.may = @ \cup {Len(texts) + 1}]
        BY <1>1, <1>4, <2>1, <2>2 DEF Joined
      <3>3. QED
        BY <2>1, <3>1, <3>2 DEF LoadCall
    <2>3. QED
      BY <1>1, <1>4, <2>1, <2>2 DEF Joined, Saves, Idle
  <1>5. Prefix(call'[c].version, 0) = <<>>
    BY DEF Prefix
  <1>6. QED
    BY <1>1, <1>2, <1>3, <1>4, <1>5 DEF CleanInvariant, CleanSaveIsStored

\* The one that is alone writes behind what it wrote.
LEMMA WritePieceKeepsClean ==
    ASSUME FileTypeOK, CleanInvariant, NEW c \in Caller, WritePiece(c) PROVE CleanInvariant'
  <1> DEFINE v == call[c].version
             n == call[c].written
             piece == [version |-> v, at |-> n + 1]
  <1>1. call[c] \in SaveCall /\ c \in Saves
    BY Calls DEF WritePiece, Saves
  <1>2. n \in Nat
    BY <1>1 DEF SaveCall
  <1>3. /\ clean' = clean /\ file'.text = Written(file.text, n + 1, piece)
        /\ call'[c] = [call[c] EXCEPT !.written = @ + 1]
        /\ \A d \in Caller : d # c => call'[d] = call[d]
    BY DEF WritePiece, FileTypeOK
  <1>4. /\ call'[c].op = "save" /\ call'[c].version = v /\ call'[c].written = n + 1
        /\ call'[c].alone = call[c].alone
    BY <1>1, <1>3 DEF SaveCall
  <1>5. Saves' = Saves
    BY <1>1, <1>3, <1>4 DEF Saves
  <1>6. clean = 0
    BY <1>1 DEF CleanInvariant
  <1>7. ASSUME file.text = Prefix(v, n) PROVE file'.text = Prefix(v, n + 1)
    <2>1. Len(file.text) = n /\ \A i \in 1..n : file.text[i] = [version |-> v, at |-> i]
      BY <1>2, <1>7 DEF Prefix
    <2>2. Written(file.text, n + 1, piece) =
              [i \in 1..(n + 1) |-> IF i = n + 1 THEN piece
                                   ELSE IF i <= n THEN file.text[i] ELSE Hole]
      BY <1>2, <2>1 DEF Written
    <2>3. QED
      BY <1>2, <1>3, <2>1, <2>2 DEF Prefix
  <1>8. QED
    BY <1>1, <1>3, <1>4, <1>5, <1>6, <1>7 DEF CleanInvariant, CleanSaveIsStored, Saves

\* A save that was alone to the end wrote all pieces of its version.
LEMMA EndSaveKeepsClean ==
    ASSUME FileTypeOK, CleanInvariant, NEW c \in Caller, EndSave(c) PROVE CleanInvariant'
  <1>1. call[c] \in SaveCall /\ c \in Saves
    BY Calls DEF EndSave, Saves
  <1>2. /\ UNCHANGED <<file, texts>> /\ call[c].written = Len(texts[call[c].version])
        /\ clean' = IF call[c].alone THEN call[c].version ELSE clean
    BY DEF EndSave
  <1>3. call'[c] = Idle /\ \A d \in Caller : d # c => call'[d] = call[d]
    BY DEF EndSave, FileTypeOK
  <1>4. Saves' = Saves \ {c} /\ \A d \in Saves' : call'[d] = call[d] /\ d \in Saves
    BY <1>3 DEF Saves, Idle
  <1>5. clean = 0
    BY <1>1 DEF CleanInvariant
  <1>6. CASE call[c].alone
    <2>1. Saves' = {} /\ file'.text = Prefix(call[c].version, Len(texts[call[c].version]))
      BY <1>1, <1>2, <1>4, <1>6 DEF CleanInvariant
    <2>2. Text(clean)' = Prefix(call[c].version, Len(texts[call[c].version]))
      BY <1>2, <1>6 DEF Text, Prefix
    <2>3. QED
      BY <2>1, <2>2 DEF CleanInvariant, CleanSaveIsStored
  <1>7. CASE ~call[c].alone
    <2>1. clean' = 0
      BY <1>2, <1>5, <1>7
    <2>2. ASSUME NEW d \in Saves' PROVE ~call'[d].alone
      BY <1>1, <1>4 DEF CleanInvariant
    <2>3. QED
      BY <2>1, <2>2 DEF CleanInvariant, CleanSaveIsStored
  <1>8. QED
    BY <1>6, <1>7

\* A call that breaks off leaves the file and the clean saves as they are.
LEMMA BreakOffKeepsClean ==
    ASSUME FileTypeOK, CleanInvariant, NEW c \in Caller, BreakOff(c) PROVE CleanInvariant'
  <1>1. UNCHANGED <<file, texts, clean>>
    BY DEF BreakOff
  <1>2. call'[c] = Idle /\ \A d \in Caller : d # c => call'[d] = call[d]
    BY DEF BreakOff, FileTypeOK
  <1>3. Saves' = Saves \ {c} /\ \A d \in Saves' : call'[d] = call[d] /\ d \in Saves
    BY <1>2 DEF Saves, Idle
  <1>4. ASSUME NEW d \in Saves', call'[d].alone
        PROVE  Saves' = {d} /\ file'.text = Prefix(call'[d].version, call'[d].written)
    <2>1. call[d].alone /\ d \in Saves /\ call'[d] = call[d]
      BY <1>3, <1>4
    <2>2. Saves = {d} /\ file.text = Prefix(call[d].version, call[d].written)
      BY <2>1 DEF CleanInvariant
    <2>3. QED
      BY <1>1, <1>3, <2>1, <2>2
  <1>5. clean # 0 => Text(clean)' = Text(clean)
    BY <1>1 DEF Text
  <1>6. QED
    BY <1>1, <1>3, <1>4, <1>5 DEF CleanInvariant, CleanSaveIsStored

\* Every step preserves what is known of clean saves.
LEMMA CleanPreserved == FileTypeOK /\ CleanInvariant /\ [FileNext]_fileVars => CleanInvariant'
  <1> SUFFICES ASSUME FileTypeOK, CleanInvariant, [FileNext]_fileVars PROVE CleanInvariant'
    OBVIOUS
  <1>1. CASE UNCHANGED fileVars
    BY <1>1 DEF fileVars, CleanInvariant, CleanSaveIsStored, Saves, Text
  <1>2. ASSUME NEW c \in Caller,
               \/ StartLoad(c) \/ LoadMissing(c) \/ StartSave(c)
               \/ Step(c) \/ BreakOff(c)
        PROVE  CleanInvariant'
    BY <1>2, LoadsKeepClean, StartSaveKeepsClean, WritePieceKeepsClean, EndSaveKeepsClean,
       BreakOffKeepsClean DEF Step
  <1>3. QED
    BY <1>1, <1>2 DEF FileNext

\* A save that no other save overlapped leaves exactly its own text, whatever
\* half a text or mixture it found.
THEOREM JsonCleanSavesAreStored == FileSpec => []CleanSaveIsStored
  <1>1. FileInvariant => FileTypeOK
    BY DEF FileInvariant
  <1>2. CleanInvariant => CleanSaveIsStored
    BY DEF CleanInvariant
  <1>3. QED
    BY <1>1, <1>2, FileInitially, FilePreserved, CleanInitially, CleanPreserved, PTL DEF FileSpec

-----------------------------------------------------------------------------
(* The PostgreSQL adapter.  Every step of a save is a step of UserStores   *)
(* or a stutter.                                                           *)

\* Ids are unique for all users, as the primary key of the table wants them.
OwnIdsApart == \A u, v \in User : u # v => OwnId[u] \cap OwnId[v] = {}

-----------------------------------------------------------------------------
(* The invariant.                                                          *)

InTransaction(p) == phase[p] \in {"deleting", "upserting"}

SavedRow(p, id) == [user |-> UserOf[p], content |-> saving[p][id]]

\* What is written is locked, and only a transaction holds locks.
Locked(p) ==
    \A id \in MemoryId :
        /\ writes[p][id] # Untouched => lock[id] = p
        /\ lock[id] = p => InTransaction(p)

\* A save deletes rows of its own user that are not in its store, and writes
\* the rows of its store as they are there.
WritesOwn(p) ==
    \A id \in MemoryId :
        /\ writes[p][id] = NoRow => OwnRow(p, id) /\ id \notin DOMAIN saving[p]
        /\ writes[p][id] \in Row =>
               /\ phase[p] = "upserting" /\ id \in DOMAIN saving[p]
               /\ writes[p][id] = SavedRow(p, id)

\* A row of the user that is not in the store is deleted, or still to be
\* deleted, or was committed by another save of the user meanwhile.
Reached(p) ==
    \A id \in MemoryId :
        InTransaction(p) /\ OwnRow(p, id) /\ id \notin DOMAIN saving[p] =>
            \/ phase[p] = "deleting" /\ id \in todo[p]
            \/ writes[p][id] = NoRow
            \/ id \in arrived[p]

\* What is to be deleted is not in the store; later a row of the store is
\* written or still to be written.
ToWrite(p) ==
    /\ phase[p] = "deleting" => \A id \in DOMAIN saving[p] : id \notin todo[p]
    /\ phase[p] = "upserting" =>
           /\ todo[p] \subseteq DOMAIN saving[p]
           /\ \A id \in DOMAIN saving[p] : id \in todo[p] \/ writes[p][id] = SavedRow(p, id)

SaveInvariant(p) == Locked(p) /\ WritesOwn(p) /\ Reached(p) /\ ToWrite(p)

OwnTable == \A id \in MemoryId : table[id] # NoRow => id \in OwnId[table[id].user]

\* (TypeOK says of every saver that it saves a store of its user.)
SavingTyped == saving = [p \in Saver |-> saving[p]]

\* Every connection is in the pool or has a transaction on it.
Open == {p \in Saver : InTransaction(p)}

Pooled == IsFiniteSet(Open) /\ free + Cardinality(Open) = PoolSize

AdapterInvariant ==
    /\ TypeOK /\ SavingTyped /\ Pooled /\ OwnTable
    /\ \A p \in Saver : SaveInvariant(p)

-----------------------------------------------------------------------------
(* Lemmas.                                                                 *)

\* A store is a function from ids of its user.
LEMMA StoreType ==
    ASSUME NEW u \in User, NEW store \in StoresOf(u)
    PROVE  /\ DOMAIN store \subseteq OwnId[u] /\ DOMAIN store \subseteq MemoryId
           /\ \A id \in DOMAIN store : store[id] \in Content
<1>1. PICK ids \in SUBSET OwnId[u] : store \in [ids -> Content]
    BY DEF StoresOf
<1>2. OwnId[u] \subseteq MemoryId
    BY SaverAssumption
<1>3. QED
    BY <1>1, <1>2

\* A save writes rows of its user, with ids of its user.
LEMMA SavingType ==
    ASSUME TypeOK, NEW p \in Saver
    PROVE  /\ UserOf[p] \in User
           /\ DOMAIN saving[p] \subseteq OwnId[UserOf[p]] /\ DOMAIN saving[p] \subseteq MemoryId
           /\ \A id \in DOMAIN saving[p] : SavedRow(p, id) \in Row
<1>1. UserOf[p] \in User /\ saving[p] \in StoresOf(UserOf[p])
    BY SaverAssumption DEF TypeOK
<1>2. QED
    BY <1>1, StoreType DEF SavedRow, Row

\* A step of one save that leaves the table alone keeps what is known of another.
LEMMA OthersKept ==
    ASSUME NEW p \in Saver, SaveInvariant(p), UNCHANGED table,
           phase'[p] = phase[p], saving'[p] = saving[p], todo'[p] = todo[p],
           writes'[p] = writes[p], arrived'[p] = arrived[p],
           \A id \in MemoryId : lock'[id] = p <=> lock[id] = p
    PROVE  SaveInvariant(p)'
<1>1. Locked(p)'
    BY DEF SaveInvariant, Locked, InTransaction
<1>2. WritesOwn(p)'
    BY DEF SaveInvariant, WritesOwn, OwnRow, SavedRow
<1>3. Reached(p)'
    BY DEF SaveInvariant, Reached, OwnRow, InTransaction
<1>4. ToWrite(p)'
    BY DEF SaveInvariant, ToWrite, SavedRow
<1>5. QED
    BY <1>1, <1>2, <1>3, <1>4 DEF SaveInvariant

\* The invariant after a step of one save that leaves the table alone.
LEMMA StepOfOne ==
    ASSUME AdapterInvariant, TypeOK', SavingTyped', Pooled', UNCHANGED table,
           NEW p \in Saver, SaveInvariant(p)',
           \A q \in Saver : q # p =>
               /\ phase'[q] = phase[q] /\ saving'[q] = saving[q] /\ todo'[q] = todo[q]
               /\ writes'[q] = writes[q] /\ arrived'[q] = arrived[q]
               /\ \A id \in MemoryId : lock'[id] = q <=> lock[id] = q
    PROVE  AdapterInvariant'
<1>1. \A q \in Saver : SaveInvariant(q)'
    BY OthersKept DEF AdapterInvariant
<1>2. OwnTable'
    BY DEF AdapterInvariant, OwnTable
<1>3. QED
    BY <1>1, <1>2 DEF AdapterInvariant

\* A save that is not in a transaction has written nothing.
LEMMA NothingWritten ==
    ASSUME AdapterInvariant, NEW p \in Saver, ~InTransaction(p)
    PROVE  \A id \in MemoryId : writes[p][id] = Untouched /\ lock[id] # p
BY DEF AdapterInvariant, SaveInvariant, Locked

\* The invariant with the types of what a step changes.
LEMMA Typed ==
    ASSUME AdapterInvariant
    PROVE  /\ table \in [MemoryId -> Row \cup {NoRow}]
           /\ lock \in [MemoryId -> Saver \cup {NoSaver}]
           /\ free \in 0..PoolSize /\ PoolSize \in Nat
           /\ phase \in [Saver -> Phase]
           /\ saving = [p \in Saver |-> saving[p]]
           /\ \A p \in Saver : saving[p] \in StoresOf(UserOf[p])
           /\ todo \in [Saver -> SUBSET MemoryId]
           /\ at \in [Saver -> MemoryId \cup {NoId}]
           /\ writes \in [Saver -> [MemoryId -> Row \cup {NoRow, Untouched}]]
           /\ arrived \in [Saver -> SUBSET MemoryId]
BY SaverAssumption DEF AdapterInvariant, TypeOK, SavingTyped

\* Connections go from the pool to a transaction and back.
LEMMA PoolKept ==
    ASSUME AdapterInvariant, UNCHANGED free,
           \A q \in Saver : InTransaction(q)' <=> InTransaction(q)
    PROVE  Pooled'
<1>1. Open' = Open
    BY DEF Open
<1>2. QED
    BY <1>1 DEF AdapterInvariant, Pooled

\* A transaction that begins takes a connection.
LEMMA PoolTaken ==
    ASSUME AdapterInvariant, NEW p \in Saver, ~InTransaction(p), InTransaction(p)',
           \A q \in Saver : q # p => (InTransaction(q)' <=> InTransaction(q)),
           free > 0, free' = free - 1
    PROVE  Pooled' /\ free' \in 0..PoolSize
<1>1. Open' = Open \cup {p} /\ p \notin Open
    BY DEF Open
<1>2. /\ free \in Nat /\ PoolSize \in Nat /\ free <= PoolSize
      /\ IsFiniteSet(Open) /\ free + Cardinality(Open) = PoolSize
    BY Typed DEF AdapterInvariant, Pooled
<1>3. Cardinality(Open) \in Nat
    BY <1>2, FS_CardinalityType
<1> HIDE DEF Open
<1>4. IsFiniteSet(Open \cup {p}) /\ Cardinality(Open \cup {p}) = Cardinality(Open) + 1
    BY <1>1, <1>2, FS_AddElement
<1>5. QED
    BY <1>1, <1>2, <1>3, <1>4 DEF Pooled

\* A transaction that ends returns its connection.
LEMMA PoolReturned ==
    ASSUME AdapterInvariant, NEW p \in Saver, InTransaction(p), ~InTransaction(p)',
           \A q \in Saver : q # p => (InTransaction(q)' <=> InTransaction(q)),
           free' = free + 1
    PROVE  Pooled' /\ free' \in 0..PoolSize
<1>1. Open' = Open \ {p} /\ p \in Open
    BY DEF Open
<1>2. /\ free \in Nat /\ PoolSize \in Nat
      /\ IsFiniteSet(Open) /\ free + Cardinality(Open) = PoolSize
    BY Typed DEF AdapterInvariant, Pooled
<1> HIDE DEF Open
<1>3. IsFiniteSet(Open \ {p}) /\ Cardinality(Open \ {p}) = Cardinality(Open) - 1
    BY <1>1, <1>2, FS_RemoveElement
<1>4. Cardinality(Open) \in Nat /\ Cardinality(Open \ {p}) \in Nat
    BY <1>2, <1>3, FS_CardinalityType
<1>5. QED
    BY <1>1, <1>2, <1>3, <1>4 DEF Pooled

\* A new call has written nothing and holds no lock.
LEMMA CallSavePreserves ==
    ASSUME AdapterInvariant, NEW p \in Saver, CallSave(p)
    PROVE  AdapterInvariant'
<1>1. PICK store \in StoresOf(UserOf[p]) : saving' = [saving EXCEPT ![p] = store]
    BY DEF CallSave
<1>2. /\ phase[p] = "idle" /\ phase' = [phase EXCEPT ![p] = "connecting"]
      /\ UNCHANGED <<table, lock, free, todo, at, writes, arrived>>
    BY DEF CallSave
<1>3. /\ saving = [q \in Saver |-> saving[q]] /\ phase \in [Saver -> Phase]
      /\ \A q \in Saver : saving[q] \in StoresOf(UserOf[q])
    BY Typed
<1>4. /\ phase' \in [Saver -> Phase] /\ phase'[p] = "connecting"
      /\ \A q \in Saver : q # p => phase'[q] = phase[q]
    BY <1>2, <1>3 DEF Phase
<1>5. /\ SavingTyped' /\ saving'[p] = store
      /\ \A q \in Saver : q # p => saving'[q] = saving[q]
    BY <1>1, <1>3 DEF SavingTyped
<1>6. TypeOK'
    BY <1>1, <1>2, <1>3, <1>4, <1>5 DEF AdapterInvariant, TypeOK
<1>7. \A id \in MemoryId : writes'[p][id] = Untouched /\ lock'[id] # p
    BY <1>2, NothingWritten DEF InTransaction
<1>8. SaveInvariant(p)'
    BY <1>4, <1>7, MarkerAssumption
       DEF SaveInvariant, Locked, WritesOwn, Reached, ToWrite, InTransaction
<1>9. Pooled'
    BY <1>2, <1>4, PoolKept DEF InTransaction
<1>10. QED
    BY <1>2, <1>4, <1>5, <1>6, <1>8, <1>9, StepOfOne

\* What is on the list to be deleted is every row of the user that is not stored.
LEMMA ConnectPreserves ==
    ASSUME AdapterInvariant, NEW p \in Saver, Connect(p)
    PROVE  AdapterInvariant'
<1>1. /\ phase[p] = "connecting" /\ phase' = [phase EXCEPT ![p] = "deleting"]
      /\ free > 0 /\ free' = free - 1
      /\ todo' = [todo EXCEPT ![p] =
                     {id \in MemoryId : OwnRow(p, id) /\ id \notin DOMAIN saving[p]}]
      /\ UNCHANGED <<table, lock, saving, at, writes, arrived>>
    BY DEF Connect
<1>2. /\ phase \in [Saver -> Phase] /\ todo \in [Saver -> SUBSET MemoryId]
      /\ free \in 0..PoolSize /\ PoolSize \in Nat
    BY Typed
<1>3. /\ phase' \in [Saver -> Phase] /\ phase'[p] = "deleting"
      /\ \A q \in Saver : q # p => phase'[q] = phase[q]
    BY <1>1, <1>2 DEF Phase
<1>4. /\ todo' \in [Saver -> SUBSET MemoryId]
      /\ todo'[p] = {id \in MemoryId : OwnRow(p, id) /\ id \notin DOMAIN saving[p]}
      /\ \A q \in Saver : q # p => todo'[q] = todo[q]
    BY <1>1, <1>2
<1>5. Pooled' /\ free' \in 0..PoolSize
    BY <1>1, <1>3, PoolTaken DEF InTransaction
<1>6. TypeOK' /\ SavingTyped'
    BY <1>1, <1>3, <1>4, <1>5 DEF AdapterInvariant, TypeOK, SavingTyped
<1>7. \A id \in MemoryId : writes'[p][id] = Untouched /\ lock'[id] # p
    BY <1>1, NothingWritten DEF InTransaction
<1>8. Reached(p)'
    BY <1>1, <1>3, <1>4 DEF Reached, OwnRow
<1>9. SaveInvariant(p)'
  <2>1. ToWrite(p)'
      BY <1>1, <1>3, <1>4 DEF ToWrite
  <2>2. Locked(p)' /\ WritesOwn(p)'
      BY <1>3, <1>7, MarkerAssumption DEF Locked, WritesOwn
  <2>3. QED
      BY <1>8, <2>1, <2>2 DEF SaveInvariant
<1>10. QED
    BY <1>1, <1>3, <1>4, <1>5, <1>6, <1>9, StepOfOne

\* Waiting changes nothing but what is waited for.
LEMMA WaitPreserves ==
    ASSUME AdapterInvariant, NEW p \in Saver, Wait(p)
    PROVE  AdapterInvariant'
<1>1. PICK id \in todo[p] : at' = [at EXCEPT ![p] = id]
    BY DEF Wait
<1>2. UNCHANGED <<table, lock, free, phase, saving, todo, writes, arrived>>
    BY DEF Wait
<1>3. at' \in [Saver -> MemoryId \cup {NoId}]
    BY <1>1, Typed
<1>4. TypeOK' /\ SavingTyped'
    BY <1>2, <1>3 DEF AdapterInvariant, TypeOK, SavingTyped
<1>5. SaveInvariant(p)'
  <2>1. SaveInvariant(p)
      BY DEF AdapterInvariant
  <2>2. /\ UNCHANGED table /\ phase'[p] = phase[p] /\ saving'[p] = saving[p]
        /\ todo'[p] = todo[p] /\ writes'[p] = writes[p] /\ arrived'[p] = arrived[p]
        /\ \A i \in MemoryId : lock'[i] = p <=> lock[i] = p
      BY <1>2
  <2>3. QED
      BY <2>1, <2>2, OthersKept
<1>6. Pooled'
    BY <1>2, PoolKept DEF InTransaction
<1>7. QED
    BY <1>2, <1>4, <1>5, <1>6, StepOfOne

\* What a write does: the row is locked, written and off the list.
LEMMA WriteEffect ==
    ASSUME AdapterInvariant, NEW p \in Saver, NEW id \in MemoryId,
           NEW row \in Row \cup {NoRow, Untouched}, Write(p, id, row)
    PROVE  /\ TypeOK' /\ SavingTyped' /\ Pooled' /\ UNCHANGED <<table, phase, saving, arrived>>
           /\ lock[id] \in {p, NoSaver} /\ lock'[id] = p
           /\ writes'[p][id] = row /\ todo'[p] = todo[p] \ {id}
           /\ \A i \in MemoryId : i # id => lock'[i] = lock[i] /\ writes'[p][i] = writes[p][i]
           /\ \A q \in Saver : q # p =>
                  /\ todo'[q] = todo[q] /\ writes'[q] = writes[q]
                  /\ \A i \in MemoryId : lock'[i] = q <=> lock[i] = q
<1>1. /\ lock[id] \in {p, NoSaver} /\ lock' = [lock EXCEPT ![id] = p]
      /\ writes' = [writes EXCEPT ![p][id] = row]
      /\ todo' = [todo EXCEPT ![p] = @ \ {id}]
      /\ at' = [at EXCEPT ![p] = NoId]
      /\ UNCHANGED <<table, free, phase, saving, arrived>>
    BY DEF Write, Blocked
<1>2. /\ lock \in [MemoryId -> Saver \cup {NoSaver}]
      /\ todo \in [Saver -> SUBSET MemoryId] /\ at \in [Saver -> MemoryId \cup {NoId}]
      /\ writes \in [Saver -> [MemoryId -> Row \cup {NoRow, Untouched}]]
    BY Typed
<1>3. /\ lock' \in [MemoryId -> Saver \cup {NoSaver}] /\ lock'[id] = p
      /\ \A i \in MemoryId : i # id => lock'[i] = lock[i]
    BY <1>1, <1>2
<1>4. /\ writes' \in [Saver -> [MemoryId -> Row \cup {NoRow, Untouched}]]
      /\ writes'[p][id] = row
      /\ \A i \in MemoryId : i # id => writes'[p][i] = writes[p][i]
      /\ \A q \in Saver : q # p => writes'[q] = writes[q]
    BY <1>1, <1>2
<1>5. /\ todo' \in [Saver -> SUBSET MemoryId] /\ todo'[p] = todo[p] \ {id}
      /\ \A q \in Saver : q # p => todo'[q] = todo[q]
    BY <1>1, <1>2
<1>6. at' \in [Saver -> MemoryId \cup {NoId}]
    BY <1>1, <1>2
<1>7. TypeOK' /\ SavingTyped'
    BY <1>1, <1>3, <1>4, <1>5, <1>6 DEF AdapterInvariant, TypeOK, SavingTyped
<1>8. ASSUME NEW q \in Saver, q # p, NEW i \in MemoryId PROVE lock'[i] = q <=> lock[i] = q
    BY <1>1, <1>3, <1>8, SaverAssumption
<1>9. Pooled'
    BY <1>1, PoolKept DEF InTransaction
<1>10. QED
    BY <1>1, <1>3, <1>4, <1>5, <1>7, <1>8, <1>9

\* A row that is deleted is on no list any more, and still the user's when it is locked.
LEMMA DeleteRowPreserves ==
    ASSUME AdapterInvariant, NEW p \in Saver, DeleteRow(p)
    PROVE  AdapterInvariant'
<1>1. PICK id \in todo[p] : Write(p, id, IF OwnRow(p, id) THEN NoRow ELSE Untouched)
    BY DEF DeleteRow
<1> DEFINE row == IF OwnRow(p, id) THEN NoRow ELSE Untouched
<1>2. id \in MemoryId /\ phase[p] = "deleting" /\ todo[p] \subseteq MemoryId
    BY Typed DEF DeleteRow
<1>3. row \in Row \cup {NoRow, Untouched} /\ Write(p, id, row)
    BY <1>1
<1>4. /\ TypeOK' /\ SavingTyped' /\ Pooled' /\ UNCHANGED <<table, phase, saving, arrived>>
      /\ lock[id] \in {p, NoSaver} /\ lock'[id] = p
      /\ writes'[p][id] = row /\ todo'[p] = todo[p] \ {id}
      /\ \A i \in MemoryId : i # id => lock'[i] = lock[i] /\ writes'[p][i] = writes[p][i]
      /\ \A q \in Saver : q # p =>
             /\ todo'[q] = todo[q] /\ writes'[q] = writes[q]
             /\ \A i \in MemoryId : lock'[i] = q <=> lock[i] = q
    BY <1>2, <1>3, WriteEffect
<1>5. SaveInvariant(p) /\ InTransaction(p)
    BY <1>2 DEF AdapterInvariant, InTransaction
<1>6. id \notin DOMAIN saving[p]
    BY <1>1, <1>2, <1>5 DEF SaveInvariant, ToWrite
<1>7. row \in {NoRow, Untouched} /\ row \notin Row
    BY MarkerAssumption
<1>8. \A i \in MemoryId : OwnRow(p, i)' <=> OwnRow(p, i)
    BY <1>4 DEF OwnRow
<1>9. row = NoRow => OwnRow(p, id)
    BY MarkerAssumption
<1>10. OwnRow(p, id) => row = NoRow
    OBVIOUS
<1> HIDE DEF row
<1>11. Locked(p)'
    BY <1>4, <1>5 DEF SaveInvariant, Locked, InTransaction
<1>12. WritesOwn(p)'
    BY <1>4, <1>5, <1>6, <1>7, <1>8, <1>9 DEF SaveInvariant, WritesOwn, SavedRow
<1>13. Reached(p)'
    BY <1>2, <1>4, <1>5, <1>8, <1>10 DEF SaveInvariant, Reached, InTransaction
<1>14. ToWrite(p)'
    BY <1>2, <1>4, <1>5 DEF SaveInvariant, ToWrite
<1>15. QED
    BY <1>4, <1>11, <1>12, <1>13, <1>14, StepOfOne DEF SaveInvariant

\* When the list is empty, what was to be deleted is deleted or arrived meanwhile.
LEMMA StartUpsertsPreserves ==
    ASSUME AdapterInvariant, NEW p \in Saver, StartUpserts(p)
    PROVE  AdapterInvariant'
<1>1. /\ phase[p] = "deleting" /\ todo[p] = {}
      /\ phase' = [phase EXCEPT ![p] = "upserting"]
      /\ todo' = [todo EXCEPT ![p] = DOMAIN saving[p]]
      /\ UNCHANGED <<table, lock, free, saving, at, writes, arrived>>
    BY DEF StartUpserts
<1>2. phase \in [Saver -> Phase] /\ todo \in [Saver -> SUBSET MemoryId]
    BY Typed
<1>3. /\ phase' \in [Saver -> Phase] /\ phase'[p] = "upserting"
      /\ \A q \in Saver : q # p => phase'[q] = phase[q]
    BY <1>1, <1>2 DEF Phase
<1>4. DOMAIN saving[p] \subseteq MemoryId
    BY SavingType DEF AdapterInvariant
<1>5. /\ todo' \in [Saver -> SUBSET MemoryId] /\ todo'[p] = DOMAIN saving[p]
      /\ \A q \in Saver : q # p => todo'[q] = todo[q]
    BY <1>1, <1>2, <1>4
<1>6. TypeOK' /\ SavingTyped'
    BY <1>1, <1>3, <1>5 DEF AdapterInvariant, TypeOK, SavingTyped
<1>7. SaveInvariant(p)
    BY DEF AdapterInvariant
<1>8. Locked(p)'
    BY <1>1, <1>3, <1>7 DEF SaveInvariant, Locked, InTransaction
<1>9. WritesOwn(p)'
    BY <1>1, <1>3, <1>7 DEF SaveInvariant, WritesOwn, OwnRow, SavedRow
<1>10. Reached(p)'
    BY <1>1, <1>3, <1>7 DEF SaveInvariant, Reached, OwnRow, InTransaction
<1>11. ToWrite(p)'
    BY <1>1, <1>3, <1>5 DEF ToWrite
<1>12. Pooled'
    BY <1>1, <1>3, PoolKept DEF InTransaction
<1>13. QED
    BY <1>1, <1>3, <1>5, <1>6, <1>8, <1>9, <1>10, <1>11, <1>12, StepOfOne DEF SaveInvariant

\* A row that is upserted is written as the store has it.
LEMMA UpsertRowPreserves ==
    ASSUME AdapterInvariant, NEW p \in Saver, UpsertRow(p)
    PROVE  AdapterInvariant'
<1>1. PICK id \in todo[p] : Write(p, id, [user |-> UserOf[p], content |-> saving[p][id]])
    BY DEF UpsertRow
<1>2. /\ id \in MemoryId /\ phase[p] = "upserting" /\ SaveInvariant(p)
      /\ todo[p] \subseteq MemoryId /\ DOMAIN saving[p] \subseteq MemoryId
    BY Typed, SavingType DEF UpsertRow, AdapterInvariant
<1>3. id \in DOMAIN saving[p]
    BY <1>1, <1>2 DEF SaveInvariant, ToWrite
<1> DEFINE row == SavedRow(p, id)
<1>4. row \in Row /\ Write(p, id, row)
    BY <1>1, <1>3, SavingType DEF SavedRow, AdapterInvariant
<1> HIDE DEF row
<1>5. /\ TypeOK' /\ SavingTyped' /\ Pooled' /\ UNCHANGED <<table, phase, saving, arrived>>
      /\ lock[id] \in {p, NoSaver} /\ lock'[id] = p
      /\ writes'[p][id] = row /\ todo'[p] = todo[p] \ {id}
      /\ \A i \in MemoryId : i # id => lock'[i] = lock[i] /\ writes'[p][i] = writes[p][i]
      /\ \A q \in Saver : q # p =>
             /\ todo'[q] = todo[q] /\ writes'[q] = writes[q]
             /\ \A i \in MemoryId : lock'[i] = q <=> lock[i] = q
    BY <1>2, <1>4, WriteEffect
<1>6. row # NoRow /\ row # Untouched
    BY <1>4, MarkerAssumption
<1>7. /\ \A i \in MemoryId : OwnRow(p, i)' <=> OwnRow(p, i)
      /\ \A i : SavedRow(p, i)' = SavedRow(p, i)
    BY <1>5 DEF OwnRow, SavedRow
<1>8. Locked(p)'
    BY <1>2, <1>5 DEF SaveInvariant, Locked, InTransaction
<1>9. WritesOwn(p)'
    BY <1>2, <1>3, <1>5, <1>6, <1>7 DEF SaveInvariant, WritesOwn, row
<1>10. Reached(p)'
    BY <1>2, <1>3, <1>5, <1>7 DEF SaveInvariant, Reached, InTransaction
<1>11. ToWrite(p)'
    BY <1>2, <1>5, <1>7 DEF SaveInvariant, ToWrite, row
<1>12. QED
    BY <1>5, <1>8, <1>9, <1>10, <1>11, StepOfOne DEF SaveInvariant

\* What the end of a transaction does to the save that ends.
LEMMA EndedEffect ==
    ASSUME AdapterInvariant, NEW p \in Saver, Ended(p)
    PROVE  /\ phase' \in [Saver -> Phase] /\ phase'[p] = "idle"
           /\ SavingTyped' /\ saving'[p] = NoStore
           /\ \A q \in Saver : saving'[q] \in StoresOf(UserOf[q])
           /\ lock' \in [MemoryId -> Saver \cup {NoSaver}]
           /\ writes' \in [Saver -> [MemoryId -> Row \cup {NoRow, Untouched}]]
           /\ \A id \in MemoryId : writes'[p][id] = Untouched /\ lock'[id] # p
           /\ \A q \in Saver : q # p =>
                  /\ phase'[q] = phase[q] /\ saving'[q] = saving[q] /\ writes'[q] = writes[q]
                  /\ \A id \in MemoryId : lock'[id] = q <=> lock[id] = q
<1>1. /\ phase' = [phase EXCEPT ![p] = "idle"]
      /\ saving' = [saving EXCEPT ![p] = NoStore]
      /\ lock' = [id \in MemoryId |-> IF lock[id] = p THEN NoSaver ELSE lock[id]]
      /\ writes' = [writes EXCEPT ![p] = [id \in MemoryId |-> Untouched]]
    BY DEF Ended
<1>2. /\ phase \in [Saver -> Phase] /\ saving = [q \in Saver |-> saving[q]]
      /\ \A q \in Saver : saving[q] \in StoresOf(UserOf[q])
      /\ lock \in [MemoryId -> Saver \cup {NoSaver}]
      /\ writes \in [Saver -> [MemoryId -> Row \cup {NoRow, Untouched}]]
    BY Typed
<1>3. /\ phase' \in [Saver -> Phase] /\ phase'[p] = "idle"
      /\ \A q \in Saver : q # p => phase'[q] = phase[q]
    BY <1>1, <1>2 DEF Phase
<1>4. NoStore \in StoresOf(UserOf[p])
  <2>1. NoStore \in [{} -> Content] /\ {} \in SUBSET OwnId[UserOf[p]]
      BY DEF NoStore
  <2>2. QED
      BY <2>1 DEF StoresOf
<1>5. /\ SavingTyped' /\ saving'[p] = NoStore
      /\ \A q \in Saver : q # p => saving'[q] = saving[q]
    BY <1>1, <1>2 DEF SavingTyped
<1>6. \A q \in Saver : saving'[q] \in StoresOf(UserOf[q])
    BY <1>2, <1>4, <1>5
<1>7. /\ writes' \in [Saver -> [MemoryId -> Row \cup {NoRow, Untouched}]]
      /\ \A id \in MemoryId : writes'[p][id] = Untouched
      /\ \A q \in Saver : q # p => writes'[q] = writes[q]
    BY <1>1, <1>2
<1>8. /\ lock' \in [MemoryId -> Saver \cup {NoSaver}]
      /\ \A id \in MemoryId : lock'[id] # p
      /\ \A q \in Saver : q # p => \A id \in MemoryId : lock'[id] = q <=> lock[id] = q
    BY <1>1, <1>2, SaverAssumption
<1>9. QED
    BY <1>3, <1>5, <1>6, <1>7, <1>8

\* A save that has ended knows nothing.
LEMMA EndedInvariant ==
    ASSUME NEW p \in Saver, phase'[p] = "idle",
           \A id \in MemoryId : writes'[p][id] = Untouched /\ lock'[id] # p
    PROVE  SaveInvariant(p)'
BY MarkerAssumption DEF SaveInvariant, Locked, WritesOwn, Reached, ToWrite, InTransaction

\* A save that fails, for whatever reason, leaves nothing behind.
LEMMA FailPreserves ==
    ASSUME AdapterInvariant, NEW p \in Saver, Fail(p)
    PROVE  AdapterInvariant'
<1>1. /\ Ended(p) /\ arrived' = [arrived EXCEPT ![p] = {}] /\ UNCHANGED table
      /\ todo' \in {todo, [todo EXCEPT ![p] = {}]}
      /\ at' \in {at, [at EXCEPT ![p] = NoId]}
    BY DEF Fail, Rollback, ConnectFails
<1>2. /\ phase' \in [Saver -> Phase] /\ phase'[p] = "idle"
      /\ SavingTyped' /\ saving'[p] = NoStore
      /\ \A q \in Saver : saving'[q] \in StoresOf(UserOf[q])
      /\ lock' \in [MemoryId -> Saver \cup {NoSaver}]
      /\ writes' \in [Saver -> [MemoryId -> Row \cup {NoRow, Untouched}]]
      /\ \A id \in MemoryId : writes'[p][id] = Untouched /\ lock'[id] # p
      /\ \A q \in Saver : q # p =>
             /\ phase'[q] = phase[q] /\ saving'[q] = saving[q] /\ writes'[q] = writes[q]
             /\ \A id \in MemoryId : lock'[id] = q <=> lock[id] = q
    BY <1>1, EndedEffect
<1>3. Pooled' /\ free' \in 0..PoolSize
  <2>1. CASE Rollback(p)
    <3>1. InTransaction(p) /\ free' = free + 1
        BY <2>1 DEF Rollback, Release, InTransaction
    <3>2. QED
        BY <1>2, <3>1, PoolReturned DEF InTransaction
  <2>2. CASE ConnectFails(p)
    <3>1. phase[p] = "connecting" /\ free' = free
        BY <2>2 DEF ConnectFails
    <3>2. QED
        BY <1>2, <3>1, PoolKept, Typed DEF InTransaction
  <2>3. QED
      BY <2>1, <2>2 DEF Fail
<1>4. /\ todo' \in [Saver -> SUBSET MemoryId]
      /\ \A q \in Saver : q # p => todo'[q] = todo[q]
    BY <1>1, Typed
<1>5. /\ arrived' \in [Saver -> SUBSET MemoryId]
      /\ \A q \in Saver : q # p => arrived'[q] = arrived[q]
    BY <1>1, Typed
<1>6. at' \in [Saver -> MemoryId \cup {NoId}]
    BY <1>1, Typed
<1>7. TypeOK'
    BY <1>1, <1>2, <1>3, <1>4, <1>5, <1>6, Typed DEF TypeOK
<1>8. SaveInvariant(p)'
    BY <1>2, EndedInvariant
<1>9. QED
    BY <1>1, <1>2, <1>3, <1>4, <1>5, <1>7, <1>8, StepOfOne

\* After a commit a row is as the save wrote it, or as it was.
Committed(p, id) == IF writes[p][id] = Untouched THEN table[id] ELSE writes[p][id]

\* A commit writes the rows of the store, and of the user's other rows it leaves
\* only those that arrived.
LEMMA CommitEffect ==
    ASSUME AdapterInvariant, NEW p \in Saver, Commit(p)
    PROVE  /\ \A id \in MemoryId : id \in DOMAIN saving[p] => Committed(p, id) = SavedRow(p, id)
           /\ \A id \in MemoryId : id \notin DOMAIN saving[p] =>
                  \/ Committed(p, id) = table[id] /\ (OwnRow(p, id) => id \in arrived[p])
                  \/ Committed(p, id) = NoRow /\ OwnRow(p, id)
<1>1. phase[p] = "upserting" /\ todo[p] = {} /\ SaveInvariant(p)
    BY DEF Commit, AdapterInvariant
<1>2. ASSUME NEW id \in MemoryId, id \in DOMAIN saving[p]
      PROVE  Committed(p, id) = SavedRow(p, id)
  <2>1. writes[p][id] = SavedRow(p, id)
      BY <1>1, <1>2 DEF SaveInvariant, ToWrite
  <2>2. SavedRow(p, id) \in Row
      BY <1>2, SavingType DEF AdapterInvariant
  <2>3. QED
      BY <2>1, <2>2, MarkerAssumption DEF Committed
<1>3. ASSUME NEW id \in MemoryId, id \notin DOMAIN saving[p]
      PROVE  \/ Committed(p, id) = table[id] /\ (OwnRow(p, id) => id \in arrived[p])
             \/ Committed(p, id) = NoRow /\ OwnRow(p, id)
  <2>1. writes[p][id] \in {NoRow, Untouched}
      BY <1>1, <1>3, Typed DEF SaveInvariant, WritesOwn
  <2>2. CASE writes[p][id] = NoRow
      BY <1>1, <2>2, MarkerAssumption DEF SaveInvariant, WritesOwn, Committed
  <2>3. CASE writes[p][id] = Untouched
      BY <1>1, <1>3, <2>3, MarkerAssumption DEF SaveInvariant, Reached, InTransaction, Committed
  <2>4. QED
      BY <2>1, <2>2, <2>3
<1>4. QED
    BY <1>2, <1>3

\* What a commit deletes goes from the lists of the others, what it writes
\* arrives for the others of its user.
LEMMA CommitPreserves ==
    ASSUME AdapterInvariant, NEW p \in Saver, Commit(p)
    PROVE  AdapterInvariant'
<1>1. /\ Ended(p) /\ Release /\ phase[p] = "upserting"
      /\ table' = [id \in MemoryId |-> Committed(p, id)]
      /\ todo' = [q \in Saver |->
                     IF phase[q] = "deleting" THEN todo[q] \ Deleted(p) ELSE todo[q]]
      /\ at' = [q \in Saver |->
                   IF phase[q] = "deleting" /\ at[q] \in Deleted(p) THEN NoId ELSE at[q]]
      /\ arrived' = [q \in Saver |->
                        IF q = p THEN {}
                        ELSE IF UserOf[q] = UserOf[p] /\ phase[q] # "idle"
                             THEN arrived[q] \cup DOMAIN saving[p]
                             ELSE arrived[q]]
    BY DEF Commit, Committed
<1>2. /\ phase' \in [Saver -> Phase] /\ phase'[p] = "idle"
      /\ SavingTyped' /\ saving'[p] = NoStore
      /\ \A q \in Saver : saving'[q] \in StoresOf(UserOf[q])
      /\ lock' \in [MemoryId -> Saver \cup {NoSaver}]
      /\ writes' \in [Saver -> [MemoryId -> Row \cup {NoRow, Untouched}]]
      /\ \A id \in MemoryId : writes'[p][id] = Untouched /\ lock'[id] # p
      /\ \A q \in Saver : q # p =>
             /\ phase'[q] = phase[q] /\ saving'[q] = saving[q] /\ writes'[q] = writes[q]
             /\ \A id \in MemoryId : lock'[id] = q <=> lock[id] = q
    BY <1>1, EndedEffect
<1>3. Pooled' /\ free' \in 0..PoolSize
    BY <1>1, <1>2, PoolReturned DEF InTransaction, Release
<1>4. /\ DOMAIN saving[p] \subseteq MemoryId /\ DOMAIN saving[p] \subseteq OwnId[UserOf[p]]
      /\ \A id \in DOMAIN saving[p] : SavedRow(p, id) \in Row
    BY SavingType DEF AdapterInvariant
<1>5. \A id \in MemoryId :
          /\ table'[id] = Committed(p, id)
          /\ id \in DOMAIN saving[p] => Committed(p, id) = SavedRow(p, id)
          /\ id \notin DOMAIN saving[p] => Committed(p, id) \in {table[id], NoRow}
    BY <1>1, CommitEffect
<1>6. table' \in [MemoryId -> Row \cup {NoRow}]
    BY <1>1, <1>4, <1>5, Typed
<1>7. OwnTable'
  <2>1. ASSUME NEW id \in MemoryId, table'[id] # NoRow
        PROVE  id \in OwnId[table'[id].user]
    <3>1. CASE id \in DOMAIN saving[p]
        BY <1>4, <1>5, <3>1 DEF SavedRow
    <3>2. CASE id \notin DOMAIN saving[p]
        BY <1>5, <2>1, <3>2 DEF AdapterInvariant, OwnTable
    <3>3. QED
        BY <3>1, <3>2
  <2>2. QED
      BY <2>1 DEF OwnTable
<1>8. /\ todo' \in [Saver -> SUBSET MemoryId]
      /\ \A q \in Saver : /\ phase[q] # "deleting" => todo'[q] = todo[q]
                          /\ phase[q] = "deleting" => todo'[q] = todo[q] \ Deleted(p)
  <2>1. \A q \in Saver : todo[q] \subseteq MemoryId
      BY Typed
  <2>2. QED
      BY <1>1, <2>1
<1>9. /\ arrived' \in [Saver -> SUBSET MemoryId]
      /\ \A q \in Saver : q # p =>
             /\ arrived[q] \subseteq arrived'[q]
             /\ UserOf[q] = UserOf[p] /\ phase[q] # "idle" => DOMAIN saving[p] \subseteq arrived'[q]
  <2>1. \A q \in Saver : arrived[q] \subseteq MemoryId
      BY Typed
  <2>2. QED
      BY <1>1, <1>4, <2>1
<1>10. at' \in [Saver -> MemoryId \cup {NoId}]
    BY <1>1, Typed
<1>11. TypeOK'
    BY <1>2, <1>3, <1>6, <1>8, <1>9, <1>10 DEF TypeOK
<1>12. ASSUME NEW q \in Saver, q # p PROVE SaveInvariant(q)'
  <2>1. SaveInvariant(q)
      BY DEF AdapterInvariant
  <2>2. /\ phase'[q] = phase[q] /\ saving'[q] = saving[q] /\ writes'[q] = writes[q]
        /\ \A id \in MemoryId : lock'[id] = q <=> lock[id] = q
        /\ InTransaction(q)' <=> InTransaction(q)
      BY <1>2, <1>12 DEF InTransaction
  <2>3. Locked(q)'
      BY <2>1, <2>2 DEF SaveInvariant, Locked
  <2>4. ASSUME NEW id \in MemoryId, writes[q][id] # Untouched
        PROVE  table'[id] = table[id]
    <3>1. lock[id] # p
        BY <1>12, <2>1, <2>4 DEF SaveInvariant, Locked
    <3>2. writes[p][id] = Untouched
        BY <3>1 DEF AdapterInvariant, SaveInvariant, Locked
    <3>3. QED
        BY <1>5, <3>2 DEF Committed
  <2>5. WritesOwn(q)'
    <3>1. ASSUME NEW id \in MemoryId, writes[q][id] = NoRow
          PROVE  OwnRow(q, id)' /\ id \notin DOMAIN saving[q]
        BY <2>1, <2>4, <3>1, MarkerAssumption DEF SaveInvariant, WritesOwn, OwnRow
    <3>2. QED
        BY <2>1, <2>2, <3>1 DEF SaveInvariant, WritesOwn, SavedRow
  <2>6. ASSUME NEW id \in MemoryId, InTransaction(q), OwnRow(q, id)', id \notin DOMAIN saving[q]
        PROVE  \/ phase[q] = "deleting" /\ id \in todo'[q]
               \/ writes[q][id] = NoRow
               \/ id \in arrived'[q]
    <3>1. CASE id \in DOMAIN saving[p]
      <4>1. table'[id].user = UserOf[p]
          BY <1>5, <3>1 DEF SavedRow
      <4>2. UserOf[q] = UserOf[p] /\ phase[q] # "idle"
          BY <2>6, <4>1 DEF OwnRow, InTransaction
      <4>3. QED
          BY <1>9, <1>12, <3>1, <4>2
    <3>2. CASE id \notin DOMAIN saving[p]
      <4>1. table'[id] = table[id] /\ table[id] # NoRow
          BY <1>5, <2>6, <3>2 DEF OwnRow
      <4>2. OwnRow(q, id)
          BY <2>6, <4>1 DEF OwnRow
      <4>3. id \notin Deleted(p)
          BY <1>5, <4>1, MarkerAssumption DEF Deleted, Committed
      <4>4. \/ phase[q] = "deleting" /\ id \in todo[q]
            \/ writes[q][id] = NoRow
            \/ id \in arrived[q]
          BY <2>1, <2>6, <4>2 DEF SaveInvariant, Reached
      <4>5. QED
          BY <1>8, <1>9, <1>12, <4>3, <4>4
    <3>3. QED
        BY <3>1, <3>2
  <2>7. Reached(q)'
      BY <2>2, <2>6 DEF Reached
  <2>8. ToWrite(q)'
      BY <1>8, <2>1, <2>2 DEF SaveInvariant, ToWrite, SavedRow
  <2>9. QED
      BY <2>3, <2>5, <2>7, <2>8 DEF SaveInvariant
<1>13. SaveInvariant(p)'
    BY <1>2, EndedInvariant
<1>14. QED
    BY <1>2, <1>3, <1>7, <1>11, <1>12, <1>13 DEF AdapterInvariant

\* At first there are no rows, no locks and no transactions.
LEMMA AdapterInitially == Init => AdapterInvariant
<1> SUFFICES ASSUME Init PROVE AdapterInvariant
    OBVIOUS
<1>1. NoStore \in [{} -> Content]
    BY DEF NoStore
<1>2. \A u \in User : NoStore \in StoresOf(u)
    BY <1>1 DEF StoresOf
<1>3. \A p \in Saver : /\ phase[p] = "idle" /\ saving[p] = NoStore
                       /\ \A id \in MemoryId : writes[p][id] = Untouched /\ lock[id] # p
    BY SaverAssumption DEF Init
<1>4. TypeOK
    BY <1>2, SaverAssumption DEF Init, TypeOK, Phase
<1>5. SavingTyped /\ OwnTable
    BY DEF Init, SavingTyped, OwnTable
<1>6. Pooled
  <2>1. Open = {}
      BY <1>3 DEF Open, InTransaction
  <2>2. QED
      BY <2>1, FS_EmptySet, SaverAssumption DEF Pooled, Init
<1>7. \A p \in Saver : SaveInvariant(p)
    BY <1>3, MarkerAssumption
       DEF SaveInvariant, Locked, WritesOwn, Reached, ToWrite, InTransaction
<1>8. QED
    BY <1>4, <1>5, <1>6, <1>7 DEF AdapterInvariant

\* Every step of every save keeps the invariant.
LEMMA AdapterInductive ==
    ASSUME AdapterInvariant, [Next]_vars
    PROVE  AdapterInvariant'
<1>1. CASE Next
  <2>1. PICK p \in Saver : CallSave(p) \/ Proceed(p) \/ Fail(p) \/ BreakDeadlock(p)
      BY <1>1 DEF Next
  <2>2. BreakDeadlock(p) => Fail(p)
      BY DEF BreakDeadlock, Fail
  <2>3. QED
      BY <2>1, <2>2, CallSavePreserves, ConnectPreserves, WaitPreserves, DeleteRowPreserves,
         StartUpsertsPreserves, UpsertRowPreserves, CommitPreserves, FailPreserves DEF Proceed
<1>2. CASE UNCHANGED vars
  <2>1. UNCHANGED <<table, lock, free, phase, saving, todo, at, writes, arrived>>
      BY <1>2 DEF vars
  <2>2. \A q \in Saver : SaveInvariant(q)'
      BY <2>1, OthersKept DEF AdapterInvariant
  <2>3. TypeOK' /\ SavingTyped' /\ OwnTable'
      BY <2>1 DEF AdapterInvariant, TypeOK, SavingTyped, OwnTable
  <2>4. Pooled'
      BY <2>1, PoolKept DEF InTransaction
  <2>5. QED
      BY <2>2, <2>3, <2>4 DEF AdapterInvariant
<1>3. QED
    BY <1>1, <1>2

\* The invariant holds of every reachable state.
LEMMA AdapterInvariantHolds == Spec => []AdapterInvariant
<1>1. Init => AdapterInvariant
    BY AdapterInitially
<1>2. AdapterInvariant /\ [Next]_vars => AdapterInvariant'
    BY AdapterInductive
<1>3. QED
    BY <1>1, <1>2, PTL DEF Spec

\* Table, locks, transactions and pool keep their shape, and every connection
\* is in the pool or has a transaction on it, however saves overlap and fail.
THEOREM AdapterTypeCorrect == Spec => [](TypeOK /\ Pooled)
<1>1. AdapterInvariant => TypeOK /\ Pooled
    BY DEF AdapterInvariant
<1>2. QED
    BY <1>1, AdapterInvariantHolds, PTL
-----------------------------------------------------------------------------
(* The refinement.                                                         *)

\* What a user loads: the rows of the table that are the user's.
LEMMA LoadedDomain ==
    ASSUME NEW u \in User
    PROVE  /\ DOMAIN LoadedBy(u) = {i \in MemoryId : table[i] # NoRow /\ table[i].user = u}
           /\ \A i \in DOMAIN LoadedBy(u) : LoadedBy(u)[i] = table[i].content
BY DEF LoadedBy

\* A commit replaces the store of its user, but for memories that arrived.
LEMMA CommitReplaces ==
    ASSUME AdapterInvariant, NEW p \in Saver, Commit(p), OwnIdsApart
    PROVE  /\ \A u \in User : u # UserOf[p] => LoadedBy(u)' = LoadedBy(u)
           /\ \E kept \in SUBSET (arrived[p] \cap DOMAIN LoadedBy(UserOf[p])) :
                  LoadedBy(UserOf[p])' = Stores!With(saving[p], LoadedBy(UserOf[p]), kept)
<1> DEFINE u == UserOf[p]
           new == saving[p]
           kept == {id \in MemoryId : /\ id \notin DOMAIN new /\ OwnRow(p, id)
                                      /\ Committed(p, id) = table[id]}
<1>1. /\ DOMAIN new \subseteq MemoryId /\ DOMAIN new \subseteq OwnId[u] /\ u \in User
      /\ \A id \in DOMAIN new : SavedRow(p, id) \in Row
    BY SavingType DEF AdapterInvariant
<1>2. \A id \in MemoryId :
          /\ table'[id] = Committed(p, id)
          /\ id \in DOMAIN new => Committed(p, id) = SavedRow(p, id)
          /\ id \notin DOMAIN new =>
                 \/ Committed(p, id) = table[id] /\ (OwnRow(p, id) => id \in arrived[p])
                 \/ Committed(p, id) = NoRow /\ OwnRow(p, id)
  <2>1. \A id \in MemoryId : table'[id] = Committed(p, id)
      BY DEF Commit, Committed
  <2>2. QED
      BY <2>1, CommitEffect
<1>3. ASSUME NEW v \in User, v # u PROVE LoadedBy(v)' = LoadedBy(v)
  <2>1. ASSUME NEW id \in MemoryId
        PROVE  /\ (table'[id] # NoRow /\ table'[id].user = v)
                      <=> (table[id] # NoRow /\ table[id].user = v)
               /\ table[id] # NoRow /\ table[id].user = v => table'[id] = table[id]
    <3>1. CASE id \in DOMAIN new
      <4>1. table'[id].user = u
          BY <1>2, <3>1 DEF SavedRow
      <4>2. ~(table[id] # NoRow /\ table[id].user = v)
          BY <1>1, <1>3, <3>1 DEF AdapterInvariant, OwnTable, OwnIdsApart
      <4>3. QED
          BY <1>3, <4>1, <4>2
    <3>2. CASE id \notin DOMAIN new
        BY <1>2, <1>3, <3>2 DEF OwnRow
    <3>3. QED
        BY <3>1, <3>2
  <2>2. QED
      BY <2>1 DEF LoadedBy
<1>4. kept \in SUBSET (arrived[p] \cap DOMAIN LoadedBy(u))
  <2>1. ASSUME NEW id \in kept PROVE id \in arrived[p] /\ id \in DOMAIN LoadedBy(u)
    <3>1. id \in MemoryId /\ id \notin DOMAIN new /\ OwnRow(p, id) /\ Committed(p, id) = table[id]
        OBVIOUS
    <3>2. id \in DOMAIN LoadedBy(u)
        BY <1>1, <3>1, LoadedDomain DEF OwnRow
    <3>3. id \in arrived[p]
        BY <1>2, <3>1 DEF OwnRow
    <3>4. QED
        BY <3>2, <3>3
  <2>2. QED
      BY <2>1
<1>5. LoadedBy(u)' = Stores!With(new, LoadedBy(u), kept)
  <2> DEFINE dom == {i \in MemoryId : table'[i] # NoRow /\ table'[i].user = u}
  <2>1. \A id \in kept : LoadedBy(u)[id] = table[id].content /\ table'[id] = table[id]
    <3>1. \A id \in kept : /\ id \in DOMAIN LoadedBy(u) /\ id \in MemoryId
                           /\ Committed(p, id) = table[id]
        BY <1>4
    <3>2. QED
        BY <1>1, <1>2, <3>1, LoadedDomain
  <2>2. \A id \in DOMAIN new : table'[id] = SavedRow(p, id) /\ SavedRow(p, id) # NoRow
      BY <1>1, <1>2, MarkerAssumption
  <2>3. dom = DOMAIN new \cup kept
    <3>1. ASSUME NEW id \in dom, id \notin DOMAIN new PROVE id \in kept
        BY <1>2, <3>1 DEF OwnRow
    <3>2. ASSUME NEW id \in DOMAIN new PROVE id \in dom
      <4>1. id \in MemoryId /\ table'[id] # NoRow
          BY <1>1, <2>2, <3>2
      <4>2. SavedRow(p, id).user = UserOf[p]
          BY DEF SavedRow
      <4>3. table'[id].user = UserOf[p]
          BY <2>2, <3>2, <4>2
      <4>4. QED
          BY <4>1, <4>3
    <3>3. ASSUME NEW id \in kept PROVE id \in dom
        BY <2>1, <3>3 DEF OwnRow
    <3>4. QED
        BY <3>1, <3>2, <3>3
  <2>4. LoadedBy(u)' = [id \in dom |-> table'[id].content]
      BY DEF LoadedBy
  <2>5. \A id \in dom : table'[id].content
                            = IF id \in DOMAIN new THEN new[id] ELSE LoadedBy(u)[id]
    <3>1. \A id \in DOMAIN new : SavedRow(p, id).content = new[id]
        BY DEF SavedRow
    <3> HIDE DEF dom, kept
    <3>2. QED
        BY <2>1, <2>2, <2>3, <3>1
  <2>6. Stores!With(new, LoadedBy(u), kept)
            = [id \in DOMAIN new \cup kept |->
                  IF id \in DOMAIN new THEN new[id] ELSE LoadedBy(u)[id]]
      BY DEF Stores!With
  <2> HIDE DEF dom, kept
  <2>7. QED
      BY <2>3, <2>4, <2>5, <2>6
<1>6. QED
    BY <1>3, <1>4, <1>5

\* A store is one that a caller of UserStores may hand over.
LEMMA StoreIsContents ==
    ASSUME NEW u \in User, NEW store \in StoresOf(u)
    PROVE  store \in Stores!Contents /\ store # NoRow
<1>1. PICK ids \in SUBSET OwnId[u] : store \in [ids -> Content]
    BY DEF StoresOf
<1>2. ids \in SUBSET MemoryId
    BY SaverAssumption
<1>3. QED
    BY <1>1, <1>2, MarkerAssumption DEF Stores!Contents

\* A save that is in flight is a request, and no other save is.
LEMMA RequestOpen ==
    ASSUME AdapterInvariant, NEW p \in Saver
    PROVE  /\ phase[p] = "idle" => Requested(p) = NoRow
           /\ phase[p] # "idle" => Requested(p) = saving[p] /\ Requested(p) # NoRow
<1>1. saving[p] # NoRow
    BY Typed, SaverAssumption, StoreIsContents
<1>2. QED
    BY <1>1 DEF Requested

\* Steps that leave table, requests and arrivals alone are not seen.
LEMMA Unseen ==
    ASSUME UNCHANGED <<table, saving, arrived>>,
           \A q \in Saver : phase'[q] = "idle" <=> phase[q] = "idle"
    PROVE  UNCHANGED <<[u \in User |-> LoadedBy(u)], [q \in Saver |-> Requested(q)], arrived>>
<1>1. \A q \in Saver : Requested(q)' = Requested(q)
    BY DEF Requested
<1>2. \A u \in User : LoadedBy(u)' = LoadedBy(u)
    BY DEF LoadedBy
<1>3. QED
    BY <1>1, <1>2

\* A call of save() hands its store over.
LEMMA CallIsAsk ==
    ASSUME AdapterInvariant, NEW p \in Saver, CallSave(p)
    PROVE  Stores!Ask(p)
<1>1. /\ phase[p] = "idle" /\ phase' = [phase EXCEPT ![p] = "connecting"]
      /\ UNCHANGED <<table, arrived>>
    BY DEF CallSave
<1>2. PICK store \in StoresOf(UserOf[p]) : saving' = [saving EXCEPT ![p] = store]
    BY DEF CallSave
<1>3. phase \in [Saver -> Phase] /\ saving = [q \in Saver |-> saving[q]] /\ UserOf[p] \in User
    BY Typed, SaverAssumption
<1>4. /\ phase'[p] = "connecting" /\ saving'[p] = store
      /\ \A q \in Saver : q # p => phase'[q] = phase[q] /\ saving'[q] = saving[q]
    BY <1>1, <1>2, <1>3
<1>5. Requested(p) = NoRow
    BY <1>1, RequestOpen
<1>6. Requested(p)' = store /\ \A q \in Saver : q # p => Requested(q)' = Requested(q)
    BY <1>4 DEF Requested
<1>7. \A u \in User : LoadedBy(u)' = LoadedBy(u)
    BY <1>1 DEF LoadedBy
<1>8. store \in Stores!Contents
    BY <1>3, StoreIsContents
<1>9. [q \in Saver |-> Requested(q)]' = [[q \in Saver |-> Requested(q)] EXCEPT ![p] = store]
    BY <1>6
<1>10. QED
    BY <1>1, <1>5, <1>7, <1>8, <1>9 DEF Stores!Ask

\* A save that fails changes nothing.
LEMMA FailIsRefuse ==
    ASSUME AdapterInvariant, NEW p \in Saver, Fail(p)
    PROVE  Stores!Refuse(p)
<1>1. /\ phase[p] # "idle" /\ Ended(p) /\ UNCHANGED table
      /\ arrived' = [arrived EXCEPT ![p] = {}]
    BY DEF Fail, Rollback, ConnectFails
<1>2. /\ phase'[p] = "idle"
      /\ \A q \in Saver : q # p => phase'[q] = phase[q] /\ saving'[q] = saving[q]
    BY <1>1, Typed DEF Ended
<1>3. Requested(p) # NoRow
    BY <1>1, RequestOpen
<1>4. Requested(p)' = NoRow /\ \A q \in Saver : q # p => Requested(q)' = Requested(q)
    BY <1>2 DEF Requested
<1>5. \A u \in User : LoadedBy(u)' = LoadedBy(u)
    BY <1>1 DEF LoadedBy
<1>6. [q \in Saver |-> Requested(q)]' = [[q \in Saver |-> Requested(q)] EXCEPT ![p] = NoRow]
    BY <1>4
<1>7. QED
    BY <1>1, <1>3, <1>5, <1>6 DEF Stores!Refuse

\* A commit replaces the store.
LEMMA CommitIsReplace ==
    ASSUME AdapterInvariant, OwnIdsApart, NEW p \in Saver, Commit(p)
    PROVE  Stores!Replace(p)
<1> DEFINE own == UserOf[p]
<1>1. /\ phase[p] = "upserting" /\ Ended(p)
      /\ arrived' = [q \in Saver |->
                        IF q = p THEN {}
                        ELSE IF UserOf[q] = own /\ phase[q] # "idle"
                             THEN arrived[q] \cup DOMAIN saving[p]
                             ELSE arrived[q]]
    BY DEF Commit
<1>2. /\ phase'[p] = "idle"
      /\ \A q \in Saver : q # p => phase'[q] = phase[q] /\ saving'[q] = saving[q]
    BY <1>1, Typed DEF Ended
<1>3. /\ Requested(p) = saving[p] /\ Requested(p) # NoRow
      /\ \A q \in Saver : phase[q] # "idle" <=> Requested(q) # NoRow
    BY <1>1, RequestOpen
<1>4. Requested(p)' = NoRow /\ \A q \in Saver : q # p => Requested(q)' = Requested(q)
    BY <1>2 DEF Requested
<1>5. own \in User
    BY SaverAssumption
<1>6. PICK kept \in SUBSET (arrived[p] \cap DOMAIN LoadedBy(own)) :
          LoadedBy(own)' = Stores!With(saving[p], LoadedBy(own), kept)
    BY CommitReplaces
<1>7. \A u \in User : u # own => LoadedBy(u)' = LoadedBy(u)
    BY CommitReplaces
<1>8. [u \in User |-> LoadedBy(u)]'
          = [[u \in User |-> LoadedBy(u)] EXCEPT
                ![own] = Stores!With(saving[p], LoadedBy(own), kept)]
  <2> HIDE DEF own
  <2>1. QED
      BY <1>5, <1>6, <1>7
<1>9. [q \in Saver |-> Requested(q)]' = [[q \in Saver |-> Requested(q)] EXCEPT ![p] = NoRow]
    BY <1>4
<1>10. arrived' = [q \in Saver |->
                      IF q = p THEN {}
                      ELSE IF UserOf[q] = own /\ Requested(q) # NoRow
                           THEN arrived[q] \cup DOMAIN Requested(p)
                           ELSE arrived[q]]
    BY <1>1, <1>3
<1>11. QED
    BY <1>3, <1>5, <1>6, <1>8, <1>9, <1>10 DEF Stores!Replace

\* The other steps of a save are not seen from outside.
LEMMA InnerSteps ==
    ASSUME AdapterInvariant, NEW p \in Saver,
           Connect(p) \/ Wait(p) \/ DeleteRow(p) \/ StartUpserts(p) \/ UpsertRow(p)
    PROVE  UNCHANGED <<[u \in User |-> LoadedBy(u)], [q \in Saver |-> Requested(q)], arrived>>
<1>1. phase \in [Saver -> Phase]
    BY Typed
<1>2. UNCHANGED <<table, saving, arrived>>
    BY DEF Connect, Wait, DeleteRow, StartUpserts, UpsertRow, Write
<1>3. \/ UNCHANGED phase
      \/ phase[p] = "connecting" /\ phase' = [phase EXCEPT ![p] = "deleting"]
      \/ phase[p] = "deleting" /\ phase' = [phase EXCEPT ![p] = "upserting"]
    BY DEF Connect, Wait, DeleteRow, StartUpserts, UpsertRow, Write
<1>4. \A q \in Saver : phase'[q] = "idle" <=> phase[q] = "idle"
    BY <1>1, <1>3
<1>5. QED
    BY <1>2, <1>4, Unseen

\* At first nobody has stored anything.
LEMMA InitiallyEmpty == Init => Stores!Init
<1> SUFFICES ASSUME Init PROVE Stores!Init
    OBVIOUS
<1>1. \A u \in User : LoadedBy(u) = [id \in {} |-> {}]
  <2>1. ASSUME NEW u \in User
        PROVE  {i \in MemoryId : table[i] # NoRow /\ table[i].user = u} = {}
      BY DEF Init
  <2>2. QED
      BY <2>1 DEF LoadedBy
<1>2. \A p \in Saver : Requested(p) = NoRow
    BY DEF Init, Requested
<1>3. QED
    BY <1>1, <1>2 DEF Init, Stores!Init

\* Whatever overlaps and whatever fails, a save stores its store as it was
\* given or changes nothing, and only memories that overlapping saves of its
\* user stored can stay beside it - for any number of users, saves and
\* connections, as long as no two users have a memory id in common.
THEOREM AdapterImplementsStores == ASSUME OwnIdsApart PROVE Spec => StoresSpec
<1>1. Init => Stores!Init
    BY InitiallyEmpty
<1>2. AdapterInvariant /\ [Next]_vars =>
          [Stores!Next]_<<[u \in User |-> LoadedBy(u)], [p \in Saver |-> Requested(p)], arrived>>
  <2> SUFFICES ASSUME AdapterInvariant, [Next]_vars
               PROVE  \/ Stores!Next
                      \/ UNCHANGED <<[u \in User |-> LoadedBy(u)],
                                     [p \in Saver |-> Requested(p)], arrived>>
      OBVIOUS
  <2>1. CASE Next
    <3>1. PICK p \in Saver : CallSave(p) \/ Proceed(p) \/ Fail(p) \/ BreakDeadlock(p)
        BY <2>1 DEF Next
    <3>2. BreakDeadlock(p) => Fail(p)
        BY DEF BreakDeadlock, Fail
    <3>3. CASE CallSave(p)
        BY <3>3, CallIsAsk DEF Stores!Next
    <3>4. CASE Commit(p)
        BY <3>4, CommitIsReplace DEF Stores!Next
    <3>5. CASE Fail(p)
        BY <3>5, FailIsRefuse DEF Stores!Next
    <3>6. CASE Proceed(p) /\ ~Commit(p)
        BY <3>6, InnerSteps DEF Proceed
    <3>7. QED
        BY <3>1, <3>2, <3>3, <3>4, <3>5, <3>6
  <2>2. CASE UNCHANGED vars
    <3>1. UNCHANGED <<table, lock, free, phase, saving, todo, at, writes, arrived>>
        BY <2>2 DEF vars
    <3>2. QED
        BY <3>1, Unseen
  <2>3. QED
      BY <2>1, <2>2
<1>3. QED
    BY <1>1, <1>2, AdapterInvariantHolds, PTL DEF Spec, StoresSpec, Stores!Spec, OwnIdsApart

-----------------------------------------------------------------------------
(* The token cache.                                                        *)

\* The cache starts empty, and nothing is on its way.
LEMMA ExpiryInitially == TokenInit => ExpiryInvariant
  BY TimeAssumption DEF TokenInit, ExpiryInvariant, TokenTypeOK, Request

\* What is counted is a number.
LEMMA ExpiresInNat == ASSUME NEW t \in Token PROVE ExpiresIn(t) \in Nat
  BY TimeAssumption DEF ExpiresIn, Token

\* An answer brings its token, the expiry that is counted from its arrival and
\* that time together, whatever arrived before it.
LEMMA ExpiryPreserved == ExpiryInvariant /\ [TokenNext]_tokenVars => ExpiryInvariant'
  <1> USE TimeAssumption, NoTokenAssumption DEF Token, Request
  <1> SUFFICES ASSUME ExpiryInvariant, [TokenNext]_tokenVars PROVE ExpiryInvariant'
    OBVIOUS
  <1>1. ASSUME NEW c \in Requester, NEW r \in Request, Hit(c, r) PROVE ExpiryInvariant'
    BY <1>1 DEF ExpiryInvariant, TokenTypeOK, Hit, Usable
  <1>2. ASSUME NEW c \in Requester, NEW r \in Request, Miss(c, r) PROVE ExpiryInvariant'
    BY <1>2 DEF ExpiryInvariant, TokenTypeOK, Miss
  <1>3. ASSUME NEW c \in Requester, Issue(c) PROVE ExpiryInvariant'
    <2>1. PICK lifetime \in Lifetime, expires \in Nat :
            token' = [token EXCEPT ![c] =
                         [key |-> request[c].key, resource |-> request[c].resource,
                          issued |-> now, lifetime |-> lifetime, expires |-> expires]]
      BY <1>3 DEF Issue, Unstated
    <2>2. TokenTypeOK'
      BY <1>3, <2>1 DEF ExpiryInvariant, TokenTypeOK, Issue
    <2>3. QED
      BY <1>3, <2>1, <2>2 DEF ExpiryInvariant, TokenTypeOK, Issue
  <1>4. ASSUME NEW c \in Requester, Arrive(c) PROVE ExpiryInvariant'
    <2>1. /\ token[c] \in Token
          /\ token[c].issued <= now
      BY <1>4 DEF ExpiryInvariant, TokenTypeOK, Arrive
    <2>2. ExpiresIn(token[c]) \in Nat /\ now + ExpiresIn(token[c]) \in Nat
      BY <2>1, ExpiresInNat DEF ExpiryInvariant, TokenTypeOK
    <2>3. TokenTypeOK'
      BY <1>4, <2>1, <2>2 DEF ExpiryInvariant, TokenTypeOK, Arrive
    <2>4. QED
      BY <1>4, <2>1, <2>2, <2>3 DEF ExpiryInvariant, TokenTypeOK, Arrive
  <1>5. ASSUME NEW c \in Requester, NoAnswer(c) PROVE ExpiryInvariant'
    BY <1>5 DEF ExpiryInvariant, TokenTypeOK, NoAnswer
  <1>6. CASE Tick
    BY <1>6 DEF ExpiryInvariant, TokenTypeOK, Tick
  <1>7. CASE UNCHANGED tokenVars
    BY <1>7 DEF ExpiryInvariant, TokenTypeOK, tokenVars
  <1>8. QED
    BY <1>1, <1>2, <1>3, <1>4, <1>5, <1>6, <1>7 DEF TokenNext

\* The invariant as a property of every behaviour of acquireToken().
THEOREM ExpiryHolds == TokenSpec => []ExpiryInvariant
  BY ExpiryInitially, ExpiryPreserved, PTL DEF TokenSpec

\* A token that acquireToken() answers from its cache has not expired if the
\* margin makes up for what its answer took and did not say, however calls,
\* answers and expiries interleave.
THEOREM CachedTokensAreValid == TokenSpec => []CachedTokenIsValid
  <1>1. ASSUME ExpiryInvariant, NEW k \in Key, Usable(k),
               (since[k] - cache[k].issued) + Overrated(cache[k]) <= Margin
        PROVE  now < Expiry(cache[k])
    <2> DEFINE t == cache[k]
    <2>1. /\ t \in Token /\ t.issued \in Nat /\ t.lifetime \in Nat /\ ExpiresIn(t) \in Nat
          /\ now \in Nat /\ since[k] \in Nat /\ until[k] > now + Margin
      BY <1>1, ExpiresInNat DEF ExpiryInvariant, TokenTypeOK, Usable, Token
    <2>2. until[k] = since[k] + ExpiresIn(t)
      BY <1>1 DEF ExpiryInvariant, Usable
    <2>3. Overrated(t) \in Nat /\ ExpiresIn(t) <= t.lifetime + Overrated(t)
      BY <2>1 DEF Overrated
    <2> HIDE DEF t
    <2>4. (since[k] - t.issued) + Overrated(t) <= Margin
      BY <1>1 DEF t
    <2>5. now < Expiry(t)
      BY <2>1, <2>2, <2>3, <2>4, TimeAssumption DEF Expiry
    <2>6. QED
      BY <2>5 DEF t
  <1>2. ExpiryInvariant => CachedTokenIsValid
    BY <1>1 DEF CachedTokenIsValid
  <1>3. QED
    BY <1>2, ExpiryHolds, PTL

=============================================================================
