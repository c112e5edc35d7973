---------------------------- MODULE StoreExchange ----------------------------
(***************************************************************************)
(* A caller of the engine that also takes memories out of its store and    *)
(* back in (src/backup-restore.mjs): encrypted backups of what is          *)
(* approved, packages of one category, and their return into the store     *)
(* they were taken from, as it has become meanwhile, or into an empty one  *)
(* on another device.  A package or an envelope may be damaged on the way. *)
(***************************************************************************)
EXTENDS MemoryEngine, MemoryBackup, MemoryRetrieval

CONSTANTS
    Category,       \* the categories a caller exports
    CategoryOf,     \* the category of the memories of a merge key
    NoCategory,     \* the one of remembered packets, schemas and intents
    Key,            \* encryption keys
    Nothing         \* no package, no envelope

ASSUME CategoryAssumption ==
    /\ NoCategory \notin Category
    /\ CategoryOf \in [MergeKey -> Category \cup {NoCategory}]

VARIABLES
    held        \* the package or the encrypted backup that was taken out last

exchangeVars == <<store, last, held>>

\* The SHA-256 digest of a package with its category, and the tag of an
\* AES-256-GCM text under a key.
Digest(data, label) == <<data, label>>

\* `taken' is a history variable: the memories as they were taken out.
Sealed(kind, data, label) ==
    [kind |-> kind, data |-> data, label |-> label,
     digest |-> Digest(data, label), taken |-> data.memories]

Data == [memories : SUBSET Memory, relations : SUBSET Relation,
         logged : SUBSET (MemoryId \cup {NoMemory})]

ExchangeOp == {"import", "restore", "new_device"}

ExchangeTypeOK ==
    /\ store \in Store
    /\ last \in [op : Operation \cup ExchangeOp \cup {"none"}, accepted : BOOLEAN, appended : 0..2]
    /\ \/ held = Nothing
       \/ held.kind = "package" /\ held.label \in Category /\ held.data \in Data
       \/ held.kind = "backup" /\ held.label \in Key /\ held.data \in Store

ExchangeInit == Init /\ held = Nothing

Done(op, accepted, next) ==
    /\ store' = next
    /\ last' = [op |-> op, accepted |-> accepted, appended |-> 0]

-----------------------------------------------------------------------------
(* Packages of one category.                                               *)

\* A relation is kept if it starts in the category.  (An operator named
\* Faulty... is the one after it with a plausible mistake; no specification
\* uses it.)
FaultyNamespaceData(from, category) ==
    LET memories == {m \in from.memories : CategoryOf[m.key] = category}
    IN [memories |-> memories,
        relations |-> {r \in from.relations : \E m \in memories : r.from = m.id},
        logged |-> from.logged]

\* Both ends of a relation are in the category.  An action has neither from,
\* nor to, nor target_id, so the filter lets every action pass.
NamespaceData(from, category) ==
    LET memories == {m \in from.memories : CategoryOf[m.key] = category}
        ids == {m.id : m \in memories}
    IN [memories |-> memories,
        relations |-> {r \in from.relations : r.from \in ids /\ r.to \in ids},
        logged |-> from.logged]

ExportPartialNamespace(category) ==
    held' = Sealed("package", NamespaceData(store, category), category)

\* An id that the store has is looked for behind the memories only.
FaultyImported(to, data) ==
    [to EXCEPT !.memories = @ \cup {[m EXCEPT !.born = to.births + 1] : m \in data.memories},
               !.relations = @ \cup data.relations,
               !.logged = @ \cup data.logged,
               !.births = @ + 1]

\* The category of the store is replaced by the package.
ReplacingImport(to, data) ==
    [to EXCEPT !.memories = {m \in @ : CategoryOf[m.key] = NoCategory} \cup data.memories,
               !.relations = @ \cup data.relations,
               !.logged = @ \cup data.logged]

\* The records of the package that the store does not have, in their order.
NewRecords(to, data) == {m \in data.memories : ~Has(to, m.id)}

\* A memory takes the place of the one with its id, or is pushed.
Placed(to, data, m) ==
    [m EXCEPT !.born =
        IF Has(to, m.id) THEN ReadMemory(to, m.id).born
        ELSE to.births + Cardinality({n \in NewRecords(to, data) : n.born <= m.born})]

\* importPartialNamespace: replaced records keep the place, the others are
\* pushed; relations and actions are pushed without looking at those there
\* are, and nothing is validated.  A store says which of these it has, not how
\* often: what is pushed once more is Repeated.
Imported(to, data) ==
    [to EXCEPT !.memories = {m \in @ : \A n \in data.memories : n.id # m.id}
                                \cup {Placed(to, data, m) : m \in data.memories},
               !.relations = @ \cup data.relations,
               !.logged = @ \cup data.logged,
               !.births = @ + Cardinality(NewRecords(to, data))]

Repeated(to, data) ==
    [relations |-> to.relations \cap data.relations, logged |-> to.logged \cap data.logged]

\* The digest is not compared.
FaultyImportPartialNamespace(p) == Done("import", TRUE, Imported(store, p.data))

ImportPartialNamespace(p) ==
    IF p.digest = Digest(p.data, p.label)
    THEN Done("import", TRUE, Imported(store, p.data))
    ELSE Done("import", FALSE, store)

-----------------------------------------------------------------------------
(* Encrypted backups.                                                      *)

EncryptMemoryBackup(key) == held' = Sealed("backup", ApprovedBackup(store), key)

\* The tag fits neither another key nor another text, and the structural check
\* refuses what it does not know: then the call throws.
DecryptMemoryBackup(e, key) ==
    IF e.digest = Digest(e.data, key) /\ ValidBackup(e.data)
    THEN Done("restore", TRUE, e.data)
    ELSE Done("restore", FALSE, store)

-----------------------------------------------------------------------------

\* The operations of the engine by which a store may come to differ from what
\* was taken out of it; the others change memories in place, as Forget does.
EngineStep ==
    /\ \/ Create \/ Delete \/ Forget \/ Supersede
       \/ LinkToEvidence \/ RememberASchema \/ Compact
    /\ UNCHANGED held

Export ==
    /\ \E category \in Category : ExportPartialNamespace(category)
    /\ UNCHANGED <<store, last>>

Import ==
    /\ held # Nothing /\ held.kind = "package"
    /\ MayAppend(Cardinality(NewRecords(store, held.data)))
    /\ ImportPartialNamespace(held)
    /\ UNCHANGED held

Backup ==
    /\ \E key \in Key : EncryptMemoryBackup(key)
    /\ UNCHANGED <<store, last>>

Restore ==
    /\ held # Nothing /\ held.kind = "backup"
    /\ \E key \in Key : DecryptMemoryBackup(held, key)
    /\ UNCHANGED held

\* On the way a memory is changed.
InTransit ==
    /\ held # Nothing /\ held.data.memories = held.taken
    /\ \E m \in held.taken :
           held' = [held EXCEPT !.data.memories = (@ \ {m}) \cup {[m EXCEPT !.state = "approved"]}]
    /\ UNCHANGED <<store, last>>

\* The caller goes on with an empty store on another device.
NewDevice == Done("new_device", TRUE, EmptyStore) /\ UNCHANGED held

ExchangeNext ==
    \/ EngineStep
    \/ Export \/ Import \/ Backup \/ Restore
    \/ InTransit \/ NewDevice

ExchangeSpec == ExchangeInit /\ [][ExchangeNext]_exchangeVars

-----------------------------------------------------------------------------
(* Properties; UniqueIds and RelationsStayClosed of MemoryEngine are       *)
(* checked of these behaviours as well.                                    *)

Content(memories) == {[m EXCEPT !.born = 0] : m \in memories}

\* importPartialNamespace and decryptMemoryBackup bring in only memories as
\* they were taken out, whatever happened on the way; a call that is refused
\* changes nothing.
OnlyTakenMemoriesReturn ==
    [][/\ Import =>
             Content(store'.memories) \subseteq Content(store.memories) \cup Content(held.taken)
       /\ Restore =>
             Content(store'.memories) \subseteq
                 Content(IF last'.accepted THEN held.taken ELSE store.memories)]_exchangeVars

\* An import leaves alone what its package does not name: memories of other
\* categories, memories of the category that are newer than the package, every
\* relation and every logged action.
ImportKeepsTheRest ==
    [][Import =>
          /\ \A m \in store.memories :
                \/ m \in store'.memories
                \/ \E n \in held.data.memories : n.id = m.id
          /\ store.relations \subseteq store'.relations
          /\ store.logged \subseteq store'.logged]_exchangeVars

\* After an import the store holds the memories of the package as they were,
\* and importing it once more leaves the memories and their order as they are.
\* Of relations and actions it does not: see ImportAppendsOnce.
RetryKeepsMemories ==
    [][Import /\ last'.accepted =>
          LET again == Imported(store', held.data)
          IN /\ Content(held.data.memories) \subseteq Content(store'.memories)
             /\ again.memories = store'.memories /\ again.births = store'.births]_exchangeVars

\* Whatever store a backup was made of, the restored one holds approved
\* memories only and no relation to one that was left out, so the engine's
\* RelationsStayClosed starts anew from it.
RestoredIsClosed ==
    last.op = "restore" /\ last.accepted =>
        Closed(store) /\ \A m \in store.memories : m.state \in Approved

-----------------------------------------------------------------------------
(* What a query is answered with, in every state of the store.             *)

Tops == 1..MaxBirths

\* buildRagContext fills the context with the best: the schemas it puts first
\* take places of worse answers, but never make the context shorter, leave a
\* place empty that a matching memory could take, or let another memory be
\* quoted before a better answer that is left out.
ContextIsBest ==
    \A top \in Tops :
        LET context == RagContext(store.memories, top)
        IN /\ Cardinality(context) = Min({top, Cardinality(Matching(store.memories))})
           /\ \A m \in context, n \in Matching(store.memories) \ context :
                  ~IsSchema(m) => ~(Score(n) > Score(m))

-----------------------------------------------------------------------------
(* Properties the repository's words promise and the code breaks.          *)

\* MEMACT.md:29: "`forgotten`: Deleted at your request."  A forgotten memory
\* does not become part of a context.
ContextHidesForgotten ==
    \A m \in RagContext(store.memories, MaxBirths) : m.state # "forgotten"

\* backup-restore.mjs:177: "Cleanly isolate intersecting relations/actions so we
\* don't hold dangling graph records".  A package names its own memories only.
PackageIsIsolated ==
    held # Nothing /\ held.kind = "package" =>
        held.data.logged \subseteq {m.id : m \in held.taken}

\* MEMACT.md:29: "`forgotten`: Deleted at your request."  A memory that the
\* store has forgotten is not brought back by an older package.
ImportKeepsForgotten ==
    [][Import =>
          \A m \in store.memories, n \in store'.memories :
              n.id = m.id /\ m.state = "forgotten" => n.state = "forgotten"]_exchangeVars

\* backup-restore.mjs:245: "Safety append for relational context structures".  An
\* import appends no relation or action that the store already has.
ImportAppendsOnce ==
    [][Import /\ last'.accepted =>
          Repeated(store, held.data) = [relations |-> {}, logged |-> {}]]_exchangeVars

=============================================================================
