-------------------------- MODULE ResidentAnalysis --------------------------
(***************************************************************************)
(* The analyses a service keeps and the index it answers from              *)
(* (crates/service-core/src/queries.rs: snapshot, cached_snapshot,         *)
(* ensure_workspace_entries, invalidate_transitive_importers; modules.rs;  *)
(* workspace_index.rs: WorkspaceEntry, WorkspaceIndex).                    *)
(*                                                                         *)
(* An analysis of a document elaborates its text with the texts of all the *)
(* modules it imports, directly or not, but remembers only the direct ones *)
(* to tell whether it is still current.  The others are left to the change *)
(* callback, which drops what the index knows to import the change.        *)
(*                                                                         *)
(* A document is here its winning text; DocumentStore says how that comes  *)
(* about.  content_version only grows and is only compared for equality,   *)
(* so what is kept of it is whether it has moved since it was read.        *)
(* Modules of library roots outside the workspace are left out.            *)
(***************************************************************************)
EXTENDS Integers, Sequences, FiniteSets

CONSTANTS
    UriOrder,       \* every document, in the order of the document map
    Contents,       \* texts
    None,           \* no text, no document
    Modules, NoModule,
    ModuleOf,       \* the module a text declares
    UsesOf,         \* the modules a text imports
    Drafts,         \* the texts each document may have
    NewDocuments,   \* environment: documents that may appear
    Unindexed,      \* environment: a change may come before the workspace is indexed
    Threads

Uris == {UriOrder[i] : i \in DOMAIN UriOrder}
Text == Contents \cup {None}

VARIABLES
    content,    \* the winning text of each document
    cache,      \* analyses: the latest analysis of each document
    index,      \* workspace_index: the entry of each document
    ensured,    \* last_ensured_version = content_version
    run,        \* per thread: the analysis or the callback it is inside of
    task        \* per thread: the workspace-wide ensure it is inside of

vars == <<content, cache, index, ensured, run, task>>

-----------------------------------------------------------------------------
(* Module resolution                                                       *)

Unresolved == [uri |-> None, text |-> None]
Resolution == [uri : Uris \cup {None}, text : Text]

(* The least document that declares the module; the store keeps the        *)
(* claimants, and loads what it has to before it gives up.                 *)
Claims(u, m) == content[u] # None /\ ModuleOf[content[u]] = m
Claimants(m) == {i \in DOMAIN UriOrder : Claims(UriOrder[i], m)}
Least(S) == CHOOSE i \in S : \A j \in S : i <= j

Owner(m) ==
    IF Claimants(m) = {} THEN Unresolved
    ELSE LET u == UriOrder[Least(Claimants(m))] IN [uri |-> u, text |-> content[u]]

(* DependencyFingerprints::collect: the resolved direct imports.           *)
Direct(text) == {<<m, Owner(m)>> : m \in {n \in UsesOf[text] : Owner(n) # Unresolved}}

(* The least set that holds some members and whatever follows its own.     *)
ClosedUnder(S, next) == \A x \in S : next[x] \subseteq S
Closure(some, next) ==
    LET closed == {S \in SUBSET DOMAIN next : some \subseteq S /\ ClosedUnder(S, next)}
    IN  {x \in DOMAIN next : \A S \in closed : x \in S}

(* Every module an elaboration of the text takes in now.                   *)
Uses(m) == IF Owner(m) = Unresolved THEN {} ELSE UsesOf[Owner(m).text]
Reached(text) == Closure(UsesOf[text], [m \in Modules |-> Uses(m)])
Elaborated(text) == {<<m, Owner(m)>> : m \in Reached(text)}

-----------------------------------------------------------------------------
NoAnalysis == [text |-> None, consumed |-> {}, deps |-> {}]
NoEntry == [text |-> None, deps |-> {}, edges |-> {}]
Idle == [op |-> "idle"]
NoTask == [op |-> "none"]

Init ==
    /\ content \in [Uris -> Text]
    /\ \A u \in Uris : content[u] \in Drafts[u]
    /\ cache = [u \in Uris |-> NoAnalysis]
    /\ index = [u \in Uris |-> NoEntry]
    /\ ensured = FALSE
    /\ run = [t \in Threads |-> Idle]
    /\ task = [t \in Threads |-> NoTask]

Free(t) == run[t] = Idle /\ task[t] = NoTask

(* is_current: the entry of a document may be answered from.               *)
Current(u) ==
    /\ index[u] # NoEntry
    /\ index[u].text = content[u]
    /\ index[u].deps = Direct(content[u])

(* One analysis of a document at a time.                                   *)
InProgress(u) == \E t \in Threads : run[t].op \in {"analyse", "publish"} /\ run[t].uri = u

(* A change that leaves content_version as it is.                          *)
MovedNot == UNCHANGED <<ensured, task>>

(* bump_content_version                                                    *)
Moved ==
    /\ ensured' = FALSE
    /\ task' = [t \in Threads |->
                  IF task[t].op = "ensure" THEN [task[t] EXCEPT !.moved = TRUE] ELSE task[t]]

-----------------------------------------------------------------------------
(* Changes of the store, each followed by the change callback, but not a   *)
(* document's first load.                                                  *)

Allowed(u, text) ==
    /\ text \in Drafts[u]
    /\ content[u] = None => u \in NewDocuments
    /\ Unindexed \/ \A v \in Uris : content[v] = None \/ Current(v)

Commit(t, u, text) ==
    /\ Free(t)
    /\ Allowed(u, text)
    /\ content[u] # None \/ text # None
    /\ content' = [content EXCEPT ![u] = text]
    /\ Moved
    /\ run' = [run EXCEPT ![t] = [op |-> "notify", uri |-> u]]
    /\ UNCHANGED <<cache, index>>

Load(t, u, text) ==
    /\ Free(t)
    /\ Allowed(u, text)
    /\ content[u] = None /\ text # None
    /\ content' = [content EXCEPT ![u] = text]
    /\ Moved
    /\ UNCHANGED <<cache, index, run>>

ImportersOf(S) == {u \in Uris : index[u].edges \cap S # {}}

(* Only the direct importers.                                              *)
VictimsDirect(u) == {u} \cup ImportersOf({u})

(* The changed document, its importers and theirs, as far as the index     *)
(* knows them.                                                             *)
Victims(u) == Closure({u}, [v \in Uris |-> ImportersOf({v})])

(* The callback drops the entries only.                                    *)
DropAnalysesKept(t) ==
    /\ run[t].op = "notify"
    /\ run' = [run EXCEPT ![t] = [op |-> "drop", victims |-> Victims(run[t].uri)]]
    /\ UNCHANGED <<content, cache, index, ensured, task>>

(* invalidate_transitive_importers takes its locks one after the other.    *)
DropAnalyses(t) ==
    /\ run[t].op = "notify"
    /\ LET victims == Victims(run[t].uri)
       IN  /\ cache' = [u \in Uris |-> IF u \in victims THEN NoAnalysis ELSE cache[u]]
           /\ run' = [run EXCEPT ![t] = [op |-> "drop", victims |-> victims]]
    /\ UNCHANGED <<content, index, ensured, task>>

DropEntries(t) ==
    /\ run[t].op = "drop"
    /\ index' = [u \in Uris |-> IF u \in run[t].victims THEN NoEntry ELSE index[u]]
    /\ run' = [run EXCEPT ![t] = Idle]
    /\ UNCHANGED <<content, cache, ensured, task>>

-----------------------------------------------------------------------------
(* snapshot                                                                *)

(* cached_snapshot: what is served without an analysis.                    *)
Cached(u) ==
    /\ cache[u] # NoAnalysis
    /\ cache[u].text = content[u]
    /\ cache[u].deps # {} => cache[u].deps = Direct(content[u])

(* The compiler asks for one module after the other, in its own order.     *)
Analyse(t, u) ==
    /\ run[t] = Idle
    /\ content[u] # None
    /\ ~Cached(u)
    /\ ~InProgress(u)
    /\ run' = [run EXCEPT ![t] =
                 [op |-> "analyse", uri |-> u, text |-> content[u],
                  consumed |-> {}, todo |-> UsesOf[content[u]]]]

Request(t, u) ==
    /\ Free(t)
    /\ Analyse(t, u)
    /\ UNCHANGED <<content, cache, index, ensured, task>>

Resolve(t) ==
    /\ run[t].op = "analyse"
    /\ \E m \in run[t].todo :
         LET seen == {c[1] : c \in run[t].consumed} \cup {m}
         IN  run' = [run EXCEPT ![t].consumed = @ \cup {<<m, Owner(m)>>},
                                ![t].todo = (@ \cup Uses(m)) \ seen]
    /\ UNCHANGED <<content, cache, index, ensured, task>>

(* The direct imports the compiler consumed, or for those it did not find  *)
(* whatever resolves now.  The analysis is kept only if the text is still  *)
(* the one that was analysed.                                              *)
Consumed(r) ==
    {c \in r.consumed : c[1] \in UsesOf[r.text] /\ c[2] # Unresolved}

(* What resolves when the analysis is done.                                *)
FingerprintsAfter(r) == Direct(r.text)

Fingerprints(r) ==
    Consumed(r) \cup {d \in Direct(r.text) : \A c \in Consumed(r) : c[1] # d[1]}

Keep(t) ==
    /\ run[t].op = "analyse"
    /\ run[t].todo = {}
    /\ LET r == run[t]
       IN  IF content[r.uri] = r.text
           THEN /\ cache' = [cache EXCEPT ![r.uri] =
                               [text |-> r.text, consumed |-> r.consumed,
                                deps |-> Fingerprints(r)]]
                /\ run' = [run EXCEPT ![t] =
                             [op |-> "publish", uri |-> r.uri, text |-> r.text,
                              deps |-> Fingerprints(r)]]
           ELSE run' = [run EXCEPT ![t] = Idle] /\ UNCHANGED cache
    /\ UNCHANGED <<content, index, ensured, task>>

(* The entry's edges are resolved when the entry is built.                 *)
Publish(t) ==
    /\ run[t].op = "publish"
    /\ index' = [index EXCEPT ![run[t].uri] =
                   [text |-> run[t].text, deps |-> run[t].deps,
                    edges |-> {d[2].uri : d \in Direct(run[t].text)}]]
    /\ run' = [run EXCEPT ![t] = Idle]
    /\ UNCHANGED <<content, cache, ensured, task>>

-----------------------------------------------------------------------------
(* ensure_workspace_entries, before every cross-document query             *)

EnsureStart(t) ==
    /\ Free(t)
    /\ ~ensured
    /\ task' = [task EXCEPT ![t] =
                  [op |-> "ensure", tried |-> FALSE, failed |-> FALSE, moved |-> FALSE,
                   todo |-> {u \in Uris : content[u] # None}]]
    /\ UNCHANGED <<content, cache, index, ensured, run>>

(* The document whose turn it is, in the order of the document map.        *)
Before(u, v) ==
    \E i, j \in DOMAIN UriOrder : i <= j /\ UriOrder[i] = u /\ UriOrder[j] = v

Ensuring(t, u) ==
    /\ task[t].op = "ensure" /\ run[t] = Idle
    /\ u \in task[t].todo /\ \A v \in task[t].todo : Before(u, v)

(* One attempt through snapshot.                                           *)
EnsureRepair(t, u) ==
    /\ Ensuring(t, u)
    /\ ~task[t].tried
    /\ ~Current(u)
    /\ Analyse(t, u)
    /\ task' = [task EXCEPT ![t].tried = TRUE]
    /\ UNCHANGED <<content, cache, index, ensured>>

(* Nothing to repair, or nothing left to try: a cached analysis is served  *)
(* without being published again, and a document that is gone loses its    *)
(* entry.                                                                  *)
EnsureNext(t, u) ==
    /\ Ensuring(t, u)
    /\ task[t].tried \/ Current(u) \/ Cached(u) \/ content[u] = None
    /\ task' = [task EXCEPT ![t].todo = @ \ {u}, ![t].tried = FALSE,
                            ![t].failed = @ \/ ~Current(u)]
    /\ index' = IF content[u] = None THEN [index EXCEPT ![u] = NoEntry] ELSE index
    /\ UNCHANGED <<content, cache, ensured, run>>

EnsureEnd(t) ==
    /\ task[t].op = "ensure" /\ run[t] = Idle
    /\ task[t].todo = {}
    /\ ensured' = (ensured \/ (~task[t].failed /\ ~task[t].moved))
    /\ task' = [task EXCEPT ![t] = NoTask]
    /\ UNCHANGED <<content, cache, index, run>>

-----------------------------------------------------------------------------
Thread(t) ==
    \/ \E u \in Uris :
          \/ \E text \in Text : Commit(t, u, text) \/ Load(t, u, text)
          \/ Request(t, u) \/ EnsureRepair(t, u) \/ EnsureNext(t, u)
    \/ DropAnalyses(t) \/ DropEntries(t)
    \/ Resolve(t) \/ Keep(t) \/ Publish(t)
    \/ EnsureStart(t) \/ EnsureEnd(t)

Next == \E t \in Threads : Thread(t)

Spec == Init /\ [][Next]_vars

-----------------------------------------------------------------------------
Fingerprint == Modules \X Resolution
Analyses == [text : Text, consumed : SUBSET Fingerprint, deps : SUBSET Fingerprint]
Entries == [text : Text, deps : SUBSET Fingerprint, edges : SUBSET Uris]

(* Every variable has its type.                                            *)
TypeOK ==
    /\ \A u \in Uris : content[u] \in Drafts[u]
    /\ \A u \in Uris : /\ cache[u].text \in Text
                       /\ cache[u].consumed \subseteq Fingerprint
                       /\ cache[u].deps \subseteq Fingerprint
                       /\ index[u].text \in Text
                       /\ index[u].deps \subseteq Fingerprint
                       /\ index[u].edges \subseteq Uris
    /\ ensured \in BOOLEAN
    /\ \A t \in Threads :
          /\ run[t].op \in {"idle", "notify", "drop", "analyse", "publish"}
          /\ task[t].op = "ensure" =>
                task[t].todo \subseteq Uris /\ {task[t].failed, task[t].moved} \subseteq BOOLEAN

CallbacksDone == \A t \in Threads : run[t].op \notin {"notify", "drop"}

(* "The result for a snapshot must be observationally consistent with      *)
(* invoking the authoritative language APIs for that same source state":   *)
(* once the callbacks of all changes have run, an analysis that is served  *)
(* from the cache took in exactly the texts a new one would.               *)
SnapshotsHonest ==
    CallbacksDone => \A u \in Uris :
        Cached(u) => cache[u].consumed = Elaborated(content[u])

(* "Entries without external dependencies are provably current while this  *)
(* matches": while the store has not moved since the last full ensure, no  *)
(* document is missing from the index and no entry is out of date.         *)
FastPathSound ==
    ensured => \A u \in Uris : content[u] # None => Current(u)

(* "The workspace index entry is derived from the published snapshot": at  *)
(* rest, an analysis that would be served has an entry that may be         *)
(* answered from, or the index would never learn of the document, because  *)
(* a cached analysis is not published again.                               *)
IndexedWhenCached ==
    (\A t \in Threads : run[t] = Idle) =>
        \A u \in Uris : Cached(u) => Current(u)

(* "Recording what was *consumed* (rather than what is current after       *)
(* analysis) keeps the staleness check sound when a dependency edits while *)
(* analysis is in flight": whatever any thread does meanwhile, an analysis *)
(* that is served took in, of each module its text imports and that it     *)
(* found, the very document and text that resolve now.                     *)
DirectImportsCurrent ==
    \A u \in Uris : Cached(u) =>
        \A c \in Consumed(cache[u]) : c[2] = Owner(c[1])
=============================================================================
