--------------------------- MODULE WorkspaceChanges --------------------------
(***************************************************************************)
(* How a change of the workspace becomes an event                          *)
(* (crates/service-core/src/queries.rs: begin_change, did_open, did_save,  *)
(* did_close, refresh_workspace, observe_change, observe_removal,          *)
(* persist_checkpoint, configure_root).                                    *)
(*                                                                         *)
(* The store changes first and names the generation of the change; the     *)
(* service then analyses the document, and pushes an event only when both  *)
(* the workspace and the analysis are still at that generation.  Here the  *)
(* event history is unbounded and the checkpoint file is written in one    *)
(* step: EventHub and EventDelivery say what their bounds and races do.    *)
(* An analysis is the text it read and the generation it saw; what it      *)
(* takes from other documents is the business of ResidentAnalysis.         *)
(***************************************************************************)
EXTENDS Integers, Sequences, FiniteSets

CONSTANTS
    UriOrder, FileUris, Contents, EmptyText, None, Modules, NoModule, ModuleOf,
    Edits, Edited, Threads, FilesSettle, MaxGeneration,
    Practices,      \* what editors, programs and the machine may do
    MaxChanged,     \* bound: files that differ from the store at a time
    MaxStarts       \* bound: starts of the host

VARIABLES
    file, docs, claims, generation, scan, run, result,
    job,        \* per thread: the service call it serves
    obs,        \* per thread: how far observe_change is with Head(result[t])
    cache,      \* analyses: per document, the latest snapshot
    log,        \* the events pushed, as a checkpoint restores them
    saved,      \* the checkpoint file
    base,       \* the texts a consumer reconciled with before the first event
    up, starts  \* whether the host runs, and how often it has been started

Store == INSTANCE DocumentStore

storeVars == <<file, docs, claims, generation, scan, run, result>>
vars == <<storeVars, job, obs, cache, log, saved, base, up, starts>>

Uris == Store!Uris
Text == Store!Text

PracticeNames == {"editing", "careless close", "new files", "queries", "early queries",
                  "crashes", "removal while down"}
ASSUME StoreAssumption ==
    Store!UriAssumption /\ Store!ContentAssumption /\ Store!BoundAssumption
ASSUME PracticeAssumption ==
    /\ Practices \subseteq PracticeNames
    /\ MaxChanged \in Nat /\ MaxStarts \in Nat

NoSnapshot == [text |-> None, generation |-> 0]
Snapshots == [text : Text, generation : Nat]

(* The deltas of an event are from the text before holds to its own, or    *)
(* from nothing if that is None; a reconciled event has none.              *)
Events == [uri : Uris, text : Text, generation : Nat,
           before : {<< >>} \cup {<<x>> : x \in Text}]

NoJob == [op |-> "none"]
NoObs == [step |-> "none"]

ContentOf(ds) == [u \in Uris |-> Store!Stored(ds[u])]

(* The host has been configured for the first time: every file is loaded,  *)
(* a quiet baseline that no event announces.                               *)
LoadedDocs ==
    [u \in Uris |-> IF file[u] = None THEN Store!Unknown
                    ELSE [known |-> TRUE, disk |-> file[u], buffer |-> None]]
ClaimsOf(ds) == [m \in Modules |-> {u \in Uris : Store!EffectiveModule(ds[u]) = m}]

Init ==
    /\ file \in [Uris -> Text]
    /\ \A u \in Uris \ FileUris : file[u] = None
    /\ docs = LoadedDocs
    /\ claims = ClaimsOf(docs)
    /\ generation = 0
    /\ scan = {}
    /\ run = [t \in Threads |-> Store!Idle]
    /\ result = [t \in Threads |-> << >>]
    /\ job = [t \in Threads |-> NoJob]
    /\ obs = [t \in Threads |-> NoObs]
    /\ cache = [u \in Uris |-> NoSnapshot]
    /\ log = << >>
    /\ saved = [documents |-> ContentOf(docs), log |-> << >>, generation |-> 0]
    /\ base = ContentOf(docs)
    /\ up = TRUE
    /\ starts = 1

Resting(t) == job[t] = NoJob /\ Store!Begin(t) /\ obs[t] = NoObs
AtRest == up /\ \A t \in Threads : Resting(t)

-----------------------------------------------------------------------------
(* The environment: files change, by any program or by an editor's save.   *)

Differs(u) == IF Store!Open(docs[u]) THEN docs[u].disk \notin {None, file'[u]}
              ELSE docs[u].disk # file'[u]

WriteFile(u, text) ==
    /\ Store!WriteFile(u, text)
    /\ up => Cardinality({v \in FileUris : Differs(v)}) <= MaxChanged
    /\ FilesSettle => (up => AtRest)
    /\ file[u] = None => "new files" \in Practices
    /\ UNCHANGED <<job, obs, cache, log, saved, base, up, starts>>

-----------------------------------------------------------------------------
(* snapshot: the cached analysis when it is of the current text, otherwise *)
(* a new one at the generation of the moment, which is cached.             *)
Snapshot(u, text) ==
    IF cache[u].text = text THEN cache[u]
    ELSE [text |-> text, generation |-> generation]

(* Any request for a document's analysis, which loads it first; an early   *)
(* query names a file before a refresh has found it.                       *)
Analyse(u) ==
    LET d == Store!Loaded(u)
    IN  /\ Store!CommitFirst(u, d)
        /\ cache' = IF Store!Stored(d) = None THEN cache
                    ELSE [cache EXCEPT ![u] = Snapshot(u, Store!Stored(d))]

Query(t, u) ==
    /\ up
    /\ "queries" \in Practices
    /\ Store!Stored(docs[u]) = None => "early queries" \in Practices
    /\ Resting(t)
    /\ Analyse(u)
    /\ UNCHANGED <<file, generation, scan, run, result, job, obs, log, saved, base,
                   up, starts>>

-----------------------------------------------------------------------------
(* Editor notifications                                                    *)

(* begin_change                                                            *)
BeginChange(t, u) ==
    /\ up
    /\ "editing" \in Practices
    /\ Resting(t)
    /\ Analyse(u)
    /\ job' = [job EXCEPT ![t] = [op |-> "begun", uri |-> u, replaced |-> generation,
                                  before |-> Store!Stored(Store!Loaded(u))]]
    /\ UNCHANGED <<file, generation, scan, run, result, obs, log, saved, base, up, starts>>

Begun(t) == up /\ job[t].op = "begun"
ToObserve(t) == job' = [job EXCEPT ![t].op = "observe"]

(* The change callback drops the document's analysis.                      *)
Invalidate(u) == cache' = [cache EXCEPT ![u] = NoSnapshot]

DidOpen(t, text) ==
    /\ Begun(t)
    /\ Store!DidOpen(t, job[t].uri, text)
    /\ Invalidate(job[t].uri)
    /\ ToObserve(t)
    /\ UNCHANGED <<obs, log, saved, base, up, starts>>

(* The editor has written the file by the time it reports the save.        *)
DidSave(t) ==
    /\ Begun(t)
    /\ LET u == job[t].uri
       IN  /\ Store!Open(docs[u])
           /\ u \in FileUris => file[u] = docs[u].buffer
           /\ Store!DidSave(t, u, None)
    /\ ToObserve(t)
    /\ UNCHANGED <<obs, cache, log, saved, base, up, starts>>

DidClose(t) ==
    /\ Begun(t)
    /\ LET u == job[t].uri
       IN  /\ \/ "careless close" \in Practices
              \/ Store!Open(docs[u]) /\ docs[u].disk # None
           /\ Store!DidClose(t, u)
           /\ IF Store!Open(docs[u]) THEN Invalidate(u) ELSE UNCHANGED cache
    /\ ToObserve(t)
    /\ UNCHANGED <<obs, log, saved, base, up, starts>>

(* What an operation does inside the store after its first step.           *)
StoreStep(t) ==
    /\ up
    /\ \/ Store!Answer(t) \/ Store!LoadNewCommit(t) \/ Store!Count(t)
       \/ Store!RefreshRead(t) \/ Store!RefreshBaseline(t)
       \/ Store!RefreshCount(t) \/ Store!RefreshEnd(t)
    /\ UNCHANGED <<job, obs, cache, log, saved, base, up, starts>>

(* Of each file that changed the refresh keeps the text before.            *)
NotifyingStepLate(t) ==
    /\ up
    /\ \/ /\ Store!SaveCount(t)
          /\ Invalidate(run[t].uri)
          /\ UNCHANGED job
       \/ /\ Store!RefreshUpdate(t) \/ Store!RefreshRemove(t)
          /\ IF docs' = docs THEN UNCHANGED <<cache, job>>
             ELSE LET u == run[t].now.uri
                  IN  /\ Invalidate(u)
                      /\ job' = [job EXCEPT ![t].before[u] = Store!Stored(docs'[u])]
    /\ UNCHANGED <<obs, log, saved, base, up, starts>>

NotifyingStep(t) ==
    /\ up
    /\ \/ /\ Store!SaveCount(t)
          /\ Invalidate(run[t].uri)
          /\ UNCHANGED job
       \/ /\ Store!RefreshUpdate(t) \/ Store!RefreshRemove(t)
          /\ IF docs' = docs THEN UNCHANGED <<cache, job>>
             ELSE LET u == run[t].now.uri
                  IN  /\ Invalidate(u)
                      /\ job' = [job EXCEPT ![t].before[u] = Store!Stored(docs[u])]
    /\ UNCHANGED <<obs, log, saved, base, up, starts>>

-----------------------------------------------------------------------------
(* refresh_workspace: each newly discovered file is loaded and observed,   *)
(* then the known files are refreshed and every change observed.           *)

RefreshWorkspace(t) ==
    /\ up
    /\ Resting(t)
    /\ Store!Discover(t)
    /\ job' = [job EXCEPT ![t] = [op |-> "discovered", new |-> Store!NewFiles]]
    /\ UNCHANGED <<obs, cache, log, saved, base, up, starts>>

Observed(t) == run[t] = Store!Idle /\ result[t] = << >> /\ obs[t] = NoObs

LoadNew(t) ==
    /\ up
    /\ job[t].op = "discovered"
    /\ Observed(t)
    /\ \E u \in job[t].new :
          /\ \A v \in job[t].new : Store!Before(u, v)
          /\ IF Store!Stored(docs[u]) # None
             THEN /\ job' = [job EXCEPT ![t].new = @ \ {u}]
                  /\ UNCHANGED storeVars
             ELSE IF file[u] = None
             THEN job' = [job EXCEPT ![t] = NoJob] /\ UNCHANGED storeVars
             ELSE /\ Store!LoadNewRead(t, u)
                  /\ job' = [job EXCEPT ![t].new = @ \ {u}]
    /\ UNCHANGED <<obs, cache, log, saved, base, up, starts>>

RefreshDisk(t) ==
    /\ up
    /\ job[t].op = "discovered"
    /\ Observed(t)
    /\ job[t].new = {}
    /\ Store!RefreshStart(t)
    /\ job' = [job EXCEPT ![t] = [op |-> "refreshed", before |-> [u \in Uris |-> None]]]
    /\ UNCHANGED <<obs, cache, log, saved, base, up, starts>>

(* The call returns once nothing is left to observe.                       *)
Finish(t) ==
    /\ up
    /\ job[t].op \in {"observe", "refreshed"}
    /\ Observed(t)
    /\ job' = [job EXCEPT ![t] = NoJob]
    /\ UNCHANGED <<storeVars, obs, cache, log, saved, base, up, starts>>

-----------------------------------------------------------------------------
(* observe_change and observe_removal of the next change in result[t].     *)

Before(t, u) ==
    CASE job[t].op = "observe" -> job[t].before
      [] job[t].op = "refreshed" -> job[t].before[u]
      [] job[t].op = "discovered" -> None

ObserveAnalyse(t) ==
    /\ up
    /\ run[t] = Store!Idle /\ result[t] # << >> /\ obs[t] = NoObs
    /\ LET c == Head(result[t])
           text == Store!Stored(Store!Loaded(c.uri))
           observe(at, seen) ==
               obs' = [obs EXCEPT ![t] =
                         [step |-> "analysed", at |-> at,
                          event |-> [uri |-> c.uri, text |-> seen,
                                     generation |-> c.generation,
                                     before |-> <<Before(t, c.uri)>>]]]
       IN  \/ /\ job[t].op = "observe" /\ c.generation = job[t].replaced
              /\ result' = [result EXCEPT ![t] = << >>]
              /\ UNCHANGED <<docs, claims, job, obs, cache>>
           \/ /\ ~(job[t].op = "observe" /\ c.generation = job[t].replaced)
              /\ c.removed
              /\ observe(c.generation, None)
              /\ UNCHANGED <<docs, claims, result, job, cache>>
           \/ /\ ~(job[t].op = "observe" /\ c.generation = job[t].replaced)
              /\ ~c.removed /\ text # None
              /\ Analyse(c.uri)
              /\ observe(Snapshot(c.uri, text).generation, text)
              /\ UNCHANGED <<result, job>>
           \/ /\ ~c.removed /\ text = None
              /\ result' = [result EXCEPT ![t] = << >>]
              /\ job' = [job EXCEPT ![t] = NoJob]
              /\ UNCHANGED <<docs, claims, obs, cache>>
    /\ UNCHANGED <<file, generation, scan, run, log, saved, base, up, starts>>

Current(o) == generation = o.event.generation /\ o.at = o.event.generation

ObserveDone(t) ==
    /\ obs' = [obs EXCEPT ![t] = NoObs]
    /\ result' = [result EXCEPT ![t] = Tail(@)]

(* The stale-work guard.                                                   *)
ObserveGuard(t) ==
    /\ up
    /\ obs[t].step = "analysed"
    /\ IF Current(obs[t])
       THEN obs' = [obs EXCEPT ![t].step = "checked"] /\ UNCHANGED result
       ELSE ObserveDone(t)
    /\ UNCHANGED <<file, docs, claims, generation, scan, run, job, cache, log, saved,
                   base, up, starts>>

ObservePush(t) ==
    /\ up
    /\ obs[t].step = "checked"
    /\ log' = Append(log, obs[t].event)
    /\ obs' = [obs EXCEPT ![t].step = "pushed"]
    /\ UNCHANGED <<storeVars, job, cache, saved, base, up, starts>>

(* Checkpoint identities taken from the files instead of the documents.    *)
PersistFiles(t) ==
    /\ up
    /\ obs[t].step = "pushed"
    /\ obs' = [obs EXCEPT ![t] = [step |-> "identified", documents |-> file]]
    /\ UNCHANGED <<storeVars, job, cache, log, saved, base, up, starts>>

(* persist_checkpoint: first the identity of every known document, which   *)
(* loads those that are not loaded, then the history.                      *)
PersistDocuments(t) ==
    /\ up
    /\ obs[t].step = "pushed"
    /\ docs' = [u \in Uris |-> IF docs[u].known THEN Store!Loaded(u) ELSE docs[u]]
    /\ claims' = [m \in Modules |->
                    claims[m] \cup {u \in Uris : docs'[u] # docs[u]
                                                /\ Store!EffectiveModule(docs'[u]) = m}]
    /\ obs' = [obs EXCEPT ![t] = [step |-> "identified", documents |-> ContentOf(docs')]]
    /\ UNCHANGED <<file, generation, scan, run, result, job, cache, log, saved, base,
                   up, starts>>

PersistHistory(t) ==
    /\ up
    /\ obs[t].step = "identified"
    /\ saved' = [documents |-> obs[t].documents, log |-> log, generation |-> generation]
    /\ ObserveDone(t)
    /\ UNCHANGED <<file, docs, claims, generation, scan, run, job, cache, log, base,
                   up, starts>>

-----------------------------------------------------------------------------
(* The host dies; what it knew is gone but for the checkpoint.             *)
Crash ==
    /\ up
    /\ "crashes" \in Practices
    /\ starts < MaxStarts
    /\ up' = FALSE
    /\ docs' = [u \in Uris |-> Store!Unknown]
    /\ claims' = [m \in Modules |-> {}]
    /\ scan' = {}
    /\ run' = [t \in Threads |-> Store!Idle]
    /\ result' = [t \in Threads |-> << >>]
    /\ job' = [t \in Threads |-> NoJob]
    /\ obs' = [t \in Threads |-> NoObs]
    /\ cache' = [u \in Uris |-> NoSnapshot]
    /\ UNCHANGED <<file, generation, log, saved, base, starts>>

(* configure_root of a new host: the files the checkpoint does not         *)
(* identify get a generation each, and all their events the last one.      *)
Differing == {u \in Uris : file[u] # None /\ file[u] # saved.documents[u]}

(* The members of S in the order of the document map.                      *)
InOrder(S) ==
    {s \in [1 .. Cardinality(S) -> S] :
        /\ \A u \in S : \E i \in DOMAIN s : s[i] = u
        /\ \A i, j \in DOMAIN s : i <= j => Store!Before(s[i], s[j])}

Reconciled(order, gen) ==
    [i \in DOMAIN order |->
       [uri |-> order[i], text |-> file[order[i]], generation |-> gen, before |-> << >>]]

Resume(events, gen) ==
    /\ ~up
    /\ \/ "removal while down" \in Practices
       \/ \A u \in Uris : saved.documents[u] # None => file[u] # None
    /\ gen <= MaxGeneration
    /\ up' = TRUE
    /\ starts' = starts + 1
    /\ docs' = LoadedDocs
    /\ claims' = ClaimsOf(docs')
    /\ generation' = gen
    /\ cache' = [u \in Uris |->
                   IF \E i \in DOMAIN events : events[i].uri = u
                   THEN [text |-> file[u], generation |-> gen] ELSE NoSnapshot]
    /\ log' = saved.log \o events
    /\ saved' = [documents |-> ContentOf(docs'), log |-> log', generation |-> gen]
    /\ UNCHANGED <<file, scan, run, result, job, obs, base>>

(* Each event checked against its own generation: only the last one passes. *)
RestartOneByOne ==
    LET gen == saved.generation + Cardinality(Differing)
    IN  \E order \in InOrder(Differing) :
          Resume(IF order = << >> THEN << >> ELSE <<Reconciled(order, gen)[Len(order)]>>, gen)

Restart ==
    LET gen == saved.generation + Cardinality(Differing)
    IN  \E order \in InOrder(Differing) : Resume(Reconciled(order, gen), gen)

-----------------------------------------------------------------------------
Thread(t) ==
    \/ \E u \in Uris : Query(t, u) \/ BeginChange(t, u)
    \/ \E text \in Contents : DidOpen(t, text)
    \/ DidSave(t) \/ DidClose(t) \/ StoreStep(t) \/ NotifyingStep(t)
    \/ RefreshWorkspace(t) \/ LoadNew(t) \/ RefreshDisk(t) \/ Finish(t)
    \/ ObserveAnalyse(t) \/ ObserveGuard(t) \/ ObservePush(t)
    \/ PersistDocuments(t) \/ PersistHistory(t)

Next ==
    \/ \E u \in Uris, text \in Text : WriteFile(u, text)
    \/ \E t \in Threads : Thread(t)
    \/ Crash \/ Restart

Spec == Init /\ [][Next]_vars

-----------------------------------------------------------------------------
(* Every variable has its type; the variables of the store have theirs.    *)
TypeOK ==
    /\ Store!TypeOK
    /\ cache \in [Uris -> Snapshots]
    /\ log \in Seq(Events)
    /\ saved \in [documents : [Uris -> Text], log : Seq(Events), generation : Nat]
    /\ base \in [Uris -> Text]
    /\ up \in BOOLEAN /\ starts \in 1 .. MaxStarts

(* The text a consumer that read the history to its end has for u.         *)
Told(history, u) ==
    LET mine == {i \in DOMAIN history : history[i].uri = u}
    IN  IF mine = {} THEN base[u]
        ELSE history[CHOOSE i \in mine : \A j \in mine : j <= i].text

(* "Workspace edits from LSP buffers and filesystem refreshes converge":   *)
(* when no request is in progress, a consumer that read every event knows  *)
(* the winning text of every document, whatever editors, files and crashes *)
(* did before.                                                             *)
EventsTellTheWorkspace ==
    AtRest => \A u \in Uris : Told(log, u) = Store!Stored(docs[u])

(* The same when a refresh returns with nothing else in progress: probes   *)
(* and pollers refresh first, and take what they are then told for current.*)
RefreshTellsTheWorkspace ==
    [][\A t \in Threads : job[t].op = "refreshed" /\ AtRest' =>
         \A u \in Uris : Told(log, u)' = Store!Stored(docs[u])']_vars

(* "An analysis that finished after a newer edit is never published as a   *)
(* current event": what is pushed is of the workspace's generation.        *)
NeverStale ==
    [][up /\ log' # log => log'[Len(log')].generation = generation]_vars

(* Deltas fold: what an event says was added, changed and resolved in a    *)
(* document a consumer knows is relative to the very text the event before *)
(* it told (observe_change, project_change).                               *)
DeltasFold ==
    \A i \in DOMAIN log :
        LET told == Told(SubSeq(log, 1, i - 1), log[i].uri)
        IN  (log[i].before # << >> /\ told # None) => log[i].before[1] = told

(* The same from nothing: of a document that is new to the consumer        *)
(* everything is added.                                                    *)
DeltasFoldFromNothing ==
    \A i \in DOMAIN log :
        LET told == Told(SubSeq(log, 1, i - 1), log[i].uri)
        IN  (log[i].before # << >> /\ told = None) => log[i].before[1] = None

(* The checkpoint never identifies a text its own history does not tell:   *)
(* whatever a restart takes for unchanged has been announced.              *)
CheckpointTellsItsDocuments ==
    \A u \in Uris : Told(saved.log, u) = saved.documents[u]
=============================================================================
