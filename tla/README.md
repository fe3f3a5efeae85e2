# Verification of the MNCS language service

This directory models the MNCS language service in TLA+, checks the models with
TLC and proves theorems about them with TLAPS. Paths are relative to the root
of the repository.

## 1. The system

One resident host per workspace (`crates/service-core`) keeps every document of
the workspace, analyses it with the compiler's front end, answers queries from
the analyses and tells its clients what changed. Editors reach it through the
LSP adapter, agents through the MCP adapter and the provider command
(`tools/mnls_provider.py`); all of them speak to it over a Unix socket. The host
serves every connection with a thread of its own, and no operation holds a lock
from its beginning to its end: whatever two handlers do interleaves.

| component | state | operations | what makes it correct |
|---|---|---|---|
| **event hub** (`events.rs`) | stream identity, last cursor, a bounded window of events | restore, push, poll | the window is one gap-free run; a poll is exact or demands a reset |
| **event delivery** (`events.rs`, `queries.rs`) | the hub, its checkpoint file, what consumers hold | publish, snapshot, rename, restart; poll, take, reconcile | what a consumer reads is a contiguous part of what the stream told, across crashes |
| **capsule and status** (`ambient.rs`, `mncs/semantic_capsule.mncs`) | none that outlives a request | semantic_capsule, service_status | the cursor handed out is not past what was measured; what is admitted is ranked, bounded and counted |
| **document store** (`document.rs`) | documents (disk text, editor buffer), module claims, generation, discovery lock | open, change, edit, save, close, load, discover, refresh, reconcile | the module directory agrees with the texts; editors win over files; no edit is lost |
| **change observation and checkpoint** (`queries.rs`) | checkpoint file, cached analyses | begin_change, observe_change, observe_removal, refresh_workspace, persist_checkpoint, configure_root | a consumer that reads every event knows the workspace, across crashes |
| **resident analyses** (`queries.rs`, `modules.rs`, `analysis.rs`) | analyses, index entries, last ensured version | snapshot, change callback, publish, ensure | what is served is what a new analysis would say |
| **workspace index, references, calls, rename** (`workspace_index.rs`, `queries.rs`, `intel.rs`, `rename.rs`) | eight maps over the entries of all documents | publish, remove, evict; references, callers, rename | the maps are what the entries contribute; an answer names what the texts say |
| **relations** (`queries.rs`, `native_relation.rs`) | the frontier of one walk | transitive dependents, callers | bounded answers are exact or say that they are cut |
| **native kernels** (`native_*.rs`, `ambient.rs`, `render.rs`) | compiled kernels, cached | prepare, serve; batches and windows | a kernel is of the library it is labelled with; batches lose and repeat nothing |
| **positions, ranged edits** (`coords.rs`, `native_coords.rs`, `mncs/coordinate_map.mncs`, `edits.rs`) | the buffer of a document; line indexes, as a cache | position_of, offset_of, did_change | editor and service hold one text |
| **formatter** (`format.rs`) | none | formatting, range_formatting | formatting settles and keeps every token, of a range as of a document |
| **remote client, host connections** (`client.rs`) | one connection per client, requests and answers on it | call, reconnect, resend, serve | a success is one of this call; a resend does no harm |
| **LSP session** (`crates/lsp`) | what the editor, the wire and the service hold of a document | open, change, save, close, diagnostics | diagnostics an editor shows are of the text it has |
| **language knowledge** (`language_knowledge.rs`) | two files another repository generates | query, identity_delta | a difference tells every change between two versions |
| **family context** (`family_context.rs`) | one query of four sources, some of them processes | query, run_json_command | what is called complete is vouched for; a query ends |
| **provider command** (`tools/mnls_provider.py`) | lease, socket, host process | ensure, stop, status, poll, capsule, query | one host per workspace; nobody else's process is signalled |
| **candidates, code actions, hover, completion** | none | projections of one snapshot | |
| **MCP server** (`crates/mcp`), **static syntax** (`crates/static-syntax`) | none | translation of tool calls; tokens and grammars | |

How they interact: an adapter or an agent calls the host; the handler changes
the *document store*; the store's change callback drops *analyses* and *index*
entries; the handler analyses the document anew, pushes an event into the *event
hub* and writes a *checkpoint*; consumers poll the hub by `(stream, cursor)`, or
read a *capsule*, which hands them a cursor to go on from; a host that starts
again reads the checkpoint and reconciles the files with it. Queries join
documents through the *index* and walk its relations with the *kernels*.

What is hard: handlers that interleave at every lock they release; files that
change at any time; a host that dies between two steps of a handler; answers
that are lost, late or repeated; caches whose validity is a property of other
documents; kernels of a fixed size behind queries of any length; and a bounded
history that consumers outlive.

`PROJECT.json` lists these behaviours one by one as hazards, each at its line
with the properties that watch it.

## 2. Modules

| module | models | checked by | proved in |
|---|---|---|---|
| `EventHub` | `events.rs`: `EventHub` | `MCEvents` | `EventHubProofs` |
| `ChangeStream` | what a consumer is promised: the abstract specification | as a property of `EventDelivery` | |
| `EventDelivery` | hub, checkpoint, crashes, restarts, consumers; instantiates `EventHub`, implements `ChangeStream` | `MCEventDelivery` | `EventDeliveryProofs` |
| `Capsule` | `semantic_capsule`, `service_status` beside editors and queries; instantiates `EventHub` | `MCEvents` | `EventHubProofs` |
| `CapsulePolicy` | order, envelope and admission of findings | `MCQueries` | |
| `DocumentStore` | `document.rs`: `DocumentStore` | `MCDocumentStore` | `DocumentStoreProofs` |
| `WorkspaceChanges` | from a change of the store to an event and a checkpoint; instantiates `DocumentStore` | `MCWorkspaceChanges` | `WorkspaceChangesProofs` |
| `ResidentAnalysis` | analyses, change callback, publication, ensure | `MCQueries` | `ResidentAnalysisProofs` |
| `SymbolIndex` | the maps of the index; references, callers, rename | `MCQueries` | `QueryProofs` |
| `RelationWalk` | the transitive walks and the kernel that admits first visits | `MCQueries` | `QueryProofs` |
| `NativeWindows` | batches and windows of the filter, completion and status kernels | `MCQueries` | |
| `KernelCache` | the caches of compiled kernels | `MCQueries` | `QueryProofs` |
| `Coordinates` | `coords.rs`: `PositionMap`, with the kernels it calls; operators | `MCQueries`, through `EditorMirror` | |
| `EditorMirror` | `did_change` of the LSP adapter, `did_change_incremental`, `edits.rs`; extends `Coordinates` | `MCQueries` | |
| `Formatting` | `format.rs` | `MCQueries`, and by itself | |
| `RemoteClient` | `RemoteLanguageService`, `handle_connection` | `MCClients`, and by itself | `ClientProofs` |
| `LspSession` | `crates/lsp`: notifications and the diagnostics they cause | `MCClients` | `ClientProofs` |
| `LanguageKnowledge` | `language_knowledge.rs`: index, history, merged difference | `MCClients` | `ClientProofs` |
| `FamilyContext` | `family_context.rs`: `query` and its verdict | `MCClients` | `ClientProofs` |
| `AuthorityQuery` | `family_context.rs`: `run_json_command` | `MCClients` | |
| `Provider` | `cmd_ensure`, `cmd_stop`, `terminate_owned`, `probe`, `serve_unix` | `MCClients` | `ProviderProofs` |

Four of the MC modules hold several models that share no state: `MCEvents`,
`MCDocumentStore`, `MCQueries` and `MCClients`. Their variable `subject` names
the model a behaviour is about; the others stay at one initial state. A run of
such a module therefore checks the models side by side and not their product,
and its fairness is that of each model for behaviours about it.

**The grain of atomicity** is the code's locks: what happens under one guard is
one action, and every release of a guard, file read or copied value ends an
action. Four places are coarser than that: the walk of `discover_workspace_impl`
(one step; it only registers documents without text), the loading loop of
`checkpoint_identities` (one step; each iteration is an `EnsureLoaded`),
`configure_root` of a new host, which no client can reach before it returns, and,
in `WorkspaceChanges`, `snapshot`, which reads text and generation in one step,
and the analysis a refresh takes of a document before it changes it, which is
taken with the change (another thread could come between the two; the run has
one request thread).

**EventHub.** A hub is the record `[stream, next, events]` under the hub's one
mutex. `RestoreStream`, `RestoreCheckpoint` and `Push` are the functions of the
same names, `PollFor` the answer of `poll_for`, asked in every state for every
request of a small set. Identities are model values; the projected content of an
event is its source and cursor.

**EventDelivery, ChangeStream.** `Publish`, `Snapshot` and `Rename` are the three
moments of `observe_change` and `persist_checkpoint` that others can see,
`PersistFails` every error return of the latter, after the event is out; `Crash`
keeps the renamed file only; `Restart` adopts the checkpoint or starts a fresh
stream. A consumer is a client of `mnls poll`: it holds `(stream, cursor)`, takes
pages, loses answers and reconciles on a reset. `ChangeStream` knows neither
hosts nor files: a stream tells changes, a new host resumes it (and may forget
its end) or renews it, and a consumer reads on, or joins anew, or goes astray.
`EventDelivery!ImplementsChangeStream` maps what was told to the history `log`,
the live stream to that of the host (or of the file while no host runs), and a
consumer's reading to the steps that take an answer.

**Capsule.** `request` is the capsule or status being answered: stream, cursor and
window are read in three steps, and the documents one by one, for diagnostics and
again for obligations, among the steps of editors and queries. A version of a
text stands for what its analysis says; `known` is what the consumer has been
told.

**CapsulePolicy.** `findings` are the measured ones by index (`Measure` adds one),
`OrderWindow` streams one window of them through the ordering kernel, which keeps
an `envelope`, and `Select` is the policy kernel with its two budgets and its
counters of what is left out.

**DocumentStore.** `docs[u]` is the entry of the document map, `claims`
`module_claims`, `scan` the holder of `discovery_lock`, `run[t]` the operation a
thread is inside of, with the local variables it carries over a released guard,
and `result[t]` what it returns. A refresh carries the candidates it still has
to read (`todo`), the one it has read (`now`, `text`) and whether an editor or a
file change came between (`quiet`, for the properties). A text is a set of edits.
`WriteFile` is any other program. `Spec` lets every thread change documents;
`OneEditorSpec(editor)` leaves that to one of them, while all serve requests. It is
the case of a workspace with one editor: the LSP adapter finishes one notification
before it takes the next.

**WorkspaceChanges.** `job[t]` is the service call of a thread, `obs[t]` the
progress of `observe_change`, `cache` the analyses as (text, generation), `log`
all events ever pushed, each with the text its deltas start from, `saved` the
checkpoint file, `base` what a consumer knew before the first event. What the
environment does is a set of named *practices* (see the runs). The history is
unbounded here, as `EventHub` and `EventDelivery` cover its bound.

**ResidentAnalysis.** A document is its winning text; an analysis remembers the
texts it `consumed` (for the properties) and the direct `deps` the code keeps.
`Resolve` is one call of the compiler's module resolver, in any order, so that
texts change between two of them. `DropAnalyses` and `DropEntries` are the two
locks of `invalidate_transitive_importers`. The run has two instances: many texts
with one request at a time, and fewer with two threads (`Racing`).

**SymbolIndex.** An entry of a document contributes pairs of a key and a value to
the maps of `WorkspaceIndex`; `PublishEntry` and `RemoveEntry` change entries and
maps as the code does. A query begins at a declaration or a use
(`AtDeclaration`, `AtUse`) and goes on in the steps the requests do: `Ensure`,
`Target`, then `Declarations`, `Collect` and `CollectSites`, or `NameCallers`;
texts change (`Edit`) and entries are published between any two. A key is
(place, kind, name), as in the code: which document declares it is not part of
it.

**RelationWalk.** `codes` are the numeric codes in order of encounter, `batch`
what is sent to the kernel next, `kernel` the `WalkState` the kernel returns: the
codes it has seen, its frontier and its level. Edges come and go between two
candidates; `ever` and `always` remember them, so that `WalkExact` can say between
which sets the answer lies.

**NativeWindows.** One query looks at names of a few sizes, sends batches bounded
by number and work, and keeps hits; the host matches a name or needle that does
not fit and a batch the kernel refuses.

**KernelCache.** `library` may change, and change back, between any two
resolutions of a request; `current[t]` is the history of texts during request t.
`policy` says which modules are compared with the label of a cached kernel and
what the label is: `ambient.rs` compares all and labels with what was compiled;
`native_relation.rs` compares the two modules it names and labels with what was
compiled, so that a module those import may be out of date in the kernel;
`native_query.rs` and `native_filter.rs` compare the one they name and label with
what was resolved before compiling.

**RemoteClient.** `requests[k]` and `responses[k]` are the two directions of a
connection; what is left on a connection the client has given up is still
served.

**LspSession.** `inbox` is the editor's notifications in order, `outbox` the
diagnostics on their way, a set, since every message is sent by a task of its
own. `ChecksVersion` and `ReopensLate` are what is assumed of an editor.

**LanguageKnowledge, FamilyContext, AuthorityQuery.** The generator writes its two
files one after the other; a query reads them one after the other, of the first
place that has them. The family query reads manifest, validator, inventory,
language and Commons in the order of the code and ends with the verdict. A tool
writes to a pipe of bounded capacity which the caller reads only after it has
seen the tool end.

**Provider.** A process is its *birth*, a number that is never used again; its
PID may be. A lease carries both: the birth stands for start time, PID namespace
and executable bytes, which `current_process_identity` records. `agent[a]` is one
run of the command: where it is (`step`) and the variables it carries from step
to step, so that every file operation, request, signal and `/proc` lookup is an
action others can come between. `Interrupt` kills a run before any step of
`Interruptible`; `OperatorHost` is a host nobody leased; `Unrelated` takes a free
PID. `mishaps` bounds what goes wrong.

**Coordinates, EditorMirror.** A text of the service is a sequence of bytes of
which only the part in UTF-8 is kept; the editor's is a sequence of scalars.
`Chunk`, `LineIndex` and `Window` are `build_line_index` and `window_index`,
`Checkpoints` what both kernels compute, `PositionOf` and `OffsetOf` the two
queries; `ReferencePosition` and `ReferenceOffset` say the same of the whole text
at once, as the unit tests of `coords.rs` do. `EditOnce`, `EditTwice` and
`SendFull` are notifications of an editor that keeps to the protocol, `SendMixed`
is one of an editor that does not. The library that decodes a scalar is not part
of the repository. The windows handed to it may end inside a scalar, and
`CutScalarIsValid` says whether it accepts that; `mncs/coordinate_map.mncs` rests
on it that the library does. A lone CR ends no line here or in the code, and the
model's editor sends none.

**Formatting.** A text is its lines, a line its symbols. `Scan`, `Indented`,
`Collapse` and `Format` are `scan_line` and the three parts of `format_text`,
`RangeFormat` is `range_formatting` and the edits it answers with, applied.

## 3. Runs

Passing runs:

| run | bounds | shows |
|---|---|---|
| `events` | capacity 3, cursors to 7, 2 streams, every window of up to 2 stored events, well formed or not, gap-free ones of up to 4; capsules: 2 documents of 2 versions, 2 answers, a window of 1 event | the window is gap-free, polls are exact, a retained cursor resumes; a capsule covers its cursor |
| `event_delivery` | capacity 2, 3 cursors, 2 starts, 2 request threads, 1 consumer, pages of 0 and 2, fairness | no silent gap for a consumer whose events survived; the checkpoint is history; all of it implements `ChangeStream`; consumers catch up |
| `store` | 2 documents, one of them a file, 1 edit, 2 threads, files change at any time; 2 files, 2 edits, 1 thread, files change between requests; and 1 file, 2 edits, 2 threads of which one is the editor's, the file changes at any time; 3 generations | claims complete, refreshes converge, open buffers stay; with one request at a time also claims exact; with one editor its edits compose |
| `changes` | 2 files, 2 texts, 1 thread, 2 generations, 2 starts, one file changed at a time and any files while the host is down, new files, queries, saves, crashes | events tell the workspace and their deltas fold, also after a crash; a checkpoint's history tells its documents |
| `queries` | per part: 2 documents of 2 texts; 4 scalars of 1 to 4 bytes, chunks of 6 bytes, checkpoints every 4; 4 symbols of 8; 5 documents, one missing at times, one module with two possible owners, indirect imports; 2 documents with 2 threads; 4 nodes with cycles, batches and answers of 2; names of 3 sizes, batches of 3, 2 answers; 2 library modules, one of them named, 2 requests, 2 changes, 3 policies; 5 findings, an envelope of 4 | index and queries exact, analyses honest, fast path sound, served analyses of current imports whatever the threads do, text and positions exact, formatting settles, walks, batches and admission meet their definitions, kernels are current |
| `clients` | of the provider command 1 run at a time, 2 PIDs, 2 bindings, 5 processes, 3 mishaps; 3 calls on 4 connections; 1 document, 4 texts (one too large), 7 notifications; 3 versions of 2 items, a history of 2; every combination of good sources and sources with one thing wrong; pipes of 2, answers to 3, 3 polls; fairness | own hosts only are signalled, one host, running hosts keep their address, ensure ends with the selected host or a refusal for cause; a success is of this call, every call returns; diagnostics of a version are of its text and settle; differences tell every change; complete contexts are vouched for; every tool query ends |

Runs that refute what the documentation says, each a finding in `PROJECT.json`:

| run | what happens |
|---|---|
| `changes_many` | two files change between two refreshes, everything else as in `changes` or tamer: only the last change becomes an event |
| `remote_client_retry` | a ranged edit whose answer is late is sent again and applied twice |
| `range_format` | the formatter drops a leading blank line and adds a final line break; the counts of lines then agree by accident, the lines are shifted by one, and formatting only the last line deletes it |
| `rename` | another document declares the same name at the same place: its uses are renamed too |
| `authority_pipe` | a valid answer of a tool that would succeed does not fit the pipe and holds the tool up until it is killed at the deadline |
| `status_kernel` | a request resolves a library text, the library changes, the request compiles the new text and labels it with the old identity; when the library changes back, that kernel is reused for the old text |

Other statements of the modules hold or fail beyond what the runs ask. They were
checked with the configurations of the runs, changed as said; each is refuted:

| beyond the passing run | refuted |
|---|---|
| `EventDelivery`: an event was polled before its checkpoint was written and a crash erased it; docs/ambient-semantic-coherence.md:135 promises stream continuity | `NoSilentGapEver` |
| `EventDelivery`: two workers rename checkpoints out of order, or a checkpoint fails | `QuiescentIsDurable` |
| `Capsule`: a status reports a cursor past the documents it counted | `StatusCoversItsCursor` |
| `Capsule`: more events are unread than one window holds; ambient.rs:996-997 says the changes are measured from the events after the known cursor | `WindowReachesCursor` |
| `Capsule`: a document changes between the walk of the diagnostics and that of the obligations | `ObligationsComplete` |
| `DocumentStore`: two threads, files that change while a refresh is under way | `ClaimsExact` |
| `DocumentStore`: two editors edit one document (`Spec` with two threads) | `EditsCompose` |
| `WorkspaceChanges`: a file an editor opens before a refresh has found it | `DeltasFoldFromNothing` |
| `WorkspaceChanges`: early queries; a buffer closed unsaved; a file removed while the host is down | `RefreshTellsTheWorkspace`, `EventsTellTheWorkspace` |
| `WorkspaceChanges`: two editors | `NeverStale`, `CheckpointTellsItsDocuments` |
| `ResidentAnalysis`: an importer is analysed and not indexed (`Unindexed`); docs/architecture.md:155 promises that all transitive importers are dropped | `SnapshotsHonest` |
| `ResidentAnalysis`: a module imported indirectly changes its owner; a missing import appears | `SnapshotsHonest` |
| `ResidentAnalysis`: two threads | `FastPathSound`, `IndexedWhenCached` |
| `ResidentAnalysis`: an import that was not found when the importer was analysed, and is loaded later | `DirectImportsCurrent`, if it spoke of missing imports too |
| `RemoteClient`: a late whole text (`Ranged = FALSE`, two calls) | `IdempotentInEffect` |
| `LspSession`: an editor that reopens a document while messages about it are on their way (`ReopensLate = FALSE`) | `DiagnosticsOfVersion`, `DiagnosticsSettle` |
| `LspSession`: an editor that does not compare versions (`ChecksVersion = FALSE`) | `DiagnosticsSettle` |
| `LanguageKnowledge`: a difference that was cut short is still called complete (`Requests = {1}`) | `CompleteDeltaIsWhole` |
| `FamilyContext`: collections the service itself cuts short do not make a context partial; docs/family-agent-context.md:61-62 says they do | `CompleteIsWhole` |
| `Provider`: two runs of `ensure` at once, nothing else | `OneHost` |
| `EditorMirror`: one notification holds a full text and a range | `MirroredMixed` |
| `EditorMirror`: the library refuses a scalar its input cuts (`CutScalarIsValid = FALSE`) | `PositionsExact` |
| `Formatting`: code, or a block comment, that is not ASCII: `scan_line` slices the line inside a character | `FormatAnswers` |

The type invariants `TypeOK` are proved for `EventHub`, `EventDelivery`,
`DocumentStore`, `RemoteClient` and `Provider`, as part of the inductive
invariants of `KernelCache` and `LspSession`, and, as far as the proofs need it,
of `WorkspaceChanges`, `ResidentAnalysis`, `Capsule`, `LanguageKnowledge` and
`FamilyContext`; those of `WorkspaceChanges`, `ResidentAnalysis` and
`EditorMirror` were checked with the configurations of the runs. No run spends its time on them.

Why the bounds are enough: a window of capacity 2 or 3 has a first, a last and a
middle event and drops some; two threads are what every race here needs, since
each is a step of one between two steps of another; two documents give a claim
two claimants and a refresh two changes; an importer of an importer separates the
direct import, which is compared, from the indirect one, which is not; two
generations and two starts let a change before a crash meet one after it, or two
files that changed while the host was down meet each other; two
PIDs are used again after two processes, and three mishaps are a host that dies,
a PID that is taken over and a run that is killed (four mishaps and seven
processes hold as well); four scalars of four bytes fill three chunks, straddle
chunks and checkpoints at every offset and need the whole of a window (a window a
lookahead shorter fails); four symbols open, close and comment on several lines;
batches and answers of two among four nodes overflow in the middle of a level and
of a batch; five findings with an envelope of four take a second window, which
must displace findings of the first; three versions with a history of two let a
query meet a chain it can follow, one that begins too late and one that is of the
other file's age; seven notifications open, change, refuse, close and open a
document again. `EventDelivery` holds with four cursors as well. Every bound is a
constant (`MaxCursor`, `MaxStarts`, `MaxGeneration`, `MaxChanged`, `MaxEdits`,
`MaxMoves`, `MaxGiven`, `MaxChanges`, `MaxFindings`, `MaxVersion`, `MaxVersions`,
`MaxAnswers`, `MaxTexts`, `MaxMessages`, `MaxCalls`, `MaxConnections`,
`MaxBirths`, `MaxMishaps`, `MaxScalars`, `MaxPair`, `MaxTyped`) and occurs only in
guards. `CHECK_DEADLOCK FALSE` is set where a bound stops the model and the
program would go on.

Three exclusions of the run `clients` are assumptions about its users, and the
code does not protect itself against their absence: runs of the command do not
overlap (it takes no lock); a run is not killed between `Popen` and the lease
(the host would have no lease); an operator does not start a host while a run is
under way. `EnsureConverges` (`CommandConverges` of the run) admits the refusals that only an operator can
resolve: a host that is not ours, an unrelated process under the leased PID, and
a lease without process identity, which remains when a host dies before its
identity is read and the run is killed before it notices.

## 4. Fairness

- `EventDelivery!FairSpec`: a consumer keeps polling while a host is up (weak
  fairness of `Poll`) and of the answers it waits for not all are lost (strong
  fairness of taking one). Nothing is assumed of the host: it need not publish,
  and nobody has to restart it.
- `RemoteClient`: a read ends, which `connect` ensures by a read timeout; the
  host need not answer.
- `LspSession`: the server goes on with the notifications it has (one task reads
  them in order) and the tasks that send diagnostics do so in the end; the editor
  need not send anything.
- `AuthorityQuery`: the caller's loop goes on. Nothing is assumed of the tool,
  which may never write, never end, or leave the pipe to a process of its own.
- `Provider!FairSpec`: callers call `ensure` again, no step of a run and no start
  of a host takes for ever, and a wait that keeps finding a host it did not ask
  for meets its deadline (strong fairness of `WrongStart`: the deadline is a time,
  the loop it ends is not).

## 5. Theorems

Assumptions: those the modules name on their constants (`CapacityAssumption` and
the like: capacities are positive, sets have the types their names say), and the
hypotheses stated below where a theorem has some. Each invariant is strengthened to an inductive one, which TLC checked on
the run's instance before it was proved.

`EventHubProofs`, for every capacity, every set of streams and every checkpoint
that is restored:

- `HubTypeCorrect`, `HubWindowInvariant`: `WindowInv` is inductive together with
  `TypeOK`: a push appends the successor of the last cursor and drops from the
  front, a restored window is accepted only when it is such a run;
- `HubPollExact`: in a window that is a run of cursors ending at `next`, the first
  unread event has index `after - oldest + 2` or 1, and the page from there is the
  events of the cursors `after + 1, ...`. The first unread index is the least of a
  set, which exists by well-founded induction on the naturals;
- `HubResume`.

The same module, over an instance of `Capsule`, has `CapsuleCoversCursor`, for any
documents, capacity and window, and however edits, analyses and events fall between
a capsule's reads. A capsule reads the cursor first and everything else after it,
and `CapsuleInv` says what that order is worth: of every document the walk has
taken, it has a text no older than any change up to the cursor (`WalkCovers`), and
the window holds every change between the consumer's cursor and the new one that
it has room for (`WindowCovers`). Both are about the log of all changes, which the
retained events are the end of (`Tells`). A window is read off the retained events
and a cursor names an event of the log, so `PageHolds` says which event of the page
that is. `CursorsOfStream` is needed because `configure_root` may change the stream
once, before anything is counted on it. The property says nothing of a capsule of
another stream, of a document it could not analyse, or of more changes than one
window holds, as the code promises nothing there; section 3 has what is refuted.

`EventDeliveryProofs`, for every capacity and any number of request threads,
consumers, starts and cursors:

- `DeliveryTypeCorrect`, `DeliveryNoSilentGap`, `DeliveryCheckpointIsHistory`. The
  inductive invariant says that the hub's window, the file's, and every snapshot a
  thread still carries are windows of the history of their stream (`log`), that
  every answer on its way continues where its consumer stands or says reset, and
  that streams not started yet are unused. A crash may cut the history back to the
  file; what consumers have taken beyond that is what they lost, and the invariant
  excepts them exactly as the property does;
- `DeliveryImplementsChangeStream`: `FairSpec`'s safety part implements
  `ChangeStream` under the mapping of `EventDelivery`. Initial states map to initial
  states; publishing maps to `Tell`, a restart to `Resume` or `Renew`, taking an
  answer to `Join` or `Read`, and everything else to a stutter. That an answer maps
  to `Read` rests on the part of the invariant about answers on their way.

`DocumentStoreProofs`, for any number of threads, documents and files that change
at any time:

- `StoreTypeCorrect`;
- `StoreClaimsComplete`: every step replaces at most one document and moves its
  claim, or registers documents without text (`StepTouches`), and a replacement
  keeps all other claims (`ReplacedClaims`). This holds also where the code takes
  the document to have had no module before: such a step leaves a claim too many,
  never one too few;
- `StoreRefreshConverges`: while nothing disturbs a refresh, every file is pending
  or agrees with its document, and of a pending one the document still has the
  text the refresh has copied, or has been loaded since (`Undisturbed`). It needs
  that the discovery lock has one holder (`LockInv`): otherwise another refresh
  could commit an older text; and that no step but a load changes a document
  without ending the quiet (`OthersLoad`);
- `StoreOpenBuffersStay`: an action property, from the same invariant: every
  commit of a refresh or a load looks at the document again.

The same module has two theorems about fewer actors, and without their hypotheses
both are refuted (section 3):

- `StoreClaimsExact`, for one request at a time (`Threads = {t}`), where files change only between requests (`FilesSettle`).
  `ClaimsExact` is not inductive: a refresh that gives a document its first text
  takes it to have claimed nothing, which is wrong if an analysis has loaded it
  since. `CopyInv` says that a refresh is never disturbed and that the candidate
  it is about to commit is as it was copied or as its file is, so what was loaded
  has the same text, and the claim stays where it is (`Moves`, `MovedClaims`);
- `StoreEditsCompose`, an action property, for one editor among any number of other
  requests (`OneEditorSpec`), which load, refresh and discover its document between
  the copy and the write of an edit, while files change. `EditInv` says that the
  text an edit carries is the edit of what the document still holds, if its buffer
  is open. Each step of another thread that replaces a document checks the buffer
  under the guard it replaces under, so an open one stays, and no other thread
  carries an edit (`OthersEditNothing`). An edit of a document that is not open is
  made from its disk text, which a refresh may replace meanwhile; the property is
  about open buffers, as an editor opens a document before it edits it.

`WorkspaceChangesProofs`, for any files, texts, editing, queries, refreshes,
crashes and restarts, under `Orderly`: one request at a time (`Threads = {t}`),
files that change between requests (`FilesSettle`) and one of them between two
refreshes (`MaxChanged = 1`; any number while the host is down), editors that do
not close a buffer they never opened or never saved, no query for a file before a
refresh has found it, and no file removed while the host is down. These are the
conditions of the run `changes`; with any one of them relaxed TLC finds a
counterexample on the run's instance within seconds.

- `EventsTellTheWorkspaceAlone`, `DeltasFoldAlone`,
  `CheckpointTellsItsDocumentsAlone`, from one inductive invariant,
  `WorkspaceInv`. None of the three is inductive, since between a change and its
  event a document has a text nobody was told of. The invariant says where a
  request is (`Somewhere`, fifteen places from `AtEase` over `Refreshes` to
  `HasReturned`), and of each place which document that is, that all others are as
  told (`OthersSettled`), that its analysis has been dropped and that the text
  before the change, which the request carries, is the text last told
  (`News`, `Relative`), and that the change on its way has the generation of now.
  So the stale-work guard lets it pass; its event tells the text and folds;
  and the identities that are saved are those of settled documents, with
  the history that told them. A restart announces just the files the checkpoint
  does not identify: for the others the checkpoint's history tells the text
  already.
- What a history tells (`Told`) is the text of the last event of a document. That
  there is a last one is the least-number principle, from well-founded induction
  on the naturals (`LeastOne`, `LastOne`); `ToldAppend`, `ToldConcatSame`,
  `ToldConcatOther`, `FoldingAppend` and `FoldingConcat` say what an event, or
  those of a restart, add to it. `WorkspaceChanges` chooses among documents by
  their order and not by recursion over them, so that it can be reasoned about.

`QueryProofs`, for any documents, texts and order of publications, removals and
queries:

- `IndexIsExact`: each of the maps is what the entries contribute. The invariant is
  inductive as it stands, since an entry is removed with the keys it was published
  with;
- `QueriesAreExact`: rename, references and callers answer with exactly what the
  compiler binds, where the place and the kind of the declaration are of one
  document only (`rename` refutes it elsewhere). The invariant says that what a
  query has passed is up to date as long as nobody else changed, removed or
  published, and that what it has joined are the spans of those documents. It needs
  that maps are exact, and of the texts that names are of documents of the workspace
  and two declarations do not begin at the same place (`IndexAssumption`).

`QueryProofs` also has the kernels, for any modules, texts, number of requests and
of changes, and all three policies: `KernelServedCurrent`. The invariant says that
what a request has read so far, for comparison or for the compiler, was there
during the request, and that the label of a cached kernel begins with the texts it
was compiled from, unless the label was resolved before; a hit then reports what
the request has just read itself. What a kernel of the last policy was compiled
from is not said, and the run `status_kernel` shows why. Nor is anything said of
modules that are not compared.

And it has the walks, for any nodes, relation, batch and result capacity and depth,
with edges that come and go any number of times; the root is a node and edges are of
nodes (`WalkAssumption`): `WalksAreExact`. The invariant (`WalkInv`) is about a walk
under way (`Underway`): the kernel has admitted exactly the nodes whose codes it has
seen, each at one level, and its frontier is those of its level (`Admits`); every
code was sent or is in the batch (`Sends`); whatever has a code was met on an edge
from the level before (`Leads`); what an edge of the whole walk leads to from an
earlier level is admitted (`CoversTo`), and from this level it has a code or is a
candidate still to come (`InLevel`). The walk never gives out more codes than the
answer has room for, so the kernel's own budget turns nothing down
(`FirstVisitsAdmitted`): what is missing from an answer is missing because the walk
ran out of codes, and then it said so. That a frontier of first visits holds each of
them once rests on their order (`KthOfPositions`), and that every node of a frontier
meets every candidate on the places of a table (`RowsAndColumns`).

`ResidentAnalysisProofs`, for any documents, texts and imports:

- `ServedImportsCurrent`, for any number of threads. A text may change between any
  two resolutions of an analysis, before it is kept, and after. So what an analysis
  consumed need not be what resolves now; but it is among the fingerprints the
  analysis is kept with (`ConsumedRecorded`), since the code records what each
  resolution returned and not what resolves at the end. An analysis is served only
  if its fingerprints resolve to the same texts now, hence so does everything it
  consumed directly. Of an import that was not found the code records what resolves at
  the end, and the property excepts it;
- `FastPathSoundAlone`, for one request at a time (`Threads = {t}`); with two
  threads TLC refutes it, because one request publishes what another has made stale.
  The constants are what they are in the code: a key of the document map names one
  document, and a text declares at most one module and imports a set of them
  (`ResidentAssumption`). With one request nothing changes under an analysis, so what
  is published is current (`Publishing`), an ensure that nobody disturbed has
  every document current but those it has still to do (`Passed`), and every change
  ends the fast path before anything is served (`Under`).

`ClientProofs` is about the four models of what clients are told.

For any number of calls and connections, of which the bounds are natural numbers
(`ClientAssumption`): `ClientTypeCorrect` and `ClientAcknowledgedIsApplied`. An acknowledgement rests on the word of an answer, so
`ClientInv` says that every answer under way, on abandoned connections too, stands
for an effect.

For any documents, texts and notifications of an editor that reopens a document
only when everything about it has arrived (`SessionAssumption`):
`SessionDiagnosticsOfVersion`. The invariant says that the notifications on their
way about an open document form a chain of texts with growing versions that ends
with the editor's (`Queued`), that the chain begins at the text the service holds
unless a change was refused (`Linked`), and that no diagnostics carry a later
version than the service holds (`Sent`). A closed document is one the service knows
to be closed or will (`ClosedOK`), so that versions may begin at 1 again.

For any finitely many items and any versions, limits and retention
(`KnowledgeAssumption`), and however the reads of index and history fall between the
generator's writes: `KnowledgeDeltaTells`. The retained differences are followed
backwards from the version that was read, and `ChainTells` says what those followed
so far tell of one item: not named, it is the same at both ends; named once, it came
or went or changed as it is told. A difference put in front of such a chain makes
another (`ChainPrepended`). What is cut is what was told only if nothing was cut, which
the code takes from the length: a cut that is shorter than the limit cut nothing
(`CutShortIsWhole`).

For any manifests, answers of the validator, repositories and inventories:
`FamilyCompleteIsVouched`. `query` only ever adds to the limitations and decides at
the end by what is in them. So the invariant says of each limitation that is absent
what was found when it was not added (`ManifestRead`, `InventoryRead`), and this goes
on standing because nothing later changes what was read.

`ProviderProofs`, for any number of runs at once, of processes, PIDs and bindings,
and wherever runs are killed: `ProviderTypeCorrect` and
`ProviderSignalsOnlyOwn`. The inductive invariant `OwnInv` adds what the property
rests on: every lease, in the file or in a run's hands, names one of our hosts by
its birth (`Mine`), living processes have different PIDs (`OnePidEach`), and the
process a run has pinned had the leased PID (`AgentOK`). When start time and
executable of the leased PID match, the living holder of the PID is the leased
host, so the pinned process, if it lives, is that host. `ProcOK` says what any
step may do to processes, and lets the steps of one run leave the claims of the
others alone. So the run `clients` has one run of the command because of
`OneHost`, not because of `SignalsOnlyOwn`.

`ProviderOneHost` and `ProviderHostsKeepTheirSocket` have two hypotheses, one
invocation (`Agents = {a}`) and no kill between `Popen` and the lease
(`"lease" \notin Interruptible`), and TLC refutes both properties without either.
`AloneInv` adds to `OwnInv` which host of ours may live and which process may
listen. `LeaseInv`: a living host of ours is the one the lease in the file names,
except between a start and its lease, where it is the child; and none lives where
the invocation clears leftovers away or starts a host. `SocketInv`: at most one host
is about to bind the socket, and then nobody listens; nobody listens where the
invocation removes the socket file; while it decides about a host it could not
reach only the leased one can come to listen, and what listens when it is about to
signal has the leased PID.

Only model-checked: liveness, which the prover does not reach
(`EnsureConverges` and the like); `SnapshotsHonest` and `IndexedWhenCached`, with one
request at a time in a workspace that is indexed before it changes, which the code
does not ensure: with two threads or without that order TLC refutes them; what folds and recursive definitions compute for
every input, which would need induction over data (`Mirrored`, `PositionsExact`,
`FormatSettles`, `WindowsExact`, `CapsuleAdmission`); and the properties of runs
that TLC refutes.

## 6. Not modelled

The compiler itself, whose front end appears as "elaborates these texts", and the
bytecode runtime of the kernels; the projected content of events, symbols,
diagnostics and ranges; library roots outside the workspace; a change of root or
toolchain in a running host; sizes other than `MAX_DOCUMENT_BYTES`, which
`LspSession` and `EditorMirror` have; line endings in the formatter; poisoned
locks, which need a panic; failing system calls in `configure_root`; batched calls of the remote client; the lexical rules of names;
`impact_of` and `graph_query`, which project the compiler's own graph; status,
poll, capsule and query of the provider command, which only read.

Code actions, hover, signature help, document symbols and candidate evaluation
project one snapshot and keep no state; the MCP server translates tool calls; the
tokenizer and the generated grammars keep nothing between calls. There is nothing
in them that several steps could break, so they are left to the unit tests.

## 7. Plan

What is left, most valuable first:

1. `ChangeProjection` (`events.rs`, `project_change`; `queries.rs:1016`): the bound
   up to which a removal supersedes earlier events.
2. `configure_root` that fails half-way, and its retry, which returns at once.
3. Several request threads in `WorkspaceChanges` on the finer grain of `snapshot`.
4. Requests of the LSP adapter that race with changes (semantic tokens).
5. Proofs: `AuthorityQuery`.
