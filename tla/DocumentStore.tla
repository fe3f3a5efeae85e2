---------------------------- MODULE DocumentStore ---------------------------
(***************************************************************************)
(* The resident documents of one service                                   *)
(* (crates/service-core/src/document.rs, DocumentStore).                   *)
(*                                                                         *)
(* A document has the text last read from disk and, while an editor has it *)
(* open, a buffer that overrides it.  Every operation runs on a request    *)
(* thread.  What an operation does under one write guard of the document   *)
(* map is one step; where it releases the guard, or reads a file or a text *)
(* before it takes the guard, other threads and the file system step in    *)
(* between.                                                                *)
(*                                                                         *)
(* A text is a member of Contents; all that matters of it is the module it *)
(* declares and what a ranged edit makes of it.                            *)
(***************************************************************************)
EXTENDS Integers, Sequences, FiniteSets

CONSTANTS
    UriOrder,       \* every document, in the order of the document map
    FileUris,       \* those that name a file; the others are untitled
    Contents,       \* texts
    EmptyText,      \* the text of a document without content
    None,           \* no text
    Modules,        \* declared module names
    NoModule,
    ModuleOf,       \* the module a text declares, if any
    Edits,          \* ranged edits
    Edited,         \* the text an edit makes of a text
    Threads,        \* request threads
    FilesSettle,    \* environment: files change only between requests
    MaxGeneration   \* bound: workspace generations

Uris == {UriOrder[i] : i \in DOMAIN UriOrder}

ASSUME UriAssumption ==
    /\ UriOrder \in Seq(Uris)
    /\ \A i, j \in DOMAIN UriOrder : UriOrder[i] = UriOrder[j] => i = j
    /\ FileUris \subseteq Uris
ASSUME ContentAssumption ==
    /\ EmptyText \in Contents /\ None \notin Contents
    /\ NoModule \notin Modules
    /\ ModuleOf \in [Contents -> Modules \cup {NoModule}]
    /\ Edited \in [Contents \X Edits -> Contents]
ASSUME BoundAssumption == MaxGeneration \in Nat /\ FilesSettle \in BOOLEAN

VARIABLES
    file,       \* the file system: the text of each file, None if absent
    docs,       \* the document map
    claims,     \* module_claims: the documents that declare each module
    generation, \* the workspace generation
    scan,       \* discovery_lock: the threads that hold it, at most one
    run,        \* per thread: the operation it is inside of
    result      \* per thread: the changes its last operation returned

vars == <<file, docs, claims, generation, scan, run, result>>

Text == Contents \cup {None}
Document == [known : BOOLEAN, disk : Text, buffer : Text]
Unknown == [known |-> FALSE, disk |-> None, buffer |-> None]
Change == [uri : Uris, generation : Nat, removed : BOOLEAN]

Open(d) == d.buffer # None

(* The winning text: the buffer while open, otherwise the disk text.       *)
Stored(d) == IF Open(d) THEN d.buffer ELSE d.disk

EffectiveModule(d) == IF Stored(d) = None THEN NoModule ELSE ModuleOf[Stored(d)]

(* A change of module that leaves the old claim behind.                    *)
NoteModuleAdds(cl, u, old, new) ==
    [m \in Modules |-> IF m = new THEN cl[m] \cup {u} ELSE cl[m]]

(* note_module_change, always under the write guard of its change.         *)
NoteModule(cl, u, old, new) ==
    IF old = new THEN cl
    ELSE [m \in Modules |->
             IF m = new THEN cl[m] \cup {u}
             ELSE IF m = old THEN cl[m] \ {u}
             ELSE cl[m]]

(* Replace a document and move its claim, as one write guard does.         *)
Commit(u, d) ==
    /\ docs' = [docs EXCEPT ![u] = d]
    /\ claims' = NoteModule(claims, u, EffectiveModule(docs[u]), EffectiveModule(d))

(* The same where the code takes the document to have been without text.   *)
CommitFirst(u, d) ==
    /\ docs' = [docs EXCEPT ![u] = d]
    /\ claims' = NoteModule(claims, u, NoModule, EffectiveModule(d))

Idle == [op |-> "idle"]

Init ==
    /\ file \in [Uris -> Text]
    /\ \A u \in Uris \ FileUris : file[u] = None
    /\ docs = [u \in Uris |-> Unknown]
    /\ claims = [m \in Modules |-> {}]
    /\ generation = 0
    /\ scan = {}
    /\ run = [t \in Threads |-> Idle]
    /\ result = [t \in Threads |-> << >>]

-----------------------------------------------------------------------------
(* The file system, changed by anybody at any time.                        *)

WriteFile(u, text) ==
    /\ u \in FileUris
    /\ text # file[u]
    /\ FilesSettle => \A t \in Threads : run[t] = Idle
    /\ file' = [file EXCEPT ![u] = text]
    /\ run' = [t \in Threads |->
                 IF run[t].op = "refresh" THEN [run[t] EXCEPT !.quiet = FALSE] ELSE run[t]]
    /\ UNCHANGED <<docs, claims, generation, scan, result>>

-----------------------------------------------------------------------------
(* Common steps of the operations.                                         *)

Begin(t) == run[t] = Idle /\ result[t] = << >>
Refreshing(t, step) == run[t].op = "refresh" /\ run[t].step = step

(* The service has consumed what the operation returned.                   *)
Return(t) ==
    /\ run[t] = Idle
    /\ result[t] # << >>
    /\ result' = [result EXCEPT ![t] = << >>]
    /\ UNCHANGED <<file, docs, claims, generation, scan, run>>

NextGeneration == generation < MaxGeneration /\ generation' = generation + 1

(* Editor operations end the quiet of a refresh in progress.               *)
Disturb(t, r) ==
    run' = [s \in Threads |->
              IF s = t THEN r
              ELSE IF run[s].op = "refresh" THEN [run[s] EXCEPT !.quiet = FALSE]
              ELSE run[s]]

-----------------------------------------------------------------------------
(* Editor notifications                                                    *)

(* did_open and did_change: the generation moves under the write guard and *)
(* the document is replaced, the disk text forgotten.                      *)
OpenWith(t, u, text) ==
    /\ NextGeneration
    /\ Commit(u, [known |-> TRUE, disk |-> None, buffer |-> text])
    /\ result' = [result EXCEPT ![t] =
                    <<[uri |-> u, generation |-> generation', removed |-> FALSE]>>]
    /\ Disturb(t, Idle)
    /\ UNCHANGED <<file, scan>>

DidOpen(t, u, text) == Begin(t) /\ OpenWith(t, u, text)

(* A known document without text is loaded from its file, an unknown one   *)
(* registered first; without a file nothing happens.                       *)
Loaded(u) ==
    IF Stored(docs[u]) = None /\ file[u] # None
    THEN [docs[u] EXCEPT !.known = TRUE, !.disk = file[u]]
    ELSE docs[u]

(* Edits applied to the disk text under the buffer.                        *)
EditReadDisk(t, u, e) ==
    /\ Begin(t)
    /\ LET d == Loaded(u)
           text == IF d.disk = None THEN EmptyText ELSE d.disk
       IN  /\ CommitFirst(u, d)
           /\ run' = [run EXCEPT ![t] =
                        [op |-> "edit", uri |-> u, edit |-> e, text |-> Edited[<<text, e>>]]]
    /\ UNCHANGED <<file, generation, scan, result>>

(* did_change_incremental with ranged edits: the text is computed from a   *)
(* copy of the current one, and no guard is held until it is written.      *)
EditRead(t, u, e) ==
    /\ Begin(t)
    /\ LET d == Loaded(u)
           text == IF Stored(d) = None THEN EmptyText ELSE Stored(d)
       IN  /\ CommitFirst(u, d)
           /\ run' = [run EXCEPT ![t] =
                        [op |-> "edit", uri |-> u, edit |-> e, text |-> Edited[<<text, e>>]]]
    /\ UNCHANGED <<file, generation, scan, result>>

EditCommit(t) ==
    /\ run[t].op = "edit"
    /\ OpenWith(t, run[t].uri, run[t].text)

(* did_save: the saved text, or the buffer, becomes the disk text.  Only a *)
(* change of the winning text counts as a change of the workspace; it is   *)
(* counted after the guard is released, and the answer is whatever the     *)
(* generation is by then.                                                  *)
DidSave(t, u, text) ==
    LET saved == IF text # None THEN text ELSE docs[u].buffer
        d == IF saved = None THEN docs[u] ELSE [docs[u] EXCEPT !.disk = saved]
    IN  /\ Begin(t)
        /\ docs[u].known
        /\ Commit(u, d)
        /\ Disturb(t, [op |-> IF Stored(d) = Stored(docs[u]) THEN "answer" ELSE "save",
                       uri |-> u])
        /\ UNCHANGED <<file, generation, scan, result>>

SaveCount(t) ==
    /\ run[t].op = "save"
    /\ NextGeneration
    /\ run' = [run EXCEPT ![t].op = "answer"]
    /\ UNCHANGED <<file, docs, claims, scan, result>>

(* did_close: the generation moves first, also when the document is        *)
(* unknown; a document without a file is forgotten.                        *)
DidClose(t, u) ==
    LET d == [docs[u] EXCEPT !.buffer = None]
        forgotten == Open(docs[u]) /\ docs[u].disk = None /\ u \notin FileUris
    IN  /\ Begin(t)
        /\ NextGeneration
        /\ Commit(u, IF forgotten THEN Unknown ELSE d)
        /\ Disturb(t, IF Stored(d) = None THEN Idle ELSE [op |-> "answer", uri |-> u])
        /\ UNCHANGED <<file, scan, result>>

(* The generation a save or a close is observed at.                        *)
Answer(t) ==
    /\ run[t].op = "answer"
    /\ result' = [result EXCEPT ![t] =
                    <<[uri |-> run[t].uri, generation |-> generation, removed |-> FALSE]>>]
    /\ run' = [run EXCEPT ![t] = Idle]
    /\ UNCHANGED <<file, docs, claims, generation, scan>>

-----------------------------------------------------------------------------
(* Reading from disk                                                       *)

(* A load that forgets to claim the module.                                *)
EnsureLoadedUnclaimed(t, u) ==
    /\ run[t] = Idle
    /\ Loaded(u) # docs[u]
    /\ docs' = [docs EXCEPT ![u] = Loaded(u)]
    /\ UNCHANGED <<file, claims, generation, scan, run, result>>

(* ensure_loaded, and each document of scan_modules_for: by any analysis,  *)
(* the one a refresh makes just before it commits a change or a removal    *)
(* included.                                                               *)
EnsureLoaded(t, u) ==
    /\ \/ run[t] = Idle
       \/ Refreshing(t, "commit") /\ run[t].now.previous # None
    /\ Loaded(u) # docs[u]
    /\ CommitFirst(u, Loaded(u))
    /\ UNCHANGED <<file, generation, scan, run, result>>

(* discover_workspace_impl: files become known, but not yet loaded.        *)
NewFiles == {u \in Uris : file[u] # None /\ ~docs[u].known}

Discover(t) ==
    /\ Begin(t)
    /\ scan = {}
    /\ docs' = [u \in Uris |->
                  IF u \in NewFiles THEN [Unknown EXCEPT !.known = TRUE] ELSE docs[u]]
    /\ UNCHANGED <<file, claims, generation, scan, run, result>>

(* load_new_disk: the file is read first, and the document must still be   *)
(* without text when it is committed.                                      *)
LoadNewRead(t, u) ==
    /\ Begin(t)
    /\ scan = {}
    /\ docs[u].known
    /\ Stored(docs[u]) = None
    /\ file[u] # None
    /\ scan' = {t}
    /\ run' = [run EXCEPT ![t] = [op |-> "load", uri |-> u, text |-> file[u]]]
    /\ UNCHANGED <<file, docs, claims, generation, result>>

LoadNewCommit(t) ==
    /\ run[t].op = "load"
    /\ LET u == run[t].uri
       IN  IF docs[u].known /\ Stored(docs[u]) = None
           THEN /\ CommitFirst(u, [docs[u] EXCEPT !.disk = run[t].text])
                /\ run' = [run EXCEPT ![t] = [op |-> "count", uri |-> u]]
           ELSE /\ run' = [run EXCEPT ![t] = Idle]
                /\ UNCHANGED <<docs, claims>>
    /\ scan' = scan \ {t}
    /\ UNCHANGED <<file, generation, result>>

(* The generation of a change whose guard is already released.             *)
Count(t) ==
    /\ run[t].op = "count"
    /\ NextGeneration
    /\ result' = [result EXCEPT ![t] =
                    <<[uri |-> run[t].uri, generation |-> generation', removed |-> FALSE]>>]
    /\ run' = [run EXCEPT ![t] = Idle]
    /\ UNCHANGED <<file, docs, claims, scan>>

-----------------------------------------------------------------------------
(* refresh_disk_with: the candidates and the disk texts they had are       *)
(* copied once, then each file is read, compared with that copy, and       *)
(* committed after another look at the document.                           *)

Candidates ==
    {[uri |-> u, previous |-> docs[u].disk] :
        u \in {v \in FileUris : docs[v].known /\ ~Open(docs[v])}}

RefreshStart(t) ==
    /\ Begin(t)
    /\ scan = {}
    /\ scan' = {t}
    /\ run' = [run EXCEPT ![t] =
                 [op |-> "refresh", todo |-> Candidates, now |-> None, text |-> None,
                  step |-> "read", quiet |-> TRUE]]
    /\ UNCHANGED <<file, docs, claims, generation, result>>

(* The candidate whose turn it is.                                         *)
Before(u, v) ==
    \E i, j \in DOMAIN UriOrder : i <= j /\ UriOrder[i] = u /\ UriOrder[j] = v

Foremost(c, todo) == c \in todo /\ \A d \in todo : Before(c.uri, d.uri)

Passed(r, c) == [r EXCEPT !.todo = r.todo \ {c}]
Taken(r, c) ==
    [r EXCEPT !.todo = r.todo \ {c}, !.now = c, !.text = file[c.uri], !.step = "commit"]

(* A refresh that passes over files it cannot read.                        *)
RefreshReadPresent(t) ==
    /\ Refreshing(t, "read")
    /\ \E c \in run[t].todo :
          /\ Foremost(c, run[t].todo)
          /\ run' = [run EXCEPT ![t] =
                       IF file[c.uri] \in {c.previous, None} THEN Passed(run[t], c) ELSE Taken(run[t], c)]
    /\ UNCHANGED <<file, docs, claims, generation, scan, result>>

(* The next file; unchanged ones need no commit.                           *)
RefreshRead(t) ==
    /\ Refreshing(t, "read")
    /\ \E c \in run[t].todo :
          /\ Foremost(c, run[t].todo)
          /\ run' = [run EXCEPT ![t] =
                       IF file[c.uri] = c.previous THEN Passed(run[t], c) ELSE Taken(run[t], c)]
    /\ UNCHANGED <<file, docs, claims, generation, scan, result>>

RefreshNext(t) == run' = [run EXCEPT ![t].now = None, ![t].step = "read"]

(* A removal that does not look at the document again.                     *)
RefreshRemoveUnchecked(t) ==
    /\ Refreshing(t, "commit")
    /\ run[t].text = None
    /\ Commit(run[t].now.uri, Unknown)
    /\ run' = [run EXCEPT ![t].step = "count"]
    /\ UNCHANGED <<file, generation, scan, result>>

(* A file that is gone takes its document with it.                         *)
RefreshRemove(t) ==
    /\ Refreshing(t, "commit")
    /\ run[t].text = None
    /\ LET u == run[t].now.uri
       IN  IF docs[u].known /\ ~Open(docs[u]) /\ docs[u].disk # None
           THEN /\ Commit(u, Unknown)
                /\ run' = [run EXCEPT ![t].step = "count"]
           ELSE RefreshNext(t) /\ UNCHANGED <<docs, claims>>
    /\ UNCHANGED <<file, generation, scan, result>>

(* The first text of a document is a baseline, not a change.               *)
RefreshBaseline(t) ==
    /\ Refreshing(t, "commit")
    /\ run[t].text # None
    /\ run[t].now.previous = None
    /\ LET u == run[t].now.uri
       IN  IF docs[u].known /\ ~Open(docs[u])
           THEN CommitFirst(u, [docs[u] EXCEPT !.disk = run[t].text])
           ELSE UNCHANGED <<docs, claims>>
    /\ RefreshNext(t)
    /\ UNCHANGED <<file, generation, scan, result>>

RefreshUpdate(t) ==
    /\ Refreshing(t, "commit")
    /\ run[t].text # None
    /\ run[t].now.previous # None
    /\ LET u == run[t].now.uri
       IN  IF docs[u].known /\ ~Open(docs[u])
           THEN /\ Commit(u, [docs[u] EXCEPT !.disk = run[t].text])
                /\ run' = [run EXCEPT ![t].step = "count"]
           ELSE RefreshNext(t) /\ UNCHANGED <<docs, claims>>
    /\ UNCHANGED <<file, generation, scan, result>>

RefreshCount(t) ==
    /\ Refreshing(t, "count")
    /\ NextGeneration
    /\ result' = [result EXCEPT ![t] =
                    Append(@, [uri |-> run[t].now.uri, generation |-> generation',
                               removed |-> run[t].text = None])]
    /\ RefreshNext(t)
    /\ UNCHANGED <<file, docs, claims, scan>>

RefreshEnd(t) ==
    /\ Refreshing(t, "read")
    /\ run[t].todo = {}
    /\ run' = [run EXCEPT ![t] = Idle]
    /\ scan' = scan \ {t}
    /\ UNCHANGED <<file, docs, claims, generation, result>>
-----------------------------------------------------------------------------
(* What an editor's notifications are made of.                             *)
Notification(t) ==
    \/ \E u \in Uris :
          \/ \E text \in Contents : DidOpen(t, u, text)
          \/ \E e \in Edits : EditRead(t, u, e)
          \/ \E text \in Text : DidSave(t, u, text)
          \/ DidClose(t, u)
    \/ EditCommit(t)

(* What any request may do, and the rest of an operation once it has       *)
(* written its text.                                                       *)
Request(t) ==
    \/ Return(t)
    \/ \E u \in Uris : EnsureLoaded(t, u) \/ LoadNewRead(t, u)
    \/ Discover(t)
    \/ SaveCount(t) \/ Answer(t)
    \/ LoadNewCommit(t) \/ Count(t)
    \/ RefreshStart(t) \/ RefreshRead(t) \/ RefreshRemove(t) \/ RefreshBaseline(t)
    \/ RefreshUpdate(t) \/ RefreshCount(t) \/ RefreshEnd(t)

Step(t) == Notification(t) \/ Request(t)

WriteAnyFile == \E u \in Uris, text \in Text : WriteFile(u, text)

Next == WriteAnyFile \/ \E t \in Threads : Step(t)

Spec == Init /\ [][Next]_vars

(* One editor's session, whose notifications are handled one after the     *)
(* other; the other threads serve requests meanwhile.                      *)
OneEditorNext(editor) ==
    WriteAnyFile \/ Notification(editor) \/ \E t \in Threads : Request(t)

OneEditorSpec(editor) == Init /\ [][OneEditorNext(editor)]_vars

-----------------------------------------------------------------------------
Candidate == [uri : Uris, previous : Text]

RunState ==
    {Idle}
    \cup [op : {"edit"}, uri : Uris, edit : Edits, text : Contents]
    \cup [op : {"save", "answer", "count"}, uri : Uris]
    \cup [op : {"load"}, uri : Uris, text : Contents]
    \cup [op : {"refresh"}, todo : SUBSET Candidate, now : Candidate \cup {None},
          text : Text, step : {"read", "commit", "count"}, quiet : BOOLEAN]

(* Every variable has its type.                                            *)
TypeOK ==
    /\ file \in [Uris -> Text]
    /\ docs \in [Uris -> Document]
    /\ claims \in [Modules -> SUBSET Uris]
    /\ generation \in Nat
    /\ scan \in SUBSET Threads
    /\ run \in [Threads -> RunState]
    /\ result \in [Threads -> Seq(Change)]

(* Module resolution finds every document there is to find: whatever the   *)
(* threads are in the middle of, a document whose winning text declares a  *)
(* module is among the module's claimants, so an import of it is resolved  *)
(* without rescanning the workspace.                                       *)
ClaimsComplete ==
    \A u \in Uris : EffectiveModule(docs[u]) \in Modules =>
        u \in claims[EffectiveModule(docs[u])]

(* "The least URI wins, exactly as a fresh scan over the sorted document   *)
(* map would produce": the claimants of a module are exactly the documents *)
(* whose winning text declares it.                                         *)
ClaimsExact ==
    \A m \in Modules : claims[m] = {u \in Uris : EffectiveModule(docs[u]) = m}

(* "Open buffers remain authoritative and are never clobbered": only an    *)
(* editor's notification, which moves the generation, replaces or drops an *)
(* open buffer; a refresh that listed the document while it was closed     *)
(* does not.                                                               *)
OpenBuffersStay ==
    [][\A u \in Uris : Open(docs[u]) /\ generation' = generation =>
         docs'[u].known /\ docs'[u].buffer = docs[u].buffer]_vars

(* "Ranged edits apply in order against the document's current content":   *)
(* where an edit is written over an open buffer, what it leaves is the     *)
(* edit of that buffer, not of one that was read before something else     *)
(* was written (did_change_incremental).                                   *)
EditComposes ==
    \A t \in Threads :
        run[t].op = "edit" /\ run'[t] # run[t] =>
            LET u == run[t].uri
            IN  Open(docs[u]) => docs'[u].buffer = Edited[<<docs[u].buffer, run[t].edit>>]
EditsCompose == [][EditComposes]_vars

(* A refresh that neither an editor nor a file change disturbed leaves     *)
(* every closed document with the text of its file, and none whose file is *)
(* gone.                                                                   *)
RefreshConverges ==
    \A t \in Threads :
        Refreshing(t, "read") /\ run[t].todo = {} /\ run[t].quiet =>
            \A u \in FileUris : ~Open(docs[u]) /\ docs[u].disk # None =>
                docs[u].disk = file[u]
=============================================================================
