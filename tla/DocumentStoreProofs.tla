------------------------- MODULE DocumentStoreProofs ------------------------
(* Proofs about the resident documents, for any number of request threads   *)
(* that interleave with one another and with changes of the files; the last *)
(* two theorems are about one request at a time.                            *)
EXTENDS DocumentStore, TLAPS

(* A document that is not known holds nothing.                              *)
Plausible(d) == d.known \/ d = Unknown
KnownInv == \A u \in Uris : Plausible(docs[u])

(* Whoever reads files for a refresh or a first load holds the lock alone.  *)
LockInv == \A t \in Threads : run[t].op \in {"refresh", "load"} => scan = {t}

(* What a refresh has still to do and what it may rely on.                  *)
Pending(t, u) ==
    \/ \E c \in run[t].todo : c.uri = u
    \/ run[t].step = "commit" /\ run[t].now.uri = u

Converged(u) == ~Open(docs[u]) /\ docs[u].disk # None => docs[u].disk = file[u]

(* The disk text of a pending document is the one the refresh has copied,   *)
(* unless an analysis has loaded the file since.                            *)
Copied(c) ==
    ~Open(docs[c.uri]) => docs[c.uri].disk \in {None, c.previous, file[c.uri]}

Undisturbed(t) ==
    /\ \A u \in FileUris : Pending(t, u) \/ Converged(u)
    /\ \A c \in run[t].todo : Copied(c)
    /\ run[t].step = "commit" => run[t].text = file[run[t].now.uri]

RefreshSound(t) ==
    run[t].op = "refresh" =>
        /\ run[t].step # "read" => run[t].now \in Candidate
        /\ run[t].quiet => Undisturbed(t)

RefreshInv == \A t \in Threads : RefreshSound(t)

StoreInv == TypeOK /\ KnownInv /\ ClaimsComplete /\ LockInv /\ RefreshInv

-----------------------------------------------------------------------------
(* What a thread is inside of, by operation.                                *)

RefreshRun == [op : {"refresh"}, todo : SUBSET Candidate, now : Candidate \cup {None},
               text : Text, step : {"read", "commit", "count"}, quiet : BOOLEAN]

LEMMA RunCases ==
    ASSUME NEW r \in RunState
    PROVE  /\ r.op = "edit" => r.uri \in Uris /\ r.text \in Contents
           /\ r.op \in {"save", "answer", "count"} => r.uri \in Uris
           /\ r.op = "load" => r.uri \in Uris /\ r.text \in Contents
           /\ r.op = "refresh" => r \in RefreshRun
  BY DEF RunState, RefreshRun, Idle

LEMMA RefreshIsRun == ASSUME NEW r \in RefreshRun PROVE r \in RunState
  BY DEF RunState, RefreshRun

LEMMA OtherRuns ==
    /\ Idle \in RunState
    /\ \A u \in Uris, op \in {"save", "answer", "count"} : [op |-> op, uri |-> u] \in RunState
    /\ \A u \in Uris, text \in Contents : [op |-> "load", uri |-> u, text |-> text] \in RunState
    /\ \A u \in Uris, e \in Edits, text \in Contents :
          [op |-> "edit", uri |-> u, edit |-> e, text |-> text] \in RunState
  BY DEF RunState, Idle

-----------------------------------------------------------------------------
(* Documents and claims                                                     *)

LEMMA UnknownIsDocument == Unknown \in Document /\ Plausible(Unknown)
  BY DEF Unknown, Document, Text, Plausible

LEMMA StoredText == ASSUME NEW d \in Document PROVE Stored(d) \in Text
  BY DEF Stored, Document

LEMMA ModuleType ==
    ASSUME NEW d \in Document
    PROVE  EffectiveModule(d) \in Modules \cup {NoModule}
  BY StoredText, ContentAssumption DEF EffectiveModule, Text

LEMMA LoadedOK ==
    ASSUME TypeOK, KnownInv, NEW u \in Uris
    PROVE  /\ Loaded(u) \in Document
           /\ Plausible(Loaded(u))
           /\ Loaded(u).buffer = docs[u].buffer
           /\ Open(docs[u]) => Loaded(u) = docs[u]
           /\ \/ Loaded(u).disk = docs[u].disk
              \/ Loaded(u).disk = file[u]
  BY DEF Loaded, TypeOK, Document, KnownInv, Plausible, Stored, Open

LEMMA EditedText ==
    ASSUME NEW text \in Contents, NEW e \in Edits
    PROVE  Edited[<<text, e>>] \in Contents
<1>1. <<text, e>> \in Contents \X Edits
  OBVIOUS
<1> QED
  BY <1>1, ContentAssumption

LEMMA ReadEdit ==
    ASSUME TypeOK, NEW t \in Threads, NEW u \in Uris, NEW e \in Edits, EditRead(t, u, e)
    PROVE  /\ CommitFirst(u, Loaded(u))
           /\ \E text \in Contents :
                 run' = [run EXCEPT ![t] = [op |-> "edit", uri |-> u, edit |-> e, text |-> text]]
<1> DEFINE base == IF Stored(Loaded(u)) = None THEN EmptyText ELSE Stored(Loaded(u))
<1>1. Loaded(u) \in Document
  BY DEF Loaded, TypeOK, Document
<1>2. base \in Contents
  BY <1>1, StoredText, ContentAssumption DEF Text
<1>3. run' = [run EXCEPT ![t] =
                [op |-> "edit", uri |-> u, edit |-> e, text |-> Edited[<<base, e>>]]]
  BY DEF EditRead
<1> HIDE DEF base
<1> QED
  BY <1>2, <1>3, EditedText DEF EditRead

(* A document changes by one replacement that moves a claim, or the walk    *)
(* makes files known.                                                       *)
Replaced(u, d) == Commit(u, d) \/ CommitFirst(u, d)
Touched ==
    \/ UNCHANGED <<docs, claims>>
    \/ \E u \in Uris, d \in Document : Plausible(d) /\ Replaced(u, d)
    \/ \E t \in Threads : Discover(t)

LEMMA ReplacedType ==
    ASSUME TypeOK, NEW u \in Uris, NEW d \in Document, Replaced(u, d)
    PROVE  /\ docs' \in [Uris -> Document]
           /\ claims' \in [Modules -> SUBSET Uris]
           /\ docs'[u] = d
           /\ \A v \in Uris \ {u} : docs'[v] = docs[v]
<1>1. docs' = [docs EXCEPT ![u] = d]
  BY DEF Replaced, Commit, CommitFirst
<1>2. \A old, new : NoteModule(claims, u, old, new) \in [Modules -> SUBSET Uris]
  BY DEF NoteModule, TypeOK
<1>3. claims' \in [Modules -> SUBSET Uris]
  BY <1>2 DEF Replaced, Commit, CommitFirst
<1> QED
  BY <1>1, <1>3 DEF TypeOK

(* The claim moves with the module, and no other document loses its own.    *)
LEMMA ReplacedClaims ==
    ASSUME TypeOK, ClaimsComplete, NEW u \in Uris, NEW d \in Document, Replaced(u, d)
    PROVE  ClaimsComplete'
<1> DEFINE new == EffectiveModule(d)
<1>1. /\ docs'[u] = d
      /\ \A v \in Uris \ {u} : docs'[v] = docs[v]
  BY ReplacedType
<1>2. /\ new \in Modules => u \in claims'[new]
      /\ \A m \in Modules, v \in Uris \ {u} : v \in claims[m] => v \in claims'[m]
  <2>1. CASE Commit(u, d)
    <3> DEFINE old == EffectiveModule(docs[u])
    <3>1. claims' = NoteModule(claims, u, old, new)
      BY <2>1 DEF Commit
    <3>2. old \in Modules => u \in claims[old]
      BY DEF ClaimsComplete
    <3> HIDE DEF old, new
    <3> QED
      BY <3>1, <3>2 DEF NoteModule, TypeOK
  <2>2. CASE CommitFirst(u, d)
    <3>1. claims' = NoteModule(claims, u, NoModule, new)
      BY <2>2 DEF CommitFirst
    <3> HIDE DEF new
    <3> QED
      BY <3>1, ContentAssumption DEF NoteModule, TypeOK
  <2> QED
    BY <2>1, <2>2 DEF Replaced
<1>3. \A v \in Uris : EffectiveModule(docs[v])' = EffectiveModule(docs'[v])
  BY DEF EffectiveModule, Stored, Open
<1>4. ASSUME NEW v \in Uris, EffectiveModule(docs'[v]) \in Modules
      PROVE  v \in claims'[EffectiveModule(docs'[v])]
  <2>1. CASE v = u
    BY <2>1, <1>1, <1>2, <1>4
  <2>2. CASE v # u
    BY <2>2, <1>1, <1>2, <1>4 DEF ClaimsComplete
  <2> QED
    BY <2>1, <2>2
<1> QED
  BY <1>3, <1>4 DEF ClaimsComplete

-----------------------------------------------------------------------------
(* Every step replaces at most one document.                                *)

LEMMA SavedOK ==
    ASSUME TypeOK, NEW u \in Uris, docs[u].known, NEW text \in Text
    PROVE  LET saved == IF text # None THEN text ELSE docs[u].buffer
               d == IF saved = None THEN docs[u] ELSE [docs[u] EXCEPT !.disk = saved]
           IN  d \in Document /\ Plausible(d) /\ d.known /\ d.buffer = docs[u].buffer
  BY DEF TypeOK, Document, Plausible

LEMMA ClosedOK ==
    ASSUME TypeOK, KnownInv, NEW u \in Uris
    PROVE  LET d == [docs[u] EXCEPT !.buffer = None]
           IN  d \in Document /\ Plausible(d)
<1> DEFINE d == [docs[u] EXCEPT !.buffer = None]
<1>1. d \in Document /\ d.known = docs[u].known
  BY DEF TypeOK, Document, Text
<1>2. CASE docs[u] = Unknown
  <2>1. d = [known |-> docs[u].known, disk |-> docs[u].disk, buffer |-> None]
    BY DEF TypeOK, Document
  <2>2. d = Unknown
    BY <1>2, <2>1 DEF Unknown
  <2> QED
    BY <1>1, <2>2 DEF Plausible
<1>3. CASE docs[u].known
  BY <1>1, <1>3 DEF Plausible
<1> QED
  BY <1>2, <1>3 DEF KnownInv, Plausible

LEMMA DiskOK ==
    ASSUME TypeOK, NEW u \in Uris, docs[u].known, NEW text \in Text
    PROVE  LET d == [docs[u] EXCEPT !.disk = text]
           IN  d \in Document /\ Plausible(d) /\ d.buffer = docs[u].buffer /\ d.disk = text
  BY DEF TypeOK, Document, Plausible

LEMMA OpenWithTouches ==
    ASSUME NEW t \in Threads, NEW u \in Uris, NEW text \in Contents, OpenWith(t, u, text)
    PROVE  Touched
<1> DEFINE d == [known |-> TRUE, disk |-> None, buffer |-> text]
<1>1. d \in Document /\ Plausible(d)
  BY DEF Document, Text, Plausible
<1>2. Commit(u, d)
  BY DEF OpenWith
<1> HIDE DEF d
<1> QED
  BY <1>1, <1>2 DEF Touched, Replaced

LEMMA RefreshUri ==
    ASSUME TypeOK, RefreshInv, NEW t \in Threads, run[t].op = "refresh", run[t].step # "read"
    PROVE  run[t] \in RefreshRun /\ run[t].now \in Candidate /\ run[t].now.uri \in Uris
<1>1. run[t] \in RefreshRun
  BY RunCases DEF TypeOK
<1>2. run[t].now \in Candidate
  BY DEF RefreshInv, RefreshSound
<1> QED
  BY <1>1, <1>2 DEF Candidate

LEMMA StepTouches ==
    ASSUME TypeOK, KnownInv, RefreshInv, NEW t \in Threads, Step(t)
    PROVE  Touched
<1>1. CASE \E u \in Uris, text \in Contents : DidOpen(t, u, text)
  BY <1>1, OpenWithTouches DEF DidOpen
<1>2. CASE \E u \in Uris, e \in Edits : EditRead(t, u, e)
  BY <1>2, ReadEdit, LoadedOK DEF Touched, Replaced
<1>3. CASE EditCommit(t)
  BY <1>3, OpenWithTouches, RunCases DEF EditCommit, TypeOK
<1>4. CASE \E u \in Uris, text \in Text : DidSave(t, u, text)
  BY <1>4, SavedOK DEF DidSave, Touched, Replaced
<1>5. CASE \E u \in Uris : DidClose(t, u)
  BY <1>5, ClosedOK, UnknownIsDocument DEF DidClose, Touched, Replaced
<1>6. CASE \E u \in Uris : EnsureLoaded(t, u)
  BY <1>6, LoadedOK DEF EnsureLoaded, Touched, Replaced
<1>7. CASE Discover(t)
  BY <1>7 DEF Touched
<1>8. CASE LoadNewCommit(t)
  <2>1. run[t].uri \in Uris /\ run[t].text \in Text
    BY <1>8, RunCases DEF LoadNewCommit, TypeOK, Text
  <2> QED
    BY <1>8, <2>1, DiskOK DEF LoadNewCommit, Touched, Replaced
<1>9. CASE RefreshRemove(t)
  <2>1. run[t].now.uri \in Uris
    BY <1>9, RefreshUri DEF RefreshRemove, Refreshing
  <2> QED
    BY <1>9, <2>1, UnknownIsDocument DEF RefreshRemove, Touched, Replaced
<1>10. CASE RefreshBaseline(t) \/ RefreshUpdate(t)
  <2>1. run[t].now.uri \in Uris /\ run[t].text \in Text
    BY <1>10, RefreshUri DEF RefreshBaseline, RefreshUpdate, Refreshing, RefreshRun
  <2> QED
    BY <1>10, <2>1, DiskOK DEF RefreshBaseline, RefreshUpdate, Touched, Replaced
<1>11. CASE \/ Return(t) \/ SaveCount(t) \/ Answer(t) \/ Count(t)
            \/ (\E u \in Uris : LoadNewRead(t, u))
            \/ RefreshStart(t) \/ RefreshRead(t) \/ RefreshCount(t) \/ RefreshEnd(t)
  BY <1>11 DEF Return, SaveCount, Answer, Count, LoadNewRead, RefreshStart, RefreshRead,
               RefreshCount, RefreshEnd, Touched
<1> QED
  BY <1>1, <1>2, <1>3, <1>4, <1>5, <1>6, <1>7, <1>8, <1>9, <1>10, <1>11 DEF Step, Notification, Request

-----------------------------------------------------------------------------
(* Types                                                                    *)

LEMMA QuietLost ==
    ASSUME NEW r \in RunState
    PROVE  (IF r.op = "refresh" THEN [r EXCEPT !.quiet = FALSE] ELSE r) \in RunState
<1>1. ASSUME r.op = "refresh" PROVE [r EXCEPT !.quiet = FALSE] \in RefreshRun
  BY <1>1, RunCases DEF RefreshRun
<1> QED
  BY <1>1, RefreshIsRun

LEMMA DisturbType ==
    ASSUME TypeOK, NEW t \in Threads, NEW r \in RunState, Disturb(t, r)
    PROVE  run' \in [Threads -> RunState]
<1>1. \A s \in Threads :
        (IF run[s].op = "refresh" THEN [run[s] EXCEPT !.quiet = FALSE] ELSE run[s]) \in RunState
  BY QuietLost DEF TypeOK
<1> QED
  BY <1>1 DEF Disturb

LEMMA NextType ==
    ASSUME TypeOK, NEW t \in Threads, run[t].op = "refresh", RefreshNext(t)
    PROVE  /\ run' \in [Threads -> RunState]
           /\ run'[t].todo = run[t].todo /\ run'[t].quiet = run[t].quiet
           /\ run'[t].step = "read"
<1> DEFINE r == [run[t] EXCEPT !.now = None, !.step = "read"]
<1>0. run[t] \in RefreshRun
  BY RunCases DEF TypeOK
<1>1. /\ r \in RefreshRun
      /\ r.todo = run[t].todo /\ r.quiet = run[t].quiet /\ r.step = "read"
  BY <1>0 DEF RefreshRun
<1>2. run' = [run EXCEPT ![t] = r]
  BY <1>0 DEF RefreshRun, RefreshNext, TypeOK
<1> HIDE DEF r
<1> QED
  BY <1>1, <1>2, RefreshIsRun DEF TypeOK

LEMMA CountType ==
    ASSUME TypeOK, NEW t \in Threads, run[t].op = "refresh",
           run' = [run EXCEPT ![t].step = "count"]
    PROVE  /\ run' \in [Threads -> RunState]
           /\ run'[t].todo = run[t].todo /\ run'[t].quiet = run[t].quiet
           /\ run'[t].step = "count" /\ run'[t].now = run[t].now
<1> DEFINE r == [run[t] EXCEPT !.step = "count"]
<1>0. run[t] \in RefreshRun
  BY RunCases DEF TypeOK
<1>1. /\ r \in RefreshRun
      /\ r.todo = run[t].todo /\ r.quiet = run[t].quiet
      /\ r.step = "count" /\ r.now = run[t].now
  BY <1>0 DEF RefreshRun
<1>2. run' = [run EXCEPT ![t] = r]
  BY <1>0 DEF RefreshRun, TypeOK
<1> HIDE DEF r
<1> QED
  BY <1>1, <1>2, RefreshIsRun DEF TypeOK

(* The file a refresh reads is a candidate it had not come to.              *)
LEMMA ReadRun ==
    ASSUME TypeOK, NEW t \in Threads, RefreshRead(t)
    PROVE  \E c \in run[t].todo, r \in RefreshRun :
              /\ c \in Candidate
              /\ run' = [run EXCEPT ![t] = r]
              /\ r.todo = run[t].todo \ {c}
              /\ r.quiet = run[t].quiet
              /\ \/ file[c.uri] = c.previous /\ r.step = "read"
                 \/ r.step = "commit" /\ r.now = c /\ r.text = file[c.uri]
<1>1. run[t] \in RefreshRun /\ run[t].step = "read"
  BY RunCases DEF RefreshRead, Refreshing, TypeOK
<1>2. PICK c \in run[t].todo :
        run' = [run EXCEPT ![t] = IF file[c.uri] = c.previous
                                  THEN Passed(run[t], c) ELSE Taken(run[t], c)]
  BY DEF RefreshRead
<1>3. c \in Candidate /\ file[c.uri] \in Text
  BY <1>1 DEF RefreshRun, Candidate, TypeOK
<1>4. CASE file[c.uri] = c.previous
  <2> DEFINE r == Passed(run[t], c)
  <2>1. /\ r \in RefreshRun /\ r.step = "read"
        /\ r.todo = run[t].todo \ {c} /\ r.quiet = run[t].quiet
    BY <1>1 DEF RefreshRun, Passed
  <2>2. run' = [run EXCEPT ![t] = r]
    BY <1>2, <1>4
  <2> HIDE DEF r
  <2> QED
    BY <1>3, <1>4, <2>1, <2>2
<1>5. CASE file[c.uri] # c.previous
  <2> DEFINE r == Taken(run[t], c)
  <2>1. /\ r \in RefreshRun /\ r.step = "commit" /\ r.now = c /\ r.text = file[c.uri]
        /\ r.todo = run[t].todo \ {c} /\ r.quiet = run[t].quiet
    BY <1>1, <1>3 DEF RefreshRun, Taken
  <2>2. run' = [run EXCEPT ![t] = r]
    BY <1>2, <1>5
  <2> HIDE DEF r
  <2> QED
    BY <1>3, <2>1, <2>2
<1> QED
  BY <1>4, <1>5

(* What an editor's notification leaves its thread inside of.               *)
EditorRuns == {Idle} \cup [op : {"save", "answer"}, uri : Uris]

EditorStep(t) ==
    \/ \E u \in Uris, text \in Contents : DidOpen(t, u, text)
    \/ EditCommit(t)
    \/ \E u \in Uris, text \in Text : DidSave(t, u, text)
    \/ \E u \in Uris : DidClose(t, u)

LEMMA EditorDisturbs ==
    ASSUME NEW t \in Threads, EditorStep(t)
    PROVE  \E r \in EditorRuns : Disturb(t, r)
<1>0. /\ Idle \in EditorRuns
      /\ \A u \in Uris, op \in {"save", "answer"} : [op |-> op, uri |-> u] \in EditorRuns
  BY DEF EditorRuns
<1>1. CASE EditCommit(t) \/ \E u \in Uris, text \in Contents : DidOpen(t, u, text)
  BY <1>0, <1>1 DEF DidOpen, OpenWith, EditCommit
<1>2. CASE \E u \in Uris, text \in Text : DidSave(t, u, text)
  <2>1. PICK u \in Uris, op \in {"save", "answer"} : Disturb(t, [op |-> op, uri |-> u])
    BY <1>2 DEF DidSave
  <2> QED
    BY <1>0, <2>1
<1>3. CASE \E u \in Uris : DidClose(t, u)
  BY <1>0, <1>3 DEF DidClose
<1> QED
  BY <1>1, <1>2, <1>3 DEF EditorStep

LEMMA StepRun ==
    ASSUME TypeOK, KnownInv, RefreshInv, NEW t \in Threads, Step(t)
    PROVE  run' \in [Threads -> RunState]
<1>1. CASE EditorStep(t)
  <2>1. \A r \in EditorRuns : r \in RunState
    BY DEF EditorRuns, RunState
  <2> QED
    BY <1>1, <2>1, EditorDisturbs, DisturbType
<1>2. CASE \E u \in Uris, e \in Edits : EditRead(t, u, e)
  <2>1. PICK u \in Uris, e \in Edits : EditRead(t, u, e)
    BY <1>2
  <2>2. PICK text \in Contents :
          run' = [run EXCEPT ![t] = [op |-> "edit", uri |-> u, edit |-> e, text |-> text]]
    BY <2>1, ReadEdit
  <2>3. [op |-> "edit", uri |-> u, edit |-> e, text |-> text] \in RunState
    BY OtherRuns
  <2> QED
    BY <2>2, <2>3 DEF TypeOK
<1>3. CASE SaveCount(t)
  <2>1. run[t].op = "save" /\ run[t] \in [op : {"save", "answer", "count"}, uri : Uris]
    BY <1>3 DEF SaveCount, TypeOK, RunState, Idle
  <2> DEFINE r == [run[t] EXCEPT !.op = "answer"]
  <2>2. r = [op |-> "answer", uri |-> run[t].uri]
    BY <2>1
  <2>3. r \in RunState
    BY <2>1, <2>2, OtherRuns
  <2>4. run' = [run EXCEPT ![t] = r]
    BY <1>3, <2>1 DEF SaveCount, TypeOK
  <2> HIDE DEF r
  <2> QED
    BY <2>3, <2>4 DEF TypeOK
<1>4. CASE \E u \in Uris : LoadNewRead(t, u)
  <2>1. PICK u \in Uris : LoadNewRead(t, u)
    BY <1>4
  <2>2. file[u] \in Contents
    BY <2>1 DEF LoadNewRead, TypeOK, Text
  <2> QED
    BY <2>1, <2>2, OtherRuns DEF LoadNewRead, TypeOK
<1>5. CASE LoadNewCommit(t)
  <2>1. run[t].uri \in Uris
    BY <1>5, RunCases DEF LoadNewCommit, TypeOK
  <2> QED
    BY <1>5, <2>1, OtherRuns DEF LoadNewCommit, TypeOK
<1>6. CASE RefreshStart(t)
  <2> DEFINE r == [op |-> "refresh", todo |-> Candidates, now |-> None, text |-> None,
                   step |-> "read", quiet |-> TRUE]
  <2>1. Candidates \in SUBSET Candidate
    BY UriAssumption DEF Candidates, Candidate, TypeOK, Document
  <2>2. r \in RefreshRun
    BY <2>1 DEF RefreshRun, Text
  <2>3. run' = [run EXCEPT ![t] = r]
    BY <1>6 DEF RefreshStart
  <2> HIDE DEF r
  <2> QED
    BY <2>2, <2>3, RefreshIsRun DEF TypeOK
<1>7. CASE RefreshRead(t)
  BY <1>7, ReadRun, RefreshIsRun DEF TypeOK
<1>8. CASE RefreshRemove(t) \/ RefreshBaseline(t) \/ RefreshUpdate(t)
  BY <1>8, NextType, CountType
  DEF RefreshRemove, RefreshBaseline, RefreshUpdate, Refreshing
<1>9. CASE RefreshCount(t)
  BY <1>9, NextType DEF RefreshCount, Refreshing
<1>10. CASE Answer(t) \/ Count(t) \/ RefreshEnd(t)
  BY <1>10, OtherRuns DEF Answer, Count, RefreshEnd, TypeOK
<1>11. CASE Return(t) \/ Discover(t) \/ \E u \in Uris : EnsureLoaded(t, u)
  BY <1>11 DEF Return, Discover, EnsureLoaded, TypeOK
<1> QED
  BY <1>1, <1>2, <1>3, <1>4, <1>5, <1>6, <1>7, <1>8, <1>9, <1>10, <1>11
  DEF Step, Notification, Request, EditorStep

LEMMA CountedType ==
    ASSUME TypeOK, NEW t \in Threads, NEW u \in Uris, NEW g \in Nat, NEW removed \in BOOLEAN
    PROVE  LET change == [uri |-> u, generation |-> g, removed |-> removed]
           IN  /\ [result EXCEPT ![t] = <<change>>] \in [Threads -> Seq(Change)]
               /\ [result EXCEPT ![t] = Append(result[t], change)] \in [Threads -> Seq(Change)]
<1> DEFINE change == [uri |-> u, generation |-> g, removed |-> removed]
<1>1. change \in Change
  BY DEF Change
<1> HIDE DEF change
<1>2. <<change>> \in Seq(Change) /\ Append(result[t], change) \in Seq(Change)
  BY <1>1 DEF TypeOK
<1> QED
  BY <1>2 DEF TypeOK, change

LEMMA StepRest ==
    ASSUME TypeOK, RefreshInv, NEW t \in Threads, Step(t)
    PROVE  /\ file' = file
           /\ generation' \in Nat
           /\ scan' \in SUBSET Threads
           /\ result' \in [Threads -> Seq(Change)]
<1>1. file' = file
  BY DEF Step, Notification, Request, Return, DidOpen, OpenWith, EditRead, EditCommit, DidSave, SaveCount, DidClose,
         Answer, EnsureLoaded, Discover, LoadNewRead, LoadNewCommit, Count, RefreshStart,
         RefreshRead, RefreshRemove, RefreshBaseline, RefreshUpdate, RefreshCount, RefreshEnd
<1>2. generation' = generation \/ NextGeneration
  BY DEF Step, Notification, Request, Return, DidOpen, OpenWith, EditRead, EditCommit, DidSave, SaveCount, DidClose,
         Answer, EnsureLoaded, Discover, LoadNewRead, LoadNewCommit, Count, RefreshStart,
         RefreshRead, RefreshRemove, RefreshBaseline, RefreshUpdate, RefreshCount, RefreshEnd
<1>3. generation' \in Nat
  BY <1>2 DEF TypeOK, NextGeneration
<1>4. scan' \in {scan, {t}, scan \ {t}}
  BY DEF Step, Notification, Request, Return, DidOpen, OpenWith, EditRead, EditCommit, DidSave, SaveCount, DidClose,
         Answer, EnsureLoaded, Discover, LoadNewRead, LoadNewCommit, Count, RefreshStart,
         RefreshRead, RefreshRemove, RefreshBaseline, RefreshUpdate, RefreshCount, RefreshEnd
<1>5. result' \in [Threads -> Seq(Change)]
  <2>1. CASE \/ \E u \in Uris, text \in Contents : DidOpen(t, u, text)
             \/ EditCommit(t) \/ Count(t) \/ Answer(t)
    <3>1. PICK u \in Uris, g \in Nat :
            result' = [result EXCEPT ![t] = <<[uri |-> u, generation |-> g, removed |-> FALSE]>>]
      BY <2>1, <1>3, RunCases DEF DidOpen, OpenWith, EditCommit, Count, Answer, TypeOK
    <3> QED
      BY <3>1, CountedType
  <2>2. CASE RefreshCount(t)
    <3>1. run[t].now.uri \in Uris
      BY <2>2, RefreshUri DEF RefreshCount, Refreshing
    <3> QED
      BY <2>2, <3>1, <1>3, CountedType DEF RefreshCount
  <2>3. CASE Return(t)
    BY <2>3 DEF Return, TypeOK
  <2>4. CASE result' = result
    BY <2>4 DEF TypeOK
  <2> QED
    BY <2>1, <2>2, <2>3, <2>4
    DEF Step, Notification, Request, EditRead, DidSave, SaveCount, DidClose, EnsureLoaded, Discover, LoadNewRead,
        LoadNewCommit, RefreshStart, RefreshRead, RefreshRemove, RefreshBaseline,
        RefreshUpdate, RefreshEnd
<1> QED
  BY <1>1, <1>3, <1>4, <1>5 DEF TypeOK

-----------------------------------------------------------------------------
(* Documents, claims and the lock                                           *)

LEMMA TouchedKeeps ==
    ASSUME TypeOK, KnownInv, ClaimsComplete, Touched
    PROVE  /\ docs' \in [Uris -> Document]
           /\ claims' \in [Modules -> SUBSET Uris]
           /\ KnownInv' /\ ClaimsComplete'
<1>1. CASE UNCHANGED <<docs, claims>>
  BY <1>1 DEF TypeOK, KnownInv, ClaimsComplete, Plausible, EffectiveModule, Stored, Open
<1>2. CASE \E u \in Uris, d \in Document : Plausible(d) /\ Replaced(u, d)
  <2>1. PICK u \in Uris, d \in Document : Plausible(d) /\ Replaced(u, d)
    BY <1>2
  <2>2. \A v \in Uris : Plausible(docs'[v])
    BY <2>1, ReplacedType DEF KnownInv
  <2>3. KnownInv'
    BY <2>2 DEF KnownInv, Plausible
  <2> QED
    BY <2>1, <2>3, ReplacedType, ReplacedClaims
<1>3. CASE \E t \in Threads : Discover(t)
  <2> DEFINE found == [Unknown EXCEPT !.known = TRUE]
  <2>1. found \in Document /\ found.known /\ EffectiveModule(found) = NoModule
    BY DEF Unknown, Document, Text, EffectiveModule, Stored, Open
  <2>2. docs' = [u \in Uris |-> IF u \in NewFiles THEN found ELSE docs[u]] /\ claims' = claims
    BY <1>3 DEF Discover
  <2> HIDE DEF found
  <2>3. docs' \in [Uris -> Document] /\ \A u \in Uris : docs'[u] = found \/ docs'[u] = docs[u]
    BY <2>1, <2>2 DEF TypeOK
  <2>4. \A u \in Uris : Plausible(docs'[u])
    BY <2>1, <2>3 DEF KnownInv, Plausible
  <2>5. KnownInv'
    BY <2>4 DEF KnownInv, Plausible
  <2>6. \A u \in Uris : EffectiveModule(docs'[u]) \in Modules =>
          u \in claims'[EffectiveModule(docs'[u])]
    BY <2>1, <2>2, <2>3, ContentAssumption DEF ClaimsComplete
  <2>7. ClaimsComplete'
    BY <2>6 DEF ClaimsComplete, EffectiveModule, Stored, Open
  <2> QED
    BY <2>2, <2>3, <2>5, <2>7 DEF TypeOK
<1> QED
  BY <1>1, <1>2, <1>3 DEF Touched

(* A step of one thread leaves the others inside of what they were; an      *)
(* editor's notification at most ends the quiet of a refresh.               *)
LEMMA OthersStay ==
    ASSUME TypeOK, KnownInv, RefreshInv, NEW t \in Threads, Step(t),
           NEW s \in Threads, s # t
    PROVE  \/ run'[s] = run[s]
           \/ run[s].op = "refresh" /\ run'[s] = [run[s] EXCEPT !.quiet = FALSE]
<1>1. CASE EditorStep(t)
  <2>1. PICK r \in EditorRuns : Disturb(t, r)
    BY <1>1, EditorDisturbs
  <2> QED
    BY <2>1 DEF Disturb
<1>2. CASE \E u \in Uris, e \in Edits : EditRead(t, u, e)
  BY <1>2, ReadEdit DEF TypeOK
<1>3. CASE \/ SaveCount(t) \/ Answer(t) \/ LoadNewCommit(t) \/ Count(t) \/ RefreshStart(t)
           \/ \E u \in Uris : LoadNewRead(t, u)
  BY <1>3 DEF SaveCount, Answer, LoadNewCommit, Count, RefreshStart, LoadNewRead, TypeOK
<1>4. CASE RefreshRead(t)
  BY <1>4, ReadRun DEF TypeOK
<1>5. CASE RefreshRemove(t) \/ RefreshBaseline(t) \/ RefreshUpdate(t) \/ RefreshCount(t)
           \/ RefreshEnd(t)
  BY <1>5 DEF RefreshRemove, RefreshBaseline, RefreshUpdate, RefreshCount, RefreshEnd,
              RefreshNext, TypeOK
<1>6. CASE run' = run
  BY <1>6
<1> QED
  BY <1>1, <1>2, <1>3, <1>4, <1>5, <1>6 DEF Step, Notification, Request, EditorStep, Return, Discover, EnsureLoaded

(* The lock changes hands only when it is free or its holder is done.       *)
LEMMA OwnLock ==
    ASSUME TypeOK, KnownInv, RefreshInv, LockInv, NEW t \in Threads, Step(t)
    PROVE  \/ scan' = scan /\ (run'[t].op \in {"refresh", "load"} =>
                                 run[t].op \in {"refresh", "load"})
           \/ scan = {} /\ scan' = {t}
           \/ scan = {t} /\ scan' = {} /\ run'[t].op \notin {"refresh", "load"}
<1>1. CASE EditorStep(t)
  <2>1. PICK r \in EditorRuns : Disturb(t, r)
    BY <1>1, EditorDisturbs
  <2>4. r.op \in {"idle", "save", "answer"}
    BY DEF Idle, EditorRuns
  <2>2. run'[t] = r
    BY <2>1 DEF Disturb
  <2>3. scan' = scan
    BY <1>1 DEF EditorStep, DidOpen, OpenWith, EditCommit, DidSave, DidClose
  <2> QED
    BY <2>2, <2>3, <2>4
<1>2. CASE \E u \in Uris, e \in Edits : EditRead(t, u, e)
  <2>1. run'[t].op = "edit"
    BY <1>2, ReadEdit DEF TypeOK
  <2> QED
    BY <1>2, <2>1 DEF EditRead
<1>3. CASE SaveCount(t) \/ Answer(t) \/ Count(t)
  <2>1. ASSUME SaveCount(t) PROVE run'[t].op = "answer"
    <3>1. run[t] \in [op : {"save", "answer", "count"}, uri : Uris]
      BY <2>1 DEF SaveCount, TypeOK, RunState, Idle
    <3>2. run'[t] = [run[t] EXCEPT !.op = "answer"]
      BY <2>1, <3>1 DEF SaveCount, TypeOK
    <3> QED
      BY <3>1, <3>2
  <2>2. ASSUME Answer(t) \/ Count(t) PROVE run'[t].op = "idle"
    BY <2>2 DEF Answer, Count, TypeOK, Idle
  <2>3. scan' = scan
    BY <1>3 DEF SaveCount, Answer, Count
  <2> QED
    BY <1>3, <2>1, <2>2, <2>3
<1>4. CASE RefreshStart(t) \/ \E u \in Uris : LoadNewRead(t, u)
  BY <1>4 DEF RefreshStart, LoadNewRead
<1>5. CASE LoadNewCommit(t) \/ RefreshEnd(t)
  <2>1. scan = {t} /\ scan' = {}
    BY <1>5 DEF LoadNewCommit, RefreshEnd, Refreshing, LockInv
  <2>2. run'[t].op \notin {"refresh", "load"}
    BY <1>5 DEF LoadNewCommit, RefreshEnd, TypeOK, Idle
  <2> QED
    BY <2>1, <2>2
<1>6. CASE RefreshRead(t) \/ RefreshRemove(t) \/ RefreshBaseline(t) \/ RefreshUpdate(t)
           \/ RefreshCount(t)
  BY <1>6 DEF RefreshRead, RefreshRemove, RefreshBaseline, RefreshUpdate, RefreshCount,
              Refreshing
<1>7. CASE run' = run /\ scan' = scan
  BY <1>7
<1> QED
  BY <1>1, <1>2, <1>3, <1>4, <1>5, <1>6, <1>7 DEF Step, Notification, Request, EditorStep, Return, Discover, EnsureLoaded

LEMMA StepLock ==
    ASSUME TypeOK, KnownInv, RefreshInv, LockInv, NEW t \in Threads, Step(t)
    PROVE  LockInv'
<1> SUFFICES ASSUME NEW s \in Threads, run'[s].op \in {"refresh", "load"}
             PROVE  scan' = {s}
  BY DEF LockInv
<1>1. CASE s = t
  BY <1>1, OwnLock DEF LockInv
<1>2. CASE s # t
  <2>1. run[s].op \in {"refresh", "load"}
    BY <1>2, OthersStay
  <2>2. scan = {s}
    BY <2>1 DEF LockInv
  <2> QED
    BY <1>2, <2>2, OwnLock
<1> QED
  BY <1>1, <1>2

-----------------------------------------------------------------------------
(* What a refresh relies on                                                 *)

(* While a refresh is undisturbed, another thread changes a document only   *)
(* by loading its file.                                                     *)
LoadsOnly == UNCHANGED docs \/ \E u \in Uris : docs' = [docs EXCEPT ![u] = Loaded(u)]

LEMMA OthersLoad ==
    ASSUME TypeOK, LockInv, NEW t \in Threads, Step(t), NEW s \in Threads, s # t,
           run[s].op = "refresh", run[s].quiet, run'[s] = run[s]
    PROVE  LoadsOnly
<1>0. scan = {s}
  BY DEF LockInv
<1>1. ~EditorStep(t)
  <2> SUFFICES ASSUME EditorStep(t) PROVE FALSE
    OBVIOUS
  <2>1. run'[s] = [run[s] EXCEPT !.quiet = FALSE]
    BY EditorDisturbs DEF Disturb
  <2> QED
    BY <2>1, RunCases DEF TypeOK, RefreshRun
<1>2. ~Discover(t) /\ ~LoadNewCommit(t)
  BY <1>0 DEF Discover, LoadNewCommit, LockInv
<1>3. run[t].op # "refresh"
  BY <1>0 DEF LockInv
<1>4. CASE \E u \in Uris, e \in Edits : EditRead(t, u, e)
  BY <1>4, ReadEdit DEF CommitFirst, LoadsOnly
<1>5. CASE \E u \in Uris : EnsureLoaded(t, u)
  BY <1>5 DEF EnsureLoaded, CommitFirst, LoadsOnly
<1>6. CASE UNCHANGED docs
  BY <1>6 DEF LoadsOnly
<1> QED
  BY <1>1, <1>2, <1>3, <1>4, <1>5, <1>6
  DEF Step, Notification, Request, EditorStep, Return, SaveCount, Answer, LoadNewRead, Count, RefreshStart,
      RefreshRead, RefreshRemove, RefreshBaseline, RefreshUpdate, RefreshCount, RefreshEnd,
      Refreshing

LEMMA LoadKeeps ==
    ASSUME TypeOK, KnownInv, NEW s \in Threads, run[s].op = "refresh", Undisturbed(s),
           LoadsOnly, file' = file, run'[s] = run[s]
    PROVE  Undisturbed(s)'
<1>0. run[s] \in RefreshRun
  BY RunCases DEF TypeOK
<1>1. \A u \in Uris : docs'[u] = docs[u] \/ docs'[u] = Loaded(u)
  BY DEF LoadsOnly, TypeOK
<1>2. \A u \in Uris : /\ Open(docs'[u]) <=> Open(docs[u])
                      /\ docs'[u].disk \in {docs[u].disk, file[u]}
  BY <1>1, LoadedOK DEF Open
<1>3. \A u \in FileUris : Converged(u) => Converged(u)'
  BY <1>2, UriAssumption DEF Converged, Open
<1>4. \A c \in run[s].todo : Copied(c)'
  BY <1>0, <1>2 DEF Undisturbed, Copied, Open, RefreshRun, Candidate
<1>5. \A u \in FileUris : Pending(s, u) => Pending(s, u)'
  BY DEF Pending
<1> QED
  BY <1>3, <1>4, <1>5 DEF Undisturbed

(* A commit settles the document it is about and no other.                  *)
LEMMA CommitKeeps ==
    ASSUME TypeOK, NEW t \in Threads, run[t] \in RefreshRun, Undisturbed(t),
           run[t].step = "commit", file' = file,
           run'[t].todo = run[t].todo, run'[t].step # "commit",
           \A v \in Uris \ {run[t].now.uri} : docs'[v] = docs[v],
           ~Open(docs'[run[t].now.uri]) =>
               docs'[run[t].now.uri].disk \in {None, file[run[t].now.uri]}
    PROVE  Undisturbed(t)'
<1>1. \A u \in FileUris : Converged(u)' \/ Pending(t, u)'
  <2> SUFFICES ASSUME NEW u \in FileUris PROVE Converged(u)' \/ Pending(t, u)'
    OBVIOUS
  <2>1. CASE u = run[t].now.uri
    BY <2>1 DEF Converged, Open
  <2>2. CASE u # run[t].now.uri
    BY <2>2, UriAssumption DEF Undisturbed, Converged, Pending, Open
  <2> QED
    BY <2>1, <2>2
<1>2. ASSUME NEW c \in run[t].todo PROVE Copied(c)'
  <2>1. c.uri \in Uris
    BY DEF RefreshRun, Candidate
  <2>2. CASE c.uri = run[t].now.uri
    BY <2>2 DEF Copied, Open
  <2>3. CASE c.uri # run[t].now.uri
    BY <2>1, <2>3 DEF Undisturbed, Copied, Open
  <2> QED
    BY <2>2, <2>3
<1> QED
  BY <1>1, <1>2 DEF Undisturbed

LEMMA RemoveKeeps ==
    ASSUME TypeOK, KnownInv, NEW t \in Threads, RefreshSound(t), RefreshRemove(t)
    PROVE  RefreshSound(t)'
<1> DEFINE u == run[t].now.uri
<1>1. run[t] \in RefreshRun /\ run[t].step = "commit" /\ run[t].op = "refresh"
  BY RunCases DEF RefreshRemove, Refreshing, TypeOK
<1>2. run[t].now \in Candidate /\ u \in Uris
  BY <1>1 DEF RefreshSound, Candidate
<1>3. /\ run'[t].todo = run[t].todo /\ run'[t].quiet = run[t].quiet
      /\ \/ run'[t].step = "read"
         \/ run'[t].step = "count" /\ run'[t].now = run[t].now
  BY <1>1, NextType, CountType DEF RefreshRemove
<1>4. \/ docs' = [docs EXCEPT ![u] = Unknown]
      \/ docs' = docs /\ ~(docs[u].known /\ ~Open(docs[u]) /\ docs[u].disk # None)
  BY DEF RefreshRemove, Commit
<1>5. ~Open(docs'[u]) => docs'[u].disk = None
  BY <1>2, <1>4 DEF TypeOK, Unknown, KnownInv, Plausible
<1>6. \A v \in Uris \ {u} : docs'[v] = docs[v]
  BY <1>2, <1>4 DEF TypeOK
<1>7. run[t].quiet => Undisturbed(t)'
  <2>1. SUFFICES ASSUME run[t].quiet PROVE Undisturbed(t)'
    OBVIOUS
  <2>2. Undisturbed(t)
    BY <1>1, <2>1 DEF RefreshSound
  <2>3. file' = file
    BY DEF RefreshRemove
  <2> HIDE DEF u
  <2> QED
    BY <1>1, <1>3, <1>5, <1>6, <2>2, <2>3, CommitKeeps DEF u
<1> QED
  BY <1>2, <1>3, <1>7 DEF RefreshSound

LEMMA RewriteKeeps ==
    ASSUME TypeOK, KnownInv, NEW t \in Threads, RefreshSound(t),
           RefreshBaseline(t) \/ RefreshUpdate(t)
    PROVE  RefreshSound(t)'
<1> DEFINE u == run[t].now.uri
           d == [docs[u] EXCEPT !.disk = run[t].text]
<1>1. run[t] \in RefreshRun /\ run[t].step = "commit" /\ run[t].op = "refresh"
  BY RunCases DEF RefreshBaseline, RefreshUpdate, Refreshing, TypeOK
<1>2. run[t].now \in Candidate /\ u \in Uris /\ run[t].text \in Text
  BY <1>1 DEF RefreshSound, Candidate, RefreshRun
<1>3. /\ run'[t].todo = run[t].todo /\ run'[t].quiet = run[t].quiet
      /\ \/ run'[t].step = "read"
         \/ run'[t].step = "count" /\ run'[t].now = run[t].now
  BY <1>1, NextType, CountType DEF RefreshBaseline, RefreshUpdate
<1>4. \/ docs' = [docs EXCEPT ![u] = d] /\ docs[u].known
      \/ docs' = docs /\ ~(docs[u].known /\ ~Open(docs[u]))
  BY DEF RefreshBaseline, RefreshUpdate, Commit, CommitFirst
<1>5. ~Open(docs'[u]) => docs'[u].disk \in {None, run[t].text}
  <2>1. CASE docs' = [docs EXCEPT ![u] = d] /\ docs[u].known
    BY <1>2, <2>1, DiskOK DEF TypeOK
  <2>2. CASE docs' = docs /\ ~(docs[u].known /\ ~Open(docs[u]))
    BY <1>2, <2>2 DEF Unknown, KnownInv, Plausible
  <2> QED
    BY <1>4, <2>1, <2>2
<1>6. \A v \in Uris \ {u} : docs'[v] = docs[v]
  BY <1>2, <1>4 DEF TypeOK
<1>7. run[t].quiet => Undisturbed(t)'
  <2>1. SUFFICES ASSUME run[t].quiet PROVE Undisturbed(t)'
    OBVIOUS
  <2>2. Undisturbed(t) /\ run[t].text = file[u]
    BY <1>1, <2>1 DEF RefreshSound, Undisturbed
  <2>3. file' = file
    BY DEF RefreshBaseline, RefreshUpdate
  <2> QED
    BY <1>1, <1>3, <1>5, <1>6, <2>2, <2>3, CommitKeeps
<1> QED
  BY <1>2, <1>3, <1>7 DEF RefreshSound

LEMMA ReadKeeps ==
    ASSUME TypeOK, NEW t \in Threads, RefreshSound(t), RefreshRead(t)
    PROVE  RefreshSound(t)'
<1>1. PICK c \in run[t].todo, r \in RefreshRun :
        /\ c \in Candidate
        /\ run' = [run EXCEPT ![t] = r]
        /\ r.todo = run[t].todo \ {c}
        /\ r.quiet = run[t].quiet
        /\ \/ file[c.uri] = c.previous /\ r.step = "read"
           \/ r.step = "commit" /\ r.now = c /\ r.text = file[c.uri]
  BY ReadRun
<1>2. run'[t] = r /\ docs' = docs /\ file' = file
  BY <1>1 DEF RefreshRead, TypeOK
<1>3. run[t].op = "refresh" /\ run[t].step = "read"
  BY DEF RefreshRead, Refreshing
<1>4. ASSUME run[t].quiet, NEW u \in FileUris PROVE Pending(t, u)' \/ Converged(u)'
  <2>1. Pending(t, u) \/ Converged(u)
    BY <1>3, <1>4 DEF RefreshSound, Undisturbed
  <2>2. CASE Converged(u)
    BY <1>2, <2>2 DEF Converged, Open
  <2>3. CASE c.uri = u /\ r.step = "commit"
    BY <1>1, <1>2, <2>3 DEF Pending
  <2>4. CASE c.uri = u /\ file[c.uri] = c.previous
    <3>1. Copied(c)
      BY <1>3, <1>4 DEF RefreshSound, Undisturbed
    <3> QED
      BY <1>2, <2>4, <3>1 DEF Copied, Converged, Open
  <2>5. CASE \E d \in run[t].todo : d.uri = u /\ d # c
    BY <1>1, <1>2, <2>5 DEF Pending
  <2> QED
    BY <1>1, <1>3, <2>1, <2>2, <2>3, <2>4, <2>5 DEF Pending
<1>5. ASSUME run[t].quiet PROVE \A d \in run'[t].todo : Copied(d)'
  BY <1>1, <1>2, <1>3, <1>5 DEF RefreshSound, Undisturbed, Copied, Open
<1>6. run'[t].step = "commit" => run'[t].text = file'[run'[t].now.uri]
  BY <1>1, <1>2
<1>7. run'[t].quiet => Undisturbed(t)'
  BY <1>1, <1>2, <1>4, <1>5, <1>6 DEF Undisturbed
<1>8. run'[t].step # "read" => run'[t].now \in Candidate
  BY <1>1, <1>2
<1> QED
  BY <1>7, <1>8 DEF RefreshSound

LEMMA StartSound ==
    ASSUME TypeOK, KnownInv, NEW t \in Threads, RefreshStart(t)
    PROVE  RefreshSound(t)'
<1>1. /\ run'[t].todo = Candidates /\ run'[t].step = "read"
      /\ docs' = docs /\ file' = file
  BY DEF RefreshStart, TypeOK
<1>2. ASSUME NEW u \in FileUris PROVE Pending(t, u)' \/ Converged(u)'
  <2>1. CASE docs[u].known /\ ~Open(docs[u])
    <3> DEFINE c == [uri |-> u, previous |-> docs[u].disk]
    <3>1. c \in Candidates /\ c.uri = u
      BY <2>1 DEF Candidates
    <3> QED
      BY <1>1, <3>1 DEF Pending
  <2>2. CASE ~(docs[u].known /\ ~Open(docs[u]))
    BY <1>1, <2>2, UriAssumption DEF Converged, KnownInv, Plausible, Unknown, Open
  <2> QED
    BY <2>1, <2>2
<1>3. \A c \in Candidates : Copied(c)'
  BY <1>1 DEF Candidates, Copied
<1>4. Undisturbed(t)'
  BY <1>1, <1>2, <1>3 DEF Undisturbed
<1> QED
  BY <1>1, <1>4 DEF RefreshSound

(* Only a refresh leaves its thread inside of one.                          *)
LEMMA OwnRefresh ==
    ASSUME TypeOK, KnownInv, NEW t \in Threads, Step(t), run'[t].op = "refresh"
    PROVE  \/ RefreshStart(t) \/ RefreshRead(t) \/ RefreshRemove(t)
           \/ RefreshBaseline(t) \/ RefreshUpdate(t) \/ RefreshCount(t)
           \/ run' = run /\ \E u \in Uris : EnsureLoaded(t, u)
<1>1. ~EditorStep(t)
  <2> SUFFICES ASSUME EditorStep(t) PROVE FALSE
    OBVIOUS
  <2>1. PICK r \in EditorRuns : Disturb(t, r)
    BY EditorDisturbs
  <2>2. run'[t] = r
    BY <2>1 DEF Disturb
  <2> QED
    BY <2>2 DEF EditorRuns, Idle
<1>2. ~\E u \in Uris, e \in Edits : EditRead(t, u, e)
  <2> SUFFICES ASSUME NEW u \in Uris, NEW e \in Edits, EditRead(t, u, e) PROVE FALSE
    OBVIOUS
  <2> QED
    BY ReadEdit DEF TypeOK
<1>3. ~SaveCount(t)
  <2> SUFFICES ASSUME SaveCount(t) PROVE FALSE
    OBVIOUS
  <2>1. run[t].op = "save" /\ run[t] \in [op : {"save", "answer", "count"}, uri : Uris]
    BY DEF SaveCount, TypeOK, RunState, Idle
  <2>2. run'[t] = [run[t] EXCEPT !.op = "answer"]
    BY <2>1 DEF SaveCount, TypeOK
  <2> QED
    BY <2>1, <2>2
<1>4. ~(Answer(t) \/ Count(t) \/ LoadNewCommit(t) \/ RefreshEnd(t))
  BY DEF Answer, Count, LoadNewCommit, RefreshEnd, TypeOK, Idle
<1>5. ~(Return(t) \/ Discover(t) \/ \E u \in Uris : LoadNewRead(t, u))
  BY DEF Return, Discover, LoadNewRead, Begin, TypeOK, Idle
<1> QED
  BY <1>1, <1>2, <1>3, <1>4, <1>5 DEF Step, Notification, Request, EditorStep, EnsureLoaded

LEMMA StepRefresh ==
    ASSUME StoreInv, NEW t \in Threads, Step(t)
    PROVE  RefreshInv'
<1>0. TypeOK /\ KnownInv /\ LockInv /\ RefreshInv /\ file' = file
  BY StepRest DEF StoreInv
<1> SUFFICES ASSUME NEW s \in Threads, run'[s].op = "refresh"
             PROVE  RefreshSound(s)'
  BY DEF RefreshInv, RefreshSound
<1>1. CASE s # t /\ run'[s] = run[s]
  <2>1. run[s].op = "refresh" /\ RefreshSound(s)
    BY <1>0, <1>1 DEF RefreshInv
  <2>2. ASSUME run[s].quiet PROVE Undisturbed(s)'
    <3>1. LoadsOnly
      BY <1>0, <1>1, <2>1, <2>2, OthersLoad
    <3> QED
      BY <1>0, <1>1, <2>1, <2>2, <3>1, LoadKeeps DEF RefreshSound
  <2> QED
    BY <1>1, <2>1, <2>2 DEF RefreshSound
<1>2. CASE s # t /\ run'[s] # run[s]
  <2>1. run[s].op = "refresh" /\ run'[s] = [run[s] EXCEPT !.quiet = FALSE]
    BY <1>0, <1>2, OthersStay
  <2>2. run[s] \in RefreshRun /\ RefreshSound(s)
    BY <1>0, <2>1, RunCases DEF TypeOK, RefreshInv
  <2>3. ~run'[s].quiet /\ run'[s].step = run[s].step /\ run'[s].now = run[s].now
    BY <2>1, <2>2 DEF RefreshRun
  <2> QED
    BY <2>1, <2>2, <2>3 DEF RefreshSound
<1>3. CASE s = t
  <2>1. RefreshSound(t)
    BY <1>0 DEF RefreshInv
  <2>2. CASE RefreshStart(t)
    BY <1>0, <1>3, <2>2, StartSound
  <2>3. CASE RefreshRead(t)
    BY <1>0, <1>3, <2>1, <2>3, ReadKeeps
  <2>4. CASE RefreshRemove(t)
    BY <1>0, <1>3, <2>1, <2>4, RemoveKeeps
  <2>5. CASE RefreshBaseline(t) \/ RefreshUpdate(t)
    BY <1>0, <1>3, <2>1, <2>5, RewriteKeeps
  <2>6. CASE RefreshCount(t)
    <3>1. /\ run[t].op = "refresh" /\ run[t].step = "count" /\ docs' = docs
          /\ run'[t].todo = run[t].todo /\ run'[t].quiet = run[t].quiet
          /\ run'[t].step = "read"
      BY <1>0, <2>6, NextType DEF RefreshCount, Refreshing
    <3>2. Undisturbed(t) => Undisturbed(t)'
      BY <1>0, <3>1 DEF Undisturbed, Pending, Converged, Copied, Open
    <3> QED
      BY <1>3, <2>1, <3>1, <3>2 DEF RefreshSound
  <2>7. CASE run' = run /\ \E u \in Uris : EnsureLoaded(t, u)
    <3>1. LoadsOnly
      BY <2>7 DEF EnsureLoaded, CommitFirst, LoadsOnly
    <3>2. run[t].op = "refresh"
      BY <1>3, <2>7
    <3>3. Undisturbed(t) => Undisturbed(t)'
      BY <1>0, <2>7, <3>1, <3>2, LoadKeeps
    <3> QED
      BY <1>3, <2>1, <2>7, <3>2, <3>3 DEF RefreshSound
  <2> QED
    BY <1>0, <1>3, <2>2, <2>3, <2>4, <2>5, <2>6, <2>7, OwnRefresh
<1> QED
  BY <1>1, <1>2, <1>3

-----------------------------------------------------------------------------
(* The invariant                                                            *)

LEMMA InitStore == Init => StoreInv
<1> SUFFICES ASSUME Init PROVE StoreInv
  OBVIOUS
<1>1. TypeOK
  BY UnknownIsDocument DEF Init, TypeOK, RunState, Idle
<1>2. KnownInv
  BY DEF Init, KnownInv, Plausible
<1>3. ClaimsComplete
  BY ContentAssumption
  DEF Init, ClaimsComplete, EffectiveModule, Stored, Open, Unknown
<1>4. LockInv /\ RefreshInv
  BY DEF Init, LockInv, RefreshInv, RefreshSound, Idle
<1> QED
  BY <1>1, <1>2, <1>3, <1>4 DEF StoreInv

LEMMA WriteKeeps ==
    ASSUME StoreInv, NEW u \in Uris, NEW text \in Text, WriteFile(u, text)
    PROVE  StoreInv'
<1>0. TypeOK /\ KnownInv /\ ClaimsComplete /\ LockInv /\ RefreshInv
  BY DEF StoreInv
<1>1. \A t \in Threads :
        run'[t] = IF run[t].op = "refresh" THEN [run[t] EXCEPT !.quiet = FALSE] ELSE run[t]
  BY DEF WriteFile
<1>2. run' \in [Threads -> RunState]
  <2>1. \A t \in Threads :
          (IF run[t].op = "refresh" THEN [run[t] EXCEPT !.quiet = FALSE] ELSE run[t]) \in RunState
    BY <1>0, QuietLost DEF TypeOK
  <2> QED
    BY <2>1 DEF WriteFile
<1>3. TypeOK'
  BY <1>0, <1>2 DEF WriteFile, TypeOK
<1>4. KnownInv' /\ ClaimsComplete'
  BY <1>0 DEF WriteFile, KnownInv, Plausible, ClaimsComplete, EffectiveModule, Stored, Open
<1>5. ASSUME NEW t \in Threads, run'[t].op \in {"refresh", "load"}
      PROVE  scan' = {t} /\ RefreshSound(t)'
  <2>1. CASE run[t].op = "refresh"
    <3>1. run[t] \in RefreshRun /\ run'[t] = [run[t] EXCEPT !.quiet = FALSE]
      BY <1>0, <1>1, <2>1, RunCases DEF TypeOK
    <3>2. ~run'[t].quiet /\ run'[t].step = run[t].step /\ run'[t].now = run[t].now
      BY <3>1 DEF RefreshRun
    <3> QED
      BY <1>0, <2>1, <3>2 DEF LockInv, RefreshInv, RefreshSound, WriteFile
  <2>2. CASE run[t].op # "refresh"
    BY <1>0, <1>1, <1>5, <2>2 DEF LockInv, RefreshSound, WriteFile
  <2> QED
    BY <2>1, <2>2
<1>6. LockInv' /\ RefreshInv'
  BY <1>5 DEF LockInv, RefreshInv, RefreshSound
<1> QED
  BY <1>3, <1>4, <1>6 DEF StoreInv

LEMMA NextStore == StoreInv /\ [Next]_vars => StoreInv'
<1> SUFFICES ASSUME StoreInv, [Next]_vars PROVE StoreInv'
  OBVIOUS
<1>1. CASE \E u \in Uris, text \in Text : WriteFile(u, text)
  BY <1>1, WriteKeeps
<1>2. CASE \E t \in Threads : Step(t)
  <2>1. PICK t \in Threads : Step(t)
    BY <1>2
  <2>2. TypeOK /\ KnownInv /\ ClaimsComplete /\ LockInv /\ RefreshInv
    BY DEF StoreInv
  <2>3. /\ docs' \in [Uris -> Document] /\ claims' \in [Modules -> SUBSET Uris]
        /\ KnownInv' /\ ClaimsComplete'
    BY <2>1, <2>2, StepTouches, TouchedKeeps
  <2>4. TypeOK'
    BY <2>1, <2>2, <2>3, StepRun, StepRest DEF TypeOK
  <2>5. LockInv' /\ RefreshInv'
    BY <2>1, <2>2, StepLock, StepRefresh
  <2> QED
    BY <2>3, <2>4, <2>5 DEF StoreInv
<1>3. CASE UNCHANGED vars
  BY <1>3 DEF vars, StoreInv, TypeOK, KnownInv, Plausible, ClaimsComplete, EffectiveModule,
              Stored, Open, LockInv, RefreshInv, RefreshSound, Undisturbed, Pending,
              Converged, Copied
<1> QED
  BY <1>1, <1>2, <1>3 DEF Next, WriteAnyFile

LEMMA StoreAlways == Spec => []StoreInv
  BY InitStore, NextStore, PTL DEF Spec

-----------------------------------------------------------------------------
(* Every variable of the store has its type (document.rs, DocumentStore).   *)
THEOREM StoreTypeCorrect == Spec => []TypeOK
<1>1. StoreInv => TypeOK
  BY DEF StoreInv
<1> QED
  BY <1>1, StoreAlways, PTL

(* No interleaving of loads, edits, saves, closes and refreshes leaves a    *)
(* document out of the claimants of the module its winning text declares    *)
(* (note_module_change).                                                    *)
THEOREM StoreClaimsComplete == Spec => []ClaimsComplete
<1>1. StoreInv => ClaimsComplete
  BY DEF StoreInv
<1> QED
  BY <1>1, StoreAlways, PTL

(* A refresh that no editor and no file change disturbed ends with every    *)
(* closed document at the text of its file, whatever the other threads      *)
(* loaded meanwhile (refresh_disk_with).                                    *)
THEOREM StoreRefreshConverges == Spec => []RefreshConverges
<1>1. StoreInv => RefreshConverges
  <2> SUFFICES ASSUME StoreInv, NEW t \in Threads, Refreshing(t, "read"),
                      run[t].todo = {}, run[t].quiet, NEW u \in FileUris
               PROVE  Converged(u)
    BY DEF RefreshConverges, Converged
  <2>1. Undisturbed(t)
    BY DEF StoreInv, RefreshInv, RefreshSound, Refreshing
  <2> QED
    BY <2>1 DEF Undisturbed, Pending, Refreshing
<1> QED
  BY <1>1, StoreAlways, PTL

BufferKept(u) == docs'[u].known /\ docs'[u].buffer = docs[u].buffer

LEMMA SameKept ==
    ASSUME KnownInv, NEW v \in Uris, Open(docs[v]), docs'[v] = docs[v]
    PROVE  BufferKept(v)
  BY DEF BufferKept, KnownInv, Plausible, Open, Unknown

(* A step that replaces no open document keeps every open buffer.           *)
LEMMA ClosedReplaced ==
    ASSUME TypeOK, KnownInv, NEW u \in Uris, NEW d, docs' = [docs EXCEPT ![u] = d],
           ~Open(docs[u]) \/ d = docs[u], NEW v \in Uris, Open(docs[v])
    PROVE  BufferKept(v)
<1>1. docs'[v] = docs[v]
  BY DEF TypeOK
<1> QED
  BY <1>1, SameKept

LEMMA StepKeepsBuffers ==
    ASSUME StoreInv, NEW t \in Threads, Step(t), generation' = generation,
           NEW v \in Uris, Open(docs[v])
    PROVE  BufferKept(v)
<1>0. TypeOK /\ KnownInv /\ RefreshInv
  BY DEF StoreInv
<1>1. ~NextGeneration
  BY <1>0 DEF NextGeneration, TypeOK
<1>2. CASE EditorStep(t)
  <2>1. PICK u \in Uris, text \in Text : DidSave(t, u, text)
    BY <1>1, <1>2 DEF EditorStep, DidOpen, OpenWith, EditCommit, DidClose
  <2> DEFINE saved == IF text # None THEN text ELSE docs[u].buffer
             d == IF saved = None THEN docs[u] ELSE [docs[u] EXCEPT !.disk = saved]
  <2>2. docs' = [docs EXCEPT ![u] = d] /\ docs[u].known
    BY <2>1 DEF DidSave, Commit
  <2>3. d.known /\ d.buffer = docs[u].buffer
    BY <1>0, <2>2, SavedOK
  <2> HIDE DEF d
  <2>4. CASE v = u
    BY <1>0, <2>2, <2>3, <2>4 DEF BufferKept, TypeOK
  <2>5. CASE v # u
    <3>1. docs'[v] = docs[v]
      BY <1>0, <2>2, <2>5 DEF TypeOK
    <3> QED
      BY <1>0, <3>1, SameKept
  <2> QED
    BY <2>4, <2>5
<1>3. CASE (\E u \in Uris, e \in Edits : EditRead(t, u, e)) \/ \E u \in Uris : EnsureLoaded(t, u)
  <2>1. PICK u \in Uris : docs' = [docs EXCEPT ![u] = Loaded(u)]
    BY <1>0, <1>3, ReadEdit DEF EnsureLoaded, CommitFirst
  <2> QED
    BY <1>0, <2>1, LoadedOK, ClosedReplaced
<1>4. CASE Discover(t)
  <2>1. docs[v].known
    BY <1>0 DEF KnownInv, Plausible, Open, Unknown
  <2>2. docs'[v] = docs[v]
    BY <1>4, <2>1 DEF Discover, NewFiles
  <2> QED
    BY <2>1, <2>2 DEF BufferKept
<1>5. CASE LoadNewCommit(t)
  <2>1. run[t].uri \in Uris
    BY <1>0, <1>5, RunCases DEF LoadNewCommit, TypeOK
  <2>2. CASE Stored(docs[run[t].uri]) = None
    <3>1. ~Open(docs[run[t].uri])
      BY <2>2 DEF Stored, Open
    <3>2. PICK d : docs' = [docs EXCEPT ![run[t].uri] = d] \/ docs' = docs
      BY <1>5 DEF LoadNewCommit, CommitFirst
    <3>3. docs'[v] = docs[v]
      BY <1>0, <2>1, <3>1, <3>2 DEF TypeOK
    <3> QED
      BY <1>0, <3>3, SameKept
  <2>3. CASE Stored(docs[run[t].uri]) # None
    <3>1. docs' = docs
      BY <1>5, <2>3 DEF LoadNewCommit
    <3> QED
      BY <1>0, <3>1, SameKept
  <2> QED
    BY <2>2, <2>3
<1>6. CASE RefreshRemove(t) \/ RefreshBaseline(t) \/ RefreshUpdate(t)
  <2>1. run[t].now.uri \in Uris
    BY <1>0, <1>6, RefreshUri DEF RefreshRemove, RefreshBaseline, RefreshUpdate, Refreshing
  <2>2. CASE ~Open(docs[run[t].now.uri])
    <3>1. PICK d : docs' = [docs EXCEPT ![run[t].now.uri] = d] \/ docs' = docs
      BY <1>6 DEF RefreshRemove, RefreshBaseline, RefreshUpdate, Commit, CommitFirst
    <3>2. docs'[v] = docs[v]
      BY <1>0, <2>1, <2>2, <3>1 DEF TypeOK
    <3> QED
      BY <1>0, <3>2, SameKept
  <2>3. CASE Open(docs[run[t].now.uri])
    <3>1. docs' = docs
      BY <1>6, <2>3 DEF RefreshRemove, RefreshBaseline, RefreshUpdate
    <3> QED
      BY <1>0, <3>1, SameKept
  <2> QED
    BY <2>2, <2>3
<1>7. CASE UNCHANGED docs
  BY <1>0, <1>7, SameKept
<1> QED
  BY <1>2, <1>3, <1>4, <1>5, <1>6, <1>7
  DEF Step, Notification, Request, EditorStep, Return, SaveCount, Answer, LoadNewRead, Count, RefreshStart,
      RefreshRead, RefreshCount, RefreshEnd

(* No refresh, load or save of any thread replaces or drops an open buffer: *)
(* that takes an editor's notification, which moves the generation.         *)
THEOREM StoreOpenBuffersStay == Spec => OpenBuffersStay
<1>1. StoreInv /\ [Next]_vars =>
        [\A u \in Uris : Open(docs[u]) /\ generation' = generation =>
            docs'[u].known /\ docs'[u].buffer = docs[u].buffer]_vars
  <2> SUFFICES ASSUME StoreInv, Next, NEW v \in Uris, Open(docs[v]), generation' = generation
               PROVE  BufferKept(v)
    BY DEF BufferKept
  <2>1. CASE \E u \in Uris, text \in Text : WriteFile(u, text)
    <3>1. docs' = docs
      BY <2>1 DEF WriteFile
    <3> QED
      BY <3>1, SameKept DEF StoreInv
  <2>2. CASE \E t \in Threads : Step(t)
    BY <2>2, StepKeepsBuffers
  <2> QED
    BY <2>1, <2>2 DEF Next, WriteAnyFile
<1> QED
  BY <1>1, StoreAlways, PTL DEF Spec, OpenBuffersStay

-----------------------------------------------------------------------------
(* One request at a time.  A refresh is never disturbed then, and a file    *)
(* that it commits for the first time may have been loaded before, but with *)
(* the same text.                                                           *)

CopyInv(t) ==
    run[t].op = "refresh" =>
        run[t].quiet /\ (run[t].step = "commit" => Copied(run[t].now))

(* A claim moves from the module of before, or there was none, or the       *)
(* module is the same.                                                      *)
Moves(u, d) ==
    \/ Commit(u, d)
    \/ CommitFirst(u, d) /\ EffectiveModule(docs[u]) \in {NoModule, EffectiveModule(d)}

(* Such a step takes the old claim away with giving the new one.            *)
LEMMA MovedClaims ==
    ASSUME TypeOK, ClaimsExact, NEW u \in Uris, NEW d \in Document, Moves(u, d)
    PROVE  ClaimsExact'
<1> DEFINE new == EffectiveModule(d)
           old == EffectiveModule(docs[u])
<1>1. /\ docs'[u] = d
      /\ \A v \in Uris \ {u} : docs'[v] = docs[v]
      /\ claims' \in [Modules -> SUBSET Uris]
  BY ReplacedType DEF Moves, Replaced
<1>2. \A m \in Modules : u \in claims[m] <=> old = m
  BY DEF ClaimsExact
<1>3. \A m \in Modules :
         /\ u \in claims'[m] <=> new = m
         /\ \A v \in Uris \ {u} : v \in claims'[m] <=> v \in claims[m]
  <2>1. CASE Commit(u, d)
    <3>1. claims' = NoteModule(claims, u, old, new)
      BY <2>1 DEF Commit
    <3> HIDE DEF old, new
    <3> QED
      BY <1>2, <3>1 DEF NoteModule
  <2>2. CASE CommitFirst(u, d) /\ old \in {NoModule, new}
    <3>1. claims' = NoteModule(claims, u, NoModule, new)
      BY <2>2 DEF CommitFirst
    <3>2. NoModule \notin Modules
      BY ContentAssumption
    <3> HIDE DEF old, new
    <3> QED
      BY <1>2, <2>2, <3>1, <3>2 DEF NoteModule
  <2> QED
    BY <2>1, <2>2 DEF Moves
<1>4. \A v \in Uris : EffectiveModule(docs[v])' = EffectiveModule(docs'[v])
  BY DEF EffectiveModule, Stored, Open
<1>5. ASSUME NEW m \in Modules, NEW v \in Uris
      PROVE  v \in claims'[m] <=> EffectiveModule(docs'[v]) = m
  <2>1. CASE v = u
    BY <1>1, <1>3, <2>1
  <2>2. CASE v # u
    BY <1>1, <1>3, <2>2 DEF ClaimsExact
  <2> QED
    BY <2>1, <2>2
<1> QED
  BY <1>1, <1>4, <1>5 DEF ClaimsExact

(* A document without text, and one that is loaded, declares no module yet. *)
LEMMA LoadedMoves ==
    ASSUME TypeOK, KnownInv, NEW u \in Uris, CommitFirst(u, Loaded(u))
    PROVE  Loaded(u) \in Document /\ Moves(u, Loaded(u))
<1>1. Loaded(u) = docs[u] \/ EffectiveModule(docs[u]) = NoModule
  BY DEF Loaded, EffectiveModule
<1> QED
  BY <1>1, LoadedOK DEF Moves

LEMMA OpenWithMoves ==
    ASSUME NEW t \in Threads, NEW u \in Uris, NEW text \in Contents, OpenWith(t, u, text)
    PROVE  \E d \in Document : Moves(u, d)
<1> DEFINE d == [known |-> TRUE, disk |-> None, buffer |-> text]
<1>1. d \in Document
  BY DEF Document, Text
<1>2. Commit(u, d)
  BY DEF OpenWith
<1> HIDE DEF d
<1> QED
  BY <1>1, <1>2 DEF Moves

(* The first text a refresh gives a document is the one it has, if any.     *)
LEMMA BaselineMoves ==
    ASSUME TypeOK, RefreshInv, NEW t \in Threads, CopyInv(t), RefreshBaseline(t)
    PROVE  \/ UNCHANGED <<docs, claims>>
           \/ \E u \in Uris, d \in Document : Moves(u, d)
<1> DEFINE u == run[t].now.uri
           d == [docs[u] EXCEPT !.disk = run[t].text]
<1>1. u \in Uris /\ run[t].text \in Text
  BY RefreshUri DEF RefreshBaseline, Refreshing, RefreshRun
<1>2. SUFFICES ASSUME docs[u].known, ~Open(docs[u]) PROVE d \in Document /\ Moves(u, d)
  BY <1>1 DEF RefreshBaseline
<1>3. CommitFirst(u, d)
  BY <1>2 DEF RefreshBaseline
<1>4. docs[u].disk \in {None, file[u]} /\ run[t].text = file[u]
  <2>1. Copied(run[t].now) /\ Undisturbed(t)
    BY DEF RefreshBaseline, Refreshing, CopyInv, RefreshInv, RefreshSound
  <2> QED
    BY <1>2, <2>1 DEF Copied, Undisturbed, RefreshBaseline, Refreshing
<1>5. d \in Document /\ d.buffer = docs[u].buffer /\ d.disk = run[t].text
  BY <1>1, <1>2, DiskOK
<1>6. Stored(d) = run[t].text /\ Stored(docs[u]) = docs[u].disk
  BY <1>2, <1>5 DEF Stored, Open
<1>7. EffectiveModule(docs[u]) \in {NoModule, EffectiveModule(d)}
  BY <1>4, <1>6 DEF EffectiveModule
<1> HIDE DEF d
<1> QED
  BY <1>3, <1>5, <1>7 DEF Moves

LEMMA StepMoves ==
    ASSUME TypeOK, KnownInv, RefreshInv, NEW t \in Threads, CopyInv(t), Step(t)
    PROVE  \/ UNCHANGED <<docs, claims>>
           \/ \E u \in Uris, d \in Document : Moves(u, d)
           \/ Discover(t)
<1>1. CASE \E u \in Uris, text \in Contents : DidOpen(t, u, text)
  BY <1>1, OpenWithMoves DEF DidOpen
<1>2. CASE \E u \in Uris, e \in Edits : EditRead(t, u, e)
  BY <1>2, ReadEdit, LoadedMoves
<1>3. CASE EditCommit(t)
  BY <1>3, OpenWithMoves, RunCases DEF EditCommit, TypeOK
<1>4. CASE \E u \in Uris, text \in Text : DidSave(t, u, text)
  BY <1>4, SavedOK DEF DidSave, Moves
<1>5. CASE \E u \in Uris : DidClose(t, u)
  BY <1>5, ClosedOK, UnknownIsDocument DEF DidClose, Moves
<1>6. CASE \E u \in Uris : EnsureLoaded(t, u)
  BY <1>6, LoadedMoves DEF EnsureLoaded
<1>7. CASE LoadNewCommit(t)
  <2> DEFINE u == run[t].uri
             d == [docs[u] EXCEPT !.disk = run[t].text]
  <2>1. u \in Uris /\ run[t].text \in Text
    BY <1>7, RunCases DEF LoadNewCommit, TypeOK, Text
  <2>2. SUFFICES ASSUME docs[u].known, Stored(docs[u]) = None
                 PROVE  d \in Document /\ Moves(u, d)
    BY <1>7, <2>1 DEF LoadNewCommit
  <2>3. CommitFirst(u, d)
    BY <1>7, <2>2 DEF LoadNewCommit
  <2>4. EffectiveModule(docs[u]) = NoModule
    BY <2>2 DEF EffectiveModule
  <2>5. d \in Document
    BY <2>1, <2>2, DiskOK
  <2> HIDE DEF d
  <2> QED
    BY <2>3, <2>4, <2>5 DEF Moves
<1>8. CASE RefreshRemove(t)
  <2>1. run[t].now.uri \in Uris
    BY <1>8, RefreshUri DEF RefreshRemove, Refreshing
  <2> QED
    BY <1>8, <2>1, UnknownIsDocument DEF RefreshRemove, Moves
<1>9. CASE RefreshUpdate(t)
  <2>1. run[t].now.uri \in Uris /\ run[t].text \in Text
    BY <1>9, RefreshUri DEF RefreshUpdate, Refreshing, RefreshRun
  <2> QED
    BY <1>9, <2>1, DiskOK DEF RefreshUpdate, Moves
<1>10. CASE RefreshBaseline(t)
  BY <1>10, BaselineMoves
<1>11. CASE \/ Return(t) \/ SaveCount(t) \/ Answer(t) \/ Count(t)
            \/ (\E u \in Uris : LoadNewRead(t, u))
            \/ RefreshStart(t) \/ RefreshRead(t) \/ RefreshCount(t) \/ RefreshEnd(t)
  BY <1>11 DEF Return, SaveCount, Answer, Count, LoadNewRead, RefreshStart, RefreshRead,
               RefreshCount, RefreshEnd
<1> QED
  BY <1>1, <1>2, <1>3, <1>4, <1>5, <1>6, <1>7, <1>8, <1>9, <1>10, <1>11 DEF Step, Notification, Request

(* What the walk of the workspace finds has no text and declares nothing.   *)
LEMMA DiscoverKeepsClaims ==
    ASSUME KnownInv, ClaimsExact, NEW t \in Threads, Discover(t)
    PROVE  ClaimsExact'
<1>1. ASSUME NEW u \in Uris PROVE EffectiveModule(docs'[u]) = EffectiveModule(docs[u])
  <2>1. CASE u \in NewFiles
    <3>1. docs[u] = Unknown /\ docs'[u] = [Unknown EXCEPT !.known = TRUE]
      BY <2>1 DEF Discover, NewFiles, KnownInv, Plausible
    <3> QED
      BY <3>1 DEF EffectiveModule, Stored, Open, Unknown
  <2>2. CASE u \notin NewFiles
    BY <2>2 DEF Discover
  <2> QED
    BY <2>1, <2>2
<1>2. \A u \in Uris : EffectiveModule(docs[u])' = EffectiveModule(docs'[u])
  BY DEF EffectiveModule, Stored, Open
<1>3. claims' = claims
  BY DEF Discover
<1> QED
  BY <1>1, <1>2, <1>3 DEF ClaimsExact

-----------------------------------------------------------------------------
(* The invariant of one request at a time.                                  *)

(* What an analysis loads has the text of the file.                         *)
LEMMA LoadKeepsCopied ==
    ASSUME TypeOK, KnownInv, NEW c, c \in Candidate, Copied(c), LoadsOnly, file' = file
    PROVE  Copied(c)'
<1>1. c.uri \in Uris
  BY DEF Candidate
<1>2. docs'[c.uri] = docs[c.uri] \/ docs'[c.uri] = Loaded(c.uri)
  BY <1>1 DEF LoadsOnly, TypeOK
<1>3. /\ Open(docs'[c.uri]) <=> Open(docs[c.uri])
      /\ docs'[c.uri].disk \in {docs[c.uri].disk, file[c.uri]}
  BY <1>1, <1>2, LoadedOK DEF Open
<1> QED
  BY <1>3 DEF Copied, Open

(* The candidate a refresh goes on to commit is as it was copied.           *)
LEMMA StepCopies ==
    ASSUME StoreInv, NEW t \in Threads, CopyInv(t), Step(t)
    PROVE  CopyInv(t)'
<1>0. TypeOK /\ KnownInv /\ RefreshInv /\ file' = file
  BY StepRest DEF StoreInv
<1> SUFFICES ASSUME run'[t].op = "refresh"
             PROVE  run'[t].quiet /\ (run'[t].step = "commit" => Copied(run[t].now)')
  BY DEF CopyInv
<1>1. CASE RefreshStart(t)
  BY <1>0, <1>1 DEF RefreshStart, TypeOK
<1>2. CASE RefreshRead(t)
  <2>1. PICK c \in run[t].todo, r \in RefreshRun :
          /\ c \in Candidate
          /\ run' = [run EXCEPT ![t] = r]
          /\ r.quiet = run[t].quiet
          /\ r.step = "read" \/ (r.step = "commit" /\ r.now = c)
    BY <1>0, <1>2, ReadRun
  <2>2. run'[t] = r /\ docs' = docs /\ file' = file
    BY <1>0, <1>2, <2>1 DEF RefreshRead, TypeOK
  <2>3. run[t].quiet
    BY <1>2 DEF RefreshRead, Refreshing, CopyInv
  <2>4. Copied(c)
    BY <1>0, <1>2, <2>3 DEF RefreshRead, Refreshing, RefreshInv, RefreshSound, Undisturbed
  <2>5. r.step = "commit" => Copied(run[t].now)'
    BY <2>1, <2>2, <2>4 DEF Copied, Open
  <2> QED
    BY <2>1, <2>2, <2>3, <2>5
<1>3. CASE RefreshRemove(t) \/ RefreshBaseline(t) \/ RefreshUpdate(t) \/ RefreshCount(t)
  <2>1. run[t].op = "refresh" /\ run[t].quiet
    BY <1>3 DEF RefreshRemove, RefreshBaseline, RefreshUpdate, RefreshCount, Refreshing, CopyInv
  <2>2. RefreshNext(t) \/ run' = [run EXCEPT ![t].step = "count"]
    BY <1>3 DEF RefreshRemove, RefreshBaseline, RefreshUpdate, RefreshCount
  <2>3. run'[t].quiet = run[t].quiet /\ run'[t].step \in {"read", "count"}
    BY <1>0, <2>1, <2>2, NextType, CountType
  <2> QED
    BY <2>1, <2>3
<1>4. CASE run' = run /\ \E u \in Uris : EnsureLoaded(t, u)
  <2>1. LoadsOnly
    BY <1>4 DEF EnsureLoaded, CommitFirst, LoadsOnly
  <2>2. run[t].op = "refresh" /\ run[t].quiet
    BY <1>4 DEF CopyInv
  <2>3. ASSUME run[t].step = "commit" PROVE Copied(run[t].now)'
    <3>1. PICK c : c = run[t].now
      OBVIOUS
    <3>2. c \in Candidate /\ Copied(c)
      BY <1>0, <2>2, <2>3, <3>1, RefreshUri DEF CopyInv
    <3>3. Copied(c)'
      BY <1>0, <2>1, <3>2, LoadKeepsCopied
    <3> QED
      BY <1>4, <3>1, <3>3 DEF Copied
  <2> QED
    BY <1>4, <2>2, <2>3
<1> QED
  BY <1>0, <1>1, <1>2, <1>3, <1>4, OwnRefresh

AloneInv(t) == StoreInv /\ CopyInv(t) /\ ClaimsExact

LEMMA AloneInit == ASSUME NEW t \in Threads PROVE Init => AloneInv(t)
<1> SUFFICES ASSUME Init PROVE AloneInv(t)
  OBVIOUS
<1>1. CopyInv(t)
  BY DEF Init, CopyInv, Idle
<1>2. \A u \in Uris : EffectiveModule(docs[u]) = NoModule
  BY DEF Init, EffectiveModule, Stored, Open, Unknown
<1>3. ClaimsExact
  BY <1>2, ContentAssumption DEF Init, ClaimsExact
<1> QED
  BY <1>1, <1>3, InitStore DEF AloneInv

LEMMA AloneNext ==
    ASSUME NEW t, Threads = {t}, FilesSettle, AloneInv(t), [Next]_vars
    PROVE  AloneInv(t)'
<1>0. StoreInv /\ CopyInv(t) /\ ClaimsExact /\ t \in Threads /\ StoreInv'
  BY NextStore DEF AloneInv
<1>1. CASE \E u \in Uris, text \in Text : WriteFile(u, text)
  <2>1. run[t].op # "refresh" /\ docs' = docs /\ claims' = claims
    BY <1>0, <1>1 DEF WriteFile, Idle
  <2>2. run'[t] = run[t]
    BY <1>0, <1>1, <2>1 DEF WriteFile
  <2>3. CopyInv(t)'
    BY <2>1, <2>2 DEF CopyInv
  <2>4. ClaimsExact'
    BY <1>0, <2>1 DEF ClaimsExact, EffectiveModule, Stored, Open
  <2> QED
    BY <1>0, <2>3, <2>4 DEF AloneInv
<1>2. CASE \E s \in Threads : Step(s)
  <2>1. Step(t)
    BY <1>2
  <2>2. CopyInv(t)'
    BY <1>0, <2>1, StepCopies
  <2>3. TypeOK /\ KnownInv /\ RefreshInv
    BY <1>0 DEF StoreInv
  <2>4. ClaimsExact'
    <3>1. CASE UNCHANGED <<docs, claims>>
      BY <1>0, <3>1 DEF ClaimsExact, EffectiveModule, Stored, Open
    <3>2. CASE \E u \in Uris, d \in Document : Moves(u, d)
      BY <1>0, <2>3, <3>2, MovedClaims
    <3>3. CASE Discover(t)
      BY <1>0, <2>3, <3>3, DiscoverKeepsClaims
    <3> QED
      BY <1>0, <2>1, <2>3, <3>1, <3>2, <3>3, StepMoves
  <2> QED
    BY <1>0, <2>2, <2>4 DEF AloneInv
<1>3. CASE UNCHANGED vars
  BY <1>0, <1>3 DEF vars, AloneInv, CopyInv, Copied, ClaimsExact, EffectiveModule, Stored, Open
<1> QED
  BY <1>1, <1>2, <1>3 DEF Next, WriteAnyFile

(* "The least URI wins, exactly as a fresh scan over the sorted document    *)
(* map would produce": while one request runs at a time and files change    *)
(* only between requests, the claimants of a module are exactly the         *)
(* documents that declare it, first loads, baselines and removals included  *)
(* (note_module_change).                                                    *)
THEOREM StoreClaimsExact ==
    ASSUME NEW CONSTANT t, Threads = {t}, FilesSettle
    PROVE  Spec => []ClaimsExact
<1>1. Init => AloneInv(t)
  BY AloneInit
<1>2. AloneInv(t) /\ [Next]_vars => AloneInv(t)'
  BY AloneNext
<1>3. AloneInv(t) => ClaimsExact
  BY DEF AloneInv
<1> QED
  BY <1>1, <1>2, <1>3, PTL DEF Spec

-----------------------------------------------------------------------------
(* One editor.  Its edit carries the text it makes of the buffer it found;  *)
(* meanwhile the other threads load, refresh and discover, which neither    *)
(* opens nor replaces an open buffer.                                       *)

EditInv(editor) ==
    run[editor].op = "edit" =>
        LET u == run[editor].uri
        IN  Open(docs[u]) => run[editor].text = Edited[<<docs[u].buffer, run[editor].edit>>]

OthersEditNothing(editor) == \A t \in Threads \ {editor} : run[t].op # "edit"

OneEditorInv(editor) == StoreInv /\ EditInv(editor) /\ OthersEditNothing(editor)

(* A request is no edit, and leaves the other threads to theirs.            *)
LEMMA RequestRuns ==
    ASSUME TypeOK, KnownInv, RefreshInv, NEW t \in Threads, Request(t)
    PROVE  /\ run[t].op # "edit" /\ run'[t].op # "edit"
           /\ \A s \in Threads \ {t} : run'[s] = run[s]
<1>1. CASE RefreshStart(t) \/ RefreshRead(t) \/ LoadNewCommit(t)
  <2>1. CASE RefreshRead(t)
    <3>1. PICK r \in RefreshRun : run' = [run EXCEPT ![t] = r]
      BY <2>1, ReadRun
    <3> QED
      BY <2>1, <3>1 DEF RefreshRead, Refreshing, TypeOK, RefreshRun
  <2>2. CASE RefreshStart(t) \/ LoadNewCommit(t)
    BY <2>2 DEF RefreshStart, LoadNewCommit, Begin, TypeOK, Idle
  <2> QED
    BY <1>1, <2>1, <2>2
<1>2. CASE RefreshRemove(t) \/ RefreshBaseline(t) \/ RefreshUpdate(t) \/ RefreshCount(t)
  <2>1. run[t].op = "refresh" /\ (RefreshNext(t) \/ run' = [run EXCEPT ![t].step = "count"])
    BY <1>2 DEF RefreshRemove, RefreshBaseline, RefreshUpdate, RefreshCount, Refreshing
  <2>2. run[t] \in RefreshRun
    BY <2>1, RunCases DEF TypeOK
  <2>3. CASE RefreshNext(t)
    BY <2>1, <2>2, <2>3 DEF RefreshNext, TypeOK, RefreshRun
  <2>4. CASE run' = [run EXCEPT ![t].step = "count"]
    BY <2>1, <2>2, <2>4 DEF TypeOK, RefreshRun
  <2> QED
    BY <2>1, <2>3, <2>4
<1>3. CASE SaveCount(t)
  <2>1. run[t].op = "save" /\ run[t] \in [op : {"save", "answer", "count"}, uri : Uris]
    BY <1>3 DEF SaveCount, TypeOK, RunState, Idle
  <2>2. run' = [run EXCEPT ![t] = [run[t] EXCEPT !.op = "answer"]]
    BY <1>3, <2>1 DEF SaveCount, TypeOK
  <2> QED
    BY <2>1, <2>2 DEF TypeOK
<1>4. CASE \/ Answer(t) \/ Count(t) \/ RefreshEnd(t) \/ Return(t) \/ Discover(t)
           \/ \E u \in Uris : LoadNewRead(t, u)
  BY <1>4 DEF Answer, Count, RefreshEnd, Return, Discover, LoadNewRead, Begin, Refreshing,
              TypeOK, Idle
<1>5. CASE \E u \in Uris : EnsureLoaded(t, u)
  BY <1>5 DEF EnsureLoaded, Refreshing, Idle
<1> QED
  BY <1>1, <1>2, <1>3, <1>4, <1>5 DEF Request

(* A request opens no document.                                             *)
LEMMA RequestOpensNothing ==
    ASSUME TypeOK, KnownInv, RefreshInv, NEW t \in Threads, Request(t),
           NEW v \in Uris, ~Open(docs[v])
    PROVE  ~Open(docs'[v])
<1>1. ASSUME NEW u \in Uris, NEW d, docs' = [docs EXCEPT ![u] = d],
             ~Open(d) \/ d.buffer = docs[u].buffer
      PROVE  ~Open(docs'[v])
  BY <1>1 DEF TypeOK, Open
<1>2. CASE \E u \in Uris : EnsureLoaded(t, u)
  BY <1>1, <1>2, LoadedOK DEF EnsureLoaded, CommitFirst
<1>3. CASE Discover(t)
  BY <1>3 DEF Discover, Unknown, Open
<1>4. CASE LoadNewCommit(t)
  <2> DEFINE u == run[t].uri
             d == [docs[u] EXCEPT !.disk = run[t].text]
  <2>1. u \in Uris /\ (docs' = docs \/ docs' = [docs EXCEPT ![u] = d])
    BY <1>4, RunCases DEF LoadNewCommit, CommitFirst, TypeOK
  <2>2. d.buffer = docs[u].buffer
    BY <2>1 DEF TypeOK, Document
  <2> HIDE DEF u, d
  <2> QED
    BY <1>1, <2>1, <2>2
<1>5. CASE RefreshRemove(t) \/ RefreshBaseline(t) \/ RefreshUpdate(t)
  <2> DEFINE u == run[t].now.uri
             d == [docs[u] EXCEPT !.disk = run[t].text]
  <2>1. u \in Uris
    BY <1>5, RefreshUri DEF RefreshRemove, RefreshBaseline, RefreshUpdate, Refreshing
  <2>2. docs' = docs \/ docs' = [docs EXCEPT ![u] = d] \/ docs' = [docs EXCEPT ![u] = Unknown]
    BY <1>5 DEF RefreshRemove, RefreshBaseline, RefreshUpdate, Commit, CommitFirst
  <2>3. d.buffer = docs[u].buffer /\ ~Open(Unknown)
    BY <2>1 DEF TypeOK, Document, Unknown, Open
  <2> HIDE DEF u, d
  <2> QED
    BY <1>1, <2>1, <2>2, <2>3
<1>6. CASE UNCHANGED docs
  BY <1>6
<1> QED
  BY <1>2, <1>3, <1>4, <1>5, <1>6
  DEF Request, Return, SaveCount, Answer, LoadNewRead, Count, RefreshStart, RefreshRead,
      RefreshCount, RefreshEnd

(* So what a request leaves open has the buffer it had.                     *)
LEMMA RequestKeepsBuffers ==
    ASSUME StoreInv, NEW t \in Threads, Request(t), NEW v \in Uris, Open(docs'[v])
    PROVE  Open(docs[v]) /\ docs'[v].buffer = docs[v].buffer
<1>0. TypeOK /\ KnownInv /\ RefreshInv
  BY DEF StoreInv
<1>1. Open(docs[v])
  BY <1>0, RequestOpensNothing
<1>2. CASE generation' = generation
  BY <1>1, <1>2, StepKeepsBuffers DEF Step, BufferKept
<1>3. CASE generation' # generation
  BY <1>3
  DEF Request, Return, SaveCount, Answer, LoadNewRead, Count, RefreshStart, RefreshRead,
      RefreshCount, RefreshEnd, EnsureLoaded, Discover, LoadNewCommit, RefreshRemove,
      RefreshBaseline, RefreshUpdate
<1> QED
  BY <1>1, <1>2, <1>3

LEMMA RequestKeepsEdit ==
    ASSUME NEW editor \in Threads, OneEditorInv(editor), NEW t \in Threads, Request(t)
    PROVE  EditInv(editor)' /\ OthersEditNothing(editor)'
<1>0. StoreInv /\ TypeOK /\ KnownInv /\ RefreshInv
  BY DEF OneEditorInv, StoreInv
<1>1. /\ run[t].op # "edit" /\ run'[t].op # "edit"
      /\ \A s \in Threads \ {t} : run'[s] = run[s]
  BY <1>0, RequestRuns
<1>2. OthersEditNothing(editor)'
  BY <1>1 DEF OneEditorInv, OthersEditNothing
<1>3. ASSUME run'[editor].op = "edit", Open(docs'[run'[editor].uri])
      PROVE  run'[editor].text = Edited[<<docs'[run'[editor].uri].buffer, run'[editor].edit>>]
  <2> DEFINE u == run[editor].uri
  <2>1. run'[editor] = run[editor] /\ run[editor].op = "edit"
    BY <1>1, <1>3
  <2>2. u \in Uris
    BY <1>0, <2>1, RunCases DEF TypeOK
  <2>3. Open(docs'[u])
    BY <1>3, <2>1
  <2>4. Open(docs[u]) /\ docs'[u].buffer = docs[u].buffer
    BY <1>0, <2>2, <2>3, RequestKeepsBuffers
  <2> QED
    BY <2>1, <2>4 DEF OneEditorInv, EditInv
<1>4. EditInv(editor)'
  BY <1>3 DEF EditInv, Open
<1> QED
  BY <1>2, <1>4

LEMMA EditStarts ==
    ASSUME TypeOK, KnownInv, NEW t \in Threads, NEW u \in Uris, NEW e \in Edits,
           EditRead(t, u, e)
    PROVE  EditInv(t)' /\ \A s \in Threads \ {t} : run'[s] = run[s]
<1> DEFINE base == IF Stored(Loaded(u)) = None THEN EmptyText ELSE Stored(Loaded(u))
           r == [op |-> "edit", uri |-> u, edit |-> e, text |-> Edited[<<base, e>>]]
<1>1. run' = [run EXCEPT ![t] = r] /\ docs' = [docs EXCEPT ![u] = Loaded(u)]
  BY DEF EditRead, CommitFirst
<1>2. r.uri = u /\ r.edit = e /\ r.text = Edited[<<base, e>>]
  OBVIOUS
<1>3. Open(Loaded(u)) => base = Loaded(u).buffer
  BY DEF Stored, Open
<1> HIDE DEF base, r
<1>4. run'[t] = r /\ docs'[u] = Loaded(u) /\ \A s \in Threads \ {t} : run'[s] = run[s]
  BY <1>1 DEF TypeOK
<1> QED
  BY <1>2, <1>3, <1>4 DEF EditInv, Open

(* After any other notification the editor's thread is not in an edit.      *)
LEMMA NotificationKeepsEdit ==
    ASSUME NEW editor \in Threads, OneEditorInv(editor), Notification(editor)
    PROVE  EditInv(editor)' /\ OthersEditNothing(editor)'
<1>0. TypeOK /\ KnownInv
  BY DEF OneEditorInv, StoreInv
<1>1. CASE \E u \in Uris, e \in Edits : EditRead(editor, u, e)
  BY <1>0, <1>1, EditStarts DEF OneEditorInv, OthersEditNothing
<1>2. CASE EditorStep(editor)
  <2>1. PICK r \in EditorRuns : Disturb(editor, r)
    BY <1>0, <1>2, EditorDisturbs
  <2>2. run'[editor].op # "edit"
    BY <1>0, <2>1 DEF Disturb, EditorRuns, Idle
  <2>3. ASSUME NEW s \in Threads \ {editor}
        PROVE  run'[s].op # "edit"
    <3>1. CASE run[s].op = "refresh"
      <4>1. run[s] \in RefreshRun
        BY <1>0, <3>1, RunCases DEF TypeOK
      <4>2. run'[s] = [run[s] EXCEPT !.quiet = FALSE]
        BY <2>1, <3>1 DEF Disturb
      <4> QED
        BY <4>1, <4>2 DEF RefreshRun
    <3>2. CASE run[s].op # "refresh"
      BY <2>1, <3>2 DEF Disturb, OneEditorInv, OthersEditNothing
    <3> QED
      BY <3>1, <3>2
  <2> QED
    BY <2>2, <2>3 DEF EditInv, OthersEditNothing
<1> QED
  BY <1>1, <1>2 DEF Notification, EditorStep

LEMMA FileKeepsEdit ==
    ASSUME NEW editor \in Threads, OneEditorInv(editor), NEW u \in Uris, NEW text \in Text,
           WriteFile(u, text)
    PROVE  EditInv(editor)' /\ OthersEditNothing(editor)'
<1>0. TypeOK
  BY DEF OneEditorInv, StoreInv
<1>1. ASSUME NEW s \in Threads
      PROVE  run'[s].op = "edit" => run'[s] = run[s]
  <2>1. CASE run[s].op = "refresh"
    <3>1. run[s] \in RefreshRun /\ run'[s] = [run[s] EXCEPT !.quiet = FALSE]
      BY <1>0, <2>1, RunCases DEF WriteFile, TypeOK
    <3> QED
      BY <3>1 DEF RefreshRun
  <2>2. CASE run[s].op # "refresh"
    BY <2>2 DEF WriteFile
  <2> QED
    BY <2>1, <2>2
<1>2. docs' = docs
  BY DEF WriteFile
<1>3. OthersEditNothing(editor)'
  BY <1>1 DEF OneEditorInv, OthersEditNothing
<1>4. EditInv(editor)'
  BY <1>1, <1>2 DEF OneEditorInv, EditInv, Open
<1> QED
  BY <1>3, <1>4

LEMMA OneEditorNextInv ==
    ASSUME NEW editor \in Threads, OneEditorInv(editor), [OneEditorNext(editor)]_vars
    PROVE  OneEditorInv(editor)'
<1>1. [Next]_vars
  BY DEF OneEditorNext, Next, Step
<1>2. StoreInv'
  BY <1>1, NextStore DEF OneEditorInv
<1>3. CASE UNCHANGED vars
  BY <1>2, <1>3 DEF vars, OneEditorInv, EditInv, OthersEditNothing, Open
<1>4. CASE OneEditorNext(editor)
  BY <1>2, <1>4, FileKeepsEdit, NotificationKeepsEdit, RequestKeepsEdit
     DEF OneEditorNext, WriteAnyFile, OneEditorInv
<1> QED
  BY <1>3, <1>4

(* Only its last step ends an edit, and writes the text it carries.         *)
LEMMA EditEnds ==
    ASSUME NEW editor \in Threads, OneEditorInv(editor), OneEditorNext(editor),
           NEW t \in Threads, run[t].op = "edit", run'[t] # run[t]
    PROVE  t = editor /\ EditCommit(editor)
<1>0. TypeOK /\ KnownInv /\ RefreshInv
  BY DEF OneEditorInv, StoreInv
<1>1. t = editor
  BY DEF OneEditorInv, OthersEditNothing
<1>2. ~WriteAnyFile
  BY DEF WriteAnyFile, WriteFile
<1>3. ASSUME NEW s \in Threads PROVE ~Request(s)
  BY <1>0, <1>3, RequestRuns
<1>4. run[editor] # Idle
  BY <1>1 DEF Idle
<1> QED
  BY <1>1, <1>2, <1>3, <1>4
  DEF OneEditorNext, Notification, Begin, DidOpen, EditRead, DidSave, DidClose

(* "Ranged edits apply in order against the document's current content":    *)
(* with one editor, what an edit leaves is the edit of the open buffer it   *)
(* is written over, however many other requests load, refresh and discover  *)
(* between its read and its write, and whatever becomes of the files        *)
(* (did_change_incremental).                                                *)
THEOREM StoreEditsCompose ==
    ASSUME NEW CONSTANT editor \in Threads
    PROVE  OneEditorSpec(editor) => EditsCompose
<1>1. Init => OneEditorInv(editor)
  BY InitStore DEF Init, OneEditorInv, EditInv, OthersEditNothing, Idle
<1>2. OneEditorInv(editor) /\ [OneEditorNext(editor)]_vars => OneEditorInv(editor)'
  BY OneEditorNextInv
<1>3. OneEditorInv(editor) /\ [OneEditorNext(editor)]_vars => [EditComposes]_vars
  <2> SUFFICES ASSUME OneEditorInv(editor), OneEditorNext(editor), NEW t \in Threads,
                      run[t].op = "edit", run'[t] # run[t], Open(docs[run[t].uri])
               PROVE  docs'[run[t].uri].buffer = Edited[<<docs[run[t].uri].buffer, run[t].edit>>]
    BY DEF EditComposes
  <2>1. t = editor /\ EditCommit(editor)
    BY EditEnds
  <2>2. TypeOK /\ EditInv(editor)
    BY DEF OneEditorInv, StoreInv
  <2>3. run[editor].uri \in Uris
    BY <2>1, <2>2, RunCases DEF TypeOK
  <2>4. docs'[run[editor].uri].buffer = run[editor].text
    BY <2>1, <2>2, <2>3 DEF EditCommit, OpenWith, Commit, TypeOK
  <2> QED
    BY <2>1, <2>2, <2>4 DEF EditInv
<1> QED
  BY <1>1, <1>2, <1>3, PTL DEF OneEditorSpec, EditsCompose
=============================================================================
