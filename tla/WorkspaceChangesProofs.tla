----------------------- MODULE WorkspaceChangesProofs -----------------------
(***************************************************************************)
(* Proofs that the events tell the workspace, for any files, texts,        *)
(* editing, refreshes, crashes and restarts, as long as requests come one  *)
(* at a time.                                                              *)
(*                                                                         *)
(* The argument is that at most one document at a time has a text nobody   *)
(* has been told of.  The invariant says at which place a request is, and  *)
(* of each place which document that is, what a consumer believes it holds *)
(* and that the change on its way is of that document, at the generation   *)
(* of now and relative to what was told: so the stale-work guard lets it   *)
(* pass, and when the call returns nothing is left to tell.                *)
(***************************************************************************)
EXTENDS WorkspaceChanges, FiniteSetTheorems, SequenceTheorems, WellFoundedInduction, TLAPS

(* What the proofs assume of the environment: one request at a time, files  *)
(* that change between requests and one of them between two refreshes, and  *)
(* editors and machines that behave: without any one of them TLC finds a    *)
(* change that no event tells or a delta that does not fold.                *)
Orderly(t) ==
    /\ Threads = {t}
    /\ FilesSettle /\ MaxChanged = 1
    /\ {"careless close", "early queries", "removal while down"} \cap Practices = {}

-----------------------------------------------------------------------------
(* The invariant: what every reachable state knows of the documents, and    *)
(* one predicate for each place a request can be at.                        *)

Typed ==
    /\ file \in [Uris -> Text] /\ docs \in [Uris -> Store!Document]
    /\ generation \in Nat
    /\ DOMAIN run = Threads /\ DOMAIN result = Threads
    /\ DOMAIN job = Threads /\ DOMAIN obs = Threads
    /\ cache \in [Uris -> Snapshots]
    /\ log \in Seq(Events)
    /\ saved \in [documents : [Uris -> Text], log : Seq(Events), generation : Nat]
    /\ base \in [Uris -> Text]
    /\ up \in BOOLEAN

(* What has been pushed and saved folds, and the checkpoint tells.          *)
Folding(history) ==
    \A i \in DOMAIN history :
        LET told == Told(SubSeq(history, 1, i - 1), history[i].uri)
        IN  (history[i].before # << >> /\ told # None) => history[i].before[1] = told

HistoryOK == Folding(log) /\ Folding(saved.log) /\ CheckpointTellsItsDocuments

(* A file that the store has not read since it changed.                     *)
Unread(u) ==
    IF Store!Open(docs[u]) THEN docs[u].disk \notin {None, file[u]}
    ELSE docs[u].disk # file[u]

StoredOf(u) == Store!Stored(docs[u])

FilesOK == \A u \in Uris \ FileUris : file[u] = None

DocsOK ==
    /\ \A u \in Uris : ~docs[u].known => docs[u] = Store!Unknown
    /\ \A u \in Uris : StoredOf(u) = None => cache[u].text = None
    /\ \A u, v \in FileUris : Unread(u) /\ Unread(v) => u = v

Settled(u) == Told(log, u) = StoredOf(u)
AllSettled == \A u \in Uris : Settled(u)
OthersSettled(u) == \A v \in Uris \ {u} : Settled(v)
AllLoaded == \A u \in Uris : docs[u].known => StoredOf(u) # None
AllRead == \A u \in FileUris : ~Unread(u)

(* What is to be told of u is new, and relative to prior.                   *)
Relative(u, prior) == Told(log, u) # None => prior = Told(log, u)
News(u, prior) == OthersSettled(u) /\ cache[u].text = None /\ Relative(u, prior)

Calm(t) == run[t] = Store!Idle /\ obs[t] = NoObs

NothingNew == [op |-> "discovered", new |-> {}]
Resolved(t) == job[t].op \in {"observe", "refreshed"} \/ job[t] = NothingNew

AtEase(t) ==
    job[t] = NoJob /\ Calm(t) /\ result[t] = << >> /\ AllSettled /\ AllLoaded

HasBegun(t) ==
    /\ job[t].op = "begun"
    /\ job[t] = [op |-> "begun", uri |-> job[t].uri, replaced |-> generation,
                 before |-> job[t].before]
    /\ job[t].uri \in Uris
    /\ Calm(t) /\ result[t] = << >> /\ AllLoaded
    /\ OthersSettled(job[t].uri)
    /\ Store!Open(docs[job[t].uri]) => Settled(job[t].uri)
    /\ job[t].before \in Text /\ Relative(job[t].uri, job[t].before)

(* A save left the winning text as it was.                                  *)
Saves(t) ==
    /\ job[t].op = "observe" /\ job[t].replaced = generation
    /\ obs[t] = NoObs /\ AllSettled /\ AllLoaded
    /\ \E u \in Uris :
          \/ run[t] = [op |-> "answer", uri |-> u] /\ result[t] = << >>
          \/ /\ run[t] = Store!Idle
             /\ result[t] = <<[uri |-> u, generation |-> generation, removed |-> FALSE]>>

Closes(t) ==
    /\ job[t].op = "observe" /\ job[t].replaced # generation /\ job[t].before \in Text
    /\ obs[t] = NoObs /\ result[t] = << >> /\ AllLoaded
    /\ \E u \in Uris :
          /\ run[t] = [op |-> "answer", uri |-> u]
          /\ StoredOf(u) # None /\ News(u, job[t].before)

(* A change that is to be observed.                                         *)
FoundChange(t, u, prior) ==
    /\ result[t] = <<[uri |-> u, generation |-> generation, removed |-> StoredOf(u) = None]>>
    /\ prior \in Text /\ News(u, prior)

Finds(t) ==
    /\ Calm(t) /\ Resolved(t) /\ AllLoaded
    /\ job[t].op = "observe" => job[t].replaced # generation
    /\ \E u \in Uris : FoundChange(t, u, Before(t, u))

Discovers(t) ==
    /\ job[t].op = "discovered"
    /\ job[t] = [op |-> "discovered", new |-> job[t].new] /\ job[t].new \subseteq FileUris
    /\ Calm(t) /\ result[t] = << >> /\ AllSettled
    /\ \A u \in Uris : docs[u].known /\ StoredOf(u) = None <=> u \in job[t].new
    /\ \A u \in job[t].new : file[u] # None

LoadsNew(t) ==
    /\ job[t] = NothingNew
    /\ obs[t] = NoObs /\ result[t] = << >> /\ AllSettled
    /\ \E u \in Uris \cap FileUris :
          /\ run[t] = [op |-> "load", uri |-> u, text |-> file[u]]
          /\ file[u] # None /\ docs[u].known /\ StoredOf(u) = None
          /\ \A v \in Uris \ {u} : docs[v].known => StoredOf(v) # None

CountsNew(t) ==
    /\ job[t] = NothingNew
    /\ obs[t] = NoObs /\ result[t] = << >> /\ AllLoaded
    /\ \E u \in Uris :
          /\ run[t] = [op |-> "count", uri |-> u]
          /\ StoredOf(u) # None /\ News(u, None)

(* A document as the refresh copied it.                                     *)
IsCandidate(c) ==
    /\ c \in Store!Candidate /\ c.uri \in FileUris
    /\ docs[c.uri].known /\ ~Store!Open(docs[c.uri]) /\ docs[c.uri].disk = c.previous

Refreshes(t) ==
    /\ job[t].op = "refreshed" /\ run[t].op = "refresh"
    /\ job[t] = [op |-> "refreshed", before |-> job[t].before]
    /\ job[t].before \in [Uris -> Text]
    /\ obs[t] = NoObs /\ AllLoaded
    /\ run[t] = [op |-> "refresh", todo |-> run[t].todo, now |-> run[t].now,
                 text |-> run[t].text, step |-> run[t].step, quiet |-> run[t].quiet]
    /\ \A c \in run[t].todo : IsCandidate(c)

RefreshReads(t) ==
    Refreshes(t) /\ run[t].step = "read" /\ result[t] = << >> /\ AllSettled

RefreshCommits(t) ==
    /\ Refreshes(t) /\ run[t].step = "commit" /\ result[t] = << >> /\ AllSettled
    /\ IsCandidate(run[t].now) /\ \A c \in run[t].todo : c.uri # run[t].now.uri
    /\ run[t].text = file[run[t].now.uri] /\ run[t].text # run[t].now.previous

RefreshCounts(t) ==
    /\ Refreshes(t) /\ run[t].step = "count" /\ result[t] = << >> /\ AllRead
    /\ run[t].now.uri \in Uris
    /\ run[t].text = StoredOf(run[t].now.uri)
    /\ News(run[t].now.uri, job[t].before[run[t].now.uri])

RefreshFinds(t) ==
    /\ Refreshes(t) /\ run[t].step = "read" /\ AllRead
    /\ \E u \in Uris : FoundChange(t, u, job[t].before[u])

Announces(t) ==
    /\ run[t] = Store!Idle /\ Resolved(t) /\ Len(result[t]) = 1 /\ Tail(result[t]) = << >>
    /\ AllLoaded
    /\ obs[t].step \in {"analysed", "checked"}
    /\ obs[t] = [step |-> obs[t].step, at |-> generation, event |-> obs[t].event]
    /\ \E u \in Uris, prior \in Text :
          /\ obs[t].event = [uri |-> u, text |-> StoredOf(u), generation |-> generation,
                             before |-> <<prior>>]
          /\ OthersSettled(u) /\ Relative(u, prior)

Records(t) ==
    /\ run[t] = Store!Idle /\ Resolved(t) /\ Len(result[t]) = 1 /\ Tail(result[t]) = << >>
    /\ AllSettled /\ AllLoaded
    /\ \/ obs[t].step = "pushed"
       \/ obs[t] = [step |-> "identified", documents |-> ContentOf(docs)]

HasReturned(t) ==
    /\ job[t].op \in {"observe", "refreshed"}
    /\ Calm(t) /\ result[t] = << >> /\ AllSettled /\ AllLoaded

Somewhere(t) ==
    \/ AtEase(t) \/ HasBegun(t) \/ Saves(t) \/ Closes(t) \/ Finds(t)
    \/ Discovers(t) \/ LoadsNew(t) \/ CountsNew(t)
    \/ RefreshReads(t) \/ RefreshCommits(t) \/ RefreshCounts(t) \/ RefreshFinds(t)
    \/ Announces(t) \/ Records(t) \/ HasReturned(t)

(* A host that is down has no documents.                                    *)
IsDown(t) ==
    job[t] = NoJob /\ Calm(t) /\ result[t] = << >>

WorkspaceInv(t) ==
    /\ Typed /\ HistoryOK /\ FilesOK
    /\ up => DocsOK /\ Somewhere(t)
    /\ ~up => IsDown(t)

-----------------------------------------------------------------------------
(* What a history tells                                                     *)

(* A set of numbers that is not empty has a least one.                      *)
LEMMA LeastOne ==
    ASSUME NEW T \in SUBSET Nat, T # {}
    PROVE  \E m \in T : \A k \in T : m <= k
<1> DEFINE R == OpToRel(<, Nat)
<1>1. \A x, y \in Nat : x < y => <<x, y>> \in R
  BY DEF OpToRel
<1>2. IsWellFoundedOn(R, Nat)
  BY NatLessThanWellFounded
<1> HIDE DEF R
<1>3. PICK m \in T : \A k \in T : ~(<<k, m>> \in R)
  BY <1>2, WFMin
<1>4. \A k \in T : k \in Nat /\ ~(k < m)
  BY <1>1, <1>3
<1>5. m \in Nat
  OBVIOUS
<1> QED BY <1>4, <1>5

(* A set of positions that is not empty has a last one.                     *)
LEMMA LastOne ==
    ASSUME NEW n \in Nat, NEW S \in SUBSET (1 .. n), S # {}
    PROVE  \E i \in S : \A j \in S : j <= i
<1> DEFINE T == {n - i : i \in S}
<1>1. T \in SUBSET Nat
  <2>1. ASSUME NEW i \in S PROVE n - i \in Nat
    OBVIOUS
  <2> QED BY <2>1
<1>2. T # {} /\ \A j \in S : n - j \in T
  OBVIOUS
<1>3. \A m \in T : \E i \in S : m = n - i
  OBVIOUS
<1> HIDE DEF T
<1>4. PICK m \in T : \A k \in T : m <= k
  BY <1>1, <1>2, LeastOne
<1>5. PICK i \in S : m = n - i
  BY <1>3, <1>4
<1>6. ASSUME NEW j \in S PROVE j <= i
  <2>1. n - i <= n - j
    BY <1>2, <1>4, <1>5
  <2> QED BY <2>1
<1> QED BY <1>6

(* The last event of u tells its text.                                      *)
LEMMA ToldIs ==
    ASSUME NEW h \in Seq(Events), NEW u, NEW i \in DOMAIN h, h[i].uri = u,
           \A j \in DOMAIN h : h[j].uri = u => j <= i
    PROVE  Told(h, u) = h[i].text
<1> DEFINE mine == {j \in DOMAIN h : h[j].uri = u}
           last == CHOOSE k \in mine : \A j \in mine : j <= k
<1>1. i \in mine /\ \A j \in mine : j <= i
  OBVIOUS
<1>2. last \in mine /\ \A j \in mine : j <= last
  BY <1>1
<1>3. last = i
  BY <1>1, <1>2
<1>4. mine # {}
  BY <1>1
<1>5. Told(h, u) = h[last].text
  BY <1>4 DEF Told
<1> QED BY <1>3, <1>5

(* Before any event of it a document has the text the consumer reconciled   *)
(* with.                                                                    *)
LEMMA ToldBase ==
    ASSUME NEW h, NEW u, \A j \in DOMAIN h : h[j].uri # u
    PROVE  Told(h, u) = base[u]
BY DEF Told

(* Of the events of a document one is the last.                             *)
LEMMA LastTold ==
    ASSUME NEW h \in Seq(Events), NEW u, NEW k \in DOMAIN h, h[k].uri = u
    PROVE  \E i \in DOMAIN h : h[i].uri = u /\ \A j \in DOMAIN h : h[j].uri = u => j <= i
<1> DEFINE mine == {j \in DOMAIN h : h[j].uri = u}
<1>1. mine \in SUBSET (1 .. Len(h)) /\ mine # {} /\ Len(h) \in Nat
  OBVIOUS
<1>2. PICK i \in mine : \A j \in mine : j <= i
  BY <1>1, LastOne
<1> QED BY <1>2

(* Events that do not name u leave what is told of it.                      *)
LEMMA ToldConcatOther ==
    ASSUME NEW h \in Seq(Events), NEW g \in Seq(Events), NEW u,
           \A j \in DOMAIN g : g[j].uri # u
    PROVE  Told(h \o g, u) = Told(h, u)
<1> DEFINE all == h \o g
<1>1. /\ all \in Seq(Events) /\ Len(all) = Len(h) + Len(g)
      /\ \A i \in 1 .. Len(h) : all[i] = h[i]
      /\ \A i \in 1 .. Len(all) : i > Len(h) => all[i] = g[i - Len(h)]
  BY ConcatProperties
<1>2. /\ DOMAIN all = 1 .. Len(all) /\ DOMAIN h = 1 .. Len(h) /\ DOMAIN g = 1 .. Len(g)
      /\ Len(h) \in Nat /\ Len(g) \in Nat
  BY <1>1
<1> HIDE DEF all
<1>3. \A j \in DOMAIN all : all[j].uri = u => j \in DOMAIN h /\ all[j] = h[j]
  <2>1. SUFFICES ASSUME NEW j \in DOMAIN all, all[j].uri = u, j > Len(h) PROVE FALSE
    BY <1>1, <1>2
  <2>2. j - Len(h) \in DOMAIN g /\ all[j] = g[j - Len(h)]
    BY <1>1, <1>2, <2>1
  <2> QED BY <2>1, <2>2
<1>4. CASE \A j \in DOMAIN h : h[j].uri # u
  <2>1. \A j \in DOMAIN all : all[j].uri # u
    BY <1>3, <1>4
  <2>2. Told(all, u) = base[u] /\ Told(h, u) = base[u]
    BY <1>4, <2>1, ToldBase
  <2> QED BY <2>2 DEF all
<1>5. CASE \E j \in DOMAIN h : h[j].uri = u
  <2>1. PICK i \in DOMAIN h : h[i].uri = u /\ \A j \in DOMAIN h : h[j].uri = u => j <= i
    BY <1>5, LastTold
  <2>2. i \in DOMAIN all /\ all[i] = h[i]
    BY <1>1, <1>2
  <2>5. \A j \in DOMAIN all : all[j].uri = u => j <= i
    BY <1>3, <2>1
  <2>6. all \in Seq(Events) /\ i \in DOMAIN all /\ all[i].uri = u
    BY <1>1, <2>1, <2>2
  <2>7. Told(all, u) = all[i].text
    BY <2>5, <2>6, ToldIs
  <2>3. Told(all, u) = h[i].text
    BY <2>2, <2>7
  <2>4. Told(h, u) = h[i].text
    BY <2>1, ToldIs
  <2> QED BY <2>3, <2>4 DEF all
<1> QED BY <1>4, <1>5

(* Some events are of u, and all of those have the same text.               *)
Same(events, u, x) ==
    /\ \E k \in DOMAIN events : events[k].uri = u
    /\ \A j \in DOMAIN events : events[j].uri = u => events[j].text = x

(* Such events tell that text, whatever was told before.                    *)
LEMMA ToldConcatSame ==
    ASSUME NEW h \in Seq(Events), NEW g \in Seq(Events), NEW u, NEW x, Same(g, u, x)
    PROVE  Told(h \o g, u) = x
<1>k. PICK k \in DOMAIN g : g[k].uri = u
  BY DEF Same
<1>s. \A j \in DOMAIN g : g[j].uri = u => g[j].text = x
  BY DEF Same
<1> DEFINE all == h \o g
<1>1. /\ all \in Seq(Events) /\ Len(all) = Len(h) + Len(g)
      /\ \A i \in 1 .. Len(h) : all[i] = h[i]
      /\ \A i \in 1 .. Len(all) : i > Len(h) => all[i] = g[i - Len(h)]
  BY ConcatProperties
<1>2. /\ DOMAIN all = 1 .. Len(all) /\ DOMAIN h = 1 .. Len(h) /\ DOMAIN g = 1 .. Len(g)
      /\ Len(h) \in Nat /\ Len(g) \in Nat
  BY <1>1
<1> HIDE DEF all
<1>3. k + Len(h) \in DOMAIN all /\ all[k + Len(h)] = g[k]
  <2>1. k \in 1 .. Len(g)
    BY <1>2
  <2>2. PICK m : m = k + Len(h)
    OBVIOUS
  <2>3. m \in 1 .. Len(all) /\ m > Len(h) /\ m - Len(h) = k
    BY <1>1, <1>2, <2>1, <2>2
  <2>4. all[m] = g[m - Len(h)]
    BY <1>1, <2>3
  <2> QED BY <1>2, <2>2, <2>3, <2>4
<1>4. PICK i \in DOMAIN all : all[i].uri = u /\ \A j \in DOMAIN all : all[j].uri = u => j <= i
  BY <1>1, <1>3, <1>k, LastTold
<1>5. i >= k + Len(h)
  BY <1>3, <1>4, <1>k, <1>2
<1>6. i - Len(h) \in DOMAIN g /\ all[i] = g[i - Len(h)]
  BY <1>1, <1>2, <1>4, <1>5, <1>k
<1>7. Told(all, u) = all[i].text
  BY <1>1, <1>4, ToldIs
<1> QED BY <1>4, <1>6, <1>7, <1>s DEF all

(* An event tells its own text, and of other documents nothing.             *)
LEMMA ToldAppend ==
    ASSUME NEW h \in Seq(Events), NEW e \in Events, NEW u
    PROVE  Told(Append(h, e), u) = IF e.uri = u THEN e.text ELSE Told(h, u)
<1> DEFINE g == <<e>>
<1>1. g \in Seq(Events) /\ DOMAIN g = {1} /\ g[1] = e
  OBVIOUS
<1>2. Append(h, e) = h \o g
  BY AppendIsConcat
<1> HIDE DEF g
<1>3. CASE e.uri = u
  <2> DEFINE all == Append(h, e)
  <2>1. /\ all \in Seq(Events) /\ Len(all) = Len(h) + 1 /\ Len(h) \in Nat
        /\ DOMAIN all = 1 .. Len(all) /\ all[Len(h) + 1] = e
    OBVIOUS
  <2> HIDE DEF all
  <2>2. PICK i : i = Len(h) + 1
    OBVIOUS
  <2>3. i \in DOMAIN all /\ all[i].uri = u /\ \A j \in DOMAIN all : all[j].uri = u => j <= i
    BY <1>3, <2>1, <2>2
  <2>4. Told(all, u) = all[i].text
    BY <2>1, <2>3, ToldIs
  <2> QED BY <1>3, <2>1, <2>2, <2>4 DEF all
<1>4. CASE e.uri # u
  BY <1>1, <1>2, <1>4, ToldConcatOther
<1> QED BY <1>3, <1>4

(* A history that folds still does when what is added folds.                *)
LEMMA FoldingConcat ==
    ASSUME NEW h \in Seq(Events), NEW g \in Seq(Events), Folding(h),
           \A i \in DOMAIN g :
              LET told == Told(SubSeq(h \o g, 1, Len(h) + i - 1), g[i].uri)
              IN  (g[i].before # << >> /\ told # None) => g[i].before[1] = told
    PROVE  Folding(h \o g)
<1> DEFINE all == h \o g
<1>1. /\ all \in Seq(Events) /\ Len(all) = Len(h) + Len(g)
      /\ \A i \in 1 .. Len(h) : all[i] = h[i]
      /\ \A i \in 1 .. Len(all) : i > Len(h) => all[i] = g[i - Len(h)]
  BY ConcatProperties
<1>2. /\ DOMAIN all = 1 .. Len(all) /\ DOMAIN h = 1 .. Len(h) /\ DOMAIN g = 1 .. Len(g)
      /\ Len(h) \in Nat /\ Len(g) \in Nat
  BY <1>1
<1>3. \A i \in DOMAIN h : SubSeq(all, 1, i - 1) = SubSeq(h, 1, i - 1) /\ all[i] = h[i]
  BY <1>1, <1>2, SubSeqOfConcat1
<1>4. \A i \in DOMAIN all : i \notin DOMAIN h =>
         /\ i - Len(h) \in DOMAIN g /\ all[i] = g[i - Len(h)]
         /\ i - 1 = Len(h) + (i - Len(h)) - 1
  BY <1>1, <1>2
<1> HIDE DEF all
<1>5. Folding(all)
  <2> SUFFICES ASSUME NEW i \in DOMAIN all, all[i].before # << >>,
                      Told(SubSeq(all, 1, i - 1), all[i].uri) # None
               PROVE  all[i].before[1] = Told(SubSeq(all, 1, i - 1), all[i].uri)
    BY DEF Folding
  <2>1. CASE i \in DOMAIN h
    BY <1>3, <2>1 DEF Folding
  <2>2. CASE i \notin DOMAIN h
    <3>1. PICK k \in DOMAIN g : k = i - Len(h) /\ all[i] = g[k] /\ i - 1 = Len(h) + k - 1
      BY <1>4, <2>2
    <3> QED BY <3>1 DEF all
  <2> QED BY <2>1, <2>2
<1> QED BY <1>5 DEF all

(* An event that is relative to what was told, or to nothing, folds.        *)
LEMMA FoldingAppend ==
    ASSUME NEW h \in Seq(Events), NEW e \in Events, Folding(h),
           (e.before # << >> /\ Told(h, e.uri) # None) => e.before[1] = Told(h, e.uri)
    PROVE  Folding(Append(h, e))
<1> DEFINE g == <<e>>
<1>1. g \in Seq(Events) /\ DOMAIN g = {1} /\ g[1] = e
  OBVIOUS
<1>2. Append(h, e) = h \o g
  BY AppendIsConcat
<1> HIDE DEF g
<1>3. SubSeq(h \o g, 1, Len(h) + 1 - 1) = h
  <2>1. Len(h) \in Nat /\ Len(h) + 1 - 1 = Len(h)
    OBVIOUS
  <2>2. SubSeq(h \o g, 1, Len(h)) = SubSeq(h, 1, Len(h))
    BY <1>1, <2>1, SubSeqOfConcat1
  <2>3. SubSeq(h, 1, Len(h)) = h
    BY SubSeqFull
  <2> QED BY <2>1, <2>2, <2>3
<1> QED BY <1>1, <1>2, <1>3, FoldingConcat

-----------------------------------------------------------------------------
(* What steps leave alone                                                   *)

(* The base never changes, so what a history tells does not depend on the   *)
(* moment.                                                                  *)
LEMMA ToldNext ==
    ASSUME NEW u, base' = base
    PROVE  Told(log, u)' = Told(log', u) /\ Told(saved.log, u)' = Told(saved'.log, u)
BY DEF Told

(* Nor does it depend on the moment whether a history folds.                *)
LEMMA FoldingNext ==
    ASSUME base' = base
    PROVE  /\ Folding(log)' <=> Folding(log')
           /\ Folding(saved.log)' <=> Folding(saved'.log)
BY DEF Folding, Told

(* A step that leaves the history and the checkpoint alone leaves what      *)
(* they tell.                                                               *)
LEMMA HistoryKept ==
    ASSUME HistoryOK, UNCHANGED <<log, saved, base>>
    PROVE  HistoryOK' /\ \A u : Told(log, u)' = Told(log, u)
<1>1. \A u : Told(log, u)' = Told(log, u) /\ Told(saved.log, u)' = Told(saved.log, u)
  BY ToldNext
<1>2. Folding(log)' /\ Folding(saved.log)'
  BY FoldingNext DEF HistoryOK
<1>3. CheckpointTellsItsDocuments'
  BY <1>1 DEF HistoryOK, CheckpointTellsItsDocuments, Store!Uris
<1> QED BY <1>1, <1>2, <1>3 DEF HistoryOK

(* What the assumptions on the constants say of texts and files.            *)
LEMMA TextFacts ==
    ASSUME StoreAssumption
    PROVE  /\ None \notin Contents /\ Text = Contents \cup {None}
           /\ FileUris \subseteq Uris /\ MaxGeneration \in Nat
BY DEF StoreAssumption, Store!UriAssumption, Store!ContentAssumption, Store!BoundAssumption,
       Store!Text, Text, Uris

(* Loading a document reads its file unless it has a text already.          *)
LEMMA LoadedFacts ==
    ASSUME NEW u \in Uris, docs \in [Uris -> Store!Document], file \in [Uris -> Text]
    PROVE  /\ Store!Loaded(u) \in Store!Document /\ Store!Loaded(u).buffer = docs[u].buffer
           /\ Store!Stored(Store!Loaded(u)) \in Text /\ Store!Stored(docs[u]) \in Text
           /\ Store!Stored(Store!Loaded(u)) = None => Store!Loaded(u) = docs[u]
           /\ Store!Stored(docs[u]) # None => Store!Loaded(u) = docs[u]
<1> USE DEF Uris, Text
<1>1. PICK d \in Store!Document : d = docs[u]
  OBVIOUS
<1>2. PICK f \in Text : f = file[u]
  OBVIOUS
<1>3. d = [known |-> d.known, disk |-> d.disk, buffer |-> d.buffer]
      /\ d.known \in BOOLEAN /\ d.disk \in Text /\ d.buffer \in Text
  BY DEF Store!Document
<1>4. CASE Store!Stored(d) = None /\ f # None
  <2>1. Store!Loaded(u) = [known |-> TRUE, disk |-> f, buffer |-> d.buffer]
    BY <1>1, <1>2, <1>3, <1>4 DEF Store!Loaded
  <2> QED BY <1>1, <1>3, <1>4, <2>1 DEF Store!Stored, Store!Open, Store!Document
<1>5. CASE ~(Store!Stored(d) = None /\ f # None)
  <2>1. Store!Loaded(u) = d
    BY <1>1, <1>2, <1>5 DEF Store!Loaded
  <2> QED BY <1>1, <1>3, <1>5, <2>1 DEF Store!Stored, Store!Open, Store!Document
<1> QED BY <1>4, <1>5

(* A document as an analysis leaves it.                                     *)
LEMMA AnalyseStep ==
    ASSUME StoreAssumption, Typed, FilesOK, DocsOK, NEW u \in Uris, Analyse(u), file' = file
    PROVE  /\ docs' \in [Uris -> Store!Document] /\ cache' \in [Uris -> Snapshots]
           /\ docs' = [docs EXCEPT ![u] = Store!Loaded(u)]
           /\ docs'[u] = Store!Loaded(u) /\ docs'[u].buffer = docs[u].buffer
           /\ \A v \in Uris \ {u} : docs'[v] = docs[v] /\ cache'[v] = cache[v]
           /\ DocsOK'
<1> USE DEF Uris, Text
<1>1. /\ docs' = [docs EXCEPT ![u] = Store!Loaded(u)]
      /\ cache' = IF Store!Stored(Store!Loaded(u)) = None THEN cache
                  ELSE [cache EXCEPT ![u] = Snapshot(u, Store!Stored(Store!Loaded(u)))]
  BY DEF Analyse, Store!CommitFirst
<1>2. /\ docs \in [Uris -> Store!Document] /\ file \in [Uris -> Text]
      /\ cache \in [Uris -> Snapshots] /\ generation \in Nat
  BY DEF Typed
<1>3. /\ Store!Loaded(u) \in Store!Document /\ Store!Loaded(u).buffer = docs[u].buffer
      /\ Store!Stored(Store!Loaded(u)) \in Text
      /\ Store!Stored(Store!Loaded(u)) = None => Store!Loaded(u) = docs[u]
  BY <1>2, LoadedFacts
<1>4. docs' \in [Uris -> Store!Document]
  BY <1>1, <1>2, <1>3
<1>5. Snapshot(u, Store!Stored(Store!Loaded(u))) \in Snapshots
  BY <1>2, <1>3 DEF Snapshot, Snapshots
<1>6. cache' \in [Uris -> Snapshots]
  BY <1>1, <1>2, <1>5
<1>7. \A v \in Uris \ {u} : docs'[v] = docs[v] /\ cache'[v] = cache[v]
  BY <1>1, <1>2
<1>8. docs'[u] = Store!Loaded(u)
  BY <1>1, <1>2
<1>9. DocsOK'
  <2>1. ASSUME NEW v \in Uris, ~docs'[v].known PROVE docs'[v] = Store!Unknown
    BY <1>2, <1>7, <1>8, <2>1 DEF DocsOK, Store!Loaded, Store!Document, Store!Unknown
  <2>2. ASSUME NEW v \in Uris, Store!Stored(docs'[v]) = None PROVE cache'[v].text = None
    <3>1. CASE v = u
      BY <1>1, <1>3, <1>8, <2>2, <3>1 DEF DocsOK, StoredOf
    <3>2. CASE v # u
      BY <1>7, <2>2, <3>2 DEF DocsOK, StoredOf
    <3> QED BY <3>1, <3>2
  <2>3. ASSUME NEW v \in Uris, Unread(v)' PROVE Unread(v)
    <3>1. CASE v = u
      BY <1>2, <1>8, <2>3, <3>1
         DEF Unread, Store!Loaded, Store!Open, Store!Stored, Store!Document
    <3>2. CASE v # u
      BY <1>7, <2>3, <3>2 DEF Unread
    <3> QED BY <3>1, <3>2
  <2>4. FileUris \subseteq Uris
    BY TextFacts
  <2>5. \A v, w \in FileUris : Unread(v)' /\ Unread(w)' => v = w
    BY <2>3, <2>4 DEF DocsOK
  <2> QED BY <2>1, <2>2, <2>5 DEF DocsOK, StoredOf
<1> QED BY <1>1, <1>3, <1>4, <1>6, <1>7, <1>8, <1>9

(* A workspace has finitely many documents, since they are in an order.     *)
LEMMA UrisFinite ==
    ASSUME StoreAssumption
    PROVE  IsFiniteSet(Uris)
<1> PICK n : n = Len(UriOrder)
  OBVIOUS
<1>1. UriOrder \in Seq(Uris) /\ Uris = {UriOrder[i] : i \in DOMAIN UriOrder}
  BY DEF StoreAssumption, Store!UriAssumption, Uris, Store!Uris
<1>2. n \in Nat /\ DOMAIN UriOrder = 1 .. n /\ UriOrder \in [1 .. n -> Uris]
  BY <1>1
<1>3. UriOrder \in Surjection(1 .. n, Uris)
  BY <1>1, <1>2 DEF Surjection
<1>4. IsFiniteSet(1 .. n)
  BY <1>2, FS_Interval
<1> QED BY <1>3, <1>4, FS_Surjection

(* Two members of a set of cardinality one are the same.                    *)
LEMMA AtMostOne ==
    ASSUME NEW S, IsFiniteSet(S), Cardinality(S) <= 1, NEW x \in S, NEW y \in S
    PROVE  x = y
<1> SUFFICES ASSUME x # y PROVE FALSE
  OBVIOUS
<1>1. IsFiniteSet({x}) /\ Cardinality({x}) = 1
  BY FS_Singleton
<1>2. IsFiniteSet({x} \cup {y}) /\ Cardinality({x} \cup {y}) = 2
  <2>1. y \notin {x} /\ 1 + 1 = 2
    OBVIOUS
  <2> QED BY <1>1, <2>1, FS_AddElement
<1>3. {x} \cup {y} \in SUBSET S
  OBVIOUS
<1>4. Cardinality({x} \cup {y}) <= Cardinality(S) /\ Cardinality(S) \in Nat
  BY <1>3, FS_Subset, FS_CardinalityType
<1> QED BY <1>2, <1>4

-----------------------------------------------------------------------------
(* Where a request is, by what its action requires                          *)

(* The place of a thread, from what the guards of its actions say: at       *)
(* rest, begun, about to observe, observing, and inside the store.          *)
LEMMA AtEaseWhenResting ==
    ASSUME NEW t, Resting(t), Somewhere(t)
    PROVE  AtEase(t)
<1>1. job[t].op = "none" /\ run[t].op = "idle" /\ obs[t] = NoObs /\ result[t] = << >>
  BY DEF Resting, Store!Begin, NoJob, Store!Idle
<1> QED
  BY <1>1 DEF Somewhere, AtEase, HasBegun, Saves, Closes, Finds, Discovers, LoadsNew, CountsNew,
              RefreshReads, RefreshCommits, RefreshCounts, RefreshFinds, Refreshes,
              Announces, Records, HasReturned, Resolved, NothingNew

(* begun,                                                                   *)
LEMMA HasBegunWhenBegun ==
    ASSUME NEW t, Begun(t), Somewhere(t)
    PROVE  HasBegun(t)
<1>1. job[t].op = "begun"
  BY DEF Begun
<1> QED
  BY <1>1 DEF Somewhere, AtEase, NoJob, HasBegun, Saves, Closes, Finds, Discovers, LoadsNew,
              CountsNew, RefreshReads, RefreshCommits, RefreshCounts, RefreshFinds, Refreshes,
              Announces, Records, HasReturned, Resolved, NothingNew

(* with nothing to observe,                                                 *)
LEMMA WhereObserved ==
    ASSUME NEW t, Observed(t), Somewhere(t)
    PROVE  /\ job[t].op = "discovered" => Discovers(t)
           /\ job[t].op \in {"observe", "refreshed"} => HasReturned(t)
<1>1. run[t].op = "idle" /\ run[t] = Store!Idle /\ result[t] = << >> /\ obs[t] = NoObs
  BY DEF Observed, Store!Idle
<1>2. ~(LoadsNew(t) \/ CountsNew(t) \/ Saves(t) \/ Closes(t) \/ Finds(t))
  BY <1>1 DEF LoadsNew, CountsNew, Saves, Closes, Finds, FoundChange
<1>3. ~(RefreshReads(t) \/ RefreshCommits(t) \/ RefreshCounts(t) \/ RefreshFinds(t))
  BY <1>1 DEF RefreshReads, RefreshCommits, RefreshCounts, RefreshFinds, Refreshes
<1>4. ~(Announces(t) \/ Records(t))
  BY <1>1 DEF Announces, Records
<1>5. \/ Discovers(t) /\ job[t].op = "discovered"
      \/ HasReturned(t) /\ job[t].op \in {"observe", "refreshed"}
      \/ job[t].op \in {"none", "begun"}
  BY <1>2, <1>3, <1>4 DEF Somewhere, AtEase, NoJob, HasBegun, Discovers, HasReturned
<1> QED BY <1>5

(* observing a change,                                                      *)
LEMMA WhereObserving ==
    ASSUME NEW t, Somewhere(t)
    PROVE  /\ run[t] = Store!Idle /\ result[t] # << >> /\ obs[t] = NoObs =>
                Saves(t) \/ Finds(t)
           /\ obs[t].step \in {"analysed", "checked"} => Announces(t)
           /\ obs[t].step \in {"pushed", "identified"} => Records(t)
<1>1. \/ AtEase(t) /\ obs[t] = NoObs /\ result[t] = << >>
      \/ HasBegun(t) /\ obs[t] = NoObs /\ result[t] = << >>
      \/ (Saves(t) \/ Finds(t)) /\ obs[t] = NoObs
      \/ (Closes(t) \/ Discovers(t) \/ LoadsNew(t) \/ CountsNew(t) \/ HasReturned(t))
             /\ obs[t] = NoObs /\ result[t] = << >>
      \/ (RefreshReads(t) \/ RefreshCommits(t) \/ RefreshCounts(t) \/ RefreshFinds(t))
             /\ obs[t] = NoObs /\ run[t].op = "refresh"
      \/ Announces(t) /\ obs[t].step \in {"analysed", "checked"}
      \/ Records(t) /\ obs[t].step \in {"pushed", "identified"}
  <2>1. CASE AtEase(t) \/ HasBegun(t)
    BY <2>1 DEF AtEase, HasBegun, Calm
  <2>2. CASE Saves(t) \/ Finds(t)
    BY <2>2 DEF Saves, Finds, Calm
  <2>3. CASE Closes(t) \/ Discovers(t) \/ LoadsNew(t) \/ CountsNew(t) \/ HasReturned(t)
    BY <2>3 DEF Closes, Discovers, LoadsNew, CountsNew, HasReturned, Calm
  <2>4. CASE RefreshReads(t) \/ RefreshCommits(t) \/ RefreshCounts(t) \/ RefreshFinds(t)
    BY <2>4 DEF RefreshReads, RefreshCommits, RefreshCounts, RefreshFinds, Refreshes
  <2>5. CASE Announces(t)
    BY <2>5 DEF Announces
  <2>6. CASE Records(t)
    BY <2>6 DEF Records
  <2> QED BY <2>1, <2>2, <2>3, <2>4, <2>5, <2>6 DEF Somewhere
<1>2. NoObs.step = "none" /\ Store!Idle.op = "idle"
  BY DEF NoObs, Store!Idle
<1> QED BY <1>1, <1>2

(* and inside the store.                                                    *)
LEMMA WhereRunning ==
    ASSUME NEW t, Somewhere(t)
    PROVE  /\ run[t].op = "answer" => Saves(t) \/ Closes(t)
           /\ run[t].op = "load" => LoadsNew(t)
           /\ run[t].op = "count" => CountsNew(t)
           /\ Store!Refreshing(t, "read") => RefreshReads(t) \/ RefreshFinds(t)
           /\ Store!Refreshing(t, "commit") => RefreshCommits(t)
           /\ Store!Refreshing(t, "count") => RefreshCounts(t)
           /\ run[t].op # "save"
<1>1. \/ run[t] = Store!Idle
      \/ (Saves(t) \/ Closes(t)) /\ run[t].op = "answer"
      \/ LoadsNew(t) /\ run[t].op = "load"
      \/ CountsNew(t) /\ run[t].op = "count"
      \/ (RefreshReads(t) \/ RefreshFinds(t)) /\ run[t].op = "refresh" /\ run[t].step = "read"
      \/ RefreshCommits(t) /\ run[t].op = "refresh" /\ run[t].step = "commit"
      \/ RefreshCounts(t) /\ run[t].op = "refresh" /\ run[t].step = "count"
  <2>1. CASE Saves(t)
    BY <2>1 DEF Saves
  <2>2. CASE Closes(t)
    BY <2>2 DEF Closes
  <2>3. CASE LoadsNew(t)
    BY <2>3 DEF LoadsNew
  <2>4. CASE CountsNew(t)
    BY <2>4 DEF CountsNew
  <2>5. CASE RefreshReads(t) \/ RefreshFinds(t) \/ RefreshCommits(t) \/ RefreshCounts(t)
    BY <2>5 DEF RefreshReads, RefreshFinds, RefreshCommits, RefreshCounts, Refreshes
  <2>6. CASE AtEase(t) \/ HasBegun(t) \/ Finds(t) \/ Discovers(t) \/ Announces(t)
             \/ Records(t) \/ HasReturned(t)
    BY <2>6 DEF AtEase, HasBegun, Finds, Discovers, Announces, Records, HasReturned, Calm
  <2> QED BY <2>1, <2>2, <2>3, <2>4, <2>5, <2>6 DEF Somewhere
<1>2. Store!Idle.op = "idle"
  BY DEF Store!Idle
<1> QED BY <1>1, <1>2 DEF Store!Refreshing

(* Steps that move nothing but requests.                                    *)
LEMMA DocsKept ==
    ASSUME HistoryOK, UNCHANGED <<file, docs, cache, log, saved, base>>
    PROVE  /\ HistoryOK' /\ (FilesOK => FilesOK') /\ (DocsOK => DocsOK')
           /\ (AllSettled => AllSettled') /\ (AllLoaded => AllLoaded') /\ (AllRead => AllRead')
<1>1. HistoryOK' /\ \A u : Told(log, u)' = Told(log, u)
  BY HistoryKept
<1>2. FilesOK => FilesOK'
  BY DEF FilesOK
<1>3. \A u : StoredOf(u)' = StoredOf(u) /\ (Unread(u)' <=> Unread(u))
  BY DEF StoredOf, Unread
<1>4. DocsOK => DocsOK'
  BY <1>3 DEF DocsOK
<1>5. \A u : Settled(u)' <=> Settled(u)
  BY <1>1, <1>3 DEF Settled
<1>9. /\ AllSettled => AllSettled'
      /\ AllLoaded => AllLoaded'
      /\ AllRead => AllRead'
  BY <1>3, <1>5 DEF AllSettled, AllLoaded, AllRead, Uris, Store!Uris
<1> QED BY <1>1, <1>2, <1>4, <1>9

-----------------------------------------------------------------------------
(* The steps                                                                *)

(* A file changes while the host is at rest, or down: when it is up, no     *)
(* other is unread.                                                         *)
LEMMA WriteFileStep ==
    ASSUME StoreAssumption, NEW CONSTANT t, Orderly(t), WorkspaceInv(t),
           NEW u \in Uris, NEW text \in Text, WriteFile(u, text)
    PROVE  WorkspaceInv(t)'
<1> USE DEF Uris, Text
<1>1. /\ u \in FileUris /\ file' = [file EXCEPT ![u] = text]
      /\ UNCHANGED <<docs, generation, result, job, obs, cache, log, saved, base, up>>
      /\ Threads = {t} /\ FilesSettle
  BY DEF WriteFile, Store!WriteFile, Orderly
<1>2. file \in [Uris -> Text] /\ DOMAIN run = Threads
  BY DEF WorkspaceInv, Typed
<1>3. run'[t] = run[t] /\ DOMAIN run' = Threads
  <2>1. run[t] = Store!Idle
    BY <1>1 DEF WriteFile, Store!WriteFile
  <2>2. run[t].op # "refresh"
    BY <2>1 DEF Store!Idle
  <2>3. run' = [s \in Threads |->
                 IF run[s].op = "refresh" THEN [run[s] EXCEPT !.quiet = FALSE] ELSE run[s]]
    BY DEF WriteFile, Store!WriteFile
  <2> QED BY <1>1, <2>2, <2>3
<1>4. Typed'
  BY <1>1, <1>2, <1>3 DEF WorkspaceInv, Typed
<1>5. HistoryOK' /\ \A v : Told(log, v)' = Told(log, v)
  BY <1>1, HistoryKept DEF WorkspaceInv
<1>6. FilesOK'
  BY <1>1, <1>2 DEF WorkspaceInv, FilesOK
<1>7. CASE ~up
  BY <1>1, <1>3, <1>4, <1>5, <1>6, <1>7 DEF WorkspaceInv, IsDown, Calm
<1>8. CASE up
  <2>1. AtEase(t)
    <3>1. Resting(t)
      BY <1>1, <1>8 DEF WriteFile, AtRest
    <3> QED BY <1>8, <3>1, AtEaseWhenResting DEF WorkspaceInv
  <2>2. AtEase(t)'
    BY <1>1, <1>3, <1>5, <2>1 DEF AtEase, Calm, AllSettled, Settled, AllLoaded, StoredOf
  <2>3. DocsOK'
    <3>1. PICK S : S = {v \in FileUris : Differs(v)}
      OBVIOUS
    <3>2. S \in SUBSET Uris
      BY <3>1, TextFacts
    <3>3. IsFiniteSet(S) /\ Cardinality(S) <= 1
      BY <1>8, <3>1, <3>2, UrisFinite, FS_Subset DEF WriteFile, Orderly
    <3>4. \A v \in FileUris : Unread(v)' => v \in S
      BY <1>1, <3>1 DEF Unread, Differs
    <3>5. \A v, w \in FileUris : Unread(v)' /\ Unread(w)' => v = w
      BY <3>3, <3>4, AtMostOne
    <3> QED BY <1>1, <1>8, <3>5 DEF WorkspaceInv, DocsOK, StoredOf
  <2> QED BY <1>1, <1>4, <1>5, <1>6, <1>8, <2>2, <2>3 DEF WorkspaceInv, Somewhere
<1> QED BY <1>7, <1>8

(* A query caches an analysis of the text there is.                         *)
LEMMA QueryStep ==
    ASSUME StoreAssumption, NEW CONSTANT t, Orderly(t), WorkspaceInv(t),
           NEW u \in Uris, Query(t, u)
    PROVE  WorkspaceInv(t)'
<1> USE DEF Uris, Text
<1>1. /\ up /\ Resting(t) /\ Store!Stored(docs[u]) # None /\ Analyse(u)
      /\ UNCHANGED <<file, generation, run, result, job, obs, log, saved, base, up>>
  BY DEF Query, Orderly
<1>2. AtEase(t)
  BY <1>1, AtEaseWhenResting DEF WorkspaceInv
<1>3. Typed /\ FilesOK /\ DocsOK /\ HistoryOK
  BY <1>1 DEF WorkspaceInv
<1>4. /\ docs' = [docs EXCEPT ![u] = Store!Loaded(u)] /\ cache' \in [Uris -> Snapshots]
      /\ docs' \in [Uris -> Store!Document] /\ DocsOK'
  BY <1>1, <1>3, AnalyseStep
<1>5. docs' = docs
  BY <1>1, <1>3, <1>4, LoadedFacts DEF Typed
<1>6. Typed'
  BY <1>1, <1>3, <1>4 DEF Typed
<1>7. HistoryOK' /\ \A v : Told(log, v)' = Told(log, v)
  BY <1>1, <1>3, HistoryKept
<1>8. FilesOK'
  BY <1>1, <1>3 DEF FilesOK
<1>9. AtEase(t)'
  BY <1>1, <1>2, <1>5, <1>7 DEF AtEase, Calm, AllSettled, Settled, AllLoaded, StoredOf
<1> QED BY <1>1, <1>4, <1>6, <1>7, <1>8, <1>9 DEF WorkspaceInv, Somewhere

(* An editor's change begins by reading the text before it.                 *)
LEMMA BeginChangeStep ==
    ASSUME StoreAssumption, NEW CONSTANT t, Orderly(t), WorkspaceInv(t),
           NEW u \in Uris, BeginChange(t, u)
    PROVE  WorkspaceInv(t)'
<1> USE DEF Uris, Text
<1>1. /\ up /\ Resting(t) /\ Analyse(u)
      /\ job' = [job EXCEPT ![t] = [op |-> "begun", uri |-> u, replaced |-> generation,
                                    before |-> Store!Stored(Store!Loaded(u))]]
      /\ UNCHANGED <<file, generation, run, result, obs, log, saved, base, up>>
  BY DEF BeginChange
<1>2. AtEase(t)
  BY <1>1, AtEaseWhenResting DEF WorkspaceInv
<1>3. Typed /\ FilesOK /\ DocsOK /\ HistoryOK /\ t \in Threads
  BY <1>1 DEF WorkspaceInv, Orderly
<1>4. /\ docs' \in [Uris -> Store!Document] /\ cache' \in [Uris -> Snapshots] /\ DocsOK'
      /\ docs'[u] = Store!Loaded(u) /\ docs'[u].buffer = docs[u].buffer
      /\ \A v \in Uris \ {u} : docs'[v] = docs[v]
  BY <1>1, <1>3, AnalyseStep
<1>5. /\ Store!Stored(Store!Loaded(u)) \in Text
      /\ Store!Stored(Store!Loaded(u)) = None => Store!Loaded(u) = docs[u]
      /\ Store!Stored(docs[u]) # None => Store!Loaded(u) = docs[u]
  BY <1>3, LoadedFacts DEF Typed
<1> PICK p \in Text : p = Store!Stored(Store!Loaded(u))
  BY <1>5
<1>6. job'[t] = [op |-> "begun", uri |-> u, replaced |-> generation, before |-> p]
  BY <1>1, <1>3 DEF Typed
<1>7. Typed'
  BY <1>1, <1>3, <1>4 DEF Typed
<1>8. HistoryOK' /\ \A v : Told(log, v)' = Told(log, v)
  BY <1>1, <1>3, HistoryKept
<1>9. FilesOK'
  BY <1>1, <1>3 DEF FilesOK
<1>10. AllLoaded'
  BY <1>2, <1>4, <1>5 DEF AtEase, AllLoaded, StoredOf
<1>11. OthersSettled(u)' /\ (Store!Open(docs'[u]) => Settled(u)')
  <2>1. \A v \in Uris \ {u} : Settled(v)'
    BY <1>2, <1>4, <1>8 DEF AtEase, AllSettled, Settled, StoredOf
  <2>2. ASSUME Store!Open(docs'[u]) PROVE Settled(u)'
    BY <1>2, <1>4, <1>5, <1>8, <2>2 DEF AtEase, AllSettled, Settled, StoredOf, Store!Stored, Store!Open
  <2> QED BY <2>1, <2>2 DEF OthersSettled
<1>12. Relative(u, p)'
  BY <1>1, <1>2, <1>4, <1>5, <1>8 DEF AtEase, AllSettled, Settled, StoredOf, Relative
<1>13. HasBegun(t)'
  BY <1>1, <1>2, <1>6, <1>10, <1>11, <1>12 DEF HasBegun, AtEase, Calm, Relative
<1> QED BY <1>1, <1>4, <1>7, <1>8, <1>9, <1>13 DEF WorkspaceInv, Somewhere

(* The job remembers the text and the generation from before the change.    *)
LEMMA ToObserveFacts ==
    ASSUME NEW t \in Threads, Typed, HasBegun(t), ToObserve(t)
    PROVE  /\ DOMAIN job' = Threads /\ job'[t].op = "observe"
           /\ job'[t].replaced = generation /\ job'[t].before = job[t].before
<1>1. PICK u, p : job[t] = [op |-> "begun", uri |-> u, replaced |-> generation, before |-> p]
  BY DEF HasBegun
<1>2. job' = [job EXCEPT ![t].op = "observe"] /\ DOMAIN job = Threads
  BY DEF ToObserve, Typed
<1>3. job'[t] = [job[t] EXCEPT !.op = "observe"] /\ DOMAIN job' = Threads
  BY <1>2
<1>4. job'[t] = [op |-> "observe", uri |-> u, replaced |-> generation, before |-> p]
  BY <1>1, <1>3
<1> QED BY <1>1, <1>3, <1>4

(* An edit of a buffer makes its document the one that is to be told of.    *)
LEMMA DidOpenStep ==
    ASSUME StoreAssumption, NEW CONSTANT t, Orderly(t), WorkspaceInv(t),
           NEW text \in Contents, DidOpen(t, text)
    PROVE  WorkspaceInv(t)'
<1> USE DEF Uris, Text
<1>1. /\ up /\ HasBegun(t) /\ t \in Threads
      /\ Typed /\ FilesOK /\ DocsOK /\ HistoryOK
  BY HasBegunWhenBegun DEF DidOpen, Begun, WorkspaceInv, Orderly
<1> PICK u \in Uris : u = job[t].uri
  BY <1>1 DEF HasBegun
<1> PICK p \in Text : p = job[t].before
  BY <1>1 DEF HasBegun
<1> PICK d : d = [known |-> TRUE, disk |-> None, buffer |-> text]
  OBVIOUS
<1>2. /\ generation' = generation + 1
      /\ docs' = [docs EXCEPT ![u] = d]
      /\ result' = [result EXCEPT ![t] =
                      <<[uri |-> u, generation |-> generation', removed |-> FALSE]>>]
      /\ run'[t] = Store!Idle /\ DOMAIN run' = Threads
      /\ cache' = [cache EXCEPT ![u] = NoSnapshot]
      /\ ToObserve(t)
      /\ UNCHANGED <<file, obs, log, saved, base, up>>
  BY <1>1 DEF DidOpen, Store!DidOpen, Store!OpenWith, Store!NextGeneration, Store!Commit,
              Store!Disturb, Invalidate
<1>3. /\ DOMAIN job' = Threads /\ job'[t].op = "observe"
      /\ job'[t].replaced = generation /\ job'[t].before = p
  BY <1>1, <1>2, ToObserveFacts
<1>4. None \notin Contents /\ d \in Store!Document /\ NoSnapshot \in Snapshots
      /\ Store!Stored(d) = text /\ Store!Open(d)
  BY TextFacts DEF Store!Document, NoSnapshot, Snapshots, Store!Stored, Store!Open
<1>5. /\ docs' \in [Uris -> Store!Document] /\ cache' \in [Uris -> Snapshots]
      /\ docs'[u] = d /\ cache'[u] = NoSnapshot
      /\ \A v \in Uris \ {u} : docs'[v] = docs[v] /\ cache'[v] = cache[v]
  BY <1>1, <1>2, <1>4 DEF Typed
<1>6. Typed'
  BY <1>1, <1>2, <1>3, <1>5 DEF Typed
<1>7. HistoryOK' /\ \A v : Told(log, v)' = Told(log, v)
  BY <1>1, <1>2, HistoryKept
<1>8. FilesOK'
  BY <1>1, <1>2 DEF FilesOK
<1>9. DocsOK'
  <2>1. ASSUME NEW v \in Uris PROVE /\ ~docs'[v].known => docs'[v] = Store!Unknown
                                    /\ Store!Stored(docs'[v]) = None => cache'[v].text = None
    BY <1>1, <1>4, <1>5 DEF DocsOK, StoredOf, NoSnapshot
  <2>2. ASSUME NEW v \in Uris, Unread(v)' PROVE Unread(v)
    BY <1>2, <1>4, <1>5, <2>2 DEF Unread
  <2>3. \A v, w \in FileUris : Unread(v)' /\ Unread(w)' => v = w
    BY <1>1, <2>2, TextFacts DEF DocsOK
  <2> QED BY <2>1, <2>3 DEF DocsOK, StoredOf
<1>10. AllLoaded' /\ OthersSettled(u)' /\ Store!Stored(docs'[u]) # None
  <2>1. \A v \in Uris \ {u} : Settled(v)'
    BY <1>1, <1>5, <1>7 DEF HasBegun, OthersSettled, Settled, StoredOf
  <2> QED BY <1>1, <1>4, <1>5, <2>1 DEF HasBegun, AllLoaded, OthersSettled, StoredOf
<1>11. News(u, p)'
  BY <1>1, <1>2, <1>5, <1>7, <1>10 DEF HasBegun, News, Relative, NoSnapshot
<1>12. Before(t, u)' = p
  BY <1>3 DEF Before
<1>13. FoundChange(t, u, p)'
  BY <1>1, <1>2, <1>10, <1>11 DEF FoundChange, Typed, StoredOf
<1>14. Finds(t)'
  <2>1. FoundChange(t, u, Before(t, u))'
    BY <1>12, <1>13 DEF FoundChange, News, Relative
  <2>2. Calm(t)' /\ Resolved(t)' /\ job'[t].replaced # generation'
    BY <1>1, <1>2, <1>3 DEF Calm, Resolved, HasBegun, Typed
  <2> QED BY <1>10, <2>1, <2>2 DEF Finds
<1> QED BY <1>1, <1>2, <1>6, <1>7, <1>8, <1>9, <1>14 DEF WorkspaceInv, Somewhere

(* A save changes no winning text.                                          *)
LEMMA DidSaveStep ==
    ASSUME StoreAssumption, NEW CONSTANT t, Orderly(t), WorkspaceInv(t), DidSave(t)
    PROVE  WorkspaceInv(t)'
<1> USE DEF Uris, Text
<1>1. /\ up /\ HasBegun(t) /\ t \in Threads
      /\ Typed /\ FilesOK /\ DocsOK /\ HistoryOK
  BY HasBegunWhenBegun DEF DidSave, Begun, WorkspaceInv, Orderly
<1> PICK u \in Uris : u = job[t].uri
  BY <1>1 DEF HasBegun
<1> PICK d : d = [docs[u] EXCEPT !.disk = docs[u].buffer]
  OBVIOUS
<1>2. /\ Store!Open(docs[u]) /\ (u \in FileUris => file[u] = docs[u].buffer)
      /\ Store!DidSave(t, u, None) /\ ToObserve(t)
      /\ UNCHANGED <<file, generation, result, obs, cache, log, saved, base, up>>
  BY DEF DidSave, Store!DidSave
<1>3. docs[u] \in Store!Document
  BY <1>1 DEF Typed
<1>4. /\ d \in Store!Document /\ d.known = docs[u].known /\ d.disk = docs[u].buffer
      /\ d.buffer = docs[u].buffer
      /\ Store!Stored(d) = Store!Stored(docs[u]) /\ Store!Open(d) /\ docs[u].buffer # None
  BY <1>2, <1>3 DEF Store!Document, Store!Stored, Store!Open
<1>5. /\ docs' = [docs EXCEPT ![u] = d]
      /\ run'[t] = [op |-> "answer", uri |-> u] /\ DOMAIN run' = Threads
  BY <1>1, <1>2, <1>4 DEF Store!DidSave, Store!Commit, Store!Disturb
<1>6. /\ DOMAIN job' = Threads /\ job'[t].op = "observe" /\ job'[t].replaced = generation
  BY <1>1, <1>2, ToObserveFacts
<1>7. /\ docs' \in [Uris -> Store!Document] /\ docs'[u] = d
      /\ \A v \in Uris \ {u} : docs'[v] = docs[v]
  BY <1>1, <1>4, <1>5 DEF Typed
<1>8. Typed'
  BY <1>1, <1>2, <1>5, <1>6, <1>7 DEF Typed
<1>9. HistoryOK' /\ \A v : Told(log, v)' = Told(log, v)
  BY <1>1, <1>2, HistoryKept
<1>10. FilesOK'
  BY <1>1, <1>2 DEF FilesOK
<1>11. \A v \in Uris : Store!Stored(docs'[v]) = Store!Stored(docs[v])
                       /\ docs'[v].known = docs[v].known
  BY <1>4, <1>7
<1>12. DocsOK'
  <2>1. ASSUME NEW v \in Uris, ~docs'[v].known PROVE docs'[v] = Store!Unknown
    <3>1. ~docs[v].known
      BY <1>11, <2>1
    <3>2. docs[v] = Store!Unknown
      BY <1>1, <3>1 DEF DocsOK
    <3>3. v # u
      BY <1>2, <3>2 DEF Store!Unknown, Store!Open
    <3> QED BY <1>7, <3>2, <3>3
  <2>2. \A v \in Uris : Store!Stored(docs'[v]) = None => cache'[v].text = None
    BY <1>1, <1>2, <1>11 DEF DocsOK, StoredOf
  <2>3. ASSUME NEW v \in FileUris, Unread(v)' PROVE Unread(v)
    BY <1>2, <1>4, <1>7, <2>3, TextFacts DEF Unread
  <2>4. \A v, w \in FileUris : Unread(v)' /\ Unread(w)' => v = w
    BY <1>1, <2>3 DEF DocsOK
  <2> QED BY <2>1, <2>2, <2>4 DEF DocsOK, StoredOf
<1>13. AllSettled' /\ AllLoaded'
  <2>1. \A v \in Uris : Settled(v)
    BY <1>1, <1>2 DEF HasBegun, OthersSettled
  <2> QED BY <1>1, <1>9, <1>11, <2>1 DEF HasBegun, AllSettled, AllLoaded, Settled, StoredOf
<1>14. Saves(t)'
  BY <1>1, <1>2, <1>5, <1>6, <1>13 DEF Saves, HasBegun, Calm
<1> QED BY <1>1, <1>2, <1>8, <1>9, <1>10, <1>12, <1>14 DEF WorkspaceInv, Somewhere

(* A close leaves the text of the file, which is to be told of.             *)
LEMMA DidCloseStep ==
    ASSUME StoreAssumption, NEW CONSTANT t, Orderly(t), WorkspaceInv(t), DidClose(t)
    PROVE  WorkspaceInv(t)'
<1> USE DEF Uris, Text
<1>1. /\ up /\ HasBegun(t) /\ t \in Threads
      /\ Typed /\ FilesOK /\ DocsOK /\ HistoryOK
  BY HasBegunWhenBegun DEF DidClose, Begun, WorkspaceInv, Orderly
<1> PICK u \in Uris : u = job[t].uri
  BY <1>1 DEF HasBegun
<1> PICK p \in Text : p = job[t].before
  BY <1>1 DEF HasBegun
<1> PICK d : d = [docs[u] EXCEPT !.buffer = None]
  OBVIOUS
<1>2. /\ Store!Open(docs[u]) /\ docs[u].disk # None
      /\ Store!DidClose(t, u) /\ Invalidate(u) /\ ToObserve(t)
      /\ UNCHANGED <<file, result, obs, log, saved, base, up>>
  BY DEF DidClose, Store!DidClose, Orderly
<1>3. docs[u] \in Store!Document
  BY <1>1 DEF Typed
<1>4. /\ d \in Store!Document /\ d.known = docs[u].known /\ d.disk = docs[u].disk
      /\ d.disk # None /\ Store!Stored(d) = d.disk /\ ~Store!Open(d)
  BY <1>2, <1>3, TextFacts DEF Store!Document, Store!Stored, Store!Open
<1>5. /\ docs' = [docs EXCEPT ![u] = d] /\ generation' = generation + 1
      /\ run'[t] = [op |-> "answer", uri |-> u] /\ DOMAIN run' = Threads
      /\ cache' = [cache EXCEPT ![u] = NoSnapshot]
  BY <1>1, <1>2, <1>4 DEF Store!DidClose, Store!Commit, Store!Disturb, Store!NextGeneration,
                          Invalidate
<1>6. /\ DOMAIN job' = Threads /\ job'[t].op = "observe"
      /\ job'[t].replaced = generation /\ job'[t].before = p
  BY <1>1, <1>2, ToObserveFacts
<1>7. NoSnapshot \in Snapshots
  BY TextFacts DEF NoSnapshot, Snapshots
<1>8. /\ docs' \in [Uris -> Store!Document] /\ cache' \in [Uris -> Snapshots]
      /\ docs'[u] = d /\ cache'[u] = NoSnapshot
      /\ \A v \in Uris \ {u} : docs'[v] = docs[v] /\ cache'[v] = cache[v]
  BY <1>1, <1>4, <1>5, <1>7 DEF Typed
<1>9. Typed'
  BY <1>1, <1>2, <1>5, <1>6, <1>8 DEF Typed
<1>10. HistoryOK' /\ \A v : Told(log, v)' = Told(log, v)
  BY <1>1, <1>2, HistoryKept
<1>11. FilesOK'
  BY <1>1, <1>2 DEF FilesOK
<1>12. DocsOK'
  <2>1. ASSUME NEW v \in Uris, ~docs'[v].known PROVE docs'[v] = Store!Unknown
    <3>1. ~docs[v].known
      BY <1>4, <1>8, <2>1
    <3>2. docs[v] = Store!Unknown
      BY <1>1, <3>1 DEF DocsOK
    <3>3. v # u
      BY <1>2, <3>2 DEF Store!Unknown, Store!Open
    <3> QED BY <1>8, <3>2, <3>3
  <2>2. \A v \in Uris : Store!Stored(docs'[v]) = None => cache'[v].text = None
    BY <1>1, <1>8 DEF DocsOK, StoredOf, NoSnapshot
  <2>3. ASSUME NEW v \in FileUris, Unread(v)' PROVE Unread(v)
    BY <1>2, <1>4, <1>8, <2>3, TextFacts DEF Unread
  <2>4. \A v, w \in FileUris : Unread(v)' /\ Unread(w)' => v = w
    BY <1>1, <2>3 DEF DocsOK
  <2> QED BY <2>1, <2>2, <2>4 DEF DocsOK, StoredOf
<1>13. AllLoaded' /\ OthersSettled(u)' /\ StoredOf(u)' # None
  <2>1. \A v \in Uris \ {u} : Settled(v)'
    BY <1>1, <1>8, <1>10 DEF HasBegun, OthersSettled, Settled, StoredOf
  <2> QED BY <1>1, <1>4, <1>8, <2>1 DEF HasBegun, AllLoaded, OthersSettled, StoredOf
<1>14. News(u, p)'
  BY <1>1, <1>2, <1>8, <1>10, <1>13 DEF HasBegun, News, Relative, NoSnapshot
<1>15. Closes(t)'
  <2>1. generation' # generation
    BY <1>1, <1>5 DEF Typed
  <2> QED BY <1>1, <1>2, <1>5, <1>6, <1>13, <1>14, <2>1
             DEF Closes, HasBegun, Calm, News, Relative
<1> QED BY <1>1, <1>2, <1>9, <1>10, <1>11, <1>12, <1>15 DEF WorkspaceInv, Somewhere

(* News stays news in a step that leaves documents, analyses and history    *)
(* alone.                                                                   *)
LEMMA NewsKept ==
    ASSUME NEW u, NEW p, News(u, p), HistoryOK, UNCHANGED <<docs, cache, log, saved, base>>
    PROVE  News(u, p)' /\ StoredOf(u)' = StoredOf(u)
<1>1. \A v : Told(log, v)' = Told(log, v)
  BY HistoryKept
<1>2. \A v : StoredOf(v)' = StoredOf(v)
  BY DEF StoredOf
<1>3. OthersSettled(u)'
  BY <1>1, <1>2 DEF News, OthersSettled, Settled, Uris, Store!Uris
<1> QED BY <1>1, <1>2, <1>3 DEF News, Relative

(* The store answers an editor's notification with its change.              *)
LEMMA AnswerStep ==
    ASSUME StoreAssumption, NEW CONSTANT t, Orderly(t), WorkspaceInv(t), up, Store!Answer(t),
           UNCHANGED <<job, obs, cache, log, saved, base, up>>
    PROVE  WorkspaceInv(t)'
<1> USE DEF Uris, Text
<1>1. /\ run[t].op = "answer" /\ t \in Threads
      /\ result' = [result EXCEPT ![t] =
                      <<[uri |-> run[t].uri, generation |-> generation, removed |-> FALSE]>>]
      /\ run' = [run EXCEPT ![t] = Store!Idle]
      /\ UNCHANGED <<file, docs, generation>>
  BY DEF Store!Answer, Orderly
<1>2. /\ Typed /\ FilesOK /\ DocsOK /\ HistoryOK /\ Somewhere(t)
      /\ DOMAIN run = Threads /\ DOMAIN result = Threads
  BY DEF WorkspaceInv, Typed
<1>3. Typed'
  BY <1>1, <1>2 DEF Typed
<1>4. HistoryOK' /\ FilesOK' /\ DocsOK'
  BY <1>1, <1>2, DocsKept
<1>5. /\ run'[t] = Store!Idle
      /\ result'[t] = <<[uri |-> run[t].uri, generation |-> generation, removed |-> FALSE]>>
  BY <1>1, <1>2
<1>6. CASE Saves(t)
  <2>1. PICK u \in Uris : run[t] = [op |-> "answer", uri |-> u]
    BY <1>1, <1>6 DEF Saves, Store!Idle
  <2>2. AllSettled' /\ AllLoaded'
    BY <1>1, <1>2, <1>6, DocsKept DEF Saves
  <2>3. result'[t] = <<[uri |-> u, generation |-> generation', removed |-> FALSE]>>
    BY <1>1, <1>5, <2>1
  <2>4. \E v \in Uris :
           /\ run'[t] = Store!Idle
           /\ result'[t] = <<[uri |-> v, generation |-> generation', removed |-> FALSE]>>
    BY <1>5, <2>3
  <2>5. job'[t].op = "observe" /\ job'[t].replaced = generation' /\ obs'[t] = NoObs
    BY <1>1, <1>6 DEF Saves
  <2>6. Saves(t)'
    BY <2>2, <2>4, <2>5 DEF Saves
  <2> QED BY <1>3, <1>4, <2>6 DEF WorkspaceInv, Somewhere
<1>7. CASE Closes(t)
  <2>1. PICK u \in Uris : /\ run[t] = [op |-> "answer", uri |-> u]
                          /\ StoredOf(u) # None /\ News(u, job[t].before)
    BY <1>7 DEF Closes
  <2> PICK p \in Text : p = job[t].before
    BY <1>7 DEF Closes
  <2>2. StoredOf(u)' # None /\ News(u, p)' /\ AllLoaded'
    <3>1. AllLoaded'
      BY <1>1, <1>2, <1>7, DocsKept DEF Closes
    <3>2. News(u, p)' /\ StoredOf(u)' = StoredOf(u)
      BY <1>1, <1>2, <2>1, NewsKept
    <3> QED BY <2>1, <3>1, <3>2
  <2>3. Before(t, u)' = p
    BY <1>7 DEF Closes, Before
  <2>6. result'[t] = <<[uri |-> u, generation |-> generation', removed |-> FALSE]>>
    BY <1>1, <1>5, <2>1
  <2>7. FoundChange(t, u, p)'
    BY <2>2, <2>6 DEF FoundChange
  <2>4. FoundChange(t, u, Before(t, u))'
    BY <2>3, <2>7 DEF FoundChange, News, Relative
  <2>5. Finds(t)'
    BY <1>1, <1>5, <1>7, <2>2, <2>4 DEF Finds, Closes, Calm, Resolved
  <2> QED BY <1>3, <1>4, <2>5 DEF WorkspaceInv, Somewhere
<1> QED BY <1>1, <1>2, <1>6, <1>7, WhereRunning

(* A discovered file enters the store; nobody has told of it yet.           *)
LEMMA LoadNewCommitStep ==
    ASSUME StoreAssumption, NEW CONSTANT t, Orderly(t), WorkspaceInv(t), up,
           Store!LoadNewCommit(t), UNCHANGED <<job, obs, cache, log, saved, base, up>>
    PROVE  WorkspaceInv(t)'
<1> USE DEF Uris, Text
<1>1. run[t].op = "load" /\ t \in Threads
  BY DEF Store!LoadNewCommit, Orderly
<1>2. /\ Typed /\ FilesOK /\ DocsOK /\ HistoryOK /\ LoadsNew(t)
      /\ DOMAIN run = Threads
  BY <1>1, WhereRunning DEF WorkspaceInv, Typed
<1>3. PICK u \in Uris \cap FileUris :
         /\ run[t] = [op |-> "load", uri |-> u, text |-> file[u]]
         /\ file[u] # None /\ docs[u].known /\ StoredOf(u) = None
         /\ \A v \in Uris \ {u} : docs[v].known => StoredOf(v) # None
  BY <1>2 DEF LoadsNew
<1> PICK d : d = [docs[u] EXCEPT !.disk = file[u]]
  OBVIOUS
<1>4. /\ docs' = [docs EXCEPT ![u] = d]
      /\ run' = [run EXCEPT ![t] = [op |-> "count", uri |-> u]]
      /\ UNCHANGED <<file, generation, result>>
  BY <1>3 DEF Store!LoadNewCommit, Store!CommitFirst, StoredOf
<1>5. docs[u] \in Store!Document /\ file[u] \in Text
  BY <1>2 DEF Typed
<1>6. /\ d \in Store!Document /\ d.known /\ d.disk = file[u] /\ d.buffer = None
      /\ Store!Stored(d) = file[u] /\ ~Store!Open(d)
  BY <1>3, <1>5 DEF Store!Document, Store!Stored, Store!Open, StoredOf
<1>7. /\ docs' \in [Uris -> Store!Document] /\ docs'[u] = d
      /\ \A v \in Uris \ {u} : docs'[v] = docs[v]
  BY <1>2, <1>4, <1>6 DEF Typed
<1>8. Typed'
  BY <1>2, <1>4, <1>7 DEF Typed
<1>9. HistoryOK' /\ \A v : Told(log, v)' = Told(log, v)
  BY <1>2, HistoryKept
<1>10. FilesOK'
  BY <1>2, <1>4 DEF FilesOK
<1>11. DocsOK'
  <2>1. ASSUME NEW v \in Uris PROVE /\ ~docs'[v].known => docs'[v] = Store!Unknown
                                    /\ Store!Stored(docs'[v]) = None => cache'[v].text = None
    BY <1>2, <1>3, <1>6, <1>7 DEF DocsOK, StoredOf
  <2>2. ASSUME NEW v \in Uris, Unread(v)' PROVE Unread(v)
    BY <1>4, <1>6, <1>7, <2>2 DEF Unread
  <2>3. \A v, w \in FileUris : Unread(v)' /\ Unread(w)' => v = w
    BY <1>2, <2>2, TextFacts DEF DocsOK
  <2> QED BY <2>1, <2>3 DEF DocsOK, StoredOf
<1>12. AllLoaded' /\ OthersSettled(u)'
  BY <1>2, <1>3, <1>6, <1>7, <1>9
     DEF LoadsNew, AllSettled, AllLoaded, OthersSettled, Settled, StoredOf
<1>13. News(u, None)'
  <2>1. cache[u].text = None
    BY <1>2, <1>3 DEF DocsOK
  <2>2. Told(log, u) = None
    BY <1>2, <1>3 DEF LoadsNew, AllSettled, Settled
  <2> QED BY <1>9, <1>12, <2>1, <2>2 DEF News, Relative
<1>14. CountsNew(t)'
  <2>1. run'[t] = [op |-> "count", uri |-> u] /\ Store!Stored(docs'[u]) # None
    BY <1>1, <1>2, <1>3, <1>4, <1>6, <1>7
  <2> QED BY <1>2, <1>4, <1>12, <1>13, <2>1 DEF CountsNew, LoadsNew, StoredOf
<1> QED BY <1>8, <1>9, <1>10, <1>11, <1>14 DEF WorkspaceInv, Somewhere

(* It gets a generation, and its change is to be told.                      *)
LEMMA CountStep ==
    ASSUME StoreAssumption, NEW CONSTANT t, Orderly(t), WorkspaceInv(t), up, Store!Count(t),
           UNCHANGED <<job, obs, cache, log, saved, base, up>>
    PROVE  WorkspaceInv(t)'
<1> USE DEF Uris, Text
<1>1. run[t].op = "count" /\ t \in Threads
  BY DEF Store!Count, Orderly
<1>2. /\ Typed /\ FilesOK /\ DocsOK /\ HistoryOK /\ CountsNew(t)
      /\ DOMAIN run = Threads /\ DOMAIN result = Threads /\ generation \in Nat
  BY <1>1, WhereRunning DEF WorkspaceInv, Typed
<1>3. PICK u \in Uris : run[t] = [op |-> "count", uri |-> u] /\ StoredOf(u) # None /\ News(u, None)
  BY <1>2 DEF CountsNew
<1>4. /\ generation' = generation + 1
      /\ result' = [result EXCEPT ![t] =
                      <<[uri |-> u, generation |-> generation', removed |-> FALSE]>>]
      /\ run' = [run EXCEPT ![t] = Store!Idle]
      /\ UNCHANGED <<file, docs>>
  BY <1>3 DEF Store!Count, Store!NextGeneration
<1>5. Typed'
  BY <1>2, <1>4 DEF Typed
<1>6. HistoryOK' /\ FilesOK' /\ DocsOK' /\ AllLoaded' /\ StoredOf(u)' # None /\ News(u, None)'
  <2>1. HistoryOK' /\ FilesOK' /\ DocsOK' /\ AllLoaded'
    BY <1>2, <1>4, DocsKept DEF CountsNew
  <2>2. StoredOf(u)' = StoredOf(u) /\ News(u, None)'
    BY <1>2, <1>3, <1>4, NewsKept
  <2> QED BY <1>3, <2>1, <2>2
<1>7. Before(t, u)' = None
  BY <1>2 DEF CountsNew, NothingNew, Before
<1>8. /\ run'[t] = Store!Idle
      /\ result'[t] = <<[uri |-> u, generation |-> generation', removed |-> FALSE]>>
  BY <1>1, <1>2, <1>4
<1>9. FoundChange(t, u, Before(t, u))'
  BY <1>6, <1>7, <1>8, TextFacts DEF FoundChange, News, Relative
<1>10. Finds(t)'
  BY <1>2, <1>6, <1>8, <1>9 DEF Finds, CountsNew, NothingNew, Calm, Resolved
<1> QED BY <1>5, <1>6, <1>10 DEF WorkspaceInv, Somewhere

(* A document that the refresh replaced gets a generation.                  *)
LEMMA RefreshCountStep ==
    ASSUME StoreAssumption, NEW CONSTANT t, Orderly(t), WorkspaceInv(t), up,
           Store!RefreshCount(t), UNCHANGED <<job, obs, cache, log, saved, base, up>>
    PROVE  WorkspaceInv(t)'
<1> USE DEF Uris, Text
<1>1. Store!Refreshing(t, "count") /\ t \in Threads
  BY DEF Store!RefreshCount, Orderly
<1>2. /\ Typed /\ FilesOK /\ DocsOK /\ HistoryOK /\ RefreshCounts(t)
      /\ DOMAIN run = Threads /\ DOMAIN result = Threads /\ generation \in Nat
  BY <1>1, WhereRunning DEF WorkspaceInv, Typed
<1> PICK u \in Uris : u = run[t].now.uri
  BY <1>2 DEF RefreshCounts
<1> PICK p : p = job[t].before[u]
  OBVIOUS
<1> PICK r : r = run[t]
  OBVIOUS
<1>3. /\ r = [op |-> "refresh", todo |-> r.todo, now |-> r.now,
              text |-> r.text, step |-> r.step, quiet |-> r.quiet]
      /\ \A c \in r.todo : IsCandidate(c)
      /\ result[t] = << >> /\ r.text = StoredOf(u) /\ News(u, p) /\ AllLoaded /\ AllRead
      /\ job[t].op = "refreshed" /\ job[t].before \in [Uris -> Text]
  BY <1>2 DEF RefreshCounts, Refreshes
<1>4. /\ generation' = generation + 1
      /\ result' = [result EXCEPT ![t] =
                      Append(result[t], [uri |-> u, generation |-> generation',
                                         removed |-> r.text = None])]
      /\ run' = [run EXCEPT ![t].now = None, ![t].step = "read"]
      /\ UNCHANGED <<file, docs>>
  BY <1>3 DEF Store!RefreshCount, Store!NextGeneration, Store!RefreshNext
<1>5. run'[t] = [op |-> "refresh", todo |-> r.todo, now |-> None,
                 text |-> r.text, step |-> "read", quiet |-> r.quiet]
  <2>1. run'[t] = [[r EXCEPT !.now = None] EXCEPT !.step = "read"]
    BY <1>1, <1>2, <1>4
  <2>2. [r EXCEPT !.now = None] =
           [op |-> "refresh", todo |-> r.todo, now |-> None,
            text |-> r.text, step |-> r.step, quiet |-> r.quiet]
    BY <1>3
  <2>3. run'[t] = [[op |-> "refresh", todo |-> r.todo, now |-> None, text |-> r.text,
                    step |-> r.step, quiet |-> r.quiet] EXCEPT !.step = "read"]
    BY <2>1, <2>2, Zenon
  <2> QED BY <2>3
<1>6. result'[t] = <<[uri |-> u, generation |-> generation', removed |-> r.text = None]>>
  <2>1. result'[t] = Append(result[t], [uri |-> u, generation |-> generation',
                                        removed |-> r.text = None])
    BY <1>1, <1>2, <1>4
  <2> QED BY <1>3, <2>1
<1>7. Typed'
  BY <1>2, <1>4 DEF Typed
<1>8. /\ HistoryOK' /\ FilesOK' /\ DocsOK' /\ AllLoaded' /\ AllRead'
      /\ StoredOf(u)' = StoredOf(u) /\ News(u, p)' /\ \A c \in r.todo : IsCandidate(c)'
  <2>1. HistoryOK' /\ FilesOK' /\ DocsOK' /\ AllLoaded' /\ AllRead'
    BY <1>2, <1>3, <1>4, DocsKept
  <2>2. StoredOf(u)' = StoredOf(u) /\ News(u, p)'
    BY <1>2, <1>3, <1>4, NewsKept
  <2>3. \A c \in r.todo : IsCandidate(c)'
    BY <1>3, <1>4 DEF IsCandidate
  <2> QED BY <2>1, <2>2, <2>3
<1>9. FoundChange(t, u, p)'
  BY <1>3, <1>6, <1>8 DEF FoundChange
<1>10. Refreshes(t)'
  <2>1. /\ run'[t].op = "refresh" /\ run'[t].todo = r.todo /\ run'[t].now = None
        /\ run'[t].text = r.text /\ run'[t].step = "read" /\ run'[t].quiet = r.quiet
    BY <1>5
  <2>2. run'[t] = [op |-> "refresh", todo |-> run'[t].todo, now |-> run'[t].now,
                   text |-> run'[t].text, step |-> run'[t].step, quiet |-> run'[t].quiet]
    BY <1>5, <2>1
  <2>3. \A c \in run'[t].todo : IsCandidate(c)'
    BY <1>8, <2>1
  <2>4. /\ job[t].op = "refreshed" /\ job[t].before \in [Uris -> Text] /\ obs[t] = NoObs
        /\ job[t] = [op |-> "refreshed", before |-> job[t].before]
    BY <1>2 DEF Refreshes, RefreshCounts
  <2> QED BY <1>8, <2>1, <2>2, <2>3, <2>4 DEF Refreshes
<1>11. RefreshFinds(t)'
  BY <1>5, <1>8, <1>9, <1>10 DEF RefreshFinds, FoundChange, News, Relative
<1> QED BY <1>7, <1>8, <1>11 DEF WorkspaceInv, Somewhere

(* The refresh returns what it found, at most one change.                   *)
LEMMA RefreshEndStep ==
    ASSUME StoreAssumption, NEW CONSTANT t, Orderly(t), WorkspaceInv(t), up,
           Store!RefreshEnd(t), UNCHANGED <<job, obs, cache, log, saved, base, up>>
    PROVE  WorkspaceInv(t)'
<1> USE DEF Uris, Text
<1>1. /\ Store!Refreshing(t, "read") /\ t \in Threads
      /\ run' = [run EXCEPT ![t] = Store!Idle]
      /\ UNCHANGED <<file, docs, generation, result>>
  BY DEF Store!RefreshEnd, Orderly
<1>2. /\ Typed /\ FilesOK /\ DocsOK /\ HistoryOK /\ (RefreshReads(t) \/ RefreshFinds(t))
      /\ DOMAIN run = Threads
  BY <1>1, WhereRunning DEF WorkspaceInv, Typed
<1>3. Typed'
  BY <1>1, <1>2 DEF Typed
<1>4. HistoryOK' /\ FilesOK' /\ DocsOK'
  BY <1>1, <1>2, DocsKept
<1>5. run'[t] = Store!Idle
  BY <1>1, <1>2
<1>6. CASE RefreshReads(t)
  <2>1. AllSettled' /\ AllLoaded'
    BY <1>1, <1>2, <1>6, DocsKept DEF RefreshReads, Refreshes
  <2>2. HasReturned(t)'
    BY <1>1, <1>5, <1>6, <2>1 DEF HasReturned, RefreshReads, Refreshes, Calm
  <2> QED BY <1>3, <1>4, <2>2 DEF WorkspaceInv, Somewhere
<1>7. CASE RefreshFinds(t)
  <2>1. PICK u \in Uris : FoundChange(t, u, job[t].before[u])
    BY <1>7 DEF RefreshFinds
  <2> PICK p : p = job[t].before[u]
    OBVIOUS
  <2>2. FoundChange(t, u, p)' /\ AllLoaded'
    <3>1. AllLoaded'
      BY <1>1, <1>2, <1>7, DocsKept DEF RefreshFinds, Refreshes
    <3>2. News(u, p)' /\ StoredOf(u)' = StoredOf(u)
      BY <1>1, <1>2, <2>1, NewsKept DEF FoundChange
    <3> QED BY <1>1, <2>1, <3>1, <3>2 DEF FoundChange
  <2>3. job[t].op = "refreshed" /\ Before(t, u)' = p
    BY <1>7 DEF RefreshFinds, Refreshes, Before
  <2>4. FoundChange(t, u, Before(t, u))'
    BY <2>2, <2>3 DEF FoundChange, News, Relative
  <2>5. Finds(t)'
    BY <1>5, <1>7, <2>2, <2>3, <2>4 DEF Finds, RefreshFinds, Refreshes, Calm, Resolved
  <2> QED BY <1>3, <1>4, <2>5 DEF WorkspaceInv, Somewhere
<1> QED BY <1>2, <1>6, <1>7

(* A refresh that takes its next file.                                      *)
LEMMA TakenRecord ==
    ASSUME NEW r, NEW a, NEW b, NEW c, NEW d, NEW q,
           r = [op |-> "refresh", todo |-> a, now |-> b, text |-> c, step |-> d, quiet |-> q],
           NEW A, NEW B, NEW C, NEW D
    PROVE  [r EXCEPT !.todo = A, !.now = B, !.text = C, !.step = D] =
             [op |-> "refresh", todo |-> A, now |-> B, text |-> C, step |-> D, quiet |-> q]
<1>1. [r EXCEPT !.todo = A] =
        [op |-> "refresh", todo |-> A, now |-> b, text |-> c, step |-> d, quiet |-> q]
  OBVIOUS
<1>2. [[op |-> "refresh", todo |-> A, now |-> b, text |-> c, step |-> d, quiet |-> q]
         EXCEPT !.now = B] =
        [op |-> "refresh", todo |-> A, now |-> B, text |-> c, step |-> d, quiet |-> q]
  OBVIOUS
<1>3. [[op |-> "refresh", todo |-> A, now |-> B, text |-> c, step |-> d, quiet |-> q]
         EXCEPT !.text = C] =
        [op |-> "refresh", todo |-> A, now |-> B, text |-> C, step |-> d, quiet |-> q]
  OBVIOUS
<1>4. [[op |-> "refresh", todo |-> A, now |-> B, text |-> C, step |-> d, quiet |-> q]
         EXCEPT !.step = D] =
        [op |-> "refresh", todo |-> A, now |-> B, text |-> C, step |-> D, quiet |-> q]
  OBVIOUS
<1>5. [r EXCEPT !.todo = A, !.now = B, !.text = C, !.step = D] =
        [[[[r EXCEPT !.todo = A] EXCEPT !.now = B] EXCEPT !.text = C] EXCEPT !.step = D]
  OBVIOUS
<1> QED BY <1>1, <1>2, <1>3, <1>4, <1>5, Zenon

(* The refresh reads the next file: unchanged, gone or changed.             *)
LEMMA RefreshReadStep ==
    ASSUME StoreAssumption, NEW CONSTANT t, Orderly(t), WorkspaceInv(t), up,
           Store!RefreshRead(t), UNCHANGED <<job, obs, cache, log, saved, base, up>>
    PROVE  WorkspaceInv(t)'
<1> USE DEF Uris, Text
<1>r. PICK r : r = run[t]
  OBVIOUS
<1>todo. PICK todo : todo = r.todo
  OBVIOUS
<1>now. PICK now : now = r.now
  OBVIOUS
<1>text. PICK text : text = r.text
  OBVIOUS
<1>quiet. PICK quiet : quiet = r.quiet
  OBVIOUS
<1>1. PICK c \in todo :
         run' = [run EXCEPT ![t] =
                   IF file[c.uri] = c.previous THEN Store!Passed(r, c) ELSE Store!Taken(r, c)]
  BY <1>r, <1>todo DEF Store!RefreshRead
<1>2. /\ Store!Refreshing(t, "read") /\ t \in Threads
      /\ UNCHANGED <<file, docs, generation, result>>
  BY DEF Store!RefreshRead, Orderly
<1>3. /\ Typed /\ FilesOK /\ DocsOK /\ HistoryOK /\ (RefreshReads(t) \/ RefreshFinds(t))
      /\ DOMAIN run = Threads
  BY <1>2, WhereRunning DEF WorkspaceInv, Typed
<1>4. Typed'
  BY <1>1, <1>2, <1>3 DEF Typed
<1>5. HistoryOK' /\ FilesOK' /\ DocsOK'
  BY <1>2, <1>3, DocsKept
<1>6. /\ job[t].op = "refreshed" /\ job[t] = [op |-> "refreshed", before |-> job[t].before]
      /\ job[t].before \in [Uris -> Text] /\ obs[t] = NoObs /\ AllLoaded
      /\ r = [op |-> "refresh", todo |-> todo, now |-> now,
              text |-> text, step |-> "read", quiet |-> quiet]
      /\ \A b \in todo : IsCandidate(b)
  BY <1>3, <1>r, <1>todo, <1>now, <1>text, <1>quiet DEF RefreshReads, RefreshFinds, Refreshes
<1>7. /\ \A b \in todo : IsCandidate(b)'
      /\ AllLoaded' /\ (AllSettled => AllSettled') /\ (AllRead => AllRead')
  <2>1. \A b \in todo : IsCandidate(b)'
    BY <1>2, <1>6 DEF IsCandidate
  <2> QED BY <1>2, <1>3, <1>6, <2>1, DocsKept
<1>8. CASE file[c.uri] = c.previous
  <2>1. run'[t] = [r EXCEPT !.todo = todo \ {c}]
    BY <1>1, <1>2, <1>3, <1>8, <1>todo DEF Store!Passed
  <2>2. run'[t] = [op |-> "refresh", todo |-> todo \ {c}, now |-> now,
                   text |-> text, step |-> "read", quiet |-> quiet]
    BY <1>6, <2>1
  <2>3. Refreshes(t)' /\ run'[t].step = "read"
    BY <1>2, <1>6, <1>7, <2>2 DEF Refreshes
  <2>4. CASE RefreshReads(t)
    <3>1. RefreshReads(t)'
      BY <1>2, <1>7, <2>3, <2>4 DEF RefreshReads
    <3> QED BY <1>4, <1>5, <3>1 DEF WorkspaceInv, Somewhere
  <2>5. CASE RefreshFinds(t)
    <3>1. PICK u \in Uris : FoundChange(t, u, job[t].before[u])
      BY <2>5 DEF RefreshFinds
    <3> PICK p : p = job[t].before[u]
      OBVIOUS
    <3>2. News(u, p)' /\ StoredOf(u)' = StoredOf(u)
      BY <1>2, <1>3, <3>1, NewsKept DEF FoundChange
    <3>3. FoundChange(t, u, p)'
      BY <1>2, <3>1, <3>2 DEF FoundChange
    <3>4. RefreshFinds(t)'
      BY <1>7, <2>3, <2>5, <3>3 DEF RefreshFinds, FoundChange, News, Relative
    <3> QED BY <1>4, <1>5, <3>4 DEF WorkspaceInv, Somewhere
  <2> QED BY <1>3, <2>4, <2>5
<1>9. CASE file[c.uri] # c.previous
  <2>1. IsCandidate(c) /\ Unread(c.uri)
    BY <1>1, <1>6, <1>9 DEF IsCandidate, Unread
  <2>2. RefreshReads(t)
    BY <1>3, <2>1 DEF RefreshFinds, AllRead, IsCandidate
  <2> PICK x : x = file[c.uri]
    OBVIOUS
  <2>3. run'[t] = [r EXCEPT !.todo = todo \ {c}, !.now = c, !.text = x, !.step = "commit"]
    BY <1>1, <1>2, <1>3, <1>9, <1>todo DEF Store!Taken
  <2>4. run'[t] = [op |-> "refresh", todo |-> todo \ {c}, now |-> c,
                   text |-> x, step |-> "commit", quiet |-> quiet]
    BY <1>6, <2>3, TakenRecord
  <2>5. Refreshes(t)'
    BY <1>2, <1>6, <1>7, <2>4 DEF Refreshes
  <2>6. \A b \in todo \ {c} : b.uri # c.uri
    <3>1. ASSUME NEW b \in todo, b.uri = c.uri PROVE b = c
      <4>1. /\ b \in Store!Candidate /\ c \in Store!Candidate
            /\ b.previous = docs[b.uri].disk /\ c.previous = docs[c.uri].disk
        BY <1>6, <2>1, <3>1 DEF IsCandidate
      <4> QED BY <3>1, <4>1 DEF Store!Candidate
    <3> QED BY <3>1
  <2>7. RefreshCommits(t)'
    BY <1>2, <1>7, <1>9, <2>1, <2>2, <2>4, <2>5, <2>6 DEF RefreshCommits, RefreshReads
  <2> QED BY <1>4, <1>5, <2>7 DEF WorkspaceInv, Somewhere
<1> QED BY <1>8, <1>9

(* What a refresh commits: a file that has another text, or none.           *)
LEMMA CommitFacts ==
    ASSUME NEW t, Typed, RefreshCommits(t), NEW u, u = run[t].now.uri, StoreAssumption
    PROVE  /\ u \in FileUris /\ u \in Uris /\ docs[u] \in Store!Document
           /\ docs[u].known /\ docs[u].disk = run[t].now.previous
           /\ docs[u].disk # None /\ docs[u].buffer = None /\ StoredOf(u) = docs[u].disk
           /\ file[u] = run[t].text /\ run[t].text \in Text /\ run[t].text # docs[u].disk
           /\ Unread(u)
<1> USE DEF Uris, Text
<1>1. u \in FileUris /\ u \in Uris /\ docs[u] \in Store!Document /\ file[u] \in Text
  BY TextFacts DEF RefreshCommits, IsCandidate, Typed
<1>2. /\ docs[u].known /\ docs[u].disk = run[t].now.previous /\ docs[u].buffer = None
      /\ StoredOf(u) = docs[u].disk
  BY DEF RefreshCommits, IsCandidate, Store!Open, Store!Stored, StoredOf
<1>3. docs[u].disk # None
  BY <1>1, <1>2 DEF RefreshCommits, Refreshes, AllLoaded
<1>4. file[u] = run[t].text /\ run[t].text # docs[u].disk
  BY <1>2 DEF RefreshCommits
<1> QED BY <1>1, <1>2, <1>3, <1>4 DEF Unread, Store!Open

(* The store replaces or removes a document and drops its analysis, and     *)
(* the job keeps the text before.                                           *)
LEMMA NotifyingStepKeeps ==
    ASSUME StoreAssumption, NEW CONSTANT t, Orderly(t), WorkspaceInv(t), NotifyingStep(t)
    PROVE  WorkspaceInv(t)'
<1> USE DEF Uris, Text
<1>1. /\ up /\ t \in Threads /\ UNCHANGED <<obs, log, saved, base, up>>
      /\ Typed /\ FilesOK /\ DocsOK /\ HistoryOK /\ Somewhere(t)
      /\ DOMAIN run = Threads /\ DOMAIN job = Threads
  BY DEF NotifyingStep, WorkspaceInv, Orderly, Typed
<1>2. ~Store!SaveCount(t)
  BY <1>1, WhereRunning DEF Store!SaveCount
<1>3. Store!Refreshing(t, "commit") /\ UNCHANGED <<file, generation, result>>
  BY <1>2 DEF NotifyingStep, Store!RefreshUpdate, Store!RefreshRemove
<1>4. RefreshCommits(t)
  BY <1>1, <1>3, WhereRunning
<1>u. PICK u : u = run[t].now.uri
  OBVIOUS
<1>5. /\ u \in FileUris /\ u \in Uris /\ docs[u] \in Store!Document
      /\ docs[u].known /\ docs[u].disk = run[t].now.previous
      /\ docs[u].disk # None /\ docs[u].buffer = None /\ StoredOf(u) = docs[u].disk
      /\ file[u] = run[t].text /\ run[t].text \in Text /\ run[t].text # docs[u].disk
      /\ Unread(u)
  BY <1>1, <1>4, <1>u, CommitFacts
<1>p. PICK p \in Text : p = StoredOf(u)
  BY <1>5 DEF Store!Document
<1>d. PICK d : d = IF run[t].text = None THEN Store!Unknown
                   ELSE [docs[u] EXCEPT !.disk = run[t].text]
  OBVIOUS
<1>6. /\ docs' = [docs EXCEPT ![u] = d]
      /\ run' = [run EXCEPT ![t].step = "count"]
  <2>1. CASE Store!RefreshUpdate(t)
    BY <1>5, <1>u, <1>d, <2>1 DEF Store!RefreshUpdate, Store!Commit, Store!Open
  <2>2. CASE Store!RefreshRemove(t)
    BY <1>5, <1>u, <1>d, <2>2 DEF Store!RefreshRemove, Store!Commit, Store!Open
  <2> QED BY <1>2, <2>1, <2>2 DEF NotifyingStep
<1>7. /\ d \in Store!Document /\ d.disk = run[t].text /\ d.buffer = None
      /\ Store!Stored(d) = run[t].text /\ ~Store!Open(d)
      /\ (~d.known => d = Store!Unknown) /\ (d.known => Store!Stored(d) # None)
  BY <1>5, <1>d, TextFacts DEF Store!Document, Store!Unknown, Store!Stored, Store!Open
<1>8. /\ docs' \in [Uris -> Store!Document] /\ docs'[u] = d
      /\ \A v \in Uris \ {u} : docs'[v] = docs[v]
  BY <1>1, <1>5, <1>6, <1>7 DEF Typed
<1>9. docs' # docs
  BY <1>5, <1>7, <1>8
<1>10. /\ cache' = [cache EXCEPT ![u] = NoSnapshot]
       /\ job' = [job EXCEPT ![t].before[u] = p]
  BY <1>2, <1>9, <1>u, <1>p DEF NotifyingStep, Invalidate, StoredOf
<1>11. NoSnapshot \in Snapshots
  BY TextFacts DEF NoSnapshot, Snapshots
<1>12. /\ cache' \in [Uris -> Snapshots] /\ cache'[u] = NoSnapshot
       /\ \A v \in Uris \ {u} : cache'[v] = cache[v]
  BY <1>1, <1>5, <1>10, <1>11 DEF Typed
<1>13. Typed'
  BY <1>1, <1>3, <1>6, <1>8, <1>10, <1>12 DEF Typed
<1>14. HistoryOK' /\ \A v : Told(log, v)' = Told(log, v)
  BY <1>1, HistoryKept
<1>15. FilesOK'
  BY <1>1, <1>3 DEF FilesOK
<1>16. /\ ~Unread(u)'
       /\ \A v \in Uris \ {u} : Unread(v)' <=> Unread(v)
  BY <1>3, <1>5, <1>7, <1>8 DEF Unread
<1>17. AllRead'
  BY <1>1, <1>5, <1>16, TextFacts DEF AllRead, DocsOK
<1>18. DocsOK'
  <2>1. ASSUME NEW v \in Uris PROVE /\ ~docs'[v].known => docs'[v] = Store!Unknown
                                    /\ Store!Stored(docs'[v]) = None => cache'[v].text = None
    <3>1. CASE v = u
      BY <1>7, <1>8, <1>12, <3>1 DEF NoSnapshot
    <3>2. CASE v # u
      BY <1>1, <1>8, <1>12, <3>2 DEF DocsOK, StoredOf
    <3> QED BY <3>1, <3>2
  <2>2. \A v, w \in FileUris : Unread(v)' /\ Unread(w)' => v = w
    BY <1>17, TextFacts DEF AllRead
  <2> QED BY <2>1, <2>2 DEF DocsOK, StoredOf
<1>19. AllLoaded' /\ OthersSettled(u)'
  BY <1>4, <1>7, <1>8, <1>14
     DEF RefreshCommits, Refreshes, AllLoaded, AllSettled, OthersSettled, Settled, StoredOf
<1>20. News(u, p)'
  <2>1. Told(log, u) = p
    BY <1>4, <1>5, <1>p DEF RefreshCommits, AllSettled, Settled
  <2> QED BY <1>12, <1>14, <1>19, <2>1 DEF News, Relative, NoSnapshot
<1>b. PICK before \in [Uris -> Text] : job[t] = [op |-> "refreshed", before |-> before]
  BY <1>4 DEF RefreshCommits, Refreshes
<1>21. /\ job'[t] = [op |-> "refreshed", before |-> [before EXCEPT ![u] = p]]
       /\ [before EXCEPT ![u] = p] \in [Uris -> Text] /\ [before EXCEPT ![u] = p][u] = p
  <2>1. job'[t] = [job[t] EXCEPT !.before[u] = p]
    BY <1>1, <1>10
  <2> QED BY <1>5, <1>b, <2>1
<1>c. PICK b2 \in [Uris -> Text] : b2 = [before EXCEPT ![u] = p]
  BY <1>21
<1>22. job'[t] = [op |-> "refreshed", before |-> b2] /\ b2[u] = p
  BY <1>21, <1>c
<1>r. PICK r : r = run[t]
  OBVIOUS
<1>t. PICK todo : todo = r.todo
  OBVIOUS
<1>n. PICK now : now = r.now
  OBVIOUS
<1>x. PICK text : text = r.text
  OBVIOUS
<1>q. PICK quiet : quiet = r.quiet
  OBVIOUS
<1>23. r = [op |-> "refresh", todo |-> todo, now |-> now, text |-> text, step |-> "commit",
            quiet |-> quiet]
  BY <1>4, <1>r, <1>t, <1>n, <1>x, <1>q DEF RefreshCommits, Refreshes
<1>24. run'[t] = [op |-> "refresh", todo |-> todo, now |-> now, text |-> text,
                  step |-> "count", quiet |-> quiet]
  <2>1. run'[t] = [r EXCEPT !.step = "count"]
    BY <1>1, <1>6, <1>r
  <2> QED BY <1>23, <2>1
<1>25. \A c \in todo : IsCandidate(c)'
  <2>1. \A c \in todo : IsCandidate(c) /\ c.uri # u
    BY <1>4, <1>u, <1>r, <1>t DEF RefreshCommits, Refreshes
  <2>2. \A c \in todo : c.uri \in Uris \ {u}
    BY <2>1, TextFacts DEF IsCandidate
  <2> QED BY <1>8, <2>1, <2>2 DEF IsCandidate
<1>26. Refreshes(t)'
  BY <1>1, <1>4, <1>19, <1>22, <1>24, <1>25 DEF Refreshes, RefreshCommits
<1>27. now.uri = u /\ text = StoredOf(u)'
  BY <1>u, <1>r, <1>n, <1>x, <1>7, <1>8 DEF StoredOf
<1>28. News(run[t].now.uri, job[t].before[run[t].now.uri])'
  BY <1>20, <1>22, <1>24, <1>27 DEF News, Relative
<1>29. RefreshCounts(t)'
  BY <1>3, <1>4, <1>5, <1>17, <1>24, <1>26, <1>27, <1>28 DEF RefreshCounts, RefreshCommits
<1> QED BY <1>1, <1>13, <1>14, <1>15, <1>18, <1>29 DEF WorkspaceInv, Somewhere

(* Every step inside the store.                                             *)
LEMMA StoreStepKeeps ==
    ASSUME StoreAssumption, NEW CONSTANT t, Orderly(t), WorkspaceInv(t), StoreStep(t)
    PROVE  WorkspaceInv(t)'
<1>1. up /\ UNCHANGED <<job, obs, cache, log, saved, base, up>>
  BY DEF StoreStep
<1>2. ~Store!RefreshBaseline(t)
  <2> SUFFICES ASSUME Store!RefreshBaseline(t) PROVE FALSE
    OBVIOUS
  <2>1. RefreshCommits(t) /\ Typed /\ run[t].now.previous = None
    BY <1>1, WhereRunning DEF WorkspaceInv, Store!RefreshBaseline
  <2> QED BY <2>1, CommitFacts
<1> QED
  BY <1>1, <1>2, AnswerStep, LoadNewCommitStep, CountStep, RefreshReadStep, RefreshCountStep,
     RefreshEndStep DEF StoreStep

(* A refresh begins with the files the store does not know.                 *)
LEMMA RefreshWorkspaceStep ==
    ASSUME StoreAssumption, NEW CONSTANT t, Orderly(t), WorkspaceInv(t), RefreshWorkspace(t)
    PROVE  WorkspaceInv(t)'
<1> USE DEF Uris, Text
<1>1. /\ up /\ Resting(t) /\ t \in Threads
      /\ UNCHANGED <<file, generation, run, result, obs, cache, log, saved, base, up>>
  BY DEF RefreshWorkspace, Store!Discover, Orderly
<1>2. /\ Typed /\ FilesOK /\ DocsOK /\ HistoryOK /\ AtEase(t)
      /\ docs \in [Uris -> Store!Document] /\ DOMAIN job = Threads
  BY <1>1, AtEaseWhenResting DEF WorkspaceInv, Typed
<1>n. PICK new : new = {u \in Uris : file[u] # None /\ ~docs[u].known}
  OBVIOUS
<1>3. /\ docs' = [u \in Uris |-> IF u \in new THEN [Store!Unknown EXCEPT !.known = TRUE]
                                 ELSE docs[u]]
      /\ job' = [job EXCEPT ![t] = [op |-> "discovered", new |-> new]]
  BY <1>n DEF RefreshWorkspace, Store!Discover, Store!NewFiles
<1>4. job'[t] = [op |-> "discovered", new |-> new]
  BY <1>1, <1>2, <1>3
<1>d. PICK d : d = [Store!Unknown EXCEPT !.known = TRUE]
  OBVIOUS
<1>5. d \in Store!Document /\ d.known /\ Store!Stored(d) = None /\ d.disk = None /\ ~Store!Open(d)
  BY <1>d, TextFacts DEF Store!Unknown, Store!Document, Store!Stored, Store!Open
<1>6. /\ docs' \in [Uris -> Store!Document]
      /\ \A u \in new : docs'[u] = d /\ u \in Uris
      /\ \A u \in Uris \ new : docs'[u] = docs[u]
  <2>2. docs' = [u \in Uris |-> IF u \in new THEN d ELSE docs[u]]
    BY <1>3, <1>d, Zenon
  <2> QED BY <1>2, <1>5, <1>n, <2>2
<1>7. \A u \in new : /\ docs[u] = Store!Unknown /\ Store!Stored(docs[u]) = None
                     /\ docs[u].disk = None /\ ~Store!Open(docs[u])
  BY <1>2, <1>n DEF DocsOK, Store!Unknown, Store!Stored, Store!Open
<1>8. \A u \in Uris : Store!Stored(docs'[u]) = Store!Stored(docs[u])
  BY <1>5, <1>6, <1>7
<1>9. Typed'
  BY <1>1, <1>2, <1>3, <1>6 DEF Typed
<1>10. HistoryOK' /\ \A v : Told(log, v)' = Told(log, v)
  BY <1>1, <1>2, HistoryKept
<1>11. FilesOK'
  BY <1>1, <1>2 DEF FilesOK
<1>12. DocsOK'
  <2>1. ASSUME NEW v \in Uris, ~docs'[v].known PROVE docs'[v] = Store!Unknown
    BY <1>2, <1>5, <1>6, <2>1 DEF DocsOK
  <2>2. \A v \in Uris : Store!Stored(docs'[v]) = None => cache'[v].text = None
    BY <1>1, <1>2, <1>8 DEF DocsOK, StoredOf
  <2>3. ASSUME NEW v \in Uris, Unread(v)' PROVE Unread(v)
    BY <1>1, <1>5, <1>6, <1>7, <2>3 DEF Unread
  <2>4. \A v, w \in FileUris : Unread(v)' /\ Unread(w)' => v = w
    BY <1>2, <2>3, TextFacts DEF DocsOK
  <2> QED BY <2>1, <2>2, <2>4 DEF DocsOK, StoredOf
<1>13. AllSettled'
  BY <1>2, <1>8, <1>10 DEF AtEase, AllSettled, Settled, StoredOf
<1>14. new \subseteq FileUris /\ \A u \in new : file[u] # None
  BY <1>2, <1>n DEF FilesOK
<1>15. \A u \in Uris : docs'[u].known /\ Store!Stored(docs'[u]) = None <=> u \in new
  <2>1. ASSUME NEW u \in new PROVE docs'[u].known /\ Store!Stored(docs'[u]) = None
    BY <1>5, <1>6
  <2>2. ASSUME NEW u \in Uris \ new, docs'[u].known PROVE Store!Stored(docs'[u]) # None
    BY <1>2, <1>6, <2>2 DEF AtEase, AllLoaded, StoredOf
  <2> QED BY <2>1, <2>2
<1>16. Discovers(t)'
  BY <1>1, <1>2, <1>4, <1>13, <1>14, <1>15 DEF Discovers, AtEase, Calm, StoredOf
<1> QED BY <1>1, <1>9, <1>10, <1>11, <1>12, <1>16 DEF WorkspaceInv, Somewhere

(* The next of them is read, or found to be loaded.                         *)
LEMMA LoadNewStep ==
    ASSUME StoreAssumption, NEW CONSTANT t, Orderly(t), WorkspaceInv(t), LoadNew(t)
    PROVE  WorkspaceInv(t)'
<1> USE DEF Uris, Text
<1>1. /\ up /\ t \in Threads /\ Observed(t) /\ job[t].op = "discovered"
      /\ UNCHANGED <<obs, cache, log, saved, base, up>>
  BY DEF LoadNew, Orderly
<1>2. /\ Typed /\ FilesOK /\ DocsOK /\ HistoryOK /\ Discovers(t)
      /\ DOMAIN job = Threads /\ DOMAIN run = Threads
  BY <1>1, WhereObserved DEF WorkspaceInv, Typed
<1>3. /\ job[t].new \subseteq FileUris /\ \A u \in job[t].new : file[u] # None
      /\ \A u \in Uris : docs[u].known /\ Store!Stored(docs[u]) = None <=> u \in job[t].new
  BY <1>2 DEF Discovers, StoredOf
<1>4. PICK u \in job[t].new :
         IF Store!Stored(docs[u]) # None
         THEN /\ job' = [job EXCEPT ![t].new = @ \ {u}]
              /\ UNCHANGED storeVars
         ELSE IF file[u] = None
         THEN job' = [job EXCEPT ![t] = NoJob] /\ UNCHANGED storeVars
         ELSE /\ Store!LoadNewRead(t, u)
              /\ job' = [job EXCEPT ![t].new = @ \ {u}]
  BY DEF LoadNew
<1>5. u \in FileUris /\ u \in Uris /\ file[u] # None /\ docs[u].known /\ Store!Stored(docs[u]) = None
  BY <1>3, <1>4, TextFacts
<1>6. /\ run' = [run EXCEPT ![t] = [op |-> "load", uri |-> u, text |-> file[u]]]
      /\ job' = [job EXCEPT ![t].new = @ \ {u}]
      /\ UNCHANGED <<file, docs, generation, result>>
  BY <1>4, <1>5 DEF Store!LoadNewRead
<1>7. \A v \in job[t].new : v = u
  <2>1. ASSUME NEW v \in FileUris, docs[v].known, Store!Stored(docs[v]) = None, file[v] # None
        PROVE  Unread(v)
    BY <2>1 DEF Unread, Store!Stored, Store!Open
  <2> QED BY <1>2, <1>3, <1>5, <2>1, TextFacts DEF DocsOK
<1>n. PICK new : new = job[t].new
  OBVIOUS
<1>8. job'[t] = NothingNew
  <2>1. job[t] = [op |-> "discovered", new |-> new]
    BY <1>2, <1>n DEF Discovers
  <2>2. PICK rest : rest = new \ {u}
    OBVIOUS
  <2>3. job'[t] = [job[t] EXCEPT !.new = rest]
    BY <1>1, <1>2, <1>6, <1>n, <2>2
  <2>4. job'[t] = [op |-> "discovered", new |-> rest]
    BY <2>1, <2>3
  <2>5. rest = {}
    BY <1>7, <1>n, <2>2
  <2> QED BY <2>4, <2>5 DEF NothingNew
<1>9. run'[t] = [op |-> "load", uri |-> u, text |-> file[u]]
  BY <1>1, <1>2, <1>6
<1>10. Typed'
  BY <1>1, <1>2, <1>6 DEF Typed
<1>11. HistoryOK' /\ FilesOK' /\ DocsOK' /\ AllSettled'
  BY <1>1, <1>2, <1>6, DocsKept DEF Discovers
<1>12. \A v \in Uris \ {u} : docs[v].known => Store!Stored(docs[v]) # None
  BY <1>3, <1>7
<1>13. LoadsNew(t)'
  BY <1>1, <1>2, <1>5, <1>6, <1>8, <1>9, <1>11, <1>12 DEF LoadsNew, Discovers, Calm, StoredOf
<1> QED BY <1>1, <1>10, <1>11, <1>13 DEF WorkspaceInv, Somewhere

(* Then it takes a copy of what the documents had read.                     *)
LEMMA RefreshDiskStep ==
    ASSUME StoreAssumption, NEW CONSTANT t, Orderly(t), WorkspaceInv(t), RefreshDisk(t)
    PROVE  WorkspaceInv(t)'
<1> USE DEF Uris, Text
<1>1. /\ up /\ t \in Threads /\ Observed(t) /\ job[t].op = "discovered" /\ job[t].new = {}
      /\ UNCHANGED <<file, docs, generation, result, obs, cache, log, saved, base, up>>
  BY DEF RefreshDisk, Store!RefreshStart, Orderly
<1>2. /\ Typed /\ FilesOK /\ DocsOK /\ HistoryOK /\ Discovers(t)
      /\ DOMAIN job = Threads /\ DOMAIN run = Threads /\ docs \in [Uris -> Store!Document]
  BY <1>1, WhereObserved DEF WorkspaceInv, Typed
<1>3. /\ run' = [run EXCEPT ![t] =
                   [op |-> "refresh", todo |-> Store!Candidates, now |-> None, text |-> None,
                    step |-> "read", quiet |-> TRUE]]
      /\ job' = [job EXCEPT ![t] = [op |-> "refreshed", before |-> [u \in Uris |-> None]]]
  BY DEF RefreshDisk, Store!RefreshStart
<1>t. PICK todo : todo = Store!Candidates
  OBVIOUS
<1>b. PICK before \in [Uris -> Text] : before = [u \in Uris |-> None]
  BY TextFacts
<1>4. /\ run'[t] = [op |-> "refresh", todo |-> todo, now |-> None, text |-> None,
                    step |-> "read", quiet |-> TRUE]
      /\ job'[t] = [op |-> "refreshed", before |-> before]
  BY <1>1, <1>2, <1>3, <1>t, <1>b
<1>5. \A c \in todo : IsCandidate(c)
  <2>1. ASSUME NEW c \in Store!Candidates PROVE IsCandidate(c)
    <3>1. PICK u \in FileUris : /\ c = [uri |-> u, previous |-> docs[u].disk]
                                /\ docs[u].known /\ ~Store!Open(docs[u])
      BY DEF Store!Candidates
    <3>2. u \in Uris /\ docs[u].disk \in Text
      BY <1>2, TextFacts DEF Store!Document
    <3> QED BY <3>1, <3>2 DEF IsCandidate, Store!Candidate
  <2> QED BY <1>t, <2>1
<1>6. \A c \in todo : IsCandidate(c)'
  BY <1>1, <1>5 DEF IsCandidate
<1>7. AllLoaded
  BY <1>1, <1>2 DEF Discovers, AllLoaded
<1>8. Typed'
  BY <1>1, <1>2, <1>3 DEF Typed
<1>9. HistoryOK' /\ FilesOK' /\ DocsOK' /\ AllSettled' /\ AllLoaded'
  BY <1>1, <1>2, <1>7, DocsKept DEF Discovers
<1>10. RefreshReads(t)'
  BY <1>1, <1>2, <1>4, <1>6, <1>9 DEF RefreshReads, Refreshes, Discovers, Calm
<1> QED BY <1>1, <1>8, <1>9, <1>10 DEF WorkspaceInv, Somewhere

(* A call returns only when its one change has been told.                   *)
LEMMA FinishStep ==
    ASSUME StoreAssumption, NEW CONSTANT t, Orderly(t), WorkspaceInv(t), Finish(t)
    PROVE  WorkspaceInv(t)'
<1>1. /\ up /\ t \in Threads /\ Observed(t) /\ job[t].op \in {"observe", "refreshed"}
      /\ job' = [job EXCEPT ![t] = NoJob]
      /\ UNCHANGED <<file, docs, generation, run, result, obs, cache, log, saved, base, up>>
  BY DEF Finish, storeVars, Orderly
<1>2. /\ Typed /\ FilesOK /\ DocsOK /\ HistoryOK /\ HasReturned(t) /\ DOMAIN job = Threads
  BY <1>1, WhereObserved DEF WorkspaceInv, Typed
<1>3. Typed'
  BY <1>1, <1>2 DEF Typed, Store!Uris, Uris
<1>4. HistoryOK' /\ FilesOK' /\ DocsOK' /\ AllSettled' /\ AllLoaded'
  BY <1>1, <1>2, DocsKept DEF HasReturned
<1>5. AtEase(t)'
  BY <1>1, <1>2, <1>4 DEF AtEase, HasReturned, Calm
<1> QED BY <1>1, <1>3, <1>4, <1>5 DEF WorkspaceInv, Somewhere

(* Nothing follows the only change.                                         *)
LEMMA TailOfOne ==
    ASSUME NEW c
    PROVE  Len(<<c>>) = 1 /\ Tail(<<c>>) = << >>
<1>1. <<c>> \in Seq({c}) /\ <<c>> # << >> /\ Len(<<c>>) = 1
  OBVIOUS
<1>2. Tail(<<c>>) \in Seq({c}) /\ Len(Tail(<<c>>)) = 0
  BY <1>1, HeadTailProperties
<1> QED BY <1>1, <1>2, EmptySeq

(* The change is analysed at its own generation, so it will pass the        *)
(* guard.                                                                   *)
LEMMA ObserveAnalyseStep ==
    ASSUME StoreAssumption, NEW CONSTANT t, Orderly(t), WorkspaceInv(t), ObserveAnalyse(t)
    PROVE  WorkspaceInv(t)'
<1> USE DEF Uris, Text
<1>1. /\ up /\ t \in Threads /\ run[t] = Store!Idle /\ result[t] # << >> /\ obs[t] = NoObs
      /\ UNCHANGED <<file, generation, run, log, saved, base, up>>
  BY DEF ObserveAnalyse, Orderly
<1>2. /\ Typed /\ FilesOK /\ DocsOK /\ HistoryOK /\ (Saves(t) \/ Finds(t))
      /\ DOMAIN job = Threads /\ DOMAIN result = Threads /\ DOMAIN obs = Threads
  BY <1>1, WhereObserving DEF WorkspaceInv, Typed
<1>3. CASE Saves(t)
  <2>1. PICK u \in Uris :
           result[t] = <<[uri |-> u, generation |-> generation, removed |-> FALSE]>>
    BY <1>1, <1>3 DEF Saves
  <2>2. Head(result[t]).generation = generation /\ ~Head(result[t]).removed
    BY <2>1
  <2>3. job[t].op = "observe" /\ job[t].replaced = generation
    BY <1>3 DEF Saves
  <2>4. /\ result' = [result EXCEPT ![t] = << >>]
        /\ job' = job \/ job' = [job EXCEPT ![t] = NoJob]
        /\ UNCHANGED <<docs, obs, cache>>
    BY <2>2, <2>3 DEF ObserveAnalyse
  <2>5. /\ result'[t] = << >> /\ (job'[t] = job[t] \/ job'[t] = NoJob)
    BY <1>1, <1>2, <2>4
  <2>6. Typed'
    BY <1>1, <1>2, <2>4 DEF Typed
  <2>7. HistoryOK' /\ FilesOK' /\ DocsOK' /\ AllSettled' /\ AllLoaded'
    BY <1>1, <1>2, <1>3, <2>4, DocsKept DEF Saves
  <2>8. HasReturned(t)' \/ AtEase(t)'
    BY <1>1, <2>3, <2>4, <2>5, <2>7 DEF HasReturned, AtEase, Calm
  <2> QED BY <1>1, <2>6, <2>7, <2>8 DEF WorkspaceInv, Somewhere
<1>4. CASE Finds(t)
  <2>1. PICK u \in Uris : FoundChange(t, u, Before(t, u))
    BY <1>4 DEF Finds
  <2>p. PICK p : p = Before(t, u)
    OBVIOUS
  <2>2. /\ result[t] = <<[uri |-> u, generation |-> generation, removed |-> StoredOf(u) = None]>>
        /\ p \in Text /\ OthersSettled(u) /\ cache[u].text = None /\ Relative(u, p)
    BY <2>1, <2>p DEF FoundChange, News
  <2>r. PICK c : c = [uri |-> u, generation |-> generation, removed |-> StoredOf(u) = None]
    OBVIOUS
  <2>l. result[t] = <<c>>
    BY <2>2, <2>r
  <2>c. c = Head(result[t])
    BY <2>l
  <2>3. c.uri = u /\ c.generation = generation /\ (c.removed <=> StoredOf(u) = None)
    <3>1. c.uri = u /\ c.generation = generation
      BY <2>r
    <3>2. c.removed <=> StoredOf(u) = None
      BY <2>r
    <3> QED BY <3>1, <3>2
  <2>x. PICK x : x = StoredOf(u)
    OBVIOUS
  <2>4. /\ x \in Text
        /\ x # None => Store!Loaded(u) = docs[u] /\ Store!Stored(Store!Loaded(u)) = x
    BY <1>2, <2>x, LoadedFacts DEF Typed, StoredOf
  <2>5. ~(job[t].op = "observe" /\ c.generation = job[t].replaced)
    BY <1>4, <2>3 DEF Finds
  <2>e. PICK e : e = [uri |-> u, text |-> x, generation |-> generation, before |-> <<p>>]
    OBVIOUS
  <2>6. /\ obs' = [obs EXCEPT ![t] = [step |-> "analysed", at |-> generation, event |-> e]]
        /\ UNCHANGED <<result, job>>
        /\ (UNCHANGED <<docs, cache>>) \/ (x # None /\ Analyse(u))
    <3>1. CASE x = None
      <4>1. c.removed
        BY <2>3, <2>x, <3>1
      <4>2. /\ obs' = [obs EXCEPT ![t] =
                         [step |-> "analysed", at |-> c.generation,
                          event |-> [uri |-> c.uri, text |-> None,
                                     generation |-> c.generation,
                                     before |-> <<Before(t, c.uri)>>]]]
            /\ UNCHANGED <<docs, result, job, cache>>
        BY <2>c, <2>5, <4>1 DEF ObserveAnalyse
      <4> QED BY <2>3, <2>e, <2>p, <3>1, <4>2
    <3>2. CASE x # None
      <4>1. ~c.removed /\ Store!Stored(Store!Loaded(c.uri)) = x
        BY <2>3, <2>4, <2>x, <3>2
      <4>2. /\ obs' = [obs EXCEPT ![t] =
                         [step |-> "analysed", at |-> Snapshot(c.uri, x).generation,
                          event |-> [uri |-> c.uri, text |-> x,
                                     generation |-> c.generation,
                                     before |-> <<Before(t, c.uri)>>]]]
            /\ UNCHANGED <<result, job>> /\ Analyse(c.uri)
        BY <2>c, <2>5, <3>2, <4>1 DEF ObserveAnalyse
      <4>3. Snapshot(u, x).generation = generation
        BY <2>2, <3>2 DEF Snapshot
      <4> QED BY <2>3, <2>e, <2>p, <3>2, <4>2, <4>3
    <3> QED BY <3>1, <3>2
  <2>7. /\ docs' = docs /\ cache' \in [Uris -> Snapshots] /\ DocsOK'
    <3>1. CASE UNCHANGED <<docs, cache>>
      BY <1>1, <1>2, <3>1, DocsKept DEF Typed
    <3>2. CASE x # None /\ Analyse(u)
      <4>1. /\ docs' = [docs EXCEPT ![u] = Store!Loaded(u)]
            /\ cache' \in [Uris -> Snapshots] /\ DocsOK'
        BY <1>1, <1>2, <3>2, AnalyseStep
      <4> QED BY <1>2, <2>4, <3>2, <4>1 DEF Typed
    <3> QED BY <2>6, <3>1, <3>2
  <2>8. Typed'
    BY <1>1, <1>2, <2>6, <2>7 DEF Typed
  <2>9. HistoryOK' /\ \A v : Told(log, v)' = Told(log, v)
    BY <1>1, <1>2, HistoryKept
  <2>10. FilesOK'
    BY <1>1, <1>2 DEF FilesOK
  <2>11. OthersSettled(u)' /\ Relative(u, p)' /\ AllLoaded' /\ x = StoredOf(u)'
    BY <1>4, <2>2, <2>7, <2>9, <2>x DEF OthersSettled, Settled, Relative, Finds, AllLoaded, StoredOf
  <2>12. obs'[t] = [step |-> "analysed", at |-> generation, event |-> e]
    BY <1>1, <1>2, <2>6
  <2>13. Len(result'[t]) = 1 /\ Tail(result'[t]) = << >>
    BY <2>l, <2>6, TailOfOne
  <2>14. Resolved(t)'
    BY <1>4, <2>6 DEF Finds, Resolved
  <2>15. Announces(t)'
    BY <1>1, <2>2, <2>11, <2>12, <2>13, <2>14, <2>e DEF Announces
  <2> QED BY <1>1, <2>7, <2>8, <2>9, <2>10, <2>15 DEF WorkspaceInv, Somewhere
<1> QED BY <1>2, <1>3, <1>4

(* The guard lets it pass: nobody has moved the generation.                 *)
LEMMA ObserveGuardStep ==
    ASSUME StoreAssumption, NEW CONSTANT t, Orderly(t), WorkspaceInv(t), ObserveGuard(t)
    PROVE  WorkspaceInv(t)'
<1> USE DEF Uris, Text
<1>1. /\ up /\ t \in Threads /\ obs[t].step = "analysed"
      /\ UNCHANGED <<file, docs, generation, run, job, cache, log, saved, base, up>>
  BY DEF ObserveGuard, Orderly
<1>2. /\ Typed /\ FilesOK /\ DocsOK /\ HistoryOK /\ Announces(t) /\ DOMAIN obs = Threads
  BY <1>1, WhereObserving DEF WorkspaceInv, Typed
<1>3. PICK u \in Uris, p \in Text :
         /\ obs[t].event = [uri |-> u, text |-> StoredOf(u), generation |-> generation,
                            before |-> <<p>>]
         /\ OthersSettled(u) /\ Relative(u, p)
  BY <1>2 DEF Announces
<1>e. PICK e : e = obs[t].event
  OBVIOUS
<1>4. obs[t] = [step |-> "analysed", at |-> generation, event |-> e]
  BY <1>1, <1>2, <1>e DEF Announces
<1>5. Current(obs[t])
  BY <1>3, <1>4, <1>e DEF Current
<1>6. obs' = [obs EXCEPT ![t].step = "checked"] /\ UNCHANGED result
  BY <1>5 DEF ObserveGuard
<1>7. obs'[t] = [step |-> "checked", at |-> generation, event |-> e]
  <2>1. obs'[t] = [obs[t] EXCEPT !.step = "checked"]
    BY <1>1, <1>2, <1>6
  <2> QED BY <1>4, <2>1
<1>8. Typed'
  BY <1>1, <1>2, <1>6 DEF Typed
<1>9. HistoryOK' /\ FilesOK' /\ DocsOK' /\ AllLoaded'
  BY <1>1, <1>2, DocsKept DEF Announces
<1>10. /\ \A v : Told(log, v)' = Told(log, v)
       /\ StoredOf(u)' = StoredOf(u)
  BY <1>1, <1>2, HistoryKept DEF StoredOf
<1>11. OthersSettled(u)' /\ Relative(u, p)'
  BY <1>1, <1>3, <1>10 DEF OthersSettled, Settled, Relative, StoredOf
<1>12. e = [uri |-> u, text |-> StoredOf(u)', generation |-> generation', before |-> <<p>>]
  BY <1>1, <1>3, <1>10, <1>e
<1>13. Announces(t)'
  BY <1>1, <1>2, <1>6, <1>7, <1>9, <1>11, <1>12 DEF Announces, Resolved
<1> QED BY <1>1, <1>8, <1>9, <1>13 DEF WorkspaceInv, Somewhere

(* The event is pushed: the document is settled, and its deltas fold.       *)
LEMMA ObservePushStep ==
    ASSUME StoreAssumption, NEW CONSTANT t, Orderly(t), WorkspaceInv(t), ObservePush(t)
    PROVE  WorkspaceInv(t)'
<1> USE DEF Uris, Text
<1>1. /\ up /\ t \in Threads /\ obs[t].step = "checked"
      /\ log' = Append(log, obs[t].event)
      /\ obs' = [obs EXCEPT ![t].step = "pushed"]
      /\ UNCHANGED <<file, docs, generation, run, result, job, cache, saved, base, up>>
  BY DEF ObservePush, storeVars, Orderly
<1>2. /\ Typed /\ FilesOK /\ DocsOK /\ HistoryOK /\ Announces(t) /\ DOMAIN obs = Threads
      /\ log \in Seq(Events)
  BY <1>1, WhereObserving DEF WorkspaceInv, Typed
<1>3. PICK u \in Uris, p \in Text :
         /\ obs[t].event = [uri |-> u, text |-> StoredOf(u), generation |-> generation,
                            before |-> <<p>>]
         /\ OthersSettled(u) /\ Relative(u, p)
  BY <1>2 DEF Announces
<1>x. PICK x : x = StoredOf(u)
  OBVIOUS
<1>e. PICK e : e = obs[t].event
  OBVIOUS
<1>4. /\ e = [uri |-> u, text |-> x, generation |-> generation, before |-> <<p>>]
      /\ e.uri = u /\ e.text = x /\ e.before = <<p>> /\ x \in Text
  <2>1. e = [uri |-> u, text |-> x, generation |-> generation, before |-> <<p>>]
    BY <1>3, <1>x, <1>e
  <2>2. e.uri = u /\ e.text = x /\ e.before = <<p>>
    BY <2>1
  <2>3. x \in Text
    <3>1. Store!Stored(docs[u]) \in Text
      BY <1>2, LoadedFacts DEF Typed
    <3> QED BY <1>x, <3>1 DEF StoredOf
  <2> QED BY <2>1, <2>2, <2>3
<1>5. e \in Events
  <2>1. <<p>> \in {<< >>} \cup {<<y>> : y \in Text} /\ generation \in Nat
    BY <1>2 DEF Typed
  <2> QED BY <1>4, <2>1 DEF Events
<1>6. log' = Append(log, e)
  BY <1>1, <1>e
<1>7. log' \in Seq(Events)
  BY <1>2, <1>5, <1>6
<1>8. \A v : Told(log, v)' = IF v = u THEN x ELSE Told(log, v)
  BY <1>1, <1>2, <1>4, <1>5, <1>6, ToldAppend, ToldNext
<1>9. HistoryOK'
  <2>1. Folding(log')
    <3>1. Told(log, u) # None => e.before[1] = Told(log, u)
      BY <1>3, <1>4 DEF Relative
    <3> QED BY <1>2, <1>4, <1>5, <1>6, <3>1, FoldingAppend DEF HistoryOK
  <2>2. Folding(log)' /\ Folding(saved.log)'
    BY <1>1, <1>2, <2>1, FoldingNext DEF HistoryOK
  <2>3. CheckpointTellsItsDocuments'
    BY <1>1, <1>2, ToldNext DEF HistoryOK, CheckpointTellsItsDocuments
  <2> QED BY <2>2, <2>3 DEF HistoryOK
<1>10. FilesOK' /\ DocsOK'
  BY <1>1, <1>2 DEF FilesOK, DocsOK, StoredOf, Unread
<1>11. AllSettled' /\ AllLoaded'
  BY <1>1, <1>2, <1>3, <1>8, <1>x
     DEF AllSettled, OthersSettled, Settled, AllLoaded, StoredOf, Announces
<1>12. Typed'
  BY <1>1, <1>2, <1>7 DEF Typed
<1>13. obs'[t].step = "pushed"
  <2>1. obs'[t] = [obs[t] EXCEPT !.step = "pushed"]
    BY <1>1, <1>2
  <2>2. obs[t] = [step |-> obs[t].step, at |-> generation, event |-> obs[t].event]
    BY <1>2 DEF Announces
  <2> QED BY <2>1, <2>2
<1>14. Records(t)'
  BY <1>1, <1>2, <1>11, <1>13 DEF Records, Announces, Resolved
<1> QED BY <1>1, <1>9, <1>10, <1>12, <1>14 DEF WorkspaceInv, Somewhere

(* The identities to be saved are those of settled documents,               *)
LEMMA PersistDocumentsStep ==
    ASSUME StoreAssumption, NEW CONSTANT t, Orderly(t), WorkspaceInv(t), PersistDocuments(t)
    PROVE  WorkspaceInv(t)'
<1> USE DEF Uris, Text
<1>1. /\ up /\ t \in Threads /\ obs[t].step = "pushed"
      /\ docs' = [u \in Uris |-> IF docs[u].known THEN Store!Loaded(u) ELSE docs[u]]
      /\ obs' = [obs EXCEPT ![t] = [step |-> "identified", documents |-> ContentOf(docs')]]
      /\ UNCHANGED <<file, generation, run, result, job, cache, log, saved, base, up>>
  BY DEF PersistDocuments, Orderly
<1>2. /\ Typed /\ FilesOK /\ DocsOK /\ HistoryOK /\ Records(t) /\ DOMAIN obs = Threads
      /\ docs \in [Uris -> Store!Document]
  BY <1>1, WhereObserving DEF WorkspaceInv, Typed
<1>3. docs' = docs
  <2>1. ASSUME NEW u \in Uris, docs[u].known PROVE Store!Loaded(u) = docs[u]
    BY <1>2, <2>1, LoadedFacts DEF Records, AllLoaded, StoredOf, Typed
  <2> QED BY <1>1, <1>2, <2>1
<1>4. Typed'
  BY <1>1, <1>2, <1>3 DEF Typed
<1>5. HistoryOK' /\ FilesOK' /\ DocsOK' /\ AllSettled' /\ AllLoaded'
  BY <1>1, <1>2, <1>3, DocsKept DEF Records
<1>6. obs'[t] = [step |-> "identified", documents |-> ContentOf(docs')]
  BY <1>1, <1>2
<1>7. Records(t)'
  BY <1>1, <1>2, <1>5, <1>6 DEF Records, Resolved
<1> QED BY <1>1, <1>4, <1>5, <1>7 DEF WorkspaceInv, Somewhere

(* and are saved with the history that told them.                           *)
LEMMA PersistHistoryStep ==
    ASSUME StoreAssumption, NEW CONSTANT t, Orderly(t), WorkspaceInv(t), PersistHistory(t)
    PROVE  WorkspaceInv(t)'
<1> USE DEF Uris, Text
<1>1. /\ up /\ t \in Threads /\ obs[t].step = "identified"
      /\ saved' = [documents |-> obs[t].documents, log |-> log, generation |-> generation]
      /\ obs' = [obs EXCEPT ![t] = NoObs]
      /\ result' = [result EXCEPT ![t] = Tail(result[t])]
      /\ UNCHANGED <<file, docs, generation, run, job, cache, log, base, up>>
  BY DEF PersistHistory, ObserveDone, Orderly
<1>2. /\ Typed /\ FilesOK /\ DocsOK /\ HistoryOK /\ Records(t)
      /\ DOMAIN obs = Threads /\ DOMAIN result = Threads
      /\ docs \in [Uris -> Store!Document] /\ log \in Seq(Events) /\ generation \in Nat
  BY <1>1, WhereObserving DEF WorkspaceInv, Typed
<1>d. PICK content : content = ContentOf(docs)
  OBVIOUS
<1>3. /\ content \in [Uris -> Text]
      /\ \A u \in Uris : content[u] = StoredOf(u)
  <2>1. \A u \in Uris : Store!Stored(docs[u]) \in Text
    BY <1>2 DEF Store!Stored, Store!Open, Store!Document
  <2> QED BY <1>d, <2>1 DEF ContentOf, StoredOf
<1>4. saved' = [documents |-> content, log |-> log, generation |-> generation]
  BY <1>1, <1>2, <1>d DEF Records
<1>5. Typed'
  <2>1. saved' \in [documents : [Uris -> Text], log : Seq(Events), generation : Nat]
    BY <1>2, <1>3, <1>4
  <2> QED BY <1>1, <1>2, <2>1 DEF Typed
<1>6. saved'.log = log /\ saved'.documents = content
  BY <1>4
<1>7. \A v : Told(log, v)' = Told(log, v) /\ Told(saved.log, v)' = Told(log, v)
  BY <1>1, <1>6, ToldNext
<1>8. HistoryOK'
  <2>1. Folding(log)' /\ Folding(saved.log)'
    BY <1>1, <1>2, <1>6, FoldingNext DEF HistoryOK
  <2>2. CheckpointTellsItsDocuments'
    BY <1>2, <1>3, <1>6, <1>7
       DEF CheckpointTellsItsDocuments, Records, AllSettled, Settled
  <2> QED BY <2>1, <2>2 DEF HistoryOK
<1>9. FilesOK' /\ DocsOK'
  BY <1>1, <1>2 DEF FilesOK, DocsOK, StoredOf, Unread
<1>10. AllSettled' /\ AllLoaded'
  BY <1>1, <1>2, <1>7 DEF Records, AllSettled, Settled, AllLoaded, StoredOf
<1>11. obs'[t] = NoObs /\ result'[t] = << >>
  BY <1>1, <1>2 DEF Records
<1>12. CASE job[t].op \in {"observe", "refreshed"}
  <2>1. HasReturned(t)'
    BY <1>1, <1>2, <1>10, <1>11, <1>12 DEF HasReturned, Records, Calm
  <2> QED BY <1>1, <1>5, <1>8, <1>9, <2>1 DEF WorkspaceInv, Somewhere
<1>13. CASE job[t] = NothingNew
  <2>1. Discovers(t)'
    BY <1>1, <1>2, <1>10, <1>11, <1>13
       DEF Discovers, Records, Calm, NothingNew, AllLoaded, StoredOf
  <2> QED BY <1>1, <1>5, <1>8, <1>9, <2>1 DEF WorkspaceInv, Somewhere
<1> QED BY <1>2, <1>12, <1>13 DEF Records, Resolved

(* A crash leaves the history and the checkpoint.                           *)
LEMMA CrashStep ==
    ASSUME StoreAssumption, NEW CONSTANT t, Orderly(t), WorkspaceInv(t), Crash
    PROVE  WorkspaceInv(t)'
<1> USE DEF Uris, Text
<1>1. /\ ~up' /\ docs' = [u \in Uris |-> Store!Unknown]
      /\ run' = [s \in Threads |-> Store!Idle] /\ result' = [s \in Threads |-> << >>]
      /\ job' = [s \in Threads |-> NoJob] /\ obs' = [s \in Threads |-> NoObs]
      /\ cache' = [u \in Uris |-> NoSnapshot] /\ up' \in BOOLEAN
      /\ UNCHANGED <<file, generation, log, saved, base>>
  BY DEF Crash
<1>2. Typed /\ FilesOK /\ HistoryOK /\ t \in Threads
  BY DEF WorkspaceInv, Orderly
<1>3. Store!Unknown \in Store!Document /\ NoSnapshot \in Snapshots
  BY TextFacts DEF Store!Unknown, Store!Document, NoSnapshot, Snapshots
<1>4. docs' \in [Uris -> Store!Document] /\ cache' \in [Uris -> Snapshots]
  BY <1>1, <1>3
<1>5. Typed'
  BY <1>1, <1>2, <1>4 DEF Typed
<1>6. HistoryOK'
  BY <1>1, <1>2, HistoryKept
<1>7. FilesOK'
  BY <1>1, <1>2 DEF FilesOK
<1>8. IsDown(t)'
  BY <1>1, <1>2 DEF IsDown, Calm
<1> QED BY <1>1, <1>5, <1>6, <1>7, <1>8 DEF WorkspaceInv

(* A new host announces just the files that the checkpoint does not         *)
(* identify.                                                                *)
LEMMA RestartStep ==
    ASSUME StoreAssumption, NEW CONSTANT t, Orderly(t), WorkspaceInv(t), Restart
    PROVE  WorkspaceInv(t)'
<1> USE DEF Uris, Text
<1>n. PICK n : n = Cardinality(Differing)
  OBVIOUS
<1>g. PICK gen : gen = saved.generation + n
  OBVIOUS
<1>1. PICK order \in InOrder(Differing) : Resume(Reconciled(order, gen), gen)
  BY <1>n, <1>g DEF Restart
<1>v. PICK events : events = Reconciled(order, gen)
  OBVIOUS
<1>2. /\ ~up /\ up' = TRUE
      /\ docs' = LoadedDocs /\ generation' = gen
      /\ cache' = [u \in Uris |->
                     IF \E i \in DOMAIN events : events[i].uri = u
                     THEN [text |-> file[u], generation |-> gen] ELSE NoSnapshot]
      /\ log' = saved.log \o events
      /\ saved' = [documents |-> ContentOf(docs'), log |-> log', generation |-> gen]
      /\ UNCHANGED <<file, run, result, job, obs, base>>
      /\ \A u \in Uris : saved.documents[u] # None => file[u] # None
  BY <1>1, <1>v DEF Resume, Orderly
<1>3. /\ Typed /\ FilesOK /\ HistoryOK /\ IsDown(t)
      /\ file \in [Uris -> Text] /\ saved.documents \in [Uris -> Text]
      /\ saved.log \in Seq(Events) /\ saved.generation \in Nat
  BY <1>2 DEF WorkspaceInv, Typed
<1>4. /\ \A u \in Differing : u \in Uris /\ file[u] # None /\ file[u] # saved.documents[u]
      /\ \A u \in Uris \ Differing : file[u] = None \/ file[u] = saved.documents[u]
  BY DEF Differing
<1>5. n \in Nat /\ gen \in Nat
  <2>1. Differing \in SUBSET Uris
    BY DEF Differing
  <2>2. IsFiniteSet(Differing)
    BY <2>1, UrisFinite, FS_Subset
  <2>3. n \in Nat
    BY <1>n, <2>2, FS_CardinalityType
  <2> QED BY <1>3, <1>g, <2>3
<1>6. /\ order \in [1 .. n -> Differing]
      /\ \A u \in Differing : \E i \in DOMAIN order : order[i] = u
  BY <1>1, <1>n DEF InOrder
<1>7. /\ events = [i \in 1 .. n |-> [uri |-> order[i], text |-> file[order[i]],
                                     generation |-> gen, before |-> << >>]]
      /\ \A i \in 1 .. n : order[i] \in Differing
  BY <1>6, <1>v DEF Reconciled
<1>8. /\ events \in Seq(Events) /\ DOMAIN events = 1 .. n
      /\ \A i \in DOMAIN events : /\ events[i].uri \in Differing
                                  /\ events[i].text = file[events[i].uri]
                                  /\ events[i].before = << >>
  <2>1. \A i \in 1 .. n : events[i] = [uri |-> order[i], text |-> file[order[i]],
                                       generation |-> gen, before |-> << >>]
    BY <1>7
  <2>2. \A i \in 1 .. n : order[i] \in Uris /\ file[order[i]] \in Text
    BY <1>3, <1>4, <1>7
  <2>3. << >> \in {<< >>} \cup {<<x>> : x \in Text}
    OBVIOUS
  <2>4. ASSUME NEW i \in 1 .. n PROVE events[i] \in Events
    <3>1. PICK u \in Uris, x \in Text : u = order[i] /\ x = file[order[i]]
      BY <2>2
    <3>2. PICK b : b = << >>
      OBVIOUS
    <3>3. events[i] = [uri |-> u, text |-> x, generation |-> gen, before |-> b]
      BY <2>1, <3>1, <3>2
    <3>4. b \in {<< >>} \cup {<<y>> : y \in Text}
      BY <3>2
    <3> QED BY <1>5, <3>3, <3>4 DEF Events
  <2>5. events \in [1 .. n -> Events]
    BY <1>7, <2>4
  <2>6. events \in Seq(Events)
    BY <1>5, <2>5
  <2> QED BY <1>7, <2>1, <2>6
<1>9. \A u \in Differing : \E i \in DOMAIN events : events[i].uri = u
  BY <1>6, <1>7
<1>10. ASSUME NEW u \in Uris PROVE Told(saved.log \o events, u) = file[u]
  <2>1. CASE u \in Differing
    <3>1. \E k \in DOMAIN events : events[k].uri = u
      BY <1>9, <2>1
    <3>x. PICK x : x = file[u]
      OBVIOUS
    <3>2. \A j \in DOMAIN events : events[j].uri = u => events[j].text = x
      BY <1>8, <3>x
    <3>h. PICK h : h = saved.log
      OBVIOUS
    <3>3. h \in Seq(Events) /\ events \in Seq(Events)
      BY <1>3, <1>8, <3>h
    <3>4. Told(h \o events, u) = x
      <4>1. Same(events, u, x)
        BY <3>1, <3>2 DEF Same
      <4> QED BY <3>3, <4>1, ToldConcatSame
    <3> QED BY <3>4, <3>x, <3>h
  <2>2. CASE u \notin Differing
    <3>1. Told(saved.log \o events, u) = Told(saved.log, u)
      <4>1. saved.log \in Seq(Events) /\ events \in Seq(Events)
        BY <1>3, <1>8
      <4>2. \A j \in DOMAIN events : events[j].uri # u
        BY <1>8, <2>2
      <4> QED BY <4>1, <4>2, ToldConcatOther, Zenon
    <3>2. Told(saved.log, u) = saved.documents[u]
      BY <1>3 DEF HistoryOK, CheckpointTellsItsDocuments
    <3> QED BY <1>2, <1>4, <2>2, <3>1, <3>2
  <2> QED BY <2>1, <2>2
<1>11. \A u \in Uris : Told(log, u)' = file[u] /\ Told(saved.log, u)' = file[u]
  <2>1. saved'.log = saved.log \o events
    BY <1>2
  <2> QED BY <1>2, <1>10, <2>1, ToldNext
<1>12. \A u \in Uris :
          /\ docs'[u] \in Store!Document /\ Store!Stored(docs'[u]) = file[u]
          /\ ~Store!Open(docs'[u]) /\ docs'[u].disk = file[u]
          /\ ~docs'[u].known => docs'[u] = Store!Unknown
          /\ docs'[u].known => file[u] # None
  <2> TAKE u \in Uris
  <2>1. docs'[u] = IF file[u] = None THEN Store!Unknown
                   ELSE [known |-> TRUE, disk |-> file[u], buffer |-> None]
    BY <1>2 DEF LoadedDocs
  <2>2. CASE file[u] = None
    BY <2>1, <2>2, TextFacts DEF Store!Unknown, Store!Document, Store!Stored, Store!Open
  <2>3. CASE file[u] # None
    BY <1>3, <2>1, <2>3, TextFacts DEF Store!Document, Store!Stored, Store!Open
  <2> QED BY <2>2, <2>3
<1>13. docs' \in [Uris -> Store!Document]
  BY <1>2, <1>12 DEF LoadedDocs
<1>14. \A u \in Uris : cache'[u] \in Snapshots /\ (file[u] = None => cache'[u].text = None)
  BY <1>2, <1>3, <1>5, TextFacts DEF NoSnapshot, Snapshots
<1>15. cache' \in [Uris -> Snapshots]
  BY <1>2, <1>14
<1>16. saved' \in [documents : [Uris -> Text], log : Seq(Events), generation : Nat]
       /\ log' \in Seq(Events) /\ \A u \in Uris : saved'.documents[u] = file[u]
  <2>1. log' \in Seq(Events)
    BY <1>2, <1>3, <1>8, ConcatProperties
  <2>d. PICK content : content = ContentOf(docs')
    OBVIOUS
  <2>2. content \in [Uris -> Text] /\ \A u \in Uris : content[u] = file[u]
    BY <1>3, <1>12, <2>d DEF ContentOf
  <2>3. saved' = [documents |-> content, log |-> log', generation |-> gen]
    BY <1>2, <2>d
  <2> QED BY <1>5, <2>1, <2>2, <2>3
<1>17. Typed'
  BY <1>2, <1>3, <1>5, <1>13, <1>15, <1>16 DEF Typed
<1>18. Folding(saved.log \o events)
  <2>1. Folding(saved.log)
    BY <1>3 DEF HistoryOK
  <2> QED BY <1>3, <1>8, <2>1, FoldingConcat
<1>19. HistoryOK'
  <2>1. saved'.log = saved.log \o events
    BY <1>2
  <2>2. Folding(log)' /\ Folding(saved.log)'
    BY <1>2, <1>18, <2>1, FoldingNext
  <2>3. CheckpointTellsItsDocuments'
    BY <1>11, <1>16 DEF CheckpointTellsItsDocuments
  <2> QED BY <2>2, <2>3 DEF HistoryOK
<1>20. FilesOK'
  BY <1>2, <1>3 DEF FilesOK
<1>21. DocsOK'
  <2>1. \A u \in Uris : ~Unread(u)'
    BY <1>2, <1>12 DEF Unread
  <2> QED BY <1>12, <1>14, <2>1, TextFacts DEF DocsOK, StoredOf
<1>22. AtEase(t)'
  BY <1>2, <1>3, <1>11, <1>12 DEF AtEase, IsDown, Calm, AllSettled, Settled, AllLoaded, StoredOf
<1> QED BY <1>2, <1>17, <1>19, <1>20, <1>21, <1>22 DEF WorkspaceInv, Somewhere

-----------------------------------------------------------------------------
(* Init, a step of nothing, and every step                                  *)

(* The first host has announced nothing, and the consumer has reconciled.   *)
LEMMA WorkspaceInit ==
    ASSUME StoreAssumption, NEW CONSTANT t, Orderly(t), Init
    PROVE  WorkspaceInv(t)
<1> USE DEF Uris, Text
<1>1. /\ file \in [Uris -> Text] /\ \A u \in Uris \ FileUris : file[u] = None
      /\ docs = LoadedDocs /\ generation = 0
      /\ run = [s \in Threads |-> Store!Idle] /\ result = [s \in Threads |-> << >>]
      /\ job = [s \in Threads |-> NoJob] /\ obs = [s \in Threads |-> NoObs]
      /\ cache = [u \in Uris |-> NoSnapshot] /\ log = << >>
      /\ base = ContentOf(docs) /\ up = TRUE
      /\ t \in Threads
  BY DEF Init, Orderly
<1>2. saved = [documents |-> ContentOf(docs), log |-> << >>, generation |-> 0]
  BY DEF Init
<1>3. \A u \in Uris :
         /\ docs[u] \in Store!Document /\ Store!Stored(docs[u]) = file[u]
         /\ ~Store!Open(docs[u]) /\ docs[u].disk = file[u]
         /\ ~docs[u].known => docs[u] = Store!Unknown
         /\ docs[u].known => file[u] # None
  <2> TAKE u \in Uris
  <2>1. docs[u] = IF file[u] = None THEN Store!Unknown
                  ELSE [known |-> TRUE, disk |-> file[u], buffer |-> None]
    BY <1>1 DEF LoadedDocs
  <2>2. CASE file[u] = None
    BY <2>1, <2>2, TextFacts DEF Store!Unknown, Store!Document, Store!Stored, Store!Open
  <2>3. CASE file[u] # None
    BY <1>1, <2>1, <2>3, TextFacts DEF Store!Document, Store!Stored, Store!Open
  <2> QED BY <2>2, <2>3
<1>4. docs \in [Uris -> Store!Document]
  BY <1>1, <1>3 DEF LoadedDocs
<1>5. PICK content : content = ContentOf(docs)
  OBVIOUS
<1>6. content \in [Uris -> Text] /\ \A u \in Uris : content[u] = file[u]
  BY <1>1, <1>3, <1>5 DEF ContentOf
<1>7. saved = [documents |-> content, log |-> << >>, generation |-> 0] /\ base = content
  BY <1>1, <1>2, <1>5
<1>8. saved \in [documents : [Uris -> Text], log : Seq(Events), generation : Nat]
      /\ log \in Seq(Events) /\ saved.log = << >> /\ saved.documents = content
  BY <1>1, <1>6, <1>7
<1>9. cache \in [Uris -> Snapshots] /\ \A u \in Uris : cache[u].text = None
  BY <1>1, TextFacts DEF NoSnapshot, Snapshots
<1>10. Typed
  BY <1>1, <1>4, <1>6, <1>7, <1>8, <1>9 DEF Typed
<1>11. DOMAIN log = {} /\ DOMAIN saved.log = {}
  BY <1>1, <1>8
<1>12. \A u : Told(log, u) = base[u] /\ Told(saved.log, u) = base[u]
  BY <1>11 DEF Told
<1>13. HistoryOK
  BY <1>6, <1>7, <1>8, <1>11, <1>12 DEF HistoryOK, Folding, CheckpointTellsItsDocuments
<1>14. \A u \in Uris : ~Unread(u)
  BY <1>3 DEF Unread
<1>15. DocsOK
  BY <1>3, <1>9, <1>14, TextFacts DEF DocsOK
<1>16. AtEase(t)
  BY <1>1, <1>3, <1>6, <1>7, <1>12 DEF AtEase, Calm, AllSettled, Settled, AllLoaded, StoredOf
<1> QED BY <1>1, <1>10, <1>13, <1>15, <1>16 DEF WorkspaceInv, FilesOK, Somewhere

(* A step that changes nothing.                                             *)
LEMMA NothingStep ==
    ASSUME NEW CONSTANT t, WorkspaceInv(t), UNCHANGED vars
    PROVE  WorkspaceInv(t)'
<1>1. UNCHANGED <<file, docs, generation, run, result, job, obs, cache, log, saved, base, up>>
  BY DEF vars, storeVars
<1>2. /\ Typed /\ HistoryOK /\ FilesOK /\ (up => DocsOK /\ Somewhere(t)) /\ (~up => IsDown(t))
  BY DEF WorkspaceInv
<1>3. HistoryOK' /\ FilesOK' /\ (DocsOK => DocsOK')
      /\ (AllSettled => AllSettled') /\ (AllLoaded => AllLoaded') /\ (AllRead => AllRead')
      /\ \A u : Told(log, u)' = Told(log, u)
  BY <1>1, <1>2, DocsKept, HistoryKept
<1>4. Typed'
  BY <1>1, <1>2 DEF Typed
<1>5. \A u : StoredOf(u)' = StoredOf(u) /\ (Settled(u)' <=> Settled(u))
      /\ (OthersSettled(u)' <=> OthersSettled(u))
  BY <1>1, <1>3 DEF StoredOf, Settled, OthersSettled, Uris, Store!Uris
<1>6. ~up => IsDown(t)'
  BY <1>1, <1>2 DEF IsDown, Calm
<1>r. \A u, prior : /\ Relative(u, prior)' <=> Relative(u, prior)
                    /\ News(u, prior)' <=> News(u, prior)
  BY <1>1, <1>3, <1>5 DEF Relative, News
<1>f. Refreshes(t) => Refreshes(t)'
  BY <1>1, <1>3, <1>5 DEF Refreshes, IsCandidate
<1>7. Somewhere(t) => Somewhere(t)'
  <2>1. CASE AtEase(t)
    <3>1. AtEase(t)'
      BY <1>1, <1>3, <1>5, <1>r, <1>f, <2>1 DEF AtEase, Calm
    <3> QED BY <3>1 DEF Somewhere
  <2>2. CASE HasBegun(t)
    <3>1. HasBegun(t)'
      BY <1>1, <1>3, <1>5, <1>r, <1>f, <2>2 DEF HasBegun, Calm
    <3> QED BY <3>1 DEF Somewhere
  <2>3. CASE Saves(t)
    <3>1. Saves(t)'
      BY <1>1, <1>3, <1>5, <1>r, <1>f, <2>3 DEF Saves
    <3> QED BY <3>1 DEF Somewhere
  <2>4. CASE Closes(t)
    <3>1. Closes(t)'
      BY <1>1, <1>3, <1>5, <1>r, <1>f, <2>4 DEF Closes
    <3> QED BY <3>1 DEF Somewhere
  <2>5. CASE Finds(t)
    <3>1. Finds(t)'
      BY <1>1, <1>3, <1>5, <1>r, <1>f, <2>5 DEF Finds, FoundChange, Calm, Resolved, Before
    <3> QED BY <3>1 DEF Somewhere
  <2>6. CASE Discovers(t)
    <3>1. Discovers(t)'
      BY <1>1, <1>3, <1>5, <1>r, <1>f, <2>6 DEF Discovers, Calm
    <3> QED BY <3>1 DEF Somewhere
  <2>7. CASE LoadsNew(t)
    <3>1. LoadsNew(t)'
      BY <1>1, <1>3, <1>5, <1>r, <1>f, <2>7 DEF LoadsNew
    <3> QED BY <3>1 DEF Somewhere
  <2>8. CASE CountsNew(t)
    <3>1. CountsNew(t)'
      BY <1>1, <1>3, <1>5, <1>r, <1>f, <2>8 DEF CountsNew
    <3> QED BY <3>1 DEF Somewhere
  <2>9. CASE RefreshReads(t)
    <3>1. RefreshReads(t)'
      BY <1>1, <1>3, <1>5, <1>r, <1>f, <2>9 DEF RefreshReads
    <3> QED BY <3>1 DEF Somewhere
  <2>10. CASE RefreshCommits(t)
    <3>1. RefreshCommits(t)'
      BY <1>1, <1>3, <1>5, <1>r, <1>f, <2>10 DEF RefreshCommits, IsCandidate
    <3> QED BY <3>1 DEF Somewhere
  <2>11. CASE RefreshCounts(t)
    <3>1. RefreshCounts(t)'
      BY <1>1, <1>3, <1>5, <1>r, <1>f, <2>11 DEF RefreshCounts
    <3> QED BY <3>1 DEF Somewhere
  <2>12. CASE RefreshFinds(t)
    <3>1. RefreshFinds(t)'
      BY <1>1, <1>3, <1>5, <1>r, <1>f, <2>12 DEF RefreshFinds, FoundChange
    <3> QED BY <3>1 DEF Somewhere
  <2>13. CASE Announces(t)
    <3>1. Announces(t)'
      BY <1>1, <1>3, <1>5, <1>r, <1>f, <2>13 DEF Announces, Resolved
    <3> QED BY <3>1 DEF Somewhere
  <2>14. CASE Records(t)
    <3>1. Records(t)'
      BY <1>1, <1>3, <1>5, <1>r, <1>f, <2>14 DEF Records, Resolved, ContentOf
    <3> QED BY <3>1 DEF Somewhere
  <2>15. CASE HasReturned(t)
    <3>1. HasReturned(t)'
      BY <1>1, <1>3, <1>5, <1>r, <1>f, <2>15 DEF HasReturned, Calm
    <3> QED BY <3>1 DEF Somewhere
  <2> QED BY <2>1, <2>2, <2>3, <2>4, <2>5, <2>6, <2>7, <2>8, <2>9, <2>10, <2>11, <2>12, <2>13, <2>14, <2>15 DEF Somewhere
<1> QED BY <1>1, <1>2, <1>3, <1>4, <1>6, <1>7 DEF WorkspaceInv

(* The invariant is inductive,                                              *)
LEMMA WorkspaceInvKept ==
    ASSUME StoreAssumption, NEW CONSTANT t, Orderly(t), WorkspaceInv(t), [Next]_vars
    PROVE  WorkspaceInv(t)'
<1>1. CASE UNCHANGED vars
  BY <1>1, NothingStep
<1>2. ASSUME NEW u \in Uris, NEW text \in Text, WriteFile(u, text) PROVE WorkspaceInv(t)'
  BY <1>2, WriteFileStep
<1>3. ASSUME NEW s \in Threads, Thread(s) PROVE WorkspaceInv(t)'
  <2>1. s = t
    BY DEF Orderly
  <2>2. ASSUME NEW u \in Uris, Query(t, u) PROVE WorkspaceInv(t)'
    BY <2>2, QueryStep
  <2>3. ASSUME NEW u \in Uris, BeginChange(t, u) PROVE WorkspaceInv(t)'
    BY <2>3, BeginChangeStep
  <2>4. ASSUME NEW text \in Contents, DidOpen(t, text) PROVE WorkspaceInv(t)'
    BY <2>4, DidOpenStep
  <2>5. CASE DidSave(t)
    BY <2>5, DidSaveStep
  <2>6. CASE DidClose(t)
    BY <2>6, DidCloseStep
  <2>7. CASE StoreStep(t)
    BY <2>7, StoreStepKeeps
  <2>8. CASE NotifyingStep(t)
    BY <2>8, NotifyingStepKeeps
  <2>9. CASE RefreshWorkspace(t)
    BY <2>9, RefreshWorkspaceStep
  <2>10. CASE LoadNew(t)
    BY <2>10, LoadNewStep
  <2>11. CASE RefreshDisk(t)
    BY <2>11, RefreshDiskStep
  <2>12. CASE Finish(t)
    BY <2>12, FinishStep
  <2>13. CASE ObserveAnalyse(t)
    BY <2>13, ObserveAnalyseStep
  <2>14. CASE ObserveGuard(t)
    BY <2>14, ObserveGuardStep
  <2>15. CASE ObservePush(t)
    BY <2>15, ObservePushStep
  <2>16. CASE PersistDocuments(t)
    BY <2>16, PersistDocumentsStep
  <2>17. CASE PersistHistory(t)
    BY <2>17, PersistHistoryStep
  <2> QED
    BY <1>3, <2>1, <2>2, <2>3, <2>4, <2>5, <2>6, <2>7, <2>8, <2>9, <2>10, <2>11, <2>12,
       <2>13, <2>14, <2>15, <2>16, <2>17 DEF Thread
<1>4. CASE Crash
  BY <1>4, CrashStep
<1>5. CASE Restart
  BY <1>5, RestartStep
<1> QED BY <1>1, <1>2, <1>3, <1>4, <1>5 DEF Next

(* and therefore invariant.                                                 *)
LEMMA WorkspaceInvAlways ==
    ASSUME StoreAssumption, NEW CONSTANT t, Orderly(t)
    PROVE  Spec => []WorkspaceInv(t)
<1>1. Init => WorkspaceInv(t)
  BY WorkspaceInit
<1>2. WorkspaceInv(t) /\ [Next]_vars => WorkspaceInv(t)'
  BY WorkspaceInvKept
<1> QED BY <1>1, <1>2, PTL DEF Spec

-----------------------------------------------------------------------------
(* The theorems                                                             *)

(* With no call in progress every change has been announced: whoever read   *)
(* the events to the end has the winning text of every document             *)
(* (begin_change, observe_change, refresh_workspace, configure_root).       *)
THEOREM EventsTellTheWorkspaceAlone ==
    ASSUME NEW CONSTANT t, Orderly(t)
    PROVE  Spec => []EventsTellTheWorkspace
<1>1. Spec => []WorkspaceInv(t)
  BY WorkspaceInvAlways, StoreAssumption
<1>2. WorkspaceInv(t) => EventsTellTheWorkspace
  <2> SUFFICES ASSUME WorkspaceInv(t), AtRest PROVE AllSettled
    BY DEF EventsTellTheWorkspace, AllSettled, Settled, StoredOf
  <2>1. Typed /\ Somewhere(t) /\ Resting(t)
    BY DEF WorkspaceInv, AtRest, Orderly
  <2> QED BY <2>1, AtEaseWhenResting DEF AtEase
<1> QED BY <1>1, <1>2, PTL

(* The deltas of an event are relative to the very text that the event      *)
(* before it told (observe_change, project_change).                         *)
THEOREM DeltasFoldAlone ==
    ASSUME NEW CONSTANT t, Orderly(t)
    PROVE  Spec => []DeltasFold
<1>1. Spec => []WorkspaceInv(t)
  BY WorkspaceInvAlways, StoreAssumption
<1>2. WorkspaceInv(t) => DeltasFold
  BY DEF WorkspaceInv, HistoryOK, Folding, DeltasFold
<1> QED BY <1>1, <1>2, PTL

(* At every moment, the moments of a crash among them, the checkpoint file  *)
(* identifies just the texts that its own history tells                     *)
(* (persist_checkpoint, configure_root).                                    *)
THEOREM CheckpointTellsItsDocumentsAlone ==
    ASSUME NEW CONSTANT t, Orderly(t)
    PROVE  Spec => []CheckpointTellsItsDocuments
<1>1. Spec => []WorkspaceInv(t)
  BY WorkspaceInvAlways, StoreAssumption
<1>2. WorkspaceInv(t) => CheckpointTellsItsDocuments
  BY DEF WorkspaceInv, HistoryOK
<1> QED BY <1>1, <1>2, PTL
=============================================================================
