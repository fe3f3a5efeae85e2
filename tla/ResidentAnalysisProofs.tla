----------------------- MODULE ResidentAnalysisProofs -----------------------
(***************************************************************************)
(* What the resident analyses promise, for any documents, texts and        *)
(* imports.                                                                *)
(*                                                                         *)
(* The fast path, while requests come one at a time: nothing changes under *)
(* an analysis then, so what it consumes is what the modules are now.      *)
(*                                                                         *)
(* The analyses served from the cache, for any number of threads: what an  *)
(* analysis consumed of its direct imports is compared with what resolves  *)
(* now before it is served.                                                *)
(***************************************************************************)
EXTENDS ResidentAnalysis, WellFoundedInduction, TLAPS

(* The code and the environment: a document is one key of the map, and a    *)
(* text declares and imports modules.                                       *)
ResidentAssumption ==
    /\ UriOrder \in Seq(Uris)
    /\ \A i, j \in DOMAIN UriOrder : UriOrder[i] = UriOrder[j] => i = j
    /\ None \notin Contents
    /\ ModuleOf \in [Contents -> Modules \cup {NoModule}]
    /\ UsesOf \in [Contents -> SUBSET Modules]
    /\ \A u \in Uris : Drafts[u] \subseteq Text

-----------------------------------------------------------------------------
(* Types                                                                    *)

Runs ==
    {Idle}
    \cup [op : {"notify"}, uri : Uris]
    \cup [op : {"drop"}, victims : SUBSET Uris]
    \cup [op : {"analyse"}, uri : Uris, text : Contents,
          consumed : SUBSET Fingerprint, todo : SUBSET Modules]
    \cup [op : {"publish"}, uri : Uris, text : Contents, deps : SUBSET Fingerprint]

Tasks ==
    {NoTask} \cup [op : {"ensure"}, tried : BOOLEAN, failed : BOOLEAN, moved : BOOLEAN,
                   todo : SUBSET Uris]

Typed ==
    /\ content \in [Uris -> Text]
    /\ \A u \in Uris : content[u] \in Drafts[u]
    /\ cache \in [Uris -> Analyses]
    /\ index \in [Uris -> Entries]
    /\ ensured \in BOOLEAN
    /\ run \in [Threads -> Runs]
    /\ task \in [Threads -> Tasks]

-----------------------------------------------------------------------------
(* What one request is in the middle of                                     *)

(* An analysis has resolved modules as they are.                            *)
Analysing(r) ==
    /\ r.text = content[r.uri]
    /\ \A c \in r.consumed : c = <<c[1], Owner(c[1])>>

Publishing(r) == r.text = content[r.uri] /\ r.deps = Direct(r.text)

Under(t) ==
    /\ run[t].op = "analyse" => Analysing(run[t])
    /\ run[t].op = "publish" => Publishing(run[t])
    /\ run[t].op \in {"notify", "drop"} => ~ensured /\ task[t] = NoTask

Passed(t) == \A u \in Uris \ task[t].todo : content[u] # None => Current(u)

FastInv(t) ==
    /\ Typed
    /\ Under(t)
    /\ task[t].op = "ensure" => ~task[t].moved /\ (~task[t].failed => Passed(t))
    /\ FastPathSound

-----------------------------------------------------------------------------
(* The operators                                                            *)

(* A set of positions that is not empty has a least one.                    *)
LEMMA LeastIsLeast ==
    ASSUME NEW S, S \subseteq Nat, S # {}
    PROVE  Least(S) \in S
<1>1. IsWellFoundedOn(OpToRel(<, Nat), Nat)
  BY NatLessThanWellFounded
<1>2. PICK i \in S : \A j \in S : ~ (<<j, i>> \in OpToRel(<, Nat))
  BY <1>1, WFMin
<1>3. \A j \in S : ~ (j < i)
  BY <1>2 DEF OpToRel
<1>4. \A j \in S : i <= j
  BY <1>3
<1> QED BY <1>4 DEF Least

(* A least closed set holds nothing else than members.                      *)
LEMMA ClosureInside ==
    ASSUME NEW some, NEW next
    PROVE  Closure(some, next) \subseteq DOMAIN next
BY DEF Closure

(* A module has an owner just when some document declares it, and then the  *)
(* owner is one of these with the text it has.                              *)
OwnerFound(m) ==
    /\ Owner(m).uri \in Uris /\ Claims(Owner(m).uri, m)
    /\ Owner(m) = [uri |-> Owner(m).uri, text |-> content[Owner(m).uri]]
    /\ Owner(m) # Unresolved

LEMMA OwnerOK ==
    \A m : ResidentAssumption =>
        \/ Owner(m) = Unresolved /\ \A u \in Uris : ~Claims(u, m)
        \/ OwnerFound(m)
<1> SUFFICES ASSUME NEW m, ResidentAssumption
             PROVE  \/ Owner(m) = Unresolved /\ \A u \in Uris : ~Claims(u, m)
                    \/ OwnerFound(m)
  OBVIOUS
<1>1. CASE Claimants(m) = {}
  BY <1>1 DEF Owner, Claimants, Uris
<1>2. CASE Claimants(m) # {}
  <2>1. Claimants(m) \subseteq Nat
    BY DEF Claimants, ResidentAssumption
  <2>2. Least(Claimants(m)) \in Claimants(m)
    BY <1>2, <2>1, LeastIsLeast
  <2> DEFINE u == UriOrder[Least(Claimants(m))]
  <2>3. u \in Uris /\ Claims(u, m)
    BY <2>2 DEF Claimants, Uris
  <2>4. Owner(m) = [uri |-> u, text |-> content[u]]
    BY <1>2 DEF Owner
  <2>5. Owner(m) # Unresolved
    BY <2>3, <2>4 DEF Claims, Unresolved
  <2> QED BY <2>3, <2>4, <2>5 DEF OwnerFound
<1> QED BY <1>1, <1>2

LEMMA OwnerType ==
    ASSUME ResidentAssumption, content \in [Uris -> Text], NEW m
    PROVE  Owner(m) \in Resolution
<1>1. CASE Owner(m) = Unresolved
  BY <1>1 DEF Unresolved, Resolution, Text
<1>2. CASE OwnerFound(m)
  BY <1>2 DEF OwnerFound, Resolution
<1> QED BY <1>1, <1>2, OwnerOK

(* What a resolved module's text imports.                                   *)
LEMMA UsesType ==
    ASSUME ResidentAssumption, content \in [Uris -> Text], NEW m
    PROVE  Uses(m) \subseteq Modules
<1>1. CASE Owner(m) = Unresolved
  BY <1>1 DEF Uses
<1>2. CASE OwnerFound(m)
  <2>1. Owner(m).text \in Contents
    BY <1>2 DEF OwnerFound, Claims, Text
  <2> QED BY <1>2, <2>1 DEF Uses, ResidentAssumption
<1> QED BY <1>1, <1>2, OwnerOK

(* Whether a document changes decides what is resolved.                     *)
LEMMA Resolved ==
    ASSUME content' = content
    PROVE  /\ \A m : Owner(m)' = Owner(m) /\ Uses(m)' = Uses(m)
           /\ \A x : Direct(x)' = Direct(x)
<1>1. \A m : Owner(m)' = Owner(m)
  BY DEF Owner, Claimants, Claims
<1>2. \A m : Uses(m)' = Uses(m)
  BY <1>1 DEF Uses
<1>3. \A x : Direct(x)' = Direct(x)
  BY <1>1 DEF Direct
<1> QED BY <1>1, <1>2, <1>3

-----------------------------------------------------------------------------
(* Types                                                                    *)

LEMMA RunForms ==
    ASSUME NEW r \in Runs
    PROVE  /\ r.op \in {"idle", "notify", "drop", "analyse", "publish"}
           /\ r.op = "idle" => r = Idle
           /\ r.op = "notify" => r.uri \in Uris
           /\ r.op = "drop" => r.victims \subseteq Uris
           /\ r.op = "analyse" =>
                 /\ r.uri \in Uris /\ r.text \in Contents
                 /\ r.consumed \subseteq Fingerprint /\ r.todo \subseteq Modules
           /\ r.op = "publish" =>
                 r.uri \in Uris /\ r.text \in Contents /\ r.deps \subseteq Fingerprint
BY DEF Runs, Idle

LEMMA TaskForms ==
    ASSUME NEW k \in Tasks
    PROVE  /\ k.op = "ensure" =>
                 /\ k.tried \in BOOLEAN /\ k.failed \in BOOLEAN /\ k.moved \in BOOLEAN
                 /\ k.todo \subseteq Uris
           /\ k.op # "ensure" => k = NoTask
BY DEF Tasks, NoTask

(* The steps of an analysis and of an ensure, as the records they leave.    *)
After(r, m) ==
    [op |-> "analyse", uri |-> r.uri, text |-> r.text,
     consumed |-> r.consumed \cup {<<m, Owner(m)>>},
     todo |-> (r.todo \cup Uses(m)) \ ({c[1] : c \in r.consumed} \cup {m})]

LEMMA ResolveLeaves ==
    ASSUME NEW t \in Threads, run \in [Threads -> Runs], Resolve(t)
    PROVE  \E m \in run[t].todo : run' = [run EXCEPT ![t] = After(run[t], m)]
<1>1. run[t].op = "analyse"
  BY DEF Resolve
<1> DEFINE r == run[t]
<1>2. r \in [op : {"analyse"}, uri : Uris, text : Contents,
             consumed : SUBSET Fingerprint, todo : SUBSET Modules]
  BY <1>1 DEF Runs, Idle
<1>3. PICK m \in r.todo :
        LET seen == {c[1] : c \in r.consumed} \cup {m}
        IN  run' = [run EXCEPT ![t].consumed = @ \cup {<<m, Owner(m)>>},
                               ![t].todo = (@ \cup Uses(m)) \ seen]
  BY DEF Resolve
<1> DEFINE b == r.consumed \cup {<<m, Owner(m)>>}
           d == (r.todo \cup Uses(m)) \ ({c[1] : c \in r.consumed} \cup {m})
<1>4. run' = [run EXCEPT ![t] = [[r EXCEPT !.consumed = b] EXCEPT !.todo = d]]
  BY <1>3
<1> HIDE DEF b, d
<1>5. [[r EXCEPT !.consumed = b] EXCEPT !.todo = d]
        = [op |-> "analyse", uri |-> r.uri, text |-> r.text, consumed |-> b, todo |-> d]
  <2> DEFINE one == [r EXCEPT !.consumed = b]
  <2>1. /\ one = [op |-> "analyse", uri |-> r.uri, text |-> r.text, consumed |-> b,
                  todo |-> r.todo]
        /\ one.uri = r.uri /\ one.text = r.text /\ one.consumed = b
    BY <1>2
  <2> HIDE DEF one
  <2>2. [one EXCEPT !.todo = d]
          = [op |-> "analyse", uri |-> one.uri, text |-> one.text, consumed |-> one.consumed,
             todo |-> d]
    BY <2>1
  <2> QED BY <2>1, <2>2 DEF one
<1> QED BY <1>4, <1>5 DEF After, b, d

Onward(k, u) ==
    [op |-> "ensure", tried |-> FALSE, failed |-> k.failed \/ ~Current(u),
     moved |-> k.moved, todo |-> k.todo \ {u}]

LEMMA NextLeaves ==
    ASSUME NEW t \in Threads, task \in [Threads -> Tasks], NEW u, EnsureNext(t, u)
    PROVE  task' = [task EXCEPT ![t] = Onward(task[t], u)]
<1> DEFINE k == task[t]
           b == k.todo \ {u}
           f == k.failed \/ ~Current(u)
           no == FALSE
<1>1. k \in [op : {"ensure"}, tried : BOOLEAN, failed : BOOLEAN, moved : BOOLEAN,
             todo : SUBSET Uris]
  BY DEF EnsureNext, Ensuring, Tasks, NoTask
<1>2. task' = [task EXCEPT ![t] =
                 [[[k EXCEPT !.todo = b] EXCEPT !.tried = no] EXCEPT !.failed = f]]
  BY DEF EnsureNext
<1> HIDE DEF b, f, no
<1>3. [[[k EXCEPT !.todo = b] EXCEPT !.tried = no] EXCEPT !.failed = f]
        = [op |-> "ensure", tried |-> no, failed |-> f, moved |-> k.moved, todo |-> b]
  <2> DEFINE one == [k EXCEPT !.todo = b]
             two == [one EXCEPT !.tried = no]
  <2>1. /\ one = [op |-> "ensure", tried |-> k.tried, failed |-> k.failed, moved |-> k.moved,
                  todo |-> b]
        /\ one.tried = k.tried /\ one.failed = k.failed /\ one.moved = k.moved
        /\ one.todo = b
    BY <1>1
  <2> HIDE DEF one, k
  <2>2. two = [op |-> "ensure", tried |-> no, failed |-> k.failed, moved |-> k.moved,
               todo |-> b]
    BY <2>1
  <2>3. two.failed = k.failed /\ two.moved = k.moved /\ two.todo = b
    BY <2>2
  <2> HIDE DEF two
  <2>4. [two EXCEPT !.failed = f]
          = [op |-> "ensure", tried |-> no, failed |-> f, moved |-> k.moved, todo |-> b]
    BY <2>2
  <2> QED BY <2>4 DEF one, two
<1> QED BY <1>2, <1>3 DEF Onward, b, f, no

LEMMA RepairLeaves ==
    ASSUME NEW t \in Threads, task \in [Threads -> Tasks], NEW u, EnsureRepair(t, u)
    PROVE  task' = [task EXCEPT ![t] =
                      [op |-> "ensure", tried |-> TRUE, failed |-> task[t].failed,
                       moved |-> task[t].moved, todo |-> task[t].todo]]
<1> DEFINE k == task[t]
<1>1. k \in [op : {"ensure"}, tried : BOOLEAN, failed : BOOLEAN, moved : BOOLEAN,
             todo : SUBSET Uris]
  BY DEF EnsureRepair, Ensuring, Tasks, NoTask
<1> DEFINE yes == TRUE
<1>2. task' = [task EXCEPT ![t] = [k EXCEPT !.tried = yes]]
  BY DEF EnsureRepair
<1> HIDE DEF yes
<1>3. [k EXCEPT !.tried = yes]
        = [op |-> "ensure", tried |-> yes, failed |-> k.failed, moved |-> k.moved,
           todo |-> k.todo]
  <2> HIDE DEF k
  <2> QED BY <1>1
<1> QED BY <1>2, <1>3 DEF yes

LEMMA NoTaskMoves ==
    ASSUME NEW t, Threads = {t}, task \in [Threads -> Tasks], task[t] = NoTask, Moved
    PROVE  task' = task /\ ensured' = FALSE
BY DEF Moved, NoTask

(* A step leaves values of the types of the variables.                      *)
LEMMA DirectType ==
    ASSUME ResidentAssumption, content \in [Uris -> Text], NEW x \in Contents
    PROVE  /\ Direct(x) \subseteq Fingerprint
           /\ {d[2].uri : d \in Direct(x)} \subseteq Uris
<1>1. UsesOf[x] \subseteq Modules
  BY DEF ResidentAssumption
<1>2. Direct(x) \subseteq Fingerprint
  BY <1>1, OwnerType DEF Direct, Fingerprint
<1>3. ASSUME NEW d \in Direct(x) PROVE d[2].uri \in Uris
  <2>1. PICK m : d = <<m, Owner(m)>> /\ Owner(m) # Unresolved
    BY DEF Direct
  <2>2. OwnerFound(m)
    BY <2>1, OwnerOK
  <2> QED BY <2>1, <2>2 DEF OwnerFound
<1> QED BY <1>2, <1>3

LEMMA FingerprintsType ==
    ASSUME ResidentAssumption, content \in [Uris -> Text], NEW r,
           r.text \in Contents, r.consumed \subseteq Fingerprint
    PROVE  Fingerprints(r) \subseteq Fingerprint
BY DirectType DEF Fingerprints, Consumed

LEMMA VictimsType ==
    ASSUME NEW u PROVE Victims(u) \subseteq Uris
BY ClosureInside DEF Victims

LEMMA TypedInit == Init /\ ResidentAssumption => Typed
<1> SUFFICES ASSUME Init PROVE Typed
  OBVIOUS
<1>1. NoAnalysis \in Analyses
  BY DEF NoAnalysis, Analyses, Text
<1>2. NoEntry \in Entries
  BY DEF NoEntry, Entries, Text
<1>3. Idle \in Runs /\ NoTask \in Tasks
  BY DEF Runs, Tasks
<1> QED BY <1>1, <1>2, <1>3 DEF Init, Typed

LEMMA TypedKept ==
    ASSUME ResidentAssumption, NEW t, Threads = {t}, Typed, [Next]_vars
    PROVE  Typed'
<1>1. /\ content \in [Uris -> Text] /\ \A u \in Uris : content[u] \in Drafts[u]
      /\ cache \in [Uris -> Analyses] /\ index \in [Uris -> Entries] /\ ensured \in BOOLEAN
      /\ run \in [Threads -> Runs] /\ task \in [Threads -> Tasks]
      /\ t \in Threads /\ run[t] \in Runs /\ task[t] \in Tasks
  BY DEF Typed
<1> HIDE DEF Typed
<1>2. ASSUME NEW u \in Uris, NEW text \in Text, Commit(t, u, text) PROVE Typed'
  <2>1. run' \in [Threads -> Runs]
    BY <1>1, <1>2 DEF Commit, Runs
  <2>2. task' = task /\ ensured' = FALSE
    BY <1>1, <1>2, NoTaskMoves DEF Commit, Free
  <2> QED BY <1>1, <1>2, <2>1, <2>2 DEF Commit, Allowed, Typed
<1>3. ASSUME NEW u \in Uris, NEW text \in Text, Load(t, u, text) PROVE Typed'
  <2>1. task' = task /\ ensured' = FALSE
    BY <1>1, <1>3, NoTaskMoves DEF Load, Free
  <2> QED BY <1>1, <1>3, <2>1 DEF Load, Allowed, Typed
<1>4. ASSUME NEW u \in Uris, Analyse(t, u) PROVE run' \in [Threads -> Runs]
  <2>1. content[u] \in Contents /\ UsesOf[content[u]] \in SUBSET Modules
    BY <1>1, <1>4 DEF Analyse, Text, ResidentAssumption
  <2> QED BY <1>1, <1>4, <2>1 DEF Analyse, Runs
<1>5. ASSUME NEW u \in Uris, Request(t, u) PROVE Typed'
  BY <1>1, <1>4, <1>5 DEF Request, Typed
<1>6. ASSUME NEW u \in Uris, EnsureRepair(t, u) PROVE Typed'
  <2>1. task[t].op = "ensure"
    BY <1>6 DEF EnsureRepair, Ensuring
  <2> DEFINE k == [op |-> "ensure", tried |-> TRUE, failed |-> task[t].failed,
                   moved |-> task[t].moved, todo |-> task[t].todo]
  <2>3. k \in Tasks
    BY <1>1, <2>1, TaskForms DEF Tasks
  <2>2. task' \in [Threads -> Tasks]
    <3>1. task' = [task EXCEPT ![t] = k]
      BY <1>1, <1>6, RepairLeaves
    <3> QED BY <1>1, <2>3, <3>1
  <2> QED BY <1>1, <1>4, <1>6, <2>2 DEF EnsureRepair, Typed
<1>7. ASSUME NEW u \in Uris, EnsureNext(t, u) PROVE Typed'
  <2>1. task[t].op = "ensure"
    BY <1>7 DEF EnsureNext, Ensuring
  <2>2. Onward(task[t], u) \in Tasks
    BY <1>1, <2>1, TaskForms DEF Tasks, Onward
  <2>3. task' \in [Threads -> Tasks]
    BY <1>1, <1>7, <2>2, NextLeaves
  <2>4. index' \in [Uris -> Entries]
    BY <1>1, <1>7 DEF EnsureNext, Entries, NoEntry, Text
  <2> QED BY <1>1, <1>7, <2>3, <2>4 DEF EnsureNext, Typed
<1>8. ASSUME DropAnalyses(t) PROVE Typed'
  <2>1. run[t].uri \in Uris
    BY <1>1, <1>8, RunForms DEF DropAnalyses
  <2>2. run' \in [Threads -> Runs]
    BY <1>1, <1>8, VictimsType DEF DropAnalyses, Runs
  <2>3. cache' \in [Uris -> Analyses]
    BY <1>1, <1>8 DEF DropAnalyses, Analyses, NoAnalysis, Text
  <2> QED BY <1>1, <1>8, <2>2, <2>3 DEF DropAnalyses, Typed
<1>9. ASSUME DropEntries(t) PROVE Typed'
  <2>1. run' \in [Threads -> Runs]
    BY <1>1, <1>9 DEF DropEntries, Runs
  <2>2. index' \in [Uris -> Entries]
    BY <1>1, <1>9 DEF DropEntries, Entries, NoEntry, Text
  <2> QED BY <1>1, <1>9, <2>1, <2>2 DEF DropEntries, Typed
<1>10. ASSUME Resolve(t) PROVE Typed'
  <2>1. run[t].op = "analyse"
    BY <1>10 DEF Resolve
  <2>2. PICK m \in run[t].todo : run' = [run EXCEPT ![t] = After(run[t], m)]
    BY <1>1, <1>10, ResolveLeaves
  <2>3. /\ m \in Modules /\ Owner(m) \in Resolution /\ Uses(m) \subseteq Modules
        /\ run[t].uri \in Uris /\ run[t].text \in Contents
        /\ run[t].consumed \subseteq Fingerprint /\ run[t].todo \subseteq Modules
    BY <1>1, <2>1, RunForms, OwnerType, UsesType
  <2>4. <<m, Owner(m)>> \in Fingerprint
    BY <2>3 DEF Fingerprint
  <2>5. run[t].consumed \cup {<<m, Owner(m)>>} \in SUBSET Fingerprint
    BY <2>3, <2>4
  <2>6. (run[t].todo \cup Uses(m)) \ ({c[1] : c \in run[t].consumed} \cup {m}) \in SUBSET Modules
    BY <2>3
  <2>7. After(run[t], m) \in Runs
    BY <2>3, <2>5, <2>6 DEF After, Runs
  <2> QED BY <1>1, <1>10, <2>2, <2>7 DEF Resolve, Typed
<1>11. ASSUME Keep(t) PROVE Typed'
  <2>1. /\ run[t].uri \in Uris /\ run[t].text \in Contents
        /\ run[t].consumed \subseteq Fingerprint
    BY <1>1, <1>11, RunForms DEF Keep
  <2>2. Fingerprints(run[t]) \in SUBSET Fingerprint
    BY <1>1, <2>1, FingerprintsType
  <2>3. CASE content[run[t].uri] = run[t].text
    <3>1. run' \in [Threads -> Runs]
      BY <1>1, <1>11, <2>1, <2>2, <2>3 DEF Keep, Runs
    <3>2. cache' \in [Uris -> Analyses]
      BY <1>1, <1>11, <2>1, <2>2, <2>3 DEF Keep, Analyses, Text
    <3> QED BY <1>1, <1>11, <3>1, <3>2 DEF Keep, Typed
  <2>4. CASE content[run[t].uri] # run[t].text
    BY <1>1, <1>11, <2>4 DEF Keep, Typed, Runs
  <2> QED BY <2>3, <2>4
<1>12. ASSUME Publish(t) PROVE Typed'
  <2>1. run[t].uri \in Uris /\ run[t].text \in Contents /\ run[t].deps \subseteq Fingerprint
    BY <1>1, <1>12, RunForms DEF Publish
  <2>2. {d[2].uri : d \in Direct(run[t].text)} \in SUBSET Uris
    BY <1>1, <2>1, DirectType
  <2>3. index' \in [Uris -> Entries]
    BY <1>1, <1>12, <2>1, <2>2 DEF Publish, Entries, Text
  <2>4. run' \in [Threads -> Runs]
    BY <1>1, <1>12 DEF Publish, Runs
  <2> QED BY <1>1, <1>12, <2>3, <2>4 DEF Publish, Typed
<1>13. ASSUME EnsureStart(t) PROVE Typed'
  BY <1>1, <1>13 DEF EnsureStart, Tasks, Typed
<1>14. ASSUME EnsureEnd(t) PROVE Typed'
  BY <1>1, <1>14 DEF EnsureEnd, Tasks, Typed
<1>15. CASE UNCHANGED vars
  BY <1>1, <1>15 DEF vars, Typed
<1> QED
  BY <1>2, <1>3, <1>5, <1>6, <1>7, <1>8, <1>9, <1>10, <1>11, <1>12, <1>13, <1>14, <1>15
  DEF Next, Thread

-----------------------------------------------------------------------------
(* The fast path                                                            *)

(* What an entry is compared with depends on the store only.                *)
LEMMA CurrentKept ==
    ASSUME content' = content, NEW u, index'[u] = index[u]
    PROVE  Current(u)' = Current(u)
BY Resolved DEF Current

LEMMA AnalysingKept ==
    ASSUME content' = content, NEW r
    PROVE  /\ Analysing(r)' = Analysing(r)
           /\ Publishing(r)' = Publishing(r)
BY Resolved DEF Analysing, Publishing

(* What an analysis has collected when it is done is what resolves now.     *)
LEMMA FingerprintsDirect ==
    ASSUME NEW r, Analysing(r)
    PROVE  Fingerprints(r) = Direct(r.text)
<1>1. \A c \in r.consumed : c = <<c[1], Owner(c[1])>>
  BY DEF Analysing
<1>2. Consumed(r) \subseteq Direct(r.text)
  BY <1>1 DEF Consumed, Direct
<1>3. ASSUME NEW d \in Direct(r.text), NEW c \in Consumed(r), c[1] = d[1]
      PROVE  d \in Consumed(r)
  <2>1. c \in r.consumed /\ c = <<c[1], Owner(c[1])>>
    BY <1>1 DEF Consumed
  <2>2. d = <<d[1], Owner(d[1])>>
    BY DEF Direct
  <2> QED BY <1>3, <2>1, <2>2
<1> QED BY <1>2, <1>3 DEF Fingerprints

(* An analysis begins with nothing consumed.                                *)
LEMMA AnalyseStarts ==
    ASSUME ResidentAssumption, Typed, NEW t \in Threads, NEW u \in Uris, Analyse(t, u)
    PROVE  /\ run'[t] = [op |-> "analyse", uri |-> u, text |-> content[u],
                         consumed |-> {}, todo |-> UsesOf[content[u]]]
           /\ Analysing(run'[t])
<1>1. run'[t] = [op |-> "analyse", uri |-> u, text |-> content[u],
                 consumed |-> {}, todo |-> UsesOf[content[u]]]
  BY DEF Analyse, Typed
<1> QED BY <1>1 DEF Analysing

(* It resolves a module as it is.                                           *)
LEMMA AnalysisGoesOn ==
    ASSUME NEW r, Analysing(r), NEW m
    PROVE  Analysing(After(r, m))
<1> DEFINE a == After(r, m)
           p == <<m, Owner(m)>>
<1>1. a.uri = r.uri /\ a.text = r.text /\ a.consumed = r.consumed \cup {p}
  BY DEF After
<1>2. p = <<p[1], Owner(p[1])>>
  OBVIOUS
<1> HIDE DEF a, p
<1>3. \A c \in a.consumed : c = <<c[1], Owner(c[1])>>
  BY <1>1, <1>2 DEF Analysing
<1>4. a.text = content[a.uri]
  BY <1>1 DEF Analysing
<1> QED BY <1>3, <1>4 DEF Analysing, a

(* What is published is current.                                            *)
LEMMA PublishMakesCurrent ==
    ASSUME ResidentAssumption, NEW t \in Threads, Typed, Under(t), Publish(t),
           NEW w \in Uris, w = run[t].uri
    PROVE  /\ Current(w)'
           /\ run[t].text = content[w] /\ run[t].deps = Direct(content[w])
           /\ index'[w] = [text |-> run[t].text, deps |-> run[t].deps,
                           edges |-> {d[2].uri : d \in Direct(content[w])}]
<1>1. content' = content /\ run[t].op = "publish" /\ run[t].text \in Contents
  BY RunForms DEF Publish, Typed
<1>2. run[t].text = content[w] /\ run[t].deps = Direct(content[w])
  BY <1>1 DEF Under, Publishing
<1>3. index'[w] = [text |-> run[t].text, deps |-> run[t].deps,
                   edges |-> {d[2].uri : d \in Direct(content[w])}]
  BY <1>2 DEF Publish, Typed
<1>4. index'[w].text = content[w] /\ index'[w].deps = Direct(content[w])
  BY <1>2, <1>3
<1>5. index'[w] # NoEntry
  BY <1>1, <1>2, <1>4 DEF NoEntry, ResidentAssumption
<1>6. Current(w)'
  BY <1>1, <1>4, <1>5, Resolved DEF Current
<1> QED BY <1>2, <1>3, <1>6

LEMMA FastInit ==
    ASSUME ResidentAssumption, NEW t, Threads = {t}, Init
    PROVE  FastInv(t)
<1>1. Typed
  BY TypedInit
<1> QED BY <1>1 DEF Init, FastInv, Under, FastPathSound, Idle, NoTask

(* What the index holds stays current while neither it nor the store moves. *)
LEMMA PassedKept ==
    ASSUME content' = content, index' = index
    PROVE  /\ \A u : Current(u)' = Current(u)
           /\ ensured' = ensured => FastPathSound' = FastPathSound
           /\ \A t : task'[t] = task[t] => Passed(t)' = Passed(t)
<1>1. \A u : Current(u)' = Current(u)
  BY CurrentKept
<1> QED BY <1>1 DEF FastPathSound, Passed

LEMMA FastKept ==
    ASSUME ResidentAssumption, NEW t, Threads = {t}, FastInv(t), [Next]_vars
    PROVE  FastInv(t)'
<1>1. Typed /\ Typed' /\ t \in Threads /\ run[t] \in Runs /\ task[t] \in Tasks
  BY TypedKept DEF FastInv, Typed
<1>2. FastPathSound /\ Under(t)
  BY DEF FastInv
<1>3. task[t].op = "ensure" => ~task[t].moved /\ (~task[t].failed => Passed(t))
  BY DEF FastInv
<1>4. ASSUME NEW u \in Uris, NEW text \in Text, Commit(t, u, text) PROVE FastInv(t)'
  <2>1. task' = task /\ ensured' = FALSE /\ task[t] = NoTask
    BY <1>1, <1>4, NoTaskMoves DEF Commit, Free, Typed
  <2>2. run'[t].op = "notify"
    BY <1>1, <1>4 DEF Commit, Typed
  <2> QED BY <1>1, <2>1, <2>2 DEF FastInv, Under, FastPathSound, NoTask
<1>5. ASSUME NEW u \in Uris, NEW text \in Text, Load(t, u, text) PROVE FastInv(t)'
  <2>1. task' = task /\ ensured' = FALSE /\ task[t] = NoTask
    BY <1>1, <1>5, NoTaskMoves DEF Load, Free, Typed
  <2>2. run'[t].op = "idle"
    BY <1>1, <1>5 DEF Load, Typed, Free, Idle
  <2> QED BY <1>1, <2>1, <2>2 DEF FastInv, Under, FastPathSound, NoTask
<1>6. ASSUME NEW u \in Uris, Request(t, u) PROVE FastInv(t)'
  <2>1. content' = content /\ index' = index /\ ensured' = ensured /\ task' = task
    BY <1>6 DEF Request
  <2>0. Analyse(t, u)
    BY <1>6 DEF Request
  <2>2. run'[t].op = "analyse" /\ Analysing(run'[t])
    <3>1. /\ run'[t] = [op |-> "analyse", uri |-> u, text |-> content[u],
                        consumed |-> {}, todo |-> UsesOf[content[u]]]
          /\ Analysing(run'[t])
      BY <1>1, <2>0, AnalyseStarts
    <3> QED BY <3>1
  <2>3. Under(t)'
    BY <2>1, <2>2, AnalysingKept DEF Under
  <2> QED BY <1>1, <1>2, <1>3, <2>1, <2>3, PassedKept DEF FastInv
<1>7. ASSUME NEW u \in Uris, EnsureRepair(t, u) PROVE FastInv(t)'
  <2>1. content' = content /\ index' = index /\ ensured' = ensured
    BY <1>7 DEF EnsureRepair
  <2>0. Analyse(t, u)
    BY <1>7 DEF EnsureRepair
  <2>2. run'[t].op = "analyse" /\ Analysing(run'[t])
    <3>1. /\ run'[t] = [op |-> "analyse", uri |-> u, text |-> content[u],
                        consumed |-> {}, todo |-> UsesOf[content[u]]]
          /\ Analysing(run'[t])
      BY <1>1, <2>0, AnalyseStarts
    <3> QED BY <3>1
  <2>3. Under(t)'
    BY <2>1, <2>2, AnalysingKept DEF Under
  <2>4. task'[t].failed = task[t].failed /\ task'[t].moved = task[t].moved
        /\ task'[t].todo = task[t].todo /\ task[t].op = "ensure"
    BY <1>1, <1>7, RepairLeaves DEF Typed, EnsureRepair, Ensuring
  <2>5. Passed(t)' = Passed(t)
    BY <2>1, <2>4, PassedKept DEF Passed
  <2> QED BY <1>1, <1>2, <1>3, <2>1, <2>3, <2>4, <2>5, PassedKept DEF FastInv
<1>8. ASSUME NEW u \in Uris, EnsureNext(t, u) PROVE FastInv(t)'
  <2>1. /\ content' = content /\ ensured' = ensured /\ run' = run /\ run[t] = Idle
        /\ task[t].op = "ensure"
    BY <1>8 DEF EnsureNext, Ensuring
  <2>2. task'[t] = Onward(task[t], u)
    BY <1>1, <1>8, NextLeaves DEF Typed
  <2>3. \A v \in Uris : content[v] # None => index'[v] = index[v]
    BY <1>1, <1>8 DEF EnsureNext, Typed
  <2>4. \A v \in Uris : content[v] # None => Current(v)' = Current(v)
    BY <2>1, <2>3, CurrentKept
  <2>5. FastPathSound'
    BY <1>2, <2>1, <2>4 DEF FastPathSound
  <2>6. ~task'[t].moved
    BY <1>3, <2>1, <2>2 DEF Onward
  <2>7. ASSUME ~task'[t].failed PROVE Passed(t)'
    <3>0. task'[t].failed = (task[t].failed \/ ~Current(u))
      BY <2>2 DEF Onward
    <3>1. ~task[t].failed /\ Current(u)
      BY <2>7, <3>0
    <3>2. task'[t].todo = task[t].todo \ {u}
      BY <2>2 DEF Onward
    <3> QED BY <1>3, <2>1, <2>4, <3>1, <3>2 DEF Passed
  <2>8. Under(t)'
    BY <2>1 DEF Under, Idle
  <2> QED BY <1>1, <2>5, <2>6, <2>7, <2>8 DEF FastInv
<1>9. ASSUME DropAnalyses(t) PROVE FastInv(t)'
  <2>1. /\ content' = content /\ ensured' = ensured /\ task' = task /\ run[t].op = "notify"
    BY <1>9 DEF DropAnalyses
  <2>2. run'[t].op = "drop"
    BY <1>1, <1>9 DEF DropAnalyses, Typed
  <2>3. ~ensured /\ task[t] = NoTask
    BY <1>2, <2>1 DEF Under
  <2> QED BY <1>1, <2>1, <2>2, <2>3 DEF FastInv, Under, FastPathSound, NoTask
<1>10. ASSUME DropEntries(t) PROVE FastInv(t)'
  <2>1. /\ content' = content /\ ensured' = ensured /\ task' = task /\ run[t].op = "drop"
    BY <1>10 DEF DropEntries
  <2>2. run'[t].op = "idle"
    BY <1>1, <1>10 DEF DropEntries, Typed, Idle
  <2>3. ~ensured /\ task[t] = NoTask
    BY <1>2, <2>1 DEF Under
  <2> QED BY <1>1, <2>1, <2>2, <2>3 DEF FastInv, Under, FastPathSound, NoTask
<1>11. ASSUME Resolve(t) PROVE FastInv(t)'
  <2>1. /\ content' = content /\ index' = index /\ ensured' = ensured /\ task' = task
        /\ run[t].op = "analyse"
    BY <1>11 DEF Resolve
  <2>2. PICK m \in run[t].todo : run' = [run EXCEPT ![t] = After(run[t], m)]
    BY <1>1, <1>11, ResolveLeaves DEF Typed
  <2>3. run[t].text \in Contents /\ Analysing(run[t])
    BY <1>1, <1>2, <2>1, RunForms DEF Under
  <2>4. run'[t] = After(run[t], m)
    BY <1>1, <2>2 DEF Typed
  <2>5. Analysing(run'[t])
    BY <1>1, <2>3, <2>4, AnalysisGoesOn
  <2>6. run'[t].op = "analyse"
    BY <2>4 DEF After
  <2>7. Under(t)'
    BY <2>1, <2>5, <2>6, AnalysingKept DEF Under
  <2> QED BY <1>1, <1>2, <1>3, <2>1, <2>7, PassedKept DEF FastInv
<1>12. ASSUME Keep(t) PROVE FastInv(t)'
  <2>1. /\ content' = content /\ index' = index /\ ensured' = ensured /\ task' = task
        /\ run[t].op = "analyse"
    BY <1>12 DEF Keep
  <2>2. Analysing(run[t])
    BY <1>2, <2>1 DEF Under
  <2>3. run'[t] = [op |-> "publish", uri |-> run[t].uri, text |-> run[t].text,
                   deps |-> Fingerprints(run[t])]
    BY <1>1, <1>12, <2>2 DEF Keep, Analysing, Typed
  <2>4. Publishing(run'[t])
    BY <2>2, <2>3, FingerprintsDirect DEF Publishing, Analysing
  <2>5. Under(t)'
    BY <2>1, <2>3, <2>4, AnalysingKept DEF Under
  <2> QED BY <1>1, <1>2, <1>3, <2>1, <2>5, PassedKept DEF FastInv
<1>13. ASSUME Publish(t) PROVE FastInv(t)'
  <2>1. /\ content' = content /\ ensured' = ensured /\ task' = task
        /\ run[t].op = "publish"
    BY <1>13 DEF Publish
  <2>2. PICK w \in Uris : w = run[t].uri
    BY <1>1, <2>1, RunForms
  <2>6. Current(w)'
    BY <1>1, <1>2, <1>13, <2>2, PublishMakesCurrent
  <2>7. \A v \in Uris \ {w} : Current(v)' = Current(v)
    <3>1. \A v \in Uris \ {w} : index'[v] = index[v]
      BY <1>1, <1>13, <2>2 DEF Publish, Typed
    <3> QED BY <2>1, <3>1, CurrentKept
  <2>8. FastPathSound'
    BY <1>2, <2>1, <2>6, <2>7 DEF FastPathSound
  <2>9. Passed(t) => Passed(t)'
    BY <2>1, <2>6, <2>7 DEF Passed
  <2>10. run'[t].op = "idle"
    BY <1>1, <1>13 DEF Publish, Typed, Idle
  <2>11. Under(t)'
    BY <2>10 DEF Under
  <2> QED BY <1>1, <1>3, <2>1, <2>8, <2>9, <2>11 DEF FastInv
<1>14. ASSUME EnsureStart(t) PROVE FastInv(t)'
  <2>1. /\ content' = content /\ index' = index /\ ensured' = ensured /\ run' = run
        /\ run[t] = Idle
    BY <1>14 DEF EnsureStart, Free
  <2>2. task'[t] = [op |-> "ensure", tried |-> FALSE, failed |-> FALSE, moved |-> FALSE,
                    todo |-> {u \in Uris : content[u] # None}]
    BY <1>1, <1>14 DEF EnsureStart, Typed
  <2>3. Passed(t)'
    BY <2>1, <2>2 DEF Passed
  <2>4. Under(t)'
    BY <2>1 DEF Under, Idle
  <2> QED BY <1>1, <1>2, <2>1, <2>2, <2>3, <2>4, PassedKept DEF FastInv
<1>15. ASSUME EnsureEnd(t) PROVE FastInv(t)'
  <2>1. /\ content' = content /\ index' = index /\ run' = run /\ run[t] = Idle
        /\ task[t].op = "ensure" /\ task[t].todo = {}
        /\ ensured' = (ensured \/ (~task[t].failed /\ ~task[t].moved))
    BY <1>15 DEF EnsureEnd
  <2>2. task'[t] = NoTask
    BY <1>1, <1>15 DEF EnsureEnd, Typed
  <2>3. ASSUME ~task[t].failed PROVE \A u \in Uris : content[u] # None => Current(u)
    BY <1>3, <2>1, <2>3 DEF Passed
  <2>4. FastPathSound'
    BY <1>2, <2>1, <2>3, PassedKept DEF FastPathSound
  <2>5. Under(t)'
    BY <2>1 DEF Under, Idle
  <2> QED BY <1>1, <2>2, <2>4, <2>5 DEF FastInv, NoTask
<1>16. CASE UNCHANGED vars
  <2>1. /\ content' = content /\ index' = index /\ ensured' = ensured /\ task' = task
        /\ run' = run
    BY <1>16 DEF vars
  <2>2. Under(t)'
    BY <1>2, <2>1, AnalysingKept DEF Under
  <2> QED BY <1>1, <1>2, <1>3, <2>1, <2>2, PassedKept DEF FastInv
<1> QED
  BY <1>4, <1>5, <1>6, <1>7, <1>8, <1>9, <1>10, <1>11, <1>12, <1>13, <1>14, <1>15, <1>16
  DEF Next, Thread

(* While the store has not moved since the last full ensure, no document is *)
(* missing from the index and no entry is out of date                       *)
(* (ensure_workspace_entries, WorkspaceEntry).                              *)
THEOREM FastPathSoundAlone ==
    ASSUME ResidentAssumption, NEW CONSTANT t, Threads = {t}
    PROVE  Spec => []FastPathSound
<1>1. Init => FastInv(t)
  BY FastInit
<1>2. FastInv(t) /\ [Next]_vars => FastInv(t)'
  BY FastKept
<1>3. FastInv(t) => FastPathSound
  BY DEF FastInv
<1> QED BY <1>1, <1>2, <1>3, PTL DEF Spec

-----------------------------------------------------------------------------
(* The cached analyses                                                      *)

(* With other threads about, what an analysis consumed need not be what     *)
(* resolves when it is kept, nor what resolves later.  But it is among the  *)
(* fingerprints the analysis is compared by.                                *)
ConsumedRecorded ==
    /\ cache = [u \in Uris |-> cache[u]]
    /\ \A u \in Uris : Consumed(cache[u]) \subseteq cache[u].deps

LEMMA RecordedInit == Init => ConsumedRecorded
BY DEF Init, ConsumedRecorded, NoAnalysis, Consumed

(* Keep is the only step that stores an analysis.                           *)
LEMMA KeepRecords ==
    ASSUME ConsumedRecorded, NEW t \in Threads, Keep(t)
    PROVE  ConsumedRecorded'
<1> DEFINE r == run[t]
<1>1. CASE content[r.uri] = r.text
  <2>1. cache' = [cache EXCEPT ![r.uri] =
                    [text |-> r.text, consumed |-> r.consumed, deps |-> Fingerprints(r)]]
    BY <1>1 DEF Keep
  <2>2. cache' = [u \in Uris |-> cache'[u]]
    BY <2>1 DEF ConsumedRecorded
  <2>3. ASSUME NEW u \in Uris, u = r.uri
        PROVE  Consumed(cache'[u]) \subseteq cache'[u].deps
    <3>1. cache'[u] = [text |-> r.text, consumed |-> r.consumed, deps |-> Fingerprints(r)]
      BY <2>1, <2>3 DEF ConsumedRecorded
    <3>2. Consumed(cache'[u]) = Consumed(r) /\ cache'[u].deps = Fingerprints(r)
      BY <3>1 DEF Consumed
    <3>3. Consumed(r) \subseteq Fingerprints(r)
      BY DEF Fingerprints
    <3> QED BY <3>2, <3>3
  <2>4. ASSUME NEW u \in Uris, u # r.uri
        PROVE  cache'[u] = cache[u]
    BY <2>1, <2>4 DEF ConsumedRecorded
  <2> QED BY <2>2, <2>3, <2>4 DEF ConsumedRecorded, Consumed
<1>2. CASE content[r.uri] # r.text
  BY <1>2 DEF Keep, ConsumedRecorded, Consumed
<1> QED BY <1>1, <1>2

LEMMA RecordedKept ==
    ASSUME ConsumedRecorded, [Next]_vars
    PROVE  ConsumedRecorded'
<1>1. ASSUME NEW t \in Threads, DropAnalyses(t) PROVE ConsumedRecorded'
  <2>1. \A u \in Uris : cache'[u] = NoAnalysis \/ cache'[u] = cache[u]
    BY <1>1 DEF DropAnalyses
  <2>2. cache' = [u \in Uris |-> cache'[u]]
    BY <1>1 DEF DropAnalyses
  <2> QED BY <2>1, <2>2 DEF ConsumedRecorded, Consumed, NoAnalysis
<1>2. CASE UNCHANGED cache
  BY <1>2 DEF ConsumedRecorded, Consumed
<1>3. ASSUME NEW t \in Threads, Thread(t) PROVE UNCHANGED cache \/ DropAnalyses(t) \/ Keep(t)
  BY <1>3
  DEF Thread, Commit, Load, Request, EnsureRepair, EnsureNext, DropEntries, Resolve, Publish,
      EnsureStart, EnsureEnd
<1> QED BY <1>1, <1>2, <1>3, KeepRecords DEF Next, vars

(* An analysis that is served took in, of each module its text imports and  *)
(* that it found, the document and text that resolve now, for any number of *)
(* threads and whatever they do while it is made (cached_snapshot,          *)
(* from_consumed).                                                          *)
THEOREM ServedImportsCurrent == Spec => []DirectImportsCurrent
<1>1. ConsumedRecorded => DirectImportsCurrent
  <2> SUFFICES ASSUME ConsumedRecorded, NEW u \in Uris, Cached(u),
                      NEW c \in Consumed(cache[u])
               PROVE  c[2] = Owner(c[1])
    BY DEF DirectImportsCurrent
  <2>1. c \in cache[u].deps
    BY DEF ConsumedRecorded
  <2>2. cache[u].deps = Direct(content[u])
    BY <2>1 DEF Cached
  <2>3. PICK m : c = <<m, Owner(m)>>
    BY <2>1, <2>2 DEF Direct
  <2> QED BY <2>3
<1> QED BY <1>1, RecordedInit, RecordedKept, PTL DEF Spec
=============================================================================
