------------------------- MODULE LanguageKnowledge --------------------------
(***************************************************************************)
(* What an agent is told of the language when it says which version of the *)
(* capability index it knows                                               *)
(* (crates/service-core/src/language_knowledge.rs query, identity_delta).  *)
(*                                                                         *)
(* Another repository generates the index and, in a second file beside it, *)
(* the differences of its last versions.  A query reads the index of the   *)
(* first place that has a valid one, then the history of the same place;   *)
(* the generator may write either file at any time in between.             *)
(*                                                                         *)
(* A version is its content, and so is its identity: what every item (a    *)
(* module, an intrinsic, an effect...) was at it, 0 when it was not there. *)
(***************************************************************************)
EXTENDS Sequences, FiniteSets, SequencesExt

CONSTANTS
    Items,          \* names, in the order of Nat
    Contents,       \* bound: versions the generator writes: functions on Items,
                    \*   0 where an item is not there
    Retention,      \* of the history
    MaxVersions,    \* bound: how often the generator runs
    Requests,       \* max_items an agent asks for
    Invalid         \* a file that fails load or load_delta_history

VARIABLES
    generated,      \* external: the newest version and its history
    index,          \* place -> the index file there
    history,        \* place -> the history file there
    versions,       \* how often the generator has run
    query           \* the agent's query

vars == <<generated, index, history, versions, query>>

NoneHeld == [i \in Items |-> 0]
Places == 1..2      \* the candidates of discover, in its order

Idle == [step |-> "idle"]

Init ==
    /\ \E content \in Contents : generated = [content |-> content, deltas |-> << >>]
    /\ \E other \in {NoneHeld, Invalid} :
          index = [p \in Places |-> IF p = 1 THEN generated.content ELSE other]
    /\ history = [p \in Places |-> << >>]
    /\ versions = 0
    /\ query = Idle

-----------------------------------------------------------------------------
(* The generator (external) writes one file after the other, and a reader  *)
(* may find a file half written.                                           *)

Delta(a, b) ==
    [from |-> a, to |-> b,
     added   |-> {i \in Items : a[i] = 0 /\ b[i] # 0},
     changed |-> {i \in Items : a[i] # 0 /\ b[i] # 0 /\ a[i] # b[i]},
     removed |-> {i \in Items : a[i] # 0 /\ b[i] = 0}]

Retained(deltas) ==
    IF Len(deltas) > Retention THEN Tail(deltas) ELSE deltas

Generate ==
    /\ versions < MaxVersions
    /\ index[1] = generated.content /\ history[1] = generated.deltas
    /\ versions' = versions + 1
    /\ \E content \in Contents \ {generated.content} :
          generated' = [content |-> content,
                        deltas  |-> Retained(Append(generated.deltas,
                                                    Delta(generated.content, content)))]
    /\ UNCHANGED <<index, history, query>>

WriteIndex ==
    /\ index[1] # generated.content
    /\ \E file \in {generated.content, Invalid} : index' = [index EXCEPT ![1] = file]
    /\ UNCHANGED <<generated, history, versions, query>>

WriteHistory ==
    /\ history[1] # generated.deltas
    /\ \E file \in {generated.deltas, Invalid} : history' = [history EXCEPT ![1] = file]
    /\ UNCHANGED <<generated, index, versions, query>>

-----------------------------------------------------------------------------
(* query                                                                   *)

(* discover: the first candidate that loads.                               *)
ValidPlaces == {p \in Places : index[p] # Invalid}

Unsupported ==
    /\ query = Idle
    /\ ValidPlaces = {}
    /\ query' = [step |-> "refused"]
    /\ UNCHANGED <<generated, index, history, versions>>

Ask ==
    /\ query = Idle
    /\ \E known \in Contents, limit \in Requests, p \in ValidPlaces :
          /\ \A q \in ValidPlaces : p <= q
          /\ query' = [step |-> IF known = index[p] THEN "unchanged" ELSE "history",
                       known |-> known, limit |-> limit, place |-> p, read |-> index[p],
                       deltas |-> << >>, chain |-> << >>, complete |-> TRUE]
    /\ UNCHANGED <<generated, index, history, versions>>

(* The current projection in full: the items up to the limit.              *)
Full == [query EXCEPT !.step = "full",
             !.complete = Cardinality({i \in Items : query.read[i] # 0}) <= query.limit]

(* load_delta_history *)
ReadHistory ==
    /\ query.step = "history"
    /\ LET file == history[query.place]
       IN  query' = IF file = Invalid THEN Full
                    ELSE [query EXCEPT !.step = "follow", !.deltas = file]
    /\ UNCHANGED <<generated, index, history, versions>>

(* identity_delta walks from the version read back to the one known,       *)
(* newest difference first, at most Retention of them.                     *)
Cursor == IF query.chain = << >> THEN query.read ELSE Head(query.chain).from

Newest(of) == SelectLastInSeq(query.deltas, LAMBDA d : d.to = of)

Follow ==
    /\ query.step = "follow"
    /\ Cursor # query.known
    /\ LET n == Newest(Cursor)
       IN  query' = IF n = 0 \/ Len(query.chain) = Retention THEN Full
                    ELSE [query EXCEPT !.chain = <<query.deltas[n]>> \o @]
    /\ UNCHANGED <<generated, index, history, versions>>

(* The differences of the chain, merged, and cut at the limit.             *)
AllOfOldest(chain, kind) == Head(chain)[kind]

All(chain, kind) == UNION {chain[k][kind] : k \in DOMAIN chain}

Cut(items, limit) == {i \in items : Cardinality({j \in items : j <= i}) <= limit}

Merged ==
    [kind \in {"added", "changed", "removed"} |-> Cut(All(query.chain, kind), query.limit)]

Merge ==
    /\ query.step = "follow"
    /\ Cursor = query.known
    /\ query' = [query EXCEPT !.step = "delta"]
    /\ UNCHANGED <<generated, index, history, versions>>

(* The agent takes the answer in and may ask again.                        *)
Take ==
    /\ query.step \in {"refused", "unchanged", "full", "delta"}
    /\ query' = Idle
    /\ UNCHANGED <<generated, index, history, versions>>

Next ==
    \/ Generate \/ WriteIndex \/ WriteHistory
    \/ Unsupported \/ Ask \/ ReadHistory \/ Follow \/ Merge \/ Take

Spec == Init /\ [][Next]_vars

-----------------------------------------------------------------------------
(* Properties                                                              *)

Differing == {i \in Items : query.known[i] # query.read[i]}
Whole == \A kind \in {"added", "changed", "removed"} : Cardinality(Merged[kind]) < query.limit

(* A difference that was not cut tells of every item in which the version  *)
(* the agent knows and the one it is given differ, whatever versions lie   *)
(* between them, come back or have been forgotten, and whenever the two    *)
(* files were written; and what it tells in one way only is so             *)
(* (identity_delta, merge_change_set).                                     *)
DeltaTellsEveryChange ==
    (query.step = "delta" /\ Whole) =>
        LET t == Merged
        IN  /\ Differing \subseteq t.added \cup t.changed \cup t.removed
            /\ \A i \in t.added \ (t.removed \cup t.changed) :
                  query.known[i] = 0 /\ query.read[i] # 0
            /\ \A i \in t.removed \ (t.added \cup t.changed) :
                  query.known[i] # 0 /\ query.read[i] = 0
            /\ \A i \in t.changed \ (t.added \cup t.removed) :
                  query.known[i] # 0 /\ query.read[i] # 0

(* A difference that says it is complete tells of every change             *)
(* (language_knowledge.rs query, "complete: true").  It does not hold: the *)
(* limit cuts a difference without a word.                                 *)
CompleteDeltaIsWhole ==
    (query.step = "delta" /\ query.complete) =>
        Differing \subseteq UNION {Merged[kind] : kind \in {"added", "changed", "removed"}}
=============================================================================
