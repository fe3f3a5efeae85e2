----------------------------- MODULE RelationWalk ---------------------------
(***************************************************************************)
(* The bounded walks of the import and call relations                      *)
(* (crates/service-core/src/queries.rs, NativeRelationWalk and the three   *)
(* transitive_ queries; native_relation.rs, execute_walk_advance_batch).   *)
(*                                                                         *)
(* The walk goes one level at a time.  Identities get numeric codes as     *)
(* they are met, codes are sent to the kernel in batches, and the kernel   *)
(* admits first visits.  The index is locked for the whole walk, but which *)
(* document a module resolves to is asked while it runs, so an edge may    *)
(* come or go between two candidates.                                      *)
(***************************************************************************)
EXTENDS Integers, Sequences, FiniteSets

CONSTANTS
    NodeOrder,      \* the identities, in the order of the index
    Root,           \* the identity asked about
    Edges,          \* the pairs of identities that may be related
    BatchCapacity,  \* codes of one batch (64)
    ResultCapacity, \* codes of one walk, and nodes of one answer (1024)
    MaxDepth,       \* depth a caller may ask for (16)
    MaxMoves        \* bound: edges that come or go during the walk

Nodes == {NodeOrder[i] : i \in DOMAIN NodeOrder}
RootCode == 0

VARIABLES
    edges,      \* the relation, as the index and the store resolve it now
    ever,       \* history: edges there were at some time of the walk
    always,     \* history: edges there were all the time
    moves,      \* history: how often an edge came or went
    asked,      \* the depth asked for
    at,         \* "level" begins one, "walk" is in one; "done" or "failed"
    depth,      \* the level in progress
    todo,       \* pairs of a frontier node and a node still to be looked at
    codes,      \* identity_by_code, from 1
    batch,      \* codes not yet sent
    met,        \* had_candidates of the level
    kernel,     \* WalkState: codes seen, frontier, its level
    level,      \* per node, the level it was admitted at; 0 if it was not
    complete

relation == <<edges, ever, always, moves>>
walk == <<asked, at, depth, todo, codes, batch, met, kernel, level, complete>>
vars == <<relation, walk>>

Init ==
    /\ edges \in SUBSET Edges
    /\ ever = edges /\ always = edges /\ moves = 0
    /\ asked \in 1 .. MaxDepth
    /\ at = "level" /\ depth = 1 /\ todo = << >>
    /\ codes = << >> /\ batch = << >> /\ met = FALSE
    /\ kernel = [seen |-> {RootCode}, frontier |-> <<RootCode>>, level |-> 0]
    /\ level = [n \in Nodes |-> 0]
    /\ complete = TRUE

(* A module changes its owner: an edge loses its target or gets one.       *)
Move(e) ==
    /\ at \in {"level", "walk"}
    /\ moves < MaxMoves
    /\ edges' = IF e \in edges THEN edges \ {e} ELSE edges \cup {e}
    /\ ever' = ever \cup edges' /\ always' = always \cap edges'
    /\ moves' = moves + 1
    /\ UNCHANGED walk

-----------------------------------------------------------------------------
(* The kernel                                                              *)

Node(code, table) == IF code = RootCode THEN Root ELSE table[code]

(* First visits of a batch, in its order, while the budget lasts.          *)
AllOf(sent) == DOMAIN sent

FirstVisits(sent) ==
    {i \in DOMAIN sent :
        /\ sent[i] \notin kernel.seen
        /\ \A j \in 1 .. i - 1 : sent[j] # sent[i]
        /\ Cardinality(kernel.seen \cup {sent[j] : j \in 1 .. i}) <= ResultCapacity + 1}

(* The k-th of a set of positions.                                         *)
Kth(positions, k) == CHOOSE i \in positions : Cardinality({j \in positions : j <= i}) = k

(* advance_relation_walk: first visits join the frontier of their level.   *)
Advance(sent, admitted) ==
    LET new == [k \in 1 .. Cardinality(admitted) |-> sent[Kth(admitted, k)]]
    IN  /\ kernel' = [seen |-> kernel.seen \cup {sent[i] : i \in DOMAIN sent},
                      frontier |-> (IF kernel.level = depth THEN kernel.frontier ELSE << >>) \o new,
                      level |-> depth]
        /\ level' = [n \in Nodes |->
              IF \E i \in admitted : Node(sent[i], codes') = n THEN depth ELSE level[n]]

Flush(sent) ==
    IF sent = << >> THEN UNCHANGED <<kernel, level>> ELSE Advance(sent, FirstVisits(sent))

-----------------------------------------------------------------------------
(* The walk                                                                *)

(* current_frontier and the candidates of its nodes, in order.             *)
BeginLevel ==
    /\ at = "level"
    /\ LET n == Len(NodeOrder)
           frontier == kernel.frontier
       IN  todo' = [i \in 1 .. Len(frontier) * n |->
              <<Node(frontier[((i - 1) \div n) + 1], codes), NodeOrder[((i - 1) % n) + 1]>>]
    /\ at' = IF depth > asked \/ kernel.frontier = << >> THEN "done" ELSE "walk"
    /\ met' = FALSE
    /\ UNCHANGED <<relation, asked, depth, codes, batch, kernel, level, complete>>

NoEdge ==
    /\ at = "walk" /\ todo # << >>
    /\ Head(todo) \notin edges
    /\ todo' = Tail(todo)
    /\ UNCHANGED <<relation, asked, at, depth, codes, batch, met, kernel, level, complete>>

Known == {Root} \cup {codes[i] : i \in DOMAIN codes}

(* A candidate with a code, or one that gets the next one, is pushed; a    *)
(* full batch is sent.                                                     *)
Candidate ==
    /\ at = "walk" /\ todo # << >>
    /\ Head(todo) \in edges
    /\ LET n == Head(todo)[2]
           new == n \notin Known
       IN  /\ new => Len(codes) < ResultCapacity
           /\ codes' = IF new THEN Append(codes, n) ELSE codes
           /\ LET code == IF n = Root THEN RootCode
                          ELSE CHOOSE i \in DOMAIN codes' : codes'[i] = n
                  sent == Append(batch, code)
              IN  IF Len(sent) = BatchCapacity
                  THEN batch' = << >> /\ Flush(sent)
                  ELSE batch' = sent /\ UNCHANGED <<kernel, level>>
    /\ todo' = Tail(todo)
    /\ met' = TRUE
    /\ UNCHANGED <<relation, asked, at, depth, complete>>

(* Out of codes: what is pending is sent and the walk stops.               *)
OutOfCodes ==
    /\ at = "walk" /\ todo # << >>
    /\ Head(todo) \in edges
    /\ Head(todo)[2] \notin Known
    /\ Len(codes) = ResultCapacity
    /\ codes' = codes
    /\ Flush(batch)
    /\ batch' = << >> /\ todo' = << >> /\ met' = TRUE
    /\ at' = "done" /\ complete' = FALSE
    /\ UNCHANGED <<relation, asked, depth>>

(* The level is over: what is pending is sent, an empty one is the last.   *)
EndLevel ==
    /\ at = "walk" /\ todo = << >>
    /\ codes' = codes
    /\ Flush(batch)
    /\ batch' = << >>
    /\ at' = IF ~met \/ kernel'.frontier = << >> THEN "done" ELSE "level"
    /\ depth' = depth + 1
    /\ UNCHANGED <<relation, asked, todo, met, complete>>

(* A kernel that was compiled anew refuses the state of the other one.     *)
StaleKernel ==
    /\ at = "walk"
    /\ at' = "failed"
    /\ UNCHANGED <<relation, asked, depth, todo, codes, batch, met, kernel, level, complete>>

Next ==
    \/ \E e \in Edges : Move(e)
    \/ BeginLevel
    \/ NoEdge
    \/ Candidate
    \/ OutOfCodes
    \/ EndLevel
    \/ StaleKernel

Spec == Init /\ [][Next]_vars

-----------------------------------------------------------------------------
(* Properties                                                              *)

Reached == {n \in Nodes : level[n] > 0}
LevelOf(n) == IF n = Root THEN 0 ELSE level[n]
From(n) == n \in Reached \cup {Root}

(* An answer holds every node once, never the root, each one edge from a   *)
(* node of the level before.  If it claims to be complete, whatever an     *)
(* edge of the whole walk leads to within the depth asked is in it, no     *)
(* further than that edge says; if it does not, it is full and something   *)
(* is missing (queries.rs transitive_dependents, transitive_dependencies,  *)
(* transitive_callers).                                                    *)
WalkExact ==
    at = "done" =>
        /\ level[Root] = 0
        /\ \A n \in Reached : \E e \in ever :
              e[2] = n /\ From(e[1]) /\ LevelOf(e[1]) = level[n] - 1
        /\ complete => \A e \in always :
              From(e[1]) /\ LevelOf(e[1]) < asked /\ e[2] # Root =>
                  level[e[2]] \in 1 .. LevelOf(e[1]) + 1
        /\ ~complete =>
              /\ Cardinality(Reached) = ResultCapacity
              /\ \E e \in ever : From(e[1]) /\ ~From(e[2])
=============================================================================
