------------------------------ MODULE MCQueries -----------------------------
(***************************************************************************)
(* What a request is answered from and with, on small instances: the       *)
(* symbol index and seven models of parts that share no state with it nor  *)
(* with each other, side by side.  A behaviour is one of the part subject  *)
(* names; the other parts stay as they began.                              *)
(***************************************************************************)
EXTENDS SymbolIndex, TLC

CONSTANTS NoModule, ChunkBytes, CheckpointBytes, LookaheadBytes, KernelPolicies

VARIABLES
    subject,
    editor, service, refused, mixed,                        \* EditorMirror
    layout, typed,                                          \* Formatting
    content, analyses, resident, ensured, run, task,        \* ResidentAnalysis
    edges, ever, always, moves, asked, at, depth, todo,     \* RelationWalk
    codes, frontierBatch, met, kernel, level, complete,
    kind, needle, given, batch, hits, sent, done,           \* NativeWindows
    library, changes, policy, kernels, request, current,     \* KernelCache
    findings, taken, envelope, selection                    \* CapsulePolicy

-----------------------------------------------------------------------------
(* SymbolIndex: a declares functions that b uses; g stands at a place      *)
(* where another text declares f, h is the name a rename asks for, and one *)
(* use is outside of every declaration.                                    *)

MCUriOrder == <<"a", "b">>

Function(place, name) == [place |-> place, kind |-> "function", name |-> name]
Use(site, owner, name, caller) ==
    [site |-> site, owner |-> owner, name |-> name, caller |-> caller]

MCTextsOf ==
    "a" :> {[module |-> "ma", decls |-> <<Function(1, "f"), Function(2, "g")>>,
             uses |-> {Use(7, "a", "f", 2)}],
            [module |-> "ma", decls |-> <<Function(2, "f")>>, uses |-> {}]}
    @@ "b" :> {[module |-> "mb", decls |-> <<Function(1, "f")>>,
                uses |-> {Use(8, "b", "f", 1)}],
               [module |-> "mb", decls |-> <<Function(4, "h"), Function(3, "main")>>,
                uses |-> {Use(5, "a", "f", 2), Use(6, "a", "f", 0)}]}

-----------------------------------------------------------------------------
Mirror == INSTANCE EditorMirror WITH
    CutScalarIsValid <- TRUE, MaxScalars <- 4, MaxPair <- 2, MaxBytes <- 14,
    Inserts <- {<< >>, <<1>>, <<3>>, <<4>>, <<10>>, <<13, 10>>}

Layout == INSTANCE Formatting WITH
    text <- layout, IndentWidth <- 1, MaxTyped <- 4,
    Symbols <- {" ", "{", "}", "//", "/*", "*/", "requires", "wide"}

(* Five documents: a may take over the module that b declares, c may       *)
(* appear and imports both, d imports e, and e may be gone.                *)
Draft(m, uses, v) == [module |-> m, uses |-> uses, version |-> v]
Drafts ==
    "a" :> {Draft("D", {}, 1), Draft("A", {}, 2)}
    @@ "b" :> {Draft("A", {}, 1)}
    @@ "c" :> {None, Draft("C", {"A", "B"}, 1)}
    @@ "d" :> {Draft("B", {"E"}, v) : v \in 1 .. 2}
    @@ "e" :> {None} \cup {Draft("E", {}, v) : v \in 1 .. 2}
Contents == UNION {Drafts[u] \ {None} : u \in DOMAIN Drafts}

Residents == INSTANCE ResidentAnalysis WITH
    UriOrder <- <<"a", "b", "c", "d", "e">>, Modules <- {"A", "B", "C", "D", "E"},
    ModuleOf <- [x \in Contents |-> x.module], UsesOf <- [x \in Contents |-> x.uses],
    NewDocuments <- {"c"}, Unindexed <- FALSE, Threads <- {"t"},
    cache <- analyses, index <- resident

(* Two request threads while the module f imports comes, moves and goes.   *)
RacingDrafts ==
    "f" :> {Draft("F", {"M"}, 1)}
    @@ "g" :> {None, Draft("M", {}, 1), Draft("M", {}, 2)}
RacingTexts == UNION {RacingDrafts[u] \ {None} : u \in DOMAIN RacingDrafts}

Racing == INSTANCE ResidentAnalysis WITH
    UriOrder <- <<"f", "g">>, Modules <- {"F", "M"}, Drafts <- RacingDrafts,
    Contents <- RacingTexts, ModuleOf <- [x \in RacingTexts |-> x.module],
    UsesOf <- [x \in RacingTexts |-> x.uses],
    NewDocuments <- {"g"}, Unindexed <- TRUE, Threads <- {"t", "s"},
    cache <- analyses, index <- resident

(* Three neighbours of the root and what may relate them, cycles included. *)
Walk == INSTANCE RelationWalk WITH
    NodeOrder <- <<"a", "r", "b", "c">>, Root <- "r",
    Edges <- {<<"r", "a">>, <<"r", "b">>, <<"r", "c">>, <<"a", "b">>, <<"a", "c">>,
              <<"b", "a">>, <<"b", "c">>, <<"c", "r">>},
    BatchCapacity <- 2, ResultCapacity <- 2, MaxDepth <- 3, MaxMoves <- 1,
    batch <- frontierBatch

(* The last name is longer than the kernel takes.                          *)
Name(order, size, match, status) ==
    [order |-> order, size |-> size, match |-> match, status |-> status]

Windows == INSTANCE NativeWindows WITH
    Names <- {Name(1, 1, TRUE, "pass"), Name(2, 2, TRUE, "fail"),
              Name(3, 1, FALSE, "unknown"), Name(4, 3, TRUE, "pass")},
    MaxBytes <- 2, MaxItems <- 3, MaxWork <- 6, MaxHits <- 2, StatusWindow <- 2,
    MaxGiven <- 5

Library == INSTANCE KernelCache WITH
    ModuleOrder <- <<"m1", "m2">>, Versions <- {0, 1}, Threads <- {"t1", "t2"},
    Policies <- KernelPolicies, NamedModules <- 1, MaxChanges <- 2, cache <- kernels

Policy == INSTANCE CapsulePolicy WITH
    Envelope <- 4, MaxActionable <- 2, MaxWatch <- 2, MaxTotal <- 3, MaxFindings <- 5

-----------------------------------------------------------------------------
indexVars == vars
mirrorVars == <<editor, service, refused, mixed>>
layoutVars == <<layout, typed>>
residentVars == <<content, analyses, resident, ensured, run, task>>
walkVars == <<edges, ever, always, moves, asked, at, depth, todo, codes,
              frontierBatch, met, kernel, level, complete>>
windowsVars == <<kind, needle, given, batch, hits, sent, done>>
libraryVars == <<library, changes, policy, kernels, request, current>>
policyVars == <<findings, taken, envelope, selection>>

Subjects ==
    {"index", "mirror", "layout", "residents", "racing", "walk", "windows", "library", "policy"}

(* Where a part has several initial states, all but one are of behaviours  *)
(* that are about it.                                                      *)
MCInit ==
    /\ subject \in Subjects
    /\ IF subject = "index" THEN Init
       ELSE text = [u \in Uris |-> CHOOSE t \in TextsOf[u] : TRUE] /\ Init
    /\ Mirror!Init
    /\ Layout!Init
    /\ IF subject = "residents" THEN Residents!Init
       ELSE IF subject = "racing" THEN Racing!Init
       ELSE content = [u \in DOMAIN Drafts |-> CHOOSE t \in Drafts[u] \ {None} : TRUE]
            /\ Residents!Init
    /\ IF subject = "walk" THEN Walk!Init
       ELSE edges = {} /\ asked = 1 /\ Walk!Init
    /\ IF subject = "windows" THEN Windows!Init
       ELSE kind = "modules" /\ needle = 0 /\ Windows!Init
    /\ IF subject = "library" THEN Library!Init
       ELSE library = [m \in {"m1", "m2"} |-> 0] /\ policy = "capsule" /\ Library!Init
    /\ Policy!Init

IndexNext ==
    /\ subject = "index" /\ Next
    /\ UNCHANGED <<mirrorVars, layoutVars, residentVars, walkVars, windowsVars,
                   libraryVars, policyVars>>
MirrorNext ==
    /\ subject = "mirror" /\ Mirror!Next
    /\ UNCHANGED <<indexVars, layoutVars, residentVars, walkVars, windowsVars,
                   libraryVars, policyVars>>
LayoutNext ==
    /\ subject = "layout" /\ Layout!Next
    /\ UNCHANGED <<indexVars, mirrorVars, residentVars, walkVars, windowsVars,
                   libraryVars, policyVars>>
ResidentsNext ==
    /\ subject = "residents" /\ Residents!Next
    /\ UNCHANGED <<indexVars, mirrorVars, layoutVars, walkVars, windowsVars,
                   libraryVars, policyVars>>
RacingNext ==
    /\ subject = "racing" /\ Racing!Next
    /\ UNCHANGED <<indexVars, mirrorVars, layoutVars, walkVars, windowsVars,
                   libraryVars, policyVars>>
WalkNext ==
    /\ subject = "walk" /\ Walk!Next
    /\ UNCHANGED <<indexVars, mirrorVars, layoutVars, residentVars, windowsVars,
                   libraryVars, policyVars>>
WindowsNext ==
    /\ subject = "windows" /\ Windows!Next
    /\ UNCHANGED <<indexVars, mirrorVars, layoutVars, residentVars, walkVars,
                   libraryVars, policyVars>>
LibraryNext ==
    /\ subject = "library" /\ Library!Next
    /\ UNCHANGED <<indexVars, mirrorVars, layoutVars, residentVars, walkVars,
                   windowsVars, policyVars>>
PolicyNext ==
    /\ subject = "policy" /\ Policy!Next
    /\ UNCHANGED <<indexVars, mirrorVars, layoutVars, residentVars, walkVars,
                   windowsVars, libraryVars>>

MCNext ==
    /\ UNCHANGED subject
    /\ \/ IndexNext \/ MirrorNext \/ LayoutNext \/ ResidentsNext \/ RacingNext
       \/ WalkNext \/ WindowsNext \/ LibraryNext \/ PolicyNext

MCSpec ==
    MCInit /\ [][MCNext]_<<subject, indexVars, mirrorVars, layoutVars, residentVars,
                           walkVars, windowsVars, libraryVars, policyVars>>

-----------------------------------------------------------------------------
(* The properties of the parts, each stated with its part.                 *)

(* At rest the service's copy is the text in the editor (edits.rs          *)
(* apply_one).                                                             *)
Mirrored == subject = "mirror" => Mirror!Mirrored

(* Every position answered is the one plain counting gives (coords.rs).    *)
PositionsExact == subject = "mirror" => Mirror!PositionsExact

(* A formatted text stays as it is and has the lines it had (format.rs     *)
(* format_text).                                                           *)
FormatSettles == subject = "layout" => Layout!FormatSettles

(* An analysis that is served is what a new one would be (queries.rs       *)
(* snapshot, invalidate_transitive_importers).                             *)
SnapshotsHonest == subject = "residents" => Residents!SnapshotsHonest

(* The fast path of ensure_workspace_entries hides nothing out of date.    *)
FastPathSound == subject = "residents" => Residents!FastPathSound

(* An analysis that is served has a current index entry (queries.rs        *)
(* publish_workspace_entry).                                               *)
IndexedWhenCached == subject = "residents" => Residents!IndexedWhenCached

(* An analysis that is served knows its direct imports as they are         *)
(* (queries.rs cached_snapshot, modules.rs from_consumed).                 *)
DirectImportsCurrent == subject = "racing" => Racing!DirectImportsCurrent

(* A walk answers with the nodes it should, or says that it does not       *)
(* (queries.rs transitive_dependents, transitive_callers).                 *)
WalkExact == subject = "walk" => Walk!WalkExact

(* The batches of a query lose, repeat and reorder nothing (queries.rs     *)
(* workspace_symbols, render.rs CompletionCollector).                      *)
WindowsExact == subject = "windows" => Windows!WindowsExact

(* A request is answered with a kernel whose identities were current       *)
(* during it (kernel of ambient.rs, native_relation.rs, native_query.rs).  *)
ServedKernelCurrent == subject = "library" => Library!ServedKernelCurrent

(* A kernel is reused while what it was compiled from is unchanged         *)
(* (native_query.rs kernel).                                               *)
ReusedWhileUnchanged == subject = "library" => Library!ReusedWhileUnchanged

(* A capsule admits the most urgent findings and counts the others         *)
(* (ambient.rs semantic_capsule).                                          *)
CapsuleAdmission == subject = "policy" => Policy!CapsuleAdmission
=============================================================================
