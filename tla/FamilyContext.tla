---------------------------- MODULE FamilyContext ---------------------------
(***************************************************************************)
(* The context an agent asks for when it enters a repository               *)
(* (crates/service-core/src/family_context.rs query): the repository's     *)
(* manifest, validated by another tool, its inventory of obligations, the  *)
(* language's capabilities and the projection of Commons, read one after   *)
(* the other, and one verdict on whether all of it may be relied on.       *)
(*                                                                         *)
(* A manifest is identified by its content.  What a source answers is one  *)
(* of a set of records that say of it what the verdict looks at; its rows  *)
(* are few, or many: more than the response may hold.  AuthorityQuery is   *)
(* how a tool is asked.                                                    *)
(***************************************************************************)
EXTENDS Naturals

CONSTANTS
    Absent,         \* no file, no answer
    Broken,         \* a file that is not JSON
    NoRepository,   \* no repository asked for or named
    Requests,       \* repositories an agent may ask for, or NoRepository
    Manifests,      \* manifests: records of repository, declares (revision and
                    \*   contracts) and inventory: none, bad, declared
    Validations,    \* the validator's verdicts: valid, unidentified, invalid
    Inventories,    \* inventories: records of repository, revision, rows
    Languages,      \* records of complete, inventory, rows
    Projections     \* Commons' answers, see ArchitectureState, PressureState

VARIABLES ask       \* the query: its step, and what it has learnt

vars == <<ask>>

Init ==
    \E r \in Requests, m \in Manifests \cup {Absent, Broken} :
        ask = [step |-> "manifest", requested |-> r, file |-> m, local |-> Absent,
               conformance |-> "unavailable", vouched |-> Absent,
               verification |-> "unavailable", inventory |-> Absent,
               language |-> Absent, commons |-> Absent,
               limitations |-> {}, complete |-> FALSE, state |-> "none"]

-----------------------------------------------------------------------------
(* The manifest and its obligations                                        *)

(* load_repository_manifest, of a file that is not there or not JSON.      *)
NoManifest ==
    /\ ask.step = "manifest"
    /\ ask.file \in {Absent, Broken}
    /\ ask' = [ask EXCEPT !.step = "verification",
                  !.conformance = IF ask.file = Broken THEN "invalid" ELSE "unavailable",
                  !.limitations = @ \cup (IF ask.file = Broken THEN {"manifest"} ELSE {})]

BoundToAny(of) == TRUE

(* A validation counts only if it is of the manifest that was read.        *)
Bound(of) == of = ask.file

(* load_manifest_validation: a validation of the file as it is now, or as  *)
(* it was when a recorded validation was made, or none.                    *)
Validated(of, verdict) ==
    IF ~Bound(of) \/ verdict = Absent THEN "unavailable"
    ELSE IF verdict = "valid" THEN "verified" ELSE "invalid"

ReadManifest ==
    /\ ask.step = "manifest"
    /\ ask.file \in Manifests
    /\ \E of \in Manifests, verdict \in Validations \cup {Absent} :
          LET conformance == Validated(of, verdict)
          IN  ask' = [ask EXCEPT !.step = "verification",
                         !.local = ask.file,
                         !.conformance = conformance,
                         !.vouched = IF verdict = "valid" THEN of ELSE Absent,
                         !.limitations = @ \cup
                             (IF conformance = "verified" /\ ask.file.declares
                                 /\ ask.file.repository # NoRepository
                              THEN {} ELSE {"manifest"})]

(* load_verification_context *)
InventoryState(i) ==
    IF ask.local = Absent THEN "unavailable"
    ELSE CASE ask.local.inventory = "none" -> "not_declared"
           [] ask.local.inventory = "bad" -> "invalid"
           [] ask.local.inventory = "declared" ->
                IF i = Absent THEN "unavailable"
                ELSE IF i = Broken THEN "invalid"
                ELSE IF i.repository # ask.local.repository \/ ~i.revision \/ i.rows = "nameless"
                THEN "invalid"
                ELSE IF i.rows = "many" THEN "truncated" ELSE "current"

Mismatch ==
    /\ ask.requested # NoRepository /\ ask.local # Absent
    /\ ask.local.repository \notin {NoRepository, ask.requested}

ReadInventory ==
    /\ ask.step = "verification"
    /\ \E i \in Inventories \cup {Absent, Broken} :
          ask' = [ask EXCEPT !.step = "language",
                     !.inventory = i,
                     !.verification = InventoryState(i),
                     !.limitations = @
                         \cup (IF InventoryState(i) \in {"invalid", "unavailable"}
                               THEN {"verification"} ELSE {})
                         \cup (IF Mismatch THEN {"mismatch"} ELSE {})]

-----------------------------------------------------------------------------
(* The authorities                                                         *)

AskLanguage ==
    /\ ask.step = "language"
    /\ \E l \in Languages \cup {Absent} :
          ask' = [ask EXCEPT !.step = "commons",
                     !.language = l,
                     !.limitations = @ \cup
                         (IF l = Absent THEN {"language"}
                          ELSE IF ~l.complete THEN {"language"} ELSE {})]

(* The repository Commons is asked about.                                  *)
Repository ==
    IF ask.local # Absent /\ ask.local.repository # NoRepository
    THEN ask.local.repository ELSE ask.requested

Trusted(p) == p.verified /\ p.identified

(* parse_commons_projection *)
ArchitectureState(p) ==
    IF ~Trusted(p) \/ ~p.architecture.validated THEN "invalid"
    ELSE IF p.architecture.freshness \in {"current", "truncated", "stale"}
    THEN p.architecture.freshness ELSE "unavailable"

PressureState(p) ==
    IF ~Trusted(p) \/ ~p.pressures.validated \/ ~p.pressures.identities THEN "invalid"
    ELSE IF p.pressures.rows = "many" THEN "truncated"
    ELSE IF p.pressures.freshness \in {"current", "truncated", "stale", "unavailable"}
    THEN p.pressures.freshness ELSE "invalid"

(* Of the limitations a projection states only those that say so block.    *)
ArchitectureComplete(p) ==
    /\ ArchitectureState(p) = "current"
    /\ p.architecture.identities
    /\ p.architecture.complete
    /\ ~p.blocking
    /\ p.architecture.capabilities # "many"

AskCommons ==
    /\ ask.step = "commons"
    /\ \E p \in Projections \cup {Absent} :
          /\ Repository = NoRepository => p = Absent
          /\ ask' = [ask EXCEPT !.step = "respond",
                        !.commons = p,
                        !.limitations = @
                            \cup (IF p = Absent THEN {"commons"}
                                  ELSE IF p.blocking \/ PressureState(p) # "current"
                                          \/ ArchitectureState(p) # "current"
                                  THEN {"commons"} ELSE {})
                            \cup (IF ask.local = Absent THEN {"absent"} ELSE {})]

-----------------------------------------------------------------------------
(* The verdict                                                             *)

LanguageComplete == ask.language # Absent /\ ask.language.complete /\ ask.language.inventory

Complete ==
    /\ ask.local # Absent
    /\ ask.conformance = "verified"
    /\ LanguageComplete
    /\ ask.commons # Absent
    /\ ArchitectureComplete(ask.commons)
    /\ PressureState(ask.commons) = "current"
    /\ ask.limitations = {}

(* unavailable only when Commons gave no answer, or one of no freshness.   *)
Bounded ==
    /\ ask.language # Absent
    /\ ask.commons # Absent /\ ArchitectureState(ask.commons) # "unavailable"
    /\ ask.conformance # "unavailable"

Respond ==
    /\ ask.step = "respond"
    /\ ask' = [ask EXCEPT !.step = "done", !.complete = Complete,
                  !.state = IF Complete THEN "complete" ELSE IF Bounded THEN "partial" ELSE "unknown"]

Next == NoManifest \/ ReadManifest \/ ReadInventory \/ AskLanguage \/ AskCommons \/ Respond

Spec == Init /\ [][Next]_vars

-----------------------------------------------------------------------------
(* Properties                                                              *)

(* A context is called complete only if the manifest in it is the very one *)
(* the validator called valid, is of the repository that was asked for,    *)
(* and is the one Commons was asked about; if no inventory it declares is  *)
(* unreadable or another's; and if the language and both projections of    *)
(* Commons are current, validated and identified                           *)
(* (docs/family-agent-context.md, "complete requires"; family_context.rs   *)
(* query).                                                                 *)
CompleteIsVouched ==
    ask.complete =>
        /\ ask.local = ask.file /\ ask.vouched = ask.file
        /\ ask.requested \in {NoRepository, ask.local.repository}
        /\ Repository = ask.local.repository
        /\ ask.local.inventory # "bad"
        /\ ask.local.inventory = "declared" =>
              ask.inventory \in Inventories /\ ask.inventory.repository = ask.local.repository
        /\ ask.language.complete /\ ask.language.inventory
        /\ Trusted(ask.commons)
        /\ ask.commons.architecture.validated /\ ask.commons.architecture.freshness = "current"
        /\ ask.commons.pressures.validated /\ ask.commons.pressures.freshness = "current"
        /\ ask.commons.architecture.identities /\ ask.commons.pressures.identities

(* A "truncated collection preserves UNKNOWN/partial"                      *)
(* (docs/family-agent-context.md:61-62): nothing of a complete context was *)
(* cut short.                                                              *)
CompleteIsWhole ==
    ask.complete =>
        /\ ask.local.inventory = "declared" => ask.inventory.rows # "many"
        /\ ask.language.rows # "many"
        /\ ask.commons.architecture.capabilities # "many"
        /\ ask.commons.architecture.generators # "many"
        /\ ask.commons.pressures.rows # "many"
=============================================================================
