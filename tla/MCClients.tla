------------------------------ MODULE MCClients -----------------------------
(***************************************************************************)
(* What the clients of the service meet, on small instances, one model at  *)
(* a time: the command that starts its host (Provider), calls over         *)
(* connections that fail (RemoteClient), an editor's session (LspSession), *)
(* and what agents ask of the language and of other repositories           *)
(* (LanguageKnowledge, FamilyContext, AuthorityQuery).  A behaviour is of  *)
(* the model subject names; the others stay as they began.                 *)
(***************************************************************************)
EXTENDS Provider

CONSTANTS
    p1, p2, old, new,
    None, Garbled, Invalid, Absent, Broken, NoRepository

VARIABLES
    subject,
    call, conn, opened, requests, responses, doc, acked,    \* RemoteClient
    editor, texts, sent, inbox, service, outbox,    \* LspSession
    generated, index, history, versions, query,     \* LanguageKnowledge
    ask,                                            \* FamilyContext
    child, pipe, held, caller, polls                \* AuthorityQuery

-----------------------------------------------------------------------------
(* An invocation is killed anywhere but between a start and its lease.     *)
MCUnlessStarted == Steps \ {"idle", "lease"}

Client == INSTANCE RemoteClient WITH
    Ranged <- TRUE, MaxCalls <- 3, MaxConnections <- 4

Session == INSTANCE LspSession WITH
    Docs <- {"d"}, Large <- {2}, MaxTexts <- 4, MaxMessages <- 7,
    ChecksVersion <- TRUE, ReopensLate <- TRUE

(* Versions of two items: one that comes, changes or goes, and both.       *)
Knowledge == INSTANCE LanguageKnowledge WITH
    Items <- {1, 2}, Contents <- {<<1, 1>>, <<0, 1>>, <<1, 2>>, <<2, 0>>},
    Retention <- 2, MaxVersions <- 3, Requests <- {2}

(* Manifests and answers of other repositories: good ones, and each with   *)
(* one thing wrong.                                                        *)
Manifest(repository, declares, inventory) ==
    [repository |-> repository, declares |-> declares, inventory |-> inventory]

Inventory(repository, revision, rows) ==
    [repository |-> repository, revision |-> revision, rows |-> rows]

Language(complete, inventory, rows) ==
    [complete |-> complete, inventory |-> inventory, rows |-> rows]

Architecture ==
    [validated |-> TRUE, freshness |-> "current", identities |-> TRUE, complete |-> TRUE,
     capabilities |-> "few", generators |-> "few"]
Pressures ==
    [validated |-> TRUE, freshness |-> "current", identities |-> TRUE, rows |-> "few"]
Good ==
    [verified |-> TRUE, identified |-> TRUE, blocking |-> FALSE,
     architecture |-> Architecture, pressures |-> Pressures]

Architectures ==
    {[Architecture EXCEPT !.validated = FALSE], [Architecture EXCEPT !.identities = FALSE],
     [Architecture EXCEPT !.complete = FALSE], [Architecture EXCEPT !.capabilities = "many"],
     [Architecture EXCEPT !.generators = "many"]}
    \cup {[Architecture EXCEPT !.freshness = f] : f \in {"stale", "truncated", "other"}}
PressureSets ==
    {[Pressures EXCEPT !.validated = FALSE], [Pressures EXCEPT !.identities = FALSE],
     [Pressures EXCEPT !.rows = "many"]}
    \cup {[Pressures EXCEPT !.freshness = f] :
             f \in {"stale", "truncated", "other", "unavailable"}}

Family == INSTANCE FamilyContext WITH
    Requests <- {"here", "there", NoRepository},
    Manifests <- {Manifest("here", TRUE, i) : i \in {"none", "bad", "declared"}}
                 \cup {Manifest(NoRepository, TRUE, "none"), Manifest("here", FALSE, "none")},
    Validations <- {"valid", "unidentified", "invalid"},
    Inventories <- {Inventory("here", TRUE, r) : r \in {"few", "many", "nameless"}}
                   \cup {Inventory("here", FALSE, "few"), Inventory("there", TRUE, "few")},
    Languages <- {Language(TRUE, TRUE, "few"), Language(TRUE, TRUE, "many"),
                  Language(FALSE, TRUE, "many"), Language(TRUE, FALSE, "few")},
    Projections <- {Good, [Good EXCEPT !.verified = FALSE], [Good EXCEPT !.identified = FALSE],
                    [Good EXCEPT !.blocking = TRUE]}
                   \cup {[Good EXCEPT !.architecture = a] : a \in Architectures}
                   \cup {[Good EXCEPT !.pressures = p] : p \in PressureSets}

(* Answers below the pipe's capacity, at it, and above.                    *)
Tool == INSTANCE AuthorityQuery WITH
    PipeCapacity <- 2, MaxOutput <- 3, MaxPolls <- 3,
    Answers <- [size : 0 .. 3, valid : BOOLEAN, success : BOOLEAN]

-----------------------------------------------------------------------------
providerVars == vars
clientVars == <<call, conn, opened, requests, responses, doc, acked>>
sessionVars == <<editor, texts, sent, inbox, service, outbox>>
knowledgeVars == <<generated, index, history, versions, query>>
familyVars == <<ask>>
toolVars == <<child, pipe, held, caller, polls>>
MCvars == <<subject, providerVars, clientVars, sessionVars, knowledgeVars, familyVars, toolVars>>

MCInit ==
    /\ subject \in {"provider", "client", "session", "knowledge", "family", "tool"}
    /\ Init
    /\ subject # "provider" => selected = old
    /\ Client!Init
    /\ Session!Init
    /\ IF subject = "knowledge" THEN Knowledge!Init
       ELSE /\ generated = [content |-> <<1, 1>>, deltas |-> << >>]
            /\ index = <<generated.content, Invalid>>
            /\ Knowledge!Init
    /\ Family!Init
    /\ subject # "family" => ask.requested = "here" /\ ask.file = Absent
    /\ Tool!Init
    /\ subject # "tool" => ~held /\ ~caller.allow
                           /\ child.answer = [size |-> 0, valid |-> TRUE, success |-> TRUE]

Only(name, others) == subject = name /\ UNCHANGED <<subject, others>>

ProviderOnly ==
    Only("provider", <<clientVars, sessionVars, knowledgeVars, familyVars, toolVars>>)
ClientOnly ==
    Only("client", <<providerVars, sessionVars, knowledgeVars, familyVars, toolVars>>)
SessionOnly ==
    Only("session", <<providerVars, clientVars, knowledgeVars, familyVars, toolVars>>)
KnowledgeOnly ==
    Only("knowledge", <<providerVars, clientVars, sessionVars, familyVars, toolVars>>)
FamilyOnly ==
    Only("family", <<providerVars, clientVars, sessionVars, knowledgeVars, toolVars>>)
ToolOnly ==
    Only("tool", <<providerVars, clientVars, sessionVars, knowledgeVars, familyVars>>)

MCNext ==
    \/ ProviderOnly /\ Next
    \/ ClientOnly /\ Client!Next
    \/ SessionOnly /\ Session!Next
    \/ KnowledgeOnly /\ Knowledge!Next
    \/ FamilyOnly /\ Family!Next
    \/ ToolOnly /\ Tool!Next

(* The fairness of each model, for behaviours that are about it.           *)
Fairness ==
    /\ \A a \in Agents : /\ WF_MCvars(ProviderOnly /\ Advance(a))
                         /\ SF_MCvars(ProviderOnly /\ WrongStart(a))
    /\ \A b \in Births : WF_MCvars(ProviderOnly /\ Host(b))
    /\ WF_MCvars(ClientOnly /\ (Client!Timeout \/ Client!Read))
    /\ WF_MCvars(SessionOnly /\ (Session!Handle \/ Session!Refuse))
    /\ WF_MCvars(SessionOnly /\ \E m \in outbox : Session!Deliver(m))
    /\ WF_MCvars(ToolOnly /\ (Tool!SeeEnd \/ Tool!GiveUp \/ Tool!Sleep \/ Tool!Collect))

MCSpec == MCInit /\ [][MCNext]_MCvars /\ Fairness

-----------------------------------------------------------------------------
(* The properties of the models, each stated with its model.               *)

(* The command ends with the selected host or refuses for cause            *)
(* (mnls_provider.py cmd_ensure).                                          *)
CommandConverges == subject = "provider" => EnsureConverges

(* A call that returned success has had its effect (client.rs call_once).  *)
AcknowledgedIsApplied == subject = "client" => Client!AcknowledgedIsApplied

(* A call returns, whatever becomes of its transmissions (client.rs call). *)
CallsReturn == subject = "client" => Client!CallsReturn

(* Diagnostics of the version the editor has are of the text it has        *)
(* (lsp/src/lib.rs publish_diagnostics).                                   *)
DiagnosticsOfVersion == subject = "session" => Session!DiagnosticsOfVersion

(* When the editor rests it shows what is wrong with the text it holds     *)
(* (lsp/src/lib.rs spawn_client_message).                                  *)
DiagnosticsSettle == subject = "session" => Session!DiagnosticsSettle

(* A difference that was not cut tells every change of the language        *)
(* (language_knowledge.rs identity_delta).                                 *)
DeltaTellsEveryChange == subject = "knowledge" => Knowledge!DeltaTellsEveryChange

(* A complete context rests on nothing unvalidated (family_context.rs      *)
(* query).                                                                 *)
CompleteIsVouched == subject = "family" => Family!CompleteIsVouched

(* A query of a tool ends, whatever the tool does (family_context.rs       *)
(* run_json_command).                                                      *)
QueryEnds == subject = "tool" => Tool!QueryEnds

(* "A valid authority response" is not timed out (family_context.rs:33-36, *)
(* run_json_command).                                                      *)
ValidAnswersArrive == subject = "tool" => Tool!ValidAnswersArrive
=============================================================================
