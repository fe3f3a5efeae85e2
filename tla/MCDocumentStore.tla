--------------------------- MODULE MCDocumentStore --------------------------
(***************************************************************************)
(* Documents in three settings, one at a time: requests of two threads     *)
(* while files change at any time; requests one after the other while      *)
(* files change between them; and one editor whose document other requests *)
(* load and refresh while its file changes.  A behaviour is of the setting *)
(* subject names; what the others use stays as it began.                   *)
(*                                                                         *)
(* A text is the set of the edits that are in it, and the module it        *)
(* declares depends on one of them.                                        *)
(***************************************************************************)
EXTENDS DocumentStore, TLC

CONSTANTS a, b, t1, t2, e1, e2, m1, m2

VARIABLES
    subject,
    files, held, claimed, version, scanning, running, returned

-----------------------------------------------------------------------------
TextsOf(edits) == {s : s \in SUBSET edits}
EditedOf(edits) == [c \in TextsOf(edits) \X edits |-> c[1] \cup {c[2]}]
ModuleOfTexts(edits) == [c \in TextsOf(edits) |-> IF e1 \in c THEN m1 ELSE m2]

MCUriOrder == <<a, b>>
MCContents == TextsOf(Edits)
MCEdited == EditedOf(Edits)
MCModuleOf == ModuleOfTexts(Edits)
MCSymmetry == Permutations(Threads)

(* More edits and files, for one request at a time.                        *)
Alone == INSTANCE DocumentStore WITH
    FileUris <- {a, b}, Edits <- {e1, e2}, Contents <- TextsOf({e1, e2}),
    Edited <- EditedOf({e1, e2}), ModuleOf <- ModuleOfTexts({e1, e2}),
    Threads <- {"t"}, FilesSettle <- TRUE,
    file <- files, docs <- held, claims <- claimed, generation <- version,
    scan <- scanning, run <- running, result <- returned

(* One document, with edits that differ.                                   *)
Editing == INSTANCE DocumentStore WITH
    UriOrder <- <<a>>, FileUris <- {a}, Edits <- {e1, e2}, Contents <- TextsOf({e1, e2}),
    Edited <- EditedOf({e1, e2}), ModuleOf <- ModuleOfTexts({e1, e2}),
    Threads <- {"editor", "other"}, FilesSettle <- FALSE,
    file <- files, docs <- held, claims <- claimed, generation <- version,
    scan <- scanning, run <- running, result <- returned

-----------------------------------------------------------------------------
aloneVars == <<files, held, claimed, version, scanning, running, returned>>
MCvars == <<subject, vars, aloneVars>>

MCInit ==
    /\ subject \in {"racing", "alone", "editing"}
    /\ IF subject = "racing" THEN Init ELSE file = [u \in Uris |-> None] /\ Init
    /\ CASE subject = "alone" -> Alone!Init
         [] subject = "editing" -> Editing!Init
         [] subject = "racing" -> files = [u \in Uris |-> None] /\ Alone!Init

MCNext ==
    /\ UNCHANGED subject
    /\ \/ subject = "racing" /\ Next /\ UNCHANGED aloneVars
       \/ subject = "alone" /\ Alone!Next /\ UNCHANGED vars
       \/ subject = "editing" /\ Editing!OneEditorNext("editor") /\ UNCHANGED vars

MCSpec == MCInit /\ [][MCNext]_MCvars

-----------------------------------------------------------------------------
(* What holds in the other settings.                                       *)

(* The claimants of a module are the documents that declare it, with one   *)
(* request at a time (document.rs note_module_change).                     *)
ClaimsExactAlone == subject = "alone" => Alone!ClaimsExact

(* An edit is of the buffer it is written over, with one editor            *)
(* (document.rs did_change_incremental).                                   *)
EditsComposeOneEditor == [][subject = "editing" => Editing!EditComposes]_MCvars
=============================================================================
