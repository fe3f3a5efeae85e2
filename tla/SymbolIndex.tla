----------------------------- MODULE SymbolIndex ----------------------------
(***************************************************************************)
(* The resident symbol index, and rename, references and callers, which    *)
(* join documents through it (crates/service-core/src/workspace_index.rs;  *)
(* queries.rs references, symbols_matching; rename.rs; intel.rs            *)
(* incoming_calls).                                                        *)
(*                                                                         *)
(* Every document contributes keys to global maps.  A use of a name is     *)
(* joined to its declaration by the place, kind and name of the            *)
(* declaration; which document it is in is not part of the key.  Texts     *)
(* change, and entries are published and removed by other requests,        *)
(* between the steps of a query.                                           *)
(*                                                                         *)
(* A text declares functions and types, each at a place, and uses names of *)
(* documents, itself included.  Files outside the store and the version    *)
(* fast path of ensure_workspace_entries (ResidentAnalysis) are left out.  *)
(***************************************************************************)
EXTENDS Naturals, Sequences, FiniteSets

CONSTANTS
    UriOrder,   \* the documents, in the order of the maps
    TextsOf,    \* per document, the texts it may have: records of module,
                \*   decls, a sequence of [place, kind, name], and uses, a set
                \*   of [site, owner, name, caller], where caller is the number
                \*   of the declaration the use is in, if it is in one
    NewName,    \* the name a rename asks for
    None,       \* no use: the query is at a declaration
    MaxEdits    \* bound: changes of a text

Uris == {UriOrder[i] : i \in DOMAIN UriOrder}
Texts == UNION {TextsOf[u] : u \in Uris}

(* A name is a document's of the workspace, and two declarations of a text *)
(* do not begin at the same place.                                         *)
ASSUME IndexAssumption ==
    /\ UriOrder \in Seq(Uris)
    /\ \A t \in Texts :
          /\ \A use \in t.uses : use.owner \in Uris /\ use # None
          /\ \A i, j \in DOMAIN t.decls :
                t.decls[i].place = t.decls[j].place => t.decls[i] = t.decls[j]

VARIABLES
    text,       \* per document, its text
    edits,      \* history: how often a text changed
    entries,    \* the entries, per document that has one
    index,      \* per global map, its pairs of a key and a value
    late,       \* what another request is about to publish, if anything
    query       \* the query in progress, or the last one

vars == <<text, edits, entries, index, late, query>>

-----------------------------------------------------------------------------
(* The index                                                               *)

Declared(t) == {t.decls[i] : i \in DOMAIN t.decls}

(* The compiler binds a use to a place, from the text of the document that *)
(* owns the name.                                                          *)
Bound(texts, use) ==
    {[site |-> use.site, caller |-> use.caller, key |-> d] :
        d \in {d \in Declared(texts[use.owner]) : d.name = use.name}}

(* WorkspaceEntry::build *)
Entry(texts, u) ==
    [text |-> texts[u],
     occurrences |-> UNION {Bound(texts, use) : use \in texts[u].uses},
     deps |-> {<<use.owner, texts[use.owner]>> :
                  use \in {use \in texts[u].uses : use.owner # u}}]

Maps == {"declarations", "by_identity", "functions", "types", "exporters",
         "occurrences", "reverse_deps"}

(* What an entry adds to each of the maps.                                 *)
Contribution(u, e) ==
    LET decls == e.text.decls
        Of(kind) == {<<decls[i].name, u, i>> : i \in {i \in DOMAIN decls : decls[i].kind = kind}}
    IN  [declarations |-> {<<decls[i], u, i>> : i \in DOMAIN decls},
         by_identity  |-> {<<<<e.text.module, decls[i].name>>, u, i>> : i \in DOMAIN decls},
         functions    |-> Of("function"),
         types        |-> Of("type"),
         exporters    |-> {<<decls[i].name, u, e.text.module>> : i \in DOMAIN decls},
         occurrences  |-> {<<o.key, u, o>> : o \in e.occurrences},
         reverse_deps |-> {<<d[1], u, d[1]>> : d \in e.deps}]

NotRemoved(u) == index

Removed(u) ==
    [m \in Maps |-> IF u \in DOMAIN entries
                    THEN index[m] \ Contribution(u, entries[u])[m] ELSE index[m]]

(* publish: the previous contributions are replaced.                       *)
Publish(u, e) ==
    /\ index' = [m \in Maps |-> Removed(u)[m] \cup Contribution(u, e)[m]]
    /\ entries' = [v \in DOMAIN entries \cup {u} |-> IF v = u THEN e ELSE entries[v]]

Remove(u) ==
    /\ u \in DOMAIN entries
    /\ index' = Removed(u)
    /\ entries' = [v \in DOMAIN entries \ {u} |-> entries[v]]

IsCurrentAlone(u) == u \in DOMAIN entries /\ entries[u].text = text[u]

(* is_current *)
IsCurrent(u) == u \in DOMAIN entries /\ entries[u] = Entry(text, u)

Found(map, key) == {r \in index[map] : r[1] = key}

-----------------------------------------------------------------------------
(* The workspace meanwhile                                                 *)

Idle == [kind |-> "none", step |-> "answered"]

Init ==
    /\ text \in {t \in [Uris -> Texts] : \A u \in Uris : t[u] \in TextsOf[u]}
    /\ edits = 0
    /\ entries = << >>
    /\ index = [m \in Maps |-> {}]
    /\ late = {}
    /\ query = Idle

(* The query in progress met something of another request.                 *)
Met == IF query.step = "answered" THEN Idle ELSE [query EXCEPT !.still = FALSE]

Edit(u, t) ==
    /\ edits < MaxEdits
    /\ t # text[u]
    /\ text' = [text EXCEPT ![u] = t]
    /\ edits' = edits + 1
    /\ query' = Met
    /\ UNCHANGED <<entries, index, late>>

(* The snapshot of another request, and its later publication.             *)
Analyse(u) ==
    /\ late = {}
    /\ ~IsCurrent(u)
    /\ late' = {[uri |-> u, entry |-> Entry(text, u)]}
    /\ UNCHANGED <<text, edits, entries, index, query>>

PublishEntry ==
    /\ \E p \in late :
          /\ Publish(p.uri, p.entry)
          /\ query' = IF p.entry = Entry(text, p.uri) THEN query ELSE Met
    /\ late' = {}
    /\ UNCHANGED <<text, edits>>

(* An eviction, or the removal of a document that cannot be read.          *)
RemoveEntry(u) ==
    /\ Remove(u)
    /\ query' = Met
    /\ UNCHANGED <<text, edits, late>>

-----------------------------------------------------------------------------
(* The queries                                                             *)

Kinds == {"rename", "references", "callers"}

(* rename refuses a name its owner already declares.                       *)
Collides(owner) == \E d \in Declared(text[owner]) : d.name = NewName

(* What follows once the subject is known.                                 *)
Resolved(kind, owner) ==
    IF kind = "references" THEN "target"
    ELSE IF kind = "rename" /\ Collides(owner) THEN "refused" ELSE "collect"

Asked(kind, step, u, use, key) ==
    [kind |-> kind, step |-> step, still |-> TRUE, todo |-> UriOrder,
     owner |-> u, module |-> text[u].module, use |-> use, key |-> key, hits |-> {}]

(* A query at the declaration d of u, or at a use in u.                    *)
AtDeclaration(kind, u, d) ==
    /\ query.step = "answered"
    /\ d \in Declared(text[u])
    /\ kind = "callers" => d.kind = "function"
    /\ query' = Asked(kind, Resolved(kind, u), u, None, d)
    /\ UNCHANGED <<text, edits, entries, index, late>>

AtUse(kind, u, use) ==
    /\ query.step = "answered"
    /\ kind # "callers"
    /\ use \in text[u].uses
    /\ \E b \in Bound(text, use) :
          query' = Asked(kind, IF use.owner = u THEN Resolved(kind, u) ELSE "target",
                         u, use, b.key)
    /\ UNCHANGED <<text, edits, entries, index, late>>

(* ensure_workspace_entries, one document.                                 *)
Ensure ==
    /\ query.step \in {"target", "collect"}
    /\ query.todo # << >>
    /\ LET u == Head(query.todo)
       IN  IF IsCurrent(u) THEN UNCHANGED <<entries, index>>
           ELSE Publish(u, Entry(text, u))
    /\ query' = [query EXCEPT !.todo = Tail(@)]
    /\ UNCHANGED <<text, edits, late>>

(* symbols_matching: the declarations of the key; at a declaration, or a   *)
(* use of its own document, only those of its module.                      *)
Matching ==
    {r[2] : r \in {r \in Found("declarations", query.key) :
        (query.use = None \/ query.use.owner = query.owner)
            => entries[r[2]].text.module = query.module}}

Position(u) == CHOOSE i \in DOMAIN UriOrder : UriOrder[i] = u

(* rename_target, of an imported name: the first declaration of the key.   *)
Target ==
    /\ query.step = "target" /\ query.kind = "rename"
    /\ query.todo = << >>
    /\ query' = IF Matching = {} THEN [query EXCEPT !.step = "refused"]
                ELSE LET u == CHOOSE u \in Matching : \A v \in Matching : Position(u) <= Position(v)
                     IN  IF query.key \in Declared(text[u])
                         THEN [query EXCEPT !.owner = u, !.step = Resolved("rename", u),
                                            !.todo = UriOrder]
                         ELSE [query EXCEPT !.step = "refused"]
    /\ UNCHANGED <<text, edits, entries, index, late>>

Refuse ==
    /\ query.step = "refused"
    /\ query' = Idle
    /\ UNCHANGED <<text, edits, entries, index, late>>

(* references answers with every declaration of the key, or with its own   *)
(* if the index has none; then it ensures the entries again.               *)
Declarations ==
    /\ query.step = "target" /\ query.kind = "references"
    /\ query.todo = << >>
    /\ query' = [query EXCEPT !.step = "collect", !.todo = UriOrder, !.hits =
          {<<u, query.key.place>> : u \in
              IF Matching = {} /\ (query.use = None \/ query.use.owner = query.owner)
              THEN {query.owner} ELSE Matching}]
    /\ UNCHANGED <<text, edits, entries, index, late>>

(* The uses, by place, kind and name; rename adds its one declaration.     *)
Occurrences == {<<r[2], r[3].site>> : r \in Found("occurrences", query.key)}

Collect ==
    /\ query.step = "collect" /\ query.kind \in {"rename", "references"}
    /\ query.todo = << >>
    /\ query' = [query EXCEPT !.step = "answered", !.hits = @ \cup Occurrences \cup
          (IF query.kind = "rename" THEN {<<query.owner, query.key.place>>} ELSE {})]
    /\ UNCHANGED <<text, edits, entries, index, late>>

(* incoming_calls: the call sites under one lock, whatever their spelling, *)
(* grouped by the position of the calling function; its name under the     *)
(* next.                                                                   *)
CollectSites ==
    /\ query.step = "collect" /\ query.kind = "callers"
    /\ query.todo = << >>
    /\ query' = [query EXCEPT !.step = "name", !.hits =
          {<<r[2], r[3].caller>> : r \in {r \in index["occurrences"] :
               r[1].place = query.key.place /\ r[1].kind = "function"}}]
    /\ UNCHANGED <<text, edits, entries, index, late>>

NameCallers ==
    /\ query.step = "name"
    /\ query' = [query EXCEPT !.step = "answered", !.hits =
          {<<h[1], entries[h[1]].text.decls[h[2]].name>> :
               h \in {h \in query.hits : /\ h[1] \in DOMAIN entries
                                         /\ h[2] \in DOMAIN entries[h[1]].text.decls}}]
    /\ UNCHANGED <<text, edits, entries, index, late>>

Next ==
    \/ \E u \in Uris : \E t \in TextsOf[u] : Edit(u, t)
    \/ \E u \in Uris : Analyse(u) \/ RemoveEntry(u)
    \/ PublishEntry
    \/ \E u \in Uris, kind \in Kinds :
          \/ \E d \in Declared(text[u]) : AtDeclaration(kind, u, d)
          \/ \E use \in text[u].uses : AtUse(kind, u, use)
    \/ Ensure \/ Target \/ Refuse \/ Declarations \/ Collect \/ CollectSites \/ NameCallers

Spec == Init /\ [][Next]_vars

-----------------------------------------------------------------------------
(* Properties                                                              *)

(* However entries are published, replaced and removed, the global maps    *)
(* hold exactly what the entries of now contribute (workspace_index.rs     *)
(* publish, remove).                                                       *)
IndexExact ==
    \A m \in Maps :
        index[m] = UNION {Contribution(u, entries[u])[m] : u \in DOMAIN entries}

(* The document whose declaration the query is about, and the uses the     *)
(* compiler binds to that declaration, wherever they are.                  *)
Owner == IF query.use = None THEN query.owner ELSE query.use.owner

BoundUses ==
    {b \in Uris \X UNION {text[u].uses : u \in Uris} :
        /\ b[2] \in text[b[1]].uses /\ b[2].owner = Owner
        /\ \E o \in Bound(text, b[2]) : o.key = query.key}

BoundSpans ==
    {<<Owner, query.key.place>>} \cup {<<b[1], b[2].site>> : b \in BoundUses}

Undisturbed == query # Idle /\ query.step = "answered" /\ query.still

(* A use outside of every declaration has no caller.                       *)
BoundCalls == {b \in BoundUses : b[2].caller \in DOMAIN text[b[1]].decls}

KeyIsUnique ==
    \A u \in Uris : (\E d \in Declared(text[u]) : d.place = query.key.place
                                                  /\ d.kind = query.key.kind) => u = Owner

(* A query that meets no change, removal or outdated publication of        *)
(* another request answers with the declaration and every use bound to it  *)
(* and nothing else, or with the functions those uses are in, as long as   *)
(* no other document declares something of that kind at the same place     *)
(* (rename.rs rename, queries.rs references, intel.rs incoming_calls).     *)
QueriesExact ==
    Undisturbed => (KeyIsUnique =>
        query.hits = IF query.kind = "callers"
                     THEN {<<b[1], text[b[1]].decls[b[2].caller].name>> : b \in BoundCalls}
                     ELSE BoundSpans)

(* "Unrelated identifiers that merely share the spelling are never         *)
(* touched: only spans bound to the resolved symbol by `mncs-language` are *)
(* edited" (rename.rs:7-9).                                                *)
RenameTouchesOnlyBound ==
    Undisturbed => (query.kind = "rename" => query.hits \subseteq BoundSpans)
=============================================================================
