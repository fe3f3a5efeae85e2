----------------------------- MODULE QueryProofs -----------------------------
(***************************************************************************)
(* Proofs about what queries are answered from.                            *)
(*                                                                         *)
(* The symbol index: its global maps hold exactly what its entries         *)
(* contribute, and rename, references and callers answer exactly what the  *)
(* compiler binds, for any documents, texts and requests.  Every value of  *)
(* a map carries the document it came from, so taking out what one         *)
(* document contributed cannot take anything of another.  A query that     *)
(* meets nothing of another request has brought up to date every document  *)
(* it has passed, so what it joins is the index of now; and where a        *)
(* declaration's place and kind are of one document only, joining by them  *)
(* is joining by the declaration.                                          *)
(*                                                                         *)
(* The resident kernels: what an answer reports as the identities of its   *)
(* kernel was current during the request, and a kernel labelled when it is *)
(* compiled was compiled from that, for every number of requests and       *)
(* modules and however often the library changes.                          *)
(*                                                                         *)
(* The walks of the relations: an answer is exact or says that it is cut   *)
(* short, for any relation and any capacities, also while edges come and   *)
(* go.                                                                     *)
(***************************************************************************)
EXTENDS SymbolIndex, SequenceTheorems, FiniteSetTheorems, WellFoundedInduction, TLAPS

CONSTANTS
    ModuleOrder, Versions, Threads, Policies, NamedModules, MaxChanges,  \* KernelCache
    NodeOrder, Root, Edges, BatchCapacity, ResultCapacity, MaxDepth, MaxMoves

VARIABLES
    library, changes, policy, cache, request, current,      \* KernelCache
    edges, ever, always, moves, asked, at, depth, todo,     \* RelationWalk
    codes, batch, met, kernel, level, complete

Kernel == INSTANCE KernelCache
Walks == INSTANCE RelationWalk

-----------------------------------------------------------------------------
(* What the maps hold of each document                                     *)

(* What a document contributes names that document.                        *)
LEMMA ContributionNamesItsDocument ==
    ASSUME NEW u, NEW e, NEW m \in Maps, NEW r \in Contribution(u, e)[m]
    PROVE  r[2] = u
<1> USE DEF Contribution
<1>1. CASE m = "declarations" BY <1>1
<1>2. CASE m = "by_identity" BY <1>2
<1>3. CASE m = "functions" BY <1>3
<1>4. CASE m = "types" BY <1>4
<1>5. CASE m = "exporters" BY <1>5
<1>6. CASE m = "occurrences" BY <1>6
<1>7. CASE m = "reverse_deps" BY <1>7
<1> QED BY <1>1, <1>2, <1>3, <1>4, <1>5, <1>6, <1>7 DEF Maps

(* Taking out a document's contributions leaves those of the others.       *)
LEMMA RemovedIsTheOthers ==
    ASSUME IndexExact, NEW u, NEW m \in Maps
    PROVE  Removed(u)[m] = UNION {Contribution(v, entries[v])[m] : v \in DOMAIN entries \ {u}}
<1> DEFINE Of(v) == Contribution(v, entries[v])[m]
           Others == DOMAIN entries \ {u}
<1>1. index[m] = UNION {Of(v) : v \in DOMAIN entries}
  BY DEF IndexExact
<1>2. \A v : \A r \in Of(v) : r[2] = v
  BY ContributionNamesItsDocument
<1>3. Removed(u)[m] = IF u \in DOMAIN entries THEN index[m] \ Of(u) ELSE index[m]
  BY DEF Removed
<1> HIDE DEF Of
<1>4. CASE u \notin DOMAIN entries
  <2>1. DOMAIN entries = Others
    BY <1>4
  <2> QED BY <1>1, <1>3, <1>4, <2>1 DEF Of
<1>5. CASE u \in DOMAIN entries
  <2>1. DOMAIN entries = Others \cup {u} /\ u \notin Others
    BY <1>5
  <2> HIDE DEF Others
  <2>2. index[m] = Of(u) \cup UNION {Of(v) : v \in Others}
    BY <1>1, <2>1
  <2>3. Of(u) \cap UNION {Of(v) : v \in Others} = {}
    BY <1>2, <2>1
  <2>4. index[m] \ Of(u) = UNION {Of(v) : v \in Others}
    BY <2>2, <2>3
  <2> QED BY <1>3, <1>5, <2>4 DEF Of, Others
<1> QED BY <1>4, <1>5

-----------------------------------------------------------------------------
(* What publishing and removing preserve                                   *)

LEMMA PublishKept ==
    ASSUME IndexExact, NEW u, NEW e, Publish(u, e)
    PROVE  IndexExact'
<1> DEFINE Others == DOMAIN entries \ {u}
<1>1. DOMAIN entries' = Others \cup {u} /\ u \notin Others
  BY DEF Publish
<1>2. entries'[u] = e /\ \A v \in Others : entries'[v] = entries[v]
  BY DEF Publish
<1>3. ASSUME NEW m \in Maps
      PROVE  index'[m] = UNION {Contribution(v, entries'[v])[m] : v \in DOMAIN entries'}
  <2>1. Removed(u)[m] = UNION {Contribution(v, entries[v])[m] : v \in Others}
    BY RemovedIsTheOthers
  <2>2. index'[m] = Removed(u)[m] \cup Contribution(u, e)[m]
    BY DEF Publish
  <2> HIDE DEF Others
  <2>3. {Contribution(v, entries'[v])[m] : v \in Others \cup {u}}
          = {Contribution(v, entries[v])[m] : v \in Others} \cup {Contribution(u, e)[m]}
    BY <1>2
  <2> QED BY <1>1, <2>1, <2>2, <2>3
<1> QED BY <1>3 DEF IndexExact

LEMMA RemoveKept ==
    ASSUME IndexExact, NEW u, Remove(u)
    PROVE  IndexExact'
<1> DEFINE Others == DOMAIN entries \ {u}
<1>1. DOMAIN entries' = Others /\ \A v \in Others : entries'[v] = entries[v]
  BY DEF Remove
<1>2. ASSUME NEW m \in Maps
      PROVE  index'[m] = UNION {Contribution(v, entries'[v])[m] : v \in DOMAIN entries'}
  <2>1. Removed(u)[m] = UNION {Contribution(v, entries[v])[m] : v \in Others}
    BY RemovedIsTheOthers
  <2>2. index'[m] = Removed(u)[m]
    BY DEF Remove
  <2> HIDE DEF Others
  <2>3. {Contribution(v, entries'[v])[m] : v \in Others}
          = {Contribution(v, entries[v])[m] : v \in Others}
    BY <1>1
  <2> QED BY <1>1, <2>1, <2>2, <2>3
<1> QED BY <1>2 DEF IndexExact

(* A step that leaves entries and maps alone.                              *)
LEMMA SameKept ==
    ASSUME IndexExact, UNCHANGED <<entries, index>>
    PROVE  IndexExact'
BY DEF IndexExact

-----------------------------------------------------------------------------
(* IndexExact: after any publications, replacements and removals, in any   *)
(* order and by any requests, the global maps hold what the entries of now *)
(* contribute, no more and no less (workspace_index.rs publish, remove).   *)
THEOREM IndexIsExact == Spec => []IndexExact
<1>1. Init => IndexExact
  <2> SUFFICES ASSUME Init, NEW m \in Maps
               PROVE  index[m] = UNION {Contribution(u, entries[u])[m] : u \in DOMAIN entries}
    BY DEF IndexExact
  <2>1. index[m] = {} /\ DOMAIN entries = {}
    BY DEF Init
  <2> QED BY <2>1
<1>2. IndexExact /\ [Next]_vars => IndexExact'
  <2> SUFFICES ASSUME IndexExact, [Next]_vars PROVE IndexExact'
    OBVIOUS
  <2>1. ASSUME NEW u \in Uris, NEW t \in TextsOf[u], Edit(u, t) PROVE IndexExact'
    BY <2>1, SameKept DEF Edit
  <2>2. ASSUME NEW u \in Uris, Analyse(u) PROVE IndexExact'
    BY <2>2, SameKept DEF Analyse
  <2>3. ASSUME NEW u \in Uris, RemoveEntry(u) PROVE IndexExact'
    BY <2>3, RemoveKept DEF RemoveEntry
  <2>4. CASE PublishEntry
    BY <2>4, PublishKept DEF PublishEntry
  <2>5. ASSUME NEW kind \in Kinds, NEW u \in Uris, NEW d, AtDeclaration(kind, u, d)
        PROVE  IndexExact'
    BY <2>5, SameKept DEF AtDeclaration
  <2>6. ASSUME NEW kind \in Kinds, NEW u \in Uris, NEW use, AtUse(kind, u, use)
        PROVE  IndexExact'
    BY <2>6, SameKept DEF AtUse
  <2>7. CASE Ensure
    <3>1. PICK u : IF IsCurrent(u) THEN UNCHANGED <<entries, index>>
                   ELSE Publish(u, Entry(text, u))
      BY <2>7 DEF Ensure
    <3> QED BY <3>1, SameKept, PublishKept
  <2>8. CASE Target BY <2>8, SameKept DEF Target
  <2>9. CASE Refuse BY <2>9, SameKept DEF Refuse
  <2>10. CASE Declarations BY <2>10, SameKept DEF Declarations
  <2>11. CASE Collect BY <2>11, SameKept DEF Collect
  <2>12. CASE CollectSites BY <2>12, SameKept DEF CollectSites
  <2>13. CASE NameCallers BY <2>13, SameKept DEF NameCallers
  <2>14. CASE UNCHANGED vars BY <2>14, SameKept DEF vars
  <2> QED
    BY <2>1, <2>2, <2>3, <2>4, <2>5, <2>6, <2>7, <2>8, <2>9, <2>10, <2>11, <2>12,
       <2>13, <2>14 DEF Next
<1> QED BY <1>1, <1>2, PTL DEF Spec

-----------------------------------------------------------------------------
(* What a query reads of an index that is up to date                       *)

AllCurrent == \A u \in Uris : IsCurrent(u)

(* A use of u that the compiler binds to the declaration d.                *)
Binds(use, d) == d \in Declared(text[use.owner]) /\ d.name = use.name

(* The entries of an index that is up to date are those of its documents.  *)
LEMMA CurrentEntries ==
    ASSUME DOMAIN entries \subseteq Uris, AllCurrent
    PROVE  DOMAIN entries = Uris /\ \A u \in Uris : entries[u] = Entry(text, u)
BY DEF AllCurrent, IsCurrent

(* Every use is in the index under the declaration it is bound to.         *)
LEMMA CurrentOccurrences ==
    ASSUME IndexExact, DOMAIN entries \subseteq Uris, AllCurrent, NEW r
    PROVE  r \in index["occurrences"] <=>
               \E u \in Uris : \E use \in text[u].uses : \E d :
                  /\ Binds(use, d)
                  /\ r = <<d, u, [site |-> use.site, caller |-> use.caller, key |-> d]>>
<1>1. DOMAIN entries = Uris /\ \A u \in Uris : entries[u] = Entry(text, u)
  BY CurrentEntries
<1>2. index["occurrences"] = UNION {Contribution(u, entries[u])["occurrences"] : u \in Uris}
  BY <1>1 DEF IndexExact, Maps
<1>3. \A u \in Uris : Contribution(u, entries[u])["occurrences"]
                        = {<<o.key, u, o>> : o \in Entry(text, u).occurrences}
  BY <1>1 DEF Contribution
<1>4. \A u \in Uris : Entry(text, u).occurrences
                        = UNION {Bound(text, use) : use \in text[u].uses}
  BY DEF Entry
<1>5. \A use, o : o \in Bound(text, use) <=>
         \E d : Binds(use, d) /\ o = [site |-> use.site, caller |-> use.caller, key |-> d]
  BY DEF Bound, Binds
<1>6. ASSUME NEW u \in Uris
      PROVE  r \in Contribution(u, entries[u])["occurrences"] <=>
               \E use \in text[u].uses : \E d :
                  /\ Binds(use, d)
                  /\ r = <<d, u, [site |-> use.site, caller |-> use.caller, key |-> d]>>
  <2>1. r \in Contribution(u, entries[u])["occurrences"] <=>
          \E use \in text[u].uses : \E o \in Bound(text, use) : r = <<o.key, u, o>>
    BY <1>3, <1>4
  <2> QED BY <2>1, <1>5
<1> QED BY <1>2, <1>6

(* Every declaration is in the index under itself.                         *)
LEMMA CurrentDeclarations ==
    ASSUME IndexExact, DOMAIN entries \subseteq Uris, AllCurrent, NEW r
    PROVE  r \in index["declarations"] <=>
               \E u \in Uris : \E i \in DOMAIN text[u].decls : r = <<text[u].decls[i], u, i>>
<1>1. DOMAIN entries = Uris /\ \A u \in Uris : entries[u] = Entry(text, u)
  BY CurrentEntries
<1>2. index["declarations"] = UNION {Contribution(u, entries[u])["declarations"] : u \in Uris}
  BY <1>1 DEF IndexExact, Maps
<1>3. \A u \in Uris : entries[u].text = text[u]
  BY <1>1 DEF Entry
<1>4. \A u \in Uris : Contribution(u, entries[u])["declarations"]
                        = {<<text[u].decls[i], u, i>> : i \in DOMAIN text[u].decls}
  BY <1>3 DEF Contribution
<1> QED BY <1>2, <1>4

-----------------------------------------------------------------------------
(* What the steps of a query take from it                                  *)

(* The place and the kind of a declaration name it in its text.            *)
LEMMA PlaceIsUnique ==
    ASSUME NEW t \in Texts, NEW d \in Declared(t), NEW e \in Declared(t), d.place = e.place
    PROVE  d = e
BY IndexAssumption DEF Declared

(* The uses a query is about are those bound to its key.                   *)
LEMMA BoundUsesAre ==
    ASSUME text \in [Uris -> Texts], NEW b
    PROVE  b \in BoundUses <=>
               \E u \in Uris : \E use \in text[u].uses :
                  b = <<u, use>> /\ use.owner = Owner /\ Binds(use, query.key)
<1>1. ASSUME NEW use
      PROVE  (\E o \in Bound(text, use) : o.key = query.key) <=> Binds(use, query.key)
  <2> DEFINE Hit(d) == [site |-> use.site, caller |-> use.caller, key |-> d]
  <2>1. \A o : o \in Bound(text, use) <=> \E d : Binds(use, d) /\ o = Hit(d)
    BY DEF Bound, Binds
  <2>2. \A d : Hit(d).key = d
    OBVIOUS
  <2> HIDE DEF Hit
  <2> QED BY <2>1, <2>2
<1> DEFINE Uses(u) == text[u].uses
<1>2. ASSUME NEW u \in Uris, NEW use \in Uses(u) PROVE use \in UNION {Uses(v) : v \in Uris}
  <2> HIDE DEF Uses
  <2> QED BY <1>2
<1>3. b \in BoundUses <=>
         /\ b \in Uris \X UNION {Uses(u) : u \in Uris}
         /\ b[2] \in Uses(b[1]) /\ b[2].owner = Owner /\ Binds(b[2], query.key)
  BY <1>1 DEF BoundUses
<1> HIDE DEF Uses
<1>4. b \in BoundUses <=>
         \E u \in Uris : \E use \in Uses(u) :
            b = <<u, use>> /\ use.owner = Owner /\ Binds(use, query.key)
  BY <1>2, <1>3
<1> QED BY <1>4 DEF Uses

(* A use is bound to a unique key in its owner only.                       *)
LEMMA UniqueOwner ==
    ASSUME KeyIsUnique, NEW u \in Uris, NEW d \in Declared(text[u]),
           d.place = query.key.place, d.kind = query.key.kind
    PROVE  u = Owner
BY DEF KeyIsUnique

(* references and rename find exactly the sites of the bound uses.         *)
LEMMA OccurrencesExact ==
    ASSUME IndexExact, text \in [Uris -> Texts], DOMAIN entries \subseteq Uris, AllCurrent,
           KeyIsUnique
    PROVE  Occurrences = {<<b[1], b[2].site>> : b \in BoundUses}
<1>1. ASSUME NEW h \in Occurrences PROVE \E b \in BoundUses : h = <<b[1], b[2].site>>
  <2>1. PICK r \in index["occurrences"] : r[1] = query.key /\ h = <<r[2], r[3].site>>
    BY <1>1 DEF Occurrences, Found
  <2> PICK u \in Uris : \E use \in text[u].uses : \E d :
              /\ Binds(use, d)
              /\ r = <<d, u, [site |-> use.site, caller |-> use.caller, key |-> d]>>
    BY <2>1, CurrentOccurrences
  <2> PICK use \in text[u].uses : \E d :
              /\ Binds(use, d)
              /\ r = <<d, u, [site |-> use.site, caller |-> use.caller, key |-> d]>>
    OBVIOUS
  <2>2. PICK d :
              /\ Binds(use, d)
              /\ r = <<d, u, [site |-> use.site, caller |-> use.caller, key |-> d]>>
    OBVIOUS
  <2>3. d = query.key /\ h = <<u, use.site>>
    BY <2>1, <2>2
  <2>4. use.owner \in Uris
    BY IndexAssumption
  <2>5. use.owner = Owner
    BY <2>2, <2>3, <2>4, UniqueOwner DEF Binds
  <2>6. <<u, use>> \in BoundUses
    BY <2>2, <2>3, <2>5, BoundUsesAre
  <2> QED BY <2>3, <2>6
<1>2. ASSUME NEW b \in BoundUses PROVE <<b[1], b[2].site>> \in Occurrences
  <2> PICK u \in Uris : \E use \in text[u].uses : b = <<u, use>> /\ Binds(use, query.key)
    BY <1>2, BoundUsesAre
  <2>1. PICK use \in text[u].uses : b = <<u, use>> /\ Binds(use, query.key)
    OBVIOUS
  <2> DEFINE r == <<query.key, u, [site |-> use.site, caller |-> use.caller, key |-> query.key]>>
  <2>2. r \in index["occurrences"]
    BY <2>1, CurrentOccurrences
  <2>3. r[1] = query.key /\ r[2] = u /\ r[3].site = use.site
    OBVIOUS
  <2> HIDE DEF r
  <2>4. <<u, use.site>> \in Occurrences
    BY <2>2, <2>3 DEF Occurrences, Found
  <2> QED BY <2>1, <2>4
<1> QED BY <1>1, <1>2

(* incoming_calls joins by place and kind alone, and finds the same uses.  *)
Sites ==
    {<<r[2], r[3].caller>> : r \in {r \in index["occurrences"] :
         r[1].place = query.key.place /\ r[1].kind = "function"}}

LEMMA SitesExact ==
    ASSUME IndexExact, text \in [Uris -> Texts], DOMAIN entries \subseteq Uris, AllCurrent,
           KeyIsUnique, Owner \in Uris, query.key \in Declared(text[Owner]),
           query.key.kind = "function"
    PROVE  Sites = {<<b[1], b[2].caller>> : b \in BoundUses}
<1>1. ASSUME NEW h \in Sites PROVE \E b \in BoundUses : h = <<b[1], b[2].caller>>
  <2>1. PICK r \in index["occurrences"] :
              /\ r[1].place = query.key.place /\ r[1].kind = "function"
              /\ h = <<r[2], r[3].caller>>
    BY <1>1 DEF Sites
  <2> PICK u \in Uris : \E use \in text[u].uses : \E d :
              /\ Binds(use, d)
              /\ r = <<d, u, [site |-> use.site, caller |-> use.caller, key |-> d]>>
    BY <2>1, CurrentOccurrences
  <2> PICK use \in text[u].uses : \E d :
              /\ Binds(use, d)
              /\ r = <<d, u, [site |-> use.site, caller |-> use.caller, key |-> d]>>
    OBVIOUS
  <2>2. PICK d :
              /\ Binds(use, d)
              /\ r = <<d, u, [site |-> use.site, caller |-> use.caller, key |-> d]>>
    OBVIOUS
  <2>3. d.place = query.key.place /\ d.kind = query.key.kind /\ h = <<u, use.caller>>
    BY <2>1, <2>2
  <2>4. use.owner \in Uris
    BY IndexAssumption
  <2>5. use.owner = Owner
    BY <2>2, <2>3, <2>4, UniqueOwner DEF Binds
  <2>6. d = query.key
    BY <2>2, <2>3, <2>5, PlaceIsUnique DEF Binds
  <2>7. <<u, use>> \in BoundUses
    BY <2>2, <2>5, <2>6, BoundUsesAre
  <2> QED BY <2>3, <2>7
<1>2. ASSUME NEW b \in BoundUses PROVE <<b[1], b[2].caller>> \in Sites
  <2> PICK u \in Uris : \E use \in text[u].uses : b = <<u, use>> /\ Binds(use, query.key)
    BY <1>2, BoundUsesAre
  <2>1. PICK use \in text[u].uses : b = <<u, use>> /\ Binds(use, query.key)
    OBVIOUS
  <2> DEFINE r == <<query.key, u, [site |-> use.site, caller |-> use.caller, key |-> query.key]>>
  <2>2. r \in index["occurrences"]
    BY <2>1, CurrentOccurrences
  <2>3. r[1] = query.key /\ r[2] = u /\ r[3].caller = use.caller
    OBVIOUS
  <2> HIDE DEF r
  <2>4. <<u, use.caller>> \in Sites
    BY <2>2, <2>3 DEF Sites
  <2> QED BY <2>1, <2>4
<1> QED BY <1>1, <1>2

(* The declarations of a unique key are the one in its owner, which the    *)
(* query's module does not hide.                                           *)
LEMMA MatchingExact ==
    ASSUME IndexExact, text \in [Uris -> Texts], DOMAIN entries \subseteq Uris, AllCurrent,
           KeyIsUnique, Owner \in Uris, query.key \in Declared(text[Owner]),
           (query.use = None \/ query.use.owner = query.owner) =>
               query.module = text[Owner].module
    PROVE  Matching = {Owner}
<1>1. ASSUME NEW u \in Matching PROVE u = Owner
  <2>1. PICK r \in index["declarations"] : r[1] = query.key /\ u = r[2]
    BY <1>1 DEF Matching, Found
  <2>2. PICK v \in Uris : \E i \in DOMAIN text[v].decls : r = <<text[v].decls[i], v, i>>
    BY <2>1, CurrentDeclarations
  <2>3. query.key \in Declared(text[v]) /\ u = v
    BY <2>1, <2>2 DEF Declared
  <2> QED BY <2>3, UniqueOwner
<1>2. Owner \in Matching
  <2>1. PICK i \in DOMAIN text[Owner].decls : text[Owner].decls[i] = query.key
    BY DEF Declared
  <2> DEFINE r == <<query.key, Owner, i>>
  <2>2. r \in index["declarations"]
    BY <2>1, CurrentDeclarations
  <2>3. r[1] = query.key /\ r[2] = Owner
    OBVIOUS
  <2> HIDE DEF r
  <2>4. entries[Owner].text = text[Owner]
    <3>1. entries[Owner] = Entry(text, Owner)
      BY CurrentEntries
    <3>2. Entry(text, Owner).text = text[Owner]
      BY DEF Entry
    <3> QED BY <3>1, <3>2
  <2>5. (query.use = None \/ query.use.owner = query.owner) =>
            entries[r[2]].text.module = query.module
    BY <2>3, <2>4
  <2>6. r \in Found("declarations", query.key)
    BY <2>2, <2>3 DEF Found
  <2> QED BY <2>3, <2>5, <2>6 DEF Matching
<1> QED BY <1>1, <1>2

-----------------------------------------------------------------------------
(* The inductive invariant                                                 *)

(* A query that met nothing has brought up to date every document it has   *)
(* passed; what it has taken from the index is right if its key is unique. *)
StillRight ==
    /\ Owner \in Uris
    /\ query.key \in Declared(text[Owner])
    /\ query.step \in {"target", "collect"} =>
          \A u \in Uris : IsCurrent(u) \/ \E i \in DOMAIN query.todo : query.todo[i] = u
    /\ query.step = "name" => AllCurrent /\ query.kind = "callers"
    /\ query.kind = "callers" => query.step # "target" /\ query.key.kind = "function"
    /\ query.step = "target" /\ (query.use = None \/ query.use.owner = query.owner) =>
          query.module = text[Owner].module
    /\ query.step = "target" /\ query.kind = "rename" => query.use # None
    /\ KeyIsUnique =>
          /\ query.step = "target" => query.hits = {}
          /\ query.step = "collect" =>
                IF query.kind = "references" THEN query.hits = {<<Owner, query.key.place>>}
                ELSE query.hits = {} /\ query.owner = Owner
          /\ query.step = "name" => query.hits = {<<b[1], b[2].caller>> : b \in BoundUses}

Fields(q) == [kind |-> q.kind, step |-> q.step, still |-> q.still, todo |-> q.todo,
              owner |-> q.owner, module |-> q.module, use |-> q.use, key |-> q.key,
              hits |-> q.hits]

IsQuery(q) ==
    /\ q = Fields(q)
    /\ q.kind \in Kinds
    /\ q.step \in {"target", "collect", "name", "refused", "answered"}
    /\ q.still \in BOOLEAN
    /\ q.todo \in Seq(Uris)

QueryInv ==
    /\ query # Idle => IsQuery(query) /\ (query.still => StillRight)
    /\ QueriesExact

DocumentsInv ==
    /\ text \in [Uris -> Texts]
    /\ DOMAIN entries \subseteq Uris
    /\ \A p \in late : p.uri \in Uris

-----------------------------------------------------------------------------
(* Documents and entries                                                   *)

LEMMA DocumentsKept == DocumentsInv /\ QueryInv /\ [Next]_vars => DocumentsInv'
<1> SUFFICES ASSUME DocumentsInv, QueryInv, [Next]_vars PROVE DocumentsInv'
  OBVIOUS
<1> USE DEF DocumentsInv
<1>1. ASSUME NEW u \in Uris, NEW t \in TextsOf[u], Edit(u, t) PROVE DocumentsInv'
  BY <1>1 DEF Edit, Texts
<1>2. ASSUME NEW u \in Uris, Analyse(u) PROVE DocumentsInv'
  BY <1>2 DEF Analyse
<1>3. ASSUME NEW u \in Uris, RemoveEntry(u) PROVE DocumentsInv'
  BY <1>3 DEF RemoveEntry, Remove
<1>4. CASE PublishEntry
  BY <1>4 DEF PublishEntry, Publish
<1>5. ASSUME NEW kind \in Kinds, NEW u \in Uris, NEW d, AtDeclaration(kind, u, d)
      PROVE  DocumentsInv'
  BY <1>5 DEF AtDeclaration
<1>6. ASSUME NEW kind \in Kinds, NEW u \in Uris, NEW use, AtUse(kind, u, use)
      PROVE  DocumentsInv'
  BY <1>6 DEF AtUse
<1>7. CASE Ensure
  <2>1. query # Idle /\ query.todo # << >>
    BY <1>7 DEF Ensure, Idle
  <2>2. query.todo \in Seq(Uris)
    BY <2>1 DEF QueryInv, IsQuery
  <2>3. Head(query.todo) \in Uris
    BY <2>1, <2>2
  <2> QED BY <1>7, <2>3 DEF Ensure, Publish
<1>8. CASE Target BY <1>8 DEF Target
<1>9. CASE Refuse BY <1>9 DEF Refuse
<1>10. CASE Declarations BY <1>10 DEF Declarations
<1>11. CASE Collect BY <1>11 DEF Collect
<1>12. CASE CollectSites BY <1>12 DEF CollectSites
<1>13. CASE NameCallers BY <1>13 DEF NameCallers
<1>14. CASE UNCHANGED vars BY <1>14 DEF vars
<1> QED
  BY <1>1, <1>2, <1>3, <1>4, <1>5, <1>6, <1>7, <1>8, <1>9, <1>10, <1>11, <1>12, <1>13,
     <1>14
  DEF Next

(* Publishing what a document's entry now is makes it current, and leaves  *)
(* the others as current as they were.                                     *)
LEMMA PublishCurrent ==
    ASSUME NEW u, Publish(u, Entry(text, u)), UNCHANGED text
    PROVE  /\ IsCurrent(u)'
           /\ \A v \in Uris : IsCurrent(v) => IsCurrent(v)'
<1>1. DOMAIN entries' = DOMAIN entries \cup {u}
  BY DEF Publish
<1>2. entries'[u] = Entry(text, u)
  BY DEF Publish
<1>3. \A v \in DOMAIN entries : v # u => entries'[v] = entries[v]
  BY DEF Publish
<1>4. \A v : Entry(text', v) = Entry(text, v)
  OBVIOUS
<1>5. \A v : IsCurrent(v)' <=> v \in DOMAIN entries' /\ entries'[v] = Entry(text, v)
  BY <1>4 DEF IsCurrent
<1> QED BY <1>1, <1>2, <1>3, <1>5 DEF IsCurrent

-----------------------------------------------------------------------------
(* Queries                                                                 *)

(* What a query is about does not change with its progress.                *)
LEMMA SameSubject ==
    ASSUME UNCHANGED text, query'.use = query.use, query'.key = query.key,
           query.use = None => query'.owner = query.owner
    PROVE  /\ Owner' = Owner /\ KeyIsUnique' = KeyIsUnique
           /\ BoundUses' = BoundUses /\ BoundSpans' = BoundSpans /\ BoundCalls' = BoundCalls
<1>1. Owner' = Owner
  BY DEF Owner
<1>2. KeyIsUnique' = KeyIsUnique
  BY <1>1 DEF KeyIsUnique
<1>3. BoundUses' = BoundUses
  BY <1>1 DEF BoundUses
<1>4. BoundCalls' = BoundCalls
  BY <1>3 DEF BoundCalls
<1>5. BoundSpans' = BoundSpans
  BY <1>1, <1>3 DEF BoundSpans
<1> QED BY <1>1, <1>2, <1>3, <1>4, <1>5

(* A step of another request that a query does not notice.                 *)
LEMMA UnnoticedKept ==
    ASSUME QueryInv, UNCHANGED <<text, query>>,
           \A u \in Uris : IsCurrent(u) => IsCurrent(u)'
    PROVE  QueryInv'
<1>1. /\ Owner' = Owner /\ KeyIsUnique' = KeyIsUnique
      /\ BoundUses' = BoundUses /\ BoundSpans' = BoundSpans /\ BoundCalls' = BoundCalls
  BY SameSubject
<1>2. StillRight => StillRight'
  BY <1>1 DEF StillRight, AllCurrent
<1>3. QueriesExact'
  BY <1>1 DEF QueryInv, QueriesExact, Undisturbed
<1> QED BY <1>2, <1>3 DEF QueryInv, IsQuery, Fields

(* A step of another request that it does.                                 *)
LEMMA MetKept ==
    ASSUME QueryInv, query' = Met
    PROVE  QueryInv'
<1>1. CASE query.step = "answered"
  <2>1. query' = Idle
    BY <1>1 DEF Met
  <2> QED BY <2>1 DEF QueryInv, QueriesExact, Undisturbed
<1>2. CASE query.step # "answered"
  <2>1. query # Idle
    BY <1>2 DEF Idle
  <2>2. IsQuery(query) /\ query' = [query EXCEPT !.still = FALSE]
    BY <1>2, <2>1 DEF QueryInv, Met
  <2>3. IsQuery(query') /\ query'.still = FALSE
    BY <2>2 DEF IsQuery, Fields
  <2> QED BY <2>3 DEF QueryInv, QueriesExact, Undisturbed
<1> QED BY <1>1, <1>2

-----------------------------------------------------------------------------
(* The steps of a query                                                    *)

(* A query begins at a declaration of u, or at a use in u.                 *)
LEMMA AskedKept ==
    ASSUME DocumentsInv, UNCHANGED text,
           NEW kind \in Kinds, NEW step \in {"target", "collect", "refused"}, NEW u \in Uris,
           NEW use, NEW key, query' = Asked(kind, step, u, use, key),
           (IF use = None THEN u ELSE use.owner) \in Uris,
           key \in Declared(text[IF use = None THEN u ELSE use.owner]),
           kind = "callers" => step # "target" /\ key.kind = "function",
           step = "collect" => kind # "references" /\ (use = None \/ use.owner = u),
           step = "target" /\ kind = "rename" => use # None
    PROVE  QueryInv'
<1>1. /\ query'.kind = kind /\ query'.step = step /\ query'.todo = UriOrder
      /\ query'.owner = u /\ query'.module = text[u].module /\ query'.use = use
      /\ query'.key = key /\ query'.hits = {}
  BY DEF Asked
<1>2. IsQuery(query')
  BY IndexAssumption DEF Asked, IsQuery, Fields
<1>3. Owner' = IF use = None THEN u ELSE use.owner
  BY <1>1 DEF Owner
<1>4. \A v \in Uris : \E i \in DOMAIN UriOrder : UriOrder[i] = v
  BY DEF Uris
<1>5. StillRight'
  BY <1>1, <1>3, <1>4 DEF StillRight
<1>6. ~Undisturbed'
  BY <1>1 DEF Undisturbed
<1> QED BY <1>2, <1>5, <1>6 DEF QueryInv, QueriesExact

LEMMA AtDeclarationKept ==
    ASSUME DocumentsInv, NEW kind \in Kinds, NEW u \in Uris, NEW d, AtDeclaration(kind, u, d)
    PROVE  QueryInv'
<1>1. Resolved(kind, u) \in {"target", "collect", "refused"}
  BY DEF Resolved
<1>2. kind \in {"callers", "rename"} => Resolved(kind, u) # "target"
  BY DEF Resolved
<1>3. Resolved(kind, u) = "collect" => kind # "references"
  BY DEF Resolved
<1> QED BY <1>1, <1>2, <1>3, AskedKept DEF AtDeclaration

LEMMA AtUseKept ==
    ASSUME DocumentsInv, NEW kind \in Kinds, NEW u \in Uris, NEW use \in text[u].uses,
           AtUse(kind, u, use)
    PROVE  QueryInv'
<1> DEFINE step == IF use.owner = u THEN Resolved(kind, u) ELSE "target"
<1>1. step \in {"target", "collect", "refused"} /\ (step = "collect" => kind # "references")
  BY DEF Resolved
<1>2. text[u] \in Texts
  BY DEF DocumentsInv
<1>3. use.owner \in Uris /\ use # None
  BY <1>2, IndexAssumption
<1>4. PICK b \in Bound(text, use) : query' = Asked(kind, step, u, use, b.key)
  BY DEF AtUse
<1>5. b.key \in Declared(text[use.owner])
  BY DEF Bound
<1>6. kind # "callers" /\ UNCHANGED text
  BY DEF AtUse
<1>7. step = "collect" => use.owner = u
  OBVIOUS
<1> HIDE DEF step
<1> QED BY <1>1, <1>3, <1>4, <1>5, <1>6, <1>7, AskedKept

(* A step that brings a document up to date.                               *)
LEMMA EnsureKept ==
    ASSUME DocumentsInv, QueryInv, Ensure
    PROVE  QueryInv'
<1> PICK u : u = Head(query.todo)
  OBVIOUS
<1>1. query.step \in {"target", "collect"} /\ query # Idle /\ IsQuery(query)
  BY DEF Ensure, Idle, QueryInv
<1>2. query.todo # << >> /\ query.todo \in Seq(Uris)
  BY <1>1 DEF Ensure, IsQuery
<1>3. query' = [query EXCEPT !.todo = Tail(query.todo)] /\ UNCHANGED text
  BY DEF Ensure
<1>4. /\ query'.kind = query.kind /\ query'.step = query.step /\ query'.still = query.still
      /\ query'.owner = query.owner /\ query'.module = query.module
      /\ query'.use = query.use /\ query'.key = query.key /\ query'.hits = query.hits
      /\ query'.todo = Tail(query.todo)
  BY <1>1, <1>3 DEF IsQuery, Fields
<1>5. IsQuery(query')
  <2>1. query' = Fields(query')
    BY <1>1, <1>3 DEF IsQuery, Fields
  <2>2. Tail(query.todo) \in Seq(Uris)
    BY <1>2
  <2> QED BY <1>1, <1>4, <2>1, <2>2 DEF IsQuery
<1>6. IsCurrent(u)' /\ \A v \in Uris : IsCurrent(v) => IsCurrent(v)'
  <2>1. CASE IsCurrent(u)
    BY <1>3, <2>1 DEF Ensure, IsCurrent, Entry, Bound
  <2>2. CASE ~IsCurrent(u)
    BY <1>3, <2>2, PublishCurrent DEF Ensure
  <2> QED BY <2>1, <2>2
<1>7. /\ Owner' = Owner /\ KeyIsUnique' = KeyIsUnique /\ BoundUses' = BoundUses
  BY <1>3, <1>4, SameSubject
<1>8. ASSUME StillRight PROVE StillRight'
  <2>1. ASSUME NEW v \in Uris
        PROVE  IsCurrent(v)' \/ \E i \in DOMAIN Tail(query.todo) : Tail(query.todo)[i] = v
    <3>1. CASE IsCurrent(v) BY <3>1, <1>6
    <3>2. CASE \E i \in DOMAIN query.todo : query.todo[i] = v
      <4>1. PICK i \in DOMAIN query.todo : query.todo[i] = v BY <3>2
      <4>2. CASE i = 1 BY <4>1, <4>2, <1>6, <1>2
      <4>3. CASE i # 1
        <5>1. i - 1 \in DOMAIN Tail(query.todo) /\ Tail(query.todo)[i - 1] = v
          BY <4>1, <4>3, <1>2
        <5> QED BY <5>1
      <4> QED BY <4>2, <4>3
    <3> QED BY <3>1, <3>2, <1>1, <1>8 DEF StillRight
  <2> QED BY <1>1, <1>3, <1>4, <1>7, <1>8, <2>1 DEF StillRight
<1>9. ~Undisturbed'
  BY <1>1, <1>4 DEF Undisturbed
<1> QED BY <1>1, <1>4, <1>5, <1>8, <1>9 DEF QueryInv, QueriesExact

(* A query that has passed every document and met nothing reads an index   *)
(* that is up to date.                                                     *)
LEMMA NothingToDo ==
    ASSUME QueryInv, query # Idle, query.still, query.step \in {"target", "collect"},
           query.todo = << >>
    PROVE  StillRight /\ AllCurrent
BY DEF QueryInv, StillRight, AllCurrent

(* rename_target: the first declaration of a unique key is the one bound.  *)
LEMMA TargetKept ==
    ASSUME IndexExact, DocumentsInv, QueryInv, Target
    PROVE  QueryInv'
<1>1. query # Idle /\ query.step = "target" /\ query.kind = "rename" /\ query.todo = << >>
  BY DEF Target, Idle
<1>2. IsQuery(query) /\ UNCHANGED text
  BY <1>1 DEF QueryInv, Target
<1>3. CASE query' = [query EXCEPT !.step = "refused"]
  <2>1. /\ IsQuery(query') /\ query'.step = "refused" /\ query'.kind = query.kind
        /\ query'.still = query.still
        /\ query'.owner = query.owner /\ query'.use = query.use /\ query'.key = query.key
    BY <1>2, <1>3 DEF IsQuery, Fields
  <2>2. Owner' = Owner
    BY <2>1 DEF Owner
  <2>3. StillRight => StillRight'
    BY <1>1, <1>2, <2>1, <2>2 DEF StillRight
  <2> QED BY <1>1, <2>1, <2>3 DEF QueryInv, QueriesExact, Undisturbed
<1>4. CASE query' # [query EXCEPT !.step = "refused"]
  <2>1. Matching # {} /\ \E u : /\ u = CHOOSE w \in Matching :
                                         \A v \in Matching : Position(w) <= Position(v)
                                /\ query' = [query EXCEPT !.owner = u,
                                       !.step = Resolved("rename", u), !.todo = UriOrder]
    BY <1>4 DEF Target
  <2>2. PICK u : /\ u = CHOOSE w \in Matching : \A v \in Matching : Position(w) <= Position(v)
                 /\ query' = [query EXCEPT !.owner = u, !.step = Resolved("rename", u),
                                           !.todo = UriOrder]
    BY <2>1
  <2>3. Resolved("rename", u) \in {"collect", "refused"}
    BY DEF Resolved
  <2>4. /\ query'.kind = "rename" /\ query'.step \in {"collect", "refused"}
        /\ query'.still = query.still /\ query'.owner = u /\ query'.use = query.use
        /\ query'.key = query.key /\ query'.hits = query.hits /\ query'.todo = UriOrder
    BY <1>1, <1>2, <2>2, <2>3 DEF IsQuery, Fields
  <2>5. IsQuery(query')
    <3>1. query' = Fields(query')
      BY <1>2, <2>2 DEF IsQuery, Fields
    <3> QED BY <1>2, <2>4, <3>1, IndexAssumption DEF IsQuery, Kinds
  <2>6. ASSUME query.still PROVE StillRight'
    <3>1. StillRight /\ AllCurrent
      BY <1>1, <2>6, NothingToDo
    <3>2. query.use # None
      BY <1>1, <3>1 DEF StillRight
    <3>3. /\ Owner' = Owner /\ KeyIsUnique' = KeyIsUnique
      BY <1>2, <2>4, <3>2, SameSubject
    <3>4. \A v \in Uris : \E i \in DOMAIN UriOrder : UriOrder[i] = v
      BY DEF Uris
    <3>5. ASSUME KeyIsUnique PROVE u = Owner
      <4>1. Matching = {Owner}
        BY <1>1, <3>1, <3>5, MatchingExact DEF StillRight, DocumentsInv
      <4>2. Position(Owner) <= Position(Owner)
        <5>1. Position(Owner) \in DOMAIN UriOrder
          BY <3>1, <3>4 DEF StillRight, Position
        <5> QED BY <5>1, IndexAssumption
      <4> QED BY <2>2, <4>1, <4>2
    <3> QED BY <1>1, <1>2, <2>4, <3>1, <3>3, <3>4, <3>5 DEF StillRight
  <2>7. ~Undisturbed'
    BY <2>4 DEF Undisturbed
  <2> QED BY <2>4, <2>5, <2>6, <2>7 DEF QueryInv, QueriesExact
<1> QED BY <1>3, <1>4

(* references: the declarations of a unique key are the one bound.         *)
LEMMA DeclarationsKept ==
    ASSUME IndexExact, DocumentsInv, QueryInv, Declarations
    PROVE  QueryInv'
<1>1. query # Idle /\ query.step = "target" /\ query.kind = "references" /\ query.todo = << >>
  BY DEF Declarations, Idle
<1>2. IsQuery(query) /\ UNCHANGED text
  BY <1>1 DEF QueryInv, Declarations
<1> DEFINE found == {<<u, query.key.place>> : u \in
              IF Matching = {} /\ (query.use = None \/ query.use.owner = query.owner)
              THEN {query.owner} ELSE Matching}
<1>3. query' = [query EXCEPT !.step = "collect", !.todo = UriOrder, !.hits = found]
  BY DEF Declarations
<1>4. Matching = {Owner} => found = {<<Owner, query.key.place>>}
  OBVIOUS
<1> HIDE DEF found
<1>5. /\ query'.kind = "references" /\ query'.step = "collect"
      /\ query'.still = query.still /\ query'.owner = query.owner /\ query'.use = query.use
      /\ query'.key = query.key /\ query'.hits = found /\ query'.todo = UriOrder
  BY <1>1, <1>2, <1>3 DEF IsQuery, Fields
<1>6. IsQuery(query')
  <2>1. query' = Fields(query')
    BY <1>2, <1>3 DEF IsQuery, Fields
  <2> QED BY <1>2, <1>5, <2>1, IndexAssumption DEF IsQuery, Kinds
<1>7. ASSUME query.still PROVE StillRight'
  <2>1. StillRight /\ AllCurrent
    BY <1>1, <1>7, NothingToDo
  <2>2. Owner' = Owner /\ KeyIsUnique' = KeyIsUnique
    BY <1>2, <1>5, SameSubject
  <2>3. \A v \in Uris : \E i \in DOMAIN UriOrder : UriOrder[i] = v
    BY DEF Uris
  <2>4. KeyIsUnique => Matching = {Owner}
    BY <1>1, <2>1, MatchingExact DEF StillRight, DocumentsInv
  <2> QED BY <1>1, <1>2, <1>4, <1>5, <2>1, <2>2, <2>3, <2>4 DEF StillRight
<1>8. ~Undisturbed'
  BY <1>5 DEF Undisturbed
<1> QED BY <1>5, <1>6, <1>7, <1>8 DEF QueryInv, QueriesExact

(* rename and references answer with the bound spans of a unique key.      *)
LEMMA CollectKept ==
    ASSUME IndexExact, DocumentsInv, QueryInv, Collect
    PROVE  QueryInv'
<1>1. /\ query # Idle /\ query.step = "collect" /\ query.kind \in {"rename", "references"}
      /\ query.todo = << >>
  BY DEF Collect, Idle
<1>2. IsQuery(query) /\ UNCHANGED text
  BY <1>1 DEF QueryInv, Collect
<1> DEFINE found == query.hits \cup Occurrences \cup
                      (IF query.kind = "rename" THEN {<<query.owner, query.key.place>>} ELSE {})
<1>3. query' = [query EXCEPT !.step = "answered", !.hits = found]
  BY DEF Collect
<1>4. query.kind = "rename" /\ query.hits = {} /\ query.owner = Owner =>
          found = Occurrences \cup {<<Owner, query.key.place>>}
  OBVIOUS
<1>5. query.kind = "references" /\ query.hits = {<<Owner, query.key.place>>} =>
          found = Occurrences \cup {<<Owner, query.key.place>>}
  OBVIOUS
<1> HIDE DEF found
<1>6. /\ query'.kind = query.kind /\ query'.step = "answered"
      /\ query'.still = query.still /\ query'.owner = query.owner /\ query'.use = query.use
      /\ query'.key = query.key /\ query'.hits = found
  BY <1>2, <1>3 DEF IsQuery, Fields
<1>7. IsQuery(query')
  BY <1>2, <1>3 DEF IsQuery, Fields
<1>8. Owner' = Owner /\ KeyIsUnique' = KeyIsUnique /\ BoundSpans' = BoundSpans
  BY <1>2, <1>6, SameSubject
<1>9. ASSUME query.still PROVE StillRight' /\ (KeyIsUnique => found = BoundSpans)
  <2>1. StillRight /\ AllCurrent
    BY <1>1, <1>9, NothingToDo
  <2>2. StillRight'
    BY <1>1, <1>2, <1>6, <1>8, <2>1 DEF StillRight
  <2>3. ASSUME KeyIsUnique PROVE found = BoundSpans
    <3>1. Occurrences = {<<b[1], b[2].site>> : b \in BoundUses}
      BY <2>1, <2>3, OccurrencesExact DEF DocumentsInv
    <3>2. found = Occurrences \cup {<<Owner, query.key.place>>}
      BY <1>1, <1>4, <1>5, <2>1, <2>3 DEF StillRight
    <3> QED BY <3>1, <3>2 DEF BoundSpans
  <2> QED BY <2>2, <2>3
<1>10. QueriesExact'
  BY <1>1, <1>6, <1>8, <1>9 DEF QueriesExact, Undisturbed
<1> QED BY <1>6, <1>7, <1>9, <1>10 DEF QueryInv

(* incoming_calls: the sites of the bound uses, then their names.          *)
LEMMA CollectSitesKept ==
    ASSUME IndexExact, DocumentsInv, QueryInv, CollectSites
    PROVE  QueryInv'
<1>1. /\ query # Idle /\ query.step = "collect" /\ query.kind = "callers"
      /\ query.todo = << >>
  BY DEF CollectSites, Idle
<1>2. IsQuery(query) /\ UNCHANGED <<text, entries>>
  BY <1>1 DEF QueryInv, CollectSites
<1>3. query' = [query EXCEPT !.step = "name", !.hits = Sites]
  BY DEF CollectSites, Sites
<1>4. /\ query'.kind = "callers" /\ query'.step = "name"
      /\ query'.still = query.still /\ query'.owner = query.owner /\ query'.use = query.use
      /\ query'.key = query.key /\ query'.hits = Sites
  BY <1>1, <1>2, <1>3 DEF IsQuery, Fields
<1>5. IsQuery(query')
  BY <1>2, <1>3 DEF IsQuery, Fields
<1>6. Owner' = Owner /\ KeyIsUnique' = KeyIsUnique /\ BoundUses' = BoundUses
  BY <1>2, <1>4, SameSubject
<1>7. ASSUME query.still PROVE StillRight'
  <2>1. StillRight /\ AllCurrent
    BY <1>1, <1>7, NothingToDo
  <2>2. AllCurrent'
    BY <1>2, <2>1 DEF AllCurrent, IsCurrent, Entry, Bound
  <2>3. query.key.kind = "function"
    BY <1>1, <2>1 DEF StillRight
  <2>4. KeyIsUnique => Sites = {<<b[1], b[2].caller>> : b \in BoundUses}
    BY <2>1, <2>3, SitesExact DEF StillRight, DocumentsInv
  <2> QED BY <1>2, <1>4, <1>6, <2>1, <2>2, <2>3, <2>4 DEF StillRight
<1>8. ~Undisturbed'
  BY <1>4 DEF Undisturbed
<1> QED BY <1>4, <1>5, <1>7, <1>8 DEF QueryInv, QueriesExact

LEMMA NameCallersKept ==
    ASSUME DocumentsInv, QueryInv, NameCallers
    PROVE  QueryInv'
<1>1. query # Idle /\ query.step = "name"
  BY DEF NameCallers, Idle
<1>2. IsQuery(query) /\ UNCHANGED text
  BY <1>1 DEF QueryInv, NameCallers
<1> DEFINE Name(h) == <<h[1], entries[h[1]].text.decls[h[2]].name>>
           Named == {h \in query.hits : /\ h[1] \in DOMAIN entries
                                        /\ h[2] \in DOMAIN entries[h[1]].text.decls}
           found == {Name(h) : h \in Named}
           Called(b) == <<b[1], text[b[1]].decls[b[2].caller].name>>
<1>3. query' = [query EXCEPT !.step = "answered", !.hits = found]
  BY DEF NameCallers
<1>4. ASSUME query.still, KeyIsUnique PROVE found = {Called(b) : b \in BoundCalls}
  <2>1. AllCurrent /\ query.hits = {<<b[1], b[2].caller>> : b \in BoundUses}
    BY <1>1, <1>4 DEF QueryInv, StillRight
  <2>2. DOMAIN entries = Uris /\ \A u \in Uris : entries[u].text = text[u]
    <3>1. DOMAIN entries = Uris /\ \A u \in Uris : entries[u] = Entry(text, u)
      BY <2>1, CurrentEntries DEF DocumentsInv
    <3>2. \A u \in Uris : Entry(text, u).text = text[u]
      BY DEF Entry
    <3> QED BY <3>1, <3>2
  <2>3. \A b \in BoundUses : b[1] \in Uris
    BY BoundUsesAre DEF DocumentsInv
  <2>4. ASSUME NEW b \in BoundUses PROVE Name(<<b[1], b[2].caller>>) = Called(b)
    BY <2>2, <2>3
  <2>5. ASSUME NEW b \in BoundUses
        PROVE  <<b[1], b[2].caller>> \in Named <=> b \in BoundCalls
    BY <2>1, <2>2, <2>3 DEF BoundCalls
  <2>6. ASSUME NEW h \in Named PROVE \E b \in BoundCalls : Name(h) = Called(b)
    <3>1. PICK b \in BoundUses : h = <<b[1], b[2].caller>>
      BY <2>1
    <3> QED BY <2>4, <2>5, <3>1
  <2>7. ASSUME NEW b \in BoundCalls PROVE \E h \in Named : Name(h) = Called(b)
    <3>1. b \in BoundUses
      BY DEF BoundCalls
    <3>2. <<b[1], b[2].caller>> \in Named /\ Name(<<b[1], b[2].caller>>) = Called(b)
      BY <2>4, <2>5, <3>1
    <3> QED BY <3>2
  <2> HIDE DEF Name, Named, Called
  <2> QED BY <2>6, <2>7
<1> HIDE DEF found
<1>5. /\ query'.kind = query.kind /\ query'.step = "answered"
      /\ query'.still = query.still /\ query'.owner = query.owner /\ query'.use = query.use
      /\ query'.key = query.key /\ query'.hits = found
  BY <1>2, <1>3 DEF IsQuery, Fields
<1>6. IsQuery(query')
  BY <1>2, <1>3 DEF IsQuery, Fields
<1>7. /\ Owner' = Owner /\ KeyIsUnique' = KeyIsUnique /\ BoundCalls' = BoundCalls
  BY <1>2, <1>5, SameSubject
<1>8. query.still => StillRight /\ query.kind = "callers"
  BY <1>1 DEF QueryInv, StillRight
<1>9. StillRight => StillRight'
  BY <1>1, <1>2, <1>5, <1>7 DEF StillRight
<1>10. QueriesExact'
  BY <1>2, <1>4, <1>5, <1>7, <1>8 DEF QueriesExact, Undisturbed
<1> QED BY <1>5, <1>6, <1>8, <1>9, <1>10 DEF QueryInv

-----------------------------------------------------------------------------
(* QueriesExact: a query that no other request disturbs answers with the   *)
(* declaration and the uses bound to it, and nothing else, for any         *)
(* documents and any other requests before and after (rename.rs rename,    *)
(* queries.rs references, intel.rs incoming_calls).                        *)
THEOREM QueriesAreExact == Spec => []QueriesExact
<1>1. Init => DocumentsInv /\ QueryInv
  <2> SUFFICES ASSUME Init PROVE DocumentsInv /\ QueryInv
    OBVIOUS
  <2>1. query = Idle /\ ~Undisturbed
    BY DEF Init, Undisturbed
  <2>2. DocumentsInv
    BY DEF Init, DocumentsInv
  <2> QED BY <2>1, <2>2 DEF QueryInv, QueriesExact
<1>2. IndexExact /\ DocumentsInv /\ QueryInv /\ [Next]_vars => (DocumentsInv /\ QueryInv)'
  <2> SUFFICES ASSUME IndexExact, DocumentsInv, QueryInv, [Next]_vars PROVE QueryInv'
    BY DocumentsKept
  <2>1. ASSUME NEW u \in Uris, NEW t \in TextsOf[u], Edit(u, t) PROVE QueryInv'
    BY <2>1, MetKept DEF Edit
  <2>2. ASSUME NEW u \in Uris, Analyse(u) PROVE QueryInv'
    BY <2>2, UnnoticedKept DEF Analyse, IsCurrent
  <2>3. ASSUME NEW u \in Uris, RemoveEntry(u) PROVE QueryInv'
    BY <2>3, MetKept DEF RemoveEntry
  <2>4. CASE PublishEntry
    <3>1. PICK p \in late :
              /\ Publish(p.uri, p.entry)
              /\ query' = IF p.entry = Entry(text, p.uri) THEN query ELSE Met
      BY <2>4 DEF PublishEntry
    <3>2. CASE p.entry = Entry(text, p.uri)
      BY <2>4, <3>1, <3>2, PublishCurrent, UnnoticedKept DEF PublishEntry
    <3> QED BY <3>1, <3>2, MetKept
  <2>5. ASSUME NEW kind \in Kinds, NEW u \in Uris, NEW d, AtDeclaration(kind, u, d)
        PROVE  QueryInv'
    BY <2>5, AtDeclarationKept
  <2>6. ASSUME NEW kind \in Kinds, NEW u \in Uris, NEW use \in text[u].uses,
               AtUse(kind, u, use)
        PROVE  QueryInv'
    BY <2>6, AtUseKept
  <2>7. CASE Ensure BY <2>7, EnsureKept
  <2>8. CASE Target BY <2>8, TargetKept
  <2>9. CASE Refuse BY <2>9 DEF Refuse, QueryInv, QueriesExact, Undisturbed
  <2>10. CASE Declarations BY <2>10, DeclarationsKept
  <2>11. CASE Collect BY <2>11, CollectKept
  <2>12. CASE CollectSites BY <2>12, CollectSitesKept
  <2>13. CASE NameCallers BY <2>13, NameCallersKept
  <2>14. CASE UNCHANGED vars
    BY <2>14, UnnoticedKept DEF vars, IsCurrent
  <2> QED
    BY <2>1, <2>2, <2>3, <2>4, <2>5, <2>6, <2>7, <2>8, <2>9, <2>10, <2>11, <2>12,
       <2>13, <2>14 DEF Next
<1>3. QueryInv => QueriesExact
  BY DEF QueryInv
<1> QED BY <1>1, <1>2, <1>3, IndexIsExact, PTL DEF Spec

-----------------------------------------------------------------------------
(* The resident kernels                                                    *)

Steps == {"idle", "resolve", "compile", "served"}

Kernels == [label : Seq(Versions), texts : Seq(Versions)]

Requests == [step : Steps, wanted : Seq(Versions), texts : Seq(Versions),
             served : Kernels]

KernelTypeOK ==
    /\ library \in Kernel!Texts
    /\ policy \in Policies
    /\ cache = << >> \/ \E k \in Kernels : cache = <<k>>
    /\ request \in [Threads -> Requests]
    /\ current \in [Threads -> SUBSET (Kernel!Modules \X Versions)]

(* What has been read so far was there during the request.                 *)
Seen(texts, seen) ==
    /\ Len(texts) <= Len(ModuleOrder)
    /\ \A i \in 1 .. Len(texts) : <<ModuleOrder[i], texts[i]>> \in seen

(* So has every module that is compared.                                   *)
Covers(texts, seen) ==
    \A i \in 1 .. Kernel!Compared : <<ModuleOrder[i], texts[i]>> \in seen

(* What is compiled is what the label says, but for the kernels that are   *)
(* labelled before they are compiled.                                      *)
KernelOK(k) == policy # "status" => k.texts = k.label

(* The history of a request holds the library as it is.                    *)
RequestOK(r, seen) ==
    /\ r.step # "idle" => \A m \in Kernel!Modules : <<m, library[m]>> \in seen
    /\ r.step = "resolve" => Seen(r.wanted, seen)
    /\ r.step = "resolve" => r.texts = << >>
    /\ r.step = "compile" => Seen(r.texts, seen)
    /\ r.step = "compile" => Covers(r.wanted, seen)
    /\ r.step = "served" => Covers(r.served.label, seen)
    /\ r.step = "served" => KernelOK(r.served)

RequestsOK == \A t \in Threads : RequestOK(request[t], current[t])

Labelled == cache # << >> => KernelOK(cache[1])

KernelInv == KernelTypeOK /\ RequestsOK /\ Labelled

-----------------------------------------------------------------------------
(* What the program's kernels assume: modules are resolved in an order,    *)
(* and those the service names are among them.                             *)
KernelAssumption ==
    /\ ModuleOrder \in Seq(Kernel!Modules)
    /\ NamedModules \in 0 .. Len(ModuleOrder)

LEMMA ComparedModules ==
    ASSUME KernelAssumption
    PROVE  Kernel!Compared \in 0 .. Len(ModuleOrder)
  BY DEF KernelAssumption, Kernel!Compared

(* A reading of all that is compared covers it.                            *)
LEMMA CompleteReading ==
    ASSUME KernelAssumption, NEW texts, NEW seen, Seen(texts, seen),
           Len(texts) \in {Kernel!Compared, Len(ModuleOrder)}
    PROVE  Covers(texts, seen)
  <1>1. Kernel!Compared \in 0 .. Len(texts) /\ Len(texts) \in Nat
    BY ComparedModules DEF KernelAssumption
  <1> QED BY <1>1 DEF Seen, Covers

(* Reading one module more keeps a reading one of the request's time.      *)
LEMMA LongerReading ==
    ASSUME KernelAssumption, NEW texts \in Seq(Versions), NEW seen, library \in Kernel!Texts,
           Seen(texts, seen), Len(texts) < Len(ModuleOrder),
           \A m \in Kernel!Modules : <<m, library[m]>> \in seen
    PROVE  LET longer == Append(texts, library[ModuleOrder[Len(texts) + 1]])
           IN  longer \in Seq(Versions) /\ Seen(longer, seen)
  <1> DEFINE n == Len(texts) + 1
             m == ModuleOrder[n]
             longer == Append(texts, library[m])
  <1>1. n \in 1 .. Len(ModuleOrder) /\ m \in Kernel!Modules
    BY DEF KernelAssumption
  <1>2. library[m] \in Versions
    BY <1>1 DEF Kernel!Texts
  <1>3. longer \in Seq(Versions) /\ Len(longer) = n
    BY <1>2
  <1>4. ASSUME NEW i \in 1 .. n
        PROVE  <<ModuleOrder[i], longer[i]>> \in seen
    <2>1. CASE i = n
      <3>1. longer[i] = library[m]
        BY <2>1, <1>2
      <3> QED BY <3>1, <2>1, <1>1
    <2>2. CASE i # n
      <3>1. i \in 1 .. Len(texts) /\ longer[i] = texts[i]
        BY <2>2, <1>2
      <3> QED BY <3>1 DEF Seen
    <2> QED BY <2>1, <2>2
  <1> QED BY <1>1, <1>3, <1>4 DEF Seen, KernelAssumption

(* The empty reading.                                                      *)
LEMMA NothingRead ==
    ASSUME KernelAssumption, NEW seen
    PROVE  Seen(<< >>, seen)
  BY DEF Seen, KernelAssumption

(* More history does no harm.                                              *)
LEMMA MoreSeen ==
    ASSUME NEW texts, NEW seen, NEW more, seen \subseteq more
    PROVE  /\ Seen(texts, seen) => Seen(texts, more)
           /\ Covers(texts, seen) => Covers(texts, more)
  BY DEF Seen, Covers

(* The initial states.                                                     *)
LEMMA KernelInit == Kernel!Init => KernelInv
  <1> SUFFICES ASSUME Kernel!Init PROVE KernelInv
    OBVIOUS
  <1>1. Kernel!Idle \in Requests /\ Kernel!Idle.step = "idle"
    BY DEF Kernel!Idle, Kernel!NoKernel, Kernels, Requests, Steps
  <1> QED BY <1>1 DEF Kernel!Init, KernelInv, KernelTypeOK, RequestsOK, RequestOK, Labelled

(* A step of one request that reads the library and the cache only leaves  *)
(* the others as they were.                                                *)
LEMMA OneRequest ==
    ASSUME KernelInv, NEW t \in Threads, NEW r \in Requests,
           NEW seen \in SUBSET (Kernel!Modules \X Versions),
           request' = [request EXCEPT ![t] = r],
           current' = [current EXCEPT ![t] = seen],
           UNCHANGED <<library, policy>>,
           RequestOK(r, seen)
    PROVE  /\ request' \in [Threads -> Requests]
           /\ current' \in [Threads -> SUBSET (Kernel!Modules \X Versions)]
           /\ RequestsOK'
  <1>1. request' \in [Threads -> Requests] /\ current' \in [Threads -> SUBSET (Kernel!Modules \X Versions)]
    BY DEF KernelInv, KernelTypeOK
  <1>2. ASSUME NEW s \in Threads
        PROVE  RequestOK(request[s], current[s])'
    <2>1. CASE s = t
      <3>1. request'[s] = r /\ current'[s] = seen
        BY <2>1 DEF KernelInv, KernelTypeOK
      <3> QED BY <3>1 DEF RequestOK, Covers, KernelOK, Kernel!Compared
    <2>2. CASE s # t
      <3>1. request'[s] = request[s] /\ current'[s] = current[s]
        BY <2>2 DEF KernelInv, KernelTypeOK
      <3> QED BY <3>1 DEF KernelInv, RequestsOK, RequestOK, Covers, KernelOK, Kernel!Compared
    <2> QED BY <2>1, <2>2
  <1> QED BY <1>1, <1>2 DEF RequestsOK

(* The library changes: the new text is one of the time of every request.  *)
LEMMA ChangeStep ==
    ASSUME KernelInv, NEW m \in Kernel!Modules, NEW v \in Versions, Kernel!Change(m, v)
    PROVE  KernelInv'
  <1>1. library' \in Kernel!Texts
    BY DEF Kernel!Change, KernelInv, KernelTypeOK, Kernel!Texts
  <1>2. current' \in [Threads -> SUBSET (Kernel!Modules \X Versions)]
    BY DEF Kernel!Change, KernelInv, KernelTypeOK
  <1>3. ASSUME NEW t \in Threads
        PROVE  RequestOK(request[t], current[t])'
    <2>1. CASE request[t].step = "idle"
      BY <2>1 DEF Kernel!Change, RequestOK
    <2>2. CASE request[t].step # "idle"
      <3> DEFINE more == current[t] \cup {<<m, v>>}
      <3>1. request'[t] = request[t] /\ current'[t] = more
        BY <2>2 DEF Kernel!Change
      <3>2. RequestOK(request[t], current[t])
        BY DEF KernelInv, RequestsOK
      <3>3. ASSUME NEW n \in Kernel!Modules
            PROVE  <<n, library'[n]>> \in more
        <4>1. CASE n = m
          BY <4>1 DEF Kernel!Change, KernelInv, KernelTypeOK, Kernel!Texts
        <4>2. CASE n # m
          BY <4>2, <3>2, <2>2 DEF Kernel!Change, KernelInv, KernelTypeOK, Kernel!Texts, RequestOK
        <4> QED BY <4>1, <4>2
      <3>4. current[t] \subseteq more
        OBVIOUS
      <3> HIDE DEF more
      <3>5. policy' = policy
        BY DEF Kernel!Change
      <3> QED
        BY <3>1, <3>2, <3>3, <3>4, <3>5, MoreSeen
           DEF RequestOK, Covers, KernelOK, Kernel!Compared
    <2> QED BY <2>1, <2>2
  <1>4. Labelled'
    BY DEF Kernel!Change, KernelInv, Labelled, KernelOK
  <1>5. /\ policy' \in Policies
        /\ cache' = << >> \/ \E k \in Kernels : cache' = <<k>>
        /\ request' \in [Threads -> Requests]
    BY DEF Kernel!Change, KernelInv, KernelTypeOK
  <1>6. KernelTypeOK'
    BY <1>1, <1>2, <1>5 DEF KernelTypeOK
  <1>7. RequestsOK'
    BY <1>3 DEF RequestsOK
  <1> QED BY <1>4, <1>6, <1>7 DEF KernelInv

(* A request begins with nothing read, and with the library of that time.  *)
LEMMA BeginStep ==
    ASSUME KernelAssumption, KernelInv, NEW t \in Threads, Kernel!Begin(t)
    PROVE  KernelInv'
  <1> DEFINE r == [Kernel!Idle EXCEPT !.step = "resolve"]
             seen == {<<m, library[m]>> : m \in Kernel!Modules}
  <1>1. r \in Requests /\ r.step = "resolve" /\ r.wanted = << >> /\ r.texts = << >>
    <2>1. Kernel!Idle \in Requests /\ Kernel!Idle.wanted = << >> /\ Kernel!Idle.texts = << >>
      BY DEF Kernel!Idle, Kernel!NoKernel, Kernels, Requests, Steps
    <2> QED BY <2>1 DEF Requests, Steps
  <1>2. RequestOK(r, seen) /\ seen \in SUBSET (Kernel!Modules \X Versions)
    BY <1>1, NothingRead DEF RequestOK, KernelInv, KernelTypeOK, Kernel!Texts
  <1>3. /\ request' = [request EXCEPT ![t] = r]
        /\ current' = [current EXCEPT ![t] = seen]
        /\ UNCHANGED <<library, policy, cache>>
    BY DEF Kernel!Begin
  <1> HIDE DEF r, seen
  <1>4. /\ request' \in [Threads -> Requests]
        /\ current' \in [Threads -> SUBSET (Kernel!Modules \X Versions)]
        /\ RequestsOK'
    BY <1>1, <1>2, <1>3, OneRequest
  <1> QED BY <1>3, <1>4 DEF KernelInv, KernelTypeOK, Labelled, KernelOK

(* One module more is resolved, of those compared.                         *)
LEMMA ResolveStep ==
    ASSUME KernelAssumption, KernelInv, NEW t \in Threads, Kernel!Resolve(t)
    PROVE  KernelInv'
  <1> DEFINE old == request[t]
             longer == Append(old.wanted, library[ModuleOrder[Len(old.wanted) + 1]])
             r == [old EXCEPT !.wanted = longer]
  <1>1. old \in Requests /\ old.step = "resolve" /\ RequestOK(old, current[t])
    BY DEF Kernel!Resolve, Kernel!Read, KernelInv, KernelTypeOK, RequestsOK
  <1>2. longer \in Seq(Versions) /\ Seen(longer, current[t])
    <2>1. /\ old.wanted \in Seq(Versions)
          /\ Len(old.wanted) < Len(ModuleOrder)
      <3>1. Len(old.wanted) < Kernel!Compared /\ old.wanted \in Seq(Versions)
        BY <1>1 DEF Kernel!Resolve, Kernel!Read, Requests
      <3> HIDE DEF old
      <3> QED BY <3>1, ComparedModules DEF KernelAssumption
    <2>2. Seen(old.wanted, current[t]) /\ \A m \in Kernel!Modules : <<m, library[m]>> \in current[t]
      BY <1>1 DEF RequestOK
    <2>3. library \in Kernel!Texts
      BY DEF KernelInv, KernelTypeOK
    <2> HIDE DEF old
    <2> QED BY <2>1, <2>2, <2>3, LongerReading
  <1>3. /\ request' = [request EXCEPT ![t] = r]
        /\ UNCHANGED <<library, policy, cache, current>>
    BY DEF Kernel!Resolve, Kernel!Read, KernelInv, KernelTypeOK
  <1> HIDE DEF longer
  <1>4. r \in Requests /\ r.step = "resolve" /\ r.wanted = longer /\ r.texts = old.texts
    BY <1>1, <1>2 DEF Requests
  <1>5. RequestOK(r, current[t])
    BY <1>1, <1>2, <1>4 DEF RequestOK
  <1>6. /\ current' = [current EXCEPT ![t] = current[t]]
        /\ current[t] \in SUBSET (Kernel!Modules \X Versions)
    BY <1>3 DEF KernelInv, KernelTypeOK
  <1> HIDE DEF r
  <1>7. /\ request' \in [Threads -> Requests]
        /\ current' \in [Threads -> SUBSET (Kernel!Modules \X Versions)]
        /\ RequestsOK'
    BY <1>3, <1>4, <1>5, <1>6, OneRequest
  <1> QED BY <1>3, <1>7 DEF KernelInv, KernelTypeOK, Labelled, KernelOK

(* One module more is handed to the compiler.                              *)
LEMMA CompileStep ==
    ASSUME KernelAssumption, KernelInv, NEW t \in Threads, Kernel!Compile(t)
    PROVE  KernelInv'
  <1> DEFINE old == request[t]
             longer == Append(old.texts, library[ModuleOrder[Len(old.texts) + 1]])
             r == [old EXCEPT !.texts = longer]
  <1>1. old \in Requests /\ old.step = "compile" /\ RequestOK(old, current[t])
    BY DEF Kernel!Compile, Kernel!Read, KernelInv, KernelTypeOK, RequestsOK
  <1>2. longer \in Seq(Versions) /\ Seen(longer, current[t])
    <2>1. /\ old.texts \in Seq(Versions)
          /\ Len(old.texts) < Len(ModuleOrder)
      BY <1>1 DEF Kernel!Compile, Kernel!Read, Requests
    <2>2. Seen(old.texts, current[t]) /\ \A m \in Kernel!Modules : <<m, library[m]>> \in current[t]
      BY <1>1 DEF RequestOK
    <2>3. library \in Kernel!Texts
      BY DEF KernelInv, KernelTypeOK
    <2> HIDE DEF old
    <2> QED BY <2>1, <2>2, <2>3, LongerReading
  <1>3. /\ request' = [request EXCEPT ![t] = r]
        /\ UNCHANGED <<library, policy, cache, current>>
    BY DEF Kernel!Compile, Kernel!Read, KernelInv, KernelTypeOK
  <1> HIDE DEF longer
  <1>4. r \in Requests /\ r.step = "compile" /\ r.texts = longer /\ r.wanted = old.wanted
    BY <1>1, <1>2 DEF Requests
  <1>5. RequestOK(r, current[t])
    BY <1>1, <1>2, <1>4 DEF RequestOK
  <1>6. /\ current' = [current EXCEPT ![t] = current[t]]
        /\ current[t] \in SUBSET (Kernel!Modules \X Versions)
    BY <1>3 DEF KernelInv, KernelTypeOK
  <1> HIDE DEF r
  <1>7. /\ request' \in [Threads -> Requests]
        /\ current' \in [Threads -> SUBSET (Kernel!Modules \X Versions)]
        /\ RequestsOK'
    BY <1>3, <1>4, <1>5, <1>6, OneRequest
  <1> QED BY <1>3, <1>7 DEF KernelInv, KernelTypeOK, Labelled, KernelOK

(* A cached kernel is served when its label has what was resolved.         *)
LEMMA LookupStep ==
    ASSUME KernelAssumption, KernelInv, NEW t \in Threads, Kernel!Lookup(t)
    PROVE  KernelInv'
  <1> DEFINE old == request[t]
             hit == /\ cache # << >>
                    /\ \A i \in 1 .. Kernel!Compared : cache[1].label[i] = old.wanted[i]
             r == IF hit THEN [old EXCEPT !.step = "served", !.served = cache[1]]
                  ELSE [old EXCEPT !.step = "compile"]
  <1>1. /\ old \in Requests /\ old.step = "resolve" /\ RequestOK(old, current[t])
        /\ Len(old.wanted) = Kernel!Compared
    BY DEF Kernel!Lookup, KernelInv, KernelTypeOK, RequestsOK
  <1>2. /\ request' = [request EXCEPT ![t] = r]
        /\ UNCHANGED <<library, policy, cache, current>>
    BY DEF Kernel!Lookup, KernelInv, KernelTypeOK
  <1>3. \A m \in Kernel!Modules : <<m, library[m]>> \in current[t]
    BY <1>1 DEF RequestOK
  <1>4. Covers(old.wanted, current[t])
    BY <1>1, CompleteReading DEF RequestOK
  <1>5. r \in Requests /\ RequestOK(r, current[t])
    <2>1. CASE hit
      <3>1. cache[1] \in Kernels /\ KernelOK(cache[1])
        BY <2>1 DEF KernelInv, KernelTypeOK, Labelled
      <3>2. Covers(cache[1].label, current[t])
        BY <2>1, <1>4 DEF Covers
      <3>3. r = [old EXCEPT !.step = "served", !.served = cache[1]]
        BY <2>1
      <3>4. r \in Requests /\ r.step = "served" /\ r.served = cache[1]
        BY <3>1, <3>3, <1>1 DEF Requests, Steps
      <3> HIDE DEF r
      <3> QED BY <3>1, <3>2, <3>4, <1>3 DEF RequestOK
    <2>2. CASE ~hit
      <3>1. r = [old EXCEPT !.step = "compile"]
        BY <2>2
      <3>2. /\ r \in Requests /\ r.step = "compile" /\ r.texts = << >>
            /\ r.wanted = old.wanted
        BY <3>1, <1>1 DEF Requests, Steps, RequestOK
      <3> HIDE DEF r
      <3> QED BY <3>2, <1>3, <1>4, NothingRead DEF RequestOK
    <2> QED BY <2>1, <2>2
  <1>6. /\ current' = [current EXCEPT ![t] = current[t]]
        /\ current[t] \in SUBSET (Kernel!Modules \X Versions)
    BY <1>2 DEF KernelInv, KernelTypeOK
  <1> HIDE DEF r
  <1>7. /\ request' \in [Threads -> Requests]
        /\ current' \in [Threads -> SUBSET (Kernel!Modules \X Versions)]
        /\ RequestsOK'
    BY <1>2, <1>5, <1>6, OneRequest
  <1> QED BY <1>2, <1>7 DEF KernelInv, KernelTypeOK, Labelled, KernelOK

(* What is cached is served for its own label, whoever stored it.          *)
LEMMA StoreStep ==
    ASSUME KernelAssumption, KernelInv, NEW t \in Threads, Kernel!Store(t)
    PROVE  KernelInv'
  <1> DEFINE old == request[t]
             label == Kernel!LabelOf(old)
             prepared == [label |-> label, texts |-> old.texts]
             k == cache'[1]
             r == [old EXCEPT !.step = "served", !.served = k]
  <1>1. /\ old \in Requests /\ old.step = "compile" /\ RequestOK(old, current[t])
        /\ Len(old.texts) = Len(ModuleOrder)
    BY DEF Kernel!Store, KernelInv, KernelTypeOK, RequestsOK
  <1>2. prepared \in Kernels /\ prepared.label = label
    BY <1>1 DEF Requests, Kernels, Kernel!LabelOf
  <1>3. Covers(label, current[t])
    <2>1. Covers(old.texts, current[t]) /\ Covers(old.wanted, current[t])
      BY <1>1, CompleteReading DEF RequestOK
    <2> QED BY <2>1 DEF Kernel!LabelOf
  <1>4. KernelOK(prepared)
    BY DEF KernelOK, Kernel!LabelOf
  <1>5. UNCHANGED <<library, policy, current>>
    BY DEF Kernel!Store
  <1> HIDE DEF label
  <1>6. /\ cache' = << >> \/ \E x \in Kernels : cache' = <<x>>
        /\ cache' # << >> /\ k \in Kernels /\ KernelOK(k) /\ k.label = label
    <2>1. cache' = IF cache # << >> /\ cache[1].label = prepared.label
                   THEN cache ELSE <<prepared>>
      BY DEF Kernel!Store, label
    <2> HIDE DEF prepared
    <2>2. CASE cache # << >> /\ cache[1].label = prepared.label
      BY <1>2, <2>1, <2>2 DEF KernelInv, KernelTypeOK, Labelled
    <2>3. CASE ~(cache # << >> /\ cache[1].label = prepared.label)
      BY <1>2, <1>4, <2>1, <2>3
    <2> QED BY <2>2, <2>3
  <1>7. request' = [request EXCEPT ![t] = r]
    BY DEF Kernel!Store, KernelInv, KernelTypeOK
  <1> HIDE DEF k
  <1>8. r \in Requests /\ r.step = "served" /\ r.served = k
    BY <1>1, <1>6 DEF Requests, Steps
  <1>9. RequestOK(r, current[t])
    <2> HIDE DEF r
    <2> QED BY <1>1, <1>3, <1>6, <1>8 DEF RequestOK
  <1>10. /\ current' = [current EXCEPT ![t] = current[t]]
         /\ current[t] \in SUBSET (Kernel!Modules \X Versions)
    BY <1>5 DEF KernelInv, KernelTypeOK
  <1> HIDE DEF r
  <1>11. /\ request' \in [Threads -> Requests]
         /\ current' \in [Threads -> SUBSET (Kernel!Modules \X Versions)]
         /\ RequestsOK'
    BY <1>5, <1>7, <1>8, <1>9, <1>10, OneRequest
  <1>12. Labelled'
    BY <1>5, <1>6 DEF Labelled, KernelOK, k
  <1> QED BY <1>5, <1>6, <1>11, <1>12 DEF KernelInv, KernelTypeOK

(* A request ends, with a kernel or without.                               *)
LEMMA EndStep ==
    ASSUME KernelInv, NEW t \in Threads, Kernel!Refuse(t) \/ Kernel!Return(t)
    PROVE  KernelInv'
  <1>1. /\ request' = [request EXCEPT ![t] = Kernel!Idle]
        /\ current' = [current EXCEPT ![t] = {}]
        /\ UNCHANGED <<library, policy, cache>>
    BY DEF Kernel!Refuse, Kernel!Return
  <1>2. Kernel!Idle \in Requests /\ RequestOK(Kernel!Idle, {})
    BY DEF Kernel!Idle, Kernel!NoKernel, Kernels, Requests, Steps, RequestOK
  <1>3. /\ request' \in [Threads -> Requests]
        /\ current' \in [Threads -> SUBSET (Kernel!Modules \X Versions)]
        /\ RequestsOK'
    BY <1>1, <1>2, OneRequest
  <1> QED BY <1>1, <1>3 DEF KernelInv, KernelTypeOK, Labelled, KernelOK

(* The invariant is inductive.                                             *)
LEMMA KernelNext ==
    ASSUME KernelAssumption, KernelInv, [Kernel!Next]_(Kernel!vars)
    PROVE  KernelInv'
  <1>1. CASE Kernel!Next
    BY <1>1, ChangeStep, BeginStep, ResolveStep, LookupStep, CompileStep, StoreStep, EndStep
       DEF Kernel!Next
  <1>2. CASE UNCHANGED Kernel!vars
    BY <1>2
       DEF Kernel!vars, KernelInv, KernelTypeOK, RequestsOK, RequestOK, Labelled, Covers,
           KernelOK, Kernel!Compared
  <1> QED BY <1>1, <1>2

(* Whatever requests run and however the library changes, the identities   *)
(* an answer reports were current during its request, and kernels that are *)
(* labelled when they are compiled were compiled from the texts of those   *)
(* identities (kernel of ambient.rs, native_relation.rs, native_query.rs   *)
(* and native_filter.rs).                                                  *)
THEOREM KernelServedCurrent ==
    ASSUME KernelAssumption
    PROVE  Kernel!Spec => []Kernel!ServedKernelCurrent
  <1>1. Kernel!Init => KernelInv
    BY KernelInit
  <1>2. KernelInv /\ [Kernel!Next]_(Kernel!vars) => KernelInv'
    BY KernelNext
  <1>3. KernelInv => Kernel!ServedKernelCurrent
    BY DEF KernelInv, RequestsOK, RequestOK, Covers, KernelOK, Kernel!ServedKernelCurrent
  <1> QED BY <1>1, <1>2, <1>3, PTL DEF Kernel!Spec

-----------------------------------------------------------------------------
(* Walks of the relations                                                   *)

(* The code: the root is a node of the index, and so are those related.     *)
WalkAssumption ==
    /\ NodeOrder \in Seq(Walks!Nodes) /\ Root \in Walks!Nodes
    /\ Edges \subseteq Walks!Nodes \X Walks!Nodes
    /\ ResultCapacity \in Nat /\ MaxDepth \in Nat

At(levels, n) == n = Root \/ levels[n] > 0
Depth(levels, n) == IF n = Root THEN 0 ELSE levels[n]

(* The kernel has admitted the nodes of the codes it has seen, and its      *)
(* frontier is those of its level.                                          *)
Admits(table, walked, levels) ==
    /\ table \in Seq(Walks!Nodes \ {Root}) /\ Len(table) <= ResultCapacity
    /\ \A i, j \in DOMAIN table : table[i] = table[j] => i = j
    /\ walked.seen \subseteq 0 .. Len(table) /\ 0 \in walked.seen
    /\ walked.frontier \in Seq(0 .. Len(table)) /\ walked.level \in Nat
    /\ levels \in [Walks!Nodes -> Nat]
    /\ \A n \in Walks!Nodes : levels[n] <= walked.level
    /\ \A n \in Walks!Nodes : levels[n] > 0 <=> \E c \in walked.seen \ {0} : table[c] = n
    /\ \A c \in 0 .. Len(table) :
          (\E i \in DOMAIN walked.frontier : walked.frontier[i] = c) <=>
              /\ c \in walked.seen
              /\ walked.level = IF c = 0 THEN 0 ELSE levels[table[c]]

(* Every code was sent or is about to be.                                   *)
Sends(table, seen, sent) ==
    /\ sent \in Seq(0 .. Len(table))
    /\ \A c \in 0 .. Len(table) : c \in seen \/ \E i \in DOMAIN sent : sent[i] = c

(* Whatever has a code was met on an edge from the level before; what was   *)
(* not sent will be admitted at this one.                                   *)
Leads(table, seen, levels, now) ==
    \A c \in DOMAIN table : \E e \in ever :
        /\ e[2] = table[c] /\ At(levels, e[1])
        /\ Depth(levels, e[1]) + 1 = IF c \in seen THEN levels[table[c]] ELSE now

(* The levels before the last have been looked at.                          *)
CoversTo(levels, now) ==
    \A e \in always :
        At(levels, e[1]) /\ Depth(levels, e[1]) < now - 1 /\ e[2] # Root =>
            levels[e[2]] \in 1 .. Depth(levels, e[1]) + 1

Related == always \subseteq edges /\ edges \subseteq ever /\ ever \subseteq Edges

InLevel ==
    /\ met <=> (batch # << >> \/ kernel.level = depth)
    /\ \A k \in DOMAIN todo : At(level, todo[k][1]) /\ Depth(level, todo[k][1]) = depth - 1
    /\ \A e \in always : At(level, e[1]) /\ Depth(level, e[1]) = depth - 1 =>
          (\E k \in DOMAIN todo : todo[k] = e) \/ e[2] \in Walks!Known

Underway ==
    /\ Related
    /\ asked \in Nat /\ depth \in Nat \ {0} /\ complete
    /\ todo \in Seq(Walks!Nodes \X Walks!Nodes)
    /\ Admits(codes, kernel, level)
    /\ Sends(codes, kernel.seen, batch)
    /\ Leads(codes, kernel.seen, level, depth)
    /\ CoversTo(level, depth)
    /\ kernel.level \in {depth - 1, depth}
    /\ at = "level" => batch = << >> /\ kernel.level = depth - 1
    /\ at = "walk" => InLevel

(* The answer.                                                              *)
Answered ==
    /\ Related
    /\ Admits(codes, kernel, level)
    /\ kernel.seen = 0 .. Len(codes)
    /\ Leads(codes, kernel.seen, level, depth)
    /\ asked \in Nat
    /\ complete => CoversTo(level, asked + 1)
    /\ ~complete =>
          /\ Len(codes) = ResultCapacity
          /\ \E e \in ever : At(level, e[1]) /\ ~At(level, e[2])

WalkInv ==
    /\ at \in {"level", "walk"} => Underway
    /\ at = "done" => Answered

-----------------------------------------------------------------------------
(* What the kernel admits                                                   *)

LEMMA SameCardinality == \A S : Walks!Cardinality(S) = Cardinality(S)
  BY DEF Cardinality, Walks!Cardinality

(* The positions of a set, in order, are the positions of the set.          *)
LEMMA KthOfPositions ==
    ASSUME NEW m \in Nat, NEW P, P \subseteq 1 .. m
    PROVE  /\ Walks!Cardinality(P) \in Nat
           /\ \A k \in 1 .. Walks!Cardinality(P) : Walks!Kth(P, k) \in P
           /\ \A i \in P : \E k \in 1 .. Walks!Cardinality(P) : Walks!Kth(P, k) = i
  <1> DEFINE upTo(i) == {j \in P : j <= i}
             rank == [i \in P |-> Cardinality(upTo(i))]
             count == Cardinality(P)
  <1>1. IsFiniteSet(P) /\ count \in Nat
    <2>1. IsFiniteSet(1 .. m)
      BY FS_Interval
    <2> QED BY <2>1, FS_Subset, FS_CardinalityType
  <1>2. \A i \in P : IsFiniteSet(upTo(i)) /\ Cardinality(upTo(i)) \in 1 .. count
    <2> SUFFICES ASSUME NEW i \in P
                 PROVE  IsFiniteSet(upTo(i)) /\ Cardinality(upTo(i)) \in 1 .. count
      OBVIOUS
    <2>1. upTo(i) \subseteq P /\ i \in upTo(i)
      OBVIOUS
    <2> HIDE DEF upTo
    <2>2. IsFiniteSet(upTo(i)) /\ Cardinality(upTo(i)) <= count
      BY <1>1, <2>1, FS_Subset
    <2>3. Cardinality(upTo(i)) \in Nat
      BY <2>2, FS_CardinalityType
    <2>4. Cardinality(upTo(i)) # 0
      BY <2>1, <2>2, FS_EmptySet
    <2> QED BY <1>1, <2>2, <2>3, <2>4
  <1>3. \A i, j \in P : i < j => Cardinality(upTo(i)) < Cardinality(upTo(j))
    <2> SUFFICES ASSUME NEW i \in P, NEW j \in P, i < j
                 PROVE  Cardinality(upTo(i)) < Cardinality(upTo(j))
      OBVIOUS
    <2>0. \A x \in P : x \in Int
      OBVIOUS
    <2>1. upTo(i) \subseteq upTo(j) /\ j \in upTo(j) /\ j \notin upTo(i)
      <3>1. \A x \in P : x <= i => x <= j
        BY <2>0
      <3>2. j <= j /\ ~ (j <= i)
        BY <2>0
      <3> QED BY <3>1, <3>2
    <2> HIDE DEF upTo
    <2>2. /\ IsFiniteSet(upTo(i)) /\ Cardinality(upTo(i)) \in Nat
          /\ IsFiniteSet(upTo(j)) /\ Cardinality(upTo(j)) \in Nat
      BY <1>1, <1>2
    <2>3. Cardinality(upTo(i)) <= Cardinality(upTo(j))
      BY <2>1, <2>2, FS_Subset
    <2>4. Cardinality(upTo(i)) # Cardinality(upTo(j))
      BY <2>1, <2>2, FS_Subset
    <2> QED BY <2>2, <2>3, <2>4
  <1>4. rank \in [P -> 1 .. count] /\ \A i \in P : rank[i] = Cardinality(upTo(i))
    BY <1>2
  <1>5. \A i, j \in P : rank[i] = rank[j] => i = j
    <2> SUFFICES ASSUME NEW i \in P, NEW j \in P, i # j PROVE rank[i] # rank[j]
      OBVIOUS
    <2>1. i < j \/ j < i
      OBVIOUS
    <2>2. rank[i] \in Int /\ rank[j] \in Int
      BY <1>1, <1>4
    <2> HIDE DEF rank, upTo
    <2> QED BY <1>3, <1>4, <2>1, <2>2
  <1> HIDE DEF rank
  <1>6. \A k \in 1 .. count : \E i \in P : rank[i] = k
    <2>1. rank \in Injection(P, 1 .. count)
      BY <1>4, <1>5 DEF Injection, IsInjective
    <2>2. IsFiniteSet(1 .. count) /\ Cardinality(1 .. count) = count
      <3>1. 1 \in Int /\ count \in Int
        BY <1>1
      <3>2. /\ IsFiniteSet(1 .. count)
            /\ Cardinality(1 .. count) = IF 1 > count THEN 0 ELSE count - 1 + 1
        BY <3>1, FS_Interval
      <3> HIDE DEF count
      <3> QED BY <1>1, <3>2
    <2>3. rank \in Surjection(P, 1 .. count)
      BY <2>1, <2>2, FS_Injection
    <2> QED BY <2>3 DEF Surjection
  <1>7. \A i \in P : Walks!Cardinality({j \in P : j <= i}) = rank[i]
    BY <1>4, SameCardinality
  <1>8. Walks!Cardinality(P) = count
    BY SameCardinality
  <1> HIDE DEF count
  <1>9. \A k \in 1 .. count : Walks!Kth(P, k) \in P /\ rank[Walks!Kth(P, k)] = k
    BY <1>6, <1>7 DEF Walks!Kth
  <1>10. \A i \in P : \E k \in 1 .. count : Walks!Kth(P, k) = i
    <2> SUFFICES ASSUME NEW i \in P PROVE Walks!Kth(P, rank[i]) = i /\ rank[i] \in 1 .. count
      OBVIOUS
    <2>1. rank[i] \in 1 .. count
      BY <1>4
    <2>2. Walks!Kth(P, rank[i]) \in P /\ rank[Walks!Kth(P, rank[i])] = rank[i]
      BY <1>9, <2>1
    <2> QED BY <1>5, <2>1, <2>2
  <1> QED BY <1>1, <1>8, <1>9, <1>10 DEF count
(* A set of numbers that is not empty has a least element.                  *)
LEMMA LeastNumber ==
    ASSUME NEW T, T \subseteq Nat, T # {}
    PROVE  \E i \in T : \A j \in T : i <= j
  <1>1. IsWellFoundedOn(OpToRel(<, Nat), Nat)
    BY NatLessThanWellFounded
  <1>2. PICK i \in T : \A j \in T : ~ (<<j, i>> \in OpToRel(<, Nat))
    BY <1>1, WFMin
  <1>3. \A j \in T : ~ (j < i)
    BY <1>2 DEF OpToRel
  <1> QED BY <1>3

(* There are no more codes than an answer holds nodes, so its capacity      *)
(* turns no first visit down.                                               *)
LEMMA FirstVisitsAdmitted ==
    ASSUME WalkAssumption, NEW table, Admits(table, kernel, level),
           NEW sent \in Seq(0 .. Len(table))
    PROVE  /\ Walks!FirstVisits(sent) \subseteq 1 .. Len(sent)
           /\ \A i \in Walks!FirstVisits(sent) : sent[i] \in (0 .. Len(table)) \ kernel.seen
           /\ \A i \in DOMAIN sent : sent[i] \notin kernel.seen =>
                 \E j \in Walks!FirstVisits(sent) : sent[j] = sent[i]
  <1>1. /\ DOMAIN sent = 1 .. Len(sent) /\ Len(sent) \in Nat
        /\ \A i \in DOMAIN sent : sent[i] \in 0 .. Len(table)
    BY LenProperties, ElementOfSeq
  <1>2. /\ Len(table) \in Nat /\ Len(table) <= ResultCapacity /\ ResultCapacity \in Nat
        /\ kernel.seen \subseteq 0 .. Len(table)
    BY LenProperties DEF Admits, WalkAssumption
  <1>3. \A S : S \subseteq 0 .. Len(table) => Walks!Cardinality(S) <= ResultCapacity + 1
    <2> SUFFICES ASSUME NEW S, S \subseteq 0 .. Len(table)
                 PROVE  Walks!Cardinality(S) <= ResultCapacity + 1
      OBVIOUS
    <2>1. \A s \in S : s \in Nat /\ s <= ResultCapacity
      BY <1>2
    <2>2. Cardinality(S) <= ResultCapacity + 1
      BY <1>2, <2>1, FS_BoundedSetOfNaturals
    <2> QED BY <2>2, SameCardinality
  <1>4. \A i \in DOMAIN sent :
            i \in Walks!FirstVisits(sent) <=>
                sent[i] \notin kernel.seen /\ \A j \in 1 .. i - 1 : sent[j] # sent[i]
    <2> SUFFICES ASSUME NEW i \in DOMAIN sent
                 PROVE  Walks!Cardinality(kernel.seen \cup {sent[j] : j \in 1 .. i})
                            <= ResultCapacity + 1
      BY DEF Walks!FirstVisits
    <2>1. {sent[j] : j \in 1 .. i} \subseteq 0 .. Len(table)
      <3>1. \A j \in 1 .. i : j \in DOMAIN sent
        BY <1>1
      <3> QED BY <1>1, <3>1
    <2>2. kernel.seen \cup {sent[j] : j \in 1 .. i} \subseteq 0 .. Len(table)
      BY <1>2, <2>1
    <2> QED BY <1>3, <2>2
  <1>5. ASSUME NEW i \in DOMAIN sent, sent[i] \notin kernel.seen
        PROVE  \E j \in Walks!FirstVisits(sent) : sent[j] = sent[i]
    <2> DEFINE T == {j \in DOMAIN sent : sent[j] = sent[i]}
    <2>1. T \subseteq Nat /\ T # {}
      BY <1>1
    <2>2. PICK j \in T : \A k \in T : j <= k
      BY <2>1, LeastNumber
    <2>3. \A k \in 1 .. j - 1 : sent[k] # sent[j]
      <3> SUFFICES ASSUME NEW k \in 1 .. j - 1, sent[k] = sent[j] PROVE FALSE
        OBVIOUS
      <3>1. j \in 1 .. Len(sent)
        BY <1>1, <2>2
      <3>2. k \in DOMAIN sent /\ k < j
        BY <1>1, <3>1
      <3>3. k \in T
        BY <2>2, <3>2
      <3>4. j <= k
        BY <2>2, <3>3
      <3> QED BY <3>1, <3>2, <3>4
    <2>4. j \in Walks!FirstVisits(sent)
      BY <1>4, <1>5, <2>2, <2>3
    <2> QED BY <2>2, <2>4
  <1>6. Walks!FirstVisits(sent) \subseteq DOMAIN sent
    BY DEF Walks!FirstVisits
  <1> QED BY <1>1, <1>4, <1>5, <1>6

(* Once everything with a code is sent, everything with a code is admitted, *)
(* what was not before at this level.                                       *)
Flushed(table) ==
    /\ Admits(table, kernel', level')
    /\ kernel'.seen = 0 .. Len(table)
    /\ \A n \in Walks!Nodes :
          level'[n] = IF level[n] = 0 /\ (\E c \in DOMAIN table : table[c] = n)
                      THEN depth ELSE level[n]

LEMMA FlushAdmits ==
    ASSUME WalkAssumption, depth \in Nat \ {0},
           Admits(codes', kernel, level), kernel.level <= depth,
           NEW sent, Sends(codes', kernel.seen, sent), Walks!Flush(sent)
    PROVE  /\ Flushed(codes')
           /\ kernel'.level = IF sent = << >> THEN kernel.level ELSE depth
  <1> DEFINE table == codes'
             Codes == 0 .. Len(table)
  <1> HIDE DEF table
  <1>0. /\ table \in Seq(Walks!Nodes \ {Root}) /\ Len(table) <= ResultCapacity
        /\ Len(table) \in Nat /\ DOMAIN table = 1 .. Len(table)
        /\ \A i, j \in DOMAIN table : table[i] = table[j] => i = j
        /\ \A i \in DOMAIN table : table[i] \in Walks!Nodes \ {Root}
    BY LenProperties, ElementOfSeq DEF Admits, table
  <1>1. /\ kernel.seen \subseteq Codes /\ 0 \in kernel.seen
        /\ kernel.frontier \in Seq(Codes) /\ kernel.level \in Nat
        /\ level \in [Walks!Nodes -> Nat]
    BY DEF Admits, table
  <1>2. \A n \in Walks!Nodes : level[n] \in Nat /\ level[n] <= kernel.level
    BY <1>1 DEF Admits
  <1>3. \A n \in Walks!Nodes : level[n] > 0 <=> \E c \in kernel.seen \ {0} : table[c] = n
    BY DEF Admits, table
  <1>4. \A c \in Codes :
            (\E i \in DOMAIN kernel.frontier : kernel.frontier[i] = c) <=>
                c \in kernel.seen /\ kernel.level = IF c = 0 THEN 0 ELSE level[table[c]]
    BY DEF Admits, table
  <1>5. /\ sent \in Seq(Codes)
        /\ \A c \in Codes : c \in kernel.seen \/ \E i \in DOMAIN sent : sent[i] = c
        /\ \A i \in DOMAIN sent : sent[i] \in Codes
    BY ElementOfSeq DEF Sends, table
  <1>6. \A n \in Walks!Nodes :
            (\E c \in DOMAIN table : c \notin kernel.seen /\ table[c] = n) <=>
                level[n] = 0 /\ \E c \in DOMAIN table : table[c] = n
    <2>1. kernel.seen \ {0} \subseteq DOMAIN table
      BY <1>0, <1>1
    <2> QED BY <1>0, <1>2, <1>3, <2>1
  <1>7. CASE sent = << >>
    <2>1. kernel' = kernel /\ level' = level
      BY <1>7 DEF Walks!Flush
    <2>2. DOMAIN sent = {}
      BY <1>7
    <2>3. kernel.seen = Codes
      BY <1>1, <1>5, <2>2
    <2>4. \A c \in DOMAIN table : c \in kernel.seen
      BY <1>0, <2>3
    <2>5. Admits(table, kernel', level')
      BY <2>1 DEF table
    <2> QED BY <1>6, <1>7, <2>1, <2>3, <2>4, <2>5 DEF Flushed, table
  <1>8. CASE sent # << >>
    <2> DEFINE first == Walks!FirstVisits(sent)
               new == [k \in 1 .. Walks!Cardinality(first) |-> sent[Walks!Kth(first, k)]]
               kept == IF kernel.level = depth THEN kernel.frontier ELSE << >>
    <2>1. /\ kernel' = [seen |-> kernel.seen \cup {sent[i] : i \in DOMAIN sent},
                        frontier |-> kept \o new, level |-> depth]
          /\ level' = [n \in Walks!Nodes |->
                          IF \E i \in first : Walks!Node(sent[i], table) = n THEN depth
                          ELSE level[n]]
      BY <1>8 DEF Walks!Flush, Walks!Advance, table
    <2>2. /\ first \subseteq 1 .. Len(sent)
          /\ \A i \in first : sent[i] \in Codes \ kernel.seen
          /\ \A i \in DOMAIN sent : sent[i] \notin kernel.seen => \E j \in first : sent[j] = sent[i]
      BY <1>5, FirstVisitsAdmitted DEF table
    <2>3. Len(sent) \in Nat
      BY <1>5, LenProperties
    <2>4. /\ Walks!Cardinality(first) \in Nat
          /\ \A k \in 1 .. Walks!Cardinality(first) : Walks!Kth(first, k) \in first
          /\ \A i \in first : \E k \in 1 .. Walks!Cardinality(first) : Walks!Kth(first, k) = i
      <3> HIDE DEF first
      <3> QED BY <2>2, <2>3, KthOfPositions
    <2> HIDE DEF first
    <2>5. \A c \in Codes : (\E i \in first : sent[i] = c) <=> c \notin kernel.seen
      BY <1>5, <2>2
    <2>6. /\ new \in Seq(Codes)
          /\ \A c \in Codes : (\E k \in DOMAIN new : new[k] = c) <=> c \notin kernel.seen
      <3> DEFINE count == Walks!Cardinality(first)
      <3>1. \A k \in 1 .. count : new[k] = sent[Walks!Kth(first, k)] /\ new[k] \in Codes
        BY <2>2, <2>4
      <3>2. DOMAIN new = 1 .. count
        OBVIOUS
      <3>3. new \in Seq(Codes)
        <4>1. new \in [1 .. count -> Codes] /\ count \in Nat
          BY <2>4, <3>1
        <4> HIDE DEF new, count
        <4> QED BY <4>1, IsASeq
      <3> HIDE DEF new, count
      <3>4. \A c \in Codes : (\E k \in DOMAIN new : new[k] = c) <=> \E i \in first : sent[i] = c
        BY <2>4, <3>1, <3>2 DEF count
      <3> QED BY <2>5, <3>3, <3>4
    <2> HIDE DEF new
    <2>7. kernel'.seen = Codes /\ kernel'.level = depth /\ kernel'.frontier = kept \o new
      <3>1. kernel.seen \cup {sent[i] : i \in DOMAIN sent} = Codes
        BY <1>1, <1>5
      <3> QED BY <2>1, <3>1
    <2>8. \A n \in Walks!Nodes :
              (\E i \in first : Walks!Node(sent[i], table) = n) <=>
                  \E c \in DOMAIN table : c \notin kernel.seen /\ table[c] = n
      <3>1. \A i \in first : sent[i] # 0 /\ Walks!Node(sent[i], table) = table[sent[i]]
        BY <1>1, <2>2 DEF Walks!Node, Walks!RootCode
      <3>2. \A i \in first : sent[i] \in DOMAIN table /\ sent[i] \notin kernel.seen
        BY <1>0, <2>2, <3>1
      <3>3. \A c \in DOMAIN table : c \notin kernel.seen => \E i \in first : sent[i] = c
        BY <1>0, <2>5
      <3> QED BY <3>1, <3>2, <3>3
    <2>9. \A n \in Walks!Nodes :
              level'[n] = IF level[n] = 0 /\ (\E c \in DOMAIN table : table[c] = n)
                          THEN depth ELSE level[n]
      BY <1>6, <2>1, <2>8
    <2>10. /\ level' \in [Walks!Nodes -> Nat]
           /\ \A n \in Walks!Nodes : level'[n] <= depth
           /\ \A n \in Walks!Nodes : level'[n] > 0 <=> \E c \in Codes \ {0} : table[c] = n
      <3>1. level' \in [Walks!Nodes -> Nat]
        BY <1>2, <2>1
      <3>2. \A n \in Walks!Nodes : level'[n] <= depth
        BY <1>1, <1>2, <2>9
      <3>3. Codes \ {0} = DOMAIN table
        BY <1>0
      <3>4. \A n \in Walks!Nodes : level[n] > 0 => \E c \in DOMAIN table : table[c] = n
        BY <1>1, <1>3, <3>3
      <3>5. \A n \in Walks!Nodes : level'[n] > 0 <=> \E c \in DOMAIN table : table[c] = n
        BY <1>2, <2>9, <3>4
      <3> QED BY <3>1, <3>2, <3>3, <3>5
    <2>11. /\ kept \o new \in Seq(Codes)
           /\ \A c \in Codes :
                 (\E i \in DOMAIN (kept \o new) : (kept \o new)[i] = c) <=>
                     (\E i \in DOMAIN kept : kept[i] = c) \/ c \notin kernel.seen
      <3>1. kept \in Seq(Codes)
        <4>1. << >> \in Seq(Codes)
          BY EmptySeq
        <4> QED BY <1>1, <4>1
      <3> HIDE DEF kept
      <3> DEFINE both == kept \o new
      <3>2. /\ both \in Seq(Codes) /\ Len(both) = Len(kept) + Len(new)
            /\ \A i \in 1 .. Len(kept) + Len(new) :
                  both[i] = IF i <= Len(kept) THEN kept[i] ELSE new[i - Len(kept)]
        BY <2>6, <3>1, ConcatProperties
      <3>3. /\ DOMAIN both = 1 .. Len(kept) + Len(new) /\ DOMAIN kept = 1 .. Len(kept)
            /\ DOMAIN new = 1 .. Len(new) /\ Len(kept) \in Nat /\ Len(new) \in Nat
        BY <2>6, <3>1, <3>2, LenProperties
      <3> HIDE DEF both
      <3>4. ASSUME NEW c, NEW i \in DOMAIN both, both[i] = c
            PROVE  (\E j \in DOMAIN kept : kept[j] = c) \/ \E j \in DOMAIN new : new[j] = c
        <4>1. CASE i <= Len(kept)
          BY <3>2, <3>3, <3>4, <4>1
        <4>2. CASE ~ (i <= Len(kept))
          <5>1. i - Len(kept) \in DOMAIN new /\ new[i - Len(kept)] = c
            BY <3>2, <3>3, <3>4, <4>2
          <5> QED BY <5>1
        <4> QED BY <4>1, <4>2
      <3>5. ASSUME NEW c, NEW j \in DOMAIN kept, kept[j] = c
            PROVE  \E i \in DOMAIN both : both[i] = c
        <4>1. j \in Nat /\ j \in 1 .. Len(kept) + Len(new) /\ j <= Len(kept)
          BY <3>3, <3>5
        <4>2. both[j] = kept[j]
          BY <3>2, <4>1
        <4> QED BY <3>3, <3>5, <4>1, <4>2
      <3>6. ASSUME NEW c, NEW j \in DOMAIN new, new[j] = c
            PROVE  \E i \in DOMAIN both : both[i] = c
        <4>1. /\ j + Len(kept) \in DOMAIN both
              /\ both[j + Len(kept)] = new[(j + Len(kept)) - Len(kept)]
          <5>1. j \in Int /\ 1 <= j /\ j <= Len(new)
            BY <3>3
          <5>2. j + Len(kept) \in 1 .. Len(kept) + Len(new) /\ ~ (j + Len(kept) <= Len(kept))
            BY <3>3, <5>1
          <5> QED BY <3>2, <3>3, <5>2
        <4>2. (j + Len(kept)) - Len(kept) = j
          BY <3>3
        <4> QED BY <3>6, <4>1, <4>2
      <3>7. \A c : (\E i \in DOMAIN both : both[i] = c) <=>
                      (\E j \in DOMAIN kept : kept[j] = c) \/ \E j \in DOMAIN new : new[j] = c
        BY <3>4, <3>5, <3>6
      <3> QED BY <2>6, <3>2, <3>7 DEF both
    <2>12. ASSUME NEW c \in Codes
           PROVE  (\E i \in DOMAIN (kept \o new) : (kept \o new)[i] = c) <=>
                      depth = IF c = 0 THEN 0 ELSE level'[table[c]]
      <3>1. (\E i \in DOMAIN kept : kept[i] = c) <=>
                /\ kernel.level = depth /\ c \in kernel.seen
                /\ kernel.level = IF c = 0 THEN 0 ELSE level[table[c]]
        <4>1. CASE kernel.level = depth
          BY <1>4, <4>1
        <4>2. CASE kernel.level # depth
          <5>1. DOMAIN kept = {}
            BY <4>2
          <5> QED BY <4>2, <5>1
        <4> QED BY <4>1, <4>2
      <3> HIDE DEF kept
      <3>2. CASE c = 0
        BY <1>1, <2>11, <3>1, <3>2
      <3>3. CASE c # 0
        <4>1. c \in DOMAIN table /\ table[c] \in Walks!Nodes
          BY <1>0, <3>3
        <4>2. /\ level'[table[c]] = IF level[table[c]] = 0 THEN depth ELSE level[table[c]]
              /\ level[table[c]] \in Nat /\ level[table[c]] <= kernel.level
          BY <1>2, <2>9, <4>1
        <4>3. c \in kernel.seen <=> level[table[c]] > 0
          <5>1. c \in kernel.seen => level[table[c]] > 0
            BY <1>3, <3>3, <4>1
          <5>2. c \notin kernel.seen => level[table[c]] = 0
            BY <1>6, <4>1
          <5> QED BY <4>2, <5>1, <5>2
        <4>4. (\E i \in DOMAIN (kept \o new) : (kept \o new)[i] = c) <=>
                  \/ /\ kernel.level = depth /\ c \in kernel.seen
                     /\ kernel.level = level[table[c]]
                  \/ c \notin kernel.seen
          BY <2>11, <3>1, <3>3
        <4>5. (IF c = 0 THEN 0 ELSE level'[table[c]]) = level'[table[c]]
          BY <3>3
        <4> QED BY <1>1, <4>2, <4>3, <4>4, <4>5
      <3> QED BY <3>2, <3>3
    <2>13. 0 \in Codes
      BY <1>0
    <2> HIDE DEF kept
    <2>14. Admits(table, kernel', level')
      <3>1. kernel'.seen \subseteq 0 .. Len(table) /\ 0 \in kernel'.seen
        BY <2>7, <2>13
      <3>2. kernel'.frontier \in Seq(0 .. Len(table)) /\ kernel'.level \in Nat
        BY <2>7, <2>11
      <3>3. \A n \in Walks!Nodes : level'[n] <= kernel'.level
        BY <2>7, <2>10
      <3>4. \A n \in Walks!Nodes : level'[n] > 0 <=> \E c \in kernel'.seen \ {0} : table[c] = n
        BY <2>7, <2>10
      <3>5. \A c \in 0 .. Len(table) :
                (\E i \in DOMAIN kernel'.frontier : kernel'.frontier[i] = c) <=>
                    /\ c \in kernel'.seen
                    /\ kernel'.level = IF c = 0 THEN 0 ELSE level'[table[c]]
        <4>1. kernel'.frontier = kept \o new
          BY <2>7
        <4> QED BY <2>7, <2>12, <4>1
      <3> QED BY <1>0, <2>10, <3>1, <3>2, <3>3, <3>4, <3>5 DEF Admits
    <2> QED BY <1>8, <2>7, <2>9, <2>14 DEF Flushed, table
  <1> QED BY <1>7, <1>8 DEF table
-----------------------------------------------------------------------------
(* What a walk has met                                                      *)

(* A node that is admitted keeps its level, and the levels before the one   *)
(* in progress get no other.                                                *)
LEMMA FlushedDepth ==
    ASSUME WalkAssumption, depth \in Nat \ {0}, NEW table, Admits(table, kernel, level),
           Flushed(table), NEW n \in Walks!Nodes
    PROVE  /\ At(level, n) => At(level', n) /\ Depth(level', n) = Depth(level, n)
           /\ At(level', n) /\ Depth(level', n) < depth => At(level, n)
           /\ Depth(level, n) \in Nat /\ Depth(level', n) \in Nat
  <1>1. level[n] \in Nat /\ level'[n] \in Nat
    BY DEF Admits, Flushed
  <1>2. level[n] # 0 => level'[n] = level[n]
    BY DEF Flushed
  <1>3. level'[n] = depth \/ level'[n] = level[n]
    BY DEF Flushed
  <1>4. At(level, n) => At(level', n) /\ Depth(level', n) = Depth(level, n)
    BY <1>1, <1>2 DEF At, Depth
  <1>5. At(level', n) /\ Depth(level', n) < depth => At(level, n)
    BY <1>1, <1>3 DEF At, Depth
  <1> QED BY <1>1, <1>4, <1>5 DEF Depth

LEMMA EdgesAreOfNodes ==
    ASSUME WalkAssumption, Related
    PROVE  /\ \A e \in ever : e[1] \in Walks!Nodes /\ e[2] \in Walks!Nodes
           /\ \A e \in always : e[1] \in Walks!Nodes /\ e[2] \in Walks!Nodes
  BY DEF WalkAssumption, Related

(* What has a code is admitted once it was sent.                            *)
LEMMA SeenIsAdmitted ==
    ASSUME NEW table, NEW walked, NEW levels, Admits(table, walked, levels), NEW c \in DOMAIN table
    PROVE  /\ table[c] \in Walks!Nodes /\ table[c] # Root /\ levels[table[c]] \in Nat
           /\ c \in walked.seen <=> levels[table[c]] > 0
  <1>1. /\ table \in Seq(Walks!Nodes \ {Root}) /\ Len(table) \in Nat
        /\ DOMAIN table = 1 .. Len(table)
        /\ \A i, j \in DOMAIN table : table[i] = table[j] => i = j
        /\ walked.seen \subseteq 0 .. Len(table)
        /\ levels \in [Walks!Nodes -> Nat]
    BY LenProperties DEF Admits
  <1>2. table[c] \in Walks!Nodes \ {Root}
    BY <1>1, ElementOfSeq
  <1>3. levels[table[c]] > 0 <=> \E d \in walked.seen \ {0} : table[d] = table[c]
    BY <1>2 DEF Admits
  <1>4. walked.seen \ {0} \subseteq DOMAIN table /\ c # 0
    BY <1>1
  <1>5. (\E d \in walked.seen \ {0} : table[d] = table[c]) <=> c \in walked.seen
    BY <1>1, <1>4
  <1> QED BY <1>1, <1>2, <1>3, <1>5

LEMMA FlushLeads ==
    ASSUME WalkAssumption, Related, depth \in Nat \ {0}, NEW table,
           Admits(table, kernel, level), Flushed(table),
           Leads(table, kernel.seen, level, depth), NEW now
    PROVE  Leads(table, kernel'.seen, level', now)
  <1> SUFFICES ASSUME NEW c \in DOMAIN table
               PROVE  \E e \in ever :
                         /\ e[2] = table[c] /\ At(level', e[1])
                         /\ Depth(level', e[1]) + 1 =
                                IF c \in kernel'.seen THEN level'[table[c]] ELSE now
    BY DEF Leads
  <1>1. PICK e \in ever :
            /\ e[2] = table[c] /\ At(level, e[1])
            /\ Depth(level, e[1]) + 1 = IF c \in kernel.seen THEN level[table[c]] ELSE depth
    BY DEF Leads
  <1>2. e[1] \in Walks!Nodes
    BY EdgesAreOfNodes
  <1>3. At(level', e[1]) /\ Depth(level', e[1]) = Depth(level, e[1])
    BY <1>1, <1>2, FlushedDepth
  <1>4. c \in kernel'.seen
    <2>1. table \in Seq(Walks!Nodes \ {Root})
      BY DEF Admits
    <2>2. DOMAIN table = 1 .. Len(table) /\ Len(table) \in Nat
      BY <2>1, LenProperties
    <2> QED BY <2>2 DEF Flushed
  <1>5. level'[table[c]] = IF c \in kernel.seen THEN level[table[c]] ELSE depth
    <2>1. /\ table[c] \in Walks!Nodes /\ level[table[c]] \in Nat
          /\ c \in kernel.seen <=> level[table[c]] > 0
      BY SeenIsAdmitted
    <2>2. level'[table[c]] = IF level[table[c]] = 0 THEN depth ELSE level[table[c]]
      BY <2>1 DEF Flushed
    <2> QED BY <2>1, <2>2
  <1> QED BY <1>1, <1>3, <1>4, <1>5

LEMMA FlushCovers ==
    ASSUME WalkAssumption, Related, depth \in Nat \ {0}, NEW table,
           Admits(table, kernel, level), Flushed(table), CoversTo(level, depth)
    PROVE  CoversTo(level', depth)
  <1> SUFFICES ASSUME NEW e \in always, At(level', e[1]), Depth(level', e[1]) < depth - 1,
                      e[2] # Root
               PROVE  level'[e[2]] \in 1 .. Depth(level', e[1]) + 1
    BY DEF CoversTo
  <1>1. e[1] \in Walks!Nodes /\ e[2] \in Walks!Nodes
    BY EdgesAreOfNodes
  <1>2. /\ At(level, e[1]) /\ Depth(level', e[1]) = Depth(level, e[1])
        /\ Depth(level, e[1]) \in Nat
    <2>1. Depth(level', e[1]) \in Nat
      BY <1>1, FlushedDepth
    <2>2. Depth(level', e[1]) < depth
      BY <2>1
    <2>3. At(level, e[1])
      BY <1>1, <2>2, FlushedDepth
    <2> QED BY <1>1, <2>3, FlushedDepth
  <1>3. level[e[2]] \in 1 .. Depth(level, e[1]) + 1
    BY <1>2 DEF CoversTo
  <1>4. level[e[2]] # 0
    BY <1>2, <1>3
  <1>5. level'[e[2]] = level[e[2]]
    BY <1>1, <1>4 DEF Flushed
  <1> QED BY <1>2, <1>3, <1>5

(* A level that has been looked at to the end is covered.                   *)
LEMMA FlushCoversLevel ==
    ASSUME WalkAssumption, Related, depth \in Nat \ {0}, NEW table,
           Admits(table, kernel, level), kernel.level <= depth,
           Flushed(table), CoversTo(level, depth),
           \A e \in always : At(level, e[1]) /\ Depth(level, e[1]) = depth - 1 =>
               e[2] = Root \/ \E c \in DOMAIN table : table[c] = e[2]
    PROVE  CoversTo(level', depth + 1)
  <1> SUFFICES ASSUME NEW e \in always, At(level', e[1]), Depth(level', e[1]) < (depth + 1) - 1,
                      e[2] # Root
               PROVE  level'[e[2]] \in 1 .. Depth(level', e[1]) + 1
    BY DEF CoversTo
  <1>1. e[1] \in Walks!Nodes /\ e[2] \in Walks!Nodes
    BY EdgesAreOfNodes
  <1>2. Depth(level', e[1]) \in Nat /\ Depth(level', e[1]) < depth
    <2>1. Depth(level', e[1]) \in Nat
      BY <1>1, FlushedDepth
    <2> QED BY <2>1
  <1>3. At(level, e[1]) /\ Depth(level', e[1]) = Depth(level, e[1])
    <2>1. At(level, e[1])
      BY <1>1, <1>2, FlushedDepth
    <2> QED BY <1>1, <2>1, FlushedDepth
  <1>4. CASE Depth(level, e[1]) < depth - 1
    <2>1. CoversTo(level', depth)
      BY FlushCovers
    <2>2. Depth(level', e[1]) < depth - 1
      BY <1>3, <1>4
    <2> QED BY <2>1, <2>2 DEF CoversTo
  <1>5. CASE ~ (Depth(level, e[1]) < depth - 1)
    <2>1. Depth(level, e[1]) = depth - 1
      BY <1>2, <1>3, <1>5
    <2>2. PICK c \in DOMAIN table : table[c] = e[2]
      BY <1>3, <2>1
    <2>3. /\ level[e[2]] \in Nat /\ level[e[2]] <= kernel.level /\ kernel.level \in Nat
      BY <1>1 DEF Admits
    <2>4. level'[e[2]] = IF level[e[2]] = 0 THEN depth ELSE level[e[2]]
      BY <1>1, <2>2 DEF Flushed
    <2>5. level'[e[2]] \in 1 .. depth
      BY <2>3, <2>4
    <2>6. Depth(level', e[1]) + 1 = depth
      BY <1>3, <2>1
    <2> QED BY <2>5, <2>6
  <1> QED BY <1>4, <1>5

-----------------------------------------------------------------------------
(* The walk                                                                 *)

(* The frontier is the nodes of the kernel's level.                         *)
LEMMA FrontierIsLevel ==
    ASSUME NEW table, NEW walked, NEW levels, Admits(table, walked, levels), WalkAssumption
    PROVE  /\ \A i \in DOMAIN walked.frontier :
                 LET n == Walks!Node(walked.frontier[i], table)
                 IN  n \in Walks!Nodes /\ At(levels, n) /\ Depth(levels, n) = walked.level
           /\ \A n \in Walks!Nodes :
                 At(levels, n) /\ Depth(levels, n) = walked.level =>
                     \E i \in DOMAIN walked.frontier : Walks!Node(walked.frontier[i], table) = n
  <1>1. /\ table \in Seq(Walks!Nodes \ {Root}) /\ Len(table) \in Nat
        /\ DOMAIN table = 1 .. Len(table)
        /\ \A c \in DOMAIN table : table[c] \in Walks!Nodes \ {Root}
    BY LenProperties, ElementOfSeq DEF Admits
  <1>2. /\ walked.frontier \in Seq(0 .. Len(table))
        /\ walked.seen \subseteq 0 .. Len(table) /\ 0 \in walked.seen
    BY DEF Admits
  <1>3. \A c \in 0 .. Len(table) :
            (\E i \in DOMAIN walked.frontier : walked.frontier[i] = c) <=>
                c \in walked.seen /\ walked.level = IF c = 0 THEN 0 ELSE levels[table[c]]
    BY DEF Admits
  <1>4. ASSUME NEW i \in DOMAIN walked.frontier
        PROVE  LET n == Walks!Node(walked.frontier[i], table)
               IN  n \in Walks!Nodes /\ At(levels, n) /\ Depth(levels, n) = walked.level
    <2> DEFINE c == walked.frontier[i]
               n == Walks!Node(c, table)
    <2>1. c \in 0 .. Len(table)
      BY <1>2, ElementOfSeq
    <2>2. c \in walked.seen /\ walked.level = IF c = 0 THEN 0 ELSE levels[table[c]]
      BY <1>3, <2>1
    <2>3. CASE c = 0
      <3>1. n = Root
        BY <2>3 DEF Walks!Node, Walks!RootCode
      <3> QED BY <2>2, <2>3, <3>1 DEF At, Depth, WalkAssumption
    <2>4. CASE c # 0
      <3>1. n = table[c] /\ c \in DOMAIN table
        BY <1>1, <2>1, <2>4 DEF Walks!Node, Walks!RootCode
      <3> HIDE DEF c, n
      <3>2. n \in Walks!Nodes /\ n # Root /\ levels[n] > 0
        BY <2>2, <3>1, SeenIsAdmitted
      <3> QED BY <2>2, <2>4, <3>1, <3>2 DEF At, Depth, n, c
    <2> QED BY <2>3, <2>4
  <1>5. ASSUME NEW n \in Walks!Nodes, At(levels, n), Depth(levels, n) = walked.level
        PROVE  \E i \in DOMAIN walked.frontier : Walks!Node(walked.frontier[i], table) = n
    <2>1. CASE n = Root
      <3>1. \E i \in DOMAIN walked.frontier : walked.frontier[i] = 0
        BY <1>1, <1>2, <1>3, <1>5, <2>1 DEF Depth
      <3> QED BY <2>1, <3>1 DEF Walks!Node, Walks!RootCode
    <2>2. CASE n # Root
      <3>1. levels[n] > 0 /\ levels[n] = walked.level
        BY <1>5, <2>2 DEF At, Depth
      <3>2. PICK c \in walked.seen \ {0} : table[c] = n
        BY <3>1 DEF Admits
      <3>3. c \in 0 .. Len(table) /\ c # 0
        BY <1>2, <3>2
      <3>4. \E i \in DOMAIN walked.frontier : walked.frontier[i] = c
        BY <1>3, <3>1, <3>2, <3>3
      <3> QED BY <3>2, <3>3, <3>4 DEF Walks!Node, Walks!RootCode
    <2> QED BY <2>1, <2>2
  <1> QED BY <1>4, <1>5

(* Places of a table of rows of the same width.                             *)
LEMMA RowsAndColumns ==
    ASSUME NEW n \in Nat, NEW rows \in Nat
    PROVE  /\ \A i \in 1 .. rows * n :
                 ((i - 1) \div n) + 1 \in 1 .. rows /\ ((i - 1) % n) + 1 \in 1 .. n
           /\ \A a \in 1 .. rows, b \in 1 .. n :
                 \E i \in 1 .. rows * n :
                    ((i - 1) \div n) + 1 = a /\ ((i - 1) % n) + 1 = b
  <1>1. ASSUME NEW i \in 1 .. rows * n
        PROVE  ((i - 1) \div n) + 1 \in 1 .. rows /\ ((i - 1) % n) + 1 \in 1 .. n
    <2>1. n > 0
      <3>1. n = 0 => rows * n = 0
        OBVIOUS
      <3>2. rows * n >= 1
        BY <1>1
      <3> QED BY <3>1, <3>2
    <2> DEFINE x == i - 1
               q == x \div n
               r == x % n
    <2>2. x \in Nat /\ x < rows * n
      OBVIOUS
    <2> HIDE DEF x
    <2>3. /\ q \in Int /\ r \in Int
          /\ x = n * q + r /\ 0 <= r /\ r < n
      BY <2>1, <2>2
    <2> HIDE DEF q, r
    <2>4. q >= 0
      <3> SUFFICES ASSUME q <= -1 PROVE FALSE
        BY <2>3
      <3>1. n * q <= -n
        BY <2>1, <2>3
      <3> QED BY <2>2, <2>3, <3>1
    <2>5. q < rows
      <3> SUFFICES ASSUME q >= rows PROVE FALSE
        BY <2>3
      <3>1. n * q >= rows * n
        BY <2>1, <2>3
      <3>2. n * q \in Int /\ rows * n \in Int
        BY <2>3
      <3> QED BY <2>2, <2>3, <3>1, <3>2
    <2> QED BY <2>3, <2>4, <2>5 DEF q, r, x
  <1>2. ASSUME NEW a \in 1 .. rows, NEW b \in 1 .. n
        PROVE  \E i \in 1 .. rows * n :
                  ((i - 1) \div n) + 1 = a /\ ((i - 1) % n) + 1 = b
    <2> DEFINE x == (a - 1) * n + (b - 1)
               q == x \div n
               r == x % n
    <2>1. x \in Nat /\ (a - 1) * n \in Nat
      <3>1. a - 1 \in Nat /\ b - 1 \in Nat
        OBVIOUS
      <3>2. (a - 1) * n \in Nat
        BY <3>1
      <3> QED BY <3>1, <3>2
    <2>2. x < rows * n
      <3>1. (a - 1) * n <= (rows - 1) * n
        OBVIOUS
      <3>2. (rows - 1) * n = rows * n - n
        OBVIOUS
      <3> QED BY <2>1, <3>1, <3>2
    <2>3. /\ q \in Int /\ r \in Int
          /\ x = n * q + r /\ 0 <= r /\ r < n
      <3>1. n > 0
        OBVIOUS
      <3> HIDE DEF x
      <3> QED BY <2>1, <3>1
    <2>4. x = n * (a - 1) + (b - 1)
      OBVIOUS
    <2> HIDE DEF x, q, r
    <2>5. n * q + r = n * (a - 1) + (b - 1)
      BY <2>3, <2>4
    <2>6. q = a - 1
      <3>1. CASE q >= a
        <4>1. n * q >= n * (a - 1) + n
          BY <2>3, <3>1
        <4> QED BY <2>3, <2>5, <4>1
      <3>2. CASE q <= a - 2
        <4>1. n * q + n <= n * (a - 1)
          BY <2>3, <3>2
        <4> QED BY <2>3, <2>5, <4>1
      <3> QED BY <2>3, <3>1, <3>2
    <2>7. r = b - 1
      BY <2>3, <2>5, <2>6
    <2>8. x + 1 \in 1 .. rows * n /\ (x + 1) - 1 = x
      BY <2>1, <2>2
    <2> QED BY <2>6, <2>7, <2>8 DEF q, r
  <1> QED BY <1>1, <1>2

(* The candidates of a level are those of its frontier.                     *)
LEMMA CandidatesOfFrontier ==
    ASSUME WalkAssumption, Admits(codes, kernel, level), Walks!BeginLevel
    PROVE  /\ todo' \in Seq(Walks!Nodes \X Walks!Nodes)
           /\ \A k \in DOMAIN todo' :
                 At(level, todo'[k][1]) /\ Depth(level, todo'[k][1]) = kernel.level
           /\ \A a \in Walks!Nodes, b \in Walks!Nodes :
                 At(level, a) /\ Depth(level, a) = kernel.level =>
                     \E k \in DOMAIN todo' : todo'[k] = <<a, b>>
  <1> DEFINE n == Len(NodeOrder)
             frontier == kernel.frontier
             rows == Len(frontier)
             Row(i) == Walks!Node(frontier[((i - 1) \div n) + 1], codes)
             Column(i) == NodeOrder[((i - 1) % n) + 1]
             size == rows * n
  <1>1. todo' = [i \in 1 .. size |-> <<Row(i), Column(i)>>]
    BY DEF Walks!BeginLevel
  <1>2. /\ n \in Nat /\ DOMAIN NodeOrder = 1 .. n
        /\ \A i \in 1 .. n : NodeOrder[i] \in Walks!Nodes
        /\ \A b \in Walks!Nodes : \E i \in 1 .. n : NodeOrder[i] = b
    <2>1. NodeOrder \in Seq(Walks!Nodes)
      BY DEF WalkAssumption
    <2>2. DOMAIN NodeOrder = 1 .. n /\ n \in Nat
      BY <2>1, LenProperties
    <2> QED BY <2>2 DEF Walks!Nodes
  <1>3. rows \in Nat /\ DOMAIN frontier = 1 .. rows
    BY LenProperties DEF Admits
  <1>4. size \in Nat
    BY <1>2, <1>3
  <1> HIDE DEF n, rows
  <1>5. ASSUME NEW i \in 1 .. size
        PROVE  /\ Row(i) \in Walks!Nodes /\ At(level, Row(i)) /\ Depth(level, Row(i)) = kernel.level
               /\ Column(i) \in Walks!Nodes
    <2>1. ((i - 1) \div n) + 1 \in 1 .. rows /\ ((i - 1) % n) + 1 \in 1 .. n
      BY <1>2, <1>3, RowsAndColumns
    <2>2. Column(i) \in Walks!Nodes
      BY <1>2, <2>1
    <2>3. ((i - 1) \div n) + 1 \in DOMAIN kernel.frontier
      BY <1>3, <2>1
    <2> QED BY <2>2, <2>3, FrontierIsLevel
  <1>6. ASSUME NEW a \in Walks!Nodes, NEW b \in Walks!Nodes,
               At(level, a), Depth(level, a) = kernel.level
        PROVE  \E i \in 1 .. size : Row(i) = a /\ Column(i) = b
    <2>1. PICK q \in DOMAIN kernel.frontier : Walks!Node(kernel.frontier[q], codes) = a
      BY <1>6, FrontierIsLevel
    <2>2. PICK r \in 1 .. n : NodeOrder[r] = b
      BY <1>2
    <2>3. PICK i \in 1 .. size : ((i - 1) \div n) + 1 = q /\ ((i - 1) % n) + 1 = r
      <3>1. q \in 1 .. rows
        BY <1>3, <2>1
      <3>2. \A x \in 1 .. rows, y \in 1 .. n :
                \E i \in 1 .. rows * n : ((i - 1) \div n) + 1 = x /\ ((i - 1) % n) + 1 = y
        BY <1>2, <1>3, RowsAndColumns
      <3>3. \E i \in 1 .. rows * n : ((i - 1) \div n) + 1 = q /\ ((i - 1) % n) + 1 = r
        BY <2>2, <3>1, <3>2
      <3> QED BY <3>3
    <2>4. Row(i) = a
      BY <2>1, <2>3
    <2>5. Column(i) = b
      BY <2>2, <2>3
    <2> QED BY <2>4, <2>5
  <1> HIDE DEF Row, Column, size
  <1>7. DOMAIN todo' = 1 .. size /\ \A i \in 1 .. size : todo'[i] = <<Row(i), Column(i)>>
    BY <1>1
  <1>8. todo' \in Seq(Walks!Nodes \X Walks!Nodes)
    <2>1. todo' \in [1 .. size -> Walks!Nodes \X Walks!Nodes]
      BY <1>1, <1>5
    <2> QED BY <1>4, <2>1, IsASeq
  <1>9. \A k \in DOMAIN todo' :
            At(level, todo'[k][1]) /\ Depth(level, todo'[k][1]) = kernel.level
    <2>1. \A k \in DOMAIN todo' : todo'[k][1] = Row(k)
      BY <1>7
    <2> QED BY <1>5, <1>7, <2>1
  <1>10. \A a \in Walks!Nodes, b \in Walks!Nodes :
             At(level, a) /\ Depth(level, a) = kernel.level =>
                 \E k \in DOMAIN todo' : todo'[k] = <<a, b>>
    BY <1>6, <1>7
  <1> QED BY <1>8, <1>9, <1>10

(* Nothing is further than the kernel's level.                              *)
LEMMA LevelBounds ==
    ASSUME WalkAssumption, NEW table, NEW walked, NEW levels, Admits(table, walked, levels),
           NEW n \in Walks!Nodes
    PROVE  Depth(levels, n) \in Nat /\ walked.level \in Nat /\ Depth(levels, n) <= walked.level
  <1>1. levels[n] \in Nat /\ levels[n] <= walked.level /\ walked.level \in Nat
    BY DEF Admits
  <1> QED BY <1>1 DEF Depth

(* A walk whose nodes all lie before the last level has covered all.        *)
LEMMA CoversAll ==
    ASSUME WalkAssumption, Related, NEW levels, NEW now, CoversTo(levels, now), NEW depths,
           \A n \in Walks!Nodes :
               At(levels, n) /\ Depth(levels, n) < depths - 1 => Depth(levels, n) < now - 1
    PROVE  CoversTo(levels, depths)
  BY EdgesAreOfNodes DEF CoversTo

LEMMA NothingUnsent ==
    ASSUME NEW table, NEW seen, Sends(table, seen, << >>), seen \subseteq 0 .. Len(table)
    PROVE  seen = 0 .. Len(table)
  <1>1. DOMAIN << >> = {}
    OBVIOUS
  <1> QED BY <1>1 DEF Sends

LEMMA InitWalk == WalkAssumption /\ Walks!Init => WalkInv
  <1> SUFFICES ASSUME WalkAssumption, Walks!Init PROVE WalkInv
    OBVIOUS
  <1>1. /\ ever = edges /\ always = edges /\ edges \subseteq Edges
        /\ asked \in 1 .. MaxDepth /\ at = "level" /\ depth = 1 /\ todo = << >>
        /\ codes = << >> /\ batch = << >>
        /\ kernel = [seen |-> {0}, frontier |-> <<0>>, level |-> 0]
        /\ level = [n \in Walks!Nodes |-> 0] /\ complete
    BY DEF Walks!Init, Walks!RootCode
  <1>2. /\ << >> \in Seq(Walks!Nodes \ {Root}) /\ << >> \in Seq(Walks!Nodes \X Walks!Nodes)
        /\ << >> \in Seq({0})
        /\ Len(<< >>) = 0 /\ DOMAIN << >> = {} /\ 0 .. 0 = {0}
    BY EmptySeq
  <1>3. <<0>> \in Seq({0}) /\ DOMAIN <<0>> = {1} /\ <<0>>[1] = 0
    OBVIOUS
  <1>4. \A n \in Walks!Nodes : level[n] = 0
    BY <1>1
  <1>5. Admits(codes, kernel, level)
    <2>1. codes \in Seq(Walks!Nodes \ {Root}) /\ Len(codes) = 0 /\ DOMAIN codes = {}
      BY <1>1, <1>2
    <2>2. kernel.seen = {0} /\ kernel.frontier = <<0>> /\ kernel.level = 0
      BY <1>1
    <2>3. level \in [Walks!Nodes -> Nat]
      BY <1>1
    <2> QED BY <1>2, <1>3, <1>4, <2>1, <2>2, <2>3 DEF Admits, WalkAssumption
  <1>6. Sends(codes, kernel.seen, batch)
    BY <1>1, <1>2 DEF Sends
  <1>7. Leads(codes, kernel.seen, level, depth)
    BY <1>1, <1>2 DEF Leads
  <1>8. Related
    BY <1>1 DEF Related
  <1>9. CoversTo(level, depth)
    <2> SUFFICES ASSUME NEW e \in always, Depth(level, e[1]) < depth - 1 PROVE FALSE
      BY DEF CoversTo
    <2>1. e[1] \in Walks!Nodes
      BY <1>8, EdgesAreOfNodes
    <2> QED BY <1>1, <1>4, <2>1 DEF Depth
  <1>10. asked \in Nat /\ depth \in Nat \ {0} /\ kernel.level = depth - 1
    BY <1>1 DEF WalkAssumption
  <1> QED BY <1>1, <1>2, <1>5, <1>6, <1>7, <1>8, <1>9, <1>10 DEF WalkInv, Underway

LEMMA MoveWalk ==
    ASSUME WalkInv, NEW e \in Edges, Walks!Move(e)
    PROVE  WalkInv'
  <1>1. /\ at \in {"level", "walk"}
        /\ UNCHANGED <<asked, at, depth, todo, codes, batch, met, kernel, level, complete>>
        /\ edges' = IF e \in edges THEN edges \ {e} ELSE edges \cup {e}
        /\ ever' = ever \cup edges' /\ always' = always \cap edges'
    BY DEF Walks!Move, Walks!walk
  <1>2. Underway
    BY <1>1 DEF WalkInv
  <1>3. Related' /\ ever \subseteq ever' /\ always' \subseteq always
    BY <1>1, <1>2 DEF Underway, Related
  <1>4. Leads(codes, kernel.seen, level, depth)' /\ CoversTo(level, depth)'
    BY <1>1, <1>2, <1>3 DEF Underway, Leads, CoversTo
  <1>5. (at = "walk" => InLevel)'
    BY <1>1, <1>2, <1>3 DEF Underway, InLevel, Walks!Known
  <1>6. /\ Admits(codes, kernel, level)' /\ Sends(codes, kernel.seen, batch)'
    BY <1>1, <1>2 DEF Underway, Admits, Sends
  <1>7. Underway'
    BY <1>1, <1>2, <1>3, <1>4, <1>5, <1>6 DEF Underway
  <1> QED BY <1>1, <1>7 DEF WalkInv

LEMMA BeginLevelWalk ==
    ASSUME WalkAssumption, WalkInv, Walks!BeginLevel
    PROVE  WalkInv'
  <1>1. /\ at = "level" /\ met' = FALSE
        /\ at' = IF depth > asked \/ kernel.frontier = << >> THEN "done" ELSE "walk"
        /\ UNCHANGED <<edges, ever, always, asked, depth, codes, batch, kernel, level, complete>>
    BY DEF Walks!BeginLevel, Walks!relation
  <1>2. Underway /\ batch = << >> /\ kernel.level = depth - 1
    BY <1>1 DEF WalkInv, Underway
  <1>3. /\ Related /\ asked \in Nat /\ depth \in Nat \ {0} /\ complete
        /\ Admits(codes, kernel, level) /\ Sends(codes, kernel.seen, batch)
        /\ Leads(codes, kernel.seen, level, depth) /\ CoversTo(level, depth)
    BY <1>2 DEF Underway
  <1>4. /\ Related' /\ asked' \in Nat /\ depth' \in Nat \ {0} /\ complete'
        /\ Admits(codes, kernel, level)' /\ Sends(codes, kernel.seen, batch)'
        /\ Leads(codes, kernel.seen, level, depth)' /\ CoversTo(level, depth)'
        /\ batch' = << >> /\ (kernel.level = depth - 1)'
    BY <1>1, <1>2, <1>3 DEF Related, Admits, Sends, Leads, CoversTo
  <1>5. CASE at' = "walk"
    <2>1. /\ todo' \in Seq(Walks!Nodes \X Walks!Nodes)
          /\ \A k \in DOMAIN todo' :
                At(level, todo'[k][1]) /\ Depth(level, todo'[k][1]) = depth - 1
          /\ \A a \in Walks!Nodes, b \in Walks!Nodes :
                At(level, a) /\ Depth(level, a) = depth - 1 =>
                    \E k \in DOMAIN todo' : todo'[k] = <<a, b>>
      BY <1>2, <1>3, CandidatesOfFrontier
    <2>2. \A x \in always : \E a \in Walks!Nodes, b \in Walks!Nodes : x = <<a, b>>
      BY <1>3 DEF Related, WalkAssumption
    <2>3. \A x \in always : At(level, x[1]) /\ Depth(level, x[1]) = depth - 1 =>
              \E k \in DOMAIN todo' : todo'[k] = x
      BY <2>1, <2>2
    <2>4. ~ (batch # << >> \/ kernel.level = depth)
      BY <1>2, <1>3
    <2>5. InLevel'
      BY <1>1, <2>1, <2>3, <2>4 DEF InLevel, At, Depth
    <2> QED BY <1>4, <1>5, <2>1, <2>5 DEF WalkInv, Underway
  <1>6. CASE at' = "done"
    <2>1. kernel.seen = 0 .. Len(codes)
      BY <1>2, <1>3, NothingUnsent DEF Admits
    <2>2. \A n \in Walks!Nodes :
              At(level, n) /\ Depth(level, n) < (asked + 1) - 1 => Depth(level, n) < depth - 1
      <3> SUFFICES ASSUME NEW n \in Walks!Nodes, At(level, n), Depth(level, n) < (asked + 1) - 1
                   PROVE  Depth(level, n) < depth - 1
        OBVIOUS
      <3>1. Depth(level, n) \in Nat /\ Depth(level, n) <= kernel.level
        BY <1>3, LevelBounds
      <3>2. CASE depth > asked
        BY <1>3, <3>1, <3>2
      <3>3. CASE kernel.frontier = << >>
        <4>1. DOMAIN kernel.frontier = {}
          BY <3>3
        <4>2. Depth(level, n) # kernel.level
          BY <1>3, <4>1, FrontierIsLevel
        <4> QED BY <1>2, <1>3, <3>1, <4>2
      <3> QED BY <1>1, <1>6, <3>2, <3>3
    <2>3. CoversTo(level, asked + 1)
      BY <1>3, <2>2, CoversAll
    <2>4. CoversTo(level, asked + 1)'
      BY <1>1, <2>3 DEF CoversTo
    <2>5. (kernel.seen = 0 .. Len(codes))'
      BY <1>1, <2>1
    <2> QED BY <1>4, <1>6, <2>4, <2>5 DEF WalkInv, Answered
  <1> QED BY <1>1, <1>5, <1>6

(* What is left of the candidates.                                          *)
LEMMA TailOfTodo ==
    ASSUME NEW T, NEW s \in Seq(T), s # << >>
    PROVE  /\ Head(s) \in T /\ Tail(s) \in Seq(T) /\ 1 \in DOMAIN s /\ s[1] = Head(s)
           /\ \A k \in DOMAIN Tail(s) : \E j \in DOMAIN s : Tail(s)[k] = s[j]
           /\ \A j \in DOMAIN s : s[j] = Head(s) \/ \E k \in DOMAIN Tail(s) : Tail(s)[k] = s[j]
  <1>1. /\ Len(s) \in Nat /\ DOMAIN s = 1 .. Len(s) /\ Len(s) # 0
    BY LenProperties, EmptySeq
  <1>2. /\ Tail(s) \in Seq(T) /\ Len(Tail(s)) = Len(s) - 1
        /\ \A k \in 1 .. Len(s) - 1 : Tail(s)[k] = s[k + 1]
    BY HeadTailProperties
  <1>3. DOMAIN Tail(s) = 1 .. Len(s) - 1
    BY <1>2, LenProperties
  <1>4. Head(s) \in T /\ s[1] = Head(s) /\ 1 \in DOMAIN s
    BY <1>1, HeadTailProperties
  <1>5. \A k \in DOMAIN Tail(s) : k + 1 \in DOMAIN s /\ Tail(s)[k] = s[k + 1]
    BY <1>1, <1>2, <1>3
  <1>6. ASSUME NEW j \in DOMAIN s, j # 1
        PROVE  \E k \in DOMAIN Tail(s) : Tail(s)[k] = s[j]
    <2>1. j - 1 \in DOMAIN Tail(s) /\ (j - 1) + 1 = j
      BY <1>1, <1>3, <1>6
    <2> QED BY <1>5, <2>1
  <1> QED BY <1>2, <1>4, <1>5, <1>6

LEMMA NoEdgeWalk ==
    ASSUME WalkInv, Walks!NoEdge
    PROVE  WalkInv'
  <1>1. /\ at = "walk" /\ todo # << >> /\ Head(todo) \notin edges /\ todo' = Tail(todo)
        /\ UNCHANGED <<edges, ever, always, asked, at, depth, codes, batch, met, kernel, level,
                       complete>>
    BY DEF Walks!NoEdge, Walks!relation
  <1>2. Underway /\ InLevel
    BY <1>1 DEF WalkInv, Underway
  <1>3. /\ Related /\ todo \in Seq(Walks!Nodes \X Walks!Nodes)
    BY <1>2 DEF Underway
  <1>4. /\ Tail(todo) \in Seq(Walks!Nodes \X Walks!Nodes)
        /\ \A k \in DOMAIN Tail(todo) : \E j \in DOMAIN todo : Tail(todo)[k] = todo[j]
        /\ \A j \in DOMAIN todo :
              todo[j] = Head(todo) \/ \E k \in DOMAIN Tail(todo) : Tail(todo)[k] = todo[j]
    BY <1>1, <1>3, TailOfTodo
  <1>5. \A k \in DOMAIN todo' : At(level, todo'[k][1]) /\ Depth(level, todo'[k][1]) = depth - 1
    BY <1>1, <1>2, <1>4 DEF InLevel
  <1>6. \A e \in always : At(level, e[1]) /\ Depth(level, e[1]) = depth - 1 =>
            (\E k \in DOMAIN todo' : todo'[k] = e) \/ e[2] \in Walks!Known
    <2> SUFFICES ASSUME NEW e \in always, NEW j \in DOMAIN todo, todo[j] = e
                 PROVE  \E k \in DOMAIN todo' : todo'[k] = e
      BY <1>2 DEF InLevel
    <2>1. e # Head(todo)
      BY <1>1, <1>3 DEF Related
    <2> QED BY <1>1, <1>4, <2>1
  <1>7. InLevel'
    BY <1>1, <1>2, <1>5, <1>6 DEF InLevel, Walks!Known, At, Depth
  <1>8. /\ Related' /\ Admits(codes, kernel, level)' /\ Sends(codes, kernel.seen, batch)'
        /\ Leads(codes, kernel.seen, level, depth)' /\ CoversTo(level, depth)'
    BY <1>1, <1>2 DEF Underway, Related, Admits, Sends, Leads, CoversTo
  <1> QED BY <1>1, <1>2, <1>4, <1>7, <1>8 DEF WalkInv, Underway

(* A code for a node that has none changes nothing of what is admitted.     *)
LEMMA NewCodeAdmits ==
    ASSUME WalkAssumption, Admits(codes, kernel, level), Len(codes) < ResultCapacity,
           NEW n \in Walks!Nodes, n # Root, \A c \in DOMAIN codes : codes[c] # n
    PROVE  /\ Admits(Append(codes, n), kernel, level)
           /\ Len(Append(codes, n)) = Len(codes) + 1
           /\ Len(codes) + 1 \notin kernel.seen
           /\ \A c \in DOMAIN codes : Append(codes, n)[c] = codes[c]
           /\ Append(codes, n)[Len(codes) + 1] = n
  <1> DEFINE table == Append(codes, n)
  <1>1. /\ codes \in Seq(Walks!Nodes \ {Root}) /\ Len(codes) \in Nat
        /\ DOMAIN codes = 1 .. Len(codes)
        /\ \A i, j \in DOMAIN codes : codes[i] = codes[j] => i = j
        /\ kernel.seen \subseteq 0 .. Len(codes) /\ 0 \in kernel.seen
        /\ kernel.frontier \in Seq(0 .. Len(codes))
    BY LenProperties DEF Admits
  <1>2. /\ table \in Seq(Walks!Nodes \ {Root}) /\ Len(table) = Len(codes) + 1
        /\ \A i \in 1 .. Len(codes) : table[i] = codes[i]
        /\ table[Len(codes) + 1] = n /\ DOMAIN table = 1 .. Len(codes) + 1
    <2>1. n \in Walks!Nodes \ {Root}
      OBVIOUS
    <2>2. /\ table \in Seq(Walks!Nodes \ {Root}) /\ Len(table) = Len(codes) + 1
          /\ \A i \in 1 .. Len(codes) : table[i] = codes[i]
          /\ table[Len(codes) + 1] = n
      BY <1>1, <2>1, AppendProperties
    <2> HIDE DEF table
    <2> QED BY <2>2, LenProperties
  <1> HIDE DEF table
  <1>3. Len(table) <= ResultCapacity
    BY <1>1, <1>2 DEF WalkAssumption
  <1>4. \A i, j \in DOMAIN table : table[i] = table[j] => i = j
    <2> SUFFICES ASSUME NEW i \in DOMAIN table, NEW j \in DOMAIN table, table[i] = table[j]
                 PROVE  i = j
      OBVIOUS
    <2>1. \A k \in DOMAIN table : k \in DOMAIN codes \/ k = Len(codes) + 1
      BY <1>1, <1>2
    <2> QED BY <1>1, <1>2, <2>1
  <1>5. 0 .. Len(codes) \subseteq 0 .. Len(table) /\ Len(codes) + 1 \notin kernel.seen
    BY <1>1, <1>2
  <1>6. kernel.seen \subseteq 0 .. Len(table) /\ kernel.frontier \in Seq(0 .. Len(table))
    <2>1. \A i \in DOMAIN kernel.frontier : kernel.frontier[i] \in 0 .. Len(table)
      BY <1>1, <1>5, ElementOfSeq
    <2>2. /\ kernel.frontier \in [1 .. Len(kernel.frontier) -> 0 .. Len(codes)]
          /\ Len(kernel.frontier) \in Nat
      BY <1>1, LenProperties
    <2>3. kernel.frontier \in [1 .. Len(kernel.frontier) -> 0 .. Len(table)]
      BY <2>1, <2>2
    <2>4. kernel.frontier \in Seq(0 .. Len(table))
      BY <2>2, <2>3, IsASeq
    <2> QED BY <1>1, <1>5, <2>4
  <1>7. \A m \in Walks!Nodes : level[m] > 0 <=> \E c \in kernel.seen \ {0} : table[c] = m
    <2>1. \A c \in kernel.seen \ {0} : table[c] = codes[c]
      BY <1>1, <1>2
    <2>2. \A m \in Walks!Nodes : level[m] > 0 <=> \E c \in kernel.seen \ {0} : codes[c] = m
      BY DEF Admits
    <2> QED BY <2>1, <2>2
  <1>8. ASSUME NEW c \in 0 .. Len(table)
        PROVE  (\E i \in DOMAIN kernel.frontier : kernel.frontier[i] = c) <=>
                   c \in kernel.seen /\ kernel.level = IF c = 0 THEN 0 ELSE level[table[c]]
    <2>1. CASE c \in 0 .. Len(codes)
      <3>1. (\E i \in DOMAIN kernel.frontier : kernel.frontier[i] = c) <=>
                c \in kernel.seen /\ kernel.level = IF c = 0 THEN 0 ELSE level[codes[c]]
        BY <2>1 DEF Admits
      <3>2. c # 0 => table[c] = codes[c]
        BY <1>1, <1>2, <2>1
      <3> QED BY <3>1, <3>2
    <2>2. CASE c = Len(codes) + 1
      <3>1. c \notin kernel.seen
        BY <1>5, <2>2
      <3>2. \A i \in DOMAIN kernel.frontier : kernel.frontier[i] # c
        <4>1. \A i \in DOMAIN kernel.frontier : kernel.frontier[i] \in 0 .. Len(codes)
          BY <1>1, ElementOfSeq
        <4> QED BY <1>1, <2>2, <4>1
      <3> QED BY <3>1, <3>2
    <2> QED BY <1>1, <1>2, <2>1, <2>2
  <1>9. /\ kernel.level \in Nat /\ level \in [Walks!Nodes -> Nat]
        /\ \A m \in Walks!Nodes : level[m] <= kernel.level
    BY DEF Admits
  <1>10. Admits(table, kernel, level)
    BY <1>1, <1>2, <1>3, <1>4, <1>6, <1>7, <1>8, <1>9 DEF Admits
  <1> QED BY <1>1, <1>2, <1>5, <1>10 DEF table

(* A candidate has a code or gets the next one, and its code is sent.       *)
LEMMA CandidateSends ==
    ASSUME WalkAssumption, Underway, InLevel, Walks!Candidate
    PROVE  \E sent :
              /\ Admits(codes', kernel, level)
              /\ Sends(codes', kernel.seen, sent) /\ sent # << >>
              /\ Leads(codes', kernel.seen, level, depth)
              /\ \A c \in DOMAIN codes : c \in DOMAIN codes' /\ codes'[c] = codes[c]
              /\ Head(todo)[2] = Root \/ \E c \in DOMAIN codes' : codes'[c] = Head(todo)[2]
              /\ \/ batch' = << >> /\ Walks!Flush(sent)
                 \/ batch' = sent /\ UNCHANGED <<kernel, level>>
  <1> DEFINE n == Head(todo)[2]
             code == IF n = Root THEN 0 ELSE CHOOSE i \in DOMAIN codes' : codes'[i] = n
             sent == Append(batch, code)
  <1>1. /\ todo # << >> /\ Head(todo) \in edges
        /\ n \notin Walks!Known => Len(codes) < ResultCapacity
        /\ codes' = IF n \notin Walks!Known THEN Append(codes, n) ELSE codes
        /\ IF Len(sent) = BatchCapacity THEN batch' = << >> /\ Walks!Flush(sent)
           ELSE batch' = sent /\ UNCHANGED <<kernel, level>>
    BY DEF Walks!Candidate, Walks!RootCode
  <1>2. /\ Related /\ Admits(codes, kernel, level) /\ Sends(codes, kernel.seen, batch)
        /\ Leads(codes, kernel.seen, level, depth)
        /\ todo \in Seq(Walks!Nodes \X Walks!Nodes)
    BY DEF Underway
  <1>3. /\ Head(todo) \in Walks!Nodes \X Walks!Nodes
        /\ 1 \in DOMAIN todo /\ todo[1] = Head(todo)
    BY <1>1, <1>2, TailOfTodo
  <1>4. /\ Head(todo) \in ever /\ n \in Walks!Nodes
        /\ At(level, Head(todo)[1]) /\ Depth(level, Head(todo)[1]) = depth - 1
    BY <1>1, <1>2, <1>3 DEF Related, InLevel
  <1> HIDE DEF n
  <1>5. /\ codes \in Seq(Walks!Nodes \ {Root}) /\ Len(codes) \in Nat
        /\ DOMAIN codes = 1 .. Len(codes)
        /\ kernel.seen \subseteq 0 .. Len(codes)
    BY <1>2, LenProperties DEF Admits
  <1>6. /\ Admits(codes', kernel, level)
        /\ Len(codes') \in Nat /\ DOMAIN codes' = 1 .. Len(codes')
        /\ Len(codes) <= Len(codes')
        /\ \A c \in DOMAIN codes : c \in DOMAIN codes' /\ codes'[c] = codes[c]
        /\ n = Root \/ \E c \in DOMAIN codes' : codes'[c] = n
        /\ \A c \in DOMAIN codes' : c \notin DOMAIN codes => codes'[c] = n /\ c \notin kernel.seen
    <2>1. CASE n \in Walks!Known
      <3>1. codes' = codes
        BY <1>1, <2>1
      <3> QED BY <1>2, <1>5, <2>1, <3>1 DEF Walks!Known
    <2>2. CASE n \notin Walks!Known
      <3>1. codes' = Append(codes, n) /\ Len(codes) < ResultCapacity
        BY <1>1, <2>2
      <3>2. n # Root /\ \A c \in DOMAIN codes : codes[c] # n
        BY <2>2 DEF Walks!Known
      <3>3. /\ Admits(codes', kernel, level)
            /\ Len(codes') = Len(codes) + 1
            /\ Len(codes) + 1 \notin kernel.seen
            /\ \A c \in DOMAIN codes : codes'[c] = codes[c]
            /\ codes'[Len(codes) + 1] = n
        BY <1>2, <1>4, <3>1, <3>2, NewCodeAdmits
      <3>4. DOMAIN codes' = 1 .. Len(codes')
        <4>1. codes' \in Seq(Walks!Nodes \ {Root})
          BY <3>3 DEF Admits
        <4> QED BY <4>1, LenProperties
      <3>5. Len(codes) + 1 \in DOMAIN codes'
        BY <1>5, <3>3, <3>4
      <3>6. \A c \in DOMAIN codes' : c \notin DOMAIN codes => c = Len(codes) + 1
        BY <1>5, <3>3, <3>4
      <3>7. \A c \in DOMAIN codes : c \in DOMAIN codes'
        BY <1>5, <3>3, <3>4
      <3>8. Len(codes') \in Nat /\ Len(codes) <= Len(codes')
        BY <1>5, <3>3
      <3> QED BY <3>3, <3>4, <3>5, <3>6, <3>7, <3>8
    <2> QED BY <2>1, <2>2
  <1>7. code \in 0 .. Len(codes') /\ (code = 0 \/ codes'[code] = n)
    <2>1. CASE n = Root
      BY <1>6, <2>1
    <2>2. CASE n # Root
      <3>1. code \in DOMAIN codes' /\ codes'[code] = n
        BY <1>6, <2>2
      <3> HIDE DEF code
      <3> QED BY <1>6, <3>1
    <2> QED BY <2>1, <2>2
  <1>8. \A c \in DOMAIN codes' : c \notin DOMAIN codes => c = code
    <2> SUFFICES ASSUME NEW c \in DOMAIN codes', c \notin DOMAIN codes PROVE c = code
      OBVIOUS
    <2>1. codes'[c] = n
      BY <1>6
    <2>2. n # Root
      <3>1. codes' \in Seq(Walks!Nodes \ {Root})
        BY <1>6 DEF Admits
      <3> QED BY <2>1, <3>1, ElementOfSeq
    <2>3. code \in DOMAIN codes' /\ codes'[code] = n
      BY <1>6, <2>2
    <2>4. \A i, j \in DOMAIN codes' : codes'[i] = codes'[j] => i = j
      BY <1>6 DEF Admits
    <2> HIDE DEF code
    <2> QED BY <2>1, <2>3, <2>4
  <1> HIDE DEF code
  <1>9. Sends(codes', kernel.seen, sent) /\ sent # << >>
    <2>1. batch \in Seq(0 .. Len(codes'))
      <3>1. batch \in Seq(0 .. Len(codes))
        BY <1>2 DEF Sends
      <3>2. \A i \in DOMAIN batch : batch[i] \in 0 .. Len(codes')
        <4>1. \A i \in DOMAIN batch : batch[i] \in 0 .. Len(codes)
          BY <3>1, ElementOfSeq
        <4> QED BY <1>5, <1>6, <4>1
      <3>3. batch \in [1 .. Len(batch) -> 0 .. Len(codes)] /\ Len(batch) \in Nat
        BY <3>1, LenProperties
      <3>4. batch \in [1 .. Len(batch) -> 0 .. Len(codes')]
        BY <3>2, <3>3
      <3> QED BY <3>3, <3>4, IsASeq
    <2>2. /\ sent \in Seq(0 .. Len(codes')) /\ Len(sent) = Len(batch) + 1
          /\ \A i \in 1 .. Len(batch) : sent[i] = batch[i]
          /\ sent[Len(batch) + 1] = code
      BY <1>7, <2>1, AppendProperties
    <2>3. /\ Len(batch) \in Nat /\ DOMAIN batch = 1 .. Len(batch)
      BY <2>1, LenProperties
    <2>4. DOMAIN sent = 1 .. Len(batch) + 1
      BY <2>2, LenProperties
    <2> HIDE DEF sent
    <2>5. /\ \A i \in DOMAIN batch : i \in DOMAIN sent /\ sent[i] = batch[i]
          /\ Len(batch) + 1 \in DOMAIN sent
      BY <2>2, <2>3, <2>4
    <2>6. ASSUME NEW c \in 0 .. Len(codes')
          PROVE  c \in kernel.seen \/ \E i \in DOMAIN sent : sent[i] = c
      <3>1. CASE c \in 0 .. Len(codes)
        <4>1. c \in kernel.seen \/ \E i \in DOMAIN batch : batch[i] = c
          BY <1>2, <3>1 DEF Sends
        <4> QED BY <2>5, <4>1
      <3>2. CASE c \notin 0 .. Len(codes)
        <4>1. c \in DOMAIN codes' /\ c \notin DOMAIN codes
          BY <1>5, <1>6, <3>2
        <4>2. c = code
          BY <1>8, <4>1
        <4> QED BY <2>2, <2>5, <4>2
      <3> QED BY <3>1, <3>2
    <2>7. sent # << >>
      <3>1. sent # << >>
        BY <2>2, <2>3, EmptySeq
      <3> QED BY <3>1
    <2> QED BY <2>2, <2>6, <2>7 DEF Sends
  <1>10. Leads(codes', kernel.seen, level, depth)
    <2> SUFFICES ASSUME NEW c \in DOMAIN codes'
                 PROVE  \E e \in ever :
                           /\ e[2] = codes'[c] /\ At(level, e[1])
                           /\ Depth(level, e[1]) + 1 =
                                  IF c \in kernel.seen THEN level[codes'[c]] ELSE depth
      BY DEF Leads
    <2>1. CASE c \in DOMAIN codes
      <3>1. codes'[c] = codes[c]
        BY <1>6, <2>1
      <3> QED BY <1>2, <2>1, <3>1 DEF Leads
    <2>2. CASE c \notin DOMAIN codes
      <3>1. codes'[c] = n /\ c \notin kernel.seen
        BY <1>6, <2>2
      <3>2. depth \in Nat
        BY DEF Underway
      <3>3. (depth - 1) + 1 = depth
        BY <3>2
      <3> QED BY <1>4, <3>1, <3>3 DEF n
    <2> QED BY <2>1, <2>2
  <1> HIDE DEF sent
  <1> QED BY <1>1, <1>6, <1>9, <1>10 DEF n

LEMMA AllSent ==
    ASSUME NEW table, table \in Seq(Walks!Nodes \ {Root}), NEW seen, seen = 0 .. Len(table)
    PROVE  Sends(table, seen, << >>)
  <1>1. << >> \in Seq(0 .. Len(table))
    BY EmptySeq
  <1> QED BY <1>1 DEF Sends

(* Sent or kept for later, what is admitted stays as it was met.            *)
LEMMA CandidateAdmits ==
    ASSUME WalkAssumption, Underway, InLevel, Walks!Candidate
    PROVE  /\ Admits(codes', kernel', level')
           /\ Sends(codes', kernel'.seen, batch')
           /\ Leads(codes', kernel'.seen, level', depth)
           /\ CoversTo(level', depth)
           /\ kernel'.level \in {depth - 1, depth}
           /\ batch' # << >> \/ kernel'.level = depth
           /\ \A c \in DOMAIN codes : c \in DOMAIN codes' /\ codes'[c] = codes[c]
           /\ Head(todo)[2] = Root \/ \E c \in DOMAIN codes' : codes'[c] = Head(todo)[2]
           /\ \A n \in Walks!Nodes :
                 At(level, n) => At(level', n) /\ Depth(level', n) = Depth(level, n)
           /\ \A n \in Walks!Nodes :
                 At(level', n) /\ Depth(level', n) = depth - 1 =>
                     At(level, n) /\ Depth(level, n) = depth - 1
  <1>1. PICK sent :
            /\ Admits(codes', kernel, level)
            /\ Sends(codes', kernel.seen, sent) /\ sent # << >>
            /\ Leads(codes', kernel.seen, level, depth)
            /\ \A c \in DOMAIN codes : c \in DOMAIN codes' /\ codes'[c] = codes[c]
            /\ Head(todo)[2] = Root \/ \E c \in DOMAIN codes' : codes'[c] = Head(todo)[2]
            /\ \/ batch' = << >> /\ Walks!Flush(sent)
               \/ batch' = sent /\ UNCHANGED <<kernel, level>>
    BY CandidateSends
  <1>2. /\ Related /\ depth \in Nat \ {0} /\ CoversTo(level, depth)
        /\ kernel.level \in {depth - 1, depth} /\ kernel.level <= depth
    BY DEF Underway
  <1>3. CASE batch' = sent /\ UNCHANGED <<kernel, level>>
    BY <1>1, <1>2, <1>3
  <1>4. CASE batch' = << >> /\ Walks!Flush(sent)
    <2>1. Flushed(codes') /\ kernel'.level = depth
      BY <1>1, <1>2, <1>4, FlushAdmits
    <2>2. Admits(codes', kernel', level') /\ kernel'.seen = 0 .. Len(codes')
      BY <2>1 DEF Flushed
    <2>3. Leads(codes', kernel'.seen, level', depth)
      BY <1>1, <1>2, <2>1, FlushLeads
    <2>4. CoversTo(level', depth)
      BY <1>1, <1>2, <2>1, FlushCovers
    <2>5. Sends(codes', kernel'.seen, batch')
      BY <1>4, <2>2, AllSent DEF Admits
    <2>6. \A n \in Walks!Nodes :
              At(level, n) => At(level', n) /\ Depth(level', n) = Depth(level, n)
      BY <1>1, <1>2, <2>1, FlushedDepth
    <2>7. \A n \in Walks!Nodes :
              At(level', n) /\ Depth(level', n) = depth - 1 =>
                  At(level, n) /\ Depth(level, n) = depth - 1
      <3> SUFFICES ASSUME NEW n \in Walks!Nodes, At(level', n), Depth(level', n) = depth - 1
                   PROVE  At(level, n) /\ Depth(level, n) = depth - 1
        OBVIOUS
      <3>1. Depth(level', n) < depth
        BY <1>2
      <3>2. At(level, n)
        BY <1>1, <1>2, <2>1, <3>1, FlushedDepth
      <3> QED BY <2>6, <3>2
    <2> QED BY <1>1, <2>1, <2>2, <2>3, <2>4, <2>5, <2>6, <2>7
  <1> QED BY <1>1, <1>3, <1>4

LEMMA CandidateWalk ==
    ASSUME WalkAssumption, WalkInv, Walks!Candidate
    PROVE  WalkInv'
  <1>1. /\ at = "walk" /\ todo # << >> /\ todo' = Tail(todo) /\ met' = TRUE
        /\ UNCHANGED <<edges, ever, always, asked, at, depth, complete>>
    BY DEF Walks!Candidate, Walks!relation
  <1>2. Underway /\ InLevel
    BY <1>1 DEF WalkInv, Underway
  <1>3. /\ Related /\ todo \in Seq(Walks!Nodes \X Walks!Nodes)
        /\ asked \in Nat /\ depth \in Nat \ {0} /\ complete
    BY <1>2 DEF Underway
  <1>4. /\ Head(todo) \in Walks!Nodes \X Walks!Nodes
        /\ Tail(todo) \in Seq(Walks!Nodes \X Walks!Nodes)
        /\ \A k \in DOMAIN Tail(todo) : \E j \in DOMAIN todo : Tail(todo)[k] = todo[j]
        /\ \A j \in DOMAIN todo :
              todo[j] = Head(todo) \/ \E k \in DOMAIN Tail(todo) : Tail(todo)[k] = todo[j]
    BY <1>1, <1>3, TailOfTodo
  <1>5. /\ Admits(codes', kernel', level')
        /\ Sends(codes', kernel'.seen, batch')
        /\ Leads(codes', kernel'.seen, level', depth)
        /\ CoversTo(level', depth)
        /\ kernel'.level \in {depth - 1, depth}
        /\ batch' # << >> \/ kernel'.level = depth
    BY <1>2, CandidateAdmits
  <1>6. /\ \A c \in DOMAIN codes : c \in DOMAIN codes' /\ codes'[c] = codes[c]
        /\ Head(todo)[2] = Root \/ \E c \in DOMAIN codes' : codes'[c] = Head(todo)[2]
    BY <1>2, CandidateAdmits
  <1>7. /\ \A n \in Walks!Nodes :
              At(level, n) => At(level', n) /\ Depth(level', n) = Depth(level, n)
        /\ \A n \in Walks!Nodes :
              At(level', n) /\ Depth(level', n) = depth - 1 =>
                  At(level, n) /\ Depth(level, n) = depth - 1
    BY <1>2, CandidateAdmits
  <1>8. Walks!Known \subseteq Walks!Known' /\ Head(todo)[2] \in Walks!Known'
    BY <1>6 DEF Walks!Known
  <1>9. \A k \in DOMAIN todo' : At(level', todo'[k][1]) /\ Depth(level', todo'[k][1]) = depth - 1
    <2> SUFFICES ASSUME NEW k \in DOMAIN todo'
                 PROVE  At(level', todo'[k][1]) /\ Depth(level', todo'[k][1]) = depth - 1
      OBVIOUS
    <2>1. PICK j \in DOMAIN todo : todo'[k] = todo[j]
      BY <1>1, <1>4
    <2>2. todo[j][1] \in Walks!Nodes
      <3>1. todo[j] \in Walks!Nodes \X Walks!Nodes
        BY <1>3, ElementOfSeq
      <3> QED BY <3>1
    <2>3. At(level, todo[j][1]) /\ Depth(level, todo[j][1]) = depth - 1
      BY <1>2 DEF InLevel
    <2> QED BY <1>7, <2>1, <2>2, <2>3
  <1>10. ASSUME NEW e \in always, At(level', e[1]), Depth(level', e[1]) = depth - 1
         PROVE  (\E k \in DOMAIN todo' : todo'[k] = e) \/ e[2] \in Walks!Known'
    <2>1. e[1] \in Walks!Nodes
      BY <1>3, <1>10, EdgesAreOfNodes, WalkAssumption
    <2>2. At(level, e[1]) /\ Depth(level, e[1]) = depth - 1
      BY <1>7, <1>10, <2>1
    <2>3. (\E j \in DOMAIN todo : todo[j] = e) \/ e[2] \in Walks!Known
      BY <1>2, <1>10, <2>2 DEF InLevel
    <2>4. ASSUME NEW j \in DOMAIN todo, todo[j] = e
          PROVE  (\E k \in DOMAIN todo' : todo'[k] = e) \/ e[2] \in Walks!Known'
      BY <1>1, <1>4, <1>8, <2>4
    <2> QED BY <1>8, <2>3, <2>4
  <1>11. InLevel'
    <2>1. (met <=> (batch # << >> \/ kernel.level = depth))'
      BY <1>1, <1>5
    <2>2. (\A k \in DOMAIN todo : At(level, todo[k][1]) /\ Depth(level, todo[k][1]) = depth - 1)'
      BY <1>1, <1>9 DEF At, Depth
    <2>3. (\A e \in always : At(level, e[1]) /\ Depth(level, e[1]) = depth - 1 =>
              (\E k \in DOMAIN todo : todo[k] = e) \/ e[2] \in Walks!Known)'
      BY <1>1, <1>10 DEF At, Depth
    <2> QED BY <2>1, <2>2, <2>3 DEF InLevel
  <1>12. /\ Related' /\ Admits(codes, kernel, level)' /\ Sends(codes, kernel.seen, batch)'
         /\ Leads(codes, kernel.seen, level, depth)' /\ CoversTo(level, depth)'
    BY <1>1, <1>3, <1>5 DEF Related, Admits, Sends, Leads, CoversTo
  <1>13. Underway'
    BY <1>1, <1>3, <1>4, <1>5, <1>11, <1>12 DEF Underway
  <1> QED BY <1>1, <1>13 DEF WalkInv

LEMMA OutOfCodesWalk ==
    ASSUME WalkAssumption, WalkInv, Walks!OutOfCodes
    PROVE  WalkInv'
  <1>1. /\ at = "walk" /\ todo # << >> /\ Head(todo) \in edges
        /\ Head(todo)[2] \notin Walks!Known /\ Len(codes) = ResultCapacity
        /\ codes' = codes /\ Walks!Flush(batch)
        /\ at' = "done" /\ complete' = FALSE
        /\ UNCHANGED <<edges, ever, always, asked, depth>>
    BY DEF Walks!OutOfCodes, Walks!relation
  <1>2. Underway /\ InLevel
    BY <1>1 DEF WalkInv, Underway
  <1>3. /\ Related /\ todo \in Seq(Walks!Nodes \X Walks!Nodes)
        /\ asked \in Nat /\ depth \in Nat \ {0}
        /\ Admits(codes', kernel, level) /\ Sends(codes', kernel.seen, batch)
        /\ Leads(codes', kernel.seen, level, depth)
        /\ kernel.level <= depth
    BY <1>1, <1>2 DEF Underway
  <1>4. Flushed(codes')
    BY <1>1, <1>3, FlushAdmits
  <1>5. /\ Admits(codes', kernel', level') /\ kernel'.seen = 0 .. Len(codes')
        /\ Leads(codes', kernel'.seen, level', depth')
    BY <1>1, <1>3, <1>4, FlushLeads DEF Flushed
  <1>6. \E e \in ever : At(level', e[1]) /\ ~At(level', e[2])
    <2> DEFINE e == Head(todo)
    <2>1. /\ e \in Walks!Nodes \X Walks!Nodes /\ 1 \in DOMAIN todo /\ todo[1] = e
      BY <1>1, <1>3, TailOfTodo
    <2>2. e \in ever /\ At(level, e[1])
      BY <1>1, <1>2, <1>3, <2>1 DEF Related, InLevel
    <2>3. At(level', e[1])
      BY <1>3, <1>4, <2>1, <2>2, FlushedDepth
    <2>4. e[2] # Root /\ \A c \in DOMAIN codes : codes[c] # e[2]
      BY <1>1 DEF Walks!Known
    <2>5. level[e[2]] = 0
      <3>1. /\ level[e[2]] \in Nat
            /\ level[e[2]] > 0 <=> \E c \in kernel.seen \ {0} : codes[c] = e[2]
        <4>1. e[2] \in Walks!Nodes
          BY <2>1
        <4>2. Admits(codes, kernel, level)
          BY <1>1, <1>3
        <4> QED BY <4>1, <4>2 DEF Admits
      <3>2. kernel.seen \ {0} \subseteq DOMAIN codes
        <4>1. /\ codes \in Seq(Walks!Nodes \ {Root}) /\ kernel.seen \subseteq 0 .. Len(codes)
          BY <1>1, <1>3 DEF Admits
        <4>2. DOMAIN codes = 1 .. Len(codes) /\ Len(codes) \in Nat
          BY <4>1, LenProperties
        <4> QED BY <4>1, <4>2
      <3> QED BY <2>4, <3>1, <3>2
    <2>6. level'[e[2]] = 0
      BY <1>1, <1>4, <2>1, <2>4, <2>5 DEF Flushed
    <2>7. ~At(level', e[2])
      BY <2>4, <2>6 DEF At
    <2> HIDE DEF e
    <2> QED BY <2>2, <2>3, <2>7
  <1>7. Answered'
    <2>1. Related'
      BY <1>1, <1>3 DEF Related
    <2>2. (\E e \in ever : At(level, e[1]) /\ ~At(level, e[2]))'
      BY <1>1, <1>6 DEF At
    <2>3. (Admits(codes, kernel, level) /\ kernel.seen = 0 .. Len(codes))'
      BY <1>5 DEF Admits
    <2>5. Leads(codes, kernel.seen, level, depth)'
      BY <1>1, <1>5 DEF Leads, At, Depth
    <2>4. /\ (asked \in Nat)' /\ ~complete' /\ (Len(codes) = ResultCapacity)'
      BY <1>1, <1>3
    <2> QED BY <2>1, <2>2, <2>3, <2>4, <2>5 DEF Answered
  <1> QED BY <1>1, <1>7 DEF WalkInv

LEMMA EndLevelWalk ==
    ASSUME WalkAssumption, WalkInv, Walks!EndLevel
    PROVE  WalkInv'
  <1>1. /\ at = "walk" /\ todo = << >> /\ codes' = codes
        /\ Walks!Flush(batch) /\ batch' = << >>
        /\ at' = IF ~met \/ kernel'.frontier = << >> THEN "done" ELSE "level"
        /\ depth' = depth + 1
        /\ UNCHANGED <<edges, ever, always, asked, todo, met, complete>>
    BY DEF Walks!EndLevel, Walks!relation
  <1>2. Underway /\ InLevel
    BY <1>1 DEF WalkInv, Underway
  <1>3. /\ Related /\ asked \in Nat /\ depth \in Nat \ {0} /\ complete
        /\ todo \in Seq(Walks!Nodes \X Walks!Nodes)
        /\ Admits(codes', kernel, level) /\ Sends(codes', kernel.seen, batch)
        /\ Leads(codes', kernel.seen, level, depth) /\ CoversTo(level, depth)
        /\ kernel.level \in {depth - 1, depth} /\ kernel.level <= depth
    BY <1>1, <1>2 DEF Underway
  <1>4. Flushed(codes') /\ kernel'.level = IF batch = << >> THEN kernel.level ELSE depth
    BY <1>1, <1>3, FlushAdmits
  <1>5. kernel'.level = IF met THEN depth ELSE depth - 1
    <2>1. met <=> (batch # << >> \/ kernel.level = depth)
      BY <1>2 DEF InLevel
    <2> QED BY <1>3, <1>4, <2>1
  <1>6. /\ Admits(codes', kernel', level') /\ kernel'.seen = 0 .. Len(codes')
        /\ Leads(codes', kernel'.seen, level', depth')
    BY <1>1, <1>3, <1>4, FlushLeads DEF Flushed
  <1>7. CoversTo(level', depth + 1)
    <2>1. \A e \in always : At(level, e[1]) /\ Depth(level, e[1]) = depth - 1 =>
              e[2] = Root \/ \E c \in DOMAIN codes' : codes'[c] = e[2]
      <3>1. DOMAIN todo = {}
        BY <1>1
      <3> QED BY <1>1, <1>2, <3>1 DEF InLevel, Walks!Known
    <2> QED BY <1>3, <1>4, <2>1, FlushCoversLevel
  <1>8. Sends(codes', kernel'.seen, batch')
    BY <1>1, <1>6, AllSent DEF Admits
  <1>9. /\ Related' /\ Admits(codes, kernel, level)' /\ Sends(codes, kernel.seen, batch)'
        /\ Leads(codes, kernel.seen, level, depth)' /\ CoversTo(level, depth)'
        /\ (kernel.seen = 0 .. Len(codes))'
    BY <1>1, <1>3, <1>6, <1>7, <1>8 DEF Related, Admits, Sends, Leads, CoversTo
  <1>10. CASE at' = "level"
    <2>1. kernel'.level = depth' - 1 /\ depth' \in Nat \ {0}
      BY <1>1, <1>3, <1>5, <1>10
    <2> QED BY <1>1, <1>3, <1>9, <1>10, <2>1 DEF WalkInv, Underway
  <1>11. CASE at' = "done"
    <2>1. \A n \in Walks!Nodes :
              At(level', n) /\ Depth(level', n) < (asked + 1) - 1 =>
                  Depth(level', n) < (depth + 1) - 1
      <3> SUFFICES ASSUME NEW n \in Walks!Nodes, At(level', n)
                   PROVE  Depth(level', n) < (depth + 1) - 1
        OBVIOUS
      <3>1. Depth(level', n) \in Nat /\ Depth(level', n) <= kernel'.level
        BY <1>6, LevelBounds
      <3>2. CASE ~met
        BY <1>3, <1>5, <3>1, <3>2
      <3>3. CASE kernel'.frontier = << >>
        <4>1. DOMAIN kernel'.frontier = {}
          BY <3>3
        <4>2. Depth(level', n) # kernel'.level
          BY <1>6, <4>1, FrontierIsLevel
        <4> QED BY <1>3, <1>5, <3>1, <4>2
      <3> QED BY <1>1, <1>11, <3>2, <3>3
    <2>2. CoversTo(level', asked + 1)
      BY <1>3, <1>7, <2>1, CoversAll
    <2>3. CoversTo(level, asked + 1)'
      BY <1>1, <2>2 DEF CoversTo
    <2> QED BY <1>1, <1>3, <1>9, <1>11, <2>3 DEF WalkInv, Answered
  <1> QED BY <1>1, <1>10, <1>11

LEMMA WalkNext == WalkAssumption /\ WalkInv /\ [Walks!Next]_(Walks!vars) => WalkInv'
  <1> SUFFICES ASSUME WalkAssumption, WalkInv, [Walks!Next]_(Walks!vars) PROVE WalkInv'
    OBVIOUS
  <1>1. CASE UNCHANGED Walks!vars
    <2>1. UNCHANGED <<edges, ever, always, asked, at, depth, todo, codes, batch, met, kernel,
                      level, complete>>
      BY <1>1 DEF Walks!vars, Walks!relation, Walks!walk
    <2>2. Related => Related'
      BY <2>1 DEF Related
    <2>3. Admits(codes, kernel, level) => Admits(codes, kernel, level)'
      BY <2>1 DEF Admits
    <2>4. Sends(codes, kernel.seen, batch) => Sends(codes, kernel.seen, batch)'
      BY <2>1 DEF Sends
    <2>5. Leads(codes, kernel.seen, level, depth) => Leads(codes, kernel.seen, level, depth)'
      BY <2>1 DEF Leads
    <2>6. /\ CoversTo(level, depth) => CoversTo(level, depth)'
          /\ CoversTo(level, asked + 1) => CoversTo(level, asked + 1)'
      BY <2>1 DEF CoversTo
    <2>7. InLevel => InLevel'
      BY <2>1 DEF InLevel, Walks!Known
    <2>8. Underway => Underway'
      BY <2>1, <2>2, <2>3, <2>4, <2>5, <2>6, <2>7 DEF Underway
    <2>9. Answered => Answered'
      BY <2>1, <2>2, <2>3, <2>5, <2>6 DEF Answered, At
    <2> QED BY <2>1, <2>8, <2>9 DEF WalkInv
  <1>2. CASE Walks!StaleKernel
    BY <1>2 DEF Walks!StaleKernel, WalkInv
  <1>3. ASSUME NEW e \in Edges, Walks!Move(e) PROVE WalkInv'
    BY <1>3, MoveWalk
  <1> QED
    BY <1>1, <1>2, <1>3, BeginLevelWalk, NoEdgeWalk, CandidateWalk, OutOfCodesWalk, EndLevelWalk
    DEF Walks!Next

(* The answer the invariant describes is exact.                             *)
LEMMA AnsweredIsExact == WalkAssumption /\ WalkInv => Walks!WalkExact
  <1> SUFFICES ASSUME WalkAssumption, WalkInv, at = "done"
               PROVE  Walks!WalkExact
    BY DEF Walks!WalkExact
  <1>1. /\ Related /\ Admits(codes, kernel, level) /\ kernel.seen = 0 .. Len(codes)
        /\ Leads(codes, kernel.seen, level, depth) /\ asked \in Nat
        /\ complete => CoversTo(level, asked + 1)
        /\ ~complete =>
              /\ Len(codes) = ResultCapacity
              /\ \E e \in ever : At(level, e[1]) /\ ~At(level, e[2])
    BY DEF WalkInv, Answered
  <1>2. /\ codes \in Seq(Walks!Nodes \ {Root}) /\ Len(codes) \in Nat
        /\ DOMAIN codes = 1 .. Len(codes)
        /\ \A c \in DOMAIN codes : codes[c] \in Walks!Nodes \ {Root}
        /\ \A i, j \in DOMAIN codes : codes[i] = codes[j] => i = j
    BY <1>1, LenProperties, ElementOfSeq DEF Admits
  <1>3. \A n \in Walks!Nodes :
            /\ level[n] \in Nat
            /\ level[n] > 0 <=> \E c \in DOMAIN codes : codes[c] = n
    <2>1. kernel.seen \ {0} = DOMAIN codes
      BY <1>1, <1>2
    <2> QED BY <1>1, <2>1 DEF Admits
  <1>4. level[Root] = 0
    <2>1. Root \in Walks!Nodes
      BY DEF WalkAssumption
    <2> QED BY <1>2, <1>3, <2>1
  <1>5. \A n \in Walks!Nodes :
            (Walks!From(n) <=> At(level, n)) /\ Walks!LevelOf(n) = Depth(level, n)
    BY DEF Walks!From, Walks!Reached, At, Walks!LevelOf, Depth
  <1>6. \A n \in Walks!Reached : \E e \in ever :
            e[2] = n /\ Walks!From(e[1]) /\ Walks!LevelOf(e[1]) = level[n] - 1
    <2> SUFFICES ASSUME NEW n \in Walks!Reached
                 PROVE  \E e \in ever :
                           e[2] = n /\ Walks!From(e[1]) /\ Walks!LevelOf(e[1]) = level[n] - 1
      OBVIOUS
    <2>1. n \in Walks!Nodes /\ level[n] > 0
      BY DEF Walks!Reached
    <2>2. PICK c \in DOMAIN codes : codes[c] = n
      BY <1>3, <2>1
    <2>3. c \in kernel.seen
      BY <1>1, <1>2
    <2>4. PICK e \in ever :
              e[2] = n /\ At(level, e[1]) /\ Depth(level, e[1]) + 1 = level[n]
      BY <1>1, <2>2, <2>3 DEF Leads
    <2>5. e[1] \in Walks!Nodes
      BY <1>1, EdgesAreOfNodes
    <2>6. Depth(level, e[1]) = level[n] - 1
      <3>1. Depth(level, e[1]) \in Nat /\ level[n] \in Nat
        BY <1>3, <2>1, <2>5 DEF Depth
      <3> QED BY <2>4, <3>1
    <2> QED BY <1>5, <2>4, <2>5, <2>6
  <1>7. ASSUME complete
        PROVE  \A e \in always :
                   Walks!From(e[1]) /\ Walks!LevelOf(e[1]) < asked /\ e[2] # Root =>
                       level[e[2]] \in 1 .. Walks!LevelOf(e[1]) + 1
    <2> SUFFICES ASSUME NEW e \in always, Walks!From(e[1]), Walks!LevelOf(e[1]) < asked,
                        e[2] # Root
                 PROVE  level[e[2]] \in 1 .. Walks!LevelOf(e[1]) + 1
      OBVIOUS
    <2>1. e[1] \in Walks!Nodes
      BY <1>1, EdgesAreOfNodes
    <2>2. At(level, e[1]) /\ Depth(level, e[1]) < (asked + 1) - 1
      BY <1>1, <1>5, <2>1
    <2> QED BY <1>1, <1>5, <1>7, <2>1, <2>2 DEF CoversTo
  <1>8. ASSUME ~complete
        PROVE  /\ Walks!Cardinality(Walks!Reached) = ResultCapacity
               /\ \E e \in ever : Walks!From(e[1]) /\ ~Walks!From(e[2])
    <2>1. \E e \in ever : Walks!From(e[1]) /\ ~Walks!From(e[2])
      BY <1>1, <1>5, <1>8, EdgesAreOfNodes
    <2>2. codes \in Bijection(1 .. Len(codes), Walks!Reached)
      <3>1. \A c \in DOMAIN codes : codes[c] \in Walks!Reached
        BY <1>2, <1>3 DEF Walks!Reached
      <3>2. \A n \in Walks!Reached : \E c \in DOMAIN codes : codes[c] = n
        BY <1>3 DEF Walks!Reached
      <3>3. codes \in [1 .. Len(codes) -> Walks!Reached]
        <4>1. codes \in [1 .. Len(codes) -> Walks!Nodes \ {Root}]
          BY <1>2, LenProperties
        <4> QED BY <1>2, <3>1, <4>1
      <3>4. codes \in Injection(1 .. Len(codes), Walks!Reached)
        BY <1>2, <3>3 DEF Injection, IsInjective
      <3>5. codes \in Surjection(1 .. Len(codes), Walks!Reached)
        BY <1>2, <3>2, <3>3 DEF Surjection
      <3> QED BY <3>4, <3>5 DEF Bijection
    <2>3. IsFiniteSet(1 .. Len(codes)) /\ Cardinality(1 .. Len(codes)) = Len(codes)
      <3> DEFINE count == Len(codes)
      <3>1. /\ IsFiniteSet(1 .. count)
            /\ Cardinality(1 .. count) = IF 1 > count THEN 0 ELSE count - 1 + 1
        <4>1. 1 \in Int /\ count \in Int
          BY <1>2
        <4> HIDE DEF count
        <4> QED BY <4>1, FS_Interval
      <3>2. count \in Nat
        BY <1>2
      <3> HIDE DEF count
      <3>3. IsFiniteSet(1 .. count) /\ Cardinality(1 .. count) = count
        BY <3>1, <3>2
      <3> QED BY <3>3 DEF count
    <2>4. Cardinality(Walks!Reached) = Len(codes)
      BY <2>2, <2>3, FS_Bijection DEF ExistsBijection
    <2> QED BY <1>1, <1>8, <2>1, <2>4, SameCardinality
  <1> QED BY <1>4, <1>6, <1>7, <1>8 DEF Walks!WalkExact

(* An answer of a transitive query holds every node once, at the level of a *)
(* shortest path as far as the relation stood still, and says so when it is *)
(* cut short (transitive_dependents, transitive_dependencies,               *)
(* transitive_callers).                                                     *)
THEOREM WalksAreExact ==
    ASSUME WalkAssumption
    PROVE  Walks!Spec => []Walks!WalkExact
  <1>1. Walks!Init => WalkInv
    BY InitWalk
  <1>2. WalkInv /\ [Walks!Next]_(Walks!vars) => WalkInv'
    BY WalkNext
  <1>3. WalkInv => Walks!WalkExact
    BY AnsweredIsExact
  <1> QED BY <1>1, <1>2, <1>3, PTL DEF Walks!Spec
=============================================================================
