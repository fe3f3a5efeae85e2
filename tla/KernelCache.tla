----------------------------- MODULE KernelCache ----------------------------
(***************************************************************************)
(* The resident kernels and the library modules they are compiled from     *)
(* (crates/service-core/src/native_relation.rs, ambient.rs, native_query.rs*)
(* and native_filter.rs, prepare_kernel and kernel).                       *)
(*                                                                         *)
(* Each request resolves modules a kernel depends on, one at a time, and   *)
(* serves the cached kernel if it is labelled with what was resolved;      *)
(* otherwise it compiles one, which resolves all of them again.  The files *)
(* may change, and change back, at any time.                               *)
(*                                                                         *)
(* The kernels do it in three ways, the values of policy:                  *)
(*   capsule    every module is compared, and the label is what was        *)
(*              compiled (ambient.rs);                                     *)
(*   relation   the modules the service names are compared, and the label  *)
(*              is what was compiled (native_relation.rs);                 *)
(*   status     the modules the service names are compared, and the label  *)
(*              is what was resolved before compiling (native_query.rs,    *)
(*              native_filter.rs).                                         *)
(***************************************************************************)
EXTENDS Integers, Sequences, FiniteSets

CONSTANTS
    ModuleOrder,    \* the library modules, in the order they are resolved
    Versions,       \* texts of a module
    Threads,        \* requests that may run at the same time
    Policies,       \* of "capsule", "relation", "status", those considered
    NamedModules,   \* how many of the modules, the first, the service names
    MaxChanges      \* bound: changes of the library

Modules == {ModuleOrder[i] : i \in DOMAIN ModuleOrder}
Texts == [Modules -> Versions]

VARIABLES
    library,    \* the text of every module
    changes,    \* history: how often one changed
    policy,     \* the way of the kernel
    cache,      \* the resident kernel, a sequence of at most one
    request,    \* per thread, the request in progress
    current     \* history: per thread, the texts there were during its request

vars == <<library, changes, policy, cache, request, current>>

(* A kernel: the identities it is labelled with, those an answer reports,  *)
(* and the texts it was compiled from.                                     *)
NoKernel == [label |-> << >>, texts |-> << >>]

Idle == [step |-> "idle", wanted |-> << >>, texts |-> << >>, served |-> NoKernel]

Init ==
    /\ library \in Texts
    /\ changes = 0
    /\ policy \in Policies
    /\ cache = << >>
    /\ request = [t \in Threads |-> Idle]
    /\ current = [t \in Threads |-> {}]

(* A module of the library is edited.                                      *)
Change(m, v) ==
    /\ changes < MaxChanges
    /\ library[m] # v
    /\ library' = [library EXCEPT ![m] = v]
    /\ changes' = changes + 1
    /\ current' = [t \in Threads |->
          IF request[t].step = "idle" THEN {} ELSE current[t] \cup {<<m, v>>}]
    /\ UNCHANGED <<policy, cache, request>>

Begin(t) ==
    /\ request[t].step = "idle"
    /\ request' = [request EXCEPT ![t] = [Idle EXCEPT !.step = "resolve"]]
    /\ current' = [current EXCEPT ![t] = {<<m, library[m]>> : m \in Modules}]
    /\ UNCHANGED <<library, changes, policy, cache>>

(* How many of the modules are compared.                                   *)
Compared == IF policy = "capsule" THEN Len(ModuleOrder) ELSE NamedModules

(* One module more: of those whose identities are compared, then of those  *)
(* the compiler is given.                                                  *)
Read(t, step, field, count) ==
    /\ request[t].step = step
    /\ Len(request[t][field]) < count
    /\ request' = [request EXCEPT ![t][field] =
          Append(@, library[ModuleOrder[Len(@) + 1]])]
    /\ UNCHANGED <<library, changes, policy, cache, current>>

Resolve(t) == Read(t, "resolve", "wanted", Compared)
Compile(t) == Read(t, "compile", "texts", Len(ModuleOrder))

(* The cached kernel is served if its label has what was resolved.         *)
Lookup(t) ==
    LET r == request[t]
        hit == cache # << >> /\ \A i \in 1 .. Compared : cache[1].label[i] = r.wanted[i]
    IN  /\ r.step = "resolve"
        /\ Len(r.wanted) = Compared
        /\ request' = [request EXCEPT ![t] =
              IF hit THEN [@ EXCEPT !.step = "served", !.served = cache[1]]
              ELSE [@ EXCEPT !.step = "compile"]]
        /\ UNCHANGED <<library, changes, policy, cache, current>>

LabelWanted(r) == r.wanted

LabelOf(r) == IF policy = "status" THEN r.wanted ELSE r.texts

(* Under the write lock: a kernel of the same label, cached meanwhile, is  *)
(* served; otherwise the new one takes its place.                          *)
Store(t) ==
    LET r == request[t]
        prepared == [label |-> LabelOf(r), texts |-> r.texts]
    IN  /\ r.step = "compile"
        /\ Len(r.texts) = Len(ModuleOrder)
        /\ cache' = IF cache # << >> /\ cache[1].label = prepared.label
                    THEN cache ELSE <<prepared>>
        /\ request' = [request EXCEPT ![t] =
              [@ EXCEPT !.step = "served", !.served = cache'[1]]]
        /\ UNCHANGED <<library, changes, policy, current>>

(* A text that cannot be resolved or compiled: nothing is served.          *)
Refuse(t) ==
    /\ request[t].step \in {"resolve", "compile"}
    /\ request' = [request EXCEPT ![t] = Idle]
    /\ current' = [current EXCEPT ![t] = {}]
    /\ UNCHANGED <<library, changes, policy, cache>>

Return(t) ==
    /\ request[t].step = "served"
    /\ request' = [request EXCEPT ![t] = Idle]
    /\ current' = [current EXCEPT ![t] = {}]
    /\ UNCHANGED <<library, changes, policy, cache>>

Next ==
    \/ \E m \in Modules, v \in Versions : Change(m, v)
    \/ \E t \in Threads :
          Begin(t) \/ Resolve(t) \/ Lookup(t) \/ Compile(t) \/ Store(t)
          \/ Refuse(t) \/ Return(t)

Spec == Init /\ [][Next]_vars

(* The identities an answer reports for the modules that are compared were *)
(* those of the modules' texts at some time of its request, whatever other *)
(* requests cached before or meanwhile; and where kernels are labelled     *)
(* with what was compiled (kernel of ambient.rs and native_relation.rs)    *)
(* the answer was computed from those texts.  Nothing is said of a module  *)
(* that a relation kernel imports without the service naming it: a change  *)
(* of such a module alone is not noticed.                                  *)
ServedKernelCurrent ==
    \A t \in Threads :
        request[t].step = "served" =>
            \A i \in 1 .. Compared :
                /\ <<ModuleOrder[i], request[t].served.label[i]>> \in current[t]
                /\ policy # "status" =>
                      request[t].served.texts[i] = request[t].served.label[i]

(* "The kernel is compiled and frozen [...], then reused while its source  *)
(* identity and the resolved mncs.core.status.v1 dependency identity are   *)
(* unchanged" (docs/architecture.md:343-345): a kernel served without      *)
(* compiling was compiled from the texts that are resolved                 *)
(* (native_query.rs kernel, prepare_kernel).                               *)
ReusedWhileUnchanged ==
    \A t \in Threads :
        request[t].step = "served" /\ request[t].texts = << >> =>
            \A i \in 1 .. Compared :
                request[t].served.texts[i] = request[t].wanted[i]
=============================================================================
