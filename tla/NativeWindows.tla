---------------------------- MODULE NativeWindows ---------------------------
(***************************************************************************)
(* Queries of any length through kernels of fixed size                     *)
(* (crates/service-core/src/queries.rs workspace_symbols, completion,      *)
(* native_obligations; render.rs CompletionCollector; native_filter.rs,    *)
(* native_query.rs; candidate.rs native_candidate_counts).                 *)
(*                                                                         *)
(* Names go to the matching kernel in batches bounded by number and, for   *)
(* symbols, by the work of scanning them; a name or a needle that does not *)
(* fit is matched by the host, and so is a batch the kernel refuses.  The  *)
(* statuses of obligations are counted window by window.                   *)
(***************************************************************************)
EXTENDS Integers, Sequences, FiniteSets, SequencesExt

CONSTANTS
    Names,          \* [order, size, match, status]: a name and its obligation
    MaxBytes,       \* longest name and needle of the kernel (64)
    MaxItems,       \* names of a batch (64)
    MaxWork,        \* scan work of a batch of symbols (8 * 65 slots)
    MaxHits,        \* answers of a query (200)
    StatusWindow,   \* obligations of a window (8)
    MaxGiven        \* bound: names a query looks at

Kinds == {"symbols", "scoped", "modules"}

VARIABLES
    kind,       \* the query: workspace symbols, or one of two completions
    needle,     \* the bytes asked for, 0 for none
    given,      \* the names looked at so far
    batch,      \* of them, those not yet sent, by position
    hits,       \* of them, those that matched, in the order of the answer
    sent,       \* history: the batches sent
    done

vars == <<kind, needle, given, batch, hits, sent, done>>

Init ==
    /\ kind \in Kinds
    /\ needle \in {0, 1, MaxBytes + 1}
    /\ given = << >> /\ batch = << >> /\ hits = << >> /\ sent = {}
    /\ done = FALSE

Fits(n) == n.size <= MaxBytes
Work(names) == FoldLeft(LAMBDA sum, n : sum + n.size + 1, 0, names)

(* Push, which for scoped completions drops a label seen before.           *)
Push(found, i) ==
    IF kind = "scoped" /\ \E j \in Range(found) : given'[j] = given'[i]
    THEN found ELSE Append(found, i)

(* The mask of the kernel and the predicate of the host say the same of a  *)
(* name, so which of them answered a batch does not show.                  *)
Matching(found, positions) ==
    FoldLeft(LAMBDA f, i : IF given'[i].match THEN Push(f, i) ELSE f, found, positions)

NamesOf(positions) == [i \in DOMAIN positions |-> given'[positions[i]]]

(* A batch the kernel can take is sent, any other is left to the host.     *)
Sent(positions) ==
    LET names == NamesOf(positions)
    IN  IF names # << >> /\ needle <= MaxBytes /\ \A n \in Range(names) : Fits(n)
        THEN sent \cup {names} ELSE sent

Flush(positions) ==
    /\ hits' = Matching(hits, positions)
    /\ sent' = Sent(positions)

-----------------------------------------------------------------------------
(* workspace_symbols: a batch is sent before the name that would overfill  *)
(* it.                                                                     *)

FullAfter(positions, n) ==
    /\ positions # << >>
    /\ \/ Len(positions) = MaxItems
       \/ Work(NamesOf(positions)) > MaxWork

Full(positions, n) ==
    /\ positions # << >>
    /\ \/ Len(positions) = MaxItems
       \/ Work(Append(NamesOf(positions), n)) > MaxWork

ConsiderSymbol(n) ==
    LET i == Len(given) + 1
    IN  /\ kind = "symbols"
        /\ given' = Append(given, n)
        /\ IF needle = 0 \/ ~Fits(n) \/ needle > MaxBytes
           THEN /\ hits' = IF needle = 0 \/ n.match THEN Append(hits, i) ELSE hits
                /\ UNCHANGED <<batch, sent>>
           ELSE IF Full(batch, n)
                THEN Flush(batch) /\ batch' = <<i>>
                ELSE batch' = Append(batch, i) /\ UNCHANGED <<hits, sent>>

(* CompletionCollector: a batch is sent when it is full; one name that     *)
(* does not fit leaves all of it to the host.                              *)
ConsiderCompletion(n) ==
    LET i == Len(given) + 1
        pending == Append(batch, i)
    IN  /\ kind # "symbols"
        /\ given' = Append(given, n)
        /\ IF needle = 0
           THEN hits' = Push(hits, i) /\ UNCHANGED <<batch, sent>>
           ELSE IF Len(pending) < MaxItems
                THEN batch' = pending /\ UNCHANGED <<hits, sent>>
                ELSE Flush(pending) /\ batch' = << >>

(* The last batch, the order of the answer and its limit.  The index lists *)
(* symbols by document, so equal names stay in the order they were met.    *)
Finish ==
    /\ given' = given
    /\ done' = TRUE
    /\ batch' = << >>
    /\ LET found == Matching(hits, batch)
           sorted == SortSeq(found, LAMBDA i, j :
                        \/ given[i].order < given[j].order
                        \/ given[i].order = given[j].order /\ i < j)
       IN  hits' = IF kind = "modules" THEN found
                   ELSE SubSeq(sorted, 1, IF Len(sorted) < MaxHits THEN Len(sorted) ELSE MaxHits)
    /\ sent' = Sent(batch)
    /\ UNCHANGED <<kind, needle>>

Consider(n) ==
    /\ Len(given) < MaxGiven
    /\ ConsiderSymbol(n) \/ ConsiderCompletion(n)
    /\ UNCHANGED <<kind, needle, done>>

Next == ~done /\ ((\E n \in Names : Consider(n)) \/ Finish)

Spec == Init /\ [][Next]_vars

-----------------------------------------------------------------------------
(* Obligation statuses, window by window                                   *)

Statuses == {"pass", "fail", "unknown"}

(* execute_status_summary: padded to the window, counted up to the prefix. *)
StatusSummary(window) ==
    LET padded == window \o [i \in 1 .. StatusWindow - Len(window) |-> "unknown"]
    IN  [s \in Statuses |-> Cardinality({i \in 1 .. Len(window) : padded[i] = s})]

(* native_candidate_counts: the sum over windows; none counts as one.      *)
NativeCounts(statuses) ==
    LET windows == ((Len(statuses) - 1) \div StatusWindow) + 1
        Window(k) == SubSeq(statuses, (k - 1) * StatusWindow + 1,
            IF k * StatusWindow < Len(statuses) THEN k * StatusWindow ELSE Len(statuses))
    IN  FoldLeft(LAMBDA sum, k : [s \in Statuses |-> sum[s] + StatusSummary(Window(k))[s]],
                 [s \in Statuses |-> 0], [k \in 1 .. windows |-> k])

-----------------------------------------------------------------------------
(* Properties                                                              *)

Wanted(i) == needle = 0 \/ given[i].match
Before(i, j) == given[i].order < given[j].order

(* Whatever the batches, an answer holds every name that matches once, up  *)
(* to its limit and then the first ones, no batch is larger than the       *)
(* kernel takes, and the windows count every obligation once.              *)
WindowsExact ==
    /\ \A names \in sent :
          /\ Len(names) <= MaxItems /\ \A n \in Range(names) : Fits(n)
          /\ kind = "symbols" => Work(names) <= MaxWork
    /\ done =>
          LET found == Range(hits)
              wanted == {i \in DOMAIN given : Wanted(i)}
          IN  /\ IsInjective(hits) /\ found \subseteq wanted
              /\ \A i \in wanted \ found :
                    \/ kind = "scoped" /\ \E j \in found : given[j] = given[i]
                    \/ /\ kind # "modules" /\ Len(hits) = MaxHits
                       /\ \A j \in found : ~Before(i, j)
              /\ kind = "scoped" => \A i, j \in found : given[i] = given[j] => i = j
              /\ LET statuses == [i \in DOMAIN given |-> given[i].status]
                 IN  NativeCounts(statuses) =
                        [s \in Statuses |-> Cardinality({i \in DOMAIN statuses : statuses[i] = s})]
=============================================================================
