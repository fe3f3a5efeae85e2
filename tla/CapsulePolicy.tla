---------------------------- MODULE CapsulePolicy ---------------------------
(***************************************************************************)
(* Which of the measured findings a capsule admits                         *)
(* (crates/service-core/src/ambient.rs, second half of semantic_capsule;   *)
(* mncs/semantic_capsule.mncs, the policy kernel).                         *)
(*                                                                         *)
(* The findings are streamed in windows through an ordering kernel that    *)
(* sees two envelopes at most; the first Envelope of each window are kept. *)
(* A second kernel classifies what is left and admits it within budgets.   *)
(***************************************************************************)
EXTENDS Integers, Sequences, FiniteSets, SequencesExt

CONSTANTS
    Envelope,       \* findings the policy sees (32; the order window is 64)
    MaxActionable,  \* budgets of the policy (16)
    MaxWatch,       \* (8)
    MaxTotal,       \* (20)
    MaxFindings     \* bound: findings measured

(* The kinds: diagnostics, changed subjects, obligations that do not pass, *)
(* affected modules, each with the severities measured for it.             *)
Severities == <<0 .. 2, 0 .. 2, 1 .. 2, 0 .. 1>>
Finding == UNION {[severity : Severities[k + 1], kind : {k}] : k \in 0 .. 3}

(* What the host sorts by, of the i-th finding; findings with one key are  *)
(* equal.                                                                  *)
Key(i) == (5 * i) % 7

VARIABLES
    findings,   \* everything measured; an index into it names a finding
    taken,      \* how many have been streamed through the ordering
    envelope,   \* the findings kept, in priority order
    selection   \* the verdict of the policy, a sequence of at most one

vars == <<findings, taken, envelope, selection>>

Init ==
    /\ findings = << >>
    /\ taken = 0
    /\ envelope = << >>
    /\ selection = << >>

(* The walks of a capsule measure one kind after the other.                *)
Measure(f) ==
    /\ taken = 0 /\ selection = << >>
    /\ Len(findings) < MaxFindings
    /\ findings # << >> => findings[Len(findings)].kind <= f.kind
    /\ findings' = Append(findings, f)
    /\ UNCHANGED <<taken, envelope, selection>>

-----------------------------------------------------------------------------
(* order_capsule_window                                                    *)

(* The code of a slot: severity first, then kind, then position.           *)
Code(f, slot) == ((2 - f.severity) * 4 + f.kind) * (2 * Envelope) + slot

SortedCodes(window, first, last) ==
    SortSeq([i \in 1 .. last - first + 1 |->
                Code(findings[window[first + i - 1]], first + i - 2)], <)

(* One output slot: the smaller head of the two sorted halves.             *)
TakeSmaller(merge, slot) ==
    LET left == merge.left # << >>
                /\ (merge.right = << >> \/ Head(merge.left) <= Head(merge.right))
    IN  IF left
        THEN [merge EXCEPT !.out = Append(@, Head(merge.left)), !.left = Tail(@)]
        ELSE [merge EXCEPT !.out = Append(@, Head(merge.right)), !.right = Tail(@)]

Merged(left, right) ==
    FoldLeft(TakeSmaller, [out |-> << >>, left |-> left, right |-> right],
             [i \in 1 .. Len(left) + Len(right) |-> i]).out

WindowOrder(window) ==
    LET n == Len(window)
        half == IF n < Envelope THEN n ELSE Envelope
        codes == Merged(SortedCodes(window, 1, half),
                        SortedCodes(window, half + 1, n))
    IN  [i \in 1 .. n |-> window[(codes[i] % (2 * Envelope)) + 1]]

-----------------------------------------------------------------------------
(* The windows                                                             *)

FirstOf(s, n) == SubSeq(s, 1, IF Len(s) < n THEN Len(s) ELSE n)

ByKey(window) == SortSeq(window, LAMBDA i, j : Key(i) < Key(j))

Afresh(kept, incoming) == incoming

WithKept(kept, incoming) == kept \o incoming

(* The next chunk is merged with what was kept and ordered anew.           *)
OrderWindow ==
    LET last == IF taken + Envelope < Len(findings) THEN taken + Envelope
                ELSE Len(findings)
        incoming == [i \in 1 .. last - taken |-> taken + i]
    IN  /\ taken < Len(findings)
        /\ envelope' = FirstOf(WindowOrder(ByKey(WithKept(envelope, incoming))), Envelope)
        /\ taken' = last
        /\ UNCHANGED <<findings, selection>>

-----------------------------------------------------------------------------
(* select_capsule                                                          *)

Actionable == 2
Watch == 1

Classify(f) ==
    CASE f.kind = 0 -> IF f.severity >= 1 THEN Actionable ELSE 0
      [] f.kind = 1 -> IF f.severity = 2 THEN Actionable ELSE Watch
      [] f.kind = 2 -> f.severity
      [] f.kind = 3 -> IF f.severity >= 1 THEN Watch ELSE 0

Open(scan, relevance) ==
    /\ Cardinality(scan.actionable) + Cardinality(scan.watch) < MaxTotal
    /\ \/ relevance = Actionable /\ Cardinality(scan.actionable) < MaxActionable
       \/ relevance = Watch /\ Cardinality(scan.watch) < MaxWatch

Scanned(scan, i) ==
    LET relevance == Classify(findings[i])
    IN  IF ~Open(scan, relevance)
        THEN [scan EXCEPT !.dropped = @ + 1]
        ELSE IF relevance = Actionable
             THEN [scan EXCEPT !.actionable = @ \cup {i}]
             ELSE [scan EXCEPT !.watch = @ \cup {i}]

Select ==
    /\ taken = Len(findings)
    /\ selection = << >>
    /\ selection' = <<FoldLeft(Scanned,
                        [actionable |-> {}, watch |-> {}, dropped |-> 0], envelope)>>
    /\ UNCHANGED <<findings, taken, envelope>>

Next == (\E f \in Finding : Measure(f)) \/ OrderWindow \/ Select

Spec == Init /\ [][Next]_vars

-----------------------------------------------------------------------------
(* Properties                                                              *)

Precedes(i, j) ==
    \/ findings[i].severity > findings[j].severity
    \/ findings[i].severity = findings[j].severity /\
        \/ findings[i].kind < findings[j].kind
        \/ findings[i].kind = findings[j].kind /\ Key(i) < Key(j)

(* However the findings fall into windows, what is kept are the first of   *)
(* all that were streamed, in order of severity, kind and key.             *)
EnvelopeIsTop ==
    /\ IsInjective(envelope)
    /\ Range(envelope) \subseteq 1 .. taken
    /\ \A i, j \in DOMAIN envelope : i < j => ~Precedes(envelope[j], envelope[i])
    /\ \A out \in (1 .. taken) \ Range(envelope) :
          /\ Len(envelope) = Envelope
          /\ \A i \in Range(envelope) : ~Precedes(out, i)

(* Truncation and budgets never cost an actionable finding its place while *)
(* the budget for actionable ones is open, the most urgent are the ones    *)
(* admitted, and every measured finding is admitted, dropped or counted as *)
(* truncated (ambient.rs semantic_capsule, semantic_capsule.mncs).         *)
ActionableFirst ==
    \A s \in Range(selection) :
        /\ \A i \in DOMAIN findings \ s.actionable :
              Classify(findings[i]) = Actionable =>
                  /\ Cardinality(s.actionable) = MaxActionable
                  /\ \A j \in s.actionable : ~Precedes(i, j)
        /\ Cardinality(s.actionable \cup s.watch) + s.dropped
              = Len(findings) - (IF Len(findings) > Envelope
                                 THEN Len(findings) - Envelope ELSE 0)

CapsuleAdmission == EnvelopeIsTop /\ ActionableFirst
=============================================================================
