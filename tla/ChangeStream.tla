---------------------------- MODULE ChangeStream ----------------------------
(***************************************************************************)
(* What the event history promises its consumers, whatever threads, files, *)
(* crashes and lost answers there are (docs/ambient-semantic-coherence.md, *)
(* Identity model; crates/service-core/src/events.rs, queries.rs).         *)
(*                                                                         *)
(* A stream tells changes, one after the other.  A consumer holds a place  *)
(* in a stream and reads on from it, every change once and in order.  It   *)
(* joins a stream anew only if it is not on the live one, if it is further *)
(* behind than the history reaches, or if it has gone astray: a host that  *)
(* starts again may have forgotten the last changes, and a consumer that   *)
(* has read them is not told.                                              *)
(***************************************************************************)
EXTENDS Integers, Sequences

CONSTANTS
    Streams, NoStream,
    Changes,        \* what a stream may tell
    Bursts,         \* sequences of changes a new host starts with
    Consumers,
    Capacity        \* changes the history reaches back

VARIABLES
    told,       \* per stream, the changes it told
    live,       \* the stream that is told now
    at,         \* per consumer, the stream and cursor it holds
    base,       \* per consumer, the cursor it joined at
    seen,       \* per consumer, the changes it has read since
    astray      \* consumers that have read what a host forgot

vars == <<told, live, at, base, seen, astray>>

Init ==
    /\ live \in Streams
    /\ told = [s \in Streams |-> << >>]
    /\ at = [c \in Consumers |-> [stream |-> NoStream, cursor |-> 0]]
    /\ base = [c \in Consumers |-> 0]
    /\ seen = [c \in Consumers |-> << >>]
    /\ astray = {}

-----------------------------------------------------------------------------
Tell(change) ==
    /\ told' = [told EXCEPT ![live] = Append(@, change)]
    /\ UNCHANGED <<live, at, base, seen, astray>>

(* A new host goes on with the stream as far as the old one had saved it.  *)
Resume(kept, burst) ==
    /\ told' = [told EXCEPT ![live] = SubSeq(@, 1, kept) \o burst]
    /\ astray' = astray \cup
          {c \in Consumers : at[c].stream = live /\ at[c].cursor > kept}
    /\ UNCHANGED <<live, at, base, seen>>

(* A new host starts a stream that nobody knows.                           *)
Renew(s, burst) ==
    /\ told[s] = << >>
    /\ \A c \in Consumers : at[c].stream # s
    /\ live' = s
    /\ told' = [told EXCEPT ![s] = burst]
    /\ UNCHANGED <<at, base, seen, astray>>

(* A consumer reads the next n changes.                                    *)
Read(c, n) ==
    /\ at[c].stream \in {live, NoStream}
    /\ at' = [at EXCEPT ![c] = [stream |-> live, cursor |-> at[c].cursor + n]]
    /\ seen' = [seen EXCEPT ![c] =
                  @ \o SubSeq(told[live], at[c].cursor + 1, at[c].cursor + n)]
    /\ UNCHANGED <<told, live, base, astray>>

(* A consumer takes the workspace as it is and follows from here.          *)
Join(c, cursor) ==
    /\ at[c].stream = live /\ c \notin astray =>
          at[c].cursor < cursor /\ at[c].cursor + Capacity < Len(told[live])
    /\ at' = [at EXCEPT ![c] = [stream |-> live, cursor |-> cursor]]
    /\ base' = [base EXCEPT ![c] = cursor]
    /\ seen' = [seen EXCEPT ![c] = << >>]
    /\ astray' = astray \ {c}
    /\ UNCHANGED <<told, live>>

-----------------------------------------------------------------------------
Next ==
    \/ \E change \in Changes : Tell(change)
    \/ \E kept \in 0 .. Len(told[live]), burst \in Bursts : Resume(kept, burst)
    \/ \E s \in Streams \ {live}, burst \in Bursts : Renew(s, burst)
    \/ \E c \in Consumers : \E n \in 0 .. Len(told[live]) - at[c].cursor : Read(c, n)
    \/ \E c \in Consumers, cursor \in 0 .. Len(told[live]) : Join(c, cursor)

Spec == Init /\ [][Next]_vars
=============================================================================
