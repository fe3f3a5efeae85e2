------------------------------ MODULE EventHub ------------------------------
(***************************************************************************)
(* The bounded event history of one resident service                       *)
(* (crates/service-core/src/events.rs, EventHub).                          *)
(*                                                                         *)
(* A hub is the identity of its stream, the high-water cursor, and the     *)
(* newest events, at most Capacity of them.  Every method takes the one    *)
(* mutex of the hub, so every method is one step.  Polling changes nothing *)
(* and is an operator, asked by the invariants for every request a client  *)
(* can make.                                                               *)
(***************************************************************************)
EXTENDS Integers, Sequences, FiniteSets

CONSTANTS
    Capacity,       \* events retained (256 in the program)
    Streams,        \* stream identities
    NoStream,       \* a poll that names no stream
    Uris,           \* documents
    Identities,     \* source identities a document can have
    Checkpoints,    \* what restore_checkpoint may be handed from disk
    Cursors,        \* cursors a client polls with
    PageSizes,      \* max_events of a poll
    MaxCursor       \* bound of the model: cursors assigned by Push

ASSUME CapacityAssumption == Capacity \in Nat \ {0}
ASSUME StreamAssumption == Streams # {} /\ NoStream \notin Streams
ASSUME RequestAssumption == Cursors \subseteq Nat /\ PageSizes \subseteq Nat
ASSUME MaxCursorAssumption == MaxCursor \in Nat

Source == [uri : Uris, identity : Identities]
Event == [stream : Streams, cursor : Nat, current : Source]
HubState == [stream : Streams, next : Nat, events : Seq(Event)]

ASSUME CheckpointAssumption == Checkpoints \subseteq HubState

VARIABLE hub

-----------------------------------------------------------------------------
(* Construction and the three ways a hub changes.                          *)

NewHub(s) == [stream |-> s, next |-> 0, events |-> << >>]

Init == \E s \in Streams : hub = NewHub(s)

(* restore_stream: only a hub that has published nothing is relabelled.    *)
RestoreStream(s, n) ==
    /\ hub.events = << >>
    /\ hub' = [hub EXCEPT !.stream = s, !.next = n]

(* The window a checkpoint carries is adopted only if it is one: of this   *)
(* capacity, of this stream, without a hole, ending at the high-water.     *)
ConsistentWindow(c) ==
    /\ Len(c.events) <= Capacity
    /\ \A i \in DOMAIN c.events :
          /\ c.events[i].stream = c.stream
          /\ c.events[i].cursor <= c.next
    /\ \A i \in 1 .. Len(c.events) - 1 :
          c.events[i + 1].cursor = c.events[i].cursor + 1
    /\ c.events # << >> => c.events[Len(c.events)].cursor = c.next

(* A checkpoint whose window is not consistent still restores the stream   *)
(* and its high-water, without history: older cursors are then reset.      *)
Restored(c) ==
    IF ConsistentWindow(c) THEN c ELSE [c EXCEPT !.events = << >>]

RestoreCheckpoint(c) ==
    /\ hub.events = << >>
    /\ hub' = Restored(c)

KeptAll(evs) == evs

(* push: the hub assigns the cursor and the stream; the oldest event makes *)
(* room when the history is full.                                          *)
Kept(evs) == IF Len(evs) >= Capacity THEN Tail(evs) ELSE evs

Pushed(h, src) ==
    LET e == [stream |-> h.stream, cursor |-> h.next + 1, current |-> src]
    IN  [h EXCEPT !.next = h.next + 1, !.events = Append(Kept(h.events), e)]

Push(src) ==
    /\ hub.next < MaxCursor
    /\ hub' = Pushed(hub, src)

-----------------------------------------------------------------------------
(* poll_for                                                                *)

(* The retained events past a cursor, in order: the hub's deque is sorted  *)
(* (WindowInv), so the filter of the code keeps a suffix of it.            *)
FirstUnread(evs, after) ==
    CHOOSE i \in DOMAIN evs :
        /\ evs[i].cursor > after
        /\ \A j \in DOMAIN evs : evs[j].cursor > after => i <= j

Page(evs, after, size) ==
    IF \E i \in DOMAIN evs : evs[i].cursor > after
    THEN LET first == FirstUnread(evs, after)
             last == first + size - 1
         IN  SubSeq(evs, first, IF last < Len(evs) THEN last ELSE Len(evs))
    ELSE << >>

Oldest(h) == IF h.events = << >> THEN h.next + 1 ELSE h.events[1].cursor

(* A nonzero cursor is meaningless without the stream it counts.           *)
StreamMismatch(h, requested, after) ==
    IF requested = NoStream THEN after > 0 ELSE requested # h.stream

ResetUnlessAged(h, requested, after) ==
    \/ StreamMismatch(h, requested, after)
    \/ after > h.next

ResetTooEarly(h, requested, after) ==
    \/ StreamMismatch(h, requested, after)
    \/ after > h.next
    \/ after < Oldest(h) /\ after < h.next

ResetAnyStream(h, requested, after) ==
    \/ after > h.next
    \/ after + 1 < Oldest(h) /\ after < h.next

ResetRequired(h, requested, after) ==
    \/ StreamMismatch(h, requested, after)
    \/ after > h.next
    \/ after + 1 < Oldest(h) /\ after < h.next

PageSizeRaw(max) == max

PageSize(max) == IF max = 0 THEN 1 ELSE max

PollFor(h, requested, after, max) ==
    LET reset == ResetRequired(h, requested, after)
    IN  [stream  |-> h.stream,
         after   |-> after,
         current |-> h.next,
         oldest  |-> Oldest(h),
         reset   |-> reset,
         events  |-> IF reset THEN << >> ELSE Page(h.events, after, PageSize(max))]

-----------------------------------------------------------------------------
Next ==
    \/ \E s \in Streams, n \in 0 .. MaxCursor : RestoreStream(s, n)
    \/ \E c \in Checkpoints : RestoreCheckpoint(c)
    \/ \E src \in Source : Push(src)

Spec == Init /\ [][Next]_hub

-----------------------------------------------------------------------------
(* Properties                                                              *)

TypeOK == hub \in HubState

(* The retained history is one gap-free run of this stream's cursors that  *)
(* ends at the high-water mark, and never outgrows its bound, whatever was *)
(* restored from disk before the pushes (events.rs push and                *)
(* restore_checkpoint).                                                    *)
WindowInv ==
    /\ Len(hub.events) <= Capacity
    /\ \A i \in DOMAIN hub.events :
          /\ hub.events[i].stream = hub.stream
          /\ hub.events[i].cursor <= hub.next
    /\ \A i \in 1 .. Len(hub.events) - 1 :
          hub.events[i + 1].cursor = hub.events[i].cursor + 1
    /\ hub.events # << >> => hub.events[Len(hub.events)].cursor = hub.next

(* No silent gap and no replay: for every request, a poll that does not    *)
(* demand a reset answers with exactly the events that follow the cursor,  *)
(* one by one, all of the named stream; the page is empty only when there  *)
(* is nothing to read (events.rs poll_for).                                *)
PollExact ==
    \A requested \in Streams \cup {NoStream}, after \in Cursors, max \in PageSizes :
        LET reply == PollFor(hub, requested, after, max)
            page == reply.events
        IN  ~reply.reset =>
              /\ page = << >> <=> after = hub.next
              /\ page # << >> => page[1].cursor = after + 1
              /\ \A i \in 1 .. Len(page) - 1 : page[i + 1].cursor = page[i].cursor + 1
              /\ \A i \in DOMAIN page : page[i].stream = hub.stream
              /\ requested = NoStream \/ requested = hub.stream

(* A reset is demanded only when the hub cannot resume: a consumer of this *)
(* stream whose next event is still retained, or who has read everything,  *)
(* is always served (events.rs poll_for, the three causes of a reset).     *)
ResumeWhenRetained ==
    \A after \in Cursors, max \in PageSizes :
        /\ after <= hub.next
        /\ after < hub.next => \E i \in DOMAIN hub.events : hub.events[i].cursor = after + 1
        => ~PollFor(hub, hub.stream, after, max).reset
=============================================================================
