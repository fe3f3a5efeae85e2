---------------------------- MODULE EventDelivery ---------------------------
(***************************************************************************)
(* The change stream from the host that publishes it to the consumers that *)
(* resume it, across crashes of the host.                                  *)
(*                                                                         *)
(* Requests run on a thread each: a worker pushes the event of its change  *)
(* (queries.rs observe_change), then writes a checkpoint of the hub to a   *)
(* file of its own and renames it over the shared one                      *)
(* (persist_checkpoint), which may fail.  The three are separate steps,    *)
(* and polls of other threads fall between them.  A host that starts again *)
(* adopts the stream of the checkpoint, or keeps the fresh stream it was   *)
(* constructed with when the toolchain, the roots or the build changed     *)
(* (configure_root_with_discovery_roots).                                  *)
(*                                                                         *)
(* A consumer keeps (stream, cursor) and, on a reset, reconciles with the  *)
(* current state and adopts the stream's high-water mark.  Replies may be  *)
(* lost.                                                                   *)
(***************************************************************************)
EXTENDS Integers, Sequences

CONSTANTS
    Capacity, Uris, Identities, PageSizes,  \* of the hub
    Workers,        \* request threads of the host
    Consumers,      \* clients that resume the stream
    MaxCursor,      \* bound: cursors assigned on one stream
    MaxStarts       \* bound: times the host is started

ASSUME DeliveryAssumption ==
    /\ Capacity \in Nat \ {0}
    /\ MaxStarts \in Nat \ {0}
    /\ PageSizes \subseteq Nat

Unstarted == 0  \* the stream of a consumer that holds none
StreamIds == 1 .. MaxStarts     \* every start of the host mints one

VARIABLES
    hub,        \* the event history of the running host
    up,         \* whether a host runs
    starts,     \* hosts started so far
    pc,         \* per worker: "idle", "pushed" or "encoded"
    snap,       \* per worker: the checkpoint it is about to publish
    saved,      \* the checkpoint file
    at,         \* per consumer: the stream and cursor it holds
    reply,      \* per consumer: the answer on its way, a set of at most one
    log,        \* history: per stream, what its cursors 1, 2, ... stand for
    base,       \* history: per consumer, where it last reconciled
    seen,       \* history: per consumer, the changes it took since
    lost        \* history: consumers that took an event a crash erased

hostVars == <<hub, up, starts, pc, snap, saved, log>>
vars == <<hostVars, at, reply, base, seen, lost>>

Hub == INSTANCE EventHub WITH
          Streams <- StreamIds, NoStream <- Unstarted,
          Checkpoints <- {}, Cursors <- {}

Idle == Hub!NewHub(1)

(* A host that has configured its root has written a first checkpoint.     *)
Init ==
    /\ hub = Hub!NewHub(1)
    /\ up = TRUE
    /\ starts = 1
    /\ pc = [w \in Workers |-> "idle"]
    /\ snap = [w \in Workers |-> Idle]
    /\ saved = hub
    /\ at = [c \in Consumers |-> [stream |-> Unstarted, cursor |-> 0]]
    /\ reply = [c \in Consumers |-> {}]
    /\ log = [s \in StreamIds |-> << >>]
    /\ base = [c \in Consumers |-> 0]
    /\ seen = [c \in Consumers |-> << >>]
    /\ lost = {}

-----------------------------------------------------------------------------
(* The host                                                                *)

(* observe_change, up to the push: the event is visible to every poll.     *)
Publish(w, src) ==
    /\ up
    /\ pc[w] = "idle"
    /\ Hub!Push(src)
    /\ log' = [log EXCEPT ![hub.stream] = Append(@, src)]
    /\ pc' = [pc EXCEPT ![w] = "pushed"]
    /\ UNCHANGED <<up, starts, snap, saved, at, reply, base, seen, lost>>

(* checkpoint_snapshot: stream, high-water and window under the one mutex. *)
Snapshot(w) ==
    /\ up
    /\ pc[w] = "pushed"
    /\ snap' = [snap EXCEPT ![w] = hub]
    /\ pc' = [pc EXCEPT ![w] = "encoded"]
    /\ UNCHANGED <<hub, up, starts, saved, log, at, reply, base, seen, lost>>

(* The rename that publishes a checkpoint; nothing orders it after the     *)
(* rename of another worker that took its snapshot earlier.                *)
Rename(w) ==
    /\ up
    /\ pc[w] = "encoded"
    /\ saved' = snap[w]
    /\ snap' = [snap EXCEPT ![w] = Idle]
    /\ pc' = [pc EXCEPT ![w] = "idle"]
    /\ UNCHANGED <<hub, up, starts, log, at, reply, base, seen, lost>>

(* A checkpoint that cannot be encoded, written or renamed: the request    *)
(* fails, the old file stays, and the event has been pushed all the same.  *)
PersistFails(w) ==
    /\ up
    /\ pc[w] \in {"pushed", "encoded"}
    /\ snap' = [snap EXCEPT ![w] = Idle]
    /\ pc' = [pc EXCEPT ![w] = "idle"]
    /\ UNCHANGED <<hub, up, starts, saved, log, at, reply, base, seen, lost>>

(* A signal, a panic or a power loss: only the renamed file survives.  An  *)
(* answer not read yet is lost with its connection (one that is read after *)
(* the crash could as well have been taken just before it).                *)
Crash ==
    /\ up
    /\ starts < MaxStarts
    /\ up' = FALSE
    /\ pc' = [w \in Workers |-> "idle"]
    /\ snap' = [w \in Workers |-> Idle]
    /\ reply' = [c \in Consumers |-> {}]
    /\ UNCHANGED <<hub, starts, saved, log, at, base, seen, lost>>

(* The consumers that have taken more than a host starts with.             *)
Ahead(start) ==
    {c \in Consumers : at[c].stream = start.stream /\ at[c].cursor > start.next}

RestartKeepsHistory(continuous, changed) ==
    LET start == IF continuous THEN Hub!Restored(saved)
                 ELSE [Hub!NewHub(starts + 1) EXCEPT !.events = saved.events]
        now == IF changed = << >> THEN start ELSE Hub!Pushed(start, changed[1])
    IN  /\ ~up
        /\ now.next <= MaxCursor
        /\ up' = TRUE
        /\ starts' = starts + 1
        /\ hub' = now
        /\ saved' = now
        /\ log' = [log EXCEPT ![start.stream] = SubSeq(@, 1, start.next) \o changed]
        /\ lost' = lost \cup Ahead(start)
        /\ UNCHANGED <<pc, snap, at, reply, base, seen>>

(* A new host: a fresh stream, or the checkpoint's when nothing that gives *)
(* the events their meaning has changed; an event for each document that   *)
(* changed meanwhile (here none or one); a checkpoint; then requests.      *)
Restart(continuous, changed) ==
    LET start == IF continuous THEN Hub!Restored(saved) ELSE Hub!NewHub(starts + 1)
        now == IF changed = << >> THEN start ELSE Hub!Pushed(start, changed[1])
    IN  /\ ~up
        /\ now.next <= MaxCursor
        /\ up' = TRUE
        /\ starts' = starts + 1
        /\ hub' = now
        /\ saved' = now
        /\ log' = [log EXCEPT ![start.stream] = SubSeq(@, 1, start.next) \o changed]
        /\ lost' = lost \cup Ahead(start)
        /\ UNCHANGED <<pc, snap, at, reply, base, seen>>

-----------------------------------------------------------------------------
(* The consumers                                                           *)

Poll(c, max) ==
    /\ up
    /\ reply[c] = {}
    /\ reply' = [reply EXCEPT ![c] =
                   {Hub!PollFor(hub, at[c].stream, at[c].cursor, max)}]
    /\ UNCHANGED <<hostVars, at, base, seen, lost>>

(* The answer is a page of events: take them in order.                     *)
TakePage(c) ==
    \E r \in reply[c] :
        LET n == Len(r.events)
        IN  /\ ~r.reset
            /\ at' = [at EXCEPT ![c] =
                        [stream |-> r.stream,
                         cursor |-> IF n = 0 THEN @.cursor ELSE r.events[n].cursor]]
            /\ seen' = [seen EXCEPT ![c] = @ \o [i \in 1 .. n |-> r.events[i].current]]
            /\ reply' = [reply EXCEPT ![c] = {}]
            /\ UNCHANGED <<hostVars, base, lost>>

(* The answer is a reset: reconcile with the current state, then follow    *)
(* the stream from its high-water mark.                                    *)
Reconcile(c) ==
    \E r \in reply[c] :
        /\ r.reset
        /\ at' = [at EXCEPT ![c] = [stream |-> r.stream, cursor |-> r.current]]
        /\ base' = [base EXCEPT ![c] = r.current]
        /\ seen' = [seen EXCEPT ![c] = << >>]
        /\ lost' = lost \ {c}
        /\ reply' = [reply EXCEPT ![c] = {}]
        /\ UNCHANGED hostVars

LoseReply(c) ==
    /\ reply[c] # {}
    /\ reply' = [reply EXCEPT ![c] = {}]
    /\ UNCHANGED <<hostVars, at, base, seen, lost>>

-----------------------------------------------------------------------------
AtMostOneSource == {<< >>} \cup {<<src>> : src \in Hub!Source}

HostNext ==
    \/ \E w \in Workers, src \in Hub!Source : Publish(w, src)
    \/ \E w \in Workers : Snapshot(w)
    \/ \E w \in Workers : Rename(w)
    \/ \E w \in Workers : PersistFails(w)
    \/ Crash
    \/ \E continuous \in BOOLEAN, changed \in AtMostOneSource :
          Restart(continuous, changed)

ConsumerNext ==
    \/ \E c \in Consumers, max \in PageSizes : Poll(c, max)
    \/ \E c \in Consumers : TakePage(c)
    \/ \E c \in Consumers : Reconcile(c)
    \/ \E c \in Consumers : LoseReply(c)

Next == HostNext \/ ConsumerNext

Spec == Init /\ [][Next]_vars

(* A consumer keeps polling while a host runs, and of the answers it waits *)
(* for some arrive.  Nothing is assumed of the host: it need not publish,  *)
(* and once it is down nobody has to start it.                             *)
Fairness ==
    \A c \in Consumers :
        /\ WF_vars(\E max \in PageSizes : Poll(c, max))
        /\ SF_vars(TakePage(c) \/ Reconcile(c))

FairSpec == Spec /\ Fairness

-----------------------------------------------------------------------------
(* Properties                                                              *)

Answer ==
    [stream : StreamIds, after : Nat, current : Nat, oldest : Nat, reset : BOOLEAN,
     events : Seq(Hub!Event)]

TypeOK ==
    /\ hub \in Hub!HubState /\ saved \in Hub!HubState
    /\ up \in BOOLEAN
    /\ starts \in StreamIds
    /\ pc \in [Workers -> {"idle", "pushed", "encoded"}]
    /\ snap \in [Workers -> Hub!HubState]
    /\ at \in [Consumers -> [stream : StreamIds \cup {Unstarted}, cursor : Nat]]
    /\ reply \in [Consumers -> SUBSET Answer]
    /\ log \in [StreamIds -> Seq(Hub!Source)]
    /\ base \in [Consumers -> Nat]
    /\ seen \in [Consumers -> Seq(Hub!Source)]
    /\ lost \subseteq Consumers

Follows(c) == up /\ at[c].stream = hub.stream

(* What a consumer of the running stream has taken since it last           *)
(* reconciled is exactly what the stream says happened since.              *)
UpToDate(c) ==
    /\ at[c].cursor <= Len(log[hub.stream])
    /\ seen[c] = SubSeq(log[hub.stream], base[c] + 1, at[c].cursor)

(* Independent consumers resume by (stream, cursor) across lost answers,   *)
(* aged-out history and restarts without missing or repeating a change,    *)
(* as long as a crash did not erase an event they had taken.               *)
NoSilentGap == \A c \in Consumers \ lost : Follows(c) => UpToDate(c)

(* The same as one specification: what the host, its threads, crashes and  *)
(* lost answers come to is the abstract stream of changes, in which every  *)
(* consumer reads on where it was and joins anew only for cause (events.rs *)
(* poll_for, queries.rs configure_root).                                   *)
Stream == INSTANCE ChangeStream WITH
    Streams <- StreamIds, NoStream <- Unstarted, Changes <- Hub!Source,
    Bursts <- AtMostOneSource, told <- log, live <- hub.stream, astray <- lost

ImplementsChangeStream == Stream!Spec

(* The same of every consumer: "acknowledged cursors do not replay while   *)
(* unacknowledged retained events remain available"                        *)
(* (docs/ambient-semantic-coherence.md, Identity model).                   *)
NoSilentGapEver == \A c \in Consumers : Follows(c) => UpToDate(c)

(* The checkpoint file always holds a prefix of its stream's history, also *)
(* while workers race to replace it: a restart never invents an event.     *)
CheckpointIsHistory ==
    /\ saved.next <= Len(log[saved.stream])
    /\ \A i \in DOMAIN saved.events :
          LET k == saved.events[i].cursor
          IN  /\ k \in DOMAIN log[saved.stream]
              /\ log[saved.stream][k] = saved.events[i].current

(* Whenever no request is in progress, the checkpoint file is exactly the  *)
(* host's history: what a restart then restores is "the bounded durable    *)
(* event ring and stream continuity" of the host it replaces               *)
(* (docs/ambient-semantic-coherence.md, Identity model).                   *)
QuiescentIsDurable == up /\ (\A w \in Workers : pc[w] = "idle") => saved = hub

(* Every consumer catches up with the host whenever a host stays up: no    *)
(* sequence of resets, short pages and lost answers keeps it from reading  *)
(* to the end.                                                             *)
CatchesUp ==
    \A c \in Consumers :
        (<>[]up) => []<>(Follows(c) /\ at[c].cursor = hub.next)
=============================================================================
