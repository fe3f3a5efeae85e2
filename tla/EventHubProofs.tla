--------------------------- MODULE EventHubProofs ---------------------------
(***************************************************************************)
(* What EventHub promises for every capacity, every set of streams and     *)
(* documents, every checkpoint on disk and every request of a client; and  *)
(* what the capsules read along with a hub tell of it, for any documents,  *)
(* window and interleaving of reads and changes.                           *)
(***************************************************************************)
EXTENDS EventHub, SequenceTheorems, WellFoundedInduction, TLAPS

CONSTANTS UriOrder, WindowPage, MaxVersion, MaxAnswers
VARIABLES capsuleHub, text, cached, pushed, request, known, answers, log

Capsules == INSTANCE Capsule WITH hub <- capsuleHub

(* The strengthening of the window invariant that every step preserves.    *)
IInv == TypeOK /\ WindowInv

-----------------------------------------------------------------------------
(* Lemmas about the operators the hub is built from.                       *)

(* A set of sequence positions that is not empty has a least one.          *)
LEMMA LeastPosition ==
    ASSUME NEW T, T \subseteq Nat, T # {}
    PROVE  \E i \in T : \A j \in T : i <= j
<1>1. IsWellFoundedOn(OpToRel(<, Nat), Nat)
    BY NatLessThanWellFounded
<1>2. PICK i \in T : \A j \in T : ~ (<<j, i>> \in OpToRel(<, Nat))
    BY <1>1, WFMin
<1>3. \A j \in T : ~ (j < i)
    BY <1>2 DEF OpToRel
<1> QED
    BY <1>3

(* If an event lies past the cursor, FirstUnread is the first such one.    *)
LEMMA FirstUnreadIsFirst ==
    ASSUME NEW S, NEW evs \in Seq(S), NEW after \in Nat,
           \E i \in DOMAIN evs : evs[i].cursor > after
    PROVE  /\ FirstUnread(evs, after) \in DOMAIN evs
           /\ evs[FirstUnread(evs, after)].cursor > after
           /\ \A j \in DOMAIN evs :
                 evs[j].cursor > after => FirstUnread(evs, after) <= j
<1> DEFINE T == {i \in DOMAIN evs : evs[i].cursor > after}
<1>1. T \subseteq Nat /\ T # {}
    BY LenProperties
<1>2. PICK i \in T : \A j \in T : i <= j
    BY <1>1, LeastPosition
<1> QED
    BY <1>2 DEF FirstUnread

(* What is kept to make room for one event is a suffix.                    *)
LEMMA KeptSuffix ==
    ASSUME NEW S, NEW evs \in Seq(S)
    PROVE  \E d \in {0, 1} :
              /\ Kept(evs) \in Seq(S)
              /\ Len(Kept(evs)) = Len(evs) - d
              /\ \A i \in 1 .. Len(Kept(evs)) : Kept(evs)[i] = evs[i + d]
              /\ Len(evs) >= Capacity => d = 1
<1>1. CASE Len(evs) >= Capacity
    <2>1. evs # << >>
        BY <1>1, CapacityAssumption
    <2>2. /\ Tail(evs) \in Seq(S)
          /\ Len(Tail(evs)) = Len(evs) - 1
          /\ \A i \in 1 .. Len(Tail(evs)) : Tail(evs)[i] = evs[i + 1]
        BY <2>1, HeadTailProperties
    <2>3. Kept(evs) = Tail(evs)
        BY <1>1 DEF Kept
    <2> QED
        BY <2>2, <2>3
<1>2. CASE ~ (Len(evs) >= Capacity)
    <2>1. Kept(evs) = evs
        BY <1>2 DEF Kept
    <2> QED
        BY <1>2, <2>1, LenProperties
<1> QED
    BY <1>1, <1>2

(* In a window within its bound it leaves room.                            *)
LEMMA KeptProperties ==
    ASSUME NEW evs \in Seq(Event), Len(evs) <= Capacity
    PROVE  /\ Kept(evs) \in Seq(Event)
           /\ Len(Kept(evs)) + 1 <= Capacity
           /\ \E d \in {0, 1} :
                 /\ Len(Kept(evs)) = Len(evs) - d
                 /\ \A i \in 1 .. Len(Kept(evs)) : Kept(evs)[i] = evs[i + d]
BY KeptSuffix, CapacityAssumption, LenProperties

-----------------------------------------------------------------------------
(* The inductive invariant.                                                *)

LEMMA InitIInv == Init => IInv
<1> SUFFICES ASSUME Init
             PROVE  IInv
    OBVIOUS
<1>1. PICK s \in Streams : hub = NewHub(s)
    BY DEF Init
<1>2. hub = [stream |-> s, next |-> 0, events |-> << >>]
    BY <1>1 DEF NewHub
<1>3. TypeOK
    BY <1>2, EmptySeq DEF TypeOK, HubState
<1>4. WindowInv
    BY <1>2, CapacityAssumption DEF WindowInv
<1> QED
    BY <1>3, <1>4 DEF IInv

LEMMA RestoreStreamIInv ==
    ASSUME IInv, NEW s \in Streams, NEW n \in 0 .. MaxCursor, RestoreStream(s, n)
    PROVE  IInv'
<1>1. hub' = [hub EXCEPT !.stream = s, !.next = n] /\ hub.events = << >>
    BY DEF RestoreStream
<1>2. hub \in HubState
    BY DEF IInv, TypeOK
<1>3. hub' = [stream |-> s, next |-> n, events |-> << >>]
    BY <1>1, <1>2 DEF HubState
<1>6. hub' \in HubState /\ hub'.events = << >>
    BY <1>3, EmptySeq, MaxCursorAssumption DEF HubState
<1>4. TypeOK'
    BY <1>6 DEF TypeOK
<1>5. WindowInv'
    BY <1>6, CapacityAssumption DEF WindowInv
<1> QED
    BY <1>4, <1>5 DEF IInv

LEMMA RestoreCheckpointIInv ==
    ASSUME NEW c \in Checkpoints, RestoreCheckpoint(c)
    PROVE  IInv'
<1>1. c \in HubState
    BY CheckpointAssumption
<1>2. hub' = Restored(c)
    BY DEF RestoreCheckpoint
<1>3. CASE ConsistentWindow(c)
    <2>1. hub' = c
        BY <1>2, <1>3 DEF Restored
    <2> QED
        BY <1>1, <1>3, <2>1 DEF IInv, TypeOK, WindowInv, ConsistentWindow
<1>4. CASE ~ ConsistentWindow(c)
    <2>1. hub' = [c EXCEPT !.events = << >>]
        BY <1>2, <1>4 DEF Restored
    <2>2. hub' \in HubState /\ hub'.events = << >>
        BY <1>1, <2>1, EmptySeq DEF HubState
    <2> QED
        BY <2>2, CapacityAssumption DEF IInv, TypeOK, WindowInv
<1> QED
    BY <1>3, <1>4

LEMMA PushIInv ==
    ASSUME IInv, NEW src \in Source, Push(src)
    PROVE  IInv'
<1> DEFINE kept == Kept(hub.events)
           e == [stream |-> hub.stream, cursor |-> hub.next + 1, current |-> src]
<1>1. /\ hub \in HubState
      /\ hub.stream \in Streams
      /\ hub.next \in Nat
      /\ hub.events \in Seq(Event)
      /\ Len(hub.events) \in Nat
    BY LenProperties DEF IInv, TypeOK, HubState
<1>2. hub' = [hub EXCEPT !.next = hub.next + 1, !.events = Append(kept, e)]
    BY DEF Push, Pushed
<1>3. e \in Event
    BY <1>1 DEF Event
<1>4. /\ kept \in Seq(Event)
      /\ Len(kept) \in Nat
      /\ Len(kept) + 1 <= Capacity
      /\ \E d \in {0, 1} :
            /\ Len(kept) = Len(hub.events) - d
            /\ \A i \in 1 .. Len(kept) : kept[i] = hub.events[i + d]
    BY <1>1, KeptProperties, LenProperties DEF IInv, WindowInv
<1>5. PICK d \in {0, 1} :
            /\ Len(kept) = Len(hub.events) - d
            /\ \A i \in 1 .. Len(kept) : kept[i] = hub.events[i + d]
    BY <1>4
<1> DEFINE evs == Append(kept, e)
<1> HIDE DEF kept, e
<1>6. /\ evs \in Seq(Event)
      /\ Len(evs) = Len(kept) + 1
      /\ \A i \in 1 .. Len(kept) : evs[i] = kept[i]
      /\ evs[Len(kept) + 1] = e
      /\ DOMAIN evs = 1 .. Len(kept) + 1
    BY <1>3, <1>4, AppendProperties, LenProperties
<1> HIDE DEF evs
<1>7. /\ hub' \in HubState
      /\ hub'.stream = hub.stream
      /\ hub'.next = hub.next + 1
      /\ hub'.events = evs
    <2>1. hub' = [stream |-> hub.stream, next |-> hub.next + 1, events |-> evs]
        BY <1>1, <1>2 DEF HubState, evs
    <2> QED
        BY <1>1, <1>6, <2>1 DEF HubState
<1>8. \A i \in DOMAIN hub.events :
          hub.events[i].stream = hub.stream /\ hub.events[i].cursor <= hub.next
    BY DEF IInv, WindowInv
<1>9. \A i \in 1 .. Len(kept) : i + d \in DOMAIN hub.events
    BY <1>1, <1>4, <1>5, LenProperties
<1>10. e.stream = hub.stream /\ e.cursor = hub.next + 1
    BY DEF e
<1>a. \A i \in DOMAIN hub.events : hub.events[i].cursor \in Nat
    <2>1. \A i \in DOMAIN hub.events : hub.events[i] \in Event
        BY <1>1, ElementOfSeq, LenProperties
    <2> QED
        BY <2>1 DEF Event
<1>11. \A i \in DOMAIN evs :
          evs[i].stream = hub.stream /\ evs[i].cursor <= hub.next + 1
    <2> SUFFICES ASSUME NEW i \in DOMAIN evs
                 PROVE  evs[i].stream = hub.stream /\ evs[i].cursor <= hub.next + 1
        OBVIOUS
    <2>1. CASE i \in 1 .. Len(kept)
        <3>1. evs[i] = hub.events[i + d] /\ i + d \in DOMAIN hub.events
            BY <1>5, <1>6, <1>9, <2>1
        <3> QED
            BY <1>1, <1>8, <1>a, <3>1
    <2>2. CASE i = Len(kept) + 1
        BY <1>1, <1>6, <1>10, <2>2
    <2> QED
        BY <1>4, <1>6, <2>1, <2>2
<1>12. \A i \in 1 .. Len(evs) - 1 : evs[i + 1].cursor = evs[i].cursor + 1
    <2> SUFFICES ASSUME NEW i \in 1 .. Len(evs) - 1
                 PROVE  evs[i + 1].cursor = evs[i].cursor + 1
        OBVIOUS
    <2>0. i \in 1 .. Len(kept) /\ evs[i] = hub.events[i + d]
        BY <1>4, <1>5, <1>6
    <2>1. CASE i + 1 \in 1 .. Len(kept)
        <3>0. evs[i + 1] = kept[i + 1] /\ kept[i + 1] = hub.events[(i + 1) + d]
            BY <1>5, <1>6, <2>1
        <3>1. evs[i + 1] = hub.events[i + d + 1]
            <4>0. i \in Int /\ d \in Int
                BY <1>4, <1>5
            <4>1. (i + 1) + d = i + d + 1
                BY <4>0, SMTT(20)
            <4> QED
                BY <3>0, <4>1
        <3>2. i + d \in 1 .. Len(hub.events) - 1
            <4>1. Len(kept) \in Nat /\ Len(kept) = Len(hub.events) - d
                BY <1>4, <1>5
            <4>2. Len(hub.events) \in Nat /\ i \in Int /\ i >= 1 /\ i + 1 <= Len(kept)
                BY <1>1, <2>1, <4>1
            <4> QED
                BY <4>1, <4>2
        <3> QED
            BY <2>0, <3>1, <3>2 DEF IInv, WindowInv
    <2>2. CASE i = Len(kept)
        <3>1. evs[i + 1] = e
            BY <1>6, <2>2
        <3>2. i + d = Len(hub.events) /\ hub.events # << >>
            BY <1>1, <1>4, <1>5, <2>0, <2>2, EmptySeq
        <3>3. hub.events[i + d].cursor = hub.next
            BY <3>2 DEF IInv, WindowInv
        <3> QED
            BY <1>10, <2>0, <3>1, <3>3
    <2> QED
        BY <1>4, <2>0, <2>1, <2>2
<1>13. Len(evs) <= Capacity /\ evs[Len(evs)].cursor = hub.next + 1
    BY <1>4, <1>6, <1>10
<1> QED
    BY <1>7, <1>11, <1>12, <1>13 DEF IInv, TypeOK, WindowInv

LEMMA NextIInv == IInv /\ [Next]_hub => IInv'
<1> SUFFICES ASSUME IInv, [Next]_hub
             PROVE  IInv'
    OBVIOUS
<1>1. CASE \E s \in Streams, n \in 0 .. MaxCursor : RestoreStream(s, n)
    BY <1>1, RestoreStreamIInv
<1>2. CASE \E c \in Checkpoints : RestoreCheckpoint(c)
    BY <1>2, RestoreCheckpointIInv
<1>3. CASE \E src \in Source : Push(src)
    BY <1>3, PushIInv
<1>4. CASE UNCHANGED hub
    BY <1>4 DEF IInv, TypeOK, WindowInv
<1> QED
    BY <1>1, <1>2, <1>3, <1>4 DEF Next

LEMMA SpecIInv == Spec => []IInv
<1> QED
    BY InitIInv, NextIInv, PTL DEF Spec

(* The hub always is a hub.                                                *)
THEOREM HubTypeCorrect == Spec => []TypeOK
<1>1. IInv => TypeOK
    BY DEF IInv
<1> QED
    BY <1>1, SpecIInv, PTL

(* The retained history is gap-free, of one stream, bounded and up to the  *)
(* high-water, in every reachable state (events.rs push,                   *)
(* restore_checkpoint).                                                    *)
THEOREM HubWindowInvariant == Spec => []WindowInv
<1>1. IInv => WindowInv
    BY DEF IInv
<1> QED
    BY <1>1, SpecIInv, PTL

-----------------------------------------------------------------------------
(* Polling a hub that satisfies the invariant.                             *)

(* The page of an unreset poll: the unread suffix of the window, cut at    *)
(* the page size.                                                          *)
LEMMA PageIsNextRun ==
    ASSUME IInv, NEW after \in Nat, NEW size \in Nat \ {0},
           ~ (after > hub.next),
           ~ (after + 1 < Oldest(hub) /\ after < hub.next)
    PROVE  LET page == Page(hub.events, after, size)
           IN  /\ page = << >> <=> after = hub.next
               /\ page # << >> => page[1].cursor = after + 1
               /\ \A i \in 1 .. Len(page) - 1 : page[i + 1].cursor = page[i].cursor + 1
               /\ \A i \in DOMAIN page : page[i].stream = hub.stream
<1> DEFINE evs == hub.events
           page == Page(evs, after, size)
<1>1. /\ hub.next \in Nat
      /\ evs \in Seq(Event)
      /\ Len(evs) \in Nat
      /\ DOMAIN evs = 1 .. Len(evs)
      /\ \A i \in DOMAIN evs : evs[i] \in Event
    BY ElementOfSeq, LenProperties DEF IInv, TypeOK, HubState
<1>2. \A i \in DOMAIN evs : evs[i].cursor \in Nat
    BY <1>1 DEF Event
<1>3. /\ \A i \in DOMAIN evs : evs[i].stream = hub.stream /\ evs[i].cursor <= hub.next
      /\ \A i \in 1 .. Len(evs) - 1 : evs[i + 1].cursor = evs[i].cursor + 1
      /\ evs # << >> => evs[Len(evs)].cursor = hub.next
    BY DEF IInv, WindowInv
<1>4. CASE ~ \E i \in DOMAIN evs : evs[i].cursor > after
    <2>1. page = << >>
        BY <1>4 DEF Page
    <2>2. after = hub.next
        <3>1. CASE evs = << >>
            <4>1. Oldest(hub) = hub.next + 1
                BY <3>1 DEF Oldest
            <4> QED
                BY <1>1, <4>1
        <3>2. CASE evs # << >>
            <4>1. Len(evs) \in DOMAIN evs
                BY <1>1, <3>2, EmptySeq
            <4>2. ~ (hub.next > after)
                BY <1>3, <1>4, <3>2, <4>1
            <4> QED
                BY <1>1, <4>2
        <3> QED
            BY <3>1, <3>2
    <2> QED
        BY <2>1, <2>2
<1>5. CASE \E i \in DOMAIN evs : evs[i].cursor > after
    <2> DEFINE first == FirstUnread(evs, after)
               last == IF first + size - 1 < Len(evs) THEN first + size - 1 ELSE Len(evs)
    <2>1. /\ first \in DOMAIN evs
          /\ evs[first].cursor > after
          /\ \A j \in DOMAIN evs : evs[j].cursor > after => first <= j
        BY <1>1, <1>5, FirstUnreadIsFirst
    <2>2. page = SubSeq(evs, first, last)
        BY <1>5 DEF Page
    <2> HIDE DEF first
    <2>3. last \in first .. Len(evs)
        BY <1>1, <2>1
    <2> HIDE DEF last, page
    <2>4. \A i \in first .. last : evs[i] \in Event
        BY <1>1, <2>1, <2>3
    <2>5. /\ page \in Seq(Event)
          /\ Len(page) = last - first + 1
          /\ \A i \in 1 .. last - first + 1 : page[i] = evs[first + i - 1]
        BY <1>1, <2>1, <2>2, <2>3, <2>4, SubSeqProperties, SMTT(40)
    <2>6. evs[first].cursor = after + 1
        <3>1. CASE first = 1
            <4>1. evs # << >>
                BY <1>1, <2>1, EmptySeq
            <4>2. Oldest(hub) = evs[first].cursor
                BY <3>1, <4>1 DEF Oldest
            <4>3. after < hub.next
                BY <1>1, <1>2, <1>3, <2>1
            <4> QED
                BY <1>1, <1>2, <2>1, <4>2, <4>3
        <3>2. CASE first # 1
            <4>1. first - 1 \in 1 .. Len(evs) - 1 /\ first - 1 \in DOMAIN evs
                BY <1>1, <2>1, <3>2
            <4>2. evs[(first - 1) + 1].cursor = evs[first - 1].cursor + 1
                BY <1>3, <4>1
            <4>3. ~ (evs[first - 1].cursor > after)
                BY <1>1, <2>1, <4>1
            <4>4. (first - 1) + 1 = first
                BY <1>1, <2>1
            <4> QED
                BY <1>2, <2>1, <4>1, <4>2, <4>3, <4>4
        <3> QED
            BY <3>1, <3>2
    <2>7. page # << >> /\ after # hub.next
        <3>1. Len(page) # 0
            BY <1>1, <2>1, <2>3, <2>5
        <3> QED
            BY <1>1, <1>2, <1>3, <2>1, <3>1, EmptySeq
    <2>8. page[1].cursor = after + 1
        <3>1. 1 \in 1 .. last - first + 1 /\ first + 1 - 1 = first
            BY <1>1, <2>1, <2>3
        <3> QED
            BY <2>5, <2>6, <3>1
    <2>9. ASSUME NEW i \in 1 .. Len(page) - 1
          PROVE  page[i + 1].cursor = page[i].cursor + 1
        <3> DEFINE k == first + i - 1
        <3>0. /\ first \in Int /\ last \in Int /\ first >= 1 /\ last <= Len(evs)
              /\ i \in Int /\ 1 <= i /\ i <= last - first
            BY <1>1, <2>1, <2>3, <2>5
        <3>1. /\ i \in 1 .. last - first + 1
              /\ i + 1 \in 1 .. last - first + 1
              /\ first + (i + 1) - 1 = k + 1
              /\ k \in 1 .. Len(evs) - 1
            BY <1>1, <3>0
        <3>2. page[i] = evs[k] /\ page[i + 1] = evs[k + 1]
            BY <2>5, <3>1
        <3> QED
            BY <1>3, <3>1, <3>2
    <2>10. ASSUME NEW i \in DOMAIN page
           PROVE  page[i].stream = hub.stream
        <3>1. i \in 1 .. last - first + 1
            BY <2>5, LenProperties
        <3>2. first + i - 1 \in DOMAIN evs
            BY <1>1, <2>1, <2>3, <3>1
        <3> QED
            BY <1>3, <2>5, <3>1, <3>2
    <2> QED
        BY <2>7, <2>8, <2>9, <2>10 DEF page
<1> QED
    BY <1>4, <1>5

(* What the hub may answer, from the invariant alone.                      *)
LEMMA IInvPollExact == IInv => PollExact
<1> SUFFICES ASSUME IInv,
                    NEW requested \in Streams \cup {NoStream},
                    NEW after \in Cursors,
                    NEW max \in PageSizes,
                    ~ PollFor(hub, requested, after, max).reset
             PROVE  LET page == PollFor(hub, requested, after, max).events
                    IN  /\ page = << >> <=> after = hub.next
                        /\ page # << >> => page[1].cursor = after + 1
                        /\ \A i \in 1 .. Len(page) - 1 :
                              page[i + 1].cursor = page[i].cursor + 1
                        /\ \A i \in DOMAIN page : page[i].stream = hub.stream
                        /\ requested = NoStream \/ requested = hub.stream
    BY DEF PollExact
<1>1. after \in Nat /\ max \in Nat
    BY RequestAssumption
<1>2. ~ ResetRequired(hub, requested, after)
    BY DEF PollFor
<1>3. PollFor(hub, requested, after, max).events = Page(hub.events, after, PageSize(max))
    BY <1>2 DEF PollFor
<1>4. PageSize(max) \in Nat \ {0}
    BY <1>1 DEF PageSize
<1>5. /\ ~ StreamMismatch(hub, requested, after)
      /\ ~ (after > hub.next)
      /\ ~ (after + 1 < Oldest(hub) /\ after < hub.next)
    BY <1>2 DEF ResetRequired
<1>6. requested = NoStream \/ requested = hub.stream
    BY <1>5 DEF StreamMismatch
<1> DEFINE page == PollFor(hub, requested, after, max).events
<1>7. /\ page = << >> <=> after = hub.next
      /\ page # << >> => page[1].cursor = after + 1
      /\ \A i \in 1 .. Len(page) - 1 : page[i + 1].cursor = page[i].cursor + 1
      /\ \A i \in DOMAIN page : page[i].stream = hub.stream
    <2>1. LET run == Page(hub.events, after, PageSize(max))
          IN  /\ run = << >> <=> after = hub.next
              /\ run # << >> => run[1].cursor = after + 1
              /\ \A i \in 1 .. Len(run) - 1 : run[i + 1].cursor = run[i].cursor + 1
              /\ \A i \in DOMAIN run : run[i].stream = hub.stream
        BY <1>1, <1>4, <1>5, PageIsNextRun
    <2>2. page = Page(hub.events, after, PageSize(max))
        BY <1>3
    <2> HIDE DEF page
    <2> QED
        BY <2>1, <2>2
<1> HIDE DEF page
<1> QED
    BY <1>6, <1>7 DEF page

(* A poll that is not reset answers with exactly the events that follow    *)
(* the cursor: no event is skipped or repeated, for every capacity, every  *)
(* checkpoint that was restored and every request (events.rs poll_for).    *)
THEOREM HubPollExact == Spec => []PollExact
<1> QED
    BY IInvPollExact, SpecIInv, PTL

(* Cursors grow along the window: the first retained event is the oldest.  *)
LEMMA OldestIsLeast ==
    ASSUME IInv, NEW i \in DOMAIN hub.events
    PROVE  hub.events[1].cursor <= hub.events[i].cursor
<1> DEFINE evs == hub.events
           T == {j \in DOMAIN evs : evs[j].cursor < evs[1].cursor}
<1>1. /\ evs \in Seq(Event)
      /\ Len(evs) \in Nat
      /\ DOMAIN evs = 1 .. Len(evs)
      /\ \A j \in DOMAIN evs : evs[j] \in Event
    BY ElementOfSeq, LenProperties DEF IInv, TypeOK, HubState
<1>2. \A j \in DOMAIN evs : evs[j].cursor \in Nat
    BY <1>1 DEF Event
<1>3. T = {}
    <2> SUFFICES ASSUME T # {}
                 PROVE  FALSE
        OBVIOUS
    <2>1. T \subseteq Nat
        BY <1>1
    <2>2. PICK j \in T : \A k \in T : j <= k
        BY <2>1, LeastPosition
    <2>3. j \in DOMAIN evs /\ evs[j].cursor < evs[1].cursor /\ 1 \in DOMAIN evs
        BY <1>1
    <2>4. j # 1
        BY <1>2, <2>3
    <2>5. j - 1 \in 1 .. Len(evs) - 1 /\ (j - 1) + 1 = j /\ j - 1 \in DOMAIN evs
        BY <1>1, <2>3, <2>4
    <2>6. evs[(j - 1) + 1].cursor = evs[j - 1].cursor + 1
        BY <2>5 DEF IInv, WindowInv
    <2>7. evs[j - 1].cursor < evs[1].cursor
        BY <1>2, <2>3, <2>5, <2>6
    <2>8. j - 1 \in T
        BY <2>5, <2>7
    <2> QED
        BY <1>1, <2>2, <2>3, <2>8
<1>4. i \in DOMAIN evs /\ 1 \in DOMAIN evs
    BY <1>1
<1> QED
    BY <1>2, <1>3, <1>4

LEMMA IInvResume == IInv => ResumeWhenRetained
<1> SUFFICES ASSUME IInv, NEW after \in Cursors, NEW max \in PageSizes,
                    after <= hub.next,
                    after < hub.next =>
                        \E i \in DOMAIN hub.events : hub.events[i].cursor = after + 1
             PROVE  ~ PollFor(hub, hub.stream, after, max).reset
    BY DEF ResumeWhenRetained
<1>1. /\ hub.next \in Nat
      /\ hub.stream # NoStream
      /\ hub.events \in Seq(Event)
      /\ DOMAIN hub.events = 1 .. Len(hub.events)
      /\ after \in Nat
    BY RequestAssumption, StreamAssumption, LenProperties DEF IInv, TypeOK, HubState
<1>2. ~ StreamMismatch(hub, hub.stream, after)
    BY <1>1 DEF StreamMismatch
<1>3. ~ (after > hub.next)
    BY <1>1
<1>4. ~ (after + 1 < Oldest(hub) /\ after < hub.next)
    <2> SUFFICES ASSUME after < hub.next
                 PROVE  ~ (after + 1 < Oldest(hub))
        OBVIOUS
    <2>1. PICK i \in DOMAIN hub.events : hub.events[i].cursor = after + 1
        OBVIOUS
    <2>2. hub.events # << >>
        BY <1>1, <2>1, EmptySeq
    <2>3. Oldest(hub) = hub.events[1].cursor
        BY <2>2 DEF Oldest
    <2>4. hub.events[1].cursor <= hub.events[i].cursor
        BY OldestIsLeast
    <2>5. hub.events[1].cursor \in Nat
        <3>1. 1 \in DOMAIN hub.events
            BY <1>1, <2>2, EmptySeq
        <3>2. hub.events[1] \in Event
            BY <1>1, <3>1, ElementOfSeq
        <3> QED
            BY <3>2 DEF Event
    <2> QED
        BY <1>1, <2>1, <2>3, <2>4, <2>5
<1>5. ~ ResetRequired(hub, hub.stream, after)
    BY <1>2, <1>3, <1>4 DEF ResetRequired
<1> QED
    BY <1>5 DEF PollFor
(* No spurious reset: a consumer of this stream whose next event is still  *)
(* retained is always served (events.rs poll_for).                         *)
THEOREM HubResume == Spec => []ResumeWhenRetained
<1> QED
    BY IInvResume, SpecIInv, PTL

-----------------------------------------------------------------------------
(* Capsules                                                                 *)

(* What a retained event and the log tell of a change, and what a request   *)
(* is made of.                                                              *)
Told == [uri : Capsules!Documents, identity : Nat]
CapsuleEvent == [stream : Streams, cursor : Nat, current : Told]
RequestFields ==
    {"step", "stream", "current", "window", "matched", "todo", "diagnostics", "obligations"}

CapsuleTyped ==
    /\ capsuleHub \in [stream : Streams, next : Nat, events : Seq(CapsuleEvent)]
    /\ log \in Seq(Told)
    /\ text \in [Capsules!Documents -> Nat] /\ pushed \in [Capsules!Documents -> Nat]
    /\ DOMAIN request = RequestFields
    /\ request.diagnostics \in [Capsules!Documents -> Int]
    /\ request.current \in Nat
    /\ known.cursor \in Nat
    /\ request.step = "idle" => request = Capsules!Idle

(* The retained events are the last of the log, cursor by cursor, and a     *)
(* document has moved on at least as far as the log says.                   *)
Tells(evs, next, told) ==
    /\ Len(told) <= next
    /\ Len(evs) <= Len(told)
    /\ \A i \in DOMAIN evs :
          /\ evs[i].cursor = next - Len(evs) + i
          /\ evs[i].current = told[Len(told) - Len(evs) + i]

HubTellsLog == Tells(capsuleHub.events, capsuleHub.next, log)

TextsAhead ==
    /\ \A i \in DOMAIN log : log[i].identity <= pushed[log[i].uri]
    /\ \A u \in Capsules!Documents : pushed[u] <= text[u]

(* The cursor of a log entry.                                               *)
LogCursor(i) == capsuleHub.next - Len(log) + i

Started == request.step \in {"cursor", "window", "diagnostics", "obligations"}
Walking == request.step \in {"diagnostics", "obligations"}
OfStream == Started /\ request.stream = capsuleHub.stream

(* The stream is changed at most once, before anything is counted on it; so *)
(* whoever names the hub's stream holds a cursor of it.                     *)
CursorsOfStream ==
    /\ known.stream = capsuleHub.stream => known.cursor <= capsuleHub.next
    /\ OfStream => request.current <= capsuleHub.next
    /\ capsuleHub.next = 0 =>
          /\ known.stream \in {NoStream, capsuleHub.stream}
          /\ Started => request.stream = capsuleHub.stream

(* The walk comes after the cursor: what it has taken of a document is no   *)
(* older than any change up to the cursor.                                  *)
WalkCovers ==
    /\ request.step \in {"cursor", "window"} => request.diagnostics = Capsules!Nothing
    /\ Walking /\ OfStream =>
          \A i \in DOMAIN log :
              /\ LogCursor(i) <= request.current
              /\ request.diagnostics[log[i].uri] # Capsules!Unread
              => log[i].identity <= request.diagnostics[log[i].uri]

(* The window comes after the cursor: it holds every change between the     *)
(* consumer's cursor and the new one that one window has room for.          *)
WindowCovers ==
    Walking /\ OfStream /\ request.matched /\ request.current - known.cursor <= WindowPage =>
        \A i \in DOMAIN log :
            known.cursor < LogCursor(i) /\ LogCursor(i) <= request.current =>
                log[i] \in request.window

CapsuleInv ==
    /\ CapsuleTyped /\ HubTellsLog /\ TextsAhead
    /\ CursorsOfStream /\ WalkCovers /\ WindowCovers

-----------------------------------------------------------------------------
(* The hub of a capsule is a hub.                                           *)

LEMMA SamePushed == \A h, src : Capsules!Hub!Pushed(h, src) = Pushed(h, src)
  BY DEF Capsules!Hub!Pushed, Pushed, Capsules!Hub!Kept, Kept

LEMMA SamePollFor ==
    \A h, requested, after, max :
        Capsules!Hub!PollFor(h, requested, after, max) = PollFor(h, requested, after, max)
  BY DEF Capsules!Hub!PollFor, PollFor, Capsules!Hub!ResetRequired, ResetRequired,
         Capsules!Hub!Oldest, Oldest, Capsules!Hub!StreamMismatch, StreamMismatch,
         Capsules!Hub!Page, Page, Capsules!Hub!PageSize, PageSize,
         Capsules!Hub!FirstUnread, FirstUnread

(* A window whose cursors count up to the high-water, read after a cursor   *)
(* that it reaches back to: the page then holds every event after the       *)
(* cursor that it has room for.                                             *)
PageReaches(next, evs, told, after, size, c) ==
    /\ next \in Nat /\ evs \in Seq(CapsuleEvent) /\ told \in Seq(Told)
    /\ Tells(evs, next, told)
    /\ after \in Nat /\ size \in Nat \ {0}
    /\ evs # << >> /\ evs[1].cursor <= after + 1
    /\ c \in Nat /\ after < c /\ c <= next /\ c <= after + size

LEMMA PageHolds ==
    ASSUME NEW next, NEW evs, NEW told, NEW after, NEW size, NEW c,
           PageReaches(next, evs, told, after, size, c)
    PROVE  \E k \in DOMAIN Page(evs, after, size) :
              Page(evs, after, size)[k].current = told[c - next + Len(told)]
  <1>0. /\ next \in Nat /\ evs \in Seq(CapsuleEvent) /\ told \in Seq(Told)
        /\ Tells(evs, next, told)
        /\ after \in Nat /\ size \in Nat \ {0}
        /\ evs # << >> /\ evs[1].cursor <= after + 1
        /\ c \in Nat /\ after < c /\ c <= next /\ c <= after + size
    BY DEF PageReaches
  <1> USE <1>0
  <1> DEFINE n == Len(evs)
             p == after + 1 - next + n
  <1>1. /\ n \in Nat /\ DOMAIN evs = 1 .. n
        /\ Len(told) \in Nat
    BY LenProperties
  <1>a. \A i \in DOMAIN evs : evs[i].cursor = next - n + i
    BY DEF Tells
  <1>b. \A i \in DOMAIN evs : evs[i].current = told[Len(told) - n + i]
    BY DEF Tells
  <1>2. after < next
    OBVIOUS
  <1>4. 1 \in DOMAIN evs
    BY <1>1, EmptySeq
  <1>5. next - n + 1 <= after + 1
    <2>1. evs[1].cursor = next - n + 1
      BY <1>4, <1>a
    <2> QED BY <1>1, <2>1
  <1>6. p \in 1 .. n /\ evs[p].cursor = after + 1
    <2>1. p \in 1 .. n
      BY <1>1, <1>2, <1>5
    <2>2. evs[p].cursor = next - n + p
      BY <1>1, <1>a, <2>1
    <2> QED BY <1>1, <2>1, <2>2
  <1> DEFINE first == FirstUnread(evs, after)
  <1>7. first = p
    <2>1. \E i \in DOMAIN evs : evs[i].cursor > after
      <3>1. evs[p].cursor > after
        BY <1>6
      <3> QED BY <1>1, <1>6, <3>1
    <2>2. /\ first \in DOMAIN evs
          /\ evs[first].cursor > after
          /\ \A j \in DOMAIN evs : evs[j].cursor > after => first <= j
      BY <2>1, FirstUnreadIsFirst
    <2> HIDE DEF first
    <2>3. evs[first].cursor = next - n + first
      BY <1>a, <2>2
    <2>4. first <= p
      <3>1. p \in DOMAIN evs /\ evs[p].cursor > after
        BY <1>1, <1>6
      <3> QED BY <2>2, <3>1
    <2> QED BY <1>1, <1>6, <2>2, <2>3, <2>4
  <1> DEFINE last == IF p + size - 1 < n THEN p + size - 1 ELSE n
             page == SubSeq(evs, p, last)
  <1>8. Page(evs, after, size) = page
    <2>1. \E i \in DOMAIN evs : evs[i].cursor > after
      <3>1. evs[p].cursor > after
        BY <1>6
      <3> QED BY <1>1, <1>6, <3>1
    <2> QED BY <1>7, <2>1 DEF Page
  <1> HIDE DEF first
  <1>9. p \in 1 .. n /\ last \in p .. n
    BY <1>1, <1>6
  <1>10. /\ DOMAIN page = 1 .. last - p + 1
         /\ \A k \in 1 .. last - p + 1 : page[k] = evs[p + k - 1]
    <2> HIDE DEF p, last
    <2>1. \A i \in p .. last : evs[i] \in CapsuleEvent
      BY <1>1, <1>9, ElementOfSeq
    <2>2. /\ page \in Seq(CapsuleEvent)
          /\ Len(page) = last - p + 1
          /\ \A k \in 1 .. last - p + 1 : page[k] = evs[p + k - 1]
      BY <1>1, <1>9, <2>1, SubSeqProperties, SMTT(40)
    <2> QED BY <2>2, LenProperties
  <1>11. c - after \in 1 .. last - p + 1 /\ p + (c - after) - 1 = c - next + n
    <2>1. n - p + 1 = next - after /\ p + (c - after) - 1 = c - next + n
      BY <1>1
    <2>2. CASE p + size - 1 < n
      BY <1>1, <1>9, <2>1, <2>2
    <2>3. CASE ~ (p + size - 1 < n)
      BY <1>1, <1>9, <2>1, <2>3
    <2> QED BY <2>2, <2>3
  <1>12. /\ c - next + n \in DOMAIN evs
         /\ Len(told) - n + (c - next + n) = c - next + Len(told)
    BY <1>1, <1>6
  <1>13. evs[c - next + n].current = told[c - next + Len(told)]
    BY <1>12, <1>b
  <1> HIDE DEF page, p, last
  <1> QED BY <1>8, <1>10, <1>11, <1>13

-----------------------------------------------------------------------------
(* The capsule's invariant.                                                 *)

LEMMA InitCapsule == Capsules!Init => CapsuleInv
  <1> SUFFICES ASSUME Capsules!Init PROVE CapsuleInv
    OBVIOUS
  <1>1. PICK s \in Streams : capsuleHub = [stream |-> s, next |-> 0, events |-> << >>]
    BY DEF Capsules!Init, Capsules!Hub!NewHub
  <1>2. << >> \in Seq(CapsuleEvent) /\ << >> \in Seq(Told) /\ Len(<< >>) = 0 /\ DOMAIN << >> = {}
    BY EmptySeq
  <1>3. CapsuleTyped
    BY <1>1, <1>2
    DEF Capsules!Init, CapsuleTyped, Capsules!Idle, Capsules!Nothing, Capsules!Unread,
        RequestFields
  <1>4. HubTellsLog /\ TextsAhead
    BY <1>1, <1>2 DEF Capsules!Init, HubTellsLog, Tells, TextsAhead
  <1>5. request.step = "idle"
    BY DEF Capsules!Init, Capsules!Idle
  <1>6. CursorsOfStream /\ WalkCovers /\ WindowCovers
    BY <1>1, <1>5 DEF Capsules!Init, CursorsOfStream, WalkCovers, WindowCovers, Started, Walking,
                      OfStream
  <1> QED BY <1>3, <1>4, <1>6 DEF CapsuleInv

LEMMA LogTold ==
    ASSUME CapsuleInv, NEW i \in DOMAIN log
    PROVE  log[i].uri \in Capsules!Documents /\ log[i].identity \in Nat
  <1>1. log \in Seq(Told)
    BY DEF CapsuleInv, CapsuleTyped
  <1>2. log[i] \in Told
    BY <1>1, ElementOfSeq, LenProperties
  <1> QED BY <1>2 DEF Told

(* Nothing but the texts changes.                                           *)
LEMMA ChangeCapsule ==
    ASSUME CapsuleInv, NEW u \in Capsules!Documents, Capsules!Change(u)
    PROVE  CapsuleInv'
  <1>1. /\ text' = [text EXCEPT ![u] = @ + 1]
        /\ UNCHANGED <<capsuleHub, cached, pushed, log, request, known>>
    BY DEF Capsules!Change
  <1>2. text' \in [Capsules!Documents -> Nat] /\ \A d \in Capsules!Documents : text[d] <= text'[d]
    BY <1>1 DEF CapsuleInv, CapsuleTyped
  <1>3. CapsuleTyped'
    BY <1>1, <1>2 DEF CapsuleInv, CapsuleTyped
  <1>4. HubTellsLog' /\ CursorsOfStream' /\ WalkCovers' /\ WindowCovers'
    BY <1>1 DEF CapsuleInv, HubTellsLog, CursorsOfStream, WalkCovers, WindowCovers, Started,
                Walking, OfStream, LogCursor
  <1>5. TextsAhead'
    BY <1>1, <1>2 DEF CapsuleInv, TextsAhead, CapsuleTyped
  <1> QED BY <1>3, <1>4, <1>5 DEF CapsuleInv

(* Nothing of what the invariant speaks of changes.                         *)
LEMMA QuietCapsule ==
    ASSUME CapsuleInv, UNCHANGED <<capsuleHub, text, pushed, log, request, known>>
    PROVE  CapsuleInv'
  BY DEF CapsuleInv, CapsuleTyped, HubTellsLog, Tells, TextsAhead, CursorsOfStream, WalkCovers,
         WindowCovers, Started, Walking, OfStream, LogCursor

LEMMA ConfigureCapsule ==
    ASSUME CapsuleInv, NEW s \in Streams, NEW n \in 1 .. 2, Capsules!Configure(s, n)
    PROVE  CapsuleInv'
  <1>1. /\ s # capsuleHub.stream /\ capsuleHub.next = 0 /\ capsuleHub.events = << >>
        /\ capsuleHub' = [capsuleHub EXCEPT !.stream = s, !.next = n]
        /\ UNCHANGED <<text, cached, pushed, log, request, known>>
    BY DEF Capsules!Configure, Capsules!Hub!RestoreStream
  <1>2. /\ capsuleHub'.stream = s /\ capsuleHub'.next = n /\ capsuleHub'.events = << >>
        /\ capsuleHub' \in [stream : Streams, next : Nat, events : Seq(CapsuleEvent)]
    <2>1. capsuleHub' = [stream |-> s, next |-> n, events |-> << >>]
      BY <1>1 DEF CapsuleInv, CapsuleTyped
    <2> QED BY <2>1, EmptySeq
  <1>3. log = << >> /\ Len(log) = 0 /\ DOMAIN log = {}
    BY <1>1, EmptySeq, LenProperties DEF CapsuleInv, HubTellsLog, Tells, CapsuleTyped
  <1>4. CapsuleTyped'
    BY <1>1, <1>2 DEF CapsuleInv, CapsuleTyped
  <1>5. HubTellsLog' /\ TextsAhead'
    BY <1>1, <1>2, <1>3 DEF CapsuleInv, HubTellsLog, Tells, TextsAhead
  <1>6. ~OfStream' /\ known.stream # s
    BY <1>1, <1>2, StreamAssumption DEF CapsuleInv, CursorsOfStream, OfStream, Started
  <1>7. CursorsOfStream' /\ WalkCovers' /\ WindowCovers'
    BY <1>1, <1>2, <1>6 DEF CapsuleInv, CursorsOfStream, WalkCovers, WindowCovers
  <1> QED BY <1>4, <1>5, <1>7 DEF CapsuleInv

LEMMA ObserveCapsule ==
    ASSUME CapsuleInv, NEW u \in Capsules!Documents, Capsules!Observe(u)
    PROVE  CapsuleInv'
  <1> DEFINE src == [uri |-> u, identity |-> text[u]]
             evs == capsuleHub.events
             next == capsuleHub.next
             e == [stream |-> capsuleHub.stream, cursor |-> next + 1, current |-> src]
  <1>1. /\ pushed[u] < text[u]
        /\ pushed' = [pushed EXCEPT ![u] = text[u]]
        /\ capsuleHub' = Pushed(capsuleHub, src)
        /\ log' = Append(log, src)
        /\ UNCHANGED <<text, request, known>>
    BY SamePushed DEF Capsules!Observe
  <1>2. /\ capsuleHub \in [stream : Streams, next : Nat, events : Seq(CapsuleEvent)]
        /\ next \in Nat /\ evs \in Seq(CapsuleEvent) /\ log \in Seq(Told)
        /\ Len(log) \in Nat /\ Len(evs) \in Nat
        /\ DOMAIN log = 1 .. Len(log) /\ DOMAIN evs = 1 .. Len(evs)
    BY LenProperties DEF CapsuleInv, CapsuleTyped
  <1>3. src \in Told /\ e \in CapsuleEvent /\ src.uri = u /\ src.identity = text[u]
    BY <1>2 DEF CapsuleInv, CapsuleTyped, Told, CapsuleEvent
  <1>4. PICK d \in {0, 1} :
            /\ Kept(evs) \in Seq(CapsuleEvent)
            /\ Len(Kept(evs)) = Len(evs) - d
            /\ \A i \in 1 .. Len(Kept(evs)) : Kept(evs)[i] = evs[i + d]
    BY <1>2, KeptSuffix
  <1> DEFINE kept == Kept(evs)
             after == Append(kept, e)
  <1> HIDE DEF kept, src, e
  <1>5. capsuleHub' = [stream |-> capsuleHub.stream, next |-> next + 1, events |-> after]
    BY <1>1, <1>2 DEF Pushed, e, kept
  <1>6. /\ after \in Seq(CapsuleEvent) /\ Len(after) = Len(kept) + 1
        /\ DOMAIN after = 1 .. Len(kept) + 1
        /\ \A i \in 1 .. Len(kept) : after[i] = kept[i]
        /\ after[Len(kept) + 1] = e
        /\ Len(kept) \in Nat
    BY <1>3, <1>4, AppendProperties, LenProperties DEF kept
  <1>7. /\ log' \in Seq(Told) /\ Len(log') = Len(log) + 1
        /\ DOMAIN log' = 1 .. Len(log) + 1
        /\ \A i \in 1 .. Len(log) : log'[i] = log[i]
        /\ log'[Len(log) + 1] = src
    BY <1>1, <1>2, <1>3, AppendProperties, LenProperties
  <1> HIDE DEF after
  <1>8. /\ capsuleHub'.stream = capsuleHub.stream
        /\ capsuleHub'.next = next + 1
        /\ capsuleHub'.events = after
        /\ capsuleHub' \in [stream : Streams, next : Nat, events : Seq(CapsuleEvent)]
    BY <1>2, <1>5, <1>6
  <1>9. /\ pushed' \in [Capsules!Documents -> Nat]
        /\ pushed'[u] = text[u]
        /\ \A v \in Capsules!Documents : pushed[v] <= pushed'[v] /\ pushed'[v] <= text[v]
    BY <1>1 DEF CapsuleInv, CapsuleTyped, TextsAhead
  <1>10. CapsuleTyped'
    BY <1>1, <1>7, <1>8, <1>9 DEF CapsuleInv, CapsuleTyped
  <1>11. \A i \in DOMAIN log : log[i].uri \in Capsules!Documents /\ log[i].identity \in Nat
    BY LogTold
  <1>12. TextsAhead'
    <2>1. ASSUME NEW i \in DOMAIN log'
          PROVE  log'[i].identity <= pushed'[log'[i].uri]
      <3>1. CASE i \in DOMAIN log
        <4>1. log'[i] = log[i]
          BY <1>2, <1>7, <3>1
        <4>2. pushed[log[i].uri] <= pushed'[log[i].uri]
          BY <1>9, <1>11, <3>1
        <4>3. log[i].identity <= pushed[log[i].uri]
          BY <3>1 DEF CapsuleInv, TextsAhead
        <4>4. pushed[log[i].uri] \in Nat /\ pushed'[log[i].uri] \in Nat
          BY <1>9, <1>11, <3>1 DEF CapsuleInv, CapsuleTyped
        <4> QED BY <1>11, <3>1, <4>1, <4>2, <4>3, <4>4
      <3>2. CASE i = Len(log) + 1
        BY <1>3, <1>7, <1>9, <3>2 DEF CapsuleInv, CapsuleTyped
      <3> QED BY <1>2, <1>7, <3>1, <3>2
    <2> QED BY <1>1, <1>9, <2>1 DEF TextsAhead
  <1>13. HubTellsLog'
    <2>1. Len(log) <= next /\ Len(evs) <= Len(log)
      BY DEF CapsuleInv, HubTellsLog, Tells
    <2>2. Len(kept) = Len(evs) - d
      BY <1>4 DEF kept
    <2>3. ASSUME NEW i \in DOMAIN after
          PROVE  /\ after[i].cursor = (next + 1) - Len(after) + i
                 /\ after[i].current = log'[Len(log') - Len(after) + i]
      <3>1. CASE i = Len(kept) + 1
        <4>1. after[i] = e /\ e.cursor = next + 1 /\ e.current = src
          BY <1>6, <3>1 DEF e
        <4>2. Len(log') - Len(after) + i = Len(log) + 1
          BY <1>2, <1>6, <1>7, <3>1
        <4>3. log'[Len(log') - Len(after) + i] = src
          BY <1>7, <4>2
        <4> QED BY <1>2, <1>6, <3>1, <4>1, <4>3
      <3>2. CASE i \in 1 .. Len(kept)
        <4>1. after[i] = evs[i + d] /\ i + d \in DOMAIN evs
          BY <1>2, <1>4, <1>6, <2>2, <3>2 DEF kept
        <4>2. /\ evs[i + d].cursor = next - Len(evs) + (i + d)
              /\ evs[i + d].current = log[Len(log) - Len(evs) + (i + d)]
          BY <4>1 DEF CapsuleInv, HubTellsLog, Tells
        <4>3. Len(log') - Len(after) + i = Len(log) - Len(evs) + (i + d)
          BY <1>2, <1>6, <1>7, <2>2
        <4>4. Len(log) - Len(evs) + (i + d) \in 1 .. Len(log)
          BY <1>2, <2>1, <4>1
        <4>5. log'[Len(log') - Len(after) + i] = log[Len(log) - Len(evs) + (i + d)]
          BY <1>7, <4>3, <4>4
        <4> QED BY <1>2, <1>6, <2>2, <4>1, <4>2, <4>5
      <3> QED BY <1>6, <3>1, <3>2
    <2>4. Len(log') <= next + 1 /\ Len(after) <= Len(log')
      BY <1>2, <1>6, <1>7, <2>1, <2>2
    <2>5. \A i \in DOMAIN after : after[i].cursor = (next + 1) - Len(after) + i
      BY <2>3
    <2>6. \A i \in DOMAIN after : after[i].current = log'[Len(log') - Len(after) + i]
      BY <2>3
    <2>7. Tells(after, next + 1, log')
      BY <2>4, <2>5, <2>6 DEF Tells
    <2> QED BY <1>8, <2>7 DEF HubTellsLog
  <1>14. CursorsOfStream'
    BY <1>1, <1>2, <1>8 DEF CapsuleInv, CursorsOfStream, OfStream, Started, CapsuleTyped
  <1>15. /\ Len(log) <= next
         /\ \A i \in 1 .. Len(log) : LogCursor(i)' = LogCursor(i)
         /\ (OfStream' <=> OfStream) /\ (Walking' <=> Walking)
         /\ OfStream => request.current <= next
    <2>1. Len(log) <= next /\ (OfStream => request.current <= next)
      BY DEF CapsuleInv, CursorsOfStream, HubTellsLog, Tells
    <2>2. \A i \in 1 .. Len(log) + 1 : LogCursor(i)' = next - Len(log) + i
      BY <1>2, <1>7, <1>8 DEF LogCursor
    <2>3. (OfStream' <=> OfStream) /\ (Walking' <=> Walking)
      BY <1>1, <1>8 DEF OfStream, Started, Walking
    <2> HIDE DEF next
    <2>4. \A i \in 1 .. Len(log) : LogCursor(i)' = LogCursor(i)
      BY <1>2, <2>2 DEF LogCursor, next
    <2> QED BY <2>1, <2>3, <2>4
  <1>16. ASSUME NEW i \in DOMAIN log', OfStream, LogCursor(i)' <= request.current
         PROVE  i \in DOMAIN log /\ log'[i] = log[i] /\ LogCursor(i)' = LogCursor(i)
    <2>1. request.current \in Nat
      BY DEF CapsuleInv, CapsuleTyped
    <2>2. LogCursor(i)' = next - Len(log) + i
      BY <1>2, <1>7, <1>8 DEF LogCursor
    <2>3. i # Len(log) + 1
      BY <1>2, <1>15, <1>16, <2>1, <2>2
    <2> QED BY <1>2, <1>7, <1>15, <2>3
  <1>17. WalkCovers'
    BY <1>1, <1>15, <1>16 DEF CapsuleInv, WalkCovers
  <1>18. WindowCovers'
    BY <1>1, <1>15, <1>16 DEF CapsuleInv, WindowCovers
  <1> QED BY <1>10, <1>12, <1>13, <1>14, <1>17, <1>18 DEF CapsuleInv

-----------------------------------------------------------------------------
(* The steps of the request.                                                *)

(* Nothing but the request and what the consumer knows changes.             *)
LEMMA RequestOnly ==
    ASSUME CapsuleInv, UNCHANGED <<capsuleHub, text, pushed, log>>,
           DOMAIN request' = RequestFields,
           request'.diagnostics \in [Capsules!Documents -> Int],
           request'.current \in Nat,
           known'.cursor \in Nat,
           request'.step = "idle" => request' = Capsules!Idle,
           CursorsOfStream', WalkCovers', WindowCovers'
    PROVE  CapsuleInv'
  BY DEF CapsuleInv, CapsuleTyped, HubTellsLog, Tells, TextsAhead

LEMMA NothingIsTyped == Capsules!Nothing \in [Capsules!Documents -> Int]
  BY DEF Capsules!Nothing, Capsules!Unread

(* The request ends, with nothing taken or with a cursor of the hub's       *)
(* stream, if that is the stream it names.                                  *)
LEMMA EndCapsule ==
    ASSUME CapsuleInv, UNCHANGED <<capsuleHub, text, pushed, log>>, request' = Capsules!Idle,
           \/ known' = known
           \/ /\ Started
              /\ known' = [stream |-> request.stream, cursor |-> request.current]
    PROVE  CapsuleInv'
  <1>1. /\ DOMAIN request' = RequestFields
        /\ request'.diagnostics = Capsules!Nothing
        /\ request'.current = 0
        /\ request'.step = "idle"
    BY DEF Capsules!Idle, RequestFields
  <1>2. ~Started' /\ ~Walking' /\ ~OfStream'
    BY <1>1 DEF Started, Walking, OfStream
  <1>3. WalkCovers' /\ WindowCovers'
    BY <1>1, <1>2 DEF WalkCovers, WindowCovers
  <1>4. known'.cursor \in Nat
    BY DEF CapsuleInv, CapsuleTyped
  <1>5. CursorsOfStream'
    BY <1>2 DEF CapsuleInv, CursorsOfStream, OfStream
  <1> QED BY <1>1, <1>3, <1>4, <1>5, NothingIsTyped, RequestOnly

LEMMA BeginCapsule ==
    ASSUME CapsuleInv, Capsules!ReadStream \/ Capsules!BeginStatus
    PROVE  CapsuleInv'
  <1>1. /\ request.step = "idle" /\ request = Capsules!Idle
        /\ UNCHANGED <<capsuleHub, text, pushed, log, known>>
    BY DEF Capsules!ReadStream, Capsules!BeginStatus, Capsules!envVars, CapsuleInv, CapsuleTyped
  <1>2. /\ request.diagnostics = Capsules!Nothing /\ request.current = 0
        /\ DOMAIN request = RequestFields
    BY <1>1 DEF Capsules!Idle, RequestFields
  <1>3. /\ DOMAIN request' = RequestFields
        /\ request'.diagnostics = Capsules!Nothing /\ request'.current = 0
        /\ \/ request'.step = "cursor" /\ request'.stream = capsuleHub.stream
           \/ request'.step = "status"
    BY <1>2 DEF Capsules!ReadStream, Capsules!BeginStatus, RequestFields
  <1>4. ~Walking'
    BY <1>3 DEF Walking
  <1>5. WalkCovers' /\ WindowCovers'
    BY <1>3, <1>4 DEF WalkCovers, WindowCovers
  <1>6. CursorsOfStream'
    <2>1. capsuleHub.next \in Nat
      BY DEF CapsuleInv, CapsuleTyped
    <2> QED BY <1>1, <1>3, <2>1 DEF CapsuleInv, CursorsOfStream, OfStream, Started
  <1>7. known'.cursor \in Nat
    BY <1>1 DEF CapsuleInv, CapsuleTyped
  <1> QED BY <1>1, <1>3, <1>5, <1>6, <1>7, NothingIsTyped, RequestOnly

LEMMA ReadCursorCapsule ==
    ASSUME CapsuleInv, Capsules!ReadCursor
    PROVE  CapsuleInv'
  <1>1. /\ request.step = "cursor"
        /\ request' = [request EXCEPT !.step = "window", !.current = capsuleHub.next]
        /\ UNCHANGED <<capsuleHub, text, pushed, log, known>>
    BY DEF Capsules!ReadCursor, Capsules!envVars
  <1>2. /\ DOMAIN request' = RequestFields
        /\ request'.diagnostics = request.diagnostics
        /\ request'.stream = request.stream
        /\ request'.current = capsuleHub.next
        /\ request'.step = "window"
    BY <1>1 DEF CapsuleInv, CapsuleTyped, RequestFields
  <1>3. capsuleHub.next \in Nat /\ request.diagnostics \in [Capsules!Documents -> Int]
        /\ known'.cursor \in Nat
    BY <1>1 DEF CapsuleInv, CapsuleTyped
  <1>4. WalkCovers' /\ WindowCovers'
    BY <1>1, <1>2 DEF CapsuleInv, WalkCovers, WindowCovers, Walking
  <1>5. CursorsOfStream'
    BY <1>1, <1>2, <1>3 DEF CapsuleInv, CursorsOfStream, OfStream, Started
  <1> QED BY <1>1, <1>2, <1>3, <1>4, <1>5, RequestOnly

LEMMA ReadWindowCapsule ==
    ASSUME WindowPage \in Nat, CapsuleInv, Capsules!ReadWindow
    PROVE  CapsuleInv'
  <1> DEFINE reply == PollFor(capsuleHub, known.stream, known.cursor, WindowPage)
             matched == /\ ~reply.reset
                        /\ reply.stream = request.stream
                        /\ known.stream = request.stream
             seen == {reply.events[i].current : i \in DOMAIN reply.events}
  <1>1. /\ request.step = "window"
        /\ request' = [request EXCEPT
              !.step = "diagnostics", !.matched = matched, !.todo = UriOrder,
              !.window = IF matched THEN seen ELSE {}]
        /\ UNCHANGED <<capsuleHub, text, pushed, log, known>>
    BY SamePollFor DEF Capsules!ReadWindow, Capsules!envVars
  <1> HIDE DEF matched, seen
  <1>2. /\ DOMAIN request' = RequestFields
        /\ request'.diagnostics = request.diagnostics
        /\ request'.stream = request.stream
        /\ request'.current = request.current
        /\ request'.step = "diagnostics"
        /\ request'.matched = matched
        /\ matched => request'.window = seen
    BY <1>1 DEF CapsuleInv, CapsuleTyped, RequestFields
  <1>3. /\ request.current \in Nat /\ request.diagnostics \in [Capsules!Documents -> Int]
        /\ known.cursor \in Nat
    BY DEF CapsuleInv, CapsuleTyped
  <1>4. WalkCovers'
    <2>1. request.diagnostics = Capsules!Nothing
      BY <1>1 DEF CapsuleInv, WalkCovers
    <2>2. \A i \in DOMAIN log : request'.diagnostics[log[i].uri] = Capsules!Unread
      BY <1>2, <2>1, LogTold DEF Capsules!Nothing
    <2> QED BY <1>1, <1>2, <2>2 DEF WalkCovers
  <1>5. CursorsOfStream'
    BY <1>1, <1>2 DEF CapsuleInv, CursorsOfStream, OfStream, Started
  <1>6. WindowCovers'
    <2> SUFFICES ASSUME matched, request.stream = capsuleHub.stream,
                        request.current - known.cursor <= WindowPage,
                        NEW i \in DOMAIN log,
                        known.cursor < LogCursor(i), LogCursor(i) <= request.current
                 PROVE  log[i] \in seen
      BY <1>1, <1>2 DEF WindowCovers, OfStream, LogCursor
    <2> DEFINE h == capsuleHub
               evs == capsuleHub.events
               size == PageSize(WindowPage)
    <2>1. /\ h.next \in Nat /\ evs \in Seq(CapsuleEvent) /\ Len(evs) \in Nat
          /\ log \in Seq(Told) /\ Len(log) \in Nat /\ DOMAIN log = 1 .. Len(log)
          /\ DOMAIN evs = 1 .. Len(evs)
          /\ Tells(evs, h.next, log)
      BY LenProperties DEF CapsuleInv, CapsuleTyped, HubTellsLog
    <2>l. Len(log) <= h.next
      BY <2>1 DEF Tells
    <2>2. ~ ResetRequired(h, known.stream, known.cursor)
      BY DEF PollFor, matched
    <2>3. ~ (known.cursor + 1 < Oldest(h) /\ known.cursor < h.next)
      BY <2>2 DEF ResetRequired
    <2>4. reply.events = Page(evs, known.cursor, size)
      BY <2>2 DEF PollFor
    <2>5. size \in Nat \ {0} /\ WindowPage <= size
      BY DEF PageSize
    <2>6. request.current <= h.next
      BY <1>1 DEF CapsuleInv, CursorsOfStream, OfStream, Started
    <2> DEFINE c == LogCursor(i)
    <2>7. c = h.next - Len(log) + i /\ c \in Nat
      BY <2>1, <2>l DEF LogCursor
    <2> HIDE DEF c, size, reply
    <2>8. known.cursor < c /\ c <= h.next /\ c <= known.cursor + size
      BY <1>3, <2>1, <2>5, <2>6, <2>7 DEF c
    <2>9. evs # << >> /\ evs[1].cursor <= known.cursor + 1
      <3>1. known.cursor < h.next
        BY <1>3, <2>1, <2>7, <2>8
      <3>2. evs # << >>
        BY <1>3, <2>1, <2>3, <3>1 DEF Oldest
      <3>3. Oldest(h) = evs[1].cursor
        BY <3>2 DEF Oldest
      <3>4. 1 \in DOMAIN evs /\ evs[1].cursor \in Int
        BY <2>1, <3>2, EmptySeq DEF Tells
      <3>5. evs[1].cursor <= known.cursor + 1
        BY <1>3, <2>3, <3>1, <3>3, <3>4
      <3> QED BY <3>2, <3>5
    <2>10. \E k \in DOMAIN reply.events :
              reply.events[k].current = log[c - h.next + Len(log)]
      <3>1. PageReaches(h.next, evs, log, known.cursor, size, c)
        BY <1>3, <2>1, <2>5, <2>7, <2>8, <2>9 DEF PageReaches
      <3> HIDE DEF h, evs
      <3> QED BY <2>4, <3>1, PageHolds
    <2>11. c - h.next + Len(log) = i
      <3>1. i \in Int /\ Len(log) \in Int /\ h.next \in Int
        BY <2>1
      <3> QED BY <2>7, <3>1
    <2> QED BY <2>10, <2>11 DEF seen
  <1> QED BY <1>1, <1>2, <1>3, <1>4, <1>5, <1>6, RequestOnly

(* A document that is walked gives the version it is at, or nothing.        *)
LEMMA ReadDiagnosticsCapsule ==
    ASSUME CapsuleInv, Capsules!ReadDiagnostics \/ Capsules!ReadTotals
    PROVE  CapsuleInv'
  <1> DEFINE d == Head(request.todo)
  <1>1. /\ request.step \in {"diagnostics", "status"}
        /\ request' = [request EXCEPT
              !.todo = Tail(@), !.diagnostics[d] = Capsules!Resident(d)]
        /\ UNCHANGED <<capsuleHub, text, pushed, log, known>>
    BY DEF Capsules!ReadDiagnostics, Capsules!ReadTotals, Capsules!envVars
  <1>2. /\ request.diagnostics \in [Capsules!Documents -> Int] /\ request.current \in Nat
        /\ known.cursor \in Nat
        /\ DOMAIN request = RequestFields
        /\ text \in [Capsules!Documents -> Nat]
        /\ log \in Seq(Told) /\ capsuleHub.next \in Nat
    BY DEF CapsuleInv, CapsuleTyped
  <1>3. /\ DOMAIN request' = RequestFields
        /\ request'.diagnostics = [request.diagnostics EXCEPT ![d] = Capsules!Resident(d)]
        /\ request'.stream = request.stream
        /\ request'.current = request.current
        /\ request'.step = request.step
        /\ request'.matched = request.matched
        /\ request'.window = request.window
    <2> HIDE DEF d
    <2> QED BY <1>1, <1>2 DEF RequestFields
  <1>4. \A u \in Capsules!Documents :
            Capsules!Resident(u) = text[u] \/ Capsules!Resident(u) = Capsules!Unread
    BY DEF Capsules!Resident
  <1> HIDE DEF d
  <1>5. request'.diagnostics \in [Capsules!Documents -> Int]
    <2>1. \A u \in Capsules!Documents : Capsules!Resident(u) \in Int
      BY <1>2, <1>4 DEF Capsules!Unread
    <2> QED BY <1>2, <1>3, <2>1
  <1>6. \A i \in DOMAIN log : log[i].uri \in Capsules!Documents /\ log[i].identity \in Nat
    BY LogTold
  <1>7. \A i \in DOMAIN log : log[i].identity <= text[log[i].uri]
    <2> SUFFICES ASSUME NEW i \in DOMAIN log PROVE log[i].identity <= text[log[i].uri]
      OBVIOUS
    <2>1. log[i].identity <= pushed[log[i].uri]
      BY DEF CapsuleInv, TextsAhead
    <2>2. pushed[log[i].uri] <= text[log[i].uri]
      BY <1>6 DEF CapsuleInv, TextsAhead
    <2>3. pushed[log[i].uri] \in Nat /\ text[log[i].uri] \in Nat
      BY <1>6 DEF CapsuleInv, CapsuleTyped
    <2> QED BY <1>6, <2>1, <2>2, <2>3
  <1>8. WalkCovers'
    <2> SUFFICES ASSUME Walking', OfStream', NEW i \in DOMAIN log,
                        LogCursor(i) <= request.current,
                        request'.diagnostics[log[i].uri] # Capsules!Unread
                 PROVE  log[i].identity <= request'.diagnostics[log[i].uri]
      BY <1>1, <1>3 DEF WalkCovers, LogCursor
    <2>1. Walking /\ OfStream
      BY <1>1, <1>3 DEF Walking, OfStream, Started
    <2>2. CASE log[i].uri = d
      BY <1>2, <1>3, <1>4, <1>6, <1>7, <2>2
    <2>3. CASE log[i].uri # d
      BY <1>2, <1>3, <1>6, <2>1, <2>3 DEF CapsuleInv, WalkCovers
    <2> QED BY <2>2, <2>3
  <1>9. WindowCovers' /\ CursorsOfStream'
    BY <1>1, <1>3
    DEF CapsuleInv, WindowCovers, CursorsOfStream, Walking, OfStream, Started, LogCursor
  <1>10. request'.step # "idle"
    BY <1>1, <1>3
  <1> QED BY <1>1, <1>2, <1>3, <1>5, <1>8, <1>9, <1>10, RequestOnly

LEMMA ObligationsCapsule ==
    ASSUME CapsuleInv, Capsules!BeginObligations \/ Capsules!ReadObligations
    PROVE  CapsuleInv'
  <1>1. /\ request.step \in {"diagnostics", "obligations"}
        /\ UNCHANGED <<capsuleHub, text, pushed, log, known>>
        /\ \/ request' = [request EXCEPT !.step = "obligations", !.todo = UriOrder]
           \/ request' = [request EXCEPT
                 !.todo = Tail(@),
                 !.obligations[Head(request.todo)] = Capsules!Resident(Head(request.todo))]
    BY DEF Capsules!BeginObligations, Capsules!ReadObligations, Capsules!envVars
  <1>2. DOMAIN request = RequestFields
    BY DEF CapsuleInv, CapsuleTyped
  <1>3. /\ DOMAIN request' = RequestFields
        /\ request'.diagnostics = request.diagnostics
        /\ request'.stream = request.stream
        /\ request'.current = request.current
        /\ request'.step \in {request.step, "obligations"}
        /\ request'.matched = request.matched
        /\ request'.window = request.window
    BY <1>1, <1>2 DEF RequestFields
  <1>4. WalkCovers' /\ WindowCovers' /\ CursorsOfStream'
    BY <1>1, <1>3
    DEF CapsuleInv, WalkCovers, WindowCovers, CursorsOfStream, Walking, OfStream, Started,
        LogCursor
  <1>5. /\ request'.diagnostics \in [Capsules!Documents -> Int]
        /\ request'.current \in Nat /\ known'.cursor \in Nat /\ request'.step # "idle"
    BY <1>1, <1>3 DEF CapsuleInv, CapsuleTyped
  <1> QED BY <1>1, <1>3, <1>4, <1>5, RequestOnly

LEMMA CapsuleNext ==
    ASSUME WindowPage \in Nat
    PROVE  CapsuleInv /\ [Capsules!Next]_(Capsules!vars) => CapsuleInv'
  <1> SUFFICES ASSUME CapsuleInv, [Capsules!Next]_(Capsules!vars)
               PROVE  CapsuleInv'
    OBVIOUS
  <1>1. CASE UNCHANGED Capsules!vars
    BY <1>1, QuietCapsule DEF Capsules!vars, Capsules!envVars
  <1>2. CASE \E u \in Capsules!Documents : Capsules!Analyse(u)
    BY <1>2, QuietCapsule DEF Capsules!Analyse
  <1>3. CASE Capsules!Answer
    <2>1. known' = [stream |-> request.stream, cursor |-> request.current] /\ Started
      BY <1>3 DEF Capsules!Answer, Capsules!ReportedCursor, Capsules!Walked, Started
    <2> QED BY <1>3, <2>1, EndCapsule DEF Capsules!Answer, Capsules!envVars
  <1>4. CASE Capsules!Refuse \/ Capsules!AnswerStatus
    BY <1>4, EndCapsule DEF Capsules!Refuse, Capsules!AnswerStatus, Capsules!envVars
  <1> QED
    BY <1>1, <1>2, <1>3, <1>4, ChangeCapsule, ObserveCapsule, ConfigureCapsule, BeginCapsule,
       ReadCursorCapsule, ReadWindowCapsule, ReadDiagnosticsCapsule, ObligationsCapsule
    DEF Capsules!Next

(* A capsule tells every change up to the cursor it hands out, and lists    *)
(* those after the consumer's cursor that one window holds, for any         *)
(* documents, capacity and window, however edits, analyses and events fall  *)
(* between the reads (ambient.rs semantic_capsule).                         *)
THEOREM CapsuleCoversCursor ==
    ASSUME WindowPage \in Nat
    PROVE  Capsules!Spec => []Capsules!CapsuleCoversItsCursor
  <1>1. CapsuleInv => Capsules!CapsuleCoversItsCursor
    <2> SUFFICES ASSUME CapsuleInv, Capsules!Walked, Capsules!Pending = {},
                        request.stream = capsuleHub.stream
                 PROVE  /\ \A e \in Capsules!Events(0, request.current) :
                              Capsules!Reaches(request, e)
                        /\ request.matched /\ request.current - known.cursor <= WindowPage =>
                              Capsules!Events(known.cursor, request.current)
                                  \subseteq request.window
      BY DEF Capsules!CapsuleCoversItsCursor, Capsules!ReportedCursor
    <2>1. Walking /\ OfStream
      BY DEF Capsules!Walked, Walking, OfStream, Started
    <2>2. \A after : Capsules!Events(after, request.current) =
             {log[i] : i \in {j \in DOMAIN log :
                 after < LogCursor(j) /\ LogCursor(j) <= request.current}}
      BY DEF Capsules!Events, LogCursor
    <2>3. \A i \in DOMAIN log : log[i].uri \in Capsules!Documents /\ log[i].identity \in Nat
      BY LogTold
    <2>4. ASSUME NEW i \in DOMAIN log, LogCursor(i) <= request.current
          PROVE  Capsules!Reaches(request, log[i])
      <3>1. request.diagnostics[log[i].uri] # Capsules!Unread
        BY <2>3 DEF Capsules!Pending
      <3>2. log[i].identity <= request.diagnostics[log[i].uri]
        BY <2>1, <2>4, <3>1 DEF CapsuleInv, WalkCovers
      <3>3. request.diagnostics[log[i].uri] \in Int
        BY <2>3 DEF CapsuleInv, CapsuleTyped
      <3> QED BY <2>3, <3>2, <3>3 DEF Capsules!Reaches
    <2>5. request.matched /\ request.current - known.cursor <= WindowPage =>
             \A i \in DOMAIN log :
                known.cursor < LogCursor(i) /\ LogCursor(i) <= request.current =>
                    log[i] \in request.window
      BY <2>1 DEF CapsuleInv, WindowCovers
    <2> QED BY <2>2, <2>4, <2>5
  <1>2. Capsules!Init => CapsuleInv
    BY InitCapsule
  <1>3. CapsuleInv /\ [Capsules!Next]_(Capsules!vars) => CapsuleInv'
    BY CapsuleNext
  <1> QED BY <1>1, <1>2, <1>3, PTL DEF Capsules!Spec
=============================================================================
