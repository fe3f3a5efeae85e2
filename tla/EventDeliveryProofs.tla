------------------------- MODULE EventDeliveryProofs ------------------------
(***************************************************************************)
(* Proofs about EventDelivery, for every capacity, any number of threads,  *)
(* consumers and starts, and every request: types are respected, the       *)
(* checkpoint file is history, no consumer misses or repeats a change, and *)
(* the host with its crashes implements the abstract ChangeStream.         *)
(***************************************************************************)
EXTENDS EventDelivery, SequenceTheorems, TLAPS

-----------------------------------------------------------------------------
(* The inductive invariant                                                 *)

(* A hub, or a copy of one, retains the last changes of what its stream    *)
(* told up to its high-water mark, as many as it may.                      *)
Retained(h) == IF h.next < Capacity THEN h.next ELSE Capacity

Window(h, l) ==
    /\ h.next <= Len(l)
    /\ Len(h.events) = Retained(h)
    /\ \A i \in 1 .. Len(h.events) :
          /\ h.events[i].stream = h.stream
          /\ h.events[i].cursor = h.next - Len(h.events) + i
          /\ h.events[i].current = l[h.next - Len(h.events) + i]

(* A page is what the stream told after a cursor.                          *)
PageAfter(page, cursor, l) ==
    /\ cursor + Len(page) <= Len(l)
    /\ \A i \in 1 .. Len(page) :
          page[i].cursor = cursor + i /\ page[i].current = l[cursor + i]

(* The answer on its way to a consumer is still one for where it stands.   *)
AnswerOK(c, r) ==
    /\ r.stream = hub.stream
    /\ r.current <= hub.next
    /\ r.reset /\ at[c].stream = hub.stream /\ c \notin lost =>
          at[c].cursor < r.current /\ at[c].cursor + Capacity < hub.next
    /\ ~r.reset => /\ at[c].stream \in {hub.stream, Unstarted}
                   /\ PageAfter(r.events, at[c].cursor, log[hub.stream])

HostInv ==
    /\ Window(hub, log[hub.stream])
    /\ hub.next = Len(log[hub.stream])
    /\ saved.stream = hub.stream
    /\ Window(saved, log[hub.stream])
    /\ \A w \in Workers : pc[w] = "encoded" =>
          snap[w].stream = hub.stream /\ Window(snap[w], log[hub.stream])
    /\ hub.stream <= starts
    /\ \A s \in StreamIds : s > starts => log[s] = << >>
    /\ ~up => starts < MaxStarts /\ \A w \in Workers : pc[w] = "idle"

ConsumerInv ==
    \A c \in Consumers :
        /\ at[c].stream <= starts
        /\ at[c].stream = Unstarted =>
              at[c].cursor = 0 /\ base[c] = 0 /\ seen[c] = << >>
        /\ c \notin lost /\ at[c].stream = hub.stream =>
              base[c] <= at[c].cursor /\ UpToDate(c)
        /\ \A r \in reply[c] : up /\ AnswerOK(c, r)

IInv == TypeOK /\ HostInv /\ ConsumerInv

-----------------------------------------------------------------------------
(* Hubs, as values                                                         *)

LEMMA StreamIdsAreNumbers ==
    /\ StreamIds \subseteq Nat
    /\ Unstarted \notin StreamIds
    /\ 1 \in StreamIds
    /\ Unstarted = 0
    BY DeliveryAssumption DEF StreamIds, Unstarted

LEMMA HubFields ==
    ASSUME NEW h \in Hub!HubState
    PROVE  /\ h = [stream |-> h.stream, next |-> h.next, events |-> h.events]
           /\ h.stream \in StreamIds
           /\ h.next \in Nat
           /\ h.events \in Seq(Hub!Event)
           /\ Len(h.events) \in Nat
           /\ DOMAIN h.events = 1 .. Len(h.events)
           /\ \A i \in 1 .. Len(h.events) : h.events[i] \in Hub!Event
<1>1. h.events \in Seq(Hub!Event)
    BY DEF Hub!HubState
<1> QED
    BY <1>1, LenProperties, ElementOfSeq DEF Hub!HubState

(* A hub nothing was pushed to.                                            *)
LEMMA NewHubWindow ==
    ASSUME NEW s \in StreamIds, NEW l \in Seq(Hub!Source)
    PROVE  /\ Hub!NewHub(s) \in Hub!HubState
           /\ Hub!NewHub(s).stream = s
           /\ Hub!NewHub(s).next = 0
           /\ Window(Hub!NewHub(s), l)
<1>1. Hub!NewHub(s) = [stream |-> s, next |-> 0, events |-> << >>]
    BY DEF Hub!NewHub
<1>2. << >> \in Seq(Hub!Event) /\ Len(<< >>) = 0
    BY EmptySeq
<1>3. Len(l) \in Nat
    BY LenProperties
<1> QED
    BY <1>1, <1>2, <1>3, DeliveryAssumption DEF Hub!HubState, Window, Retained

(* A window depends on no change past its high-water mark.                 *)
LEMMA WindowOfPrefix ==
    ASSUME NEW h \in Hub!HubState, NEW l, NEW k, Window(h, l),
           h.next <= Len(k), \A i \in 1 .. h.next : k[i] = l[i]
    PROVE  Window(h, k)
<1>1. /\ h.next \in Nat
      /\ Len(h.events) \in Nat
      /\ Len(h.events) <= h.next
    BY HubFields, DeliveryAssumption DEF Window, Retained
<1>2. \A i \in 1 .. Len(h.events) : h.next - Len(h.events) + i \in 1 .. h.next
    BY <1>1
<1> QED
    BY <1>1, <1>2 DEF Window

(* restore_checkpoint adopts a window as it is.                            *)
LEMMA WindowIsRestored ==
    ASSUME NEW h \in Hub!HubState, NEW l, Window(h, l)
    PROVE  Hub!Restored(h) = h
<1> DEFINE n == Len(h.events)
<1>1. /\ h.next \in Nat /\ n \in Nat
      /\ DOMAIN h.events = 1 .. n
      /\ n <= Capacity /\ n <= h.next
    BY HubFields, DeliveryAssumption DEF Window, Retained
<1>2. \A i \in 1 .. n : h.events[i].stream = h.stream /\ h.events[i].cursor = h.next - n + i
    BY DEF Window
<1> HIDE DEF n
<1>3. \A i \in 1 .. n : h.events[i].cursor <= h.next
    BY <1>1, <1>2
<1>4. ASSUME NEW i \in 1 .. n - 1
      PROVE  h.events[i + 1].cursor = h.events[i].cursor + 1
    <2>1. i \in 1 .. n /\ i + 1 \in 1 .. n
        BY <1>1
    <2>2. h.next - n + (i + 1) = (h.next - n + i) + 1
        BY <1>1, <2>1
    <2> QED
        BY <2>1, <2>2, <1>2
<1>5. n # 0 => h.events[n].cursor = h.next
    <2> SUFFICES ASSUME n # 0
                 PROVE  h.events[n].cursor = h.next
        OBVIOUS
    <2>1. n \in 1 .. n /\ h.next - n + n = h.next
        BY <1>1
    <2> QED
        BY <2>1, <1>2
<1>6. h.events # << >> => n # 0
    BY HubFields, EmptySeq DEF n
<1>7. Hub!ConsistentWindow(h)
    BY <1>1, <1>2, <1>3, <1>4, <1>5, <1>6 DEF Hub!ConsistentWindow, n
<1> QED
    BY <1>7 DEF Hub!Restored

(* A push keeps a window one of what the stream has told now.              *)
LEMMA PushedWindow ==
    ASSUME NEW h \in Hub!HubState, NEW l \in Seq(Hub!Source),
           NEW src \in Hub!Source, Window(h, l), h.next = Len(l)
    PROVE  /\ Hub!Pushed(h, src) \in Hub!HubState
           /\ Hub!Pushed(h, src).stream = h.stream
           /\ Hub!Pushed(h, src).next = h.next + 1
           /\ Window(Hub!Pushed(h, src), Append(l, src))
<1> DEFINE n == Len(h.events)
           kept == Hub!Kept(h.events)
           e == [stream |-> h.stream, cursor |-> h.next + 1, current |-> src]
           k == Append(l, src)
           p == Hub!Pushed(h, src)
           d == IF n >= Capacity THEN 1 ELSE 0
<1>1. /\ h.next \in Nat /\ n \in Nat
      /\ h.stream \in StreamIds
      /\ h.events \in Seq(Hub!Event)
      /\ n = Retained(h)
    BY HubFields DEF Window
<1>2. e \in Hub!Event
    BY <1>1 DEF Hub!Event
<1>3. /\ kept \in Seq(Hub!Event)
      /\ Len(kept) = n - d
      /\ \A i \in 1 .. n - d : kept[i] = h.events[i + d]
    <2>1. CASE n >= Capacity
        <3>1. h.events # << >>
            BY <2>1, <1>1, EmptySeq, DeliveryAssumption
        <3>2. kept = Tail(h.events)
            BY <2>1 DEF Hub!Kept
        <3> QED
            BY <2>1, <3>1, <3>2, <1>1, HeadTailProperties
    <2>2. CASE ~ (n >= Capacity)
        <3>1. kept = h.events
            BY <2>2 DEF Hub!Kept
        <3> QED
            BY <2>2, <3>1, <1>1
    <2> QED
        BY <2>1, <2>2
<1>4. p = [stream |-> h.stream, next |-> h.next + 1, events |-> Append(kept, e)]
    <2>1. h = [stream |-> h.stream, next |-> h.next, events |-> h.events]
        BY HubFields
    <2>2. p = [h EXCEPT !.next = h.next + 1, !.events = Append(kept, e)]
        BY DEF Hub!Pushed
    <2> HIDE DEF kept, e, p
    <2> QED
        BY <2>1, <2>2
<1>5. /\ Append(kept, e) \in Seq(Hub!Event)
      /\ Len(Append(kept, e)) = n - d + 1
      /\ \A i \in 1 .. n - d : Append(kept, e)[i] = h.events[i + d]
      /\ Append(kept, e)[n - d + 1] = e
    <2> HIDE DEF kept, e, n, d
    <2>1. /\ Append(kept, e) \in Seq(Hub!Event)
          /\ Len(Append(kept, e)) = Len(kept) + 1
          /\ \A i \in 1 .. Len(kept) : Append(kept, e)[i] = kept[i]
          /\ Append(kept, e)[Len(kept) + 1] = e
        BY <1>2, <1>3, AppendProperties
    <2> QED
        BY <2>1, <1>3
<1>6. p \in Hub!HubState
    BY <1>1, <1>4, <1>5 DEF Hub!HubState
<1>7. /\ Len(k) = Len(l) + 1
      /\ \A i \in 1 .. Len(l) : k[i] = l[i]
      /\ k[Len(l) + 1] = src
    BY AppendProperties
<1>8. n - d + 1 = Retained(p)
    <2>1. p.next = h.next + 1
        BY <1>4
    <2> HIDE DEF n, p
    <2>2. Retained(p) = IF h.next + 1 < Capacity THEN h.next + 1 ELSE Capacity
        BY <2>1 DEF Retained
    <2>3. n = IF h.next < Capacity THEN h.next ELSE Capacity
        BY <1>1 DEF Retained
    <2>4. Capacity \in Nat \ {0} /\ h.next \in Nat
        BY <1>1, DeliveryAssumption
    <2>5. CASE h.next < Capacity
        <3>1. n = h.next /\ d = 0
            BY <2>3, <2>4, <2>5
        <3> HIDE DEF d
        <3> QED
            BY <2>2, <2>4, <2>5, <3>1
    <2>6. CASE ~ (h.next < Capacity)
        <3>1. n = Capacity /\ d = 1
            BY <2>3, <2>4, <2>6
        <3> HIDE DEF d
        <3> QED
            BY <2>2, <2>4, <2>6, <3>1
    <2> QED
        BY <2>5, <2>6
<1>9. \A i \in 1 .. n : /\ h.events[i].stream = h.stream
                        /\ h.events[i].cursor = h.next - n + i
                        /\ h.events[i].current = l[h.next - n + i]
    BY DEF Window
<1>10. n <= h.next /\ d \in {0, 1} /\ d <= n
    BY <1>1, DeliveryAssumption DEF Retained
<1> HIDE DEF n, d, kept, k
<1>11. ASSUME NEW i \in 1 .. n - d + 1
       PROVE  /\ p.events[i].stream = h.stream
              /\ p.events[i].cursor = h.next + 1 - (n - d + 1) + i
              /\ p.events[i].current = k[h.next + 1 - (n - d + 1) + i]
    <2> DEFINE c == h.next + 1 - (n - d + 1) + i
    <2>1. CASE i = n - d + 1
        <3>1. p.events[i] = e /\ c = h.next + 1
            BY <2>1, <1>1, <1>4, <1>5, <1>10
        <3> QED
            BY <3>1, <1>7
    <2>2. CASE i # n - d + 1
        <3>1. i \in 1 .. n - d /\ i + d \in 1 .. n
            BY <2>2, <1>1, <1>10
        <3>2. p.events[i] = h.events[i + d]
            BY <3>1, <1>4, <1>5
        <3>3. c = h.next - n + (i + d)
            BY <3>1, <1>1, <1>10
        <3>4. c \in 1 .. Len(l)
            <4> DEFINE j == i + d
            <4> HIDE DEF j, c
            <4>1. j \in 1 .. n /\ c = h.next - n + j
                BY <3>1, <3>3 DEF j
            <4>2. n \in Nat /\ h.next \in Nat /\ n <= h.next
                BY <1>1, <1>10
            <4>3. c >= 1 /\ c <= h.next /\ c \in Int
                BY <4>1, <4>2
            <4> QED
                BY <4>2, <4>3
        <3> QED
            BY <3>1, <3>2, <3>3, <3>4, <1>7, <1>9
    <2> QED
        BY <2>1, <2>2
<1>12. Len(p.events) = n - d + 1 /\ p.next = h.next + 1 /\ p.stream = h.stream
    BY <1>4, <1>5
<1>13. p.next <= Len(k)
    BY <1>12, <1>7
<1>14. Window(p, k)
    BY <1>8, <1>11, <1>12, <1>13 DEF Window
<1> QED
    BY <1>6, <1>12, <1>14 DEF k

(* An answer that is no reset is the page after the cursor.                *)
LEMMA AnswerIsPage ==
    ASSUME NEW h \in Hub!HubState, NEW l, Window(h, l),
           NEW s, NEW a \in Nat, NEW max \in Nat,
           Len(l) \in Nat, ~ Hub!ResetRequired(h, s, a)
    PROVE  /\ Hub!PollFor(h, s, a, max).events \in Seq(Hub!Event)
           /\ PageAfter(Hub!PollFor(h, s, a, max).events, a, l)
<1> DEFINE evs == h.events
           n == Len(h.events)
           size == Hub!PageSize(max)
           page == Hub!PollFor(h, s, a, max).events
<1>1. /\ h.next \in Nat /\ n \in Nat /\ n <= h.next /\ h.next <= Len(l)
      /\ n = 0 => h.next = 0
      /\ evs \in Seq(Hub!Event)
      /\ DOMAIN evs = 1 .. n
    BY HubFields, DeliveryAssumption DEF Window, Retained
<1>2. \A i \in 1 .. n : evs[i].cursor = h.next - n + i /\ evs[i].current = l[h.next - n + i]
    BY DEF Window
<1>3. size \in Nat \ {0}
    BY DEF Hub!PageSize
<1>4. a <= h.next /\ (a < h.next => a >= h.next - n)
    <2>1. a <= h.next /\ ~ (a + 1 < Hub!Oldest(h) /\ a < h.next)
        BY <1>1 DEF Hub!ResetRequired
    <2>2. n # 0 => Hub!Oldest(h) = h.next - n + 1
        <3> SUFFICES ASSUME n # 0
                     PROVE  Hub!Oldest(h) = h.next - n + 1
            OBVIOUS
        <3>1. h.events # << >> /\ 1 \in 1 .. n
            BY <1>1, EmptySeq
        <3> QED
            BY <3>1, <1>2 DEF Hub!Oldest
    <2> HIDE DEF n
    <2> QED
        BY <2>1, <2>2, <1>1
<1>5. page = Hub!Page(evs, a, size)
    BY DEF Hub!PollFor
<1>6. CASE a = h.next
    <2>1. ~ \E i \in DOMAIN evs : evs[i].cursor > a
        <3> HIDE DEF n
        <3> QED
            BY <1>1, <1>2, <1>6
    <2>2. page = << >>
        BY <2>1, <1>5 DEF Hub!Page
    <2> QED
        BY <2>2, <1>1, <1>6, EmptySeq DEF PageAfter
<1>7. CASE a < h.next
    <2> DEFINE f == Hub!FirstUnread(evs, a)
               first == a - (h.next - n) + 1
               last == IF f + size - 1 < n THEN f + size - 1 ELSE n
    <2>1. first \in 1 .. n /\ evs[first].cursor = a + 1
        <3> HIDE DEF n
        <3>1. first \in 1 .. n /\ h.next - n + first = a + 1
            BY <1>1, <1>4, <1>7
        <3> QED
            BY <3>1, <1>2
    <2>2. \A i \in 1 .. n : evs[i].cursor > a <=> first <= i
        <3> HIDE DEF n
        <3> QED
            BY <1>1, <1>2
    <2>3. f = first
        <3> HIDE DEF n, first
        <3>1. first \in DOMAIN evs /\ evs[first].cursor > a
            BY <2>1, <2>2, <1>1
        <3>2. \A j \in DOMAIN evs : evs[j].cursor > a => first <= j
            BY <2>2, <1>1
        <3>3. /\ f \in DOMAIN evs
              /\ evs[f].cursor > a
              /\ \A j \in DOMAIN evs : evs[j].cursor > a => f <= j
            BY <3>1, <3>2 DEF Hub!FirstUnread
        <3>4. f <= first /\ first <= f
            BY <3>1, <3>2, <3>3
        <3> QED
            BY <3>3, <3>4, <2>1, <1>1
    <2>4. page = SubSeq(evs, first, last)
        <3>1. \E i \in DOMAIN evs : evs[i].cursor > a
            BY <2>1, <2>2, <1>1
        <3>2. page = SubSeq(evs, f, last)
            BY <3>1, <1>5 DEF Hub!Page
        <3> QED
            BY <3>2, <2>3
    <2> HIDE DEF f
    <2>5. last \in first .. n
        <3> HIDE DEF n, size, first
        <3> QED
            BY <1>1, <1>3, <2>1, <2>3
    <2> HIDE DEF last, page, first, n
    <2>6. \A i \in first .. last : evs[i] \in Hub!Event
        BY <2>1, <2>5, <1>1, ElementOfSeq DEF n
    <2>7. first \in Int /\ last \in Int
        BY <2>1, <2>5, <1>1
    <2>8. /\ page \in Seq(Hub!Event)
          /\ Len(page) = last - first + 1
          /\ \A i \in 1 .. last - first + 1 : page[i] = evs[first + i - 1]
        BY <2>4, <2>5, <2>6, <2>7, SubSeqProperties
    <2>9. a + Len(page) <= Len(l)
        <3>1. Len(page) <= n - first + 1 /\ Len(page) \in Int
            BY <2>1, <2>5, <2>8, <1>1
        <3>2. first = a - h.next + n + 1 /\ first \in Nat
            BY <2>1, <1>1 DEF first
        <3>3. a + Len(page) <= h.next
            BY <3>1, <3>2, <1>1
        <3> QED
            BY <3>1, <3>3, <1>1
    <2>10. ASSUME NEW i \in 1 .. Len(page)
           PROVE  page[i].cursor = a + i /\ page[i].current = l[a + i]
        <3>1. first + i - 1 \in 1 .. n /\ i \in 1 .. last - first + 1
            BY <2>1, <2>5, <2>8, <1>1
        <3>2. h.next - n + (first + i - 1) = a + i
            BY <3>1, <1>1 DEF first
        <3> QED
            BY <3>1, <3>2, <2>8, <1>2
    <2> QED
        BY <2>8, <2>9, <2>10 DEF PageAfter, page
<1> QED
    BY <1>1, <1>4, <1>6, <1>7

(* A consumer that is reset on its own stream is further behind than the   *)
(* window reaches, or ahead of it.                                         *)
LEMMA ResetIsForCause ==
    ASSUME NEW h \in Hub!HubState, NEW l, Window(h, l),
           NEW a \in Nat, Hub!ResetRequired(h, h.stream, a), a <= h.next
    PROVE  a + Capacity < h.next
<1> DEFINE n == Len(h.events)
<1>1. /\ h.next \in Nat /\ n \in Nat /\ n = Retained(h)
      /\ h.stream # Unstarted
    BY HubFields, StreamIdsAreNumbers DEF Window
<1>2. a + 1 < Hub!Oldest(h) /\ a < h.next
    BY <1>1 DEF Hub!ResetRequired, Hub!StreamMismatch
<1>3. n # 0 => Hub!Oldest(h) = h.next - n + 1
    <2> SUFFICES ASSUME n # 0
                 PROVE  Hub!Oldest(h) = h.next - n + 1
        OBVIOUS
    <2>1. h.events # << >> /\ 1 \in 1 .. n
        BY <1>1, EmptySeq
    <2> QED
        BY <2>1 DEF Hub!Oldest, Window
<1> HIDE DEF n
<1>4. n = IF h.next < Capacity THEN h.next ELSE Capacity
    BY <1>1 DEF Retained
<1> QED
    BY <1>1, <1>2, <1>3, <1>4, DeliveryAssumption

-----------------------------------------------------------------------------
(* Histories, as values                                                    *)

LEMMA SameSlice ==
    ASSUME NEW S, NEW l \in Seq(S), NEW k \in Seq(S), NEW b \in Nat, NEW m \in Nat,
           m <= Len(l), \A i \in 1 .. m : k[i] = l[i]
    PROVE  SubSeq(k, b + 1, m) = SubSeq(l, b + 1, m)
<1>1. Len(l) \in Nat
    BY LenProperties
<1>2. \A i \in b + 1 .. m : i \in 1 .. m /\ i \in 1 .. Len(l)
    BY <1>1
<1>3. \A i \in b + 1 .. m : l[i] \in S /\ k[i] = l[i]
    BY <1>2, ElementOfSeq
<1>4. b + 1 \in Int /\ m \in Int
    OBVIOUS
<1>5. /\ SubSeq(l, b + 1, m) \in Seq(S)
      /\ Len(SubSeq(l, b + 1, m)) = IF b + 1 <= m THEN m - (b + 1) + 1 ELSE 0
      /\ \A i \in 1 .. m - (b + 1) + 1 : SubSeq(l, b + 1, m)[i] = l[b + 1 + i - 1]
    BY <1>3, <1>4, SubSeqProperties
<1>6. /\ SubSeq(k, b + 1, m) \in Seq(S)
      /\ Len(SubSeq(k, b + 1, m)) = IF b + 1 <= m THEN m - (b + 1) + 1 ELSE 0
      /\ \A i \in 1 .. m - (b + 1) + 1 : SubSeq(k, b + 1, m)[i] = k[b + 1 + i - 1]
    BY <1>3, <1>4, SubSeqProperties
<1>7. ASSUME NEW i \in 1 .. Len(SubSeq(k, b + 1, m))
      PROVE  SubSeq(k, b + 1, m)[i] = SubSeq(l, b + 1, m)[i]
    <2>1. i \in 1 .. m - (b + 1) + 1 /\ b + 1 + i - 1 \in b + 1 .. m
        BY <1>6
    <2> QED
        BY <2>1, <1>3, <1>5, <1>6
<1> QED
    BY <1>5, <1>6, <1>7, SeqEqual

(* The changes of a page are a slice of the history.                       *)
LEMMA PageIsSlice ==
    ASSUME NEW l \in Seq(Hub!Source), NEW a \in Nat,
           NEW page \in Seq(Hub!Event), PageAfter(page, a, l)
    PROVE  [i \in 1 .. Len(page) |-> page[i].current] = SubSeq(l, a + 1, a + Len(page))
<1> DEFINE n == Len(page)
           taken == [i \in 1 .. n |-> page[i].current]
<1>1. n \in Nat /\ Len(l) \in Nat /\ a + n <= Len(l)
    BY LenProperties DEF PageAfter
<1>2. \A i \in 1 .. n : page[i].current = l[a + i]
    BY DEF PageAfter
<1> HIDE DEF n
<1>3. \A i \in a + 1 .. a + n : i \in 1 .. Len(l)
    BY <1>1
<1>4. \A i \in a + 1 .. a + n : l[i] \in Hub!Source
    BY <1>3, ElementOfSeq
<1>5. /\ SubSeq(l, a + 1, a + n) \in Seq(Hub!Source)
      /\ Len(SubSeq(l, a + 1, a + n)) = n
      /\ \A i \in 1 .. n : SubSeq(l, a + 1, a + n)[i] = l[a + i]
    <2>1. /\ SubSeq(l, a + 1, a + n) \in Seq(Hub!Source)
          /\ Len(SubSeq(l, a + 1, a + n))
                = IF a + 1 <= a + n THEN a + n - (a + 1) + 1 ELSE 0
          /\ \A i \in 1 .. a + n - (a + 1) + 1 :
                SubSeq(l, a + 1, a + n)[i] = l[a + 1 + i - 1]
        BY <1>1, <1>4, SubSeqProperties
    <2>2. a + n - (a + 1) + 1 = n
        BY <1>1
    <2>3. \A i \in 1 .. n : a + 1 + i - 1 = a + i
        BY <1>1
    <2>4. Len(SubSeq(l, a + 1, a + n)) = n
        BY <2>1, <1>1
    <2> QED
        BY <2>1, <2>2, <2>3, <2>4
<1>6. \A i \in 1 .. n : a + i \in 1 .. Len(l)
    BY <1>1
<1>7. \A i \in 1 .. n : taken[i] = l[a + i] /\ taken[i] \in Hub!Source
    <2>1. \A i \in 1 .. n : taken[i] = page[i].current
        OBVIOUS
    <2>2. \A i \in 1 .. n : l[a + i] \in Hub!Source
        BY <1>6, ElementOfSeq
    <2> QED
        BY <1>2, <2>1, <2>2
<1>8. taken \in Seq(Hub!Source) /\ Len(taken) = n
    BY <1>1, <1>7
<1> HIDE DEF taken
<1>9. taken = SubSeq(l, a + 1, a + n)
    <2>1. \A i \in 1 .. Len(taken) : taken[i] = SubSeq(l, a + 1, a + n)[i]
        BY <1>5, <1>7, <1>8
    <2>2. Len(taken) = Len(SubSeq(l, a + 1, a + n))
        BY <1>5, <1>8
    <2> QED
        BY <1>5, <1>8, <2>1, <2>2, SeqEqual
<1> QED
    BY <1>9, Zenon DEF n, taken

-----------------------------------------------------------------------------
(* The initial states                                                      *)

LEMMA InitIInv ==
    ASSUME Init
    PROVE  IInv
<1>1. 1 \in StreamIds /\ Unstarted \notin StreamIds /\ StreamIds \subseteq Nat
    BY StreamIdsAreNumbers
<1>2. << >> \in Seq(Hub!Source) /\ Len(<< >>) = 0 /\ << >> \in Seq(Hub!Event)
    BY EmptySeq
<1>3. /\ hub = Hub!NewHub(1) /\ hub \in Hub!HubState
      /\ hub.stream = 1 /\ hub.next = 0 /\ Window(hub, << >>)
    BY <1>1, <1>2, NewHubWindow DEF Init
<1>4. TypeOK
    BY <1>1, <1>2, <1>3 DEF Init, TypeOK, Idle
<1>5. HostInv
    BY <1>1, <1>2, <1>3 DEF Init, HostInv
<1>6. ConsumerInv
    <2> SUFFICES ASSUME NEW c \in Consumers
                 PROVE  /\ at[c].stream = Unstarted /\ at[c].cursor = 0
                        /\ base[c] = 0 /\ seen[c] = << >> /\ reply[c] = {}
                        /\ hub.stream # Unstarted
                        /\ 0 <= starts
        BY StreamIdsAreNumbers DEF ConsumerInv
    <2> QED
        BY <1>1, <1>3 DEF Init
<1> QED
    BY <1>4, <1>5, <1>6 DEF IInv

(* What the invariant says of the parts of a state, for the steps below.   *)
LEMMA Parts ==
    ASSUME IInv
    PROVE  /\ hub \in Hub!HubState /\ saved \in Hub!HubState
           /\ hub.stream \in StreamIds /\ hub.next \in Nat
           /\ saved.next \in Nat
           /\ log[hub.stream] \in Seq(Hub!Source)
           /\ Len(log[hub.stream]) \in Nat
           /\ starts \in Nat
           /\ \A c \in Consumers :
                 /\ at[c].cursor \in Nat /\ base[c] \in Nat
                 /\ at[c].stream \in StreamIds \cup {Unstarted}
                 /\ at[c] = [stream |-> at[c].stream, cursor |-> at[c].cursor]
                 /\ seen[c] \in Seq(Hub!Source)
<1>1. TypeOK
    BY DEF IInv
<1>2. hub.stream \in StreamIds /\ hub.next \in Nat /\ saved.next \in Nat
    BY <1>1, HubFields DEF TypeOK
<1>3. log[hub.stream] \in Seq(Hub!Source)
    BY <1>1, <1>2 DEF TypeOK
<1>4. starts \in Nat
    BY <1>1, StreamIdsAreNumbers DEF TypeOK
<1> QED
    BY <1>1, <1>2, <1>3, <1>4, LenProperties DEF TypeOK

-----------------------------------------------------------------------------
(* The steps of the host                                                   *)

(* What consumers know stays true while their stream goes on.              *)
LEMMA GrowthKeepsConsumers ==
    ASSUME IInv,
           hub'.stream = hub.stream, hub.next <= hub'.next, hub'.next \in Nat,
           log'[hub.stream] \in Seq(Hub!Source),
           Len(log[hub.stream]) <= Len(log'[hub.stream]),
           \A i \in 1 .. Len(log[hub.stream]) : log'[hub.stream][i] = log[hub.stream][i],
           UNCHANGED <<at, base, seen, lost, reply, up, starts>>
    PROVE  ConsumerInv'
<1> DEFINE l == log[hub.stream]
           k == log'[hub.stream]
<1>1. /\ hub.next \in Nat /\ l \in Seq(Hub!Source) /\ Len(l) \in Nat
      /\ k \in Seq(Hub!Source) /\ Len(k) \in Nat /\ Len(l) <= Len(k)
      /\ \A i \in 1 .. Len(l) : k[i] = l[i]
    BY Parts, LenProperties
<1> SUFFICES ASSUME NEW c \in Consumers
             PROVE  (/\ at[c].stream <= starts
                     /\ at[c].stream = Unstarted =>
                           at[c].cursor = 0 /\ base[c] = 0 /\ seen[c] = << >>
                     /\ c \notin lost /\ at[c].stream = hub.stream =>
                           base[c] <= at[c].cursor /\ UpToDate(c)
                     /\ \A r \in reply[c] : up /\ AnswerOK(c, r))'
    BY DEF ConsumerInv
<1>2. /\ at[c].stream <= starts
      /\ at[c].stream = Unstarted => at[c].cursor = 0 /\ base[c] = 0 /\ seen[c] = << >>
      /\ c \notin lost /\ at[c].stream = hub.stream =>
            base[c] <= at[c].cursor /\ UpToDate(c)
      /\ \A r \in reply[c] : up /\ AnswerOK(c, r)
    BY DEF IInv, ConsumerInv
<1>3. at[c].cursor \in Nat /\ base[c] \in Nat
    BY Parts
<1>4. UpToDate(c) => UpToDate(c)'
    <2> SUFFICES ASSUME UpToDate(c)
                 PROVE  UpToDate(c)'
        OBVIOUS
    <2>1. at[c].cursor <= Len(l) /\ seen[c] = SubSeq(l, base[c] + 1, at[c].cursor)
        BY DEF UpToDate
    <2> DEFINE m == at[c].cursor
               b == base[c]
    <2>2. m \in Nat /\ b \in Nat /\ m <= Len(l)
        BY <1>3, <2>1
    <2> HIDE DEF l, k, m, b
    <2>3. \A i \in 1 .. m : k[i] = l[i]
        BY <1>1, <2>2
    <2>4. SubSeq(k, b + 1, m) = SubSeq(l, b + 1, m)
        BY <1>1, <2>2, <2>3, SameSlice
    <2>5. SubSeq(k, base[c] + 1, at[c].cursor) = SubSeq(l, base[c] + 1, at[c].cursor)
        BY <2>4 DEF m, b
    <2>6. at[c].cursor <= Len(k)
        BY <1>1, <1>3, <2>1
    <2> QED
        BY <2>1, <2>5, <2>6 DEF UpToDate, k
<1>5. ASSUME NEW r \in reply[c], AnswerOK(c, r)
      PROVE  AnswerOK(c, r)'
    <2>1. r \in Answer
        BY DEF IInv, TypeOK
    <2>2. r.current \in Nat /\ r.events \in Seq(Hub!Event) /\ Len(r.events) \in Nat
        BY <2>1, LenProperties DEF Answer
    <2>3. PageAfter(r.events, at[c].cursor, l) => PageAfter(r.events, at[c].cursor, k)
        <3> SUFFICES ASSUME PageAfter(r.events, at[c].cursor, l)
                     PROVE  PageAfter(r.events, at[c].cursor, k)
            OBVIOUS
        <3> DEFINE a == at[c].cursor
                   p == r.events
        <3>1. /\ a \in Nat /\ Len(p) \in Nat
              /\ a + Len(p) <= Len(l)
              /\ \A i \in 1 .. Len(p) : p[i].cursor = a + i /\ p[i].current = l[a + i]
            BY <1>3, <2>2 DEF PageAfter
        <3> HIDE DEF l, k, a, p
        <3>2. a + Len(p) <= Len(k)
            BY <1>1, <3>1
        <3>3. \A i \in 1 .. Len(p) : a + i \in 1 .. Len(l)
            BY <1>1, <3>1
        <3>4. \A i \in 1 .. Len(p) : p[i].cursor = a + i /\ p[i].current = k[a + i]
            BY <1>1, <3>1, <3>3
        <3> QED
            BY <3>2, <3>4 DEF PageAfter, a, p
    <2>4. r.current <= hub'.next
        BY <1>1, <1>5, <2>2 DEF AnswerOK
    <2>5. at[c].cursor + Capacity < hub.next => at[c].cursor + Capacity < hub'.next
        BY <1>1, <1>3, DeliveryAssumption
    <2> QED
        BY <1>5, <2>3, <2>4, <2>5 DEF AnswerOK
<1> QED
    BY <1>2, <1>4, <1>5

LEMMA PublishIInv ==
    ASSUME IInv, NEW w \in Workers, NEW src \in Hub!Source,
           Publish(w, src)
    PROVE  IInv'
<1> DEFINE l == log[hub.stream]
           k == Append(l, src)
<1>1. /\ TypeOK /\ HostInv
      /\ hub \in Hub!HubState /\ saved \in Hub!HubState /\ hub.stream \in StreamIds
      /\ hub.next \in Nat /\ saved.next \in Nat
      /\ l \in Seq(Hub!Source) /\ Len(l) \in Nat /\ starts \in Nat
    BY Parts DEF IInv
<1>2. Window(hub, l) /\ hub.next = Len(l) /\ Window(saved, l) /\ saved.stream = hub.stream
    BY <1>1 DEF HostInv
<1>3. hub' = Hub!Pushed(hub, src)
    BY DEF Publish, Hub!Push
<1>4. /\ hub' \in Hub!HubState /\ hub'.stream = hub.stream /\ hub'.next = hub.next + 1
      /\ Window(hub', k)
    BY <1>1, <1>2, <1>3, PushedWindow
<1>5. /\ k \in Seq(Hub!Source) /\ Len(k) = Len(l) + 1
      /\ \A i \in 1 .. Len(l) : k[i] = l[i]
    BY <1>1, AppendProperties
<1>6. log' = [log EXCEPT ![hub.stream] = k]
    BY DEF Publish
<1>7. log'[hub.stream] = k /\ log' \in [StreamIds -> Seq(Hub!Source)]
    BY <1>1, <1>5, <1>6 DEF TypeOK
<1> HIDE DEF l, k
<1>8. \A h \in Hub!HubState : Window(h, l) => Window(h, k)
    <2> SUFFICES ASSUME NEW h \in Hub!HubState, Window(h, l)
                 PROVE  Window(h, k)
        OBVIOUS
    <2>1. h.next \in Nat /\ h.next <= Len(l)
        BY HubFields DEF Window
    <2>2. h.next <= Len(k) /\ \A i \in 1 .. h.next : k[i] = l[i]
        BY <1>1, <1>5, <2>1
    <2> QED
        BY <2>2, WindowOfPrefix
<1>9. TypeOK'
    <2>1. pc' \in [Workers -> {"idle", "pushed", "encoded"}]
        BY <1>1 DEF Publish, TypeOK
    <2> QED
        BY <1>1, <1>4, <1>7, <2>1 DEF Publish, TypeOK
<1>10. HostInv'
    <2>1. Window(hub', log'[hub'.stream]) /\ hub'.next = Len(log'[hub'.stream])
        BY <1>2, <1>4, <1>5, <1>7
    <2>2. saved'.stream = hub'.stream /\ Window(saved', log'[hub'.stream])
        BY <1>1, <1>2, <1>4, <1>7, <1>8 DEF Publish
    <2>3. ASSUME NEW v \in Workers, pc'[v] = "encoded"
          PROVE  snap'[v].stream = hub'.stream /\ Window(snap'[v], log'[hub'.stream])
        <3>1. pc[v] = "encoded" /\ snap'[v] = snap[v] /\ snap[v] \in Hub!HubState
            BY <1>1, <2>3 DEF Publish, TypeOK
        <3> QED
            BY <1>1, <1>4, <1>7, <1>8, <3>1 DEF HostInv, l
    <2>4. hub'.stream <= starts' /\ up'
        BY <1>1, <1>4 DEF Publish, HostInv
    <2>5. \A s \in StreamIds : s > starts' => log'[s] = << >>
        <3> SUFFICES ASSUME NEW s \in StreamIds, s > starts
                     PROVE  log'[s] = << >>
            BY DEF Publish
        <3>1. s # hub.stream
            BY <1>1, StreamIdsAreNumbers DEF HostInv
        <3> QED
            BY <1>1, <1>6, <3>1 DEF HostInv, TypeOK
    <2> QED
        BY <2>1, <2>2, <2>3, <2>4, <2>5 DEF HostInv
<1>11. ConsumerInv'
    <2>1. UNCHANGED <<at, base, seen, lost, reply, up, starts>>
        BY DEF Publish
    <2>2. Len(log[hub.stream]) <= Len(log'[hub.stream])
        BY <1>1, <1>5, <1>7 DEF l
    <2>3. \A i \in 1 .. Len(log[hub.stream]) : log'[hub.stream][i] = log[hub.stream][i]
        BY <1>5, <1>7 DEF l
    <2>4. hub.next <= hub'.next /\ hub'.next \in Nat
        BY <1>1, <1>4
    <2> QED
        BY <1>4, <1>5, <1>7, <2>1, <2>2, <2>3, <2>4, GrowthKeepsConsumers
<1> QED
    BY <1>9, <1>10, <1>11 DEF IInv

LEMMA SnapshotIInv ==
    ASSUME IInv, NEW w \in Workers, Snapshot(w)
    PROVE  IInv'
<1>1. TypeOK /\ HostInv /\ ConsumerInv
    BY DEF IInv
<1>2. TypeOK'
    BY <1>1 DEF Snapshot, TypeOK
<1>3. \A v \in Workers : pc'[v] = "encoded" =>
          snap'[v].stream = hub.stream /\ Window(snap'[v], log[hub.stream])
    BY <1>1 DEF Snapshot, TypeOK, HostInv
<1>4. HostInv'
    BY <1>1, <1>3 DEF Snapshot, HostInv
<1>5. ConsumerInv'
    BY <1>1 DEF Snapshot, ConsumerInv, UpToDate, AnswerOK
<1> QED
    BY <1>2, <1>4, <1>5 DEF IInv

LEMMA RenameIInv ==
    ASSUME IInv, NEW w \in Workers, Rename(w)
    PROVE  IInv'
<1>1. TypeOK /\ HostInv /\ ConsumerInv
    BY DEF IInv
<1>2. Idle \in Hub!HubState
    BY EmptySeq, StreamIdsAreNumbers DEF Idle, Hub!NewHub, Hub!HubState
<1>3. TypeOK'
    BY <1>1, <1>2 DEF Rename, TypeOK
<1>4. \A v \in Workers : pc'[v] = "encoded" =>
          snap'[v].stream = hub.stream /\ Window(snap'[v], log[hub.stream])
    BY <1>1 DEF Rename, TypeOK, HostInv
<1>5. saved'.stream = hub.stream /\ Window(saved', log[hub.stream])
    BY <1>1 DEF Rename, HostInv
<1>6. HostInv'
    BY <1>1, <1>4, <1>5 DEF Rename, HostInv
<1>7. ConsumerInv'
    BY <1>1 DEF Rename, ConsumerInv, UpToDate, AnswerOK
<1> QED
    BY <1>3, <1>6, <1>7 DEF IInv

LEMMA PersistFailsIInv ==
    ASSUME IInv, NEW w \in Workers, PersistFails(w)
    PROVE  IInv'
<1>1. TypeOK /\ HostInv /\ ConsumerInv
    BY DEF IInv
<1>2. Idle \in Hub!HubState
    BY EmptySeq, StreamIdsAreNumbers DEF Idle, Hub!NewHub, Hub!HubState
<1>3. TypeOK'
    BY <1>1, <1>2 DEF PersistFails, TypeOK
<1>4. \A v \in Workers : pc'[v] = "encoded" =>
          snap'[v].stream = hub.stream /\ Window(snap'[v], log[hub.stream])
    BY <1>1 DEF PersistFails, TypeOK, HostInv
<1>5. HostInv'
    BY <1>1, <1>4 DEF PersistFails, HostInv
<1>6. ConsumerInv'
    BY <1>1 DEF PersistFails, ConsumerInv, UpToDate, AnswerOK
<1> QED
    BY <1>3, <1>5, <1>6 DEF IInv

LEMMA CrashIInv ==
    ASSUME IInv, Crash
    PROVE  IInv'
<1>1. TypeOK /\ HostInv /\ ConsumerInv
    BY DEF IInv
<1>2. Idle \in Hub!HubState
    BY EmptySeq, StreamIdsAreNumbers DEF Idle, Hub!NewHub, Hub!HubState
<1>3. TypeOK'
    BY <1>1, <1>2 DEF Crash, TypeOK
<1>4. HostInv'
    BY <1>1 DEF Crash, HostInv
<1>5. ConsumerInv'
    BY <1>1 DEF Crash, ConsumerInv, UpToDate
<1> QED
    BY <1>3, <1>4, <1>5 DEF IInv

(* A new host goes on with the saved prefix of its stream, or starts one   *)
(* that told nothing; either way it tells at most one change.              *)
LEMMA RestartTells ==
    ASSUME IInv, NEW continuous \in BOOLEAN,
           NEW changed \in AtMostOneSource, Restart(continuous, changed)
    PROVE  /\ hub' \in Hub!HubState /\ saved' = hub'
           /\ Window(hub', log'[hub'.stream]) /\ hub'.next = Len(log'[hub'.stream])
           /\ log' \in [StreamIds -> Seq(Hub!Source)]
           /\ continuous =>
                 /\ hub'.stream = hub.stream
                 /\ saved.next \in 0 .. Len(log[hub.stream])
                 /\ saved.next <= Len(log'[hub.stream])
                 /\ \A i \in 1 .. saved.next : log'[hub.stream][i] = log[hub.stream][i]
                 /\ log' = [log EXCEPT ![hub.stream] =
                                  SubSeq(log[hub.stream], 1, saved.next) \o changed]
                 /\ lost' = lost \cup {c \in Consumers :
                                at[c].stream = hub.stream /\ at[c].cursor > saved.next}
           /\ ~continuous =>
                 /\ starts + 1 \in StreamIds
                 /\ hub'.stream = starts + 1
                 /\ log' = [log EXCEPT ![starts + 1] = changed]
                 /\ lost' = lost
<1> DEFINE start == IF continuous THEN Hub!Restored(saved) ELSE Hub!NewHub(starts + 1)
           now == IF changed = << >> THEN start ELSE Hub!Pushed(start, changed[1])
           cut == SubSeq(log[start.stream], 1, start.next)
<1>1. /\ TypeOK /\ HostInv /\ ConsumerInv
      /\ saved \in Hub!HubState /\ hub.stream \in StreamIds /\ saved.next \in Nat
      /\ log[hub.stream] \in Seq(Hub!Source) /\ Len(log[hub.stream]) \in Nat
      /\ starts \in Nat
    BY Parts DEF IInv
<1>2. /\ ~up /\ hub' = now /\ saved' = now
      /\ log' = [log EXCEPT ![start.stream] = cut \o changed]
      /\ lost' = lost \cup Ahead(start)
    BY DEF Restart
<1>3. continuous => start = saved
    BY <1>1, WindowIsRestored DEF HostInv
<1>4. ~continuous => /\ starts + 1 \in StreamIds
                     /\ start = Hub!NewHub(starts + 1)
                     /\ log[starts + 1] = << >>
    BY <1>1, <1>2, DeliveryAssumption DEF HostInv, StreamIds
<1>5. /\ changed \in Seq(Hub!Source)
      /\ changed # << >> => changed[1] \in Hub!Source /\ changed = << changed[1] >>
    <2>1. CASE changed = << >>
        BY <2>1, EmptySeq
    <2>2. CASE changed # << >>
        <3>1. PICK src \in Hub!Source : changed = << src >>
            BY <2>2 DEF AtMostOneSource
        <3>2. << src >> \in Seq(Hub!Source) /\ << src >>[1] = src
            OBVIOUS
        <3> QED
            BY <3>1, <3>2
    <2> QED
        BY <2>1, <2>2
<1>6. /\ start \in Hub!HubState /\ start.stream \in StreamIds
      /\ cut \in Seq(Hub!Source) /\ start.next = Len(cut) /\ Window(start, cut)
    <2>1. CASE continuous
        <3> DEFINE l == log[hub.stream]
        <3>1. start = saved /\ saved.stream = hub.stream /\ Window(saved, l)
            BY <2>1, <1>1, <1>3 DEF HostInv
        <3>2. saved.next <= Len(l)
            BY <3>1 DEF Window
        <3>3. cut = SubSeq(l, 1, saved.next)
            BY <3>1
        <3> HIDE DEF cut, start, l
        <3>4. l \in Seq(Hub!Source) /\ Len(l) \in Nat
            BY <1>1 DEF l
        <3>5. \A i \in 1 .. saved.next : i \in 1 .. Len(l)
            BY <1>1, <3>2, <3>4
        <3>6. \A i \in 1 .. saved.next : l[i] \in Hub!Source
            BY <3>4, <3>5, ElementOfSeq
        <3>7. /\ cut \in Seq(Hub!Source)
              /\ Len(cut) = IF 1 <= saved.next THEN saved.next - 1 + 1 ELSE 0
              /\ \A i \in 1 .. saved.next - 1 + 1 : cut[i] = l[1 + i - 1]
            BY <1>1, <3>3, <3>6, SubSeqProperties
        <3>8. Len(cut) = saved.next /\ \A i \in 1 .. saved.next : cut[i] = l[i]
            BY <1>1, <3>7
        <3>9. Window(saved, cut)
            BY <1>1, <3>1, <3>8, WindowOfPrefix
        <3> QED
            BY <1>1, <3>1, <3>7, <3>8, <3>9
    <2>2. CASE ~continuous
        <3> DEFINE s == starts + 1
        <3>1. s \in StreamIds /\ start = Hub!NewHub(s) /\ log[s] = << >>
            BY <2>2, <1>4
        <3> HIDE DEF start, s
        <3>2. /\ start \in Hub!HubState /\ start.stream = s /\ start.next = 0
              /\ \A l \in Seq(Hub!Source) : Window(start, l)
            <4>1. << >> \in Seq(Hub!Source)
                BY EmptySeq
            <4>2. /\ Hub!NewHub(s) \in Hub!HubState
                  /\ Hub!NewHub(s).stream = s /\ Hub!NewHub(s).next = 0
                BY <3>1, <4>1, NewHubWindow
            <4>3. ASSUME NEW l \in Seq(Hub!Source)
                  PROVE  Window(Hub!NewHub(s), l)
                BY <3>1, NewHubWindow
            <4> QED
                BY <3>1, <4>2, <4>3
        <3>3. cut = SubSeq(<< >>, 1, 0)
            BY <3>1, <3>2
        <3>4. SubSeq(<< >>, 1, 0) = << >>
            BY SubSeqEmpty
        <3> HIDE DEF cut
        <3>5. cut = << >> /\ cut \in Seq(Hub!Source) /\ Len(cut) = 0
            BY <3>3, <3>4, EmptySeq
        <3> QED
            BY <3>1, <3>2, <3>5
    <2> QED
        BY <2>1, <2>2
<1>7. /\ now \in Hub!HubState /\ now.stream = start.stream
      /\ Window(now, cut \o changed) /\ now.next = Len(cut \o changed)
      /\ cut \o changed \in Seq(Hub!Source)
      /\ Len(cut) <= Len(cut \o changed)
      /\ \A i \in 1 .. Len(cut) : (cut \o changed)[i] = cut[i]
    <2> HIDE DEF start, cut
    <2>1. CASE changed = << >>
        <3>1. cut \o changed = cut /\ now = start
            BY <2>1, <1>6, ConcatEmptySeq
        <3> QED
            BY <3>1, <1>6, LenProperties
    <2>2. CASE changed # << >>
        <3>1. now = Hub!Pushed(start, changed[1]) /\ cut \o changed = Append(cut, changed[1])
            BY <2>2, <1>5, <1>6, AppendIsConcat
        <3>2. /\ now \in Hub!HubState /\ now.stream = start.stream
              /\ now.next = start.next + 1 /\ Window(now, Append(cut, changed[1]))
            BY <2>2, <1>5, <1>6, <3>1, PushedWindow
        <3>3. /\ Append(cut, changed[1]) \in Seq(Hub!Source)
              /\ Len(Append(cut, changed[1])) = Len(cut) + 1
              /\ \A i \in 1 .. Len(cut) : Append(cut, changed[1])[i] = cut[i]
            BY <2>2, <1>5, <1>6, AppendProperties
        <3>4. Len(cut) \in Nat
            BY <1>6, LenProperties
        <3> HIDE DEF now
        <3> QED
            BY <1>6, <3>1, <3>2, <3>3, <3>4
    <2> QED
        BY <2>1, <2>2
<1>8. /\ log' \in [StreamIds -> Seq(Hub!Source)]
      /\ log'[start.stream] = cut \o changed
    <2> HIDE DEF start, cut, now
    <2> QED
        BY <1>1, <1>2, <1>6, <1>7 DEF TypeOK
<1>9. ASSUME continuous
      PROVE  /\ hub'.stream = hub.stream
             /\ saved.next \in 0 .. Len(log[hub.stream])
             /\ saved.next <= Len(log'[hub.stream])
             /\ \A i \in 1 .. saved.next : log'[hub.stream][i] = log[hub.stream][i]
             /\ log' = [log EXCEPT ![hub.stream] =
                            SubSeq(log[hub.stream], 1, saved.next) \o changed]
             /\ lost' = lost \cup {c \in Consumers :
                            at[c].stream = hub.stream /\ at[c].cursor > saved.next}
    <2>1. start = saved /\ saved.stream = hub.stream /\ Window(saved, log[hub.stream])
        BY <1>1, <1>3, <1>9 DEF HostInv
    <2>2. saved.next \in 0 .. Len(log[hub.stream])
        BY <1>1, <2>1 DEF Window
    <2>3. cut = SubSeq(log[hub.stream], 1, saved.next)
        BY <2>1
    <2>4. \A i \in 1 .. saved.next : cut[i] = log[hub.stream][i]
        <3> DEFINE l == log[hub.stream]
        <3>1. \A i \in 1 .. saved.next : i \in 1 .. Len(l)
            BY <1>1, <2>2
        <3>2. \A i \in 1 .. saved.next : l[i] \in Hub!Source
            BY <1>1, <3>1, ElementOfSeq
        <3> HIDE DEF l, cut, start
        <3>3. \A i \in 1 .. saved.next - 1 + 1 : cut[i] = l[1 + i - 1]
            BY <1>1, <2>3, <3>2, SubSeqProperties DEF l
        <3>4. \A i \in 1 .. saved.next : cut[i] = l[i]
            BY <1>1, <3>3
        <3> QED
            BY <3>4 DEF l
    <2>5. Ahead(start) = {c \in Consumers :
                              at[c].stream = hub.stream /\ at[c].cursor > saved.next}
        BY <2>1 DEF Ahead
    <2> HIDE DEF start, cut, now
    <2>6. saved.next = Len(cut) /\ start.stream = hub.stream
        BY <1>6, <2>1
    <2> QED
        <3>1. hub' = now /\ lost' = lost \cup Ahead(start)
              /\ log' = [log EXCEPT ![hub.stream] = cut \o changed]
            BY <1>2, <2>6
        <3>2. log'[hub.stream] = cut \o changed
            BY <1>8, <2>6
        <3>3. saved.next <= Len(log'[hub.stream])
            BY <1>7, <2>6, <3>2
        <3>4. \A i \in 1 .. saved.next : log'[hub.stream][i] = log[hub.stream][i]
            BY <1>7, <2>4, <2>6, <3>2
        <3>5. hub'.stream = hub.stream
            BY <1>7, <2>6, <3>1
        <3> QED
            BY <2>2, <2>3, <2>5, <3>1, <3>3, <3>4, <3>5
<1>10. ASSUME ~continuous
       PROVE  /\ starts + 1 \in StreamIds
              /\ hub'.stream = starts + 1
              /\ log' = [log EXCEPT ![starts + 1] = changed]
              /\ lost' = lost
    <2>1. start.stream = starts + 1 /\ start.next = 0
        BY <1>4, <1>10 DEF Hub!NewHub
    <2>2. Ahead(start) = {}
        <3>1. \A c \in Consumers : at[c].stream <= starts /\ at[c].stream \in Nat
            BY <1>1, Parts, StreamIdsAreNumbers DEF ConsumerInv
        <3>2. \A c \in Consumers : at[c].stream # starts + 1
            BY <1>1, <3>1
        <3> QED
            BY <2>1, <3>2 DEF Ahead
    <2>3. cut = << >>
        <3>1. log[start.stream] = << >>
            BY <1>4, <1>10, <2>1
        <3>2. cut = SubSeq(<< >>, 1, 0)
            BY <2>1, <3>1
        <3>3. SubSeq(<< >>, 1, 0) = << >>
            BY SubSeqEmpty
        <3> HIDE DEF cut
        <3> QED
            BY <3>2, <3>3
    <2>4. cut \o changed = changed
        BY <2>3, <1>5, ConcatEmptySeq
    <2> HIDE DEF start, cut, now
    <2> QED
        BY <1>2, <1>4, <1>7, <1>10, <2>1, <2>2, <2>4
<1> QED
    <2> HIDE DEF start, cut, now
    <2> QED
        BY <1>2, <1>7, <1>8, <1>9, <1>10

LEMMA RestartIInv ==
    ASSUME IInv, NEW continuous \in BOOLEAN,
           NEW changed \in AtMostOneSource, Restart(continuous, changed)
    PROVE  IInv'
<1>1. /\ TypeOK /\ HostInv /\ ConsumerInv
      /\ hub.stream \in StreamIds /\ starts \in Nat /\ StreamIds \subseteq Nat
      /\ log[hub.stream] \in Seq(Hub!Source) /\ Len(log[hub.stream]) \in Nat
      /\ saved.next \in Nat
    BY Parts, StreamIdsAreNumbers DEF IInv
<1>2. /\ hub' \in Hub!HubState /\ saved' = hub'
      /\ Window(hub', log'[hub'.stream]) /\ hub'.next = Len(log'[hub'.stream])
      /\ log' \in [StreamIds -> Seq(Hub!Source)]
    BY RestartTells
<1>3. /\ ~up /\ up' = TRUE /\ starts' = starts + 1
      /\ UNCHANGED <<pc, snap, at, reply, base, seen>>
    BY DEF Restart
<1>4. starts < MaxStarts /\ starts + 1 \in StreamIds
    BY <1>1, <1>3, DeliveryAssumption DEF HostInv, StreamIds
<1>5. continuous =>
          /\ hub'.stream = hub.stream
          /\ saved.next <= Len(log'[hub.stream])
          /\ saved.next <= Len(log[hub.stream])
          /\ \A i \in 1 .. saved.next : log'[hub.stream][i] = log[hub.stream][i]
          /\ \A s \in StreamIds : s # hub.stream => log'[s] = log[s]
          /\ lost' = lost \cup {c \in Consumers :
                            at[c].stream = hub.stream /\ at[c].cursor > saved.next}
    <2> SUFFICES ASSUME continuous
                 PROVE  /\ hub'.stream = hub.stream
                        /\ saved.next <= Len(log'[hub.stream])
                        /\ saved.next <= Len(log[hub.stream])
                        /\ \A i \in 1 .. saved.next : log'[hub.stream][i] = log[hub.stream][i]
                        /\ \A s \in StreamIds : s # hub.stream => log'[s] = log[s]
                        /\ lost' = lost \cup {c \in Consumers :
                                   at[c].stream = hub.stream /\ at[c].cursor > saved.next}
        OBVIOUS
    <2>1. /\ hub'.stream = hub.stream
          /\ saved.next \in 0 .. Len(log[hub.stream])
          /\ saved.next <= Len(log'[hub.stream])
          /\ \A i \in 1 .. saved.next : log'[hub.stream][i] = log[hub.stream][i]
          /\ log' = [log EXCEPT ![hub.stream] =
                            SubSeq(log[hub.stream], 1, saved.next) \o changed]
          /\ lost' = lost \cup {c \in Consumers :
                            at[c].stream = hub.stream /\ at[c].cursor > saved.next}
        BY RestartTells
    <2>2. \A s \in StreamIds : s # hub.stream => log'[s] = log[s]
        BY <1>1, <2>1 DEF TypeOK
    <2>3. saved.next <= Len(log[hub.stream])
        BY <1>1, <2>1
    <2> QED
        BY <2>1, <2>2, <2>3
<1>6. ~continuous =>
          /\ hub'.stream = starts + 1
          /\ \A s \in StreamIds : s # starts + 1 => log'[s] = log[s]
          /\ lost' = lost
    <2> SUFFICES ASSUME ~continuous
                 PROVE  log' = [log EXCEPT ![starts + 1] = changed]
        BY <1>1, RestartTells DEF TypeOK
    <2> QED
        BY RestartTells
<1>7. hub'.stream <= starts + 1 /\ hub.stream <= starts
    <2>1. hub.stream \in Nat /\ hub.stream <= starts
        BY <1>1 DEF HostInv
    <2>2. hub'.stream = hub.stream \/ hub'.stream = starts + 1
        BY <1>5, <1>6
    <2> QED
        BY <1>1, <2>1, <2>2
<1>8. TypeOK'
    <2>1. lost' \subseteq Consumers
        BY <1>1, <1>5, <1>6 DEF TypeOK
    <2> QED
        BY <1>1, <1>2, <1>3, <1>4, <2>1 DEF TypeOK
<1>9. HostInv'
    <2>1. \A s \in StreamIds : s > starts + 1 => log'[s] = << >>
        <3> SUFFICES ASSUME NEW s \in StreamIds, s > starts + 1
                     PROVE  log'[s] = << >>
            OBVIOUS
        <3>1. s # hub.stream /\ s # starts + 1 /\ s > starts
            BY <1>1, <1>7
        <3>2. log[s] = << >>
            BY <1>1, <3>1 DEF HostInv
        <3> QED
            BY <1>5, <1>6, <3>1, <3>2
    <2>2. \A w \in Workers : pc[w] # "encoded"
        BY <1>1, <1>3 DEF HostInv
    <2> QED
        BY <1>2, <1>3, <1>7, <2>1, <2>2 DEF HostInv
<1>10. ConsumerInv'
    <2> SUFFICES ASSUME NEW c \in Consumers
                 PROVE  (/\ at[c].stream <= starts
                         /\ at[c].stream = Unstarted =>
                               at[c].cursor = 0 /\ base[c] = 0 /\ seen[c] = << >>
                         /\ c \notin lost /\ at[c].stream = hub.stream =>
                               base[c] <= at[c].cursor /\ UpToDate(c)
                         /\ \A r \in reply[c] : up /\ AnswerOK(c, r))'
        BY DEF ConsumerInv
    <2>1. /\ at[c].stream <= starts
          /\ at[c].stream = Unstarted => at[c].cursor = 0 /\ base[c] = 0 /\ seen[c] = << >>
          /\ c \notin lost /\ at[c].stream = hub.stream =>
                base[c] <= at[c].cursor /\ UpToDate(c)
          /\ reply[c] = {}
        BY <1>1, <1>3 DEF ConsumerInv
    <2>2. /\ at[c].cursor \in Nat /\ base[c] \in Nat /\ at[c].stream \in Nat
        <3>1. /\ at[c].cursor \in Nat /\ base[c] \in Nat
              /\ at[c].stream \in StreamIds \cup {Unstarted}
            BY Parts
        <3>2. StreamIds \subseteq Nat /\ Unstarted = 0
            BY StreamIdsAreNumbers
        <3> HIDE DEF Unstarted
        <3>3. Unstarted \in Nat
            BY <3>2
        <3> QED
            BY <3>1, <3>2, <3>3
    <2>3. at'[c].stream <= starts' /\ reply'[c] = {}
        BY <1>1, <1>3, <2>1, <2>2
    <2>4. ASSUME c \notin lost', at[c].stream = hub'.stream
          PROVE  base[c] <= at[c].cursor /\ UpToDate(c)'
        <3> DEFINE l == log[hub.stream]
                   k == log'[hub.stream]
                   m == at[c].cursor
                   b == base[c]
        <3>1. continuous
            BY <1>1, <1>6, <2>1, <2>2, <2>4
        <3>2. c \notin lost /\ at[c].stream = hub.stream /\ m <= saved.next
            BY <1>1, <1>5, <2>2, <2>4, <3>1
        <3>3. b <= m /\ UpToDate(c)
            BY <2>1, <3>2
        <3>4. m <= Len(l) /\ seen[c] = SubSeq(l, b + 1, m)
            BY <3>3 DEF UpToDate
        <3>5. k \in Seq(Hub!Source) /\ l \in Seq(Hub!Source) /\ Len(k) \in Nat
            BY <1>1, <1>2, LenProperties
        <3>6. saved.next <= Len(k) /\ \A i \in 1 .. saved.next : k[i] = l[i]
            BY <1>5, <3>1
        <3> HIDE DEF l, k, m, b
        <3>7. m \in Nat /\ b \in Nat
            BY <2>2 DEF m, b
        <3>8. \A i \in 1 .. m : k[i] = l[i]
            BY <1>1, <3>2, <3>6, <3>7
        <3>9. SubSeq(k, b + 1, m) = SubSeq(l, b + 1, m)
            BY <3>4, <3>5, <3>7, <3>8, SameSlice
        <3>10. m <= Len(k)
            BY <1>1, <3>2, <3>5, <3>6, <3>7
        <3>11. hub'.stream = hub.stream
            BY <1>5, <3>1
        <3> QED
            BY <1>3, <3>3, <3>4, <3>9, <3>10, <3>11 DEF UpToDate, k, m, b
    <2> QED
        BY <1>3, <2>1, <2>3, <2>4
<1> QED
    BY <1>8, <1>9, <1>10 DEF IInv

-----------------------------------------------------------------------------
(* The steps of the consumers                                              *)

(* What a step of one consumer leaves as it is for the others.             *)
LEMMA OthersUnmoved ==
    ASSUME IInv, NEW c \in Consumers, NEW d \in Consumers, d # c,
           UNCHANGED hostVars,
           at'[d] = at[d], base'[d] = base[d], seen'[d] = seen[d],
           reply'[d] = reply[d], d \in lost' <=> d \in lost
    PROVE  (/\ at[d].stream <= starts
            /\ at[d].stream = Unstarted => at[d].cursor = 0 /\ base[d] = 0 /\ seen[d] = << >>
            /\ d \notin lost /\ at[d].stream = hub.stream =>
                  base[d] <= at[d].cursor /\ UpToDate(d)
            /\ \A r \in reply[d] : up /\ AnswerOK(d, r))'
<1>1. ConsumerInv
    BY DEF IInv
<1> QED
    BY <1>1 DEF ConsumerInv, UpToDate, AnswerOK, hostVars

LEMMA PollIInv ==
    ASSUME IInv, NEW c \in Consumers, NEW max \in PageSizes,
           Poll(c, max)
    PROVE  IInv'
<1> DEFINE a == at[c].cursor
           s == at[c].stream
           l == log[hub.stream]
           r == Hub!PollFor(hub, s, a, max)
<1>1. /\ TypeOK /\ HostInv /\ ConsumerInv
      /\ hub \in Hub!HubState /\ hub.stream \in StreamIds /\ hub.next \in Nat
      /\ l \in Seq(Hub!Source) /\ Len(l) \in Nat
      /\ a \in Nat /\ s \in StreamIds \cup {Unstarted}
      /\ max \in Nat
    BY Parts, DeliveryAssumption DEF IInv
<1>2. Window(hub, l) /\ hub.next = Len(l)
    BY <1>1 DEF HostInv
<1>3. /\ up /\ UNCHANGED <<hostVars, at, base, seen, lost>>
      /\ reply' = [reply EXCEPT ![c] = {r}]
    BY DEF Poll
<1>4. reply \in [Consumers -> SUBSET Answer]
    BY <1>1 DEF TypeOK
<1>5. r = [stream |-> hub.stream, after |-> a, current |-> hub.next,
           oldest |-> Hub!Oldest(hub), reset |-> Hub!ResetRequired(hub, s, a),
           events |-> r.events]
    BY DEF Hub!PollFor
<1>6. Hub!Oldest(hub) \in Nat
    <2>1. CASE hub.events = << >>
        BY <1>1, <2>1 DEF Hub!Oldest
    <2>2. CASE hub.events # << >>
        <3>1. /\ hub.events \in Seq(Hub!Event)
              /\ 1 \in 1 .. Len(hub.events)
            BY <1>1, <2>2, HubFields, EmptySeq
        <3>2. hub.events[1] \in Hub!Event
            BY <3>1, ElementOfSeq
        <3> QED
            BY <2>2, <3>2 DEF Hub!Oldest, Hub!Event
    <2> QED
        BY <2>1, <2>2
<1>7. r.events \in Seq(Hub!Event)
    <2>1. CASE Hub!ResetRequired(hub, s, a)
        BY <2>1, EmptySeq DEF Hub!PollFor
    <2>2. CASE ~ Hub!ResetRequired(hub, s, a)
        BY <2>2, <1>1, <1>2, AnswerIsPage
    <2> QED
        BY <2>1, <2>2
<1>8. r.reset => s # hub.stream \/ c \in lost \/ (a < hub.next /\ a + Capacity < hub.next)
    <2> SUFFICES ASSUME Hub!ResetRequired(hub, s, a), s = hub.stream, c \notin lost
                 PROVE  a < hub.next /\ a + Capacity < hub.next
        BY DEF Hub!PollFor
    <2>1. a <= hub.next
        BY <1>1, <1>2 DEF ConsumerInv, UpToDate
    <2>2. a + Capacity < hub.next
        BY <1>1, <1>2, <2>1, ResetIsForCause
    <2> HIDE DEF a
    <2> QED
        BY <1>1, <2>2, DeliveryAssumption
<1>9. ~r.reset => s \in {hub.stream, Unstarted} /\ PageAfter(r.events, a, l)
    <2> SUFFICES ASSUME ~ Hub!ResetRequired(hub, s, a)
                 PROVE  s \in {hub.stream, Unstarted} /\ PageAfter(r.events, a, l)
        BY DEF Hub!PollFor
    <2>1. PageAfter(r.events, a, l)
        BY <1>1, <1>2, AnswerIsPage
    <2>2. s \in {hub.stream, Unstarted}
        BY DEF Hub!ResetRequired, Hub!StreamMismatch
    <2> QED
        BY <2>1, <2>2
<1>10. /\ r.stream = hub.stream /\ r.current = hub.next
       /\ r.reset \in BOOLEAN
    BY DEF Hub!PollFor, Hub!ResetRequired, Hub!StreamMismatch
<1>11. r \in Answer
    <2>1. Hub!ResetRequired(hub, s, a) \in BOOLEAN
        BY DEF Hub!ResetRequired, Hub!StreamMismatch
    <2> HIDE DEF r
    <2> QED
        BY <1>1, <1>5, <1>6, <1>7, <2>1 DEF Answer
<1>12. AnswerOK(c, r)
    <2> HIDE DEF r
    <2> QED
        BY <1>1, <1>8, <1>9, <1>10 DEF AnswerOK
<1> HIDE DEF r
<1>13. TypeOK'
    BY <1>1, <1>3, <1>4, <1>11 DEF TypeOK, hostVars
<1>14. HostInv'
    BY <1>1, <1>3 DEF HostInv, hostVars
<1>15. ConsumerInv'
    BY <1>1, <1>3, <1>4, <1>12 DEF ConsumerInv, UpToDate, AnswerOK, hostVars
<1> QED
    BY <1>13, <1>14, <1>15 DEF IInv

(* A consumer that takes a page reads the next changes of the live stream. *)
LEMMA TakeReads ==
    ASSUME IInv, NEW c \in Consumers, TakePage(c)
    PROVE  /\ up
           /\ at[c].stream \in {hub.stream, Unstarted}
           /\ \E n \in 0 .. Len(log[hub.stream]) - at[c].cursor :
                 /\ at' = [at EXCEPT ![c] = [stream |-> hub.stream,
                                             cursor |-> at[c].cursor + n]]
                 /\ seen' = [seen EXCEPT ![c] =
                       @ \o SubSeq(log[hub.stream], at[c].cursor + 1, at[c].cursor + n)]
           /\ reply' = [reply EXCEPT ![c] = {}]
           /\ UNCHANGED <<hostVars, base, lost>>
<1> DEFINE l == log[hub.stream]
           a == at[c].cursor
<1>1. PICK r \in reply[c] :
          /\ ~r.reset
          /\ at' = [at EXCEPT ![c] =
                      [stream |-> r.stream,
                       cursor |-> IF Len(r.events) = 0 THEN @.cursor
                                  ELSE r.events[Len(r.events)].cursor]]
          /\ seen' = [seen EXCEPT ![c] =
                        @ \o [i \in 1 .. Len(r.events) |-> r.events[i].current]]
          /\ reply' = [reply EXCEPT ![c] = {}]
          /\ UNCHANGED <<hostVars, base, lost>>
    BY DEF TakePage
<1>2. up /\ AnswerOK(c, r)
    BY <1>1 DEF IInv, ConsumerInv
<1>3. /\ r.stream = hub.stream
      /\ at[c].stream \in {hub.stream, Unstarted}
      /\ PageAfter(r.events, a, l)
    BY <1>1, <1>2 DEF AnswerOK
<1>4. l \in Seq(Hub!Source) /\ Len(l) \in Nat /\ a \in Nat /\ r.events \in Seq(Hub!Event)
    <2>1. reply \in [Consumers -> SUBSET Answer]
        BY DEF IInv, TypeOK
    <2>2. r \in Answer
        BY <2>1
    <2>3. r.events \in Seq(Hub!Event)
        BY <2>2 DEF Answer
    <2> QED
        BY <2>3, Parts
<1> DEFINE n == Len(r.events)
<1>5. n \in Nat /\ a + n <= Len(l)
    BY <1>3, <1>4, LenProperties DEF PageAfter
<1>6. n \in 0 .. Len(l) - a
    <2> HIDE DEF a, l, n
    <2> QED
        BY <1>4, <1>5
<1>7. [i \in 1 .. n |-> r.events[i].current] = SubSeq(l, a + 1, a + n)
    <2> DEFINE page == r.events
    <2> HIDE DEF a, l, page
    <2>1. page \in Seq(Hub!Event) /\ PageAfter(page, a, l)
        BY <1>3, <1>4 DEF page
    <2>2. [i \in 1 .. Len(page) |-> page[i].current] = SubSeq(l, a + 1, a + Len(page))
        BY <1>4, <2>1, PageIsSlice
    <2> QED
        BY <2>2 DEF page
<1>8. (IF n = 0 THEN a ELSE r.events[n].cursor) = a + n
    <2>1. CASE n = 0
        <3> HIDE DEF a, n
        <3> QED
            BY <2>1, <1>4
    <2>2. CASE n # 0
        <3>1. n \in 1 .. n
            BY <1>5, <2>2
        <3> QED
            BY <3>1, <2>2, <1>3 DEF PageAfter
    <2> QED
        BY <2>1, <2>2
<1>9. at' = [at EXCEPT ![c] = [stream |-> hub.stream, cursor |-> a + n]]
    BY <1>1, <1>3, <1>8
<1>10. seen' = [seen EXCEPT ![c] = @ \o SubSeq(l, a + 1, a + n)]
    BY <1>1, <1>7
<1> HIDE DEF n
<1> QED
    BY <1>1, <1>2, <1>3, <1>6, <1>9, <1>10

LEMMA TakeIInv ==
    ASSUME IInv, NEW c \in Consumers, TakePage(c)
    PROVE  IInv'
<1> DEFINE l == log[hub.stream]
           a == at[c].cursor
           b == base[c]
<1>1. /\ TypeOK /\ HostInv /\ ConsumerInv
      /\ hub.stream \in StreamIds /\ hub.stream # Unstarted
      /\ l \in Seq(Hub!Source) /\ Len(l) \in Nat
      /\ a \in Nat /\ b \in Nat /\ seen[c] \in Seq(Hub!Source)
    BY Parts, StreamIdsAreNumbers DEF IInv
<1>2. /\ up /\ at[c].stream \in {hub.stream, Unstarted}
      /\ reply' = [reply EXCEPT ![c] = {}]
      /\ UNCHANGED <<hostVars, base, lost>>
    BY TakeReads
<1>3. PICK n \in 0 .. Len(l) - a :
          /\ at' = [at EXCEPT ![c] = [stream |-> hub.stream, cursor |-> a + n]]
          /\ seen' = [seen EXCEPT ![c] = @ \o SubSeq(l, a + 1, a + n)]
    BY TakeReads
<1>4. n \in Nat /\ a + n \in Nat /\ a + n <= Len(l)
    <2> HIDE DEF l, a
    <2> QED
        BY <1>1, <1>3
<1>5. SubSeq(l, a + 1, a + n) \in Seq(Hub!Source)
    <2> HIDE DEF l, a
    <2>1. \A i \in a + 1 .. a + n : i \in 1 .. Len(l)
        BY <1>1, <1>4
    <2>2. \A i \in a + 1 .. a + n : l[i] \in Hub!Source
        BY <1>1, <2>1, ElementOfSeq
    <2>3. a + 1 \in Int /\ a + n \in Int
        BY <1>1, <1>4
    <2> QED
        BY <2>2, <2>3, SubSeqProperties
<1>6. /\ at'[c].stream = hub.stream /\ at'[c].cursor = a + n
      /\ seen'[c] = seen[c] \o SubSeq(l, a + 1, a + n)
      /\ seen'[c] \in Seq(Hub!Source)
      /\ reply'[c] = {}
    <2>1. /\ at'[c] = [stream |-> hub.stream, cursor |-> a + n]
          /\ seen'[c] = seen[c] \o SubSeq(l, a + 1, a + n)
          /\ reply'[c] = {}
        BY <1>1, <1>2, <1>3 DEF TypeOK
    <2> HIDE DEF l, a
    <2> QED
        BY <1>1, <1>5, <2>1, ConcatProperties
<1>7. TypeOK'
    <2>1. at' \in [Consumers -> [stream : StreamIds \cup {Unstarted}, cursor : Nat]]
        BY <1>1, <1>3, <1>4 DEF TypeOK
    <2>2. seen' \in [Consumers -> Seq(Hub!Source)]
        BY <1>1, <1>3, <1>6 DEF TypeOK
    <2>3. reply' \in [Consumers -> SUBSET Answer]
        BY <1>1, <1>2 DEF TypeOK
    <2> QED
        BY <1>1, <1>2, <2>1, <2>2, <2>3 DEF TypeOK, hostVars
<1>8. HostInv'
    BY <1>1, <1>2 DEF HostInv, hostVars
<1>9. c \notin lost => b <= a /\ seen[c] = SubSeq(l, b + 1, a)
    <2> SUFFICES ASSUME c \notin lost
                 PROVE  b <= a /\ seen[c] = SubSeq(l, b + 1, a)
        OBVIOUS
    <2>1. CASE at[c].stream = hub.stream
        BY <1>1, <2>1 DEF ConsumerInv, UpToDate
    <2>2. CASE at[c].stream = Unstarted
        <3>1. a = 0 /\ b = 0 /\ seen[c] = << >>
            BY <1>1, <2>2 DEF ConsumerInv
        <3>2. SubSeq(l, 1, 0) = << >>
            BY SubSeqEmpty
        <3> HIDE DEF a, b, l
        <3> QED
            BY <3>1, <3>2
    <2> QED
        BY <1>2, <2>1, <2>2
<1>10. c \notin lost => b <= a + n /\ seen'[c] = SubSeq(l, b + 1, a + n)
    <2> SUFFICES ASSUME c \notin lost
                 PROVE  b <= a + n /\ seen'[c] = SubSeq(l, b + 1, a + n)
        OBVIOUS
    <2> HIDE DEF a, b, l
    <2>1. /\ b + 1 \in 1 .. Len(l) + 1
          /\ a \in (b + 1) - 1 .. Len(l)
          /\ a + n \in a .. Len(l)
          /\ b <= a + n
        BY <1>1, <1>4, <1>9
    <2>2. SubSeq(l, b + 1, a) \o SubSeq(l, a + 1, a + n) = SubSeq(l, b + 1, a + n)
        BY <1>1, <2>1, ConcatAdjacentSubSeq
    <2> QED
        BY <1>6, <1>9, <2>1, <2>2
<1>11. ConsumerInv'
    <2> SUFFICES ASSUME NEW d \in Consumers
                 PROVE  (/\ at[d].stream <= starts
                         /\ at[d].stream = Unstarted =>
                               at[d].cursor = 0 /\ base[d] = 0 /\ seen[d] = << >>
                         /\ d \notin lost /\ at[d].stream = hub.stream =>
                               base[d] <= at[d].cursor /\ UpToDate(d)
                         /\ \A r \in reply[d] : up /\ AnswerOK(d, r))'
        BY DEF ConsumerInv
    <2>1. CASE d = c
        <3>1. hub.stream <= starts
            BY <1>1 DEF HostInv
        <3>2. c \notin lost => UpToDate(c)'
            BY <1>2, <1>4, <1>6, <1>10 DEF UpToDate, hostVars
        <3> HIDE DEF a, b, l
        <3>3. base'[c] = b /\ starts' = starts /\ lost' = lost
            BY <1>2 DEF hostVars, b
        <3> QED
            BY <2>1, <1>1, <1>6, <1>10, <3>1, <3>2, <3>3
    <2>2. CASE d # c
        <3>1. at'[d] = at[d] /\ seen'[d] = seen[d] /\ reply'[d] = reply[d]
            BY <2>2, <1>1, <1>2, <1>3 DEF TypeOK
        <3> QED
            BY <2>2, <1>2, <3>1, OthersUnmoved
    <2> QED
        BY <2>1, <2>2
<1> QED
    BY <1>7, <1>8, <1>11 DEF IInv

(* A consumer that reconciles joins the live stream where a host stood, and *)
(* was told to for cause.                                                  *)
LEMMA ReconcileJoins ==
    ASSUME IInv, NEW c \in Consumers, Reconcile(c)
    PROVE  /\ up
           /\ \E cursor \in 0 .. Len(log[hub.stream]) :
                 /\ at[c].stream = hub.stream /\ c \notin lost =>
                       /\ at[c].cursor < cursor
                       /\ at[c].cursor + Capacity < Len(log[hub.stream])
                 /\ at' = [at EXCEPT ![c] = [stream |-> hub.stream, cursor |-> cursor]]
                 /\ base' = [base EXCEPT ![c] = cursor]
           /\ seen' = [seen EXCEPT ![c] = << >>]
           /\ lost' = lost \ {c}
           /\ reply' = [reply EXCEPT ![c] = {}]
           /\ UNCHANGED hostVars
<1>1. PICK r \in reply[c] :
          /\ r.reset
          /\ at' = [at EXCEPT ![c] = [stream |-> r.stream, cursor |-> r.current]]
          /\ base' = [base EXCEPT ![c] = r.current]
          /\ seen' = [seen EXCEPT ![c] = << >>]
          /\ lost' = lost \ {c}
          /\ reply' = [reply EXCEPT ![c] = {}]
          /\ UNCHANGED hostVars
    BY DEF Reconcile
<1>2. up /\ AnswerOK(c, r) /\ r \in Answer
    BY <1>1 DEF IInv, ConsumerInv, TypeOK
<1>3. hub.next = Len(log[hub.stream]) /\ hub.next \in Nat
    BY Parts DEF IInv, HostInv
<1>4. r.current \in 0 .. Len(log[hub.stream])
    BY <1>2, <1>3 DEF AnswerOK, Answer
<1>5. /\ r.stream = hub.stream
      /\ at[c].stream = hub.stream /\ c \notin lost =>
            at[c].cursor < r.current /\ at[c].cursor + Capacity < Len(log[hub.stream])
    BY <1>1, <1>2, <1>3 DEF AnswerOK
<1> QED
    BY <1>1, <1>2, <1>4, <1>5

LEMMA ReconcileIInv ==
    ASSUME IInv, NEW c \in Consumers, Reconcile(c)
    PROVE  IInv'
<1>1. /\ TypeOK /\ HostInv /\ ConsumerInv
      /\ hub.stream \in StreamIds /\ hub.stream # Unstarted
      /\ Len(log[hub.stream]) \in Nat
    BY Parts, StreamIdsAreNumbers DEF IInv
<1>2. /\ seen' = [seen EXCEPT ![c] = << >>]
      /\ lost' = lost \ {c}
      /\ reply' = [reply EXCEPT ![c] = {}]
      /\ UNCHANGED hostVars
    BY ReconcileJoins
<1>3. PICK cursor \in 0 .. Len(log[hub.stream]) :
          /\ at' = [at EXCEPT ![c] = [stream |-> hub.stream, cursor |-> cursor]]
          /\ base' = [base EXCEPT ![c] = cursor]
    BY ReconcileJoins
<1>4. cursor \in Nat /\ cursor <= Len(log[hub.stream])
    BY <1>1, <1>3
<1>5. /\ at'[c].stream = hub.stream /\ at'[c].cursor = cursor /\ base'[c] = cursor
      /\ seen'[c] = << >> /\ reply'[c] = {}
    BY <1>1, <1>2, <1>3 DEF TypeOK
<1>6. TypeOK'
    <2>1. /\ at' \in [Consumers -> [stream : StreamIds \cup {Unstarted}, cursor : Nat]]
          /\ base' \in [Consumers -> Nat]
        BY <1>1, <1>3, <1>4 DEF TypeOK
    <2>2. seen' \in [Consumers -> Seq(Hub!Source)]
        BY <1>1, <1>2, EmptySeq DEF TypeOK
    <2>3. reply' \in [Consumers -> SUBSET Answer] /\ lost' \subseteq Consumers
        BY <1>1, <1>2 DEF TypeOK
    <2> QED
        BY <1>1, <1>2, <2>1, <2>2, <2>3 DEF TypeOK, hostVars
<1>7. HostInv'
    BY <1>1, <1>2 DEF HostInv, hostVars
<1>8. UpToDate(c)' /\ base'[c] <= at'[c].cursor
    <2>1. SubSeq(log[hub.stream], cursor + 1, cursor) = << >>
        BY <1>4, SubSeqEmpty
    <2>2. seen'[c] = SubSeq(log'[hub'.stream], base'[c] + 1, at'[c].cursor)
        BY <1>2, <1>5, <2>1 DEF hostVars
    <2>3. at'[c].cursor <= Len(log'[hub'.stream])
        BY <1>2, <1>4, <1>5 DEF hostVars
    <2>4. base'[c] <= at'[c].cursor
        BY <1>4, <1>5
    <2> QED
        BY <2>2, <2>3, <2>4 DEF UpToDate
<1>9. ConsumerInv'
    <2> SUFFICES ASSUME NEW d \in Consumers
                 PROVE  (/\ at[d].stream <= starts
                         /\ at[d].stream = Unstarted =>
                               at[d].cursor = 0 /\ base[d] = 0 /\ seen[d] = << >>
                         /\ d \notin lost /\ at[d].stream = hub.stream =>
                               base[d] <= at[d].cursor /\ UpToDate(d)
                         /\ \A r \in reply[d] : up /\ AnswerOK(d, r))'
        BY DEF ConsumerInv
    <2>1. CASE d = c
        <3>1. hub.stream <= starts /\ starts' = starts
            BY <1>1, <1>2 DEF HostInv, hostVars
        <3> QED
            BY <2>1, <1>1, <1>5, <1>8, <3>1
    <2>2. CASE d # c
        <3>1. /\ at'[d] = at[d] /\ base'[d] = base[d] /\ seen'[d] = seen[d]
              /\ reply'[d] = reply[d] /\ (d \in lost' <=> d \in lost)
            BY <2>2, <1>1, <1>2, <1>3 DEF TypeOK
        <3> QED
            BY <2>2, <1>2, <3>1, OthersUnmoved
    <2> QED
        BY <2>1, <2>2
<1> QED
    BY <1>6, <1>7, <1>9 DEF IInv

LEMMA LoseReplyIInv ==
    ASSUME IInv, NEW c \in Consumers, LoseReply(c)
    PROVE  IInv'
<1>1. TypeOK /\ HostInv /\ ConsumerInv
    BY DEF IInv
<1>2. reply' = [reply EXCEPT ![c] = {}] /\ UNCHANGED <<hostVars, at, base, seen, lost>>
    BY DEF LoseReply
<1>3. TypeOK'
    BY <1>1, <1>2 DEF TypeOK, hostVars
<1>4. HostInv'
    BY <1>1, <1>2 DEF HostInv, hostVars
<1>5. \A d \in Consumers : reply'[d] \subseteq reply[d]
    BY <1>1, <1>2 DEF TypeOK
<1>6. ConsumerInv'
    BY <1>1, <1>2, <1>5 DEF ConsumerInv, UpToDate, AnswerOK, hostVars
<1> QED
    BY <1>3, <1>4, <1>6 DEF IInv

-----------------------------------------------------------------------------
(* The invariant                                                           *)

LEMMA NextIInv ==
    ASSUME IInv, [Next]_vars
    PROVE  IInv'
<1>1. CASE \E w \in Workers, src \in Hub!Source : Publish(w, src)
    BY <1>1, PublishIInv
<1>2. CASE \E w \in Workers : Snapshot(w)
    BY <1>2, SnapshotIInv
<1>3. CASE \E w \in Workers : Rename(w)
    BY <1>3, RenameIInv
<1>11. CASE \E w \in Workers : PersistFails(w)
    BY <1>11, PersistFailsIInv
<1>4. CASE Crash
    BY <1>4, CrashIInv
<1>5. CASE \E continuous \in BOOLEAN, changed \in AtMostOneSource :
              Restart(continuous, changed)
    BY <1>5, RestartIInv
<1>6. CASE \E c \in Consumers, max \in PageSizes : Poll(c, max)
    BY <1>6, PollIInv
<1>7. CASE \E c \in Consumers : TakePage(c)
    BY <1>7, TakeIInv
<1>8. CASE \E c \in Consumers : Reconcile(c)
    BY <1>8, ReconcileIInv
<1>9. CASE \E c \in Consumers : LoseReply(c)
    BY <1>9, LoseReplyIInv
<1>10. CASE UNCHANGED vars
    BY <1>10 DEF IInv, TypeOK, HostInv, ConsumerInv, UpToDate, AnswerOK, vars, hostVars
<1> QED
    BY <1>1, <1>2, <1>3, <1>4, <1>5, <1>6, <1>7, <1>8, <1>9, <1>10, <1>11
       DEF Next, HostNext, ConsumerNext

LEMMA SpecIInv ==
    Spec => []IInv
<1>1. Init => IInv
    BY InitIInv
<1>2. IInv /\ [Next]_vars => IInv'
    BY NextIInv
<1> QED
    BY <1>1, <1>2, PTL DEF Spec

-----------------------------------------------------------------------------
(* The theorems                                                            *)

(* Every variable of the host, its file and its consumers keeps its type.  *)
THEOREM DeliveryTypeCorrect ==
    Spec => []TypeOK
<1>1. IInv => TypeOK
    BY DEF IInv
<1> QED
    BY <1>1, SpecIInv, PTL

(* No consumer misses or repeats a change of the running stream, for any   *)
(* number of threads, crashes and lost answers, unless a crash erased what *)
(* it had taken (events.rs poll_for, queries.rs configure_root).           *)
THEOREM DeliveryNoSilentGap ==
    Spec => []NoSilentGap
<1>1. IInv => NoSilentGap
    BY DEF IInv, ConsumerInv, NoSilentGap, Follows
<1> QED
    BY <1>1, SpecIInv, PTL

(* The checkpoint file is a prefix of what its stream told, however the    *)
(* threads that write it race (queries.rs persist_checkpoint).             *)
THEOREM DeliveryCheckpointIsHistory ==
    Spec => []CheckpointIsHistory
<1>1. ASSUME IInv
      PROVE  CheckpointIsHistory
    <2> DEFINE l == log[saved.stream]
               n == Len(saved.events)
    <2>1. /\ Window(saved, l) /\ l \in Seq(Hub!Source) /\ Len(l) \in Nat
          /\ saved \in Hub!HubState /\ saved.next \in Nat
        BY <1>1, Parts DEF IInv, HostInv
    <2>2. /\ n \in Nat /\ DOMAIN saved.events = 1 .. n /\ n <= saved.next
        BY <2>1, HubFields, DeliveryAssumption DEF Window, Retained
    <2>3. DOMAIN l = 1 .. Len(l)
        BY <2>1, LenProperties
    <2>4. ASSUME NEW i \in 1 .. n
          PROVE  /\ saved.events[i].cursor \in DOMAIN l
                 /\ l[saved.events[i].cursor] = saved.events[i].current
        <3>1. /\ saved.events[i].cursor = saved.next - n + i
              /\ saved.events[i].current = l[saved.next - n + i]
              /\ saved.next <= Len(l)
            BY <2>1 DEF Window
        <3> HIDE DEF n, l
        <3>2. saved.next - n + i \in 1 .. Len(l)
            BY <2>1, <2>2, <3>1
        <3> QED
            BY <2>3, <3>1, <3>2
    <2> QED
        BY <2>1, <2>2, <2>4 DEF CheckpointIsHistory, Window
<1> QED
    BY <1>1, SpecIInv, PTL

-----------------------------------------------------------------------------
(* The refinement                                                          *)

LEMMA InitMaps ==
    ASSUME Init
    PROVE  Stream!Init
<1>1. hub.stream \in StreamIds
    BY StreamIdsAreNumbers DEF Init, Hub!NewHub
<1> QED
    BY <1>1 DEF Init, Stream!Init

LEMMA PublishTells ==
    ASSUME IInv, NEW w \in Workers, NEW src \in Hub!Source,
           Publish(w, src)
    PROVE  Stream!Tell(src)
<1>1. hub' = Hub!Pushed(hub, src) /\ hub \in Hub!HubState
    BY DEF Publish, Hub!Push, IInv, TypeOK
<1>2. hub = [stream |-> hub.stream, next |-> hub.next, events |-> hub.events]
    BY <1>1, HubFields
<1>3. hub'.stream = hub.stream
    BY <1>1, <1>2 DEF Hub!Pushed
<1> QED
    BY <1>3 DEF Publish, Stream!Tell

LEMMA RestartResumesOrRenews ==
    ASSUME IInv, NEW continuous \in BOOLEAN,
           NEW changed \in AtMostOneSource, Restart(continuous, changed)
    PROVE  \/ \E kept \in 0 .. Len(log[hub.stream]), burst \in AtMostOneSource :
                 Stream!Resume(kept, burst)
           \/ \E s \in StreamIds \ {hub.stream}, burst \in AtMostOneSource :
                 Stream!Renew(s, burst)
<1>1. UNCHANGED <<at, base, seen>>
    BY DEF Restart
<1>2. CASE continuous
    <2>1. /\ hub'.stream = hub.stream
          /\ saved.next \in 0 .. Len(log[hub.stream])
          /\ log' = [log EXCEPT ![hub.stream] =
                         SubSeq(log[hub.stream], 1, saved.next) \o changed]
          /\ lost' = lost \cup {c \in Consumers :
                         at[c].stream = hub.stream /\ at[c].cursor > saved.next}
        BY <1>2, RestartTells
    <2>2. Stream!Resume(saved.next, changed)
        BY <1>1, <2>1 DEF Stream!Resume
    <2> QED
        BY <2>1, <2>2
<1>3. CASE ~continuous
    <2> DEFINE s == starts + 1
    <2>1. /\ s \in StreamIds /\ hub'.stream = s
          /\ log' = [log EXCEPT ![s] = changed]
          /\ lost' = lost
        BY <1>3, RestartTells
    <2>2. /\ starts \in Nat /\ StreamIds \subseteq Nat /\ hub.stream \in StreamIds
          /\ Unstarted = 0
          /\ \A c \in Consumers : at[c].stream \in StreamIds \cup {Unstarted}
        BY Parts, StreamIdsAreNumbers
    <2>3. log[s] = << >> /\ hub.stream # s
        <3>1. hub.stream <= starts /\ hub.stream \in Nat
            BY <2>2 DEF IInv, HostInv
        <3>2. s > starts
            BY <2>2
        <3> HIDE DEF s
        <3> QED
            BY <2>1, <2>2, <3>1, <3>2 DEF IInv, HostInv
    <2>4. ASSUME NEW c \in Consumers
          PROVE  at[c].stream # s
        <3>1. at[c].stream <= starts
            BY DEF IInv, ConsumerInv
        <3> QED
            BY <2>2, <3>1
    <2> HIDE DEF s
    <2>5. Stream!Renew(s, changed)
        BY <1>1, <2>1, <2>3, <2>4 DEF Stream!Renew
    <2> QED
        BY <2>1, <2>3, <2>5
<1> QED
    BY <1>2, <1>3

LEMMA TakeIsRead ==
    ASSUME IInv, NEW c \in Consumers, TakePage(c)
    PROVE  \E n \in 0 .. Len(log[hub.stream]) - at[c].cursor : Stream!Read(c, n)
<1>1. PICK n \in 0 .. Len(log[hub.stream]) - at[c].cursor :
          /\ at' = [at EXCEPT ![c] = [stream |-> hub.stream, cursor |-> at[c].cursor + n]]
          /\ seen' = [seen EXCEPT ![c] =
                @ \o SubSeq(log[hub.stream], at[c].cursor + 1, at[c].cursor + n)]
    BY TakeReads
<1>2. /\ at[c].stream \in {hub.stream, Unstarted}
      /\ UNCHANGED <<hostVars, base, lost>>
    BY TakeReads
<1>3. Stream!Read(c, n)
    BY <1>1, <1>2 DEF Stream!Read, hostVars
<1> QED
    BY <1>1, <1>3

LEMMA ReconcileIsJoin ==
    ASSUME IInv, NEW c \in Consumers, Reconcile(c)
    PROVE  \E cursor \in 0 .. Len(log[hub.stream]) : Stream!Join(c, cursor)
<1>1. PICK cursor \in 0 .. Len(log[hub.stream]) :
          /\ at[c].stream = hub.stream /\ c \notin lost =>
                /\ at[c].cursor < cursor
                /\ at[c].cursor + Capacity < Len(log[hub.stream])
          /\ at' = [at EXCEPT ![c] = [stream |-> hub.stream, cursor |-> cursor]]
          /\ base' = [base EXCEPT ![c] = cursor]
    BY ReconcileJoins
<1>2. /\ seen' = [seen EXCEPT ![c] = << >>]
      /\ lost' = lost \ {c}
      /\ UNCHANGED hostVars
    BY ReconcileJoins
<1>3. Stream!Join(c, cursor)
    BY <1>1, <1>2 DEF Stream!Join, hostVars
<1> QED
    BY <1>1, <1>3

(* A step of the host or of a consumer is a step of the stream, or none.   *)
LEMMA NextMaps ==
    ASSUME IInv, [Next]_vars
    PROVE  [Stream!Next]_(Stream!vars)
<1>1. CASE \E w \in Workers, src \in Hub!Source : Publish(w, src)
    BY <1>1, PublishTells DEF Stream!Next
<1>2. CASE \E w \in Workers : Snapshot(w)
    BY <1>2 DEF Snapshot, Stream!vars
<1>3. CASE \E w \in Workers : Rename(w)
    BY <1>3 DEF Rename, Stream!vars
<1>11. CASE \E w \in Workers : PersistFails(w)
    BY <1>11 DEF PersistFails, Stream!vars
<1>4. CASE Crash
    BY <1>4 DEF Crash, Stream!vars
<1>5. CASE \E continuous \in BOOLEAN, changed \in AtMostOneSource :
              Restart(continuous, changed)
    BY <1>5, RestartResumesOrRenews DEF Stream!Next
<1>6. CASE \E c \in Consumers, max \in PageSizes : Poll(c, max)
    BY <1>6 DEF Poll, Stream!vars, hostVars
<1>7. CASE \E c \in Consumers : TakePage(c)
    BY <1>7, TakeIsRead DEF Stream!Next
<1>8. CASE \E c \in Consumers : Reconcile(c)
    BY <1>8, ReconcileIsJoin DEF Stream!Next
<1>9. CASE \E c \in Consumers : LoseReply(c)
    BY <1>9 DEF LoseReply, Stream!vars, hostVars
<1>10. CASE UNCHANGED vars
    BY <1>10 DEF vars, hostVars, Stream!vars
<1> QED
    BY <1>1, <1>2, <1>3, <1>4, <1>5, <1>6, <1>7, <1>8, <1>9, <1>10, <1>11
       DEF Next, HostNext, ConsumerNext

(* The host, its threads, its file, its crashes and the lost answers come  *)
(* to the abstract stream of changes (events.rs, queries.rs).              *)
THEOREM DeliveryImplementsChangeStream ==
    Spec => ImplementsChangeStream
<1>1. Init => Stream!Init
    BY InitMaps
<1>2. IInv /\ [Next]_vars => [Stream!Next]_(Stream!vars)
    BY NextMaps
<1> QED
    BY <1>1, <1>2, SpecIInv, PTL DEF Spec, ImplementsChangeStream, Stream!Spec
=============================================================================
