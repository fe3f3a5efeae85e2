---------------------------- MODULE ClientProofs ----------------------------
(***************************************************************************)
(* Proofs about what the clients of the service are told.                  *)
(*                                                                         *)
(* The remote client: a call that returned success has had its effect, for *)
(* any number of calls and connections.                                    *)
(*                                                                         *)
(* The language server: diagnostics that carry the version an editor has   *)
(* are of the text it has, for any documents, texts and notifications and  *)
(* whatever the order in which diagnostics arrive.                         *)
(*                                                                         *)
(* The language's capabilities: a difference that was not cut tells of     *)
(* every change, for any versions, histories and writes of the generator.  *)
(*                                                                         *)
(* The family context: one that is called complete is vouched for, for any *)
(* manifests and answers of other repositories.                            *)
(***************************************************************************)
EXTENDS RemoteClient, SequenceTheorems, FiniteSetTheorems, WellFoundedInduction, TLAPS

CONSTANTS
    Docs, Large, None, Garbled, MaxTexts, MaxMessages, ChecksVersion, ReopensLate,
    Items, Contents, Retention, MaxVersions, Limits, Invalid,
    Absent, Broken, NoRepository, Requests, Manifests, Validations, Inventories, Languages,
    Projections

VARIABLES
    editor, texts, sent, inbox, service, outbox,    \* LspSession
    generated, index, history, versions, query,     \* LanguageKnowledge
    ask                                             \* FamilyContext

Session == INSTANCE LspSession
Knowledge == INSTANCE LanguageKnowledge WITH Requests <- Limits
Family == INSTANCE FamilyContext

-----------------------------------------------------------------------------
(* The remote client                                                        *)

(* Calls and connections are counted.                                       *)
ClientAssumption ==
    Ranged \in BOOLEAN /\ MaxCalls \in Nat /\ MaxConnections \in Nat

(* AcknowledgedIsApplied is not inductive: a call is acknowledged on the    *)
(* word of an answer, so every answer under way must stand for an effect,   *)
(* on the connections the client has given up too.                          *)
Occurs(id, s) == \E j \in DOMAIN s : s[j] = id
Applied(id) == Occurs(id, doc)

AnswersApplied ==
    Ranged => \A k \in Connections : \A i \in DOMAIN responses[k] : Applied(responses[k][i])

WaitingSound == Waiting => conn \in Connections /\ call.id \in Calls

ClientInv == TypeOK /\ WaitingSound /\ AnswersApplied /\ AcknowledgedIsApplied

LEMMA InitClientInv ==
    ASSUME ClientAssumption, Init
    PROVE  ClientInv
  BY DEF ClientAssumption, Init, ClientInv, TypeOK, WaitingSound, Waiting, AnswersApplied, AcknowledgedIsApplied,
         Calls, Connections

(* The client reconnects and sends again, or returns.                       *)
LEMMA FailedType ==
    ASSUME ClientAssumption, TypeOK, WaitingSound, Waiting, Failed
    PROVE  /\ call' \in [id : 0 .. MaxCalls, sent : 0 .. 2]
           /\ opened' \in 0 .. MaxConnections
           /\ conn' \in 0 .. opened'
           /\ requests' \in [Connections -> Seq(Calls)]
           /\ WaitingSound'
<1>1. CASE Return /\ UNCHANGED <<conn, opened, requests>>
  <2>1. call' = [id |-> call.id, sent |-> 0]
    BY <1>1 DEF Return, TypeOK
  <2> QED
    BY <1>1, <2>1 DEF TypeOK, WaitingSound, Waiting
<1>2. CASE /\ opened < MaxConnections /\ opened' = opened + 1 /\ conn' = opened'
           /\ call' = [call EXCEPT !.sent = 2] /\ SendOn(conn', call.id)
  <2>1. conn' \in Connections /\ opened' \in 0 .. MaxConnections /\ call.id \in Calls
    BY <1>2 DEF ClientAssumption, TypeOK, WaitingSound, Connections
  <2>2. requests' \in [Connections -> Seq(Calls)]
    BY <1>2, <2>1, AppendProperties DEF SendOn, TypeOK
  <2>3. call'.id = call.id /\ call' \in [id : 0 .. MaxCalls, sent : 0 .. 2]
    <3>1. call' = [id |-> call.id, sent |-> 2]
      BY <1>2 DEF TypeOK
    <3> QED
      BY <3>1 DEF TypeOK
  <2> QED
    BY <1>2, <2>1, <2>2, <2>3 DEF WaitingSound, Connections
<1> QED
  BY <1>1, <1>2 DEF Failed

(* What was answered last on a connection is the effect of a call.          *)
LEMMA AnswerIsACall ==
    ASSUME TypeOK, WaitingSound, Waiting, responses[conn] # << >>
    PROVE  /\ Head(responses[conn]) \in Calls
           /\ 1 \in DOMAIN responses[conn]
           /\ responses[conn][1] = Head(responses[conn])
           /\ Tail(responses[conn]) \in Seq(Calls)
           /\ \A i \in DOMAIN Tail(responses[conn]) :
                i + 1 \in DOMAIN responses[conn]
                /\ Tail(responses[conn])[i] = responses[conn][i + 1]
<1> DEFINE s == responses[conn]
<1>1. s \in Seq(Calls) /\ s # << >>
  BY DEF TypeOK, WaitingSound
<1> HIDE DEF s
<1>2. /\ Head(s) \in Calls /\ Head(s) = s[1]
      /\ Tail(s) \in Seq(Calls) /\ Len(Tail(s)) = Len(s) - 1
      /\ \A i \in 1 .. Len(Tail(s)) : Tail(s)[i] = s[i + 1]
  BY <1>1, HeadTailProperties
<1>3. Len(s) \in Nat /\ Len(s) # 0 /\ DOMAIN s = 1 .. Len(s)
  BY <1>1, EmptySeq, LenProperties
<1>4. DOMAIN Tail(s) = 1 .. Len(Tail(s))
  BY <1>2, LenProperties
<1>5. 1 \in DOMAIN s /\ \A i \in DOMAIN Tail(s) : i + 1 \in DOMAIN s
  BY <1>2, <1>3, <1>4
<1> QED
  BY <1>2, <1>4, <1>5 DEF s

LEMMA ServeInv ==
    ASSUME ClientInv, NEW k \in Connections, Serve(k)
    PROVE  ClientInv'
<1> USE DEF ClientInv
<1> DEFINE id == Head(requests[k])
<1>1. id \in Calls /\ Tail(requests[k]) \in Seq(Calls)
  BY HeadTailProperties DEF Serve, TypeOK
<1>2. /\ doc' = IF Ranged THEN Append(doc, id) ELSE <<id>>
      /\ responses' = [responses EXCEPT ![k] = Append(responses[k], id)]
      /\ requests' = [requests EXCEPT ![k] = Tail(requests[k])]
      /\ UNCHANGED <<call, conn, opened, acked>>
  BY DEF Serve
<1> HIDE DEF id
<1>3. doc' \in Seq(Calls)
  BY <1>1, <1>2, AppendProperties DEF TypeOK
<1>4. responses' \in [Connections -> Seq(Calls)]
  BY <1>1, <1>2, AppendProperties DEF TypeOK
<1>5. requests' \in [Connections -> Seq(Calls)]
  BY <1>1, <1>2 DEF TypeOK
<1>6. TypeOK'
  BY <1>2, <1>3, <1>4, <1>5 DEF TypeOK
<1>7. WaitingSound'
  BY <1>2 DEF WaitingSound, Waiting
<1>8. ASSUME Ranged
      PROVE  /\ \A x : Occurs(x, doc) => Occurs(x, doc')
             /\ Occurs(id, doc')
  <2>1. doc' = Append(doc, id) /\ doc \in Seq(Calls)
    BY <1>2, <1>8 DEF TypeOK
  <2>2. /\ Len(doc) \in Nat /\ DOMAIN doc = 1 .. Len(doc)
        /\ Len(doc') = Len(doc) + 1 /\ DOMAIN doc' = 1 .. Len(doc')
        /\ \A j \in 1 .. Len(doc) : doc'[j] = doc[j]
        /\ doc'[Len(doc) + 1] = id
    BY <1>1, <1>3, <2>1, AppendProperties, LenProperties
  <2> QED
    <3>1. \A j \in DOMAIN doc : j \in DOMAIN doc' /\ doc'[j] = doc[j]
      BY <2>2
    <3>2. Len(doc) + 1 \in DOMAIN doc' /\ doc'[Len(doc) + 1] = id
      BY <2>2
    <3> QED
      BY <3>1, <3>2 DEF Occurs
<1>9. AnswersApplied'
  <2> SUFFICES ASSUME Ranged, NEW c \in Connections, NEW i \in DOMAIN responses'[c]
               PROVE  Occurs(responses'[c][i], doc')
    BY <1>2 DEF AnswersApplied, Applied, Occurs
  <2>1. CASE c # k
    BY <1>2, <1>8, <2>1 DEF AnswersApplied, Applied, TypeOK
  <2>2. CASE c = k
    <3> DEFINE s == responses[k]
    <3>1. responses'[k] = Append(s, id) /\ s \in Seq(Calls)
      BY <1>2 DEF TypeOK
    <3> HIDE DEF s
    <3>2. /\ Len(s) \in Nat /\ DOMAIN s = 1 .. Len(s)
          /\ DOMAIN Append(s, id) = 1 .. Len(s) + 1
          /\ \A j \in 1 .. Len(s) : Append(s, id)[j] = s[j]
          /\ Append(s, id)[Len(s) + 1] = id
      BY <1>1, <3>1, AppendProperties, LenProperties
    <3>3. responses'[c][i] = id \/ (i \in DOMAIN s /\ responses'[c][i] = s[i])
      BY <2>2, <3>1, <3>2
    <3> QED
      BY <1>8, <2>2, <3>3 DEF AnswersApplied, Applied, s
  <2> QED
    BY <2>1, <2>2
<1>10. AcknowledgedIsApplied'
  BY <1>2, <1>8 DEF AcknowledgedIsApplied, Occurs
<1> QED
  BY <1>6, <1>7, <1>9, <1>10

LEMMA CallInv ==
    ASSUME ClientAssumption, ClientInv, Call
    PROVE  ClientInv'
<1> USE DEF ClientInv
<1>1. call' = [id |-> call.id + 1, sent |-> 1] /\ call.id + 1 \in Calls
  BY DEF ClientAssumption, Call, TypeOK, Calls
<1>2. /\ opened' \in 0 .. MaxConnections /\ conn' \in 0 .. opened' /\ conn' \in Connections
  <2>1. opened \in Nat /\ opened <= MaxConnections /\ conn \in Nat /\ conn <= opened
    BY DEF ClientAssumption, TypeOK
  <2>2. CASE conn # 0
    <3>1. opened' = opened /\ conn' = conn
      BY <2>2 DEF Call
    <3> QED
      BY <2>1, <2>2, <3>1 DEF ClientAssumption, Connections
  <2>3. CASE conn = 0
    <3>1. opened < MaxConnections /\ opened' = opened + 1 /\ conn' = opened'
      BY <2>3 DEF Call
    <3> QED
      BY <2>1, <3>1 DEF ClientAssumption, Connections
  <2> QED
    BY <2>2, <2>3
<1>3. requests' \in [Connections -> Seq(Calls)]
  BY <1>1, <1>2, AppendProperties DEF Call, SendOn, TypeOK
<1>4. TypeOK'
  BY <1>1, <1>2, <1>3 DEF ClientAssumption, Call, TypeOK, Calls
<1> QED
  BY <1>1, <1>2, <1>4
     DEF Call, WaitingSound, AnswersApplied, AcknowledgedIsApplied, Applied, Occurs

LEMMA ReadInv ==
    ASSUME ClientAssumption, ClientInv, Read
    PROVE  ClientInv'
<1> USE DEF ClientInv
<1>1. Waiting /\ responses[conn] # << >> /\ conn \in Connections /\ call.id \in Calls
  BY DEF Read, WaitingSound
<1>2. /\ responses' = [responses EXCEPT ![conn] = Tail(responses[conn])]
      /\ doc' = doc
  BY DEF Read
<1>3. responses' \in [Connections -> Seq(Calls)]
  BY <1>1, <1>2, AnswerIsACall DEF TypeOK
<1>4. AnswersApplied'
  <2> SUFFICES ASSUME Ranged, NEW k \in Connections, NEW i \in DOMAIN responses'[k]
               PROVE  Applied(responses'[k][i])
    BY <1>2 DEF AnswersApplied, Applied, Occurs
  <2>1. CASE k # conn
    BY <1>2, <2>1 DEF AnswersApplied, TypeOK
  <2>2. CASE k = conn
    <3>1. responses'[k] = Tail(responses[conn])
      BY <1>1, <1>2, <2>2 DEF TypeOK
    <3>2. i + 1 \in DOMAIN responses[conn] /\ responses'[k][i] = responses[conn][i + 1]
      BY <1>1, <3>1, AnswerIsACall
    <3> QED
      BY <1>1, <3>2 DEF AnswersApplied
  <2> QED
    BY <2>1, <2>2
<1>5. CASE Head(responses[conn]) = call.id
  <2>1. Return /\ acked' = Append(acked, call.id) /\ UNCHANGED <<conn, opened, requests>>
    BY <1>5 DEF Read
  <2>2. acked' \in Seq(Calls)
    BY <1>1, <2>1, AppendProperties DEF TypeOK
  <2>3. TypeOK' /\ WaitingSound'
    BY <1>2, <1>3, <2>1, <2>2 DEF TypeOK, WaitingSound, Waiting, Return
  <2>4. ASSUME Ranged, NEW i \in DOMAIN acked' PROVE Applied(acked'[i])
    <3>1. Applied(call.id)
      BY <1>1, <1>5, <2>4, AnswerIsACall DEF AnswersApplied
    <3>2. /\ Len(acked) \in Nat /\ DOMAIN acked = 1 .. Len(acked)
          /\ DOMAIN acked' = 1 .. Len(acked) + 1
          /\ \A j \in 1 .. Len(acked) : acked'[j] = acked[j]
          /\ acked'[Len(acked) + 1] = call.id
      BY <1>1, <2>1, AppendProperties, LenProperties DEF TypeOK
    <3>3. acked'[i] = call.id \/ (i \in DOMAIN acked /\ acked'[i] = acked[i])
      BY <2>4, <3>2
    <3> QED
      BY <2>4, <3>1, <3>3 DEF AcknowledgedIsApplied, Applied, Occurs
  <2>5. AcknowledgedIsApplied'
    BY <1>2, <2>4 DEF AcknowledgedIsApplied, Applied, Occurs
  <2> QED
    BY <1>4, <2>3, <2>5
<1>6. CASE Head(responses[conn]) # call.id
  <2>1. Failed /\ acked' = acked
    BY <1>6 DEF Read
  <2>2. TypeOK' /\ WaitingSound'
    BY <1>1, <1>2, <1>3, <2>1, FailedType DEF TypeOK
  <2> QED
    BY <1>2, <1>4, <2>1, <2>2 DEF AcknowledgedIsApplied
<1> QED
  BY <1>5, <1>6

LEMMA NextClientInv ==
    ASSUME ClientAssumption, ClientInv, [Next]_vars
    PROVE  ClientInv'
<1>1. CASE Timeout
  <2>1. TypeOK' /\ WaitingSound'
    BY <1>1, FailedType DEF Timeout, ClientInv, TypeOK
  <2> QED
    BY <1>1, <2>1 DEF Timeout, ClientInv, AnswersApplied, AcknowledgedIsApplied, Applied, Occurs
<1>2. CASE UNCHANGED vars
  BY <1>2 DEF vars, ClientInv, TypeOK, WaitingSound, Waiting, AnswersApplied,
              AcknowledgedIsApplied, Applied, Occurs
<1> QED
  BY <1>1, <1>2, CallInv, ReadInv, ServeInv DEF Next

(* A call that returned success has had its effect: for any number of calls *)
(* and reconnections, and however many answers arrive late.                 *)
THEOREM ClientAcknowledgedIsApplied ==
    ASSUME ClientAssumption
    PROVE  Spec => []AcknowledgedIsApplied
<1>1. Init => ClientInv
  BY InitClientInv
<1>2. ClientInv /\ [Next]_vars => ClientInv'
  BY NextClientInv
<1>3. ClientInv => AcknowledgedIsApplied
  BY DEF ClientInv
<1> QED
  BY <1>1, <1>2, <1>3, PTL DEF Spec

(* Every reachable state has its type.                                      *)
THEOREM ClientTypeCorrect ==
    ASSUME ClientAssumption
    PROVE  Spec => []TypeOK
<1>1. Init => ClientInv
  BY InitClientInv
<1>2. ClientInv /\ [Next]_vars => ClientInv'
  BY NextClientInv
<1>3. ClientInv => TypeOK
  BY DEF ClientInv
<1> QED
  BY <1>1, <1>2, <1>3, PTL DEF Spec


-----------------------------------------------------------------------------
(* The editor's session                                                     *)

(* None is no text, an edit of another text makes none the editor wrote,   *)
(* and the editor reopens a document only when every message about it has  *)
(* arrived.                                                                *)
SessionAssumption ==
    /\ None \notin Nat
    /\ Garbled \notin Nat
    /\ Garbled # None
    /\ None \notin Large
    /\ ReopensLate

Texts == Nat \cup {None, Garbled}
VersionNumbers == Nat \cup {None}

Message ==
    {m \in [kind : {"open", "change", "save", "close"}, doc : Docs, version : VersionNumbers,
            text : Nat \cup {None}, of : Nat \cup {None}] :
        m.kind = "close" => m.text = None /\ m.of = None}
EditorDocument ==
    [open : BOOLEAN, version : VersionNumbers, text : Nat, file : Nat, shown : Texts,
     synced : BOOLEAN]
ServiceDocument == [buffer : Texts, version : VersionNumbers, disk : Texts]
Diagnosis == [doc : Docs, text : Texts, version : VersionNumbers]

SessionTyped ==
    /\ editor \in [Docs -> EditorDocument]
    /\ texts \in Nat
    /\ inbox \in Seq(Message)
    /\ service \in [Docs -> ServiceDocument]
    /\ outbox \in SUBSET Diagnosis

(* The notifications on their way that give the service a text.            *)
GivesText(m) == m.kind \in {"open", "change"}
Pending(q, d) == {k \in 1 .. Len(q) : q[k].doc = d /\ GivesText(q[k])}

First(q, d, k) == \A i \in Pending(q, d) : k <= i
Last(q, d, k) == \A i \in Pending(q, d) : i <= k
Follow(q, d, j, k) == j < k /\ \A i \in Pending(q, d) : i <= j \/ k <= i

(* What is on its way about an open document e: a chain of texts that ends *)
(* with the one the editor has.                                            *)
Queued(q, e, d) ==
    /\ e.version \in Nat
    /\ \A k \in 1 .. Len(q) : q[k].doc = d => q[k].kind # "close"
    /\ \A k \in Pending(q, d) :
          /\ q[k].version \in Nat /\ q[k].version <= e.version
          /\ q[k].text \in Nat
          /\ q[k].kind = "open" => q[k].of = None
          /\ q[k].version = e.version => q[k].text = e.text
          /\ Last(q, d, k) => q[k].version = e.version
    /\ \A j, k \in Pending(q, d) : j < k => q[j].version < q[k].version
    /\ \A j, k \in Pending(q, d) : Follow(q, d, j, k) => q[k].of \in {None, q[j].text}

(* How it links to what the service s holds.                               *)
Linked(q, e, s, d) ==
    /\ s.version # None =>
          /\ s.buffer # None
          /\ s.version <= e.version
          /\ \A k \in Pending(q, d) : s.version < q[k].version
    /\ e.synced /\ Pending(q, d) = {} => s.version = e.version /\ s.buffer = e.text
    /\ e.synced => \A k \in Pending(q, d) :
          First(q, d, k) => q[k].kind = "open" \/ q[k].of \in {None, s.buffer}

(* Diagnostics on their way are of no later version than the service has.  *)
Sent(e, s, box, d) ==
    \A m \in box : m.doc = d =>
        /\ m.version # None => s.version # None /\ m.version <= s.version
        /\ e.synced /\ m.version = e.version => m.text = e.text

OpenOK(q, e, s, box, d) == Queued(q, e, d) /\ Linked(q, e, s, d) /\ Sent(e, s, box, d)

(* A document that was closed: the service knows, or the last message that *)
(* is on its way tells it.                                                 *)
ClosedOK(q, s, d) ==
    \/ s.version = None /\ \A k \in 1 .. Len(q) : q[k].doc # d
    \/ \E k \in 1 .. Len(q) :
          /\ q[k].doc = d /\ q[k].kind = "close"
          /\ \A j \in 1 .. Len(q) : q[j].doc = d => j <= k

DocumentOK(d) ==
    IF editor[d].open THEN OpenOK(inbox, editor[d], service[d], outbox, d)
    ELSE ClosedOK(inbox, service[d], d)

SessionInv == SessionTyped /\ \A d \in Docs : DocumentOK(d)

-----------------------------------------------------------------------------
(* Queues                                                                  *)

(* A message that gives no text of d leaves what is pending of it.         *)
LEMMA AppendOther ==
    ASSUME NEW q \in Seq(Message), NEW m \in Message, NEW d \in Docs,
           m.doc # d \/ ~GivesText(m)
    PROVE  LET p == Append(q, m)
           IN  /\ Len(p) = Len(q) + 1
               /\ p[Len(q) + 1] = m
               /\ \A k \in 1 .. Len(q) : p[k] = q[k]
               /\ Pending(p, d) = Pending(q, d)
  BY DEF Pending

(* One that does is pending last.                                          *)
LEMMA AppendText ==
    ASSUME NEW q \in Seq(Message), NEW m \in Message, NEW d \in Docs,
           m.doc = d, GivesText(m)
    PROVE  LET p == Append(q, m)
           IN  /\ Len(p) = Len(q) + 1
               /\ p[Len(q) + 1] = m
               /\ \A k \in 1 .. Len(q) : p[k] = q[k]
               /\ Pending(p, d) = Pending(q, d) \cup {Len(q) + 1}
  BY DEF Pending

(* Without its head everything in a queue moves up by one.                 *)
LEMMA TailOfQueue ==
    ASSUME NEW q \in Seq(Message), q # << >>, NEW d \in Docs
    PROVE  LET p == Tail(q)
           IN  /\ Len(p) \in Nat /\ Len(q) = Len(p) + 1
               /\ p \in Seq(Message)
               /\ \A k \in 1 .. Len(p) : p[k] = q[k + 1]
               /\ \A k \in Pending(p, d) : k \in 1 .. Len(p) /\ k + 1 \in Pending(q, d)
               /\ \A k \in Pending(q, d) : k \in 1 .. Len(q) /\ (k # 1 => k - 1 \in Pending(p, d))
  BY DEF Pending

(* The chain of what is on its way loses its head.                         *)
LEMMA TailQueued ==
    ASSUME NEW q \in Seq(Message), q # << >>, NEW d \in Docs, NEW e,
           Queued(q, e, d)
    PROVE  Queued(Tail(q), e, d)
  <1> DEFINE p == Tail(q)
  <1>1. /\ Len(p) \in Nat /\ Len(q) = Len(p) + 1
        /\ \A k \in 1 .. Len(p) : p[k] = q[k + 1]
        /\ \A k \in Pending(p, d) : k \in 1 .. Len(p) /\ k + 1 \in Pending(q, d)
        /\ \A k \in Pending(q, d) : k \in 1 .. Len(q) /\ (k # 1 => k - 1 \in Pending(p, d))
    BY TailOfQueue
  <1> HIDE DEF p
  <1>2. \A k \in 1 .. Len(p) : p[k].doc = d => p[k].kind # "close"
    BY <1>1 DEF Queued
  <1>3. ASSUME NEW k \in Pending(p, d)
        PROVE  /\ p[k].version \in Nat /\ p[k].version <= e.version
               /\ p[k].text \in Nat
               /\ p[k].kind = "open" => p[k].of = None
               /\ p[k].version = e.version => p[k].text = e.text
               /\ Last(p, d, k) => p[k].version = e.version
    <2>1. k \in 1 .. Len(p) /\ k + 1 \in Pending(q, d) /\ p[k] = q[k + 1]
      BY <1>1
    <2>2. Last(p, d, k) => Last(q, d, k + 1)
      <3>1. ASSUME Last(p, d, k), NEW i \in Pending(q, d)
            PROVE  i <= k + 1
        <4>1. i = 1 \/ i - 1 <= k
          BY <1>1, <3>1 DEF Last
        <4> QED BY <4>1, <1>1, <2>1
      <3> QED BY <3>1 DEF Last
    <2> QED BY <2>1, <2>2 DEF Queued
  <1>4. ASSUME NEW j \in Pending(p, d), NEW k \in Pending(p, d), j < k
        PROVE  p[j].version < p[k].version
    BY <1>1, <1>4 DEF Queued
  <1>5. ASSUME NEW j \in Pending(p, d), NEW k \in Pending(p, d), Follow(p, d, j, k)
        PROVE  p[k].of \in {None, p[j].text}
    <2>1. /\ j \in 1 .. Len(p) /\ j + 1 \in Pending(q, d) /\ p[j] = q[j + 1]
          /\ k \in 1 .. Len(p) /\ k + 1 \in Pending(q, d) /\ p[k] = q[k + 1]
      BY <1>1
    <2>2. ASSUME NEW i \in Pending(q, d)
          PROVE  i <= j + 1 \/ k + 1 <= i
      <3>1. i \in 1 .. Len(q) /\ (i = 1 \/ i - 1 <= j \/ k <= i - 1)
        BY <1>1, <1>5 DEF Follow
      <3> QED BY <3>1, <2>1
    <2>3. Follow(q, d, j + 1, k + 1)
      BY <2>1, <2>2, <1>5 DEF Follow
    <2> QED BY <2>1, <2>3 DEF Queued
  <1>6. e.version \in Nat
    BY DEF Queued
  <1> QED BY <1>2, <1>3, <1>4, <1>5, <1>6 DEF Queued, p

(* A head that gives no text is none of the chain.                         *)
LEMMA TailLinked ==
    ASSUME NEW q \in Seq(Message), q # << >>, NEW d \in Docs, NEW e, NEW s,
           Linked(q, e, s, d), Head(q).doc # d \/ ~GivesText(Head(q))
    PROVE  Linked(Tail(q), e, s, d)
  <1> DEFINE p == Tail(q)
  <1>1. /\ Len(p) \in Nat /\ Len(q) = Len(p) + 1
        /\ \A k \in 1 .. Len(p) : p[k] = q[k + 1]
        /\ \A k \in Pending(p, d) : k \in 1 .. Len(p) /\ k + 1 \in Pending(q, d)
        /\ \A k \in Pending(q, d) : k \in 1 .. Len(q) /\ (k # 1 => k - 1 \in Pending(p, d))
    BY TailOfQueue
  <1>2. 1 \notin Pending(q, d)
    BY DEF Pending
  <1> HIDE DEF p
  <1>3. Pending(p, d) = {} => Pending(q, d) = {}
    BY <1>1, <1>2
  <1>4. ASSUME NEW k \in Pending(p, d)
        PROVE  /\ k + 1 \in Pending(q, d) /\ p[k] = q[k + 1]
               /\ First(p, d, k) => First(q, d, k + 1)
    <2>1. ASSUME First(p, d, k), NEW i \in Pending(q, d)
          PROVE  k + 1 <= i
      BY <1>1, <1>2, <2>1 DEF First
    <2> QED BY <1>1, <2>1 DEF First
  <1> QED BY <1>3, <1>4 DEF Linked, p

(* What the editor sends of one document touches no other.                 *)
LEMMA AppendKeeps ==
    ASSUME NEW q \in Seq(Message), NEW m \in Message, NEW d \in Docs, NEW e, NEW s, NEW box,
           m.doc # d \/ m.kind = "save", OpenOK(q, e, s, box, d)
    PROVE  OpenOK(Append(q, m), e, s, box, d)
  <1> DEFINE p == Append(q, m)
  <1>1. m.doc # d \/ ~GivesText(m)
    BY DEF GivesText
  <1>2. /\ Len(p) = Len(q) + 1
        /\ p[Len(q) + 1] = m
        /\ \A k \in 1 .. Len(q) : p[k] = q[k]
        /\ Pending(p, d) = Pending(q, d)
    BY <1>1, AppendOther
  <1>3. Pending(q, d) \subseteq 1 .. Len(q)
    BY DEF Pending
  <1>4. Len(q) \in Nat
    OBVIOUS
  <1> HIDE DEF p
  <1>5. \A k \in Pending(q, d) : p[k] = q[k]
    BY <1>2, <1>3
  <1>6. \A k \in 1 .. Len(p) : p[k].doc = d => p[k].kind # "close"
    BY <1>2, <1>4 DEF OpenOK, Queued
  <1>7. /\ \A k \in Pending(q, d) : First(p, d, k) <=> First(q, d, k)
        /\ \A k \in Pending(q, d) : Last(p, d, k) <=> Last(q, d, k)
        /\ \A j, k \in Pending(q, d) : Follow(p, d, j, k) <=> Follow(q, d, j, k)
    BY <1>2 DEF First, Last, Follow
  <1>8. Queued(p, e, d)
    BY <1>2, <1>5, <1>6, <1>7 DEF OpenOK, Queued
  <1>9. Linked(p, e, s, d)
    BY <1>2, <1>5, <1>7 DEF OpenOK, Linked
  <1> QED BY <1>8, <1>9 DEF OpenOK, p

(* Messages of other documents do not reopen one.                          *)
LEMMA AppendClosed ==
    ASSUME NEW q \in Seq(Message), NEW m \in Message, NEW d \in Docs, NEW s,
           m.doc # d, ClosedOK(q, s, d)
    PROVE  ClosedOK(Append(q, m), s, d)
  <1> DEFINE p == Append(q, m)
  <1>1. /\ Len(p) = Len(q) + 1 /\ Len(q) \in Nat
        /\ p[Len(q) + 1] = m
        /\ \A k \in 1 .. Len(q) : p[k] = q[k]
    OBVIOUS
  <1> HIDE DEF p
  <1> QED BY <1>1 DEF ClosedOK, p

-----------------------------------------------------------------------------
(* Steps of the editor                                                     *)

(* The initial states.                                                     *)
LEMMA InitSession ==
    ASSUME SessionAssumption, Session!Init
    PROVE  SessionInv
  <1>1. SessionTyped
    BY DEF Session!Init, SessionTyped, EditorDocument, ServiceDocument, Texts, VersionNumbers
  <1>2. \A d \in Docs : DocumentOK(d)
    <2>1. \A d \in Docs, k \in 1 .. Len(inbox) : inbox[k].doc # d
      BY DEF Session!Init
    <2>2. \A d \in Docs : ~editor[d].open /\ service[d].version = None
      BY DEF Session!Init
    <2>3. \A d \in Docs : ClosedOK(inbox, service[d], d)
      BY <2>1, <2>2 DEF ClosedOK
    <2> QED BY <2>2, <2>3 DEF DocumentOK
  <1> QED BY <1>1, <1>2 DEF SessionInv

(* A notification of one document leaves the others as they are.           *)
LEMMA OthersKeep ==
    ASSUME SessionInv, NEW d \in Docs, NEW m \in Message, m.doc = d,
           inbox' = Append(inbox, m), UNCHANGED <<service, outbox>>,
           NEW x \in Docs, x # d, editor'[x] = editor[x]
    PROVE  DocumentOK(x)'
  <1>1. inbox \in Seq(Message) /\ DocumentOK(x)
    BY DEF SessionInv, SessionTyped
  <1>2. CASE editor[x].open
    <2>1. OpenOK(inbox, editor[x], service[x], outbox, x)
      BY <1>1, <1>2 DEF DocumentOK
    <2>2. OpenOK(Append(inbox, m), editor[x], service[x], outbox, x)
      BY <1>1, <2>1, AppendKeeps
    <2> QED BY <1>2, <2>2 DEF DocumentOK
  <1>3. CASE ~editor[x].open
    <2>1. ClosedOK(inbox, service[x], x)
      BY <1>1, <1>3 DEF DocumentOK
    <2>2. ClosedOK(Append(inbox, m), service[x], x)
      BY <1>1, <2>1, AppendClosed
    <2> QED BY <1>3, <2>2 DEF DocumentOK
  <1> QED BY <1>2, <1>3

(* A document is opened when nothing about it is on its way any more.      *)
LEMMA OpenStep ==
    ASSUME SessionAssumption, SessionInv, NEW d \in Docs, Session!EditorOpen(d)
    PROVE  SessionInv'
  <1> DEFINE m == [kind |-> "open", doc |-> d, version |-> 1, text |-> editor[d].file,
                   of |-> None]
             e == [editor[d] EXCEPT !.open = TRUE, !.version = 1, !.text = editor[d].file]
             p == Append(inbox, m)
  <1>1. editor[d] \in EditorDocument /\ service[d] \in ServiceDocument /\ inbox \in Seq(Message)
    BY DEF SessionInv, SessionTyped
  <1>2. m \in Message
    BY <1>1 DEF Message, EditorDocument, VersionNumbers
  <1>3. /\ e \in EditorDocument /\ e.open /\ e.version = 1 /\ e.text = editor[d].file
        /\ e.text \in Nat
    BY <1>1 DEF EditorDocument, VersionNumbers
  <1>4. /\ editor' = [editor EXCEPT ![d] = e]
        /\ inbox' = p
        /\ UNCHANGED <<service, outbox, texts>>
    BY DEF Session!EditorOpen, Session!Notify, SessionInv, SessionTyped
  <1>5. /\ \A k \in 1 .. Len(inbox) : inbox[k].doc # d
        /\ \A x \in outbox : x.doc # d
        /\ ~editor[d].open
    BY <1>1 DEF Session!EditorOpen, Session!Settled, SessionAssumption
  <1>6. service[d].version = None
    BY <1>5 DEF SessionInv, DocumentOK, ClosedOK
  <1>7. /\ Len(p) = Len(inbox) + 1 /\ Len(inbox) \in Nat
        /\ p[Len(inbox) + 1] = m
        /\ \A k \in 1 .. Len(inbox) : p[k] = inbox[k]
        /\ Pending(p, d) = {Len(inbox) + 1}
    <2>1. GivesText(m) /\ m.doc = d
      BY DEF GivesText
    <2>2. Pending(inbox, d) = {}
      BY <1>5 DEF Pending
    <2> HIDE DEF m
    <2>3. /\ Len(p) = Len(inbox) + 1
          /\ p[Len(inbox) + 1] = m
          /\ \A k \in 1 .. Len(inbox) : p[k] = inbox[k]
          /\ Pending(p, d) = Pending(inbox, d) \cup {Len(inbox) + 1}
      BY <1>1, <1>2, <2>1, AppendText
    <2>4. Len(inbox) \in Nat
      BY <1>1
    <2> HIDE DEF p
    <2> QED BY <2>2, <2>3, <2>4
  <1>8. SessionTyped'
    BY <1>1, <1>2, <1>3, <1>4 DEF SessionInv, SessionTyped
  <1>9. DocumentOK(d)'
    <2>1. m.kind = "open" /\ m.version = 1 /\ m.text = e.text /\ m.of = None /\ m.doc = d
      BY <1>3
    <2>2. editor'[d] = e /\ service'[d] = service[d]
      BY <1>4 DEF SessionInv, SessionTyped
    <2> HIDE DEF e, p, m
    <2>3. Queued(p, e, d)
      BY <1>3, <1>5, <1>7, <2>1 DEF Queued, Last, Follow
    <2>4. Linked(p, e, service[d], d)
      BY <1>6, <1>7, <2>1 DEF Linked
    <2>5. Sent(e, service[d], outbox, d)
      BY <1>5 DEF Sent
    <2> QED BY <1>3, <1>4, <2>2, <2>3, <2>4, <2>5 DEF DocumentOK, OpenOK
  <1>10. ASSUME NEW x \in Docs, x # d
         PROVE  DocumentOK(x)'
    <2>1. editor'[x] = editor[x] /\ m.doc = d
      BY <1>4, <1>10 DEF SessionInv, SessionTyped
    <2> HIDE DEF m
    <2> QED BY <1>2, <1>4, <1>10, <2>1, OthersKeep
  <1> QED BY <1>8, <1>9, <1>10 DEF SessionInv

(* A change lengthens the chain.                                           *)
LEMMA ChangeStep ==
    ASSUME SessionAssumption, SessionInv, NEW d \in Docs, NEW whole \in BOOLEAN,
           Session!EditorChange(d, whole)
    PROVE  SessionInv'
  <1> DEFINE old == editor[d]
             of == IF whole THEN None ELSE old.text
             m == [kind |-> "change", doc |-> d, version |-> old.version + 1,
                   text |-> texts + 1, of |-> of]
             e == [old EXCEPT !.version = old.version + 1, !.text = texts + 1]
             p == Append(inbox, m)
             n == Len(inbox) + 1
  <1>1. old \in EditorDocument /\ service[d] \in ServiceDocument /\ inbox \in Seq(Message)
        /\ texts \in Nat
    BY DEF SessionInv, SessionTyped
  <1>2. old.open /\ OpenOK(inbox, old, service[d], outbox, d)
    BY DEF Session!EditorChange, SessionInv, DocumentOK
  <1>3. old.version \in Nat /\ old.text \in Nat
    BY <1>1, <1>2 DEF OpenOK, Queued, EditorDocument
  <1>4. m \in Message
    BY <1>1, <1>3 DEF Message, VersionNumbers
  <1>5. /\ e \in EditorDocument /\ e.open /\ e.version = old.version + 1 /\ e.text = texts + 1
        /\ e.synced = old.synced
    <2>1. old.version + 1 \in Nat /\ texts + 1 \in Nat
      BY <1>1, <1>3
    <2> HIDE DEF old
    <2> QED BY <1>1, <1>2, <2>1 DEF EditorDocument, VersionNumbers
  <1>6. /\ texts' = texts + 1
        /\ editor' = [editor EXCEPT ![d] = e]
        /\ inbox' = p
        /\ UNCHANGED <<service, outbox>>
    BY DEF Session!EditorChange, Session!Notify, SessionInv, SessionTyped
  <1>7. /\ Len(p) = n /\ n \in Nat /\ n > 0
        /\ p[n] = m
        /\ \A k \in 1 .. Len(inbox) : p[k] = inbox[k]
        /\ Pending(p, d) = Pending(inbox, d) \cup {n}
    <2>1. GivesText(m) /\ m.doc = d
      BY DEF GivesText
    <2> HIDE DEF m
    <2> QED BY <1>1, <1>4, <2>1, AppendText
  <1>8. \A k \in Pending(inbox, d) : k \in 1 .. Len(inbox) /\ k < n /\ p[k] = inbox[k]
    BY <1>1, <1>7 DEF Pending
  <1>9. SessionTyped'
    BY <1>1, <1>4, <1>5, <1>6 DEF SessionInv, SessionTyped
  <1>10. DocumentOK(d)'
    <2>1. /\ m.kind = "change" /\ m.version = e.version /\ m.text = e.text /\ m.of = of
          /\ m.doc = d /\ m.text \in Nat
      BY <1>1, <1>5
    <2>2. editor'[d] = e /\ service'[d] = service[d]
      BY <1>6 DEF SessionInv, SessionTyped
    <2>3. of \in {None, old.text}
      OBVIOUS
    <2> HIDE DEF e, p, m, old, of, n
    <2>4. \A k \in 1 .. Len(p) : p[k].doc = d => p[k].kind # "close"
      <3>1. \A k \in 1 .. Len(p) : k = n \/ k \in 1 .. Len(inbox)
        BY <1>1, <1>7 DEF n
      <3> QED BY <1>2, <1>7, <2>1, <3>1 DEF OpenOK, Queued
    <2>5. ASSUME NEW k \in Pending(p, d)
          PROVE  /\ p[k].version \in Nat /\ p[k].version <= e.version
                 /\ p[k].text \in Nat
                 /\ p[k].kind = "open" => p[k].of = None
                 /\ p[k].version = e.version => p[k].text = e.text
                 /\ Last(p, d, k) => p[k].version = e.version
      <3>1. CASE k = n
        BY <3>1, <1>3, <1>5, <1>7, <2>1
      <3>2. CASE k \in Pending(inbox, d)
        <4>1. p[k].version \in Nat /\ p[k].version <= old.version
          BY <3>2, <1>2, <1>8 DEF OpenOK, Queued
        <4>2. ~Last(p, d, k)
          BY <3>2, <1>7, <1>8 DEF Last
        <4>3. p[k].text \in Nat /\ (p[k].kind = "open" => p[k].of = None)
          BY <3>2, <1>2, <1>8 DEF OpenOK, Queued
        <4> QED BY <4>1, <4>2, <4>3, <1>3, <1>5
      <3> QED BY <3>1, <3>2, <1>7
    <2>6. ASSUME NEW j \in Pending(p, d), NEW k \in Pending(p, d), j < k
          PROVE  p[j].version < p[k].version
      <3>1. j \in Pending(inbox, d)
        BY <2>6, <1>7, <1>8
      <3>2. p[j].version \in Nat /\ p[j].version <= old.version
        BY <3>1, <1>2, <1>8 DEF OpenOK, Queued
      <3>3. CASE k = n
        BY <3>2, <3>3, <1>3, <1>5, <1>7, <2>1
      <3>4. CASE k \in Pending(inbox, d)
        BY <2>6, <3>1, <3>4, <1>2, <1>8 DEF OpenOK, Queued
      <3> QED BY <3>3, <3>4, <1>7
    <2>7. ASSUME NEW j \in Pending(p, d), NEW k \in Pending(p, d), Follow(p, d, j, k)
          PROVE  p[k].of \in {None, p[j].text}
      <3>1. j \in Pending(inbox, d) /\ j < k
        BY <2>7, <1>7, <1>8 DEF Follow
      <3>2. CASE k = n
        <4>1. Last(inbox, d, j)
          BY <2>7, <3>1, <3>2, <1>7, <1>8 DEF Follow, Last
        <4>2. inbox[j].text = old.text
          BY <4>1, <3>1, <1>2 DEF OpenOK, Queued
        <4> QED BY <4>2, <3>1, <3>2, <1>7, <1>8, <2>1, <2>3
      <3>3. CASE k \in Pending(inbox, d)
        <4>1. Follow(inbox, d, j, k)
          BY <2>7, <1>7 DEF Follow
        <4> QED BY <4>1, <3>1, <3>3, <1>2, <1>8 DEF OpenOK, Queued
      <3> QED BY <3>2, <3>3, <1>7
    <2>8. Queued(p, e, d)
      BY <1>3, <1>5, <2>4, <2>5, <2>6, <2>7 DEF Queued
    <2>9. Linked(p, e, service[d], d)
      <3>1. ASSUME service[d].version # None
            PROVE  /\ service[d].buffer # None
                   /\ service[d].version <= e.version
                   /\ \A k \in Pending(p, d) : service[d].version < p[k].version
        <4>1. /\ service[d].version \in Nat /\ service[d].version <= old.version
              /\ service[d].buffer # None
              /\ \A k \in Pending(inbox, d) : service[d].version < inbox[k].version
          BY <3>1, <1>1, <1>2 DEF OpenOK, Linked, ServiceDocument, VersionNumbers
        <4> QED BY <4>1, <1>3, <1>5, <1>7, <1>8, <2>1
      <3>2. ASSUME e.synced, NEW k \in Pending(p, d), First(p, d, k)
            PROVE  p[k].kind = "open" \/ p[k].of \in {None, service[d].buffer}
        <4>1. CASE k = n
          <5>1. Pending(inbox, d) = {}
            <6>1. ASSUME NEW i \in Pending(inbox, d)
                  PROVE  FALSE
              <7>1. k <= i
                BY <3>2, <1>7 DEF First
              <7>2. i \in 1 .. Len(inbox) /\ i < n
                BY <1>8
              <7> QED BY <7>1, <7>2, <4>1, <1>1, <1>7
            <6> QED BY <6>1
          <5>2. service[d].buffer = old.text
            BY <5>1, <3>2, <1>2, <1>5 DEF OpenOK, Linked
          <5> QED BY <5>2, <4>1, <1>7, <2>1, <2>3
        <4>2. CASE k \in Pending(inbox, d)
          <5>1. First(inbox, d, k)
            BY <3>2, <1>7 DEF First
          <5> QED BY <5>1, <4>2, <3>2, <1>2, <1>5, <1>8 DEF OpenOK, Linked
        <4> QED BY <4>1, <4>2, <1>7
      <3>3. Pending(p, d) # {}
        BY <1>7
      <3> QED BY <3>1, <3>2, <3>3 DEF Linked
    <2>10. Sent(e, service[d], outbox, d)
      <3>1. ASSUME NEW x \in outbox, x.doc = d
            PROVE  /\ x.version # None =>
                         service[d].version # None /\ x.version <= service[d].version
                   /\ x.version # e.version
        <4>1. x.version # None => service[d].version # None /\ x.version <= service[d].version
          BY <3>1, <1>2 DEF OpenOK, Sent
        <4>2. x.version \in VersionNumbers /\ service[d].version \in VersionNumbers
          BY <1>1, <3>1 DEF SessionInv, SessionTyped, Diagnosis, ServiceDocument
        <4>3. service[d].version # None => service[d].version <= old.version
          BY <1>2 DEF OpenOK, Linked
        <4>4. x.version # None => x.version \in Nat /\ x.version <= old.version
          BY <4>1, <4>2, <4>3, <1>3 DEF VersionNumbers
        <4> QED BY <4>1, <4>4, <1>3, <1>5 DEF SessionAssumption
      <3> QED BY <3>1 DEF Sent
    <2> QED BY <1>5, <1>6, <2>2, <2>8, <2>9, <2>10 DEF DocumentOK, OpenOK
  <1>11. ASSUME NEW x \in Docs, x # d
         PROVE  DocumentOK(x)'
    <2>1. editor'[x] = editor[x] /\ m.doc = d
      BY <1>6, <1>11 DEF SessionInv, SessionTyped
    <2> HIDE DEF m
    <2> QED BY <1>4, <1>6, <1>11, <2>1, OthersKeep
  <1> QED BY <1>9, <1>10, <1>11 DEF SessionInv

(* A save changes no text.                                                 *)
LEMMA SaveStep ==
    ASSUME SessionInv, NEW d \in Docs, Session!EditorSave(d)
    PROVE  SessionInv'
  <1> DEFINE old == editor[d]
             m == [kind |-> "save", doc |-> d, version |-> None, text |-> None, of |-> None]
             e == [old EXCEPT !.file = old.text]
  <1>1. old \in EditorDocument /\ inbox \in Seq(Message)
    BY DEF SessionInv, SessionTyped
  <1>2. m \in Message /\ m.kind = "save" /\ m.doc = d
    BY DEF Message, VersionNumbers
  <1>3. /\ e \in EditorDocument /\ e.open = old.open /\ e.version = old.version
        /\ e.text = old.text /\ e.synced = old.synced
    BY <1>1 DEF EditorDocument
  <1>4. /\ editor' = [editor EXCEPT ![d] = e]
        /\ inbox' = Append(inbox, m)
        /\ UNCHANGED <<service, outbox, texts>>
    BY DEF Session!EditorSave, Session!Notify, SessionInv, SessionTyped
  <1>5. old.open /\ OpenOK(inbox, old, service[d], outbox, d)
    BY DEF Session!EditorSave, SessionInv, DocumentOK
  <1> HIDE DEF m, e
  <1>6. SessionTyped'
    BY <1>1, <1>2, <1>3, <1>4 DEF SessionInv, SessionTyped
  <1>7. DocumentOK(d)'
    <2>1. OpenOK(Append(inbox, m), old, service[d], outbox, d)
      BY <1>1, <1>2, <1>5, AppendKeeps
    <2>2. OpenOK(Append(inbox, m), e, service[d], outbox, d)
      BY <2>1, <1>3 DEF OpenOK, Queued, Linked, Sent
    <2>3. editor'[d] = e /\ service'[d] = service[d]
      BY <1>4 DEF SessionInv, SessionTyped
    <2> QED BY <1>3, <1>4, <1>5, <2>2, <2>3 DEF DocumentOK
  <1>8. ASSUME NEW x \in Docs, x # d
        PROVE  DocumentOK(x)'
    <2>1. editor'[x] = editor[x]
      BY <1>4, <1>8 DEF SessionInv, SessionTyped
    <2> QED BY <1>2, <1>4, <1>8, <2>1, OthersKeep
  <1> QED BY <1>6, <1>7, <1>8 DEF SessionInv

(* After a close the service will know.                                    *)
LEMMA CloseStep ==
    ASSUME SessionInv, NEW d \in Docs, Session!EditorClose(d)
    PROVE  SessionInv'
  <1> DEFINE old == editor[d]
             m == [kind |-> "close", doc |-> d, version |-> None, text |-> None, of |-> None]
             e == [old EXCEPT !.open = FALSE, !.version = None, !.text = old.file]
             p == Append(inbox, m)
  <1>1. old \in EditorDocument /\ inbox \in Seq(Message)
    BY DEF SessionInv, SessionTyped
  <1>2. m \in Message /\ m.kind = "close" /\ m.doc = d
    BY DEF Message, VersionNumbers
  <1>3. e \in EditorDocument /\ ~e.open
    BY <1>1 DEF EditorDocument, VersionNumbers
  <1>4. /\ editor' = [editor EXCEPT ![d] = e]
        /\ inbox' = p
        /\ UNCHANGED <<service, outbox, texts>>
    BY DEF Session!EditorClose, Session!Notify, SessionInv, SessionTyped
  <1> HIDE DEF m, e
  <1>5. SessionTyped'
    BY <1>1, <1>2, <1>3, <1>4 DEF SessionInv, SessionTyped
  <1>6. DocumentOK(d)'
    <2>1. Len(p) = Len(inbox) + 1 /\ Len(inbox) \in Nat /\ p[Len(inbox) + 1] = m
      BY <1>1
    <2>2. editor'[d] = e
      BY <1>4 DEF SessionInv, SessionTyped
    <2> HIDE DEF p
    <2>3. \A j \in 1 .. Len(p) : j <= Len(inbox) + 1
      BY <2>1
    <2>4. ClosedOK(p, service'[d], d)
      BY <1>2, <2>1, <2>3 DEF ClosedOK
    <2> QED BY <1>3, <1>4, <2>2, <2>4 DEF DocumentOK
  <1>7. ASSUME NEW x \in Docs, x # d
        PROVE  DocumentOK(x)'
    <2>1. editor'[x] = editor[x]
      BY <1>4, <1>7 DEF SessionInv, SessionTyped
    <2> QED BY <1>2, <1>4, <1>7, <2>1, OthersKeep
  <1> QED BY <1>5, <1>6, <1>7 DEF SessionInv

-----------------------------------------------------------------------------
(* Steps of the server                                                     *)

LEMMA HeadOfQueue ==
    ASSUME NEW q \in Seq(Message), q # << >>
    PROVE  /\ Head(q) \in Message /\ Head(q) = q[1] /\ Head(q).doc \in Docs
           /\ 1 \in 1 .. Len(q)
  <1>1. Len(q) \in Nat /\ Len(q) # 0
    OBVIOUS
  <1>2. 1 \in 1 .. Len(q) /\ Head(q) = q[1] /\ q[1] \in Message
    BY <1>1
  <1> QED BY <1>2 DEF Message

(* Nor does it matter that one of them is taken.                           *)
LEMMA TailClosed ==
    ASSUME NEW q \in Seq(Message), q # << >>, NEW d \in Docs, NEW s,
           Head(q).doc # d, ClosedOK(q, s, d)
    PROVE  ClosedOK(Tail(q), s, d)
  <1> DEFINE p == Tail(q)
  <1>1. /\ Len(p) \in Nat /\ Len(q) = Len(p) + 1
        /\ \A k \in 1 .. Len(p) : p[k] = q[k + 1]
        /\ q[1].doc # d
    OBVIOUS
  <1> HIDE DEF p
  <1>2. CASE s.version = None /\ \A k \in 1 .. Len(q) : q[k].doc # d
    BY <1>1, <1>2 DEF ClosedOK, p
  <1>3. ASSUME NEW k \in 1 .. Len(q), q[k].doc = d, q[k].kind = "close",
               \A j \in 1 .. Len(q) : q[j].doc = d => j <= k
        PROVE  ClosedOK(p, s, d)
    <2>1. k - 1 \in 1 .. Len(p) /\ p[k - 1] = q[k]
      BY <1>1, <1>3
    <2>2. \A j \in 1 .. Len(p) : p[j].doc = d => j <= k - 1
      BY <1>1, <1>3
    <2> QED BY <1>3, <2>1, <2>2 DEF ClosedOK
  <1> QED BY <1>2, <1>3 DEF ClosedOK, p

(* A message that is no close is not the last about a closed document.     *)
LEMMA TailClosedOther ==
    ASSUME NEW q \in Seq(Message), q # << >>, NEW d \in Docs, NEW s, NEW t,
           q[1].doc = d, q[1].kind # "close", ClosedOK(q, s, d)
    PROVE  ClosedOK(Tail(q), t, d)
  <1> DEFINE p == Tail(q)
  <1>1. /\ Len(p) \in Nat /\ Len(q) = Len(p) + 1
        /\ \A k \in 1 .. Len(p) : p[k] = q[k + 1]
    OBVIOUS
  <1> HIDE DEF p
  <1>2. PICK k \in 1 .. Len(q) : /\ q[k].doc = d /\ q[k].kind = "close"
                                 /\ \A j \in 1 .. Len(q) : q[j].doc = d => j <= k
    BY <1>1 DEF ClosedOK
  <1>3. k - 1 \in 1 .. Len(p) /\ p[k - 1] = q[k]
    BY <1>1, <1>2
  <1>4. \A j \in 1 .. Len(p) : p[j].doc = d => j <= k - 1
    BY <1>1, <1>2
  <1> QED BY <1>2, <1>3, <1>4 DEF ClosedOK, p

(* After a close the service holds no version.                             *)
LEMMA TailClosedBy ==
    ASSUME NEW q \in Seq(Message), q # << >>, NEW d \in Docs, NEW s, NEW t,
           q[1].doc = d, t.version = None, ClosedOK(q, s, d)
    PROVE  ClosedOK(Tail(q), t, d)
  <1> DEFINE p == Tail(q)
  <1>1. /\ Len(p) \in Nat /\ Len(q) = Len(p) + 1
        /\ \A k \in 1 .. Len(p) : p[k] = q[k + 1]
    OBVIOUS
  <1> HIDE DEF p
  <1>2. PICK k \in 1 .. Len(q) : /\ q[k].doc = d /\ q[k].kind = "close"
                                 /\ \A j \in 1 .. Len(q) : q[j].doc = d => j <= k
    BY <1>1 DEF ClosedOK
  <1>3. CASE k = 1
    <2>1. \A j \in 1 .. Len(p) : p[j].doc # d
      BY <1>1, <1>2, <1>3
    <2> QED BY <2>1 DEF ClosedOK, p
  <1>4. CASE k # 1
    <2>1. k - 1 \in 1 .. Len(p) /\ p[k - 1] = q[k]
      BY <1>1, <1>2, <1>4
    <2>2. \A j \in 1 .. Len(p) : p[j].doc = d => j <= k - 1
      BY <1>1, <1>2
    <2> QED BY <1>2, <2>1, <2>2 DEF ClosedOK, p
  <1> QED BY <1>3, <1>4

(* A close is taken.                                                       *)
LEMMA CloseAccepted ==
    ASSUME SessionAssumption, NEW m, m.of = None, m.text = None
    PROVE  Session!Accepted(m)
  BY DEF SessionAssumption, Session!Accepted, Session!Edited

(* A handler that takes the head of the queue leaves every document alone  *)
(* that the message is not about, whatever it sends.                       *)
LEMMA HeadOfAnother ==
    ASSUME SessionInv, inbox # << >>, inbox' = Tail(inbox), NEW x \in Docs,
           Head(inbox).doc # x, editor'[x] = editor[x], service'[x] = service[x],
           \A m \in outbox' : m.doc = x => m \in outbox
    PROVE  DocumentOK(x)'
  <1>1. inbox \in Seq(Message) /\ DocumentOK(x)
    BY DEF SessionInv, SessionTyped
  <1>2. CASE editor[x].open
    <2>1. OpenOK(inbox, editor[x], service[x], outbox, x)
      BY <1>1, <1>2 DEF DocumentOK
    <2>2. Queued(Tail(inbox), editor[x], x)
      BY <1>1, <2>1, TailQueued DEF OpenOK
    <2>3. Linked(Tail(inbox), editor[x], service[x], x)
      BY <1>1, <2>1, TailLinked DEF OpenOK
    <2>4. Sent(editor[x], service[x], outbox', x)
      BY <2>1 DEF OpenOK, Sent
    <2> QED BY <1>2, <2>2, <2>3, <2>4 DEF DocumentOK, OpenOK
  <1>3. CASE ~editor[x].open
    <2>1. ClosedOK(inbox, service[x], x)
      BY <1>1, <1>3 DEF DocumentOK
    <2>2. ClosedOK(Tail(inbox), service[x], x)
      BY <1>1, <2>1, TailClosed
    <2> QED BY <1>3, <2>2 DEF DocumentOK
  <1> QED BY <1>2, <1>3

(* The service takes a text, a save or a close; it tells what it finds.    *)
LEMMA HandleStep ==
    ASSUME SessionAssumption, SessionInv, Session!Handle
    PROVE  SessionInv'
  <1>0. inbox # << >> /\ inbox \in Seq(Message)
    BY DEF Session!Handle, SessionInv, SessionTyped
  <1>m. PICK m \in Message : m = Head(inbox)
    BY <1>0, HeadOfQueue
  <1>d. PICK d \in Docs : d = m.doc
    BY <1>m, <1>0, HeadOfQueue
  <1> DEFINE old == editor[d]
             held == service[d]
             s == Session!After(m)
             e == [old EXCEPT !.synced = @ \/ (m.kind \in {"open", "change"} /\ m.of = None)]
             x == Session!Diagnostics(m, s)
             p == Tail(inbox)
  <1>1. inbox # << >> /\ inbox \in Seq(Message) /\ m \in Message /\ d \in Docs
    BY <1>0
  <1>2. old \in EditorDocument /\ held \in ServiceDocument
    BY <1>1 DEF SessionInv, SessionTyped
  <1>3. /\ m.kind \in {"open", "change", "save", "close"} /\ m.version \in VersionNumbers
        /\ m.text \in Nat \cup {None} /\ m.of \in Nat \cup {None}
    BY <1>1 DEF Message
  <1>4. /\ service' = [service EXCEPT ![d] = s]
        /\ editor' = [editor EXCEPT ![d] = e]
        /\ outbox' = outbox \cup {x}
        /\ inbox' = p
        /\ UNCHANGED texts
    BY <1>m, <1>d, <1>2 DEF Session!Handle, Session!Publish, SessionInv, SessionTyped
  <1>5. Session!Edited(m) \in Texts
    BY <1>3 DEF Session!Edited, Texts
  <1>6. /\ GivesText(m) => /\ s.buffer = Session!Edited(m) /\ s.version = m.version
                           /\ s.disk = None
        /\ m.kind = "save" => /\ s.buffer = held.buffer /\ s.version = held.version
                              /\ s.disk \in Texts
        /\ m.kind = "close" => s.buffer = None /\ s.version = None /\ s.disk \in Texts
    BY <1>d, <1>2, <1>3 DEF Session!After, GivesText, ServiceDocument
  <1>7. s \in ServiceDocument
    <2>1. GivesText(m) => s = [buffer |-> Session!Edited(m), version |-> m.version, disk |-> None]
      BY <1>3 DEF Session!After, GivesText
    <2>2. m.kind = "save" =>
            s = [held EXCEPT !.disk = IF held.buffer # None THEN held.buffer ELSE @]
      BY <1>d DEF Session!After
    <2>3. m.kind = "close" => s = [held EXCEPT !.buffer = None, !.version = None]
      BY <1>d DEF Session!After
    <2> HIDE DEF s, held
    <2>4. CASE GivesText(m)
      BY <2>1, <2>4, <1>3, <1>5 DEF ServiceDocument, Texts
    <2>5. CASE m.kind = "save"
      <3>1. held.buffer \in Texts /\ held.disk \in Texts
        BY <1>2 DEF ServiceDocument
      <3> QED BY <2>2, <2>5, <3>1, <1>2 DEF ServiceDocument
    <2>6. CASE m.kind = "close"
      BY <2>3, <2>6, <1>2 DEF ServiceDocument, Texts, VersionNumbers
    <2> QED BY <2>4, <2>5, <2>6, <1>3 DEF GivesText
  <1>8. /\ e \in EditorDocument /\ e.open = old.open /\ e.version = old.version
        /\ e.text = old.text /\ e.file = old.file
        /\ e.synced = (old.synced \/ (GivesText(m) /\ m.of = None))
    BY <1>2 DEF EditorDocument, GivesText
  <1>9. x = [doc |-> d, text |-> Session!Content(s, old.file), version |-> s.version]
    BY <1>d DEF Session!Diagnostics
  <1>10. x \in Diagnosis
    <2>1. Session!Content(s, old.file) \in Texts
      BY <1>2, <1>7 DEF Session!Content, ServiceDocument, EditorDocument, Texts
    <2> QED BY <1>1, <1>7, <1>9, <2>1 DEF Diagnosis, ServiceDocument
  <1>11. p \in Seq(Message)
    BY <1>1
  <1>12. editor'[d] = e /\ service'[d] = s
    BY <1>1, <1>4 DEF SessionInv, SessionTyped
  <1>13. m = inbox[1] /\ 1 \in 1 .. Len(inbox)
    BY <1>0, <1>m, HeadOfQueue
  <1>14. old.open => OpenOK(inbox, old, held, outbox, d)
    BY <1>1 DEF SessionInv, DocumentOK
  <1>15. ~old.open => ClosedOK(inbox, held, d)
    BY <1>1 DEF SessionInv, DocumentOK
  <1>16. DocumentOK(d) /\ (GivesText(m) =>
           Session!Edited(m) = IF m.of \in {None, Session!Content(held, old.file)}
                                    THEN m.text ELSE Garbled)
    BY <1>1, <1>d DEF SessionInv, Session!Edited
  <1> HIDE DEF s, e, x, old, held
  <1>17. SessionTyped'
    BY <1>4, <1>7, <1>8, <1>10, <1>11 DEF SessionInv, SessionTyped
  <1>18. DocumentOK(d)'
    <2>1. CASE ~old.open
      <3>1. CASE m.kind = "close"
        <4>1. s.version = None
          BY <3>1, <1>6
        <4>2. ClosedOK(p, s, d)
          BY <2>1, <4>1, <1>1, <1>13, <1>15, <1>d, TailClosedBy
        <4> HIDE DEF p
        <4> QED BY <2>1, <4>2, <1>4, <1>8, <1>12 DEF DocumentOK
      <3>2. CASE m.kind # "close"
        <4>1. ClosedOK(inbox, held, d) /\ inbox[1].doc = d
          BY <2>1, <1>13, <1>15, <1>d
        <4>2. ClosedOK(p, s, d)
          BY <3>2, <4>1, <1>1, <1>13, TailClosedOther
        <4> HIDE DEF p
        <4> QED BY <2>1, <4>2, <1>4, <1>8, <1>12 DEF DocumentOK
      <3> QED BY <3>1, <3>2
    <2>2. CASE old.open /\ GivesText(m)
      <3>1. OpenOK(inbox, old, held, outbox, d) /\ e.open
        BY <2>2, <1>8, <1>14
      <3>2. Queued(p, e, d)
        <4>1. Queued(p, old, d)
          BY <3>1, <1>1, TailQueued DEF OpenOK
        <4> QED BY <4>1, <1>8 DEF Queued
      <3>3. 1 \in Pending(inbox, d) /\ First(inbox, d, 1)
        BY <2>2, <1>1, <1>13, <1>d DEF Pending, First
      <3>4. /\ m.version \in Nat /\ m.version <= e.version /\ m.text \in Nat
            /\ m.kind = "open" => m.of = None
            /\ m.version = e.version => m.text = e.text
            /\ e.version \in Nat
        BY <3>1, <3>3, <1>8, <1>13 DEF OpenOK, Queued
      <3>5. e.synced => s.buffer = m.text
        <4>1. CASE m.of = None
          BY <4>1, <2>2, <1>6, <1>16
        <4>2. CASE m.of # None /\ e.synced
          <5>1. old.synced
            BY <4>2, <1>8
          <5>2. m.of \in {None, held.buffer}
            BY <5>1, <3>1, <3>3, <3>4, <1>13 DEF OpenOK, Linked
          <5>3. Session!Content(held, old.file) = m.of
            BY <5>2, <4>2 DEF Session!Content
          <5> QED BY <5>3, <2>2, <1>6, <1>16
        <4> QED BY <4>1, <4>2
      <3>6. s.version = m.version /\ s.buffer # None
        BY <2>2, <3>4, <1>6, <1>16 DEF SessionAssumption
      <3>7. Linked(p, e, s, d)
        <4>1. /\ Len(p) \in Nat /\ Len(inbox) = Len(p) + 1
              /\ \A k \in 1 .. Len(p) : p[k] = inbox[k + 1]
              /\ \A k \in Pending(p, d) : k \in 1 .. Len(p) /\ k + 1 \in Pending(inbox, d)
              /\ \A k \in Pending(inbox, d) :
                    k \in 1 .. Len(inbox) /\ (k # 1 => k - 1 \in Pending(p, d))
          BY <1>1, TailOfQueue
        <4> HIDE DEF p
        <4>2. \A k \in Pending(p, d) : s.version < p[k].version
          BY <3>1, <3>3, <3>6, <4>1, <1>13 DEF OpenOK, Queued
        <4>3. ASSUME Pending(p, d) = {}
              PROVE  s.version = e.version
          <5>1. Last(inbox, d, 1)
            BY <4>1, <4>3 DEF Last
          <5> QED BY <5>1, <3>1, <3>3, <3>6, <1>8, <1>13 DEF OpenOK, Queued
        <4>4. ASSUME e.synced, NEW k \in Pending(p, d), First(p, d, k)
              PROVE  p[k].of \in {None, s.buffer}
          <5>1. ASSUME NEW i \in Pending(inbox, d)
                PROVE  i <= 1 \/ k + 1 <= i
            <6>1. i \in 1 .. Len(inbox) /\ (i # 1 => i - 1 \in Pending(p, d))
              BY <4>1
            <6>2. i # 1 => k <= i - 1
              BY <6>1, <4>4 DEF First
            <6> QED BY <6>1, <6>2, <4>1
          <5>2. k + 1 \in Pending(inbox, d) /\ k \in 1 .. Len(p) /\ p[k] = inbox[k + 1]
            BY <4>1
          <5>3. Follow(inbox, d, 1, k + 1)
            BY <5>1, <5>2 DEF Follow
          <5>4. inbox[k + 1].of \in {None, inbox[1].text}
            BY <5>2, <5>3, <3>1, <3>3 DEF OpenOK, Queued
          <5> QED BY <5>2, <5>4, <3>5, <4>4, <1>13
        <4>5. s.version <= e.version
          BY <3>4, <3>6
        <4>6. e.synced /\ Pending(p, d) = {} => s.buffer = e.text
          BY <3>4, <3>5, <3>6, <4>3
        <4> QED BY <3>6, <4>2, <4>3, <4>4, <4>5, <4>6 DEF Linked
      <3>8. Sent(e, s, outbox', d)
        <4>1. ASSUME NEW y \in outbox, y.doc = d
              PROVE  /\ y.version # None => y.version <= s.version
                     /\ y.version # e.version
          <5>1. y.version \in VersionNumbers /\ held.version \in VersionNumbers
            BY <1>2 DEF SessionInv, SessionTyped, Diagnosis, ServiceDocument
          <5>2. y.version # None => held.version # None /\ y.version <= held.version
            BY <4>1, <3>1 DEF OpenOK, Sent
          <5>3. held.version # None => held.version < m.version
            BY <3>1, <3>3, <1>13 DEF OpenOK, Linked
          <5> QED BY <5>1, <5>2, <5>3, <3>4, <3>6 DEF VersionNumbers, SessionAssumption
        <4>2. x.version = s.version /\ x.text = s.buffer
          BY <1>9, <3>6 DEF Session!Content
        <4>3. s.version # None
          BY <3>4, <3>6 DEF SessionAssumption
        <4>4. s.version <= s.version
          BY <3>4, <3>6
        <4>5. e.synced /\ x.version = e.version => x.text = e.text
          BY <3>4, <3>5, <3>6, <4>2
        <4> QED BY <4>1, <4>2, <4>3, <4>4, <4>5, <1>4 DEF Sent
      <3> HIDE DEF p
      <3> QED BY <3>1, <3>2, <3>7, <3>8, <1>4, <1>12 DEF DocumentOK, OpenOK
    <2>3. CASE old.open /\ ~GivesText(m)
      <3>1. OpenOK(inbox, old, held, outbox, d) /\ e.open
        BY <2>3, <1>8, <1>14
      <3>2. m.kind = "save" /\ e.synced = old.synced
        <4>1. m.kind # "close"
          BY <3>1, <1>13, <1>d DEF OpenOK, Queued
        <4> QED BY <4>1, <2>3, <1>3, <1>8, <1>2 DEF GivesText, EditorDocument
      <3>3. s.buffer = held.buffer /\ s.version = held.version
        BY <3>2, <1>6
      <3>4. Queued(p, e, d)
        <4>1. Queued(p, old, d)
          BY <3>1, <1>1, TailQueued DEF OpenOK
        <4> QED BY <4>1, <1>8 DEF Queued
      <3>5. Linked(p, e, s, d)
        <4>1. Linked(p, old, held, d)
          BY <2>3, <3>1, <1>1, <1>m, TailLinked DEF OpenOK
        <4> QED BY <4>1, <3>2, <3>3, <1>8 DEF Linked
      <3>6. Sent(e, s, outbox', d)
        <4>1. ASSUME NEW y \in outbox, y.doc = d
              PROVE  /\ y.version # None => s.version # None /\ y.version <= s.version
                     /\ e.synced /\ y.version = e.version => y.text = e.text
          BY <4>1, <3>1, <3>2, <3>3, <1>8 DEF OpenOK, Sent
        <4>2. x.version = s.version
          BY <1>9
        <4>3. s.version # None => s.version <= s.version
          BY <1>7 DEF ServiceDocument, VersionNumbers
        <4>4. ASSUME e.synced, x.version = e.version
              PROVE  x.text = e.text
          <5>1. held.version = old.version /\ held.version \in Nat /\ held.version # None
            BY <4>2, <4>4, <3>1, <3>3, <1>8 DEF OpenOK, Queued, SessionAssumption
          <5>2. Pending(inbox, d) = {}
            <6>1. ASSUME NEW k \in Pending(inbox, d)
                  PROVE  FALSE
              <7>1. /\ held.version < inbox[k].version
                    /\ inbox[k].version \in Nat /\ inbox[k].version <= old.version
                BY <5>1, <3>1 DEF OpenOK, Linked, Queued
              <7> QED BY <5>1, <7>1
            <6> QED BY <6>1
          <5>3. held.buffer = old.text /\ held.buffer # None
            BY <5>1, <5>2, <4>4, <3>1, <3>2 DEF OpenOK, Linked
          <5> QED BY <5>3, <3>3, <1>8, <1>9 DEF Session!Content
        <4> QED BY <4>1, <4>2, <4>3, <4>4, <1>4 DEF Sent
      <3> HIDE DEF p
      <3> QED BY <3>1, <3>4, <3>5, <3>6, <1>4, <1>12 DEF DocumentOK, OpenOK
    <2> QED BY <2>1, <2>2, <2>3
  <1>19. ASSUME NEW y \in Docs, y # d
         PROVE  DocumentOK(y)'
    <2>1. editor'[y] = editor[y] /\ service'[y] = service[y]
      BY <1>4, <1>19 DEF SessionInv, SessionTyped
    <2>2. x.doc = d
      BY <1>9
    <2>3. Head(inbox).doc # y
      BY <1>19, <1>m, <1>d
    <2>4. \A z \in outbox' : z.doc = y => z \in outbox
      BY <2>2, <1>4, <1>19
    <2> QED BY <2>1, <2>3, <2>4, <1>1, <1>4, HeadOfAnother
  <1> QED BY <1>17, <1>18, <1>19 DEF SessionInv

(* A refused text: the editor has what the service has not.                *)
LEMMA RefuseStep ==
    ASSUME SessionAssumption, SessionInv, Session!Refuse
    PROVE  SessionInv'
  <1>0. inbox # << >> /\ inbox \in Seq(Message)
    BY DEF Session!Refuse, SessionInv, SessionTyped
  <1>m. PICK m \in Message : m = Head(inbox)
    BY <1>0, HeadOfQueue
  <1>d. PICK d \in Docs : d = m.doc
    BY <1>m, <1>0, HeadOfQueue
  <1> DEFINE old == editor[d]
             e == [old EXCEPT !.synced = FALSE]
             p == Tail(inbox)
  <1>1. inbox # << >> /\ inbox \in Seq(Message) /\ m \in Message /\ d \in Docs
    BY <1>0
  <1>2. old \in EditorDocument
    BY <1>1 DEF SessionInv, SessionTyped
  <1>3. /\ e \in EditorDocument /\ e.open = old.open /\ e.version = old.version
        /\ e.text = old.text /\ e.synced = FALSE
    BY <1>2 DEF EditorDocument
  <1>4. /\ editor' = [editor EXCEPT ![d] = e]
        /\ inbox' = p
        /\ UNCHANGED <<texts, service, outbox>>
    BY <1>m, <1>d DEF Session!Refuse
  <1>5. SessionTyped'
    BY <1>1, <1>3, <1>4 DEF SessionInv, SessionTyped
  <1>6. editor'[d] = e /\ service'[d] = service[d]
    BY <1>1, <1>4 DEF SessionInv, SessionTyped
  <1>7. m = inbox[1] /\ 1 \in 1 .. Len(inbox)
    BY <1>0, <1>m, HeadOfQueue
  <1>8. DocumentOK(d)'
    <2>1. CASE old.open
      <3>1. OpenOK(inbox, old, service[d], outbox, d)
        BY <2>1, <1>1 DEF SessionInv, DocumentOK
      <3> HIDE DEF e, old
      <3>2. Queued(p, e, d)
        <4>1. Queued(p, old, d)
          BY <3>1, <1>1, TailQueued DEF OpenOK
        <4> QED BY <4>1, <1>3 DEF Queued
      <3>3. Linked(p, e, service[d], d)
        <4>1. /\ Len(p) \in Nat /\ Len(inbox) = Len(p) + 1
              /\ \A k \in 1 .. Len(p) : p[k] = inbox[k + 1]
              /\ \A k \in Pending(p, d) : k \in 1 .. Len(p) /\ k + 1 \in Pending(inbox, d)
          BY <1>1, TailOfQueue
        <4> HIDE DEF p
        <4>2. \A k \in Pending(p, d) : k + 1 \in Pending(inbox, d) /\ p[k] = inbox[k + 1]
          BY <4>1
        <4> QED BY <4>2, <3>1, <1>3 DEF OpenOK, Linked
      <3>4. Sent(e, service[d], outbox, d)
        BY <3>1, <1>3 DEF OpenOK, Sent
      <3> HIDE DEF p
      <3> QED BY <2>1, <3>2, <3>3, <3>4, <1>3, <1>4, <1>6 DEF DocumentOK, OpenOK
    <2>2. CASE ~old.open
      <3>1. ClosedOK(inbox, service[d], d)
        BY <2>2, <1>1 DEF SessionInv, DocumentOK
      <3>2. m.kind # "close"
        <4>1. m.kind = "close" => m.of = None /\ m.text = None
          BY <1>1 DEF Message
        <4> QED BY <4>1, <1>m, CloseAccepted DEF Session!Refuse
      <3> HIDE DEF e, old
      <3>3. ClosedOK(p, service[d], d)
        BY <3>1, <3>2, <1>1, <1>7, <1>d, TailClosedOther
      <3> HIDE DEF p
      <3> QED BY <2>2, <3>3, <1>3, <1>4, <1>6 DEF DocumentOK
    <2> QED BY <2>1, <2>2
  <1>9. ASSUME NEW y \in Docs, y # d
        PROVE  DocumentOK(y)'
    <2>1. editor'[y] = editor[y] /\ service'[y] = service[y]
      BY <1>4, <1>9 DEF SessionInv, SessionTyped
    <2>2. Head(inbox).doc # y
      BY <1>9, <1>m, <1>d
    <2> QED BY <2>1, <2>2, <1>1, <1>4, HeadOfAnother
  <1> QED BY <1>5, <1>8, <1>9 DEF SessionInv

(* Diagnostics arrive.                                                     *)
LEMMA DeliverStep ==
    ASSUME SessionInv, NEW m \in outbox, Session!Deliver(m)
    PROVE  SessionInv'
  <1>1. m.doc \in Docs /\ m.text \in Texts
    BY DEF SessionInv, SessionTyped, Diagnosis
  <1>2. \A d \in Docs : /\ editor'[d] \in EditorDocument
                        /\ editor'[d].open = editor[d].open
                        /\ editor'[d].version = editor[d].version
                        /\ editor'[d].text = editor[d].text
                        /\ editor'[d].synced = editor[d].synced
    BY <1>1 DEF Session!Deliver, SessionInv, SessionTyped, EditorDocument
  <1>3. SessionTyped'
    BY <1>1, <1>2 DEF Session!Deliver, SessionInv, SessionTyped, EditorDocument
  <1>4. outbox' \subseteq outbox /\ UNCHANGED <<inbox, service>>
    BY DEF Session!Deliver
  <1>5. ASSUME NEW d \in Docs
        PROVE  DocumentOK(d)'
    <2> DEFINE e == editor'[d]
    <2>1. DocumentOK(d)
      BY DEF SessionInv
    <2>2. CASE editor[d].open
      <3>1. OpenOK(inbox, editor[d], service[d], outbox, d)
        BY <2>1, <2>2 DEF DocumentOK
      <3>2. OpenOK(inbox, editor'[d], service[d], outbox', d)
        BY <3>1, <1>2, <1>4 DEF OpenOK, Queued, Linked, Sent
      <3> QED BY <2>2, <3>2, <1>2, <1>4 DEF DocumentOK
    <2>3. CASE ~editor[d].open
      BY <2>1, <2>3, <1>2, <1>4 DEF DocumentOK
    <2> QED BY <2>2, <2>3
  <1> QED BY <1>3, <1>5 DEF SessionInv

-----------------------------------------------------------------------------
(* The invariant                                                           *)

(* The invariant is inductive.                                             *)
LEMMA SessionNext ==
    ASSUME SessionAssumption, SessionInv, [Session!Next]_(Session!vars)
    PROVE  SessionInv'
  <1>1. CASE Session!Next
    BY <1>1, OpenStep, ChangeStep, SaveStep, CloseStep, HandleStep, RefuseStep, DeliverStep
       DEF Session!Next
  <1>2. CASE UNCHANGED Session!vars
    <2>1. SessionTyped'
      BY <1>2 DEF Session!vars, SessionInv, SessionTyped
    <2>2. \A d \in Docs : DocumentOK(d)'
      BY <1>2 DEF Session!vars, SessionInv, DocumentOK
    <2> QED BY <2>1, <2>2 DEF SessionInv
  <1> QED BY <1>1, <1>2

(* Diagnostics of the version an editor has are of the text it has, of     *)
(* any document whose last whole text and every edit after it the service  *)
(* took, however messages overtake each other (lsp/src/lib.rs did_open,    *)
(* did_change, did_save, did_close, publish_diagnostics).                  *)
THEOREM SessionDiagnosticsOfVersion ==
    ASSUME SessionAssumption
    PROVE  Session!Spec => []Session!DiagnosticsOfVersion
  <1>1. Session!Init => SessionInv
    BY InitSession
  <1>2. SessionInv /\ [Session!Next]_(Session!vars) => SessionInv'
    BY SessionNext
  <1>3. SessionInv => Session!DiagnosticsOfVersion
    <2> SUFFICES ASSUME SessionInv, NEW m \in outbox, editor[m.doc].open,
                        editor[m.doc].synced, m.version = editor[m.doc].version
                 PROVE  m.text = editor[m.doc].text
      BY DEF Session!DiagnosticsOfVersion
    <2>1. m.doc \in Docs
      BY DEF SessionInv, SessionTyped, Diagnosis
    <2>2. OpenOK(inbox, editor[m.doc], service[m.doc], outbox, m.doc)
      BY <2>1 DEF SessionInv, DocumentOK
    <2> QED BY <2>2 DEF OpenOK, Sent
  <1> QED BY <1>1, <1>2, <1>3, PTL DEF Session!Spec

-----------------------------------------------------------------------------
(* The capabilities of the language                                         *)

(* Items are finitely many and in order, limits are numbers, and a file     *)
(* that cannot be read is no history.                                       *)
KnowledgeAssumption ==
    /\ Items \subseteq Nat /\ IsFiniteSet(Items)
    /\ Limits \subseteq Nat
    /\ Retention \in Nat

Deltas == {Knowledge!Delta(a, b) : a \in Contents, b \in Contents}
Kinds == {"added", "changed", "removed"}

(* What the differences followed so far tell of one item is what the        *)
(* version they start from and the one that was read have of it.            *)
ChainTells(from, to, chain) ==
    LET A == Knowledge!All(chain, "added")
        C == Knowledge!All(chain, "changed")
        R == Knowledge!All(chain, "removed")
    IN  \A i \in Items :
          /\ i \notin A \cup C \cup R => from[i] = to[i]
          /\ i \in A \ (R \cup C) => from[i] = 0 /\ to[i] # 0
          /\ i \in R \ (A \cup C) => from[i] # 0 /\ to[i] = 0
          /\ i \in C \ (A \cup R) => from[i] # 0 /\ to[i] # 0

Following ==
    query.step \in {"follow", "delta"} =>
        /\ query.deltas \in Seq(Deltas)
        /\ query.chain \in Seq(Deltas)
        /\ ChainTells(Knowledge!Cursor, query.read, query.chain)
        /\ query.step = "delta" => Knowledge!Cursor = query.known

Asked ==
    query.step \in {"unchanged", "history", "full", "follow", "delta"} =>
        /\ DOMAIN query = {"step", "known", "limit", "place", "read", "deltas", "chain",
                           "complete"}
        /\ query.limit \in Nat
        /\ query.place \in Knowledge!Places
        /\ query.step = "history" => query.chain = << >>

KnowledgeInv ==
    /\ generated.content \in Contents
    /\ generated.deltas \in Seq(Deltas)
    /\ DOMAIN history = Knowledge!Places
    /\ \A p \in Knowledge!Places : history[p] = Invalid \/ history[p] \in Seq(Deltas)
    /\ Asked
    /\ Following

-----------------------------------------------------------------------------
(* A set of numbers that is not empty has a least element.                  *)
LEMMA LeastNumber ==
    ASSUME NEW T, T \subseteq Nat, T # {}
    PROVE  \E i \in T : \A j \in T : i <= j
  <1>1. IsWellFoundedOn(OpToRel(<, Nat), Nat)
    BY NatLessThanWellFounded
  <1>2. PICK i \in T : \A j \in T : ~ (<<j, i>> \in OpToRel(<, Nat))
    BY <1>1, WFMin
  <1>3. \A j \in T : ~ (j < i)
    BY <1>2 DEF OpToRel
  <1> QED BY <1>3

LEMMA SameCardinality == \A S : Knowledge!Cardinality(S) = Cardinality(S)
  BY DEF Cardinality, Knowledge!Cardinality

(* A cut that is shorter than the limit has cut nothing.                    *)
LEMMA CutShortIsWhole ==
    ASSUME NEW S, S \subseteq Nat, IsFiniteSet(S), NEW limit \in Nat,
           Cardinality(Knowledge!Cut(S, limit)) < limit
    PROVE  Knowledge!Cut(S, limit) = S
  <1> DEFINE Upto(i) == {j \in S : j <= i}
             cut == Knowledge!Cut(S, limit)
             T == S \ cut
  <1>1. cut = {i \in S : Cardinality(Upto(i)) <= limit}
    BY SameCardinality DEF Knowledge!Cut
  <1> SUFFICES ASSUME T # {} PROVE FALSE
    BY <1>1
  <1>2. PICK i \in T : \A j \in T : i <= j
    BY LeastNumber
  <1>3. \A j : IsFiniteSet(Upto(j)) /\ Cardinality(Upto(j)) \in Nat
    BY FS_Subset, FS_CardinalityType
  <1>4. Cardinality(Upto(i)) > limit
    <2> HIDE DEF Upto, cut
    <2>1. i \in S /\ i \notin cut
      BY <1>2
    <2>2. ~ (Cardinality(Upto(i)) <= limit)
      BY <1>1, <2>1
    <2> QED BY <1>3, <2>2
  <1>5. Upto(i) \ {i} \subseteq cut
    <2> SUFFICES ASSUME NEW j \in S, j <= i, j # i PROVE j \in cut
      OBVIOUS
    <2> QED BY <1>2
  <1>6. Cardinality(Upto(i) \ {i}) = Cardinality(Upto(i)) - 1
    BY <1>2, <1>3, FS_RemoveElement
  <1>7. IsFiniteSet(cut) /\ Cardinality(cut) \in Nat
    BY <1>1, FS_Subset, FS_CardinalityType
  <1>8. Cardinality(Upto(i) \ {i}) <= Cardinality(cut)
    BY <1>5, <1>7, FS_Subset
  <1> QED BY <1>3, <1>4, <1>6, <1>7, <1>8

-----------------------------------------------------------------------------
(* One more difference in front of a chain.                                 *)
LEMMA AllPrepended ==
    ASSUME NEW d \in Deltas, NEW chain \in Seq(Deltas), NEW kind
    PROVE  Knowledge!All(<<d>> \o chain, kind) = d[kind] \cup Knowledge!All(chain, kind)
  <1> DEFINE longer == <<d>> \o chain
  <1>1. /\ DOMAIN longer = 1 .. Len(chain) + 1
        /\ longer[1] = d
        /\ \A k \in 1 .. Len(chain) : longer[k + 1] = chain[k]
        /\ DOMAIN chain = 1 .. Len(chain) /\ Len(chain) \in Nat
    BY ConcatProperties, LenProperties
  <1> HIDE DEF longer
  <1>2. \A k \in DOMAIN longer : k = 1 \/ (k - 1 \in DOMAIN chain /\ longer[k] = chain[k - 1])
    BY <1>1
  <1>3. 1 \in DOMAIN longer /\ \A k \in DOMAIN chain : k + 1 \in DOMAIN longer
    BY <1>1
  <1> QED BY <1>1, <1>2, <1>3 DEF Knowledge!All, longer

LEMMA ChainPrepended ==
    ASSUME NEW a \in Contents, NEW b \in Contents, NEW to, NEW chain \in Seq(Deltas),
           ChainTells(b, to, chain)
    PROVE  ChainTells(a, to, <<Knowledge!Delta(a, b)>> \o chain)
  <1> DEFINE d == Knowledge!Delta(a, b)
  <1>1. d \in Deltas
    BY DEF Deltas
  <1>2. \A kind : Knowledge!All(<<d>> \o chain, kind) = d[kind] \cup Knowledge!All(chain, kind)
    BY <1>1, AllPrepended
  <1>3. /\ d.added = {i \in Items : a[i] = 0 /\ b[i] # 0}
        /\ d.changed = {i \in Items : a[i] # 0 /\ b[i] # 0 /\ a[i] # b[i]}
        /\ d.removed = {i \in Items : a[i] # 0 /\ b[i] = 0}
    BY DEF Knowledge!Delta
  <1> HIDE DEF d
  <1> QED BY <1>2, <1>3 DEF ChainTells, d

-----------------------------------------------------------------------------
(* The files and the query.                                                 *)

LEMMA DeltaOfContents ==
    ASSUME NEW d \in Deltas
    PROVE  /\ d.from \in Contents /\ d.to \in Contents
           /\ d = Knowledge!Delta(d.from, d.to)
  BY DEF Deltas, Knowledge!Delta

LEMMA RetainedDeltas ==
    ASSUME KnowledgeAssumption, NEW s \in Seq(Deltas), NEW d \in Deltas
    PROVE  Knowledge!Retained(Append(s, d)) \in Seq(Deltas)
  <1>1. Append(s, d) \in Seq(Deltas) /\ Append(s, d) # << >>
    BY AppendProperties
  <1>2. Tail(Append(s, d)) \in Seq(Deltas)
    BY <1>1, HeadTailProperties
  <1> QED BY <1>1, <1>2 DEF Knowledge!Retained

(* The newest difference that leads to a version, if the history has one.   *)
LEMMA NewestLeadsTo ==
    ASSUME NEW of, query.deltas \in Seq(Deltas), Knowledge!Newest(of) # 0
    PROVE  /\ Knowledge!Newest(of) \in DOMAIN query.deltas
           /\ query.deltas[Knowledge!Newest(of)].to = of
  <1> DEFINE I == {i \in 1 .. Len(query.deltas) : query.deltas[i].to = of}
  <1>1. Knowledge!Newest(of) = IF I # {} THEN Knowledge!Max(I) ELSE 0
    BY DEF Knowledge!Newest, Knowledge!SelectLastInSeq
  <1>2. I # {} /\ Knowledge!Newest(of) = Knowledge!Max(I)
    BY <1>1
  <1>3. PICK m \in I : \A j \in I : m >= j
    <2> DEFINE D == {n \in Nat : \E i \in I : n = Len(query.deltas) - i}
    <2>1. Len(query.deltas) \in Nat
      BY LenProperties
    <2>2. D \subseteq Nat /\ D # {}
      <3>1. PICK i \in I : TRUE
        BY <1>2
      <3>2. Len(query.deltas) - i \in D
        BY <2>1
      <3> QED BY <3>2
    <2>3. PICK d \in D : \A e \in D : d <= e
      BY <2>2, LeastNumber
    <2>4. PICK i \in I : d = Len(query.deltas) - i
      BY <2>3
    <2>5. \A j \in I : Len(query.deltas) - j \in D
      BY <2>1
    <2>6. ASSUME NEW j \in I
          PROVE  i >= j
      <3>1. d <= Len(query.deltas) - j
        BY <2>3, <2>5
      <3> QED BY <2>1, <2>4, <3>1
    <2> QED BY <2>6
  <1>4. Knowledge!Max(I) \in I
    <2> HIDE DEF I
    <2> QED BY <1>3 DEF Knowledge!Max
  <1> QED BY <1>2, <1>4, LenProperties

LEMMA InitKnowledge == Knowledge!Init => KnowledgeInv
  <1> SUFFICES ASSUME Knowledge!Init PROVE KnowledgeInv
    OBVIOUS
  <1>1. << >> \in Seq(Deltas)
    BY EmptySeq
  <1> QED
    BY <1>1 DEF Knowledge!Init, KnowledgeInv, Asked, Following, Knowledge!Idle, Knowledge!Places

(* Only the files change.                                                   *)
LEMMA FilesKnowledge ==
    ASSUME KnowledgeAssumption, KnowledgeInv,
           Knowledge!Generate \/ Knowledge!WriteIndex \/ Knowledge!WriteHistory
    PROVE  KnowledgeInv'
  <1>1. query' = query
    BY DEF Knowledge!Generate, Knowledge!WriteIndex, Knowledge!WriteHistory
  <1>2. Asked' /\ Following'
    BY <1>1 DEF KnowledgeInv, Asked, Following, ChainTells, Knowledge!Cursor
  <1>3. CASE Knowledge!Generate
    <2>1. PICK content \in Contents :
            generated' = [content |-> content,
                          deltas  |-> Knowledge!Retained(Append(generated.deltas,
                                          Knowledge!Delta(generated.content, content)))]
      BY <1>3 DEF Knowledge!Generate
    <2>2. Knowledge!Delta(generated.content, content) \in Deltas
      BY DEF KnowledgeInv, Deltas
    <2>3. generated'.content \in Contents /\ generated'.deltas \in Seq(Deltas)
      BY <2>1, <2>2, RetainedDeltas DEF KnowledgeInv
    <2>4. history' = history
      BY <1>3 DEF Knowledge!Generate
    <2> QED BY <1>2, <2>3, <2>4 DEF KnowledgeInv
  <1>4. CASE Knowledge!WriteIndex
    <2>1. generated' = generated /\ history' = history
      BY <1>4 DEF Knowledge!WriteIndex
    <2> QED BY <1>2, <2>1 DEF KnowledgeInv
  <1>5. CASE Knowledge!WriteHistory
    <2>1. PICK file \in {generated.deltas, Invalid} : history' = [history EXCEPT ![1] = file]
      BY <1>5 DEF Knowledge!WriteHistory
    <2>2. generated' = generated
      BY <1>5 DEF Knowledge!WriteHistory
    <2> QED BY <1>2, <2>1, <2>2 DEF KnowledgeInv, Knowledge!Places
  <1> QED BY <1>3, <1>4, <1>5

(* Nothing but the query changes.                                           *)
LEMMA QueryOnly ==
    ASSUME KnowledgeInv, UNCHANGED <<generated, history>>, Asked', Following'
    PROVE  KnowledgeInv'
  BY DEF KnowledgeInv

LEMMA AskKnowledge ==
    ASSUME KnowledgeAssumption, KnowledgeInv, Knowledge!Ask
    PROVE  KnowledgeInv'
  <1>1. PICK known \in Contents, limit \in Limits, p \in Knowledge!ValidPlaces :
          query' = [step |-> IF known = index[p] THEN "unchanged" ELSE "history",
                    known |-> known, limit |-> limit, place |-> p, read |-> index[p],
                    deltas |-> << >>, chain |-> << >>, complete |-> TRUE]
    BY DEF Knowledge!Ask
  <1>2. p \in Knowledge!Places /\ limit \in Nat
    BY DEF Knowledge!ValidPlaces, KnowledgeAssumption
  <1>3. query'.step \in {"unchanged", "history"}
    BY <1>1
  <1>4. Asked' /\ Following'
    BY <1>1, <1>2, <1>3 DEF Asked, Following
  <1> QED BY <1>4, QueryOnly DEF Knowledge!Ask

LEMMA EmptyChainTells == \A v : ChainTells(v, v, << >>)
  <1>1. \A kind : Knowledge!All(<< >>, kind) = {}
    BY DEF Knowledge!All
  <1> QED BY <1>1 DEF ChainTells

LEMMA FullKnowledge ==
    ASSUME KnowledgeInv, UNCHANGED <<generated, history>>,
           query.step \in {"history", "follow"}, query' = Knowledge!Full
    PROVE  KnowledgeInv'
  <1>1. /\ DOMAIN query' = DOMAIN query
        /\ query'.step = "full"
        /\ query'.limit = query.limit /\ query'.place = query.place
    BY DEF Knowledge!Full, KnowledgeInv, Asked
  <1>2. Asked' /\ Following'
    BY <1>1 DEF KnowledgeInv, Asked, Following
  <1> QED BY <1>2, QueryOnly

LEMMA ReadHistoryKnowledge ==
    ASSUME KnowledgeInv, Knowledge!ReadHistory
    PROVE  KnowledgeInv'
  <1> DEFINE file == history[query.place]
  <1>0. query.step = "history" /\ UNCHANGED <<generated, history>>
    BY DEF Knowledge!ReadHistory
  <1>1. CASE file = Invalid
    BY <1>0, <1>1, FullKnowledge DEF Knowledge!ReadHistory
  <1>2. CASE file # Invalid
    <2>1. query' = [query EXCEPT !.step = "follow", !.deltas = file]
      BY <1>2 DEF Knowledge!ReadHistory
    <2>2. file \in Seq(Deltas)
      BY <1>0, <1>2 DEF KnowledgeInv, Asked
    <2>3. /\ DOMAIN query' = DOMAIN query
          /\ query'.step = "follow" /\ query'.deltas = file
          /\ query'.limit = query.limit /\ query'.place = query.place
          /\ query'.chain = << >> /\ query'.read = query.read
      BY <1>0, <2>1 DEF KnowledgeInv, Asked
    <2>4. Knowledge!Cursor' = query'.read
      BY <2>3 DEF Knowledge!Cursor
    <2>5. Following'
      BY <2>2, <2>3, <2>4, EmptyChainTells, EmptySeq DEF Following
    <2>6. Asked'
      BY <1>0, <2>3 DEF KnowledgeInv, Asked
    <2> QED BY <1>0, <2>5, <2>6, QueryOnly
  <1> QED BY <1>1, <1>2

LEMMA FollowKnowledge ==
    ASSUME KnowledgeInv, Knowledge!Follow
    PROVE  KnowledgeInv'
  <1> DEFINE n == Knowledge!Newest(Knowledge!Cursor)
             d == query.deltas[n]
  <1>0. /\ query.step = "follow" /\ UNCHANGED <<generated, history>>
        /\ query' = IF n = 0 \/ Len(query.chain) = Retention THEN Knowledge!Full
                    ELSE [query EXCEPT !.chain = <<query.deltas[n]>> \o @]
    BY DEF Knowledge!Follow
  <1>1. CASE query' = Knowledge!Full
    BY <1>0, <1>1, FullKnowledge
  <1>2. CASE n # 0 /\ query' = [query EXCEPT !.chain = <<query.deltas[n]>> \o @]
    <2>1. /\ query.deltas \in Seq(Deltas) /\ query.chain \in Seq(Deltas)
          /\ ChainTells(Knowledge!Cursor, query.read, query.chain)
      BY <1>0 DEF KnowledgeInv, Following
    <2>2. n \in DOMAIN query.deltas /\ d.to = Knowledge!Cursor
      BY <1>2, <2>1, NewestLeadsTo
    <2>3. d \in Deltas
      BY <2>1, <2>2, ElementOfSeq, LenProperties
    <2>4. /\ DOMAIN query' = DOMAIN query
          /\ query'.step = "follow" /\ query'.deltas = query.deltas
          /\ query'.limit = query.limit /\ query'.place = query.place
          /\ query'.chain = <<d>> \o query.chain /\ query'.read = query.read
      BY <1>0, <1>2 DEF KnowledgeInv, Asked
    <2> HIDE DEF n, d
    <2>5. ChainTells(d.from, query.read, <<d>> \o query.chain)
      BY <2>1, <2>2, <2>3, DeltaOfContents, ChainPrepended
    <2>6. /\ <<d>> \o query.chain \in Seq(Deltas)
          /\ <<d>> \o query.chain # << >>
          /\ Head(<<d>> \o query.chain) = d
      <3>1. <<d>> \in Seq(Deltas) /\ Len(<<d>>) = 1 /\ <<d>>[1] = d
        BY <2>3
      <3>2. /\ <<d>> \o query.chain \in Seq(Deltas)
            /\ Len(<<d>> \o query.chain) = 1 + Len(query.chain)
            /\ (<<d>> \o query.chain)[1] = d
        BY <2>1, <3>1, ConcatProperties, LenProperties
      <3> QED BY <2>1, <3>2, HeadTailProperties, EmptySeq, LenProperties
    <2>7. Knowledge!Cursor' = d.from
      BY <2>4, <2>6 DEF Knowledge!Cursor
    <2>8. Following'
      BY <2>1, <2>4, <2>5, <2>6, <2>7 DEF Following
    <2>9. Asked'
      BY <1>0, <2>4 DEF KnowledgeInv, Asked
    <2> QED BY <1>0, <2>8, <2>9, QueryOnly
  <1> QED BY <1>0, <1>1, <1>2

LEMMA MergeKnowledge ==
    ASSUME KnowledgeInv, Knowledge!Merge
    PROVE  KnowledgeInv'
  <1>0. query.step = "follow" /\ UNCHANGED <<generated, history>> /\ Knowledge!Cursor = query.known
    BY DEF Knowledge!Merge
  <1>1. /\ DOMAIN query' = DOMAIN query
        /\ query'.step = "delta" /\ query'.deltas = query.deltas
        /\ query'.limit = query.limit /\ query'.place = query.place
        /\ query'.chain = query.chain /\ query'.read = query.read
        /\ query'.known = query.known
    BY <1>0 DEF Knowledge!Merge, KnowledgeInv, Asked
  <1>2. Knowledge!Cursor' = Knowledge!Cursor
    BY <1>1 DEF Knowledge!Cursor
  <1>3. Following'
    BY <1>0, <1>1, <1>2 DEF KnowledgeInv, Following
  <1>4. Asked'
    BY <1>0, <1>1 DEF KnowledgeInv, Asked
  <1> QED BY <1>0, <1>3, <1>4, QueryOnly

LEMMA KnowledgeNext ==
    ASSUME KnowledgeAssumption
    PROVE  KnowledgeInv /\ [Knowledge!Next]_(Knowledge!vars) => KnowledgeInv'
  <1> SUFFICES ASSUME KnowledgeInv, [Knowledge!Next]_(Knowledge!vars)
               PROVE  KnowledgeInv'
    OBVIOUS
  <1>1. CASE UNCHANGED Knowledge!vars
    BY <1>1 DEF Knowledge!vars, KnowledgeInv, Asked, Following, ChainTells, Knowledge!Cursor
  <1>2. CASE Knowledge!Unsupported \/ Knowledge!Take
    <2>1. query'.step \in {"refused", "idle"} /\ UNCHANGED <<generated, history>>
      BY <1>2 DEF Knowledge!Unsupported, Knowledge!Take, Knowledge!Idle
    <2>2. Asked' /\ Following'
      BY <2>1 DEF Asked, Following
    <2> QED BY <2>1, <2>2, QueryOnly
  <1> QED
    BY <1>1, <1>2, FilesKnowledge, AskKnowledge, ReadHistoryKnowledge, FollowKnowledge,
       MergeKnowledge
    DEF Knowledge!Next

LEMMA WholeTells ==
    ASSUME KnowledgeAssumption, KnowledgeInv
    PROVE  Knowledge!DeltaTellsEveryChange
  <1> SUFFICES ASSUME query.step = "delta", Knowledge!Whole
               PROVE  LET t == Knowledge!Merged
                      IN  /\ Knowledge!Differing \subseteq t.added \cup t.changed \cup t.removed
                          /\ \A i \in t.added \ (t.removed \cup t.changed) :
                                query.known[i] = 0 /\ query.read[i] # 0
                          /\ \A i \in t.removed \ (t.added \cup t.changed) :
                                query.known[i] # 0 /\ query.read[i] = 0
                          /\ \A i \in t.changed \ (t.added \cup t.removed) :
                                query.known[i] # 0 /\ query.read[i] # 0
    BY DEF Knowledge!DeltaTellsEveryChange
  <1> DEFINE All(kind) == Knowledge!All(query.chain, kind)
  <1>1. /\ query.chain \in Seq(Deltas) /\ query.limit \in Nat
        /\ ChainTells(query.known, query.read, query.chain)
    BY DEF KnowledgeInv, Following, Asked
  <1>2. ASSUME NEW kind \in Kinds
        PROVE  All(kind) \subseteq Items
    <2>1. \A k \in DOMAIN query.chain : query.chain[k] \in Deltas
      BY <1>1, ElementOfSeq, LenProperties
    <2>2. \A d \in Deltas : d[kind] \subseteq Items
      BY DEF Deltas, Knowledge!Delta, Kinds
    <2> QED BY <2>1, <2>2 DEF Knowledge!All
  <1>3. ASSUME NEW kind \in Kinds
        PROVE  Knowledge!Merged[kind] = All(kind)
    <2>1. Knowledge!Merged[kind] = Knowledge!Cut(All(kind), query.limit)
      BY DEF Knowledge!Merged, Kinds
    <2>2. Cardinality(Knowledge!Merged[kind]) < query.limit
      BY SameCardinality DEF Knowledge!Whole, Kinds
    <2>3. All(kind) \subseteq Nat /\ IsFiniteSet(All(kind))
      BY <1>2, FS_Subset DEF KnowledgeAssumption
    <2> QED BY <1>1, <2>1, <2>2, <2>3, CutShortIsWhole
  <1>4. /\ Knowledge!Merged.added = All("added") /\ All("added") \subseteq Items
        /\ Knowledge!Merged.changed = All("changed") /\ All("changed") \subseteq Items
        /\ Knowledge!Merged.removed = All("removed") /\ All("removed") \subseteq Items
    BY <1>2, <1>3 DEF Kinds
  <1> QED BY <1>1, <1>4 DEF ChainTells, Knowledge!Differing

(* A difference that was not cut tells of every item in which the version   *)
(* an agent knows and the one it is given differ, for any items, versions   *)
(* and histories and however the reads of the two files fall between the    *)
(* writes of the generator (language_knowledge.rs identity_delta).          *)
THEOREM KnowledgeDeltaTells ==
    ASSUME KnowledgeAssumption
    PROVE  Knowledge!Spec => []Knowledge!DeltaTellsEveryChange
  <1>1. Knowledge!Init => KnowledgeInv
    BY InitKnowledge
  <1>2. KnowledgeInv /\ [Knowledge!Next]_(Knowledge!vars) => KnowledgeInv'
    BY KnowledgeNext
  <1>3. KnowledgeInv => Knowledge!DeltaTellsEveryChange
    BY WholeTells
  <1> QED BY <1>1, <1>2, <1>3, PTL DEF Knowledge!Spec

-----------------------------------------------------------------------------
(* The family context                                                       *)

(* What an answer is built from.                                            *)
Fields ==
    {"step", "requested", "file", "local", "conformance", "vouched", "verification",
     "inventory", "language", "commons", "limitations", "complete", "state"}

(* CompleteIsVouched is not inductive: the verdict counts limitations that  *)
(* were noted when their source was read, so the absence of a limitation    *)
(* must go on standing for what was found then.                             *)
ManifestRead ==
    /\ ask.conformance = "verified" => ask.local = ask.file /\ ask.vouched = ask.file
    /\ ask.step = "manifest" => ask.local = Absent
    /\ ask.step # "manifest" /\ "manifest" \notin ask.limitations /\ ask.local # Absent =>
          ask.local.repository # NoRepository

InventoryRead ==
    ask.step \in {"language", "commons", "respond"} =>
        /\ "mismatch" \notin ask.limitations => ~Family!Mismatch
        /\ "verification" \notin ask.limitations =>
              Family!InventoryState(ask.inventory) \notin {"invalid", "unavailable"}
        /\ ask.inventory \in Inventories \cup {Absent, Broken}

FamilyInv ==
    /\ DOMAIN ask = Fields
    /\ ManifestRead
    /\ InventoryRead
    /\ Family!CompleteIsVouched
    /\ ask.complete => ask.step = "done"

LEMMA InitFamily == Family!Init => FamilyInv
  BY DEF Family!Init, FamilyInv, Fields, ManifestRead, InventoryRead, Family!CompleteIsVouched

LEMMA NoManifestFamily == FamilyInv /\ Family!NoManifest => FamilyInv'
  <1> SUFFICES ASSUME FamilyInv, Family!NoManifest PROVE FamilyInv'
    OBVIOUS
  <1>1. /\ DOMAIN ask' = Fields
        /\ ask'.step = "verification"
        /\ ask'.conformance \in {"invalid", "unavailable"}
        /\ ask'.local = Absent
        /\ ~ask'.complete
    BY DEF Family!NoManifest, FamilyInv, Fields, ManifestRead
  <1> QED
    BY <1>1 DEF FamilyInv, ManifestRead, InventoryRead, Family!CompleteIsVouched

LEMMA ReadManifestFamily == FamilyInv /\ Family!ReadManifest => FamilyInv'
  <1> SUFFICES ASSUME FamilyInv, Family!ReadManifest PROVE FamilyInv'
    OBVIOUS
  <1>1. PICK of \in Manifests, verdict \in Validations \cup {Absent} :
          ask' = [ask EXCEPT !.step = "verification",
                         !.local = ask.file,
                         !.conformance = Family!Validated(of, verdict),
                         !.vouched = IF verdict = "valid" THEN of ELSE Absent,
                         !.limitations = @ \cup
                             (IF Family!Validated(of, verdict) = "verified"
                                 /\ ask.file.declares /\ ask.file.repository # NoRepository
                              THEN {} ELSE {"manifest"})]
    BY DEF Family!ReadManifest
  <1>2. /\ DOMAIN ask' = Fields
        /\ ask'.step = "verification"
        /\ ask'.local = ask.file /\ ask'.file = ask.file
        /\ ask'.conformance = Family!Validated(of, verdict)
        /\ ask'.vouched = IF verdict = "valid" THEN of ELSE Absent
        /\ "manifest" \notin ask'.limitations => ask.file.repository # NoRepository
        /\ ~ask'.complete
    BY <1>1 DEF Family!ReadManifest, FamilyInv, Fields
  <1>3. ask'.conformance = "verified" => ask'.vouched = ask'.file
    BY <1>2 DEF Family!Validated, Family!Bound
  <1> QED
    BY <1>2, <1>3 DEF FamilyInv, ManifestRead, InventoryRead, Family!CompleteIsVouched

LEMMA ReadInventoryFamily == FamilyInv /\ Family!ReadInventory => FamilyInv'
  <1> SUFFICES ASSUME FamilyInv, Family!ReadInventory PROVE FamilyInv'
    OBVIOUS
  <1>1. PICK i \in Inventories \cup {Absent, Broken} :
          ask' = [ask EXCEPT !.step = "language",
                     !.inventory = i,
                     !.verification = Family!InventoryState(i),
                     !.limitations = @
                         \cup (IF Family!InventoryState(i) \in {"invalid", "unavailable"}
                               THEN {"verification"} ELSE {})
                         \cup (IF Family!Mismatch THEN {"mismatch"} ELSE {})]
    BY DEF Family!ReadInventory
  <1>2. /\ DOMAIN ask' = Fields
        /\ ask'.step = "language"
        /\ ask'.inventory = i
        /\ ask'.local = ask.local /\ ask'.file = ask.file
        /\ ask'.requested = ask.requested
        /\ ask'.conformance = ask.conformance
        /\ ask'.vouched = ask.vouched
        /\ ask.limitations \subseteq ask'.limitations
        /\ "verification" \notin ask'.limitations =>
              Family!InventoryState(i) \notin {"invalid", "unavailable"}
        /\ "mismatch" \notin ask'.limitations => ~Family!Mismatch
        /\ ask'.complete = ask.complete
    BY <1>1 DEF FamilyInv, Fields
  <1>3. /\ Family!InventoryState(i)' = Family!InventoryState(i)
        /\ Family!Mismatch' <=> Family!Mismatch
    BY <1>2 DEF Family!InventoryState, Family!Mismatch
  <1>4. ask.step = "verification" /\ ~ask.complete
    BY DEF Family!ReadInventory, FamilyInv
  <1>5. (Family!InventoryState(ask.inventory))' = Family!InventoryState(i)'
    BY <1>2 DEF Family!InventoryState
  <1> QED
    BY <1>2, <1>3, <1>4, <1>5
    DEF FamilyInv, ManifestRead, InventoryRead, Family!CompleteIsVouched

(* A step that reads another source leaves what was read before.            *)
LEMMA SourceReadFamily ==
    /\ FamilyInv
    /\ ask.step \in {"language", "commons"}
    /\ ask'.step \in {"commons", "respond"}
    /\ DOMAIN ask' = Fields
    /\ ask'.inventory = ask.inventory
    /\ ask'.local = ask.local /\ ask'.file = ask.file
    /\ ask'.requested = ask.requested
    /\ ask'.conformance = ask.conformance
    /\ ask'.vouched = ask.vouched
    /\ ask.limitations \subseteq ask'.limitations
    /\ ask'.complete = ask.complete
    => FamilyInv'
  BY DEF FamilyInv, ManifestRead, InventoryRead, Family!CompleteIsVouched,
         Family!InventoryState, Family!Mismatch

LEMMA AskLanguageFamily == FamilyInv /\ Family!AskLanguage => FamilyInv'
  BY SourceReadFamily DEF Family!AskLanguage, FamilyInv, Fields

LEMMA AskCommonsFamily == FamilyInv /\ Family!AskCommons => FamilyInv'
  BY SourceReadFamily DEF Family!AskCommons, FamilyInv, Fields

LEMMA RespondFamily == FamilyInv /\ Family!Respond => FamilyInv'
  <1> SUFFICES ASSUME FamilyInv, Family!Respond PROVE FamilyInv'
    OBVIOUS
  <1>1. /\ DOMAIN ask' = Fields
        /\ ask'.step = "done"
        /\ ask'.complete = Family!Complete
        /\ \A f \in Fields \ {"step", "complete", "state"} : ask'[f] = ask[f]
    BY DEF Family!Respond, FamilyInv, Fields
  <1>2. /\ ask'.inventory = ask.inventory /\ ask'.local = ask.local /\ ask'.file = ask.file
        /\ ask'.requested = ask.requested /\ ask'.conformance = ask.conformance
        /\ ask'.vouched = ask.vouched /\ ask'.limitations = ask.limitations
        /\ ask'.language = ask.language /\ ask'.commons = ask.commons
    BY <1>1 DEF Fields
  <1>3. ManifestRead' /\ InventoryRead'
    BY <1>1, <1>2 DEF FamilyInv, ManifestRead, InventoryRead, Family!Respond
  <1>4. ASSUME Family!Complete
        PROVE  Family!CompleteIsVouched'
    <2>1. /\ ask.local # Absent /\ ask.conformance = "verified" /\ ask.limitations = {}
          /\ ask.step = "respond"
      BY <1>4 DEF Family!Complete, Family!Respond
    <2>2. /\ ask.local = ask.file /\ ask.vouched = ask.file
          /\ ask.local.repository # NoRepository
      BY <2>1 DEF FamilyInv, ManifestRead
    <2>3. /\ ~Family!Mismatch
          /\ Family!InventoryState(ask.inventory) \notin {"invalid", "unavailable"}
          /\ ask.inventory \in Inventories \cup {Absent, Broken}
      BY <2>1 DEF FamilyInv, InventoryRead
    <2>4. ask.requested \in {NoRepository, ask.local.repository}
      BY <2>1, <2>2, <2>3 DEF Family!Mismatch
    <2>5. Family!Repository = ask.local.repository
      BY <2>1, <2>2 DEF Family!Repository
    <2>6. ask.local.inventory # "bad"
      BY <2>1, <2>3 DEF Family!InventoryState
    <2>7. ask.local.inventory = "declared" =>
              ask.inventory \in Inventories /\ ask.inventory.repository = ask.local.repository
      BY <2>1, <2>3 DEF Family!InventoryState
    <2>8. ask.language.complete /\ ask.language.inventory
      BY <1>4 DEF Family!Complete, Family!LanguageComplete
    <2>9. /\ Family!Trusted(ask.commons)
          /\ ask.commons.architecture.validated
          /\ ask.commons.architecture.freshness = "current"
      BY <1>4 DEF Family!Complete, Family!ArchitectureComplete, Family!ArchitectureState
    <2>10. /\ ask.commons.pressures.validated
           /\ ask.commons.pressures.freshness = "current"
           /\ ask.commons.pressures.identities
      BY <1>4 DEF Family!Complete, Family!PressureState
    <2>11. ask.commons.architecture.identities
      BY <1>4 DEF Family!Complete, Family!ArchitectureComplete
    <2>12. Family!Repository' = ask'.local.repository /\ Family!Trusted(ask.commons)'
      BY <1>2, <2>5, <2>9 DEF Family!Repository, Family!Trusted
    <2> QED
      BY <1>2, <2>2, <2>4, <2>6, <2>7, <2>8, <2>9, <2>10, <2>11, <2>12
      DEF Family!CompleteIsVouched, Family!Trusted
  <1>5. Family!CompleteIsVouched'
    BY <1>1, <1>4 DEF Family!CompleteIsVouched
  <1> QED
    BY <1>1, <1>3, <1>5 DEF FamilyInv

LEMMA FamilyNext == FamilyInv /\ [Family!Next]_(Family!vars) => FamilyInv'
  <1> SUFFICES ASSUME FamilyInv, [Family!Next]_(Family!vars)
               PROVE  FamilyInv'
    OBVIOUS
  <1>1. CASE UNCHANGED Family!vars
    BY <1>1 DEF Family!vars, FamilyInv, ManifestRead, InventoryRead, Family!CompleteIsVouched,
                Family!InventoryState, Family!Mismatch, Family!Repository, Family!Trusted
  <1> QED
    BY <1>1, NoManifestFamily, ReadManifestFamily, ReadInventoryFamily, AskLanguageFamily,
       AskCommonsFamily, RespondFamily
    DEF Family!Next

(* A context an agent is told is complete is vouched for by every source,   *)
(* of the manifest that was read and of the repository that was asked for,  *)
(* whatever the sources answer (family_context.rs query).                   *)
THEOREM FamilyCompleteIsVouched == Family!Spec => []Family!CompleteIsVouched
  <1>1. FamilyInv => Family!CompleteIsVouched
    BY DEF FamilyInv
  <1> QED BY <1>1, InitFamily, FamilyNext, PTL DEF Family!Spec
=============================================================================
