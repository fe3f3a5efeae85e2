------------------------------- MODULE Capsule ------------------------------
(***************************************************************************)
(* What an ambient consumer is told of a workspace that keeps changing:    *)
(* the semantic capsule and the service status                             *)
(* (crates/service-core/src/ambient.rs, semantic_capsule, service_status). *)
(*                                                                         *)
(* A capsule reads the stream, its high-water cursor and a window of       *)
(* events under three locks, then walks the documents twice: once for      *)
(* their diagnostics, once for their obligations, taking only analyses     *)
(* that are already resident and current.  Editors and queries go on       *)
(* between any two of these reads.  The consumer keeps the stream and the  *)
(* cursor it was given and resumes from there.                             *)
(*                                                                         *)
(* A version of a text stands for everything its analysis says, and the    *)
(* event of a change for its subjects and the modules it affects.          *)
(***************************************************************************)
EXTENDS Integers, Sequences, FiniteSets

CONSTANTS
    Streams, NoStream, Capacity,    \* of the hub
    UriOrder,       \* the documents, in the order document_uris lists them
    WindowPage,     \* events one capsule reads (64 in the program)
    MaxVersion,     \* bound: versions of a text
    MaxAnswers      \* bound: capsules and statuses answered

Documents == {UriOrder[i] : i \in DOMAIN UriOrder}
Versions == 0 .. MaxVersion
Unread == -1            \* no analysis, or none taken
MaxEvents == Cardinality(Documents) * MaxVersion

VARIABLES
    hub,        \* the event history
    text,       \* per document, the version it holds
    cached,     \* per document, the version its resident analysis is of
    pushed,     \* per document, the version its last event is of
    request,    \* the request in progress
    known,      \* the stream and cursor the consumer holds
    answers,    \* answers given
    log         \* history: the source of every event of the live stream

envVars == <<hub, text, cached, pushed, log>>
vars == <<envVars, request, known, answers>>

Hub == INSTANCE EventHub WITH
          Uris <- Documents, Identities <- Versions, MaxCursor <- MaxEvents,
          Checkpoints <- {}, Cursors <- {}, PageSizes <- {WindowPage}

Nothing == [u \in Documents |-> Unread]
Idle == [step |-> "idle", stream |-> NoStream, current |-> 0, window |-> {},
         matched |-> FALSE, todo |-> << >>, diagnostics |-> Nothing,
         obligations |-> Nothing]

Init ==
    /\ hub \in {Hub!NewHub(s) : s \in Streams}
    /\ text = [u \in Documents |-> 0]
    /\ cached = Nothing
    /\ pushed = text
    /\ request = Idle
    /\ known = [stream |-> NoStream, cursor |-> 0]
    /\ answers = 0
    /\ log = << >>

-----------------------------------------------------------------------------
(* The workspace meanwhile                                                 *)

(* A change is committed: what was analysed is no longer current.          *)
Change(u) ==
    /\ text[u] < MaxVersion
    /\ text' = [text EXCEPT ![u] = @ + 1]
    /\ UNCHANGED <<hub, cached, pushed, log, request, known, answers>>

(* snapshot, by the request that made the change or by any other.          *)
Analyse(u) ==
    /\ cached[u] # text[u]
    /\ cached' = [cached EXCEPT ![u] = text[u]]
    /\ UNCHANGED <<hub, text, pushed, log, request, known, answers>>

(* observe_change: the event of a change follows its analysis.             *)
Observe(u) ==
    /\ cached[u] = text[u]
    /\ pushed[u] < text[u]
    /\ pushed' = [pushed EXCEPT ![u] = text[u]]
    /\ hub' = Hub!Pushed(hub, [uri |-> u, identity |-> text[u]])
    /\ log' = Append(log, [uri |-> u, identity |-> text[u]])
    /\ UNCHANGED <<text, cached, request, known, answers>>

(* configure_root adopts the stream of a checkpoint while nothing has been *)
(* published; here once, and only of a checkpoint that has counted events. *)
Configure(s, n) ==
    /\ s # hub.stream
    /\ hub.next = 0
    /\ Hub!RestoreStream(s, n)
    /\ UNCHANGED <<text, cached, pushed, log, request, known, answers>>

-----------------------------------------------------------------------------
(* The request                                                             *)

Resident(u) == IF cached[u] = text[u] THEN cached[u] ELSE Unread

ReadStream ==
    /\ request.step = "idle"
    /\ answers < MaxAnswers
    /\ request' = [request EXCEPT !.step = "cursor", !.stream = hub.stream]
    /\ UNCHANGED <<envVars, known, answers>>

ReadCursor ==
    /\ request.step = "cursor"
    /\ request' = [request EXCEPT !.step = "window", !.current = hub.next]
    /\ UNCHANGED <<envVars, known, answers>>

(* The window counts only if it resumed, and all three reads and the       *)
(* consumer name one stream.                                               *)
ReadWindow ==
    /\ request.step = "window"
    /\ LET reply == Hub!PollFor(hub, known.stream, known.cursor, WindowPage)
           matched == /\ ~reply.reset
                      /\ reply.stream = request.stream
                      /\ known.stream = request.stream
           seen == {reply.events[i].current : i \in DOMAIN reply.events}
       IN  request' = [request EXCEPT
              !.step = "diagnostics", !.matched = matched, !.todo = UriOrder,
              !.window = IF matched THEN seen ELSE {}]
    /\ UNCHANGED <<envVars, known, answers>>

(* One document of the first walk; without a resident, current analysis it *)
(* is counted as pending.                                                  *)
ReadDiagnostics ==
    /\ request.step = "diagnostics"
    /\ request.todo # << >>
    /\ request' = [request EXCEPT
          !.todo = Tail(@),
          !.diagnostics[Head(request.todo)] = Resident(Head(request.todo))]
    /\ UNCHANGED <<envVars, known, answers>>

BeginObligations ==
    /\ request.step = "diagnostics"
    /\ request.todo = << >>
    /\ request' = [request EXCEPT !.step = "obligations", !.todo = UriOrder]
    /\ UNCHANGED <<envVars, known, answers>>

(* The second walk passes over a document that is not resident any more.   *)
ReadObligations ==
    /\ request.step = "obligations"
    /\ request.todo # << >>
    /\ request' = [request EXCEPT
          !.todo = Tail(@),
          !.obligations[Head(request.todo)] = Resident(Head(request.todo))]
    /\ UNCHANGED <<envVars, known, answers>>

LiveCursor(r) == hub.next

ReportedCursor(r) == r.current

Walked == request.step = "obligations" /\ request.todo = << >>
Pending == {u \in Documents : request.diagnostics[u] = Unread}

(* An answered capsule: the consumer takes its stream and its cursor.      *)
Answer ==
    /\ Walked
    /\ Pending = {}
    /\ answers' = answers + 1
    /\ known' = [stream |-> request.stream, cursor |-> ReportedCursor(request)]
    /\ request' = Idle
    /\ UNCHANGED envVars

(* A pending document makes the capsule unsupported, as does a policy      *)
(* kernel that cannot run; an answer may be lost.  Nothing is taken.       *)
Refuse ==
    /\ Walked
    /\ answers' = answers + 1
    /\ request' = Idle
    /\ UNCHANGED <<envVars, known>>

(* service_status walks the documents first and reads the cursor last.     *)
BeginStatus ==
    /\ request.step = "idle"
    /\ answers < MaxAnswers
    /\ request' = [request EXCEPT !.step = "status", !.todo = UriOrder]
    /\ UNCHANGED <<envVars, known, answers>>

ReadTotals ==
    /\ request.step = "status"
    /\ request.todo # << >>
    /\ request' = [request EXCEPT
          !.todo = Tail(@),
          !.diagnostics[Head(request.todo)] = Resident(Head(request.todo))]
    /\ UNCHANGED <<envVars, known, answers>>

AnswerStatus ==
    /\ request.step = "status"
    /\ request.todo = << >>
    /\ answers' = answers + 1
    /\ request' = Idle
    /\ UNCHANGED <<envVars, known>>

Next ==
    \/ \E u \in Documents : Change(u)
    \/ \E u \in Documents : Analyse(u)
    \/ \E u \in Documents : Observe(u)
    \/ \E s \in Streams, n \in 1 .. 2 : Configure(s, n)
    \/ ReadStream
    \/ ReadCursor
    \/ ReadWindow
    \/ ReadDiagnostics
    \/ BeginObligations
    \/ ReadObligations
    \/ Answer
    \/ Refuse
    \/ BeginStatus
    \/ ReadTotals
    \/ AnswerStatus

Spec == Init /\ [][Next]_vars

-----------------------------------------------------------------------------
(* Properties                                                              *)

(* The events of the live stream up to a cursor and after another.         *)
Events(after, upto) ==
    {log[i] : i \in {i \in DOMAIN log :
        LET cursor == hub.next - Len(log) + i
        IN  after < cursor /\ cursor <= upto}}

Reaches(r, e) == r.diagnostics[e.uri] >= e.identity

(* The cursor a complete capsule hands out is no further than what the     *)
(* capsule tells: every change up to it is in the state that was walked,   *)
(* and if the window resumed, and no more was unread than one window       *)
(* holds, among the changes it lists (ambient.rs semantic_capsule).        *)
CapsuleCoversItsCursor ==
    /\ Walked
    /\ Pending = {}
    /\ request.stream = hub.stream
    =>  LET cursor == ReportedCursor(request)
        IN  /\ \A e \in Events(0, cursor) : Reaches(request, e)
            /\ request.matched /\ cursor - known.cursor <= WindowPage =>
                  Events(known.cursor, cursor) \subseteq request.window

(* The same without the bound: "changed subjects and affected modules are  *)
(* measured from events after `known_cursor`" (ambient.rs:996-997).        *)
WindowReachesCursor ==
    /\ Walked
    /\ Pending = {}
    /\ request.stream = hub.stream
    /\ request.matched
    =>  Events(known.cursor, ReportedCursor(request)) \subseteq request.window

(* An answered capsule has walked the obligations of every document.       *)
ObligationsComplete ==
    Walked /\ Pending = {} =>
        \A u \in Documents : request.obligations[u] # Unread

(* The totals of a status are those of its cursor.                         *)
StatusCoversItsCursor ==
    /\ request.step = "status"
    /\ request.todo = << >>
    /\ \A u \in Documents : request.diagnostics[u] # Unread
    => \A e \in Events(0, hub.next) : Reaches(request, e)
=============================================================================
