---------------------------- MODULE RemoteClient ----------------------------
(***************************************************************************)
(* A client of the resident host and the host's connections                *)
(* (crates/service-core/src/client.rs: RemoteLanguageService::call,        *)
(* call_once, connect; serve_unix, handle_connection).                     *)
(*                                                                         *)
(* The client has one connection and one call at a time on it.  A call     *)
(* whose transport fails is sent once more on a new connection.  The host  *)
(* serves every connection with a thread of its own, and what was sent on  *)
(* a connection the client has given up is still read and executed.        *)
(*                                                                         *)
(* The calls here are document mutations, numbered by their ids.  Each     *)
(* carries a version; the host executes it whatever the version is.  The   *)
(* document is the sequence of the calls whose effect is in its text.      *)
(***************************************************************************)
EXTENDS Integers, Sequences, FiniteSets

CONSTANTS
    Ranged,         \* TRUE: the calls are ranged edits, FALSE: whole texts
    MaxCalls,       \* bound: calls
    MaxConnections  \* bound: connections, 2 * MaxCalls reach every behaviour

VARIABLES
    call,       \* the client's call: its id, how often it was sent, 0 if it returned
    conn,       \* the connection the client holds, 0 if none
    opened,     \* connections established so far
    requests,   \* per connection: sent and not yet executed
    responses,  \* per connection: answered and not yet read
    doc,        \* the host's document
    acked       \* the calls that returned success, in order

vars == <<call, conn, opened, requests, responses, doc, acked>>

Calls == 1 .. MaxCalls
Connections == 1 .. MaxConnections

Init ==
    /\ call = [id |-> 0, sent |-> 0]
    /\ conn = 0
    /\ opened = 0
    /\ requests = [k \in Connections |-> << >>]
    /\ responses = [k \in Connections |-> << >>]
    /\ doc = << >>
    /\ acked = << >>

Waiting == call.sent > 0

SendOn(k, id) == requests' = [requests EXCEPT ![k] = Append(@, id)]

(* On the connection at hand, or on a new one.                             *)
Call ==
    /\ ~Waiting
    /\ call.id < MaxCalls
    /\ call' = [id |-> call.id + 1, sent |-> 1]
    /\ IF conn # 0
       THEN UNCHANGED <<conn, opened>>
       ELSE opened < MaxConnections /\ opened' = opened + 1 /\ conn' = opened'
    /\ SendOn(conn', call.id + 1)
    /\ UNCHANGED <<responses, doc, acked>>

Return == call' = [call EXCEPT !.sent = 0]

(* It never gives up.                                                      *)
FailedAgain ==
    /\ opened < MaxConnections
    /\ opened' = opened + 1
    /\ conn' = opened'
    /\ call' = [call EXCEPT !.sent = @ + 1]
    /\ SendOn(conn', call.id)

(* A transport failure: the first time the call is sent again on a new     *)
(* connection; the second time, or when there is no host to connect to,    *)
(* the call fails and the client keeps the connection it has.              *)
Failed ==
    \/ /\ call.sent = 1
       /\ opened < MaxConnections
       /\ opened' = opened + 1
       /\ conn' = opened'
       /\ call' = [call EXCEPT !.sent = 2]
       /\ SendOn(conn', call.id)
    \/ Return /\ UNCHANGED <<conn, opened, requests>>

(* No answer within the read timeout, or a broken connection.              *)
Timeout ==
    /\ Waiting
    /\ Failed
    /\ UNCHANGED <<responses, doc, acked>>

(* Whatever the answer says it answers.                                    *)
ReadAnything ==
    /\ Waiting
    /\ responses[conn] # << >>
    /\ responses' = [responses EXCEPT ![conn] = Tail(@)]
    /\ Return
    /\ acked' = Append(acked, call.id)
    /\ UNCHANGED <<conn, opened, requests, doc>>

(* The next line of the connection: the answer to this call, or to an      *)
(* earlier one that was given up, which counts as a transport failure.     *)
Read ==
    /\ Waiting
    /\ responses[conn] # << >>
    /\ responses' = [responses EXCEPT ![conn] = Tail(@)]
    /\ IF Head(responses[conn]) = call.id
       THEN /\ Return
            /\ acked' = Append(acked, call.id)
            /\ UNCHANGED <<conn, opened, requests>>
       ELSE Failed /\ UNCHANGED acked
    /\ UNCHANGED doc

(* handle_connection: one request of one connection, executed and answered. *)
Serve(k) ==
    /\ requests[k] # << >>
    /\ LET id == Head(requests[k])
       IN  /\ doc' = IF Ranged THEN Append(doc, id) ELSE <<id>>
           /\ responses' = [responses EXCEPT ![k] = Append(@, id)]
    /\ requests' = [requests EXCEPT ![k] = Tail(@)]
    /\ UNCHANGED <<call, conn, opened, acked>>

Next == Call \/ Timeout \/ Read \/ \E k \in Connections : Serve(k)

Spec == Init /\ [][Next]_vars

(* A read ends, with a line or by its timeout; the host may do nothing.    *)
FairSpec ==
    /\ Spec
    /\ WF_vars(Timeout \/ Read)

-----------------------------------------------------------------------------
(* Every variable has its type.                                            *)
TypeOK ==
    /\ call \in [id : 0 .. MaxCalls, sent : 0 .. 2]
    /\ opened \in 0 .. MaxConnections
    /\ conn \in 0 .. opened
    /\ requests \in [Connections -> Seq(Calls)]
    /\ responses \in [Connections -> Seq(Calls)]
    /\ doc \in Seq(Calls)
    /\ acked \in Seq(Calls)

(* A success is never the answer to another call, however badly an earlier *)
(* timeout has put the connection out of step: a ranged edit that was      *)
(* acknowledged is in the document.                                        *)
AcknowledgedIsApplied ==
    Ranged => \A i \in DOMAIN acked : \E j \in DOMAIN doc : doc[j] = acked[i]

(* "A retry after a lost response may re-apply a mutation, but versions    *)
(* make document mutations idempotent in effect": when every call so far   *)
(* has succeeded and none is in progress, the document has the effect of   *)
(* each of them once, in their order.                                      *)
IdempotentInEffect ==
    ~Waiting /\ Len(acked) = call.id /\ call.id > 0 =>
        doc = IF Ranged THEN acked ELSE <<call.id>>

(* Every call returns, answered or not.                                    *)
CallsReturn == []<>(~Waiting)
=============================================================================
