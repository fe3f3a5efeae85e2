------------------------------- MODULE MCEvents -----------------------------
(***************************************************************************)
(* The event history on small instances, one model at a time: one hub by   *)
(* itself, for every checkpoint and every poll, and a hub with the         *)
(* capsules that are read along with it (Capsule).  A behaviour is of the  *)
(* model subject names; the other stays as it began.                       *)
(*                                                                         *)
(* The checkpoints are every window of at most two events over two streams *)
(* and three cursors, well formed or not, and gap-free windows of three    *)
(* and four events, the last one more than the capacity: what a legacy or  *)
(* edited file can hold, or one written under a larger capacity.           *)
(***************************************************************************)
EXTENDS EventHub

CONSTANTS s1, s2

VARIABLES
    subject,
    capsuleHub, text, cached, pushed, request, known, answers, log

-----------------------------------------------------------------------------
MCStreams == {s1, s2}
MCUris == {"u1", "u2"}
MCIdentities == {1}
MCCursors == 0 .. MaxCursor + 1
MCPageSizes == 0 .. 2

MCSource == [uri |-> "u1", identity |-> 1]
MCStored == [stream : MCStreams, cursor : 1 .. 3, current : {MCSource}]

MCWindows ==
    UNION {[1 .. n -> MCStored] : n \in 0 .. 2}
    \cup {[i \in 1 .. n |-> [stream |-> s, cursor |-> i, current |-> MCSource]] :
             n \in 3 .. 4, s \in MCStreams}

MCCheckpoints == [stream : MCStreams, next : 0 .. 4, events : MCWindows]

Capsules == INSTANCE Capsule WITH
    UriOrder <- <<"u1", "u2">>, WindowPage <- 1, MaxVersion <- 1, MaxAnswers <- 2,
    hub <- capsuleHub

-----------------------------------------------------------------------------
capsuleVars == <<capsuleHub, text, cached, pushed, request, known, answers, log>>
MCvars == <<subject, hub, capsuleVars>>

MCInit ==
    /\ subject \in {"hub", "capsule"}
    /\ IF subject = "hub" THEN Init ELSE hub = NewHub(s1)
    /\ IF subject = "capsule" THEN Capsules!Init
       ELSE capsuleHub = NewHub(s1) /\ Capsules!Init

MCNext ==
    /\ UNCHANGED subject
    /\ \/ subject = "hub" /\ Next /\ UNCHANGED capsuleVars
       \/ subject = "capsule" /\ Capsules!Next /\ UNCHANGED hub

MCSpec == MCInit /\ [][MCNext]_MCvars

-----------------------------------------------------------------------------
(* A capsule tells every change up to the cursor it hands out (ambient.rs  *)
(* semantic_capsule).                                                      *)
CapsuleCoversItsCursor == subject = "capsule" => Capsules!CapsuleCoversItsCursor
=============================================================================
