--------------------------- MODULE AuthorityQuery ---------------------------
(***************************************************************************)
(* A query of another repository's tool                                    *)
(* (crates/service-core/src/family_context.rs run_json_command).           *)
(*                                                                         *)
(* The tool is a child process that writes its answer to a pipe.  The      *)
(* service asks every few milliseconds whether the child has ended, and    *)
(* reads the pipe only then; a full pipe holds the child up meanwhile.  A  *)
(* process the child started may keep the pipe open after it.              *)
(*                                                                         *)
(* The amounts are in units of the pipe's buffer divided by PipeCapacity.  *)
(***************************************************************************)
EXTENDS Naturals

CONSTANTS
    PipeCapacity,   \* external: what a pipe holds before writing blocks
    MaxOutput,      \* MAX_AUTHORITY_OUTPUT
    MaxPolls,       \* AUTHORITY_QUERY_TIMEOUT, in polls
    Answers         \* external: what children do: records of size, valid (the
                    \*   output is JSON), success (the exit status)

VARIABLES
    child,      \* the process: running, ended, killed; what it will write
    pipe,       \* written and not read
    held,       \* another process keeps the pipe open
    caller,     \* the service: polling, collecting, done; its result
    polls       \* polls so far

vars == <<child, pipe, held, caller, polls>>

Init ==
    /\ \E a \in Answers, allow \in BOOLEAN :
          /\ child = [state |-> "running", left |-> a.size, answer |-> a]
          /\ caller = [step |-> "poll", result |-> "none", allow |-> allow]
    /\ pipe = 0
    /\ held \in BOOLEAN
    /\ polls = 0

-----------------------------------------------------------------------------
(* The child (external)                                                    *)

Write ==
    /\ child.state = "running"
    /\ child.left > 0
    /\ pipe < PipeCapacity
    /\ pipe' = pipe + 1
    /\ child' = [child EXCEPT !.left = @ - 1]
    /\ UNCHANGED <<held, caller, polls>>

Exit ==
    /\ child.state = "running"
    /\ child.left = 0
    /\ child' = [child EXCEPT !.state = "ended"]
    /\ UNCHANGED <<pipe, held, caller, polls>>

(* The other process ends, or it never does.                               *)
Release ==
    /\ held
    /\ held' = FALSE
    /\ UNCHANGED <<child, pipe, caller, polls>>

-----------------------------------------------------------------------------
(* run_json_command                                                        *)

Finish(result) == caller' = [caller EXCEPT !.step = "done", !.result = result]

(* try_wait finds the child ended.                                         *)
SeeEnd ==
    /\ caller.step = "poll"
    /\ child.state = "ended"
    /\ caller' = [caller EXCEPT !.step = "collect"]
    /\ UNCHANGED <<child, pipe, held, polls>>

GiveUpNever == FALSE /\ UNCHANGED vars

(* It is killed, not waited for.                                           *)
GiveUp ==
    /\ caller.step = "poll"
    /\ child.state = "running"
    /\ polls >= MaxPolls
    /\ child' = [child EXCEPT !.state = "killed"]
    /\ Finish("timeout")
    /\ UNCHANGED <<pipe, held, polls>>

Sleep ==
    /\ caller.step = "poll"
    /\ child.state = "running"
    /\ polls < MaxPolls
    /\ polls' = polls + 1
    /\ UNCHANGED <<child, pipe, held, caller>>

(* wait_with_output reads until nobody has the pipe open.                  *)
Collect ==
    /\ caller.step = "collect"
    /\ ~held
    /\ Finish(CASE pipe > MaxOutput -> "too large"
                [] pipe <= MaxOutput /\ ~child.answer.success /\ ~caller.allow -> "failed"
                [] pipe <= MaxOutput /\ (child.answer.success \/ caller.allow) ->
                      IF child.answer.valid THEN "answer" ELSE "invalid")
    /\ pipe' = 0
    /\ UNCHANGED <<child, held, polls>>

Next == Write \/ Exit \/ Release \/ SeeEnd \/ GiveUp \/ Sleep \/ Collect

(* The service runs on; nothing is assumed of the child.                   *)
Fairness == WF_vars(SeeEnd \/ GiveUp \/ Sleep \/ Collect)

Spec == Init /\ [][Next]_vars /\ Fairness

-----------------------------------------------------------------------------
(* Properties                                                              *)

(* "Strict bound": a query ends whatever the child does, unless a process  *)
(* the child left behind keeps its pipe open (run_json_command).           *)
QueryEnds == []<>(caller.step = "done" \/ held)

(* A query never times out "a valid authority response"                    *)
(* (family_context.rs:32-36): a child whose output is JSON, of a size and  *)
(* an exit status that are accepted, and which has written as far as it    *)
(* was let, is not given up.                                               *)
ValidAnswersArrive ==
    LET answer == child.answer
    IN  ~(/\ answer.valid /\ (answer.success \/ caller.allow) /\ answer.size <= MaxOutput
          /\ child.left > 0 /\ pipe = PipeCapacity
          /\ caller.result = "timeout")
=============================================================================
