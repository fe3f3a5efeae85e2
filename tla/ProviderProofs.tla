--------------------------- MODULE ProviderProofs ---------------------------
(* Proofs about the provider command: which processes it signals, for any  *)
(* number of invocations at once; and one host, which keeps its socket, for *)
(* one invocation at a time.                                                *)
EXTENDS Provider, FiniteSetTheorems, TLAPS

LEMMA InitTypeOK == Init => TypeOK
  BY ProviderAssumption DEF Init, TypeOK, Process, Lease, Agent, Unborn, NoLease, NoAgent, Births, Steps

LEMMA BirthsAreNumbers == \A b \in Births : b \in 0 .. MaxBirths /\ b # 0
  BY ProviderAssumption DEF Births

(* A step of one invocation that only moves it within the command.          *)
LEMMA GoType ==
    ASSUME TypeOK, NEW a \in Agents, NEW step \in Steps, Go(a, step)
    PROVE  agent' \in [Agents -> Agent]
  BY DEF Go, TypeOK, Agent

LEMMA DoneType ==
    ASSUME TypeOK, NEW a \in Agents, Done(a)
    PROVE  agent' \in [Agents -> Agent]
  BY ProviderAssumption DEF Done, TypeOK, Agent, NoAgent, Lease, NoLease, Steps

LEMMA ProbedType ==
    ASSUME TypeOK, NEW a \in Agents,
           NEW state \in {"absent", "unreachable", "foreign", "stale", "ready", "unverified"},
           Probed(a, state)
    PROVE  agent' \in [Agents -> Agent]
<1> DEFINE step == IF agent[a].child = 0 THEN "decide"
                   ELSE IF state = "ready" THEN "adopt" ELSE "await"
           moved == [agent[a] EXCEPT !.state = state, !.peer = socket, !.step = step]
<1>1. step \in Steps
  BY DEF Steps
<1>2. agent' = [agent EXCEPT ![a] = moved]
  BY DEF Probed, TypeOK, Agent
<1>3. moved \in Agent
  <2> HIDE DEF step
  <2> QED
    BY <1>1 DEF TypeOK, Agent
<1> QED
  BY <1>2, <1>3 DEF TypeOK

LEMMA ForkType ==
    ASSUME TypeOK, NEW stage \in {"starting", "other"}, NEW binding \in Bindings \cup {Foreign},
           NEW ours \in BOOLEAN, Fork(stage, binding, ours)
    PROVE  proc' \in [Births -> Process]
  BY DEF Fork, TypeOK, Process

(* The process that Spawn takes for its child is the one it has forked.     *)
LEMMA SpawnedChild ==
    ASSUME TypeOK, NEW a \in Agents, Spawn(a)
    PROVE  \E child \in Births :
              /\ agent' = [agent EXCEPT ![a].child = child, ![a].step = "lease"]
              /\ proc[child].stage = "unborn"
              /\ proc'[child].stage = "starting"
              /\ proc'[child].ours = TRUE
<1>1. PICK b \in Births, pid \in Pids :
        /\ proc[b].stage = "unborn"
        /\ proc' = [proc EXCEPT ![b] = [stage |-> "starting", pid |-> pid,
                                        binding |-> selected, ours |-> TRUE]]
  BY DEF Spawn, Fork
<1>2. \A c \in Births : proc'[c] # proc[c] <=> c = b
  BY <1>1 DEF TypeOK
<1> DEFINE chosen == CHOOSE c \in Births : proc'[c] # proc[c]
<1>3. chosen = b
  BY <1>2
<1>5. agent' = [agent EXCEPT ![a].child = chosen, ![a].step = "lease"]
  BY DEF Spawn
<1>4. proc'[b] = [stage |-> "starting", pid |-> pid, binding |-> selected, ours |-> TRUE]
  BY <1>1 DEF TypeOK
<1> HIDE DEF chosen
<1>6. proc'[b].stage = "starting" /\ proc'[b].ours = TRUE
  BY <1>4
<1>7. agent' = [agent EXCEPT ![a].child = b, ![a].step = "lease"]
  BY <1>3, <1>5
<1> QED
  BY <1>1, <1>6, <1>7

LEMMA DieType ==
    ASSUME TypeOK, NEW b \in 0 .. MaxBirths, Die(b)
    PROVE  proc' \in [Births -> Process]
  BY DEF Die, TypeOK, Process

(* An invocation about to write its first lease has started a process.      *)
ChildKnown == \A a \in Agents : agent[a].step = "lease" => agent[a].child # 0

LEMMA NextTypeOK == TypeOK /\ ChildKnown /\ [Next]_vars => TypeOK'
<1> SUFFICES ASSUME TypeOK, ChildKnown, [Next]_vars PROVE TypeOK'

  OBVIOUS
<1>1. ASSUME NEW b \in Births, Host(b) PROVE TypeOK'
  <2>1. CASE Configure(b)
    BY <2>1 DEF Configure, TypeOK, Process
  <2>2. CASE RemoveOld(b)
    BY <2>2, ProviderAssumption DEF RemoveOld, TypeOK, Process
  <2>3. CASE Bind(b)
    <3>1. b \in 0 .. MaxBirths
      BY ProviderAssumption DEF Births
    <3>2. proc' \in [Births -> Process]
      BY <2>3 DEF Bind, TypeOK, Process
    <3> QED
      BY <2>3, <3>1, <3>2 DEF Bind, TypeOK
  <2> QED
    BY <1>1, <2>1, <2>2, <2>3 DEF Host
<1>2. ASSUME NEW b \in Births, Death(b) PROVE TypeOK'
  BY <1>2, DieType, ProviderAssumption DEF Death, Mishap, TypeOK, Births
<1>3. ASSUME NEW binding \in Bindings, Select(binding) PROVE TypeOK'
  BY <1>3, ProviderAssumption DEF Select, Mishap, TypeOK
<1>4. ASSUME NEW binding \in Bindings \cup {Foreign}, OperatorHost(binding) PROVE TypeOK'
  <2>1. proc' \in [Births -> Process]
    <3>1. Fork("starting", binding, FALSE)
      BY <1>4 DEF OperatorHost
    <3> QED
      BY <3>1, ForkType
  <2> QED
    BY <1>4, <2>1, ProviderAssumption DEF OperatorHost, Mishap, TypeOK
<1>5. ASSUME Unrelated PROVE TypeOK'
  <2>1. proc' \in [Births -> Process]
    <3>1. Fork("other", Foreign, FALSE)
      BY <1>5 DEF Unrelated
    <3> QED
      BY <3>1, ForkType
  <2> QED
    BY <1>5, <2>1, ProviderAssumption DEF Unrelated, Mishap, TypeOK
<1>6. ASSUME NEW a \in Agents, Advance(a) PROVE TypeOK'
  <2>1. CASE Ensure(a)
    BY <2>1, GoType DEF Ensure, TypeOK, Steps
  <2>2. CASE Exists(a)
    BY <2>2, GoType, ProbedType DEF Exists, TypeOK, Steps
  <2>3. CASE Connect(a)
    BY <2>3, ProbedType, ProviderAssumption DEF Connect, Status, Mishap, TypeOK
  <2>4. CASE Decide(a)
    BY <2>4, GoType, DoneType DEF Decide, TypeOK, Steps, Agent
  <2>5. CASE Unlink(a)
    BY <2>5, GoType, ProviderAssumption DEF Unlink, TypeOK, Steps
  <2>6. CASE Pin(a)
    <3>1. ASSUME NEW b \in Births,
                 agent' = [agent EXCEPT ![a].peer = b, ![a].step = "identify"]
          PROVE  agent' \in [Agents -> Agent]
      <4>1. agent' = [agent EXCEPT ![a] = [agent[a] EXCEPT !.peer = b, !.step = "identify"]]
        BY <3>1 DEF TypeOK, Agent
      <4>2. [agent[a] EXCEPT !.peer = b, !.step = "identify"] \in Agent
        <5>1. agent[a] \in Agent
          BY DEF TypeOK
        <5>2. "identify" \in Steps
          BY DEF Steps
        <5>3. b \in 0 .. MaxBirths
          BY BirthsAreNumbers
        <5> QED
          BY <5>1, <5>2, <5>3 DEF Agent
      <4> QED
        BY <4>1, <4>2 DEF TypeOK
    <3>2. agent' \in [Agents -> Agent]
      BY <2>6, <3>1, GoType, DoneType DEF Pin, Steps
    <3> QED
      BY <2>6, <3>2 DEF Pin, TypeOK
  <2>7. CASE Identify(a)
    BY <2>7, GoType, DoneType DEF Identify, TypeOK, Steps
  <2>8. CASE Verify(a)
    BY <2>8, GoType, DoneType, ProviderAssumption DEF Verify, Mishap, TypeOK, Steps
  <2>9. CASE Signal(a)
    BY <2>9, GoType, DoneType, DieType DEF Signal, TypeOK, Steps, Agent
  <2>10. CASE Cancelled(a)
    BY <2>10, GoType, DoneType DEF Cancelled, TypeOK, Steps
  <2>11. CASE Disown(a)
    BY <2>11, GoType, DoneType DEF Disown, TypeOK, Steps
  <2>12. CASE Reclaim(a)
    BY <2>12, GoType, DoneType DEF Reclaim, TypeOK, Steps
  <2>13. CASE Clear(a)
    BY <2>13, GoType, ProviderAssumption DEF Clear, TypeOK, Steps
  <2>14. CASE Release(a)
    BY <2>14, GoType, DoneType, ProviderAssumption DEF Release, TypeOK, Steps, Lease, NoLease
  <2>15. CASE Spawn(a)
    <3>1. Fork("starting", selected, TRUE)
      BY <2>15 DEF Spawn
    <3>2. proc' \in [Births -> Process]
      BY <3>1, ForkType DEF TypeOK
    <3>3. PICK child \in Births :
            agent' = [agent EXCEPT ![a].child = child, ![a].step = "lease"]
      BY <2>15, SpawnedChild DEF Spawn
    <3>4. agent' \in [Agents -> Agent]
      <4>1. agent' = [agent EXCEPT ![a] = [agent[a] EXCEPT !.child = child, !.step = "lease"]]
        BY <3>3 DEF TypeOK, Agent
      <4>2. [agent[a] EXCEPT !.child = child, !.step = "lease"] \in Agent
        <5>1. agent[a] \in Agent
          BY DEF TypeOK
        <5>2. "lease" \in Steps
          BY DEF Steps
        <5>3. child \in 0 .. MaxBirths
          BY BirthsAreNumbers
        <5> QED
          BY <5>1, <5>2, <5>3 DEF Agent
      <4> QED
        BY <4>1, <4>2 DEF TypeOK
    <3> QED
      BY <2>15, <3>2, <3>4 DEF Spawn, TypeOK
  <2>16. CASE WriteLease(a)
    <3> DEFINE b == agent[a].child
               pid == proc[b].pid
               born == IF Living(b) THEN b ELSE 0
    <3>1. pid \in Pids \cup {NoPid}
      <4>1. b \in Births
        BY <2>16, ProviderAssumption DEF WriteLease, ChildKnown, TypeOK, Agent, Births
      <4> QED
        BY <4>1 DEF TypeOK, Process
    <3>2. born \in 0 .. MaxBirths
      BY ProviderAssumption DEF TypeOK, Agent
    <3>3. lease' = [pid |-> pid, born |-> born, instance |-> 0]
      BY <2>16 DEF WriteLease
    <3>4. agent' \in [Agents -> Agent]
      BY <2>16, GoType DEF WriteLease, Steps
    <3> HIDE DEF b, pid, born
    <3>5. lease' \in Lease
      BY <3>1, <3>2, <3>3, ProviderAssumption DEF Lease
    <3> QED
      BY <2>16, <3>4, <3>5 DEF WriteLease, TypeOK
  <2>17. CASE Await(a)
    BY <2>17, GoType DEF Await, TypeOK, Steps
  <2>18. CASE Sweep(a)
    BY <2>18, GoType, ProviderAssumption DEF Sweep, TypeOK, Steps
  <2>19. CASE Abandon(a)
    BY <2>19, DoneType, ProviderAssumption DEF Abandon, TypeOK, Lease, NoLease
  <2>20. CASE Adopt(a)
    BY <2>20 DEF Adopt, TypeOK, Agent, Steps
  <2>21. CASE Record(a)
    BY <2>21, DoneType DEF Record, TypeOK, Agent, Lease
  <2> QED
    BY <1>6, <2>1, <2>2, <2>3, <2>4, <2>5, <2>6, <2>7, <2>8, <2>9, <2>10, <2>11, <2>12,
       <2>13, <2>14, <2>15, <2>16, <2>17, <2>18, <2>19, <2>20, <2>21 DEF Advance
<1>7. ASSUME NEW a \in Agents, Stop(a) PROVE TypeOK'
  BY <1>7, ProviderAssumption DEF Stop, Mishap, TypeOK, Agent, Steps
<1>8. ASSUME NEW a \in Agents, SlowStart(a) \/ WrongStart(a) PROVE TypeOK'
  BY <1>8, DieType, DoneType, ProviderAssumption DEF SlowStart, WrongStart, GiveUp, Mishap, TypeOK, Agent
<1>9. ASSUME NEW a \in Agents, Interrupt(a) PROVE TypeOK'
  BY <1>9, DoneType, ProviderAssumption DEF Interrupt, Mishap, TypeOK
<1>10. CASE UNCHANGED vars
  BY <1>10 DEF vars, TypeOK
<1> QED
  BY <1>1, <1>2, <1>3, <1>4, <1>5, <1>6, <1>7, <1>8, <1>9, <1>10 DEF Next

-----------------------------------------------------------------------------
(* SignalsOnlyOwn is not inductive.  What it rests on: a lease names a host *)
(* of this command by its birth, living processes have different PIDs, and  *)
(* the process an invocation has pinned had the leased PID.                 *)

Known(b) == b # 0 /\ proc[b].stage # "unborn"
Mine(l) == l.born # 0 => proc[l.born].ours

UnbornNotOurs == \A b \in Births : proc[b].stage = "unborn" => ~proc[b].ours
OnePidEach ==
    \A b, c \in Births : Living(b) /\ Living(c) /\ proc[b].pid = proc[c].pid => b = c

AgentOK(a) ==
    /\ Mine(agent[a].lease)
    /\ agent[a].child # 0 => proc[agent[a].child].ours
    /\ agent[a].step = "lease" => agent[a].child # 0
    /\ agent[a].step = "identify" =>
          /\ Known(agent[a].peer)
          /\ Living(agent[a].peer) => proc[agent[a].peer].pid = agent[a].lease.pid
    /\ agent[a].step \in {"verify", "signal", "cancel"} =>
          /\ Known(agent[a].peer)
          /\ Living(agent[a].peer) => proc[agent[a].peer].ours

OwnInv ==
    /\ TypeOK
    /\ UnbornNotOurs /\ OnePidEach
    /\ Mine(lease)
    /\ \A a \in Agents : AgentOK(a)

(* Whatever happens, a process keeps its PID and its origin, and the dead   *)
(* stay dead.                                                               *)
Kept ==
    \A b \in Births : proc[b].stage # "unborn" =>
        /\ proc'[b].stage # "unborn"
        /\ proc'[b].ours = proc[b].ours
        /\ proc'[b].pid = proc[b].pid
        /\ Living(b)' => Living(b)

ProcOK == Kept /\ UnbornNotOurs' /\ OnePidEach'

LEMMA SameProc == TypeOK /\ UnbornNotOurs /\ OnePidEach /\ UNCHANGED proc => ProcOK
  BY DEF ProcOK, Kept, UnbornNotOurs, OnePidEach, Living

LEMMA StageProc ==
    ASSUME TypeOK, UnbornNotOurs, OnePidEach,
           NEW b \in 0 .. MaxBirths,
           NEW stage \in {"binding", "removing", "listening", "dead"},
           b # 0 => proc[b].stage # "unborn" /\ (proc[b].stage = "dead" => stage = "dead"),
           proc' = [proc EXCEPT ![b].stage = stage]
    PROVE  ProcOK
<1>1. ASSUME NEW c \in Births
      PROVE  /\ proc'[c].ours = proc[c].ours
             /\ proc'[c].pid = proc[c].pid
             /\ c # b => proc'[c].stage = proc[c].stage
             /\ c = b => proc'[c].stage = stage
  BY DEF TypeOK, Process
<1>2. \A c \in Births : Living(c)' => Living(c)
  BY <1>1, BirthsAreNumbers DEF Living
<1>3. Kept
  BY <1>1, <1>2 DEF Kept
<1>4. UnbornNotOurs'
  BY <1>1 DEF UnbornNotOurs
<1>5. OnePidEach'
  BY <1>1, <1>2 DEF OnePidEach
<1> QED
  BY <1>3, <1>4, <1>5 DEF ProcOK

LEMMA ForkProc ==
    ASSUME TypeOK, UnbornNotOurs, OnePidEach,
           NEW stage \in {"starting", "other"}, NEW binding, NEW ours \in BOOLEAN,
           Fork(stage, binding, ours)
    PROVE  ProcOK
<1>1. PICK b \in Births, pid \in Pids :
        /\ proc[b].stage = "unborn"
        /\ \A c \in Births : ~Holds(c, pid)
        /\ proc' = [proc EXCEPT ![b] = [stage |-> stage, pid |-> pid,
                                        binding |-> binding, ours |-> ours]]
  BY DEF Fork
<1>2. \A c \in Births : c # b => proc'[c] = proc[c]
  BY <1>1 DEF TypeOK
<1>3. proc'[b].stage = stage /\ proc'[b].pid = pid
  BY <1>1 DEF TypeOK
<1>4. Kept
  BY <1>1, <1>2 DEF Kept, Living
<1>5. UnbornNotOurs'
  BY <1>2, <1>3 DEF UnbornNotOurs
<1>6. OnePidEach'
  BY <1>1, <1>2, <1>3 DEF OnePidEach, Living, Holds
<1> QED
  BY <1>4, <1>5, <1>6 DEF ProcOK

LEMMA NextProcOK == OwnInv /\ [Next]_vars => ProcOK
<1> SUFFICES ASSUME OwnInv, [Next]_vars PROVE ProcOK
  OBVIOUS
<1> USE DEF OwnInv
<1>1. ASSUME NEW b \in Births, Host(b) PROVE ProcOK
  <2>1. PICK stage \in {"binding", "removing", "listening", "dead"} :
          proc' = [proc EXCEPT ![b].stage = stage]
    BY <1>1 DEF Host, Configure, RemoveOld, Bind
  <2>2. proc[b].stage \notin {"unborn", "dead"}
    BY <1>1 DEF Host, Configure, RemoveOld, Bind
  <2> QED
    BY <2>1, <2>2, StageProc, BirthsAreNumbers
<1>2. ASSUME NEW b \in 0 .. MaxBirths, Living(b), Die(b) PROVE ProcOK
  BY <1>2, StageProc DEF Die, Living
<1>3. ASSUME NEW b \in Births, Death(b) PROVE ProcOK
  BY <1>2, <1>3, BirthsAreNumbers DEF Death
<1>4. ASSUME NEW binding \in Bindings \cup {Foreign}, OperatorHost(binding) PROVE ProcOK
  BY <1>4, ForkProc DEF OperatorHost
<1>5. ASSUME Unrelated PROVE ProcOK
  BY <1>5, ForkProc DEF Unrelated
<1>6. ASSUME NEW a \in Agents, Spawn(a) PROVE ProcOK
  BY <1>6, ForkProc DEF Spawn
<1>7. ASSUME NEW a \in Agents, Signal(a) PROVE ProcOK
  <2>1. agent[a].peer \in 0 .. MaxBirths
    BY DEF TypeOK, Agent
  <2> QED
    BY <1>2, <1>7, <2>1, SameProc DEF Signal
<1>8. ASSUME NEW a \in Agents, GiveUp(a) PROVE ProcOK
  <2>1. agent[a].child \in 0 .. MaxBirths
    BY DEF TypeOK, Agent
  <2>2. agent[a].child # 0 => proc[agent[a].child].stage # "unborn"
    BY <2>1, ProviderAssumption DEF AgentOK, UnbornNotOurs, Births
  <2> QED
    BY <1>8, <2>1, <2>2, StageProc DEF GiveUp, Die
<1>9. ASSUME NEW a \in Agents, Advance(a) PROVE ProcOK
  BY <1>6, <1>7, <1>9, SameProc
     DEF Advance, Ensure, Exists, Connect, Decide, Unlink, Pin, Identify, Verify, Cancelled,
         Disown, Reclaim, Clear, Release, WriteLease, Await, Sweep, Abandon, Adopt, Record
<1> QED
  BY <1>1, <1>3, <1>4, <1>5, <1>8, <1>9, SameProc
     DEF Next, Stop, SlowStart, WrongStart, Interrupt, Select, vars

(* A lease that was one of ours still is.                                   *)
LEMMA MineKept ==
    ASSUME TypeOK, UnbornNotOurs, Kept, NEW l \in Lease, Mine(l)
    PROVE  l.born # 0 => proc'[l.born].ours
<1>1. l.born # 0 => l.born \in Births
  BY ProviderAssumption DEF Lease, Births
<1> QED
  BY <1>1 DEF Mine, Kept, UnbornNotOurs

LEMMA OthersKept ==
    ASSUME TypeOK, UnbornNotOurs, Kept, NEW c \in Agents, AgentOK(c), agent'[c] = agent[c]
    PROVE  AgentOK(c)'
<1>1. /\ agent[c].lease \in Lease
      /\ agent[c].child # 0 => agent[c].child \in Births
      /\ agent[c].peer # 0 => agent[c].peer \in Births
  BY ProviderAssumption DEF TypeOK, Agent, Births
<1>2. Mine(agent[c].lease)'
  BY <1>1, MineKept DEF AgentOK, Mine
<1> QED
  BY <1>1, <1>2 DEF AgentOK, Kept, Known, UnbornNotOurs, Living

(* Moving on to a step at which nothing new is claimed.                     *)
LEMMA GoKept ==
    ASSUME TypeOK, UnbornNotOurs, Kept, NEW a \in Agents, AgentOK(a),
           NEW step \in Steps \ {"lease", "identify", "verify", "signal", "cancel"},
           Go(a, step)
    PROVE  AgentOK(a)'
<1>1. /\ agent[a].lease \in Lease
      /\ agent[a].child # 0 => agent[a].child \in Births
  BY ProviderAssumption DEF TypeOK, Agent, Births
<1>2. /\ agent'[a].lease = agent[a].lease /\ agent'[a].child = agent[a].child
      /\ agent'[a].step = step
  BY DEF Go, TypeOK, Agent
<1>3. Mine(agent[a].lease)'
  BY <1>1, <1>2, MineKept DEF AgentOK, Mine
<1> QED
  BY <1>1, <1>2, <1>3 DEF AgentOK, Kept, UnbornNotOurs

LEMMA DoneKept ==
    ASSUME TypeOK, NEW a \in Agents, Done(a)
    PROVE  AgentOK(a)'
<1>1. agent'[a] = NoAgent
  BY DEF Done, TypeOK
<1> QED
  BY <1>1 DEF AgentOK, NoAgent, NoLease, Mine

LEMMA ProbedKept ==
    ASSUME TypeOK, UnbornNotOurs, Kept, NEW a \in Agents, AgentOK(a), NEW state, Probed(a, state)
    PROVE  AgentOK(a)'
<1>1. /\ agent[a].lease \in Lease
      /\ agent[a].child # 0 => agent[a].child \in Births
  BY ProviderAssumption DEF TypeOK, Agent, Births
<1>2. /\ agent'[a].lease = agent[a].lease /\ agent'[a].child = agent[a].child
      /\ agent'[a].step \in {"decide", "adopt", "await"}
  BY DEF Probed, TypeOK, Agent
<1>3. Mine(agent[a].lease)'
  BY <1>1, <1>2, MineKept DEF AgentOK, Mine
<1> QED
  BY <1>1, <1>2, <1>3 DEF AgentOK, Kept, UnbornNotOurs

LEMMA AdvanceKept ==
    ASSUME OwnInv, ProcOK, NEW a \in Agents, Advance(a)
    PROVE  AgentOK(a)'
<1> USE DEF OwnInv, ProcOK
<1>0. agent[a] \in Agent /\ AgentOK(a)
  BY DEF TypeOK
<1>1. CASE Ensure(a)
  BY <1>1, GoKept DEF Ensure, Steps
<1>2. CASE Exists(a)
  BY <1>2, GoKept, ProbedKept DEF Exists, Steps
<1>3. CASE Connect(a)
  BY <1>3, ProbedKept DEF Connect
<1>4. CASE Decide(a)
  <2>1. CASE agent' = [agent EXCEPT ![a].lease = lease, ![a].step = "pin"]
    <3>1. /\ agent'[a].lease = lease /\ agent'[a].step = "pin"
          /\ agent'[a].child = agent[a].child
      BY <2>1, <1>0 DEF TypeOK, Agent
    <3>2. Mine(lease)'
      BY <1>4, MineKept DEF TypeOK, Mine, Decide
    <3> QED
      BY <1>0, <1>4, <3>1, <3>2 DEF AgentOK, Mine, Decide
  <2> QED
    BY <1>4, <2>1, GoKept, DoneKept DEF Decide, Steps
<1>5. CASE Unlink(a)
  BY <1>5, GoKept DEF Unlink, Steps
<1>6. CASE Pin(a)
  <2>1. ASSUME NEW b \in Births, Holds(b, agent[a].lease.pid),
               agent' = [agent EXCEPT ![a].peer = b, ![a].step = "identify"]
        PROVE  AgentOK(a)'
    <3>1. /\ agent'[a].lease = agent[a].lease /\ agent'[a].child = agent[a].child
          /\ agent'[a].peer = b /\ agent'[a].step = "identify"
      BY <2>1, <1>0 DEF TypeOK, Agent
    <3>2. proc' = proc
      BY <1>6 DEF Pin
    <3> QED
      BY <1>0, <2>1, <3>1, <3>2 DEF AgentOK, Mine, Known, Holds, Living
  <2> QED
    BY <1>6, <2>1, GoKept, DoneKept DEF Pin, Steps
<1>7. CASE Identify(a)
  <2>1. ASSUME NEW step \in {"verify", "cancel"}, Go(a, step),
               agent[a].lease.born # 0, Holds(agent[a].lease.born, agent[a].lease.pid)
        PROVE  AgentOK(a)'
    <3>1. /\ agent'[a].lease = agent[a].lease /\ agent'[a].child = agent[a].child
          /\ agent'[a].peer = agent[a].peer /\ agent'[a].step = step
      BY <2>1, <1>0 DEF Go, TypeOK, Agent
    <3>2. proc' = proc /\ agent[a].step = "identify"
      BY <1>7 DEF Identify
    <3>3. /\ agent[a].lease.born \in Births
          /\ agent[a].peer # 0 => agent[a].peer \in Births
      BY <1>0, <2>1, ProviderAssumption DEF Agent, Lease, Births
    <3>4. Known(agent[a].peer)
      BY <1>0, <3>2 DEF AgentOK
    <3>5. Living(agent[a].peer) => agent[a].peer = agent[a].lease.born
      BY <1>0, <2>1, <3>2, <3>3, <3>4 DEF AgentOK, OnePidEach, Holds, Known
    <3>6. Living(agent[a].peer) => proc[agent[a].peer].ours
      BY <1>0, <2>1, <3>5 DEF AgentOK, Mine
    <3> QED
      BY <1>0, <3>1, <3>2, <3>4, <3>6 DEF AgentOK, Mine, Known, Living
  <2> QED
    BY <1>7, <2>1, DoneKept DEF Identify
<1>8. CASE Verify(a)
  <2>1. CASE Go(a, "signal")
    <3>1. /\ agent'[a].lease = agent[a].lease /\ agent'[a].child = agent[a].child
          /\ agent'[a].peer = agent[a].peer /\ agent'[a].step = "signal"
      BY <2>1, <1>0 DEF Go, TypeOK, Agent
    <3>2. proc' = proc /\ agent[a].step = "verify"
      BY <1>8 DEF Verify
    <3> QED
      BY <1>0, <3>1, <3>2 DEF AgentOK, Mine, Known, Living
  <2> QED
    BY <1>8, <2>1, DoneKept DEF Verify
<1>9. CASE Signal(a)
  BY <1>9, GoKept, DoneKept DEF Signal, Steps
<1>10. CASE Cancelled(a)
  BY <1>10, GoKept, DoneKept DEF Cancelled, Steps
<1>11. CASE Disown(a)
  BY <1>11, GoKept, DoneKept DEF Disown, Steps
<1>12. CASE Reclaim(a)
  BY <1>12, GoKept, DoneKept DEF Reclaim, Steps
<1>13. CASE Clear(a)
  BY <1>13, GoKept DEF Clear, Steps
<1>14. CASE Release(a)
  BY <1>14, GoKept, DoneKept DEF Release, Steps
<1>15. CASE Spawn(a)
  <2>1. PICK child \in Births :
          /\ agent' = [agent EXCEPT ![a].child = child, ![a].step = "lease"]
          /\ proc'[child].ours = TRUE
    BY <1>15, SpawnedChild
  <2>2. /\ agent'[a].lease = agent[a].lease
        /\ agent'[a].child = child /\ agent'[a].step = "lease"
    BY <2>1, <1>0 DEF TypeOK, Agent
  <2>3. Mine(agent[a].lease)'
    BY <1>0, <2>2, MineKept DEF AgentOK, Mine, Agent
  <2> QED
    BY <2>1, <2>2, <2>3, BirthsAreNumbers DEF AgentOK
<1>16. CASE WriteLease(a)
  BY <1>16, GoKept DEF WriteLease, Steps
<1>17. CASE Await(a)
  BY <1>17, GoKept DEF Await, Steps
<1>18. CASE Sweep(a)
  BY <1>18, GoKept DEF Sweep, Steps
<1>19. CASE Abandon(a)
  BY <1>19, DoneKept DEF Abandon
<1>20. CASE Adopt(a)
  <2>1. /\ agent'[a].lease = lease /\ agent'[a].step = "record"
        /\ agent'[a].child = agent[a].child
    BY <1>20, <1>0 DEF Adopt, TypeOK, Agent
  <2> QED
    BY <1>0, <1>20, <2>1 DEF Adopt, AgentOK, Mine
<1>21. CASE Record(a)
  BY <1>21, DoneKept DEF Record
<1> QED
  BY <1>1, <1>2, <1>3, <1>4, <1>5, <1>6, <1>7, <1>8, <1>9, <1>10, <1>11, <1>12, <1>13,
     <1>14, <1>15, <1>16, <1>17, <1>18, <1>19, <1>20, <1>21 DEF Advance

(* An invocation leaves the others where they are.                          *)
LEMMA OneAgentMoves ==
    ASSUME TypeOK, NEW a \in Agents,
           Advance(a) \/ Stop(a) \/ SlowStart(a) \/ WrongStart(a) \/ Interrupt(a),
           NEW c \in Agents, c # a
    PROVE  agent'[c] = agent[c]
<1>1. CASE Spawn(a)
  BY <1>1, SpawnedChild DEF TypeOK
<1>2. CASE Advance(a) /\ ~Spawn(a)
  BY <1>2
     DEF Advance, Ensure, Exists, Connect, Decide, Unlink, Pin, Identify, Verify, Signal,
         Cancelled, Disown, Reclaim, Clear, Release, WriteLease, Await, Sweep, Abandon, Adopt,
         Record, Go, Done, Probed, TypeOK
<1>3. CASE ~Advance(a)
  BY <1>3 DEF Stop, SlowStart, WrongStart, GiveUp, Interrupt, Done, TypeOK
<1> QED
  BY <1>1, <1>2, <1>3

LEMMA NextAgents ==
    ASSUME OwnInv, [Next]_vars, ProcOK
    PROVE  \A c \in Agents : AgentOK(c)'
<1> USE DEF OwnInv, ProcOK
<1>1. ASSUME NEW a \in Agents,
             Advance(a) \/ Stop(a) \/ SlowStart(a) \/ WrongStart(a) \/ Interrupt(a)
      PROVE  AgentOK(a)'
  <2>1. CASE Advance(a)
    BY <2>1, AdvanceKept
  <2>2. CASE Stop(a)
    <3>1. /\ agent'[a].lease = lease /\ agent'[a].step = "pin"
          /\ agent'[a].child = agent[a].child
      BY <2>2 DEF Stop, TypeOK, Agent
    <3> QED
      BY <2>2, <3>1 DEF Stop, AgentOK, Mine
  <2>3. CASE SlowStart(a) \/ WrongStart(a) \/ Interrupt(a)
    BY <2>3, DoneKept DEF SlowStart, WrongStart, GiveUp, Interrupt
  <2> QED
    BY <1>1, <2>1, <2>2, <2>3
<1>2. ASSUME NEW a \in Agents,
             Advance(a) \/ Stop(a) \/ SlowStart(a) \/ WrongStart(a) \/ Interrupt(a),
             NEW c \in Agents
      PROVE  AgentOK(c)'
  BY <1>1, <1>2, OneAgentMoves, OthersKept
<1>3. ASSUME agent' = agent, NEW c \in Agents PROVE AgentOK(c)'
  BY <1>3, OthersKept
<1> QED
  BY <1>2, <1>3
     DEF Next, Host, Configure, RemoveOld, Bind, Death, Select, OperatorHost, Unrelated, vars

LEMMA NextLease ==
    ASSUME OwnInv, [Next]_vars, ProcOK
    PROVE  Mine(lease)'
<1> USE DEF OwnInv, ProcOK
<1>1. CASE lease' = lease
  BY <1>1, MineKept DEF TypeOK, Mine
<1>2. ASSUME NEW a \in Agents, Release(a) \/ Abandon(a) PROVE Mine(lease)'
  BY <1>2 DEF Release, Abandon, NoLease, Mine
<1>3. ASSUME NEW a \in Agents, WriteLease(a) PROVE Mine(lease)'
  <2>1. lease'.born \in {0, agent[a].child} /\ proc' = proc
    BY <1>3 DEF WriteLease
  <2> QED
    BY <2>1 DEF AgentOK, Mine
<1>4. ASSUME NEW a \in Agents, Record(a) PROVE Mine(lease)'
  <2>1. lease'.born = agent[a].lease.born /\ proc' = proc
    BY <1>4 DEF Record, TypeOK, Agent, Lease
  <2> QED
    BY <2>1 DEF AgentOK, Mine
<1>5. ASSUME NEW a \in Agents,
             Advance(a) \/ Stop(a) \/ SlowStart(a) \/ WrongStart(a) \/ Interrupt(a)
      PROVE  Mine(lease)'
  BY <1>1, <1>2, <1>3, <1>4, <1>5
     DEF Advance, Ensure, Exists, Connect, Decide, Unlink, Pin, Identify, Verify, Signal,
         Cancelled, Disown, Reclaim, Clear, Spawn, Await, Sweep, Adopt, Stop, SlowStart,
         WrongStart, GiveUp, Interrupt
<1> QED
  BY <1>1, <1>5
     DEF Next, Host, Configure, RemoveOld, Bind, Death, Select, OperatorHost, Unrelated, vars

LEMMA NextOwnInv == OwnInv /\ [Next]_vars => OwnInv'
<1> SUFFICES ASSUME OwnInv, [Next]_vars PROVE OwnInv'
  OBVIOUS
<1>1. ProcOK
  BY NextProcOK
<1>2. ChildKnown
  BY DEF OwnInv, AgentOK, ChildKnown
<1>3. TypeOK'
  BY <1>2, NextTypeOK DEF OwnInv
<1> QED
  BY <1>1, <1>3, NextAgents, NextLease DEF OwnInv, ProcOK

LEMMA InitOwnInv == Init => OwnInv
<1> SUFFICES ASSUME Init PROVE OwnInv
  OBVIOUS
<1>1. TypeOK
  BY InitTypeOK
<1>2. UnbornNotOurs /\ OnePidEach
  BY DEF Init, Unborn, UnbornNotOurs, OnePidEach, Living
<1>3. Mine(lease)
  BY DEF Init, NoLease, Mine
<1>4. \A a \in Agents : AgentOK(a)
  BY DEF Init, NoAgent, NoLease, AgentOK, Mine
<1> QED
  BY <1>1, <1>2, <1>3, <1>4 DEF OwnInv

(* Every reachable state has its type, however many invocations run.        *)
THEOREM ProviderTypeCorrect == Spec => []TypeOK
<1>1. OwnInv => TypeOK
  BY DEF OwnInv
<1> QED
  BY <1>1, InitOwnInv, NextOwnInv, PTL DEF Spec

(* A signal only ever reaches a host the command has started: for any       *)
(* number of invocations at once, whichever step each of them is killed at, *)
(* and whichever process has been given a leased PID since.                 *)
THEOREM ProviderSignalsOnlyOwn == Spec => []SignalsOnlyOwn
<1>1. OwnInv => SignalsOnlyOwn
  BY DEF OwnInv, AgentOK, SignalsOnlyOwn
<1> QED
  BY <1>1, InitOwnInv, NextOwnInv, PTL DEF Spec

-----------------------------------------------------------------------------
(* One invocation at a time.  Its hosts are known by the lease, except      *)
(* between a start and its lease; and it removes the socket file only when  *)
(* nothing can listen at it.                                                *)

HostOfOurs(b) == Living(b) /\ proc[b].ours

(* Where no host of ours is alive, nor does anything listen.                *)
AfterStop == {"cancelled", "disown", "clear", "release", "spawn"}
Vacated == AfterStop \cup {"unlink", "sweep", "abandon"}

LeaseInv(a) ==
    /\ \A b \in Births : Known(b) => proc[b].pid # NoPid
    /\ lease.born # 0 => Known(lease.born) /\ proc[lease.born].pid = lease.pid
    /\ agent[a].step \in {"pin", "identify", "verify", "signal", "cancel", "record"} =>
          agent[a].lease = lease
    /\ agent[a].step \in {"verify", "signal", "cancel"} =>
          (Living(agent[a].peer) => agent[a].peer = lease.born)
    /\ agent[a].step \in {"lease", "await"} => agent[a].child # 0
    /\ agent[a].step = "idle" => agent[a].child = 0
    /\ agent[a].step = "lease" => \A b \in Births : HostOfOurs(b) => b = agent[a].child
    /\ agent[a].step # "lease" => \A b \in Births : HostOfOurs(b) => b = lease.born
    /\ agent[a].child # 0 /\ agent[a].step # "lease" => lease.born \in {0, agent[a].child}
    /\ agent[a].step \in Vacated \cup {"reclaim"} => \A b \in Births : ~HostOfOurs(b)

SocketInv(a) ==
    /\ OperatorStarting => agent[a].step = "idle"
    /\ \A b, c \in Births : Starting(b) /\ Starting(c) => b = c
    /\ (\E b \in Births : Starting(b)) => ~Listening(socket)
    /\ agent[a].step \in Vacated => ~Listening(socket)
    /\ agent[a].child # 0 => (Listening(socket) => socket = agent[a].child)
    /\ agent[a].step = "decide" /\ agent[a].state \in {"absent", "unreachable"} =>
          (Listening(socket) => socket = lease.born)
    /\ agent[a].step \in {"signal", "cancel"} =>
          (Listening(socket) => proc[socket].pid = lease.pid)

AloneInv(a) == OwnInv /\ LeaseInv(a) /\ SocketInv(a)

LEMMA GoFields ==
    ASSUME TypeOK, NEW a \in Agents, NEW step, Go(a, step)
    PROVE  /\ agent'[a].step = step /\ agent'[a].lease = agent[a].lease
           /\ agent'[a].peer = agent[a].peer /\ agent'[a].child = agent[a].child
           /\ agent'[a].state = agent[a].state
  BY DEF Go, TypeOK, Agent

LEMMA DoneFields ==
    ASSUME TypeOK, NEW a \in Agents, Done(a)
    PROVE  agent'[a].step = "idle" /\ agent'[a].child = 0
  BY DEF Done, TypeOK, NoAgent

LEMMA ProbedFields ==
    ASSUME TypeOK, NEW a \in Agents, NEW state, Probed(a, state)
    PROVE  /\ agent'[a].step = IF agent[a].child = 0 THEN "decide"
                               ELSE IF state = "ready" THEN "adopt" ELSE "await"
           /\ agent'[a].child = agent[a].child /\ agent'[a].state = state
  BY DEF Probed, TypeOK, Agent

(* A return to idle keeps what is known.                                    *)
LEMMA IdleKept ==
    ASSUME TypeOK, NEW a \in Agents, LeaseInv(a), SocketInv(a), UNCHANGED <<proc, socket, lease>>,
           agent[a].step # "lease", Done(a)
    PROVE  LeaseInv(a)' /\ SocketInv(a)'
<1>1. agent'[a].step = "idle" /\ agent'[a].child = 0
  BY DoneFields
<1>2. LeaseInv(a)'
  BY <1>1 DEF LeaseInv, HostOfOurs, Living, Known, Vacated, AfterStop
<1>3. SocketInv(a)'
  BY <1>1 DEF SocketInv, OperatorStarting, Starting, Listening, Vacated, AfterStop
<1> QED BY <1>2, <1>3

(* So does a step after which nothing more is claimed.                      *)
LEMMA MoveKept ==
    ASSUME TypeOK, NEW a \in Agents, LeaseInv(a), SocketInv(a), UNCHANGED <<proc, socket, lease>>,
           agent[a].step \notin {"idle", "lease"}, agent'[a].child = agent[a].child,
           agent'[a].step \in {"exists", "connect", "adopt"}
    PROVE  LeaseInv(a)' /\ SocketInv(a)'
<1>1. LeaseInv(a)'
  BY DEF LeaseInv, HostOfOurs, Living, Known, Vacated, AfterStop
<1>2. SocketInv(a)'
  BY DEF SocketInv, OperatorStarting, Starting, Listening, Vacated, AfterStop
<1> QED BY <1>1, <1>2

(* The steps that look and decide, and touch nothing.                       *)
LEMMA LooksKept ==
    ASSUME NEW a \in Agents, AloneInv(a),
           Ensure(a) \/ Exists(a) \/ Connect(a) \/ Await(a) \/ Adopt(a)
              \/ Cancelled(a) \/ Disown(a) \/ Reclaim(a)
    PROVE  LeaseInv(a)' /\ SocketInv(a)'
<1> USE DEF AloneInv, OwnInv
<1>0. UNCHANGED <<proc, socket, lease>>
  BY DEF Ensure, Exists, Connect, Await, Adopt, Cancelled, Disown, Reclaim
<1>1. CASE Ensure(a)
  <2>1. agent'[a].step = "exists" /\ agent'[a].child = agent[a].child
    BY <1>1, GoFields DEF Ensure
  <2>2. LeaseInv(a)'
    BY <1>0, <1>1, <2>1 DEF Ensure, LeaseInv, HostOfOurs, Living, Known, Vacated, AfterStop
  <2>3. SocketInv(a)'
    BY <1>0, <1>1, <2>1
    DEF Ensure, SocketInv, OperatorStarting, Starting, Listening, Vacated, AfterStop
  <2> QED BY <2>2, <2>3
<1>2. CASE Exists(a) \/ Connect(a)
  <2>1. CASE Go(a, "connect")
    BY <1>0, <1>2, <2>1, GoFields, MoveKept DEF Exists, Connect
  <2>2. ASSUME NEW state \in {"absent", "unreachable", "foreign", "stale", "ready", "unverified"},
               Probed(a, state), agent[a].step \in {"exists", "connect"},
               state \in {"absent", "unreachable"} => ~Listening(socket)
        PROVE  LeaseInv(a)' /\ SocketInv(a)'
    <3>1. /\ agent'[a].step = IF agent[a].child = 0 THEN "decide"
                              ELSE IF state = "ready" THEN "adopt" ELSE "await"
          /\ agent'[a].child = agent[a].child /\ agent'[a].state = state
      BY <2>2, ProbedFields
    <3>2. LeaseInv(a)'
      BY <1>0, <2>2, <3>1 DEF LeaseInv, HostOfOurs, Living, Known, Vacated, AfterStop
    <3>3. SocketInv(a)'
      BY <1>0, <2>2, <3>1 DEF SocketInv, OperatorStarting, Starting, Listening, Vacated, AfterStop
    <3> QED BY <3>2, <3>3
  <2>3. CASE Exists(a)
    BY <2>1, <2>2, <2>3 DEF Exists, Listening
  <2>4. CASE Connect(a)
    <3>1. Status \in {"unreachable", "foreign", "stale", "ready"}
          /\ (Status = "unreachable" => ~Listening(socket))
      BY DEF Status
    <3>2. CASE Probed(a, Status)
      <4>1. PICK state : state = Status OBVIOUS
      <4> QED BY <2>2, <2>4, <3>1, <3>2, <4>1 DEF Connect
    <3> QED BY <2>2, <2>4, <3>2 DEF Connect
  <2> QED BY <1>2, <2>3, <2>4
<1>3. CASE Await(a)
  <2>1. CASE Living(agent[a].child)
    BY <1>0, <1>3, <2>1, GoFields, MoveKept DEF Await
  <2>2. CASE ~Living(agent[a].child)
    <3>1. agent'[a].step = "sweep" /\ agent'[a].child = agent[a].child
      BY <1>3, <2>2, GoFields DEF Await
    <3>2. agent[a].step = "await" /\ agent[a].child # 0
      BY <1>3 DEF Await, LeaseInv
    <3>3. \A b \in Births : ~HostOfOurs(b)
      BY <2>2, <3>2, BirthsAreNumbers DEF LeaseInv, HostOfOurs
    <3>4. ~Listening(socket)
      BY <2>2, <3>2 DEF SocketInv, Listening, Living
    <3>5. LeaseInv(a)'
      BY <1>0, <3>1, <3>2, <3>3 DEF LeaseInv, HostOfOurs, Living, Known
    <3>6. SocketInv(a)'
      BY <1>0, <3>1, <3>2, <3>4 DEF SocketInv, OperatorStarting, Starting, Listening
    <3> QED BY <3>5, <3>6
  <2> QED BY <2>1, <2>2
<1>4. CASE Adopt(a)
  <2>1. agent'[a].step = "record" /\ agent'[a].lease = lease /\ agent'[a].child = agent[a].child
    BY <1>4 DEF Adopt, TypeOK, Agent
  <2>2. LeaseInv(a)'
    BY <1>0, <1>4, <2>1 DEF Adopt, LeaseInv, HostOfOurs, Living, Known, Vacated, AfterStop
  <2>3. SocketInv(a)'
    BY <1>0, <1>4, <2>1
    DEF Adopt, SocketInv, OperatorStarting, Starting, Listening, Vacated, AfterStop
  <2> QED BY <2>2, <2>3
<1>5. CASE Cancelled(a) \/ Disown(a)
  <2>1. CASE Done(a)
    BY <1>0, <1>5, <2>1, IdleKept DEF Cancelled, Disown
  <2>2. CASE ~Done(a)
    <3>1. /\ agent[a].step \in {"cancelled", "disown"} /\ agent'[a].step \in {"disown", "release"}
          /\ agent'[a].child = agent[a].child
      BY <1>5, <2>2, GoFields DEF Cancelled, Disown
    <3>2. LeaseInv(a)'
      BY <1>0, <3>1 DEF LeaseInv, HostOfOurs, Living, Known, Vacated, AfterStop
    <3>3. SocketInv(a)'
      BY <1>0, <3>1 DEF SocketInv, OperatorStarting, Starting, Listening, Vacated, AfterStop
    <3> QED BY <3>2, <3>3
  <2> QED BY <2>1, <2>2
<1>6. CASE Reclaim(a)
  <2>1. CASE Listening(socket)
    BY <1>0, <1>6, <2>1, IdleKept DEF Reclaim
  <2>2. CASE ~Listening(socket)
    <3>1. /\ agent[a].step = "reclaim" /\ agent'[a].step = "clear"
          /\ agent'[a].child = agent[a].child
      BY <1>6, <2>2, GoFields DEF Reclaim
    <3>2. LeaseInv(a)'
      BY <1>0, <3>1 DEF LeaseInv, HostOfOurs, Living, Known, Vacated, AfterStop
    <3>3. SocketInv(a)'
      BY <1>0, <2>2, <3>1 DEF SocketInv, OperatorStarting, Starting, Listening, Vacated, AfterStop
    <3> QED BY <3>2, <3>3
  <2> QED BY <2>1, <2>2
<1> QED BY <1>1, <1>2, <1>3, <1>4, <1>5, <1>6

(* From a probe to the signal: what is stopped is what the lease names.     *)
LEMMA StopsKept ==
    ASSUME NEW a \in Agents, AloneInv(a),
           Decide(a) \/ Stop(a) \/ Pin(a) \/ Identify(a) \/ Verify(a)
    PROVE  LeaseInv(a)' /\ SocketInv(a)'
<1> USE DEF AloneInv, OwnInv
<1>0. UNCHANGED <<proc, socket, lease>>
  BY DEF Decide, Stop, Pin, Identify, Verify
<1>1. CASE Done(a)
  BY <1>0, <1>1, IdleKept DEF Decide, Stop, Pin, Identify, Verify
<1>2. CASE Decide(a) \/ Stop(a)
  <2>1. CASE /\ agent'[a].lease = lease /\ agent'[a].step = "pin"
             /\ agent'[a].child = agent[a].child
    <3>1. agent[a].step \in {"decide", "idle"} /\ (agent[a].step = "idle" => ~OperatorStarting)
      BY <1>2 DEF Decide, Stop
    <3>2. LeaseInv(a)'
      BY <1>0, <2>1, <3>1 DEF LeaseInv, HostOfOurs, Living, Known, Vacated, AfterStop
    <3>3. SocketInv(a)'
      BY <1>0, <2>1, <3>1
      DEF SocketInv, OperatorStarting, Starting, Listening, Vacated, AfterStop
    <3> QED BY <3>2, <3>3
  <2>2. CASE agent' = [agent EXCEPT ![a].lease = lease, ![a].step = "pin"]
    BY <2>1, <2>2 DEF TypeOK, Agent
  <2>3. CASE Stop(a)
    <3>1. /\ agent'[a].lease = lease /\ agent'[a].step = "pin"
          /\ agent'[a].child = agent[a].child
      BY <2>3 DEF Stop, TypeOK, Agent
    <3> QED BY <2>1, <3>1
  <2>4. CASE Decide(a) /\ ~Owned(lease) /\ ~Done(a)
    <3>1. /\ agent[a].step = "decide" /\ agent'[a].step \in {"spawn", "unlink"}
          /\ agent'[a].child = agent[a].child
          /\ agent[a].state \in {"absent", "unreachable"}
      BY <2>4, GoFields DEF Decide, Attached, TypeOK, Agent
    <3>2. lease.born = 0
      <4>1. lease.born # 0 => lease.born \in Births
        BY ProviderAssumption DEF TypeOK, Lease, Births
      <4> QED BY <2>4, <4>1 DEF Owned, LeaseInv
    <3>3. \A b \in Births : ~HostOfOurs(b)
      BY <3>1, <3>2, BirthsAreNumbers DEF LeaseInv
    <3>4. ~Listening(socket)
      BY <3>1, <3>2 DEF SocketInv, Listening
    <3>5. LeaseInv(a)'
      BY <1>0, <3>1, <3>3 DEF LeaseInv, HostOfOurs, Living, Known
    <3>6. SocketInv(a)'
      BY <1>0, <3>1, <3>4 DEF SocketInv, OperatorStarting, Starting, Listening
    <3> QED BY <3>5, <3>6
  <2> QED BY <1>1, <1>2, <2>2, <2>3, <2>4 DEF Decide
<1>3. CASE Pin(a)
  <2>1. agent[a].step = "pin" /\ agent[a].lease = lease
    BY <1>3 DEF Pin, LeaseInv
  <2>2. ASSUME NEW b \in Births, agent' = [agent EXCEPT ![a].peer = b, ![a].step = "identify"]
        PROVE  LeaseInv(a)' /\ SocketInv(a)'
    <3>1. /\ agent'[a].lease = lease /\ agent'[a].step = "identify"
          /\ agent'[a].child = agent[a].child
      BY <2>1, <2>2 DEF TypeOK, Agent
    <3>2. LeaseInv(a)'
      BY <1>0, <2>1, <3>1 DEF LeaseInv, HostOfOurs, Living, Known, Vacated, AfterStop
    <3>3. SocketInv(a)'
      BY <1>0, <2>1, <3>1 DEF SocketInv, OperatorStarting, Starting, Listening, Vacated, AfterStop
    <3> QED BY <3>2, <3>3
  <2>3. CASE (\A b \in Births : ~Holds(b, lease.pid)) /\ Go(a, "reclaim")
    <3>1. agent'[a].step = "reclaim" /\ agent'[a].child = agent[a].child
      BY <2>3, GoFields
    <3>2. \A b \in Births : ~HostOfOurs(b)
      BY <2>1, <2>3, BirthsAreNumbers DEF LeaseInv, HostOfOurs, Holds
    <3>3. LeaseInv(a)'
      BY <1>0, <2>1, <3>1, <3>2 DEF LeaseInv, HostOfOurs, Living, Known, Vacated, AfterStop
    <3>4. SocketInv(a)'
      BY <1>0, <2>1, <3>1 DEF SocketInv, OperatorStarting, Starting, Listening, Vacated, AfterStop
    <3> QED BY <3>3, <3>4
  <2> QED BY <1>1, <1>3, <2>1, <2>2, <2>3 DEF Pin
<1>4. CASE Identify(a)
  <2>1. agent[a].step = "identify" /\ agent[a].lease = lease
    BY <1>4 DEF Identify, LeaseInv
  <2>2. CASE ~Done(a)
    <3>1. Holds(lease.born, lease.pid) /\ lease.born # 0
      BY <1>4, <2>1, <2>2 DEF Identify
    <3>2. /\ agent'[a].step = IF lease.instance = 0 /\ socket = 0 THEN "cancel" ELSE "verify"
          /\ agent'[a].lease = agent[a].lease /\ agent'[a].peer = agent[a].peer
          /\ agent'[a].child = agent[a].child
      BY <1>4, <2>1, <2>2, GoFields DEF Identify
    <3>3. /\ lease.born \in Births
          /\ agent[a].peer # 0 => agent[a].peer \in Births
      BY <3>1, ProviderAssumption DEF TypeOK, Agent, Lease, Births
    <3>4. Living(agent[a].peer) => agent[a].peer = lease.born
      BY <2>1, <3>1, <3>3 DEF AgentOK, OnePidEach, Holds, Known
    <3>5. LeaseInv(a)'
      BY <1>0, <2>1, <3>2, <3>4 DEF LeaseInv, HostOfOurs, Living, Known, Vacated, AfterStop
    <3>6. SocketInv(a)'
      BY <1>0, <2>1, <3>2 DEF SocketInv, OperatorStarting, Starting, Listening, Vacated, AfterStop
    <3> QED BY <3>5, <3>6
  <2> QED BY <1>1, <2>2
<1>5. CASE Verify(a)
  <2>1. CASE ~Done(a)
    <3>1. /\ agent[a].step = "verify" /\ agent[a].lease = lease
          /\ Verified(lease) /\ Go(a, "signal")
      BY <1>5, <2>1 DEF Verify, LeaseInv
    <3>2. /\ agent'[a].step = "signal"
          /\ agent'[a].lease = agent[a].lease /\ agent'[a].peer = agent[a].peer
          /\ agent'[a].child = agent[a].child
      BY <3>1, GoFields
    <3>3. LeaseInv(a)'
      BY <1>0, <3>1, <3>2 DEF LeaseInv, HostOfOurs, Living, Known, Vacated, AfterStop
    <3>4. SocketInv(a)'
      BY <1>0, <3>1, <3>2
      DEF SocketInv, OperatorStarting, Starting, Listening, Vacated, AfterStop, Verified
    <3> QED BY <3>3, <3>4
  <2> QED BY <1>1, <2>1
<1> QED BY <1>2, <1>3, <1>4, <1>5

(* The files are removed and written.                                       *)
LEMMA FilesKept ==
    ASSUME NEW a \in Agents, AloneInv(a),
           Unlink(a) \/ Clear(a) \/ Sweep(a) \/ Release(a) \/ Abandon(a)
              \/ WriteLease(a) \/ Record(a)
    PROVE  LeaseInv(a)' /\ SocketInv(a)'
<1> USE DEF AloneInv, OwnInv
<1>0. UNCHANGED proc
  BY DEF Unlink, Clear, Sweep, Release, Abandon, WriteLease, Record
<1>1. CASE Unlink(a) \/ Clear(a) \/ Sweep(a)
  <2>1. /\ agent[a].step \in {"unlink", "clear", "sweep"}
        /\ agent'[a].step \in {"spawn", "release", "abandon"}
        /\ agent'[a].child = agent[a].child
        /\ socket' = 0 /\ lease' = lease
    BY <1>1, GoFields DEF Unlink, Clear, Sweep
  <2>2. LeaseInv(a)'
    BY <1>0, <2>1 DEF LeaseInv, HostOfOurs, Living, Known, Vacated, AfterStop
  <2>3. SocketInv(a)'
    BY <1>0, <2>1 DEF SocketInv, OperatorStarting, Starting, Listening, Vacated, AfterStop
  <2> QED BY <2>2, <2>3
<1>2. CASE Release(a) \/ Abandon(a)
  <2>1. /\ agent[a].step \in {"release", "abandon"}
        /\ agent'[a].step \in {"spawn", "idle"}
        /\ agent'[a].step = "idle" => agent'[a].child = 0
        /\ agent'[a].child \in {0, agent[a].child}
        /\ socket' = socket /\ lease'.born = 0
    BY <1>2, GoFields, DoneFields DEF Release, Abandon, NoLease
  <2>2. LeaseInv(a)'
    BY <1>0, <2>1 DEF LeaseInv, HostOfOurs, Living, Known, Vacated, AfterStop
  <2>3. SocketInv(a)'
    BY <1>0, <2>1 DEF SocketInv, OperatorStarting, Starting, Listening, Vacated, AfterStop
  <2> QED BY <2>2, <2>3
<1>3. CASE WriteLease(a)
  <2>1. /\ agent[a].step = "lease" /\ agent'[a].step = "await"
        /\ agent'[a].child = agent[a].child /\ socket' = socket
    BY <1>3, GoFields DEF WriteLease
  <2> PICK b : b = agent[a].child OBVIOUS
  <2>2. b # 0 /\ b \in Births
    BY <2>1, ProviderAssumption DEF LeaseInv, TypeOK, Agent, Births
  <2>3. lease'.born = (IF Living(b) THEN b ELSE 0) /\ lease'.pid = proc[b].pid
    BY <1>3 DEF WriteLease
  <2>4. LeaseInv(a)'
    BY <1>0, <2>1, <2>2, <2>3 DEF LeaseInv, HostOfOurs, Living, Known, Vacated, AfterStop
  <2>5. SocketInv(a)'
    BY <1>0, <2>1, <2>2 DEF SocketInv, OperatorStarting, Starting, Listening, Vacated, AfterStop
  <2> QED BY <2>4, <2>5
<1>4. CASE Record(a)
  <2>1. /\ agent[a].step = "record" /\ agent'[a].step = "idle" /\ agent'[a].child = 0
        /\ socket' = socket
    BY <1>4, DoneFields DEF Record
  <2>2. lease'.born = lease.born /\ lease'.pid = lease.pid
    BY <1>4, <2>1 DEF Record, LeaseInv, TypeOK, Lease
  <2>3. LeaseInv(a)'
    BY <1>0, <2>1, <2>2 DEF LeaseInv, HostOfOurs, Living, Known, Vacated, AfterStop
  <2>4. SocketInv(a)'
    BY <1>0, <2>1 DEF SocketInv, OperatorStarting, Starting, Listening, Vacated, AfterStop
  <2> QED BY <2>3, <2>4
<1> QED BY <1>1, <1>2, <1>3, <1>4

-----------------------------------------------------------------------------
(* Processes end                                                            *)

LEMMA DieFacts ==
    ASSUME TypeOK, NEW b \in Births, proc[b].stage # "unborn", Die(b)
    PROVE  \A c : (c \in Births \/ c = 0) =>
             /\ Known(c)' <=> Known(c)
             /\ Living(c)' <=> Living(c) /\ c # b
             /\ Listening(c)' <=> Listening(c) /\ c # b
             /\ c # 0 => proc'[c].pid = proc[c].pid /\ proc'[c].ours = proc[c].ours
             /\ Starting(c)' /\ c # 0 => Starting(c)
<1>1. ASSUME NEW c \in Births
      PROVE  /\ proc'[c].ours = proc[c].ours /\ proc'[c].pid = proc[c].pid
             /\ c # b => proc'[c].stage = proc[c].stage
             /\ c = b => proc'[c].stage = "dead"
  BY DEF Die, TypeOK, Process
<1> QED BY <1>1, BirthsAreNumbers DEF Known, Living, Listening, Starting

(* A process that ends takes nothing of what is known with it.              *)
LEMMA DeathKept ==
    ASSUME NEW a \in Agents, AloneInv(a), NEW b \in Births, proc[b].stage # "unborn", Die(b),
           UNCHANGED <<socket, lease>>,
           \/ agent' = agent
           \/ agent[a].step # "lease" /\ agent'[a].step = "idle" /\ agent'[a].child = 0
    PROVE  LeaseInv(a)' /\ SocketInv(a)'
<1> USE DEF AloneInv, OwnInv
<1>1. lease.born \in Births \cup {0} /\ socket \in Births \cup {0}
      /\ agent[a].peer \in Births \cup {0} /\ agent[a].child \in Births \cup {0}
  BY ProviderAssumption DEF TypeOK, Lease, Agent, Births
<1>2. \A c \in Births : HostOfOurs(c)' => HostOfOurs(c)
  BY DieFacts, BirthsAreNumbers DEF HostOfOurs
<1>3. LeaseInv(a)'
  BY <1>1, <1>2, DieFacts, BirthsAreNumbers DEF LeaseInv, Vacated, AfterStop
<1>4. OperatorStarting' => OperatorStarting
  BY DieFacts, BirthsAreNumbers DEF OperatorStarting
<1>5. Listening(socket)' => Listening(socket) /\ proc'[socket].pid = proc[socket].pid
  BY <1>1, DieFacts DEF Listening
<1>6. SocketInv(a)'
  BY <1>1, <1>4, <1>5, DieFacts, BirthsAreNumbers DEF SocketInv, Vacated, AfterStop
<1> QED BY <1>3, <1>6

(* The signal reaches the leased host or none, and it is the host at the    *)
(* socket if there is one.                                                  *)
LEMMA SignalKept ==
    ASSUME NEW a \in Agents, AloneInv(a), Signal(a)
    PROVE  LeaseInv(a)' /\ SocketInv(a)'
<1> USE DEF AloneInv, OwnInv
<1>1. agent[a].step \in {"signal", "cancel"} /\ UNCHANGED <<socket, lease>>
  BY DEF Signal
<1>2. CASE ~Living(agent[a].peer)
  BY <1>1, <1>2, IdleKept DEF Signal
<1>3. CASE Living(agent[a].peer)
  <2> PICK b : b = agent[a].peer OBVIOUS
  <2>1. b \in Births /\ b = lease.born
    BY <1>1, <1>3, ProviderAssumption DEF LeaseInv, Living, TypeOK, Agent, Births
  <2>2. Die(b) /\ proc[b].stage # "unborn"
    BY <1>3 DEF Signal, Living
  <2>3. agent'[a].step \in {"cancelled", "clear"} /\ agent'[a].child = agent[a].child
    BY <1>1, <1>3, GoFields DEF Signal
  <2>4. lease.born \in Births \cup {0} /\ socket \in Births \cup {0}
        /\ agent[a].child \in Births \cup {0}
    BY ProviderAssumption DEF TypeOK, Lease, Agent, Births
  <2>5. \A c \in Births : ~HostOfOurs(c)'
    BY <1>1, <2>1, <2>2, DieFacts, BirthsAreNumbers DEF HostOfOurs, LeaseInv
  <2>6. ~Listening(socket)'
    <3>1. SUFFICES ASSUME Listening(socket), socket # b PROVE FALSE
      BY <1>1, <2>1, <2>2, <2>4, DieFacts DEF Listening
    <3>2. proc[socket].pid = proc[b].pid
      BY <1>1, <2>1, <3>1, BirthsAreNumbers DEF SocketInv, LeaseInv
    <3> QED BY <1>3, <2>1, <2>4, <3>1, <3>2 DEF OnePidEach, Listening, Living
  <2>7. LeaseInv(a)'
    BY <1>1, <2>1, <2>2, <2>3, <2>4, <2>5, DieFacts, BirthsAreNumbers DEF LeaseInv, Vacated
  <2>8. OperatorStarting' => OperatorStarting
    BY <2>1, <2>2, DieFacts, BirthsAreNumbers DEF OperatorStarting
  <2>9. SocketInv(a)'
    BY <1>1, <2>1, <2>2, <2>3, <2>6, <2>8, DieFacts, BirthsAreNumbers DEF SocketInv
  <2> QED BY <2>7, <2>9
<1> QED BY <1>2, <1>3

-----------------------------------------------------------------------------
(* Processes begin                                                          *)

LEMMA ForkFacts ==
    ASSUME TypeOK, NEW stage \in {"starting", "other"}, NEW binding, NEW ours \in BOOLEAN,
           Fork(stage, binding, ours)
    PROVE  \E b \in Births :
             /\ proc[b].stage = "unborn" /\ proc'[b].stage = stage /\ proc'[b].ours = ours
             /\ proc'[b].pid # NoPid
             /\ \A c \in Births : c # b => proc'[c] = proc[c]
<1>1. PICK b \in Births, pid \in Pids :
        /\ proc[b].stage = "unborn"
        /\ proc' = [proc EXCEPT ![b] = [stage |-> stage, pid |-> pid,
                                        binding |-> binding, ours |-> ours]]
  BY DEF Fork
<1>2. proc'[b] = [stage |-> stage, pid |-> pid, binding |-> binding, ours |-> ours]
  BY <1>1 DEF TypeOK
<1>3. \A c \in Births : c # b => proc'[c] = proc[c]
  BY <1>1 DEF TypeOK
<1>4. proc'[b].stage = stage /\ proc'[b].ours = ours /\ proc'[b].pid = pid
  BY <1>2
<1> QED BY <1>1, <1>3, <1>4, ProviderAssumption

(* A host is started where none of ours is alive.                           *)
LEMMA SpawnKept ==
    ASSUME NEW a \in Agents, AloneInv(a), Spawn(a)
    PROVE  LeaseInv(a)' /\ SocketInv(a)'
<1> USE DEF AloneInv, OwnInv
<1>1. agent[a].step = "spawn" /\ UNCHANGED <<socket, lease>>
  BY DEF Spawn
<1>2. PICK child \in Births :
        /\ agent' = [agent EXCEPT ![a].child = child, ![a].step = "lease"]
        /\ proc[child].stage = "unborn"
        /\ proc'[child].stage = "starting" /\ proc'[child].ours = TRUE
  BY SpawnedChild
<1>3. agent'[a].child = child /\ agent'[a].step = "lease"
  BY <1>2 DEF TypeOK, Agent
<1>4. PICK b \in Births :
        /\ proc[b].stage = "unborn" /\ proc'[b].stage = "starting" /\ proc'[b].ours = TRUE
        /\ proc'[b].pid # NoPid
        /\ \A c \in Births : c # b => proc'[c] = proc[c]
  <2>1. Fork("starting", selected, TRUE)
    BY DEF Spawn
  <2> QED BY <2>1, ForkFacts
<1>5. b = child
  BY <1>2, <1>4
<1>6. lease.born \in Births \cup {0} /\ socket \in Births \cup {0}
  BY ProviderAssumption DEF TypeOK, Lease, Births
<1>7. \A c \in Births : ~HostOfOurs(c) /\ ~Starting(c)
  <2>1. \A c \in Births : ~HostOfOurs(c)
    BY <1>1 DEF LeaseInv, Vacated, AfterStop
  <2>2. ~OperatorStarting
    BY <1>1 DEF SocketInv
  <2> QED BY <2>1, <2>2, BirthsAreNumbers DEF HostOfOurs, OperatorStarting, Starting, Living
<1>8. LeaseInv(a)'
  <2>1. \A c \in Births : HostOfOurs(c)' => c = child
    BY <1>4, <1>5, <1>7 DEF HostOfOurs, Living
  <2>2. \A c \in Births : Known(c)' => proc'[c].pid # NoPid
    BY <1>4 DEF LeaseInv, Known
  <2>3. lease.born # 0 => Known(lease.born)' /\ proc'[lease.born].pid = lease.pid
    BY <1>1, <1>4, <1>6 DEF LeaseInv, Known
  <2>4. child # 0
    BY BirthsAreNumbers
  <2>5. agent'[a].step \notin Vacated \cup {"reclaim"}
    BY <1>3 DEF Vacated, AfterStop
  <2> QED BY <1>1, <1>3, <2>1, <2>2, <2>3, <2>4, <2>5 DEF LeaseInv
<1>9. SocketInv(a)'
  <2>1. ~Listening(socket)'
    BY <1>1, <1>4, <1>6 DEF SocketInv, Vacated, AfterStop, Listening
  <2>2. \A c \in Births : Starting(c)' => c = child
    BY <1>4, <1>5, <1>7 DEF Starting
  <2>3. ~OperatorStarting'
    BY <1>2, <2>2 DEF OperatorStarting
  <2> QED BY <1>3, <2>1, <2>2, <2>3 DEF SocketInv
<1> QED BY <1>8, <1>9

(* A process that is none of ours begins.                                   *)
LEMMA OtherBegins ==
    ASSUME NEW a \in Agents, AloneInv(a), UNCHANGED <<socket, lease, agent>>,
           NEW stage \in {"starting", "other"}, NEW binding, Fork(stage, binding, FALSE),
           stage = "starting" =>
              /\ agent[a].step = "idle"
              /\ \A b \in Births : ~Starting(b) /\ ~Listening(b)
    PROVE  LeaseInv(a)' /\ SocketInv(a)'
<1> USE DEF AloneInv, OwnInv
<1>1. PICK b \in Births :
        /\ proc[b].stage = "unborn" /\ proc'[b].stage = stage /\ proc'[b].ours = FALSE
        /\ proc'[b].pid # NoPid
        /\ \A c \in Births : c # b => proc'[c] = proc[c]
  BY ForkFacts
<1>2. lease.born \in Births \cup {0} /\ socket \in Births \cup {0}
      /\ agent[a].peer \in Births \cup {0} /\ agent[a].child \in Births \cup {0}
  BY ProviderAssumption DEF TypeOK, Lease, Agent, Births
<1>3. \A c \in Births : HostOfOurs(c)' => HostOfOurs(c)
  BY <1>1 DEF HostOfOurs, Living
<1>4. \A c \in Births : Known(c)' => proc'[c].pid # NoPid
  BY <1>1 DEF LeaseInv, Known
<1>5. lease.born # 0 => Known(lease.born)' /\ proc'[lease.born].pid = lease.pid
  BY <1>1, <1>2 DEF LeaseInv, Known
<1>6. agent[a].step \in {"verify", "signal", "cancel"} =>
        (Living(agent[a].peer)' => Living(agent[a].peer))
  BY <1>1, <1>2 DEF AgentOK, Known, Living
<1>7. LeaseInv(a)'
  BY <1>3, <1>4, <1>5, <1>6 DEF LeaseInv, Vacated, AfterStop
<1>8. Listening(socket)' => Listening(socket) /\ proc'[socket].pid = proc[socket].pid
  BY <1>1, <1>2 DEF Listening
<1>9. stage = "starting" => ~Listening(socket)'
  BY <1>2, <1>8, BirthsAreNumbers DEF Listening
<1>10. \A c \in Births : Starting(c)' => (c = b /\ stage = "starting") \/ (c # b /\ Starting(c))
  BY <1>1 DEF Starting
<1>11. OperatorStarting' => agent[a].step = "idle"
  <2>1. SUFFICES ASSUME NEW c \in Births, Starting(c)', ~proc'[c].ours
                 PROVE  agent[a].step = "idle"
    BY DEF OperatorStarting
  <2>2. CASE c # b
    <3>1. Starting(c) /\ ~proc[c].ours
      BY <1>1, <1>10, <2>1, <2>2
    <3> QED BY <3>1 DEF OperatorStarting, SocketInv
  <2> QED BY <1>10, <2>1, <2>2
<1>12. \A c, d \in Births : Starting(c)' /\ Starting(d)' => c = d
  BY <1>10 DEF SocketInv
<1>13. (\E c \in Births : Starting(c)') => ~Listening(socket)'
  BY <1>8, <1>9, <1>10 DEF SocketInv
<1>14. SocketInv(a)'
  BY <1>8, <1>11, <1>12, <1>13 DEF SocketInv, Vacated, AfterStop
<1> QED BY <1>7, <1>14

-----------------------------------------------------------------------------
(* Hosts come up                                                            *)

LEMMA StageFacts ==
    ASSUME TypeOK, NEW b \in Births, NEW stage \in {"binding", "removing", "listening", "dead"},
           Starting(b), proc' = [proc EXCEPT ![b].stage = stage]
    PROVE  /\ \A c \in Births :
                /\ c # b => proc'[c].stage = proc[c].stage
                /\ proc'[c].pid = proc[c].pid /\ proc'[c].ours = proc[c].ours
           /\ proc'[b].stage = stage
           /\ \A c \in Births \cup {0} : Known(c)' <=> Known(c)
           /\ \A c \in Births \cup {0} : Living(c)' => Living(c)
           /\ \A c \in Births : HostOfOurs(c)' => HostOfOurs(c)
<1>1. /\ \A c \in Births :
           /\ c # b => proc'[c].stage = proc[c].stage
           /\ proc'[c].pid = proc[c].pid /\ proc'[c].ours = proc[c].ours
      /\ proc'[b].stage = stage
  BY DEF TypeOK, Process
<1>2. \A c \in Births \cup {0} : Known(c)' <=> Known(c)
  BY <1>1 DEF Known, Starting
<1>3. \A c \in Births \cup {0} : Living(c)' => Living(c)
  BY <1>1 DEF Living, Starting
<1> QED BY <1>1, <1>2, <1>3 DEF HostOfOurs

(* A host that starts is ours, known by its lease, or no invocation runs.   *)
LEMMA HostKept ==
    ASSUME NEW a \in Agents, AloneInv(a), NEW b \in Births, Host(b)
    PROVE  LeaseInv(a)' /\ SocketInv(a)'
<1> USE DEF AloneInv, OwnInv
<1>1. Starting(b) /\ UNCHANGED <<lease, agent>>
  BY DEF Host, Configure, RemoveOld, Bind, Starting
<1>2. PICK stage \in {"binding", "removing", "listening", "dead"} :
        /\ proc' = [proc EXCEPT ![b].stage = stage]
        /\ stage = "listening" => socket = 0 /\ socket' = b
        /\ stage # "listening" => socket' \in {0, socket}
  BY DEF Host, Configure, RemoveOld, Bind
<1>3. lease.born \in Births \cup {0} /\ socket \in Births \cup {0}
      /\ agent[a].peer \in Births \cup {0} /\ agent[a].child \in Births \cup {0}
  BY ProviderAssumption DEF TypeOK, Lease, Agent, Births
<1>10. /\ \A c \in Births :
            /\ c # b => proc'[c].stage = proc[c].stage
            /\ proc'[c].pid = proc[c].pid /\ proc'[c].ours = proc[c].ours
       /\ proc'[b].stage = stage
       /\ \A c \in Births \cup {0} : Known(c)' <=> Known(c)
       /\ \A c \in Births \cup {0} : Living(c)' => Living(c)
       /\ \A c \in Births : HostOfOurs(c)' => HostOfOurs(c)
  BY <1>1, <1>2, StageFacts
<1>4. LeaseInv(a)'
  BY <1>1, <1>3, <1>10, BirthsAreNumbers DEF LeaseInv, Vacated, AfterStop
<1>5. agent[a].step # "idle" => HostOfOurs(b)
  BY <1>1, BirthsAreNumbers DEF SocketInv, OperatorStarting, HostOfOurs, Living, Starting
<1>6. \A c \in Births : Starting(c)' => Starting(c) /\ (c = b => stage # "listening")
  BY <1>1, <1>10 DEF Starting
<1>7. OperatorStarting' => OperatorStarting
  BY <1>6, <1>10 DEF OperatorStarting
<1>8. CASE stage # "listening"
  <2>1. Listening(socket)' => socket' = socket /\ Listening(socket)
                              /\ proc'[socket].pid = proc[socket].pid
    BY <1>2, <1>3, <1>8, <1>10 DEF Listening
  <2> QED BY <1>1, <1>4, <1>6, <1>7, <2>1 DEF SocketInv, Vacated, AfterStop
<1>9. CASE stage = "listening"
  <2>1. socket' = b
    BY <1>2, <1>9
  <2>2. \A c \in Births : ~Starting(c)'
    BY <1>1, <1>6, <1>9 DEF SocketInv
  <2>3. ~OperatorStarting'
    BY <2>2 DEF OperatorStarting
  <2>4. agent[a].step \notin Vacated
    BY <1>5 DEF LeaseInv, Vacated, AfterStop
  <2>5. agent[a].child # 0 => b = agent[a].child
    BY <1>5, BirthsAreNumbers DEF LeaseInv
  <2>6. agent[a].step \in {"decide", "signal", "cancel"} => b = lease.born
    BY <1>5 DEF LeaseInv
  <2>7. b = lease.born => proc'[b].pid = lease.pid
    BY <1>10, BirthsAreNumbers DEF LeaseInv
  <2> QED BY <1>1, <1>4, <2>1, <2>2, <2>3, <2>4, <2>5, <2>6, <2>7 DEF SocketInv
<1> QED BY <1>8, <1>9

-----------------------------------------------------------------------------
(* A start that is given up: its process ends with it.                      *)
LEMMA GiveUpKept ==
    ASSUME NEW a \in Agents, AloneInv(a), GiveUp(a)
    PROVE  LeaseInv(a)' /\ SocketInv(a)'
<1>1. agent[a].step = "await" /\ UNCHANGED <<socket, lease>>
  BY DEF GiveUp
<1> PICK b : b = agent[a].child OBVIOUS
<1>2. b \in Births /\ proc[b].stage # "unborn"
  BY <1>1, ProviderAssumption
  DEF AloneInv, OwnInv, LeaseInv, AgentOK, UnbornNotOurs, TypeOK, Agent, Births
<1>3. agent'[a].step = "idle" /\ agent'[a].child = 0
  BY DoneFields DEF GiveUp, AloneInv, OwnInv
<1> QED BY <1>1, <1>2, <1>3, DeathKept DEF GiveUp

(* The one invocation takes a step, or is killed; between the start of a    *)
(* host and its lease it is not.                                            *)
LEMMA InvocationKept ==
    ASSUME NEW a \in Agents, AloneInv(a), "lease" \notin Interruptible,
           Advance(a) \/ Stop(a) \/ SlowStart(a) \/ WrongStart(a) \/ Interrupt(a)
    PROVE  LeaseInv(a)' /\ SocketInv(a)'
<1>1. CASE Advance(a)
  BY <1>1, LooksKept, StopsKept, FilesKept, SignalKept, SpawnKept DEF Advance
<1>2. CASE Stop(a)
  BY <1>2, StopsKept
<1>3. CASE SlowStart(a) \/ WrongStart(a)
  BY <1>3, GiveUpKept DEF SlowStart, WrongStart
<1>4. CASE Interrupt(a)
  BY <1>4, IdleKept DEF Interrupt, AloneInv, OwnInv
<1> QED BY <1>1, <1>2, <1>3, <1>4

LEMMA StillKept ==
    ASSUME NEW a \in Agents, AloneInv(a), UNCHANGED <<proc, socket, lease, agent>>
    PROVE  LeaseInv(a)' /\ SocketInv(a)'
<1>1. LeaseInv(a)'
  BY DEF AloneInv, LeaseInv, HostOfOurs, Living, Known, Vacated, AfterStop
<1>2. SocketInv(a)'
  BY DEF AloneInv, SocketInv, OperatorStarting, Starting, Listening, Vacated, AfterStop
<1> QED BY <1>1, <1>2

LEMMA AloneKept ==
    ASSUME NEW a, Agents = {a}, "lease" \notin Interruptible, AloneInv(a), [Next]_vars
    PROVE  AloneInv(a)'
<1>0. a \in Agents
  OBVIOUS
<1>1. OwnInv'
  BY NextOwnInv DEF AloneInv
<1>2. CASE Advance(a) \/ Stop(a) \/ SlowStart(a) \/ WrongStart(a) \/ Interrupt(a)
  BY <1>0, <1>1, <1>2, InvocationKept DEF AloneInv
<1>3. ASSUME NEW b \in Births, Host(b) PROVE AloneInv(a)'
  BY <1>0, <1>1, <1>3, HostKept DEF AloneInv
<1>4. ASSUME NEW b \in Births, Death(b) PROVE AloneInv(a)'
  <2>1. proc[b].stage # "unborn" /\ Die(b) /\ UNCHANGED <<socket, lease>> /\ agent' = agent
    BY <1>4 DEF Death, Living
  <2> QED BY <1>0, <1>1, <2>1, DeathKept DEF AloneInv
<1>5. ASSUME NEW binding \in Bindings \cup {Foreign}, OperatorHost(binding) PROVE AloneInv(a)'
  <2>1. /\ Fork("starting", binding, FALSE) /\ UNCHANGED <<socket, lease, agent>>
        /\ agent[a].step = "idle" /\ \A b \in Births : ~Starting(b) /\ ~Listening(b)
    BY <1>0, <1>5 DEF OperatorHost
  <2> QED BY <1>0, <1>1, <2>1, OtherBegins DEF AloneInv
<1>6. ASSUME Unrelated PROVE AloneInv(a)'
  <2>1. Fork("other", Foreign, FALSE) /\ UNCHANGED <<socket, lease, agent>>
    BY <1>6 DEF Unrelated
  <2> QED BY <1>0, <1>1, <2>1, OtherBegins DEF AloneInv
<1>7. CASE (\E binding \in Bindings : Select(binding)) \/ UNCHANGED vars
  BY <1>0, <1>1, <1>7, StillKept DEF AloneInv, Select, vars
<1> QED BY <1>2, <1>3, <1>4, <1>5, <1>6, <1>7 DEF Next

LEMMA AloneInit == ASSUME NEW a \in Agents, Init PROVE AloneInv(a)
<1>1. LeaseInv(a)
  BY DEF Init, Unborn, NoAgent, NoLease, LeaseInv, HostOfOurs, Living, Known, Vacated, AfterStop
<1>2. SocketInv(a)
  BY DEF Init, Unborn, NoAgent, SocketInv, OperatorStarting, Starting, Listening, Vacated, AfterStop
<1> QED BY <1>1, <1>2, InitOwnInv DEF AloneInv

LEMMA AtMostOneOfOurs == ASSUME NEW a \in Agents, AloneInv(a) PROVE OneHost
<1> DEFINE hosts == {b \in Births : Living(b) /\ proc[b].ours}
<1>1. PICK h : \A b \in hosts : b = h
  BY DEF AloneInv, LeaseInv, HostOfOurs
<1>2. hosts = {} \/ hosts = {h}
  BY <1>1
<1> HIDE DEF hosts
<1>3. Cardinality(hosts) <= 1
  <2>1. CASE hosts = {}
    BY <2>1, FS_EmptySet
  <2>2. CASE hosts = {h}
    <3>1. Cardinality({h}) = 1
      BY FS_Singleton
    <3> QED BY <2>2, <3>1
  <2> QED BY <1>2, <2>1, <2>2
<1> QED BY <1>3 DEF OneHost, hosts

(* While only one invocation of the command runs at a time, and it is not   *)
(* killed between the start of a host and the writing of its lease, no two  *)
(* of the hosts it has started are alive at once: whatever else it is       *)
(* killed at, whichever processes end and reuse PIDs, and whatever an       *)
(* operator starts meanwhile.  The two hypotheses cannot be dropped: two    *)
(* invocations, or one killed there, do leave two hosts.                    *)
THEOREM ProviderOneHost ==
    ASSUME NEW CONSTANT a, Agents = {a}, "lease" \notin Interruptible
    PROVE  Spec => []OneHost
<1>1. a \in Agents
  OBVIOUS
<1>2. Init => AloneInv(a)
  BY <1>1, AloneInit
<1>3. AloneInv(a) /\ [Next]_vars => AloneInv(a)'
  BY AloneKept
<1>4. AloneInv(a) => OneHost
  BY <1>1, AtMostOneOfOurs
<1> QED BY <1>2, <1>3, <1>4, PTL DEF Spec

LEMMA SocketKept ==
    ASSUME NEW a, Agents = {a}, AloneInv(a), [Next]_vars, NEW b \in Births,
           socket = b, Listening(b)
    PROVE  socket' = b \/ ~Listening(b)'
<1> USE DEF AloneInv, SocketInv
<1>0. socket # 0 /\ a \in Agents
  BY BirthsAreNumbers
<1>1. ASSUME NEW c \in Births, Host(c) PROVE socket' = b
  BY <1>0, <1>1 DEF Host, Configure, RemoveOld, Bind, Starting
<1>2. CASE Advance(a)
  <2>1. agent[a].step \notin {"unlink", "clear", "sweep"}
    BY DEF Vacated, AfterStop
  <2> QED
    BY <1>2, <2>1
    DEF Advance, Ensure, Exists, Connect, Decide, Unlink, Pin, Identify, Verify, Signal,
        Cancelled, Disown, Reclaim, Clear, Release, Spawn, WriteLease, Await, Sweep, Abandon,
        Adopt, Record
<1> QED
  BY <1>1, <1>2
  DEF Next, Stop, SlowStart, WrongStart, GiveUp, Interrupt, Death, Select, OperatorHost,
      Unrelated, vars

(* Under the same two hypotheses no step takes the socket file from a host  *)
(* that listens at it: neither a start, nor a stop, nor the clearing up of  *)
(* a leftover, nor another host that comes up.                              *)
THEOREM ProviderHostsKeepTheirSocket ==
    ASSUME NEW CONSTANT a, Agents = {a}, "lease" \notin Interruptible
    PROVE  Spec => HostsKeepTheirSocket
<1>1. a \in Agents
  OBVIOUS
<1>2. Init => AloneInv(a)
  BY <1>1, AloneInit
<1>3. AloneInv(a) /\ [Next]_vars => AloneInv(a)'
  BY AloneKept
<1>4. AloneInv(a) /\ [Next]_vars =>
        [\A b \in Births : socket = b /\ Listening(b) => socket' = b \/ ~Listening(b)']_vars
  BY SocketKept
<1> QED BY <1>2, <1>3, <1>4, PTL DEF Spec, HostsKeepTheirSocket
=============================================================================
