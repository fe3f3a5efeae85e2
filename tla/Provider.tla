------------------------------ MODULE Provider ------------------------------
(***************************************************************************)
(* The provider command (tools/mnls_provider.py: cmd_ensure, cmd_stop,     *)
(* probe, terminate_owned), several invocations of which may run at once,  *)
(* and the start and end of the hosts it manages                           *)
(* (crates/service-core/src/client.rs: serve_unix).                        *)
(*                                                                         *)
(* A process is known by its birth: a number that, unlike its PID, is      *)
(* never used again.  The lease records both, as a PID and the process's   *)
(* start time and executable bytes.  What a host is bound to (toolchain,   *)
(* roots, build) is one member of Bindings, or Foreign for a host of       *)
(* another workspace.  Every file operation, request to the socket, signal *)
(* and /proc lookup is a step of its own.                                  *)
(*                                                                         *)
(* A status the command cannot verify (time-outs, denied access, unknown   *)
(* build) is the outcome "unverified" of a probe.                          *)
(***************************************************************************)
EXTENDS Integers, FiniteSets

CONSTANTS
    Agents,         \* invocations of the command that may run at once
    Pids, NoPid,
    Bindings, Foreign,
    Interruptible,  \* environment: steps before which an invocation may be killed
    MaxBirths,      \* bound: processes
    MaxMishaps      \* bound: what goes wrong, and stops and new selections

Steps == {"idle", "exists", "connect", "decide", "pin", "identify", "verify", "signal",
          "cancel", "cancelled", "disown", "reclaim", "clear", "release", "unlink",
          "spawn", "lease", "await", "sweep", "abandon", "adopt", "record"}

ASSUME ProviderAssumption ==
    /\ NoPid \notin Pids /\ Foreign \notin Bindings
    /\ Interruptible \subseteq Steps \ {"idle"}
    /\ MaxBirths \in Nat \ {0} /\ MaxMishaps \in Nat

VARIABLES
    proc,       \* per birth: the process
    socket,     \* the socket file: the birth of the host that bound it, 0 if missing
    lease,      \* the lease file
    selected,   \* what a host should be bound to now
    agent,      \* per invocation: where it is, and its local variables
    mishaps     \* how much has gone wrong so far

vars == <<proc, socket, lease, selected, agent, mishaps>>

Births == 1 .. MaxBirths
NoLease == [pid |-> NoPid, born |-> 0, instance |-> 0]
Owned(l) == l.pid # NoPid

NoAgent == [step |-> "idle", stops |-> FALSE, state |-> "absent", lease |-> NoLease,
            peer |-> 0, child |-> 0]

Living(b) == b # 0 /\ proc[b].stage \notin {"unborn", "dead"}
Listening(b) == b # 0 /\ proc[b].stage = "listening"
Holds(b, pid) == Living(b) /\ proc[b].pid = pid

Unborn == [stage |-> "unborn", pid |-> NoPid, binding |-> Foreign, ours |-> FALSE]

Init ==
    /\ proc = [b \in Births |-> Unborn]
    /\ socket = 0
    /\ lease = NoLease
    /\ selected \in Bindings
    /\ agent = [a \in Agents |-> NoAgent]
    /\ mishaps = 0

Go(a, step) == agent' = [agent EXCEPT ![a].step = step]
Done(a) == agent' = [agent EXCEPT ![a] = NoAgent]
Mishap == mishaps < MaxMishaps /\ mishaps' = mishaps + 1

Die(b) == proc' = [proc EXCEPT ![b].stage = "dead"]

(* The next process, with a PID no living process has.                     *)
Fork(stage, binding, ours) ==
    \E b \in Births, pid \in Pids :
        /\ proc[b].stage = "unborn"
        /\ \A c \in Births : c < b => proc[c].stage # "unborn"
        /\ \A c \in Births : ~Holds(c, pid)
        /\ proc' = [proc EXCEPT ![b] = [stage |-> stage, pid |-> pid,
                                        binding |-> binding, ours |-> ours]]

-----------------------------------------------------------------------------
(* A host: serve_unix removes what is at its path and binds.               *)

Configure(b) ==
    /\ proc[b].stage = "starting"
    /\ proc' = [proc EXCEPT ![b].stage = IF socket = 0 THEN "binding" ELSE "removing"]
    /\ UNCHANGED <<socket, lease, selected, agent, mishaps>>

RemoveOld(b) ==
    /\ proc[b].stage = "removing"
    /\ proc' = [proc EXCEPT ![b].stage = IF socket = 0 THEN "dead" ELSE "binding"]
    /\ socket' = 0
    /\ UNCHANGED <<lease, selected, agent, mishaps>>

Bind(b) ==
    /\ proc[b].stage = "binding"
    /\ proc' = [proc EXCEPT ![b].stage = IF socket = 0 THEN "listening" ELSE "dead"]
    /\ socket' = IF socket = 0 THEN b ELSE socket
    /\ UNCHANGED <<lease, selected, agent, mishaps>>

(* An operator starts a host where none runs, and nobody uses the command  *)
(* before that host listens or has ended.                                  *)
Starting(b) == proc[b].stage \in {"starting", "removing", "binding"}
OperatorStarting == \E b \in Births : Starting(b) /\ ~proc[b].ours

OperatorHost(binding) ==
    /\ \A a \in Agents : agent[a].step = "idle"
    /\ \A b \in Births : ~Starting(b) /\ ~Listening(b)
    /\ Mishap /\ Fork("starting", binding, FALSE)
    /\ UNCHANGED <<socket, lease, selected, agent>>

Host(b) == Configure(b) \/ RemoveOld(b) \/ Bind(b)

-----------------------------------------------------------------------------
(* probe, which ensure begins with and repeats while it waits for a host.  *)

Ensure(a) ==
    /\ agent[a].step = "idle"
    /\ ~OperatorStarting
    /\ Go(a, "exists")
    /\ UNCHANGED <<proc, socket, lease, selected, mishaps>>

Probed(a, state) ==
    agent' = [agent EXCEPT ![a].state = state, ![a].peer = socket,
                           ![a].step = IF agent[a].child = 0 THEN "decide"
                                       ELSE IF state = "ready" THEN "adopt" ELSE "await"]

Exists(a) ==
    /\ agent[a].step = "exists"
    /\ IF socket = 0 THEN Probed(a, "absent") ELSE Go(a, "connect")
    /\ UNCHANGED <<proc, socket, lease, selected, mishaps>>

Status ==
    IF ~Listening(socket) THEN "unreachable"
    ELSE IF proc[socket].binding = Foreign THEN "foreign"
    ELSE IF proc[socket].binding # selected THEN "stale"
    ELSE "ready"

Connect(a) ==
    /\ agent[a].step = "connect"
    /\ \/ Probed(a, Status) /\ UNCHANGED mishaps
       \/ Listening(socket) /\ Probed(a, "unverified") /\ Mishap
    /\ UNCHANGED <<proc, socket, lease, selected>>

-----------------------------------------------------------------------------
(* ensure: attached, refused, or on to stop what the lease owns and start. *)

Attached(a) == agent[a].state \in {"ready", "foreign", "unverified"}

(* A lease without a socket is taken for a leftover.                       *)
DecideForgetful(a) ==
    /\ agent[a].step = "decide"
    /\ IF Attached(a) THEN Done(a)
       ELSE IF Owned(lease) /\ agent[a].state # "absent"
       THEN agent' = [agent EXCEPT ![a].lease = lease, ![a].step = "pin"]
       ELSE IF agent[a].state = "stale" THEN Done(a)
       ELSE Go(a, "unlink")
    /\ UNCHANGED <<proc, socket, lease, selected, mishaps>>

Decide(a) ==
    /\ agent[a].step = "decide"
    /\ IF Attached(a) THEN Done(a)
       ELSE IF Owned(lease)
       THEN agent' = [agent EXCEPT ![a].lease = lease, ![a].step = "pin"]
       ELSE IF agent[a].state = "stale" THEN Done(a)
       ELSE IF agent[a].state = "absent" /\ lease # NoLease THEN Go(a, "spawn")
       ELSE Go(a, "unlink")
    /\ UNCHANGED <<proc, socket, lease, selected, mishaps>>

Unlink(a) ==
    /\ agent[a].step = "unlink"
    /\ socket' = 0
    /\ Go(a, "spawn")
    /\ UNCHANGED <<proc, lease, selected, mishaps>>

-----------------------------------------------------------------------------
(* terminate_owned, by ensure and by stop.                                 *)

Stop(a) ==
    /\ agent[a].step = "idle"
    /\ ~OperatorStarting
    /\ Mishap
    /\ Owned(lease)
    /\ agent' = [agent EXCEPT ![a].lease = lease, ![a].stops = TRUE, ![a].step = "pin"]
    /\ UNCHANGED <<proc, socket, lease, selected>>

(* pidfd_open of whatever has the leased PID.  A lease that never learned  *)
(* its process's identity cannot show that the process is gone.            *)
Pin(a) ==
    LET l == agent[a].lease
    IN  /\ agent[a].step = "pin"
        /\ \/ \E b \in Births :
                 /\ Holds(b, l.pid)
                 /\ agent' = [agent EXCEPT ![a].peer = b, ![a].step = "identify"]
           \/ /\ \A b \in Births : ~Holds(b, l.pid)
              /\ IF l.born = 0 THEN Done(a) ELSE Go(a, "reclaim")
        /\ UNCHANGED <<proc, socket, lease, selected, mishaps>>

(* The PID is enough.                                                      *)
IdentifyByPid(a) ==
    LET l == agent[a].lease
    IN  /\ agent[a].step = "identify"
        /\ IF l.instance = 0 /\ socket = 0 THEN Go(a, "cancel") ELSE Go(a, "verify")
        /\ UNCHANGED <<proc, socket, lease, selected, mishaps>>

(* Start time and executable are looked up by PID and compared.            *)
Identify(a) ==
    LET l == agent[a].lease
    IN  /\ agent[a].step = "identify"
        /\ IF ~(l.born # 0 /\ Holds(l.born, l.pid)) THEN Done(a)
           ELSE IF l.instance = 0 /\ socket = 0 THEN Go(a, "cancel")
           ELSE Go(a, "verify")
        /\ UNCHANGED <<proc, socket, lease, selected, mishaps>>

(* The host at the socket must be the leased one.                          *)
Verified(l) ==
    /\ Listening(socket)
    /\ proc[socket].binding # Foreign
    /\ proc[socket].pid = l.pid
    /\ l.instance \in {0, socket}

Verify(a) ==
    /\ agent[a].step = "verify"
    /\ \/ /\ IF Verified(agent[a].lease) THEN Go(a, "signal") ELSE Done(a)
          /\ UNCHANGED mishaps
       \/ Done(a) /\ Mishap
    /\ UNCHANGED <<proc, socket, lease, selected>>

(* The signal reaches the pinned process or none.                          *)
Signal(a) ==
    /\ agent[a].step \in {"signal", "cancel"}
    /\ IF Living(agent[a].peer)
       THEN /\ Die(agent[a].peer)
            /\ Go(a, IF agent[a].step = "cancel" THEN "cancelled" ELSE "clear")
       ELSE Done(a) /\ UNCHANGED proc
    /\ UNCHANGED <<socket, lease, selected, mishaps>>

(* A socket or a lease that appeared since is left alone.                  *)
Cancelled(a) ==
    /\ agent[a].step = "cancelled"
    /\ IF socket = 0 THEN Go(a, "disown") ELSE Done(a)
    /\ UNCHANGED <<proc, socket, lease, selected, mishaps>>

Disown(a) ==
    /\ agent[a].step = "disown"
    /\ IF lease = agent[a].lease THEN Go(a, "release") ELSE Done(a)
    /\ UNCHANGED <<proc, socket, lease, selected, mishaps>>

(* Any file at the socket's path counts as an answer.                      *)
ReclaimTimid(a) ==
    /\ agent[a].step = "reclaim"
    /\ IF socket # 0 THEN Done(a) ELSE Go(a, "clear")
    /\ UNCHANGED <<proc, socket, lease, selected, mishaps>>

(* The leased process is gone, so the socket must be its own.              *)
ReclaimUnasked(a) ==
    /\ agent[a].step = "reclaim"
    /\ Go(a, "clear")
    /\ UNCHANGED <<proc, socket, lease, selected, mishaps>>

(* The leased process is gone, but something answers at the socket.        *)
Reclaim(a) ==
    /\ agent[a].step = "reclaim"
    /\ IF Listening(socket) THEN Done(a) ELSE Go(a, "clear")
    /\ UNCHANGED <<proc, socket, lease, selected, mishaps>>

Clear(a) ==
    /\ agent[a].step = "clear"
    /\ socket' = 0
    /\ Go(a, "release")
    /\ UNCHANGED <<proc, lease, selected, mishaps>>

Release(a) ==
    /\ agent[a].step = "release"
    /\ lease' = NoLease
    /\ IF agent[a].stops THEN Done(a) ELSE Go(a, "spawn")
    /\ UNCHANGED <<proc, socket, selected, mishaps>>

-----------------------------------------------------------------------------
(* ensure: one host is started, leased and waited for.                     *)

Spawn(a) ==
    /\ agent[a].step = "spawn"
    /\ Fork("starting", selected, TRUE)
    /\ agent' = [agent EXCEPT ![a].child = CHOOSE b \in Births : proc'[b] # proc[b],
                              ![a].step = "lease"]
    /\ UNCHANGED <<socket, lease, selected, mishaps>>

(* The identity of a child that has died already cannot be read.           *)
WriteLease(a) ==
    LET b == agent[a].child
    IN  /\ agent[a].step = "lease"
        /\ lease' = [pid |-> proc[b].pid, born |-> IF Living(b) THEN b ELSE 0,
                     instance |-> 0]
        /\ Go(a, "await")
        /\ UNCHANGED <<proc, socket, selected, mishaps>>

Await(a) ==
    /\ agent[a].step = "await"
    /\ Go(a, IF Living(agent[a].child) THEN "exists" ELSE "sweep")
    /\ UNCHANGED <<proc, socket, lease, selected, mishaps>>

(* The start deadline passes: on a host that is slow, or on one that has   *)
(* started and is not what was asked for.                                  *)
GiveUp(a) ==
    /\ agent[a].step = "await"
    /\ Die(agent[a].child)
    /\ Done(a)
    /\ UNCHANGED <<socket, lease, selected>>

SlowStart(a) == Mishap /\ GiveUp(a)
WrongStart(a) ==
    Listening(agent[a].child) /\ Status # "ready" /\ GiveUp(a) /\ UNCHANGED mishaps

(* The host has ended: its socket and its lease are removed.               *)
Sweep(a) ==
    /\ agent[a].step = "sweep"
    /\ socket' = 0
    /\ Go(a, "abandon")
    /\ UNCHANGED <<proc, lease, selected, mishaps>>

Abandon(a) ==
    /\ agent[a].step = "abandon"
    /\ lease' = NoLease
    /\ Done(a)
    /\ UNCHANGED <<proc, socket, selected, mishaps>>

(* Ready: the lease is read again and written with the instance.           *)
Adopt(a) ==
    /\ agent[a].step = "adopt"
    /\ agent' = [agent EXCEPT ![a].lease = lease, ![a].step = "record"]
    /\ UNCHANGED <<proc, socket, lease, selected, mishaps>>

Record(a) ==
    /\ agent[a].step = "record"
    /\ lease' = [agent[a].lease EXCEPT !.instance = agent[a].peer]
    /\ Done(a)
    /\ UNCHANGED <<proc, socket, selected, mishaps>>

-----------------------------------------------------------------------------
(* What else happens: a process ends, an unrelated one takes a free PID    *)
(* (bound: never the last one), another toolchain, build or set of roots   *)
(* is selected, an invocation is killed by whoever waits for it.           *)

Death(b) ==
    /\ Living(b) /\ Mishap /\ Die(b)
    /\ UNCHANGED <<socket, lease, selected, agent>>

Unrelated ==
    /\ Mishap /\ Fork("other", Foreign, FALSE)
    /\ \E pid \in Pids : \A b \in Births : ~Holds(b, pid)'
    /\ UNCHANGED <<socket, lease, selected, agent>>

Select(binding) ==
    /\ binding # selected /\ Mishap
    /\ selected' = binding
    /\ UNCHANGED <<proc, socket, lease, agent>>

Interrupt(a) ==
    /\ agent[a].step \in Interruptible
    /\ Mishap /\ Done(a)
    /\ UNCHANGED <<proc, socket, lease, selected>>

Advance(a) ==
    \/ Ensure(a) \/ Exists(a) \/ Connect(a) \/ Decide(a) \/ Unlink(a)
    \/ Pin(a) \/ Identify(a) \/ Verify(a) \/ Signal(a) \/ Cancelled(a) \/ Disown(a)
    \/ Reclaim(a) \/ Clear(a) \/ Release(a)
    \/ Spawn(a) \/ WriteLease(a) \/ Await(a) \/ Sweep(a) \/ Abandon(a)
    \/ Adopt(a) \/ Record(a)

Next ==
    \/ \E a \in Agents : 
          Advance(a) \/ Stop(a) \/ SlowStart(a) \/ WrongStart(a) \/ Interrupt(a)
    \/ \E b \in Births : Host(b) \/ Death(b)
    \/ \E binding \in Bindings : Select(binding)
    \/ \E binding \in Bindings \cup {Foreign} : OperatorHost(binding)
    \/ Unrelated

Spec == Init /\ [][Next]_vars

(* Callers keep asking for the service, nothing stands still for ever, and *)
(* a wait that leads to nothing meets its deadline.                        *)
FairSpec ==
    /\ Spec
    /\ \A a \in Agents : WF_vars(Advance(a)) /\ SF_vars(WrongStart(a))
    /\ \A b \in Births : WF_vars(Host(b))

-----------------------------------------------------------------------------
Process == [stage : {"unborn", "starting", "removing", "binding", "listening", "other",
                     "dead"},
            pid : Pids \cup {NoPid}, binding : Bindings \cup {Foreign}, ours : BOOLEAN]
Lease == [pid : Pids \cup {NoPid}, born : 0 .. MaxBirths, instance : 0 .. MaxBirths]
Agent == [step : Steps, stops : BOOLEAN,
          state : {"absent", "unreachable", "foreign", "stale", "ready", "unverified"},
          lease : Lease, peer : 0 .. MaxBirths, child : 0 .. MaxBirths]

(* Every variable has its type.                                            *)
TypeOK ==
    /\ proc \in [Births -> Process]
    /\ socket \in 0 .. MaxBirths
    /\ lease \in Lease
    /\ selected \in Bindings
    /\ agent \in [Agents -> Agent]
    /\ mishaps \in 0 .. MaxMishaps

(* "Stop only a provider-owned lease; never foreign": whatever process has *)
(* taken over a leased PID meanwhile, the one a signal is about to reach   *)
(* is a host this command has started.                                     *)
SignalsOnlyOwn ==
    \A a \in Agents :
        agent[a].step \in {"signal", "cancel"} /\ Living(agent[a].peer) =>
            proc[agent[a].peer].ours

(* "Start one resident host": no two of the hosts the command has started  *)
(* are alive at once.                                                      *)
OneHost ==
    Cardinality({b \in Births : Living(b) /\ proc[b].ours}) <= 1

(* No running host loses its address: the socket file it is bound to is    *)
(* removed or replaced only once it has ended, or nobody could ask it, and *)
(* nobody stop it, again.                                                  *)
HostsKeepTheirSocket ==
    [][\A b \in Births : socket = b /\ Listening(b) => socket' = b \/ ~Listening(b)']_vars

(* The command serves what is selected in the end, or refuses for a reason *)
(* that only an operator can settle: a stale or foreign host it does not   *)
(* own, an unrelated process under the PID of its lease, or a lease that   *)
(* never learned its process's identity, which no later call may touch.    *)
Served == Listening(socket) /\ proc[socket].binding = selected
Refuses ==
    \/ Listening(socket) /\ ~proc[socket].ours
    \/ Owned(lease) /\ \E b \in Births : Holds(b, lease.pid) /\ ~proc[b].ours
    \/ Owned(lease) /\ lease.born = 0
EnsureConverges == <>[](Served \/ Refuses)
=============================================================================
