--------------------------- MODULE BinaryContract ---------------------------
(***************************************************************************)
(* The contract every server binary is held to (check_binary_contract in   *)
(* mcp-common/e2e.rs), the binaries it starts, and the loopback ports they *)
(* meet on.  A contract removes each required variable in turn, occupies   *)
(* the bind address, waits for the server to be healthy, runs the          *)
(* container's own probe against it and against a dead address, and lists  *)
(* the tools.  A binary is what the contract is to find out about: the     *)
(* eight of the repository behave as Conforming does, the others as their  *)
(* build says.  Contracts run side by side, as tests do.                   *)
(***************************************************************************)
CONSTANTS Contracts,   \* calls of check_binary_contract under way
          Ports,       \* the loopback ports the kernel hands out
          Required,    \* BinarySpec::required
          Builds       \* the binaries that may be under contract

(* A build: the variables it starts without, those it refuses to start     *)
(* without but names no variable, what an occupied address makes it do,    *)
(* whether it answers /_healthcheck, what --healthcheck does, and whether  *)
(* it has tools.                                                           *)
AllBuilds == [without : SUBSET Required, misnamed : SUBSET Required,
              occupied : {"named", "unnamed", "silent"}, healthy : BOOLEAN,
              probe : {"asks", "fails", "blind"}, tools : BOOLEAN]

Conforming == [without |-> {}, misnamed |-> {}, occupied |-> "named",
               healthy |-> TRUE, probe |-> "asks", tools |-> TRUE]

(* The kernel has more than one port to hand out: that of a server that was  *)
(* killed may still be held when a dead address is looked for.              *)
ASSUME PortAssumption == \E p, q \in Ports : p # q
ASSUME BuildAssumption == Builds \subseteq AllBuilds

VARIABLES slow,       \* whether a start may outlast STARTUP_TIMEOUT
          build,      \* the binary each contract is about
          pc,         \* the await each contract is at
          todo,       \* required variables still to be removed
          bind,       \* the contract's bind address
          run,        \* the variable removed or the address tried at present
          occupied,   \* the listener of clause 2
          proc,       \* the child processes
          expired,    \* whether STARTUP_TIMEOUT has elapsed on this await
          listed      \* whose tools the contract has listed

vars == <<slow, build, pc, todo, bind, run, occupied, proc, expired, listed>>

(* A contract has one child run to its exit at a time, and one server.     *)
Children == Contracts \X {"run", "server"}
OwnRun(c) == <<c, "run">>
OwnServer(c) == <<c, "server">>

NoChild == [state |-> "none", port |-> {}, missing |-> {}, probing |-> FALSE,
            ok |-> FALSE, names |-> {}]

Alive == {"starting", "configured", "serving", "killed"}

Listening(q) == proc[q].state \in {"serving", "killed"}

(* A port is taken by a server or by a contract's own listener.            *)
Taken(p) == \/ \E q \in Children : Listening(q) /\ proc[q].port = {p}
            \/ \E c \in Contracts : occupied[c] = {p}

FreePorts == {p \in Ports : ~Taken(p)}

(* Who answers on a port: only a server that is up.                        *)
Answering(p) == {q \in Children : proc[q].state = "serving" /\ proc[q].port = {p}}

run_healthcheck(p) == \E q \in Answering(p) : build[q[1]].healthy

Ended == {"passed", "failed"}
InSpawn == {"polling", "asking"}
Awaiting == {"missing_run", "occupied_run", "probe_run", "dead_run"}

Awaited(c) == IF pc[c] \in InSpawn THEN OwnServer(c) ELSE OwnRun(c)

Init ==
  /\ slow \in BOOLEAN
  /\ build \in [Contracts -> Builds]
  /\ pc = [c \in Contracts |-> "idle"]
  /\ todo = [c \in Contracts |-> Required]
  /\ bind = [c \in Contracts |-> {}]
  /\ run = [c \in Contracts |-> {}]
  /\ occupied = [c \in Contracts |-> {}]
  /\ proc = [q \in Children |-> NoChild]
  /\ expired = [c \in Contracts |-> FALSE]
  /\ listed = [c \in Contracts |-> {}]

-----------------------------------------------------------------------------
(* The binary: main, run() and serve().                                    *)

Exit(q, ok, names) ==
  /\ proc' = [proc EXCEPT ![q].state = "exited", ![q].ok = ok, ![q].names = names]
  /\ UNCHANGED <<slow, build, pc, todo, bind, run, occupied, expired, listed>>

Become(q, state) ==
  /\ proc' = [proc EXCEPT ![q].state = state]
  /\ UNCHANGED <<slow, build, pc, todo, bind, run, occupied, expired, listed>>

(* Config::from_env names the variable it misses; main exits non-zero.     *)
Configure(q) ==
  LET missing == proc[q].missing \ build[q[1]].without
  IN  /\ proc[q].state = "starting" /\ ~proc[q].probing
      /\ \/ missing = {} /\ Become(q, "configured")
         \/ missing # {} /\ Exit(q, FALSE, missing \ build[q[1]].misnamed)

Bind(q) ==
  LET behaviour == build[q[1]].occupied
      taken == \E p \in proc[q].port : Taken(p)
  IN  /\ proc[q].state = "configured"
      /\ \/ ~taken /\ Become(q, "serving")
         \/ taken /\ Exit(q, behaviour = "silent",
                          IF behaviour = "named" THEN proc[q].port ELSE {})

(* main with --healthcheck: the probe is the whole run.                    *)
Probe(q) ==
  LET behaviour == build[q[1]].probe
  IN  /\ proc[q].state = "starting" /\ proc[q].probing
      /\ Exit(q, \/ behaviour = "blind"
                 \/ behaviour = "asks" /\ \E p \in proc[q].port : run_healthcheck(p),
              proc[q].port)

(* SIGKILL takes effect, and the kernel closes the listener.               *)
Die(q) == proc[q].state = "killed" /\ Become(q, "gone")

-----------------------------------------------------------------------------
(* The harness.                                                            *)

Child(p, missing, probing) ==
  [state |-> "starting", port |-> {p}, missing |-> missing, probing |-> probing,
   ok |-> FALSE, names |-> {}]

Drop_serverOnly(p, c, role) ==
  [p EXCEPT ![<<c, role>>].state = IF role = "server" /\ @ \in Alive THEN "killed" ELSE @]

(* Dropping a child that has not exited kills it.                          *)
Drop(p, c, role) ==
  [p EXCEPT ![<<c, role>>].state = IF @ \in Alive THEN "killed" ELSE @]

To(c, next) == pc' = [pc EXCEPT ![c] = next] /\ expired' = [expired EXCEPT ![c] = FALSE]

(* A `?` or bail!: everything the contract holds is dropped.               *)
Fails(c) ==
  /\ To(c, "failed")
  /\ proc' = Drop(Drop(proc, c, "run"), c, "server")
  /\ occupied' = [occupied EXCEPT ![c] = {}]
  /\ UNCHANGED <<slow, build, todo, bind, run, listed>>

(* Command::spawn for run_to_exit, at the next await.                      *)
RunToExit(c, child, next) ==
  /\ proc' = [proc EXCEPT ![OwnRun(c)] = child]
  /\ To(c, next)

Exited(q) == proc[q].state = "exited"

(* A test calls check_binary_contract.                                     *)
Call(c) ==
  /\ pc[c] = "idle"
  /\ To(c, "start")
  /\ UNCHANGED <<slow, build, todo, bind, run, occupied, proc, listed>>

(* free_loopback_addr: the port is free now, and released again at once.   *)
free_loopback_addr == FreePorts

PickBind(c) ==
  /\ pc[c] = "start"
  /\ \/ free_loopback_addr = {} /\ Fails(c)
     \/ /\ \E p \in free_loopback_addr : bind' = [bind EXCEPT ![c] = {p}]
        /\ To(c, "missing")
        /\ UNCHANGED <<slow, build, todo, run, occupied, proc, listed>>

(* Clause 1.                                                               *)
RemoveVariable(c) ==
  /\ pc[c] = "missing"
  /\ \E v \in todo[c], p \in bind[c] :
        /\ run' = [run EXCEPT ![c] = {v}]
        /\ RunToExit(c, Child(p, {v}, FALSE), "missing_run")
  /\ UNCHANGED <<slow, build, todo, bind, occupied, listed>>

RefusedWithout(c) == ~proc[OwnRun(c)].ok /\ run[c] \subseteq proc[OwnRun(c)].names

VariableMissed(c) ==
  /\ pc[c] = "missing_run" /\ Exited(OwnRun(c))
  /\ \/ ~RefusedWithout(c) /\ Fails(c)
     \/ /\ RefusedWithout(c)
        /\ todo' = [todo EXCEPT ![c] = @ \ run[c]]
        /\ To(c, "missing")
        /\ UNCHANGED <<slow, build, bind, run, occupied, proc, listed>>

Occupy_released(c) ==
  /\ pc[c] = "missing" /\ todo[c] = {}
  /\ \E p \in FreePorts :
        /\ run' = [run EXCEPT ![c] = {p}]
        /\ RunToExit(c, Child(p, {}, FALSE), "occupied_run")
  /\ UNCHANGED <<slow, build, todo, bind, occupied, listed>>

(* Clause 2.  The listener is held until the binary has exited.            *)
Occupy(c) ==
  /\ pc[c] = "missing" /\ todo[c] = {}
  /\ \/ FreePorts = {} /\ Fails(c)
     \/ /\ \E p \in FreePorts :
              /\ run' = [run EXCEPT ![c] = {p}]
              /\ occupied' = [occupied EXCEPT ![c] = {p}]
              /\ RunToExit(c, Child(p, {}, FALSE), "occupied_run")
        /\ UNCHANGED <<slow, build, todo, bind, listed>>

RefusedOccupied_anyExit(c) == run[c] \subseteq proc[OwnRun(c)].names \/ proc[OwnRun(c)].ok

RefusedOccupied(c) == ~proc[OwnRun(c)].ok /\ run[c] \subseteq proc[OwnRun(c)].names

OccupiedTried(c) ==
  /\ pc[c] = "occupied_run" /\ Exited(OwnRun(c))
  /\ \/ ~RefusedOccupied(c) /\ Fails(c)
     \/ /\ RefusedOccupied(c)
        /\ occupied' = [occupied EXCEPT ![c] = {}]
        /\ To(c, "spawn")
        /\ UNCHANGED <<slow, build, todo, bind, run, proc, listed>>

(* Clauses 3 and 5.  ServerProcess::spawn polls the child, then the        *)
(* address, until one of them has something to say.                        *)
Spawn(c) ==
  /\ pc[c] = "spawn"
  /\ \E p \in bind[c] : proc' = [proc EXCEPT ![OwnServer(c)] = Child(p, {}, FALSE)]
  /\ To(c, "polling")
  /\ UNCHANGED <<slow, build, todo, bind, run, occupied, listed>>

Poll(c) ==
  /\ pc[c] = "polling"
  /\ \/ Exited(OwnServer(c)) /\ Fails(c)
     \/ /\ ~Exited(OwnServer(c))
        /\ pc' = [pc EXCEPT ![c] = "asking"]
        /\ UNCHANGED <<slow, build, todo, bind, run, occupied, proc, expired, listed>>

Ask(c) ==
  LET healthy == \E p \in bind[c] : run_healthcheck(p)
  IN  /\ pc[c] = "asking"
      /\ \/ /\ healthy
            /\ To(c, "probe")
            /\ UNCHANGED <<slow, build, todo, bind, run, occupied, proc, listed>>
         \/ ~healthy /\ expired[c] /\ Fails(c)
         \/ /\ ~healthy /\ ~expired[c]
            /\ pc' = [pc EXCEPT ![c] = "polling"]
            /\ UNCHANGED <<slow, build, todo, bind, run, occupied, proc, expired, listed>>

ProbeHealthy(c) ==
  /\ pc[c] = "probe"
  /\ \E p \in bind[c] : RunToExit(c, Child(p, {}, TRUE), "probe_run")
  /\ UNCHANGED <<slow, build, todo, bind, run, occupied, listed>>

HealthyProbed(c) ==
  /\ pc[c] = "probe_run" /\ Exited(OwnRun(c))
  /\ \/ ~proc[OwnRun(c)].ok /\ Fails(c)
     \/ /\ proc[OwnRun(c)].ok
        /\ To(c, "list")
        /\ UNCHANGED <<slow, build, todo, bind, run, occupied, proc, listed>>

(* tools/list over the socket, then drop(server).                          *)
ListTools(c) ==
  LET answering == UNION {Answering(p) : p \in bind[c]}
  IN  /\ pc[c] = "list"
      /\ \/ /\ ~\E q \in answering : build[q[1]].tools
            /\ Fails(c)
         \/ \E q \in answering :
              /\ build[q[1]].tools
              /\ listed' = [listed EXCEPT ![c] = {q}]
              /\ proc' = Drop(proc, c, "server")
              /\ To(c, "dead")
              /\ UNCHANGED <<slow, build, todo, bind, run, occupied>>

(* Clause 4.                                                               *)
ProbeDead(c) ==
  /\ pc[c] = "dead"
  /\ \/ free_loopback_addr = {} /\ Fails(c)
     \/ /\ \E p \in free_loopback_addr :
              /\ run' = [run EXCEPT ![c] = {p}]
              /\ RunToExit(c, Child(p, {}, TRUE), "dead_run")
        /\ UNCHANGED <<slow, build, todo, bind, occupied, listed>>

DeadProbed(c) ==
  /\ pc[c] = "dead_run" /\ Exited(OwnRun(c))
  /\ \/ proc[OwnRun(c)].ok /\ Fails(c)
     \/ /\ ~proc[OwnRun(c)].ok
        /\ To(c, "passed")
        /\ UNCHANGED <<slow, build, todo, bind, run, occupied, proc, listed>>

(* run_to_exit drops the child when its timeout has elapsed.               *)
GiveUp(c) ==
  /\ pc[c] \in Awaiting /\ expired[c] /\ ~Exited(OwnRun(c))
  /\ Fails(c)

(* STARTUP_TIMEOUT elapses on a child that serves, or on any if slow.      *)
Expire(c) ==
  /\ pc[c] \in Awaiting \cup InSpawn /\ ~expired[c]
  /\ ~Exited(Awaited(c))
  /\ slow \/ proc[Awaited(c)].state = "serving"
  /\ expired' = [expired EXCEPT ![c] = TRUE]
  /\ UNCHANGED <<slow, build, pc, todo, bind, run, occupied, proc, listed>>

-----------------------------------------------------------------------------
BinaryStep(q) == Configure(q) \/ Bind(q) \/ Probe(q) \/ Die(q)

ContractStep(c) ==
  \/ PickBind(c) \/ RemoveVariable(c) \/ VariableMissed(c)
  \/ Occupy(c) \/ OccupiedTried(c)
  \/ Spawn(c) \/ Poll(c) \/ Ask(c)
  \/ ProbeHealthy(c) \/ HealthyProbed(c) \/ ListTools(c)
  \/ ProbeDead(c) \/ DeadProbed(c) \/ GiveUp(c)

Next == \/ \E c \in Contracts : Call(c) \/ ContractStep(c) \/ Expire(c)
        \/ \E q \in Children : BinaryStep(q)

Spec == Init /\ [][Next]_vars

(* The runtime polls every future that can go on, timers fire, processes   *)
(* run and signals are delivered.  No test owes a call.                    *)
Fairness == /\ \A c \in Contracts : WF_vars(ContractStep(c)) /\ WF_vars(Expire(c))
            /\ \A q \in Children : WF_vars(BinaryStep(q))

FairSpec == Spec /\ Fairness

-----------------------------------------------------------------------------
(* No other test runs a contract.                                          *)
Alone(c) == \A d \in Contracts \ {c} : pc[d] = "idle"

(* A binary that passed the contract breaks none of its clauses.  Side by  *)
(* side contracts can be wrong about each other's servers: a port is       *)
(* released before the binary binds it and the health check does not ask   *)
(* who answers.                                                            *)
ContractSound ==
  \A c \in Contracts : pc[c] = "passed" /\ Alone(c) => build[c] = Conforming

(* No contract fails a conforming binary that starts in time: none of its  *)
(* clauses trips over what another left behind (a port still held, a       *)
(* listener not yet closed, a server not yet dead).                        *)
ConformingPasses ==
  \A c \in Contracts :
     build[c] = Conforming /\ ~slow /\ Alone(c) => pc[c] # "failed"

(* Whichever clause a contract leaves by, in the end nothing of it is left *)
(* on the machine: no process, and no port taken.                          *)
NothingLeft == \A c \in Contracts :
  <>[](/\ pc[c] \in Ended \cup {"idle"}
       /\ occupied[c] = {}
       /\ \A q \in {OwnRun(c), OwnServer(c)} : proc[q].state \notin Alive)
=============================================================================
