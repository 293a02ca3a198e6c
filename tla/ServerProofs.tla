---------------------------- MODULE ServerProofs ----------------------------
(***************************************************************************)
(* Proofs about the server binaries and the harness that tests them.       *)
(* BinaryContract, for any binary, any required variables and any ports:   *)
(* what a contract on its own has found out at each clause.  Startup, for  *)
(* any settings, any host lists and any target that can be spelled: the    *)
(* hosts answered to and the upstream asked are the ones meant.            *)
(* McpExchange, for any tasks, pages and streams: every request is given   *)
(* its own response.                                                       *)
(***************************************************************************)
EXTENDS BinaryContract, Startup, McpExchange, WellFoundedInduction, TLAPS

States == {"none", "starting", "configured", "serving", "exited", "killed", "gone"}
Values == Ports \cup Required
Processes == [state : States, port : SUBSET Ports, missing : SUBSET Required,
              probing : BOOLEAN, ok : BOOLEAN, names : SUBSET Values]
Points == {"idle", "start", "missing", "missing_run", "occupied_run", "spawn", "polling",
           "asking", "probe", "probe_run", "list", "dead", "dead_run", "passed", "failed"}

\* Every variable has its type.
TypeOK ==
  /\ slow \in BOOLEAN
  /\ build \in [Contracts -> AllBuilds]
  /\ pc \in [Contracts -> Points]
  /\ todo \in [Contracts -> SUBSET Required]
  /\ bind \in [Contracts -> SUBSET Ports]
  /\ run \in [Contracts -> SUBSET Values]
  /\ occupied \in [Contracts -> SUBSET Ports]
  /\ proc \in [Children -> Processes]
  /\ expired \in [Contracts -> BOOLEAN]

\* A contract that was not called holds nothing.
IdleHoldsNothing ==
  \A c \in Contracts : pc[c] = "idle" =>
    /\ proc[OwnRun(c)] = NoChild /\ proc[OwnServer(c)] = NoChild
    /\ occupied[c] = {} /\ todo[c] = Required /\ ~expired[c]

ServerUp == {"probe", "probe_run", "list"}
ServerDropped == {"dead", "dead_run", "passed"}
HasServer == InSpawn \cup ServerUp \cup ServerDropped
Refused == HasServer \cup {"spawn"}

\* Where a contract has its child run, and what that child can be doing.
RunPlaced(c) ==
  LET r == proc[OwnRun(c)] IN
  /\ pc[c] = "start" => r = NoChild /\ todo[c] = Required
  /\ pc[c] \notin Awaiting \cup {"failed"} => r.state \in {"none", "exited"}
  /\ pc[c] = "missing_run" =>
       /\ r.port = bind[c] /\ r.missing = run[c] /\ ~r.probing
       /\ \E v \in todo[c] : run[c] = {v}
  /\ pc[c] = "occupied_run" => r.port = run[c] /\ r.missing = {} /\ ~r.probing
  /\ pc[c] = "probe_run" => r.port = bind[c] /\ r.probing
  /\ pc[c] = "dead_run" => \E p \in Ports : r.port = {p} /\ r.probing

\* Where it has its server, its bind address and its listener.
ServerPlaced(c) ==
  LET s == proc[OwnServer(c)] IN
  /\ pc[c] \notin HasServer \cup {"failed"} => s = NoChild
  /\ pc[c] \notin {"idle", "start", "failed"} => \E p \in Ports : bind[c] = {p}
  /\ pc[c] \in HasServer => s.port = bind[c]
  /\ pc[c] \in InSpawn => /\ s.state \in {"starting", "configured", "serving"}
                          /\ s.missing = {} /\ ~s.probing
  /\ pc[c] \in ServerUp => s.state = "serving"
  /\ pc[c] \in ServerDropped => s.state \in {"killed", "gone"}
  /\ pc[c] # "occupied_run" => occupied[c] = {}
  /\ pc[c] = "occupied_run" => occupied[c] = run[c] /\ \E p \in Ports : run[c] = {p}

\* What the exit of the child run says about the build.
ExitTells(c) ==
  LET r == proc[OwnRun(c)]
      b == build[c] IN
  /\ pc[c] = "missing_run" =>
       /\ r.state \in {"starting", "configured", "serving", "exited"}
       /\ r.state \in {"configured", "serving"} => run[c] \subseteq b.without
       /\ r.state = "exited" => /\ ~r.ok /\ run[c] \cap b.without = {}
                                /\ r.names = run[c] \ b.misnamed
  /\ pc[c] = "occupied_run" =>
       /\ r.state \in {"starting", "configured", "exited"}
       /\ r.state = "exited" => /\ r.ok <=> (b.occupied = "silent")
                                /\ r.names = IF b.occupied = "named" THEN run[c] ELSE {}
  /\ pc[c] = "probe_run" => /\ r.state \in {"starting", "exited"}
                            /\ r.state = "exited" => r.ok <=> (b.probe # "fails")
  /\ pc[c] = "dead_run" => /\ r.state \in {"starting", "exited"}
                           /\ r.state = "exited" => r.ok <=> (b.probe = "blind")

\* What the clauses behind it have shown of the build.
Learned(c) ==
  LET b == build[c] IN
  /\ pc[c] # "failed" => (Required \ todo[c]) \cap (b.without \cup b.misnamed) = {}
  /\ pc[c] \in Refused \cup {"occupied_run"} => todo[c] = {}
  /\ pc[c] \in Refused => b.occupied = "named"
  /\ pc[c] \in ServerUp \cup ServerDropped => b.healthy
  /\ pc[c] \in {"list"} \cup ServerDropped => b.probe # "fails"
  /\ pc[c] \in ServerDropped => b.tools
  /\ pc[c] = "passed" => b.probe = "asks"

\* A conforming binary that starts in time outlasts no timeout but on a server
\* that is up already, and fails no clause.
InTime(c) ==
  build[c] = Conforming /\ ~slow =>
    /\ pc[c] # "failed"
    /\ expired[c] => pc[c] \in InSpawn /\ proc[OwnServer(c)].state = "serving"

AloneInv(c) ==
  RunPlaced(c) /\ ServerPlaced(c) /\ ExitTells(c) /\ Learned(c) /\ InTime(c)

Inv == TypeOK /\ IdleHoldsNothing /\ \A c \in Contracts : Alone(c) => AloneInv(c)

-----------------------------------------------------------------------------
\* What starting, dropping and ending a child do to the table of children.
LEMMA ChildIs ==
  ASSUME NEW p \in Ports, NEW m \in SUBSET Required, NEW b \in BOOLEAN
  PROVE  Child(p, m, b) \in Processes
BY DEF Child, Processes, States

LEMMA DropIs ==
  ASSUME NEW t \in [Children -> Processes], NEW c \in Contracts,
         NEW role \in {"run", "server"}
  PROVE  /\ Drop(t, c, role) \in [Children -> Processes]
         /\ \A q \in Children \ {<<c, role>>} : Drop(t, c, role)[q] = t[q]
         /\ Drop(t, c, role)[<<c, role>>].port = t[<<c, role>>].port
         /\ t[<<c, role>>].state \in Alive => Drop(t, c, role)[<<c, role>>].state = "killed"
<1>. DEFINE q == <<c, role>>
<1>1. q \in Children
  BY DEF Children
<1>2. Drop(t, c, role) = [t EXCEPT ![q] = [t[q] EXCEPT !.state =
        IF t[q].state \in Alive THEN "killed" ELSE t[q].state]]
  BY DEF Drop
<1>3. [t[q] EXCEPT !.state = IF t[q].state \in Alive THEN "killed" ELSE t[q].state]
        \in Processes
  BY <1>1 DEF Processes, States
<1>. QED BY <1>1, <1>2, <1>3 DEF Processes

LEMMA OwnChildren ==
  ASSUME NEW c \in Contracts
  PROVE  OwnRun(c) \in Children /\ OwnServer(c) \in Children /\ OwnRun(c) # OwnServer(c)
BY DEF OwnRun, OwnServer, Children

-----------------------------------------------------------------------------
(* A step touches what belongs to one contract only.                       *)

\* Everything that belongs to a contract but its build.
Untouched(d) ==
  /\ pc'[d] = pc[d] /\ todo'[d] = todo[d] /\ occupied'[d] = occupied[d]
  /\ expired'[d] = expired[d]
  /\ proc'[OwnRun(d)] = proc[OwnRun(d)] /\ proc'[OwnServer(d)] = proc[OwnServer(d)]

LEMMA ToIs ==
  ASSUME TypeOK, NEW c \in Contracts, NEW next \in Points, To(c, next)
  PROVE  /\ pc' \in [Contracts -> Points] /\ pc'[c] = next
         /\ expired' \in [Contracts -> BOOLEAN] /\ ~expired'[c]
         /\ \A d \in Contracts \ {c} : pc'[d] = pc[d] /\ expired'[d] = expired[d]
BY DEF TypeOK, To

\* A clause that fails drops both children and the listener.
LEMMA FailsEffect ==
  ASSUME TypeOK, NEW c \in Contracts, Fails(c)
  PROVE  /\ TypeOK'
         /\ pc'[c] = "failed" /\ occupied'[c] = {} /\ ~expired'[c]
         /\ build' = build /\ slow' = slow
         /\ \A d \in Contracts \ {c} : Untouched(d)
<1>1. /\ pc' \in [Contracts -> Points] /\ pc'[c] = "failed"
      /\ expired' \in [Contracts -> BOOLEAN] /\ ~expired'[c]
      /\ \A d \in Contracts \ {c} : pc'[d] = pc[d] /\ expired'[d] = expired[d]
  BY ToIs DEF Fails, Points
<1>. DEFINE t == Drop(proc, c, "run")
<1>2. /\ t \in [Children -> Processes]
      /\ \A q \in Children \ {<<c, "run">>} : t[q] = proc[q]
  BY DropIs DEF TypeOK
<1>. HIDE DEF t
<1>3. /\ Drop(t, c, "server") \in [Children -> Processes]
      /\ \A q \in Children \ {<<c, "server">>} : Drop(t, c, "server")[q] = t[q]
  BY <1>2, DropIs
<1>4. /\ proc' \in [Children -> Processes]
      /\ \A q \in Children \ {<<c, "run">>, <<c, "server">>} : proc'[q] = proc[q]
  BY <1>2, <1>3 DEF Fails, t
<1>5. /\ occupied' \in [Contracts -> SUBSET Ports] /\ occupied'[c] = {}
      /\ \A d \in Contracts \ {c} : occupied'[d] = occupied[d]
  BY DEF Fails, TypeOK
<1>6. UNCHANGED <<slow, build, todo, bind, run, listed>>
  BY DEF Fails
<1>7. TypeOK'
  BY <1>1, <1>4, <1>5, <1>6 DEF TypeOK
<1>8. ASSUME NEW d \in Contracts \ {c}
      PROVE  Untouched(d)
  BY <1>1, <1>4, <1>5, <1>6 DEF Untouched, OwnRun, OwnServer, Children
<1>. QED BY <1>1, <1>5, <1>6, <1>7, <1>8

\* A child that is started takes the place of the one before.
LEMMA RunEffect ==
  ASSUME TypeOK, NEW c \in Contracts, NEW child \in Processes, NEW next \in Points,
         RunToExit(c, child, next)
  PROVE  /\ pc' \in [Contracts -> Points] /\ pc'[c] = next
         /\ expired' \in [Contracts -> BOOLEAN] /\ ~expired'[c]
         /\ proc' \in [Children -> Processes] /\ proc'[OwnRun(c)] = child
         /\ proc'[OwnServer(c)] = proc[OwnServer(c)]
         /\ \A d \in Contracts \ {c} :
              /\ pc'[d] = pc[d] /\ expired'[d] = expired[d]
              /\ proc'[OwnRun(d)] = proc[OwnRun(d)] /\ proc'[OwnServer(d)] = proc[OwnServer(d)]
<1>1. To(c, next) /\ proc' = [proc EXCEPT ![OwnRun(c)] = child]
  BY DEF RunToExit
<1>2. /\ pc' \in [Contracts -> Points] /\ pc'[c] = next
      /\ expired' \in [Contracts -> BOOLEAN] /\ ~expired'[c]
      /\ \A d \in Contracts \ {c} : pc'[d] = pc[d] /\ expired'[d] = expired[d]
  BY <1>1, ToIs
<1>3. /\ proc' \in [Children -> Processes] /\ proc'[OwnRun(c)] = child
      /\ \A q \in Children \ {OwnRun(c)} : proc'[q] = proc[q]
  BY <1>1, OwnChildren DEF TypeOK
<1>4. \A d \in Contracts : /\ OwnServer(d) \in Children \ {OwnRun(c)}
                           /\ d # c => OwnRun(d) \in Children \ {OwnRun(c)}
  BY DEF OwnRun, OwnServer, Children
<1>. QED BY <1>2, <1>3, <1>4

\* A step of a contract is none of another contract's.
LEMMA ContractFrame ==
  ASSUME TypeOK, NEW c \in Contracts, ContractStep(c)
  PROVE  /\ TypeOK' /\ build' = build /\ slow' = slow
         /\ pc[c] # "idle" /\ pc'[c] # "idle"
         /\ \A d \in Contracts \ {c} : Untouched(d)
<1>. DEFINE Frame == /\ TypeOK' /\ build' = build /\ slow' = slow
                     /\ pc[c] # "idle" /\ pc'[c] # "idle"
                     /\ \A d \in Contracts \ {c} : Untouched(d)
<1>f. ASSUME Fails(c), pc[c] # "idle"
      PROVE  Frame
  BY <1>f, FailsEffect
<1>t. ASSUME NEW next \in Points \ {"idle"}, To(c, next), pc[c] # "idle", TypeOK',
             UNCHANGED <<slow, build, proc>>,
             \A d \in Contracts \ {c} : todo'[d] = todo[d] /\ occupied'[d] = occupied[d]
      PROVE  Frame
  BY <1>t, ToIs DEF Untouched
<1>r. ASSUME NEW p \in Ports, NEW m \in SUBSET Required, NEW b \in BOOLEAN,
             NEW next \in Points \ {"idle"}, RunToExit(c, Child(p, m, b), next),
             pc[c] # "idle", UNCHANGED <<slow, build, todo, bind>>,
             run' \in [Contracts -> SUBSET Values], occupied' \in [Contracts -> SUBSET Ports],
             \A d \in Contracts \ {c} : occupied'[d] = occupied[d]
      PROVE  Frame
  <2>1. Child(p, m, b) \in Processes
    BY ChildIs
  <2>2. /\ pc' \in [Contracts -> Points] /\ pc'[c] = next
        /\ expired' \in [Contracts -> BOOLEAN]
        /\ proc' \in [Children -> Processes]
        /\ \A d \in Contracts \ {c} :
              /\ pc'[d] = pc[d] /\ expired'[d] = expired[d]
              /\ proc'[OwnRun(d)] = proc[OwnRun(d)] /\ proc'[OwnServer(d)] = proc[OwnServer(d)]
    BY <1>r, <2>1, RunEffect
  <2>3. TypeOK'
    BY <1>r, <2>2 DEF TypeOK
  <2>. QED BY <1>r, <2>2, <2>3 DEF Untouched
<1>. SUFFICES Frame
  OBVIOUS
<1>. HIDE DEF Frame
<1>a. \A v \in SUBSET Ports : [run EXCEPT ![c] = v] \in [Contracts -> SUBSET Values]
  BY DEF TypeOK, Values
<1>1. CASE PickBind(c)
  <2>1. CASE Fails(c)
    BY <1>1, <2>1, <1>f DEF PickBind
  <2>2. CASE ~Fails(c)
    <3>1. PICK p \in Ports : bind' = [bind EXCEPT ![c] = {p}]
      BY <1>1, <2>2 DEF PickBind, free_loopback_addr, FreePorts
    <3>2. To(c, "missing") /\ UNCHANGED <<slow, build, todo, run, occupied, proc, listed>>
      BY <1>1, <2>2 DEF PickBind
    <3>3. TypeOK'
      BY <3>1, <3>2, ToIs DEF TypeOK, Points
    <3>. QED BY <1>1, <3>2, <3>3, <1>t DEF PickBind, Points
  <2>. QED BY <2>1, <2>2
<1>2. CASE RemoveVariable(c)
  <2>1. PICK v \in todo[c], p \in bind[c] :
          /\ run' = [run EXCEPT ![c] = {v}]
          /\ RunToExit(c, Child(p, {v}, FALSE), "missing_run")
    BY <1>2 DEF RemoveVariable
  <2>2. v \in Required /\ p \in Ports
    BY <2>1 DEF TypeOK
  <2>3. run' \in [Contracts -> SUBSET Values] /\ {v} \in SUBSET Required
    BY <2>1, <2>2 DEF TypeOK, Values
  <2>. QED BY <1>2, <2>1, <2>2, <2>3, <1>r DEF RemoveVariable, Points, TypeOK
<1>3. CASE VariableMissed(c)
  <2>1. CASE Fails(c)
    BY <1>3, <2>1, <1>f DEF VariableMissed
  <2>2. CASE ~Fails(c)
    <3>1. /\ To(c, "missing") /\ todo' = [todo EXCEPT ![c] = @ \ run[c]]
          /\ UNCHANGED <<slow, build, bind, run, occupied, proc, listed>>
      BY <1>3, <2>2 DEF VariableMissed
    <3>2. TypeOK'
      BY <3>1, ToIs DEF TypeOK, Points
    <3>3. \A d \in Contracts \ {c} : todo'[d] = todo[d]
      BY <3>1 DEF TypeOK
    <3>. QED BY <1>3, <3>1, <3>2, <3>3, <1>t DEF VariableMissed, Points
  <2>. QED BY <2>1, <2>2
<1>4. CASE Occupy(c)
  <2>1. CASE Fails(c)
    BY <1>4, <2>1, <1>f DEF Occupy
  <2>2. CASE ~Fails(c)
    <3>1. PICK p \in Ports : /\ run' = [run EXCEPT ![c] = {p}]
                             /\ occupied' = [occupied EXCEPT ![c] = {p}]
                             /\ RunToExit(c, Child(p, {}, FALSE), "occupied_run")
      BY <1>4, <2>2 DEF Occupy, FreePorts
    <3>2. /\ occupied' \in [Contracts -> SUBSET Ports]
          /\ \A d \in Contracts \ {c} : occupied'[d] = occupied[d]
          /\ run' \in [Contracts -> SUBSET Values]
      BY <3>1, <1>a DEF TypeOK
    <3>3. pc[c] # "idle" /\ UNCHANGED <<slow, build, todo, bind>>
      BY <1>4, <2>2 DEF Occupy
    <3>. QED BY <3>1, <3>2, <3>3, <1>r DEF Points
  <2>. QED BY <2>1, <2>2
<1>5. CASE OccupiedTried(c)
  <2>1. CASE Fails(c)
    BY <1>5, <2>1, <1>f DEF OccupiedTried
  <2>2. CASE ~Fails(c)
    <3>1. /\ To(c, "spawn") /\ occupied' = [occupied EXCEPT ![c] = {}]
          /\ UNCHANGED <<slow, build, todo, bind, run, proc, listed>>
      BY <1>5, <2>2 DEF OccupiedTried
    <3>2. TypeOK'
      BY <3>1, ToIs DEF TypeOK, Points
    <3>3. \A d \in Contracts \ {c} : occupied'[d] = occupied[d]
      BY <3>1 DEF TypeOK
    <3>. QED BY <1>5, <3>1, <3>2, <3>3, <1>t DEF OccupiedTried, Points
  <2>. QED BY <2>1, <2>2
<1>6. CASE Spawn(c)
  <2>1. PICK p \in bind[c] : proc' = [proc EXCEPT ![OwnServer(c)] = Child(p, {}, FALSE)]
    BY <1>6 DEF Spawn
  <2>2. Child(p, {}, FALSE) \in Processes
    BY <2>1, ChildIs DEF TypeOK
  <2>3. /\ proc' \in [Children -> Processes]
        /\ \A q \in Children \ {OwnServer(c)} : proc'[q] = proc[q]
    BY <2>1, <2>2, OwnChildren DEF TypeOK
  <2>4. \A d \in Contracts \ {c} : /\ OwnServer(d) \in Children \ {OwnServer(c)}
                                   /\ OwnRun(d) \in Children \ {OwnServer(c)}
    BY DEF OwnRun, OwnServer, Children
  <2>5. To(c, "polling") /\ UNCHANGED <<slow, build, todo, bind, run, occupied, listed>>
    BY <1>6 DEF Spawn
  <2>6. TypeOK'
    BY <2>3, <2>5, ToIs DEF TypeOK, Points
  <2>7. \A d \in Contracts \ {c} : pc'[d] = pc[d] /\ expired'[d] = expired[d]
    BY <2>5, ToIs DEF Points
  <2>8. pc[c] # "idle" /\ pc'[c] # "idle"
    BY <1>6, <2>5, ToIs DEF Spawn, Points
  <2>. QED BY <2>3, <2>4, <2>5, <2>6, <2>7, <2>8 DEF Untouched, Frame
<1>7. CASE Poll(c)
  <2>1. CASE Fails(c)
    BY <1>7, <2>1, <1>f DEF Poll
  <2>2. CASE ~Fails(c)
    <3>1. /\ pc' = [pc EXCEPT ![c] = "asking"] /\ pc[c] = "polling"
          /\ UNCHANGED <<slow, build, todo, bind, run, occupied, proc, expired, listed>>
      BY <1>7, <2>2 DEF Poll
    <3>2. TypeOK'
      BY <3>1 DEF TypeOK, Points
    <3>. QED BY <3>1, <3>2 DEF Untouched, TypeOK, Frame
  <2>. QED BY <2>1, <2>2
<1>8. CASE Ask(c)
  <2>1. CASE Fails(c)
    BY <1>8, <2>1, <1>f DEF Ask
  <2>2. CASE To(c, "probe") /\ UNCHANGED <<slow, build, todo, bind, run, occupied, proc, listed>>
    <3>1. TypeOK'
      BY <2>2, ToIs DEF TypeOK, Points
    <3>. QED BY <1>8, <2>2, <3>1, <1>t DEF Ask, Points
  <2>3. CASE /\ pc' = [pc EXCEPT ![c] = "polling"]
             /\ UNCHANGED <<slow, build, todo, bind, run, occupied, proc, expired, listed>>
    <3>1. TypeOK'
      BY <2>3 DEF TypeOK, Points
    <3>2. pc[c] # "idle"
      BY <1>8 DEF Ask
    <3>. QED BY <2>3, <3>1, <3>2 DEF Untouched, TypeOK, Frame
  <2>. QED BY <1>8, <2>1, <2>2, <2>3 DEF Ask
<1>9. CASE ProbeHealthy(c)
  <2>1. PICK p \in bind[c] : RunToExit(c, Child(p, {}, TRUE), "probe_run")
    BY <1>9 DEF ProbeHealthy
  <2>2. p \in Ports
    BY <2>1 DEF TypeOK
  <2>. QED BY <1>9, <2>1, <2>2, <1>r DEF ProbeHealthy, Points, TypeOK
<1>10. CASE HealthyProbed(c)
  <2>1. CASE Fails(c)
    BY <1>10, <2>1, <1>f DEF HealthyProbed
  <2>2. CASE ~Fails(c)
    <3>1. To(c, "list") /\ UNCHANGED <<slow, build, todo, bind, run, occupied, proc, listed>>
      BY <1>10, <2>2 DEF HealthyProbed
    <3>2. TypeOK'
      BY <3>1, ToIs DEF TypeOK, Points
    <3>. QED BY <1>10, <3>1, <3>2, <1>t DEF HealthyProbed, Points
  <2>. QED BY <2>1, <2>2
<1>11. CASE ListTools(c)
  <2>1. CASE Fails(c)
    BY <1>11, <2>1, <1>f DEF ListTools
  <2>2. CASE ~Fails(c)
    <3>1. /\ To(c, "dead") /\ proc' = Drop(proc, c, "server") /\ pc[c] = "list"
          /\ UNCHANGED <<slow, build, todo, bind, run, occupied>>
      BY <1>11, <2>2 DEF ListTools
    <3>2. /\ proc' \in [Children -> Processes]
          /\ \A q \in Children \ {<<c, "server">>} : proc'[q] = proc[q]
      BY <3>1, DropIs DEF TypeOK
    <3>3. /\ pc' \in [Contracts -> Points] /\ pc'[c] = "dead"
          /\ expired' \in [Contracts -> BOOLEAN]
          /\ \A d \in Contracts \ {c} : pc'[d] = pc[d] /\ expired'[d] = expired[d]
      BY <3>1, ToIs DEF Points
    <3>4. TypeOK'
      BY <3>1, <3>2, <3>3 DEF TypeOK
    <3>5. \A d \in Contracts \ {c} : Untouched(d)
      BY <3>1, <3>2, <3>3 DEF Untouched, OwnRun, OwnServer, Children
    <3>. QED BY <3>1, <3>3, <3>4, <3>5 DEF Frame
  <2>. QED BY <2>1, <2>2
<1>12. CASE ProbeDead(c)
  <2>1. CASE Fails(c)
    BY <1>12, <2>1, <1>f DEF ProbeDead
  <2>2. CASE ~Fails(c)
    <3>1. PICK p \in Ports : /\ run' = [run EXCEPT ![c] = {p}]
                             /\ RunToExit(c, Child(p, {}, TRUE), "dead_run")
      BY <1>12, <2>2 DEF ProbeDead, free_loopback_addr, FreePorts
    <3>2. run' \in [Contracts -> SUBSET Values]
      BY <3>1, <1>a
    <3>3. pc[c] # "idle" /\ UNCHANGED <<slow, build, todo, bind, occupied>>
      BY <1>12, <2>2 DEF ProbeDead
    <3>. QED BY <3>1, <3>2, <3>3, <1>r DEF Points, TypeOK
  <2>. QED BY <2>1, <2>2
<1>13. CASE DeadProbed(c)
  <2>1. CASE Fails(c)
    BY <1>13, <2>1, <1>f DEF DeadProbed
  <2>2. CASE ~Fails(c)
    <3>1. To(c, "passed") /\ UNCHANGED <<slow, build, todo, bind, run, occupied, proc, listed>>
      BY <1>13, <2>2 DEF DeadProbed
    <3>2. TypeOK'
      BY <3>1, ToIs DEF TypeOK, Points
    <3>. QED BY <1>13, <3>1, <3>2, <1>t DEF DeadProbed, Points
  <2>. QED BY <2>1, <2>2
<1>14. CASE GiveUp(c)
  BY <1>14, <1>f DEF GiveUp, Awaiting
<1>. QED
  BY <1>1, <1>2, <1>3, <1>4, <1>5, <1>6, <1>7, <1>8, <1>9, <1>10, <1>11, <1>12, <1>13, <1>14
     DEF ContractStep

\* A step of a child changes that child only, and it is one that runs.
LEMMA BinaryFrame ==
  ASSUME TypeOK, NEW q \in Children, BinaryStep(q)
  PROVE  /\ TypeOK'
         /\ UNCHANGED <<slow, build, pc, todo, bind, run, occupied, expired, listed>>
         /\ proc[q].state \in Alive
         /\ \A r \in Children \ {q} : proc'[r] = proc[r]
<1>. DEFINE Frame == /\ TypeOK'
                     /\ UNCHANGED <<slow, build, pc, todo, bind, run, occupied, expired, listed>>
                     /\ proc[q].state \in Alive
                     /\ \A r \in Children \ {q} : proc'[r] = proc[r]
<1>b. ASSUME NEW state \in States, proc[q].state \in Alive, Become(q, state)
      PROVE  Frame
  <2>1. proc' = [proc EXCEPT ![q] = [proc[q] EXCEPT !.state = state]]
    BY <1>b DEF Become
  <2>2. [proc[q] EXCEPT !.state = state] \in Processes
    BY DEF TypeOK, Processes
  <2>3. proc' \in [Children -> Processes] /\ \A r \in Children \ {q} : proc'[r] = proc[r]
    BY <2>1, <2>2 DEF TypeOK
  <2>. QED BY <1>b, <2>3 DEF Become, TypeOK
<1>e. ASSUME NEW ok \in BOOLEAN, NEW names \in SUBSET Values, proc[q].state \in Alive, Exit(q, ok, names)
      PROVE  Frame
  <2>. DEFINE new == [[[proc[q] EXCEPT !.state = "exited"] EXCEPT !.ok = ok] EXCEPT !.names = names]
  <2>1. proc' = [proc EXCEPT ![q] = new]
    BY <1>e DEF Exit, TypeOK, Processes
  <2>2. new \in Processes
    BY DEF TypeOK, Processes, States
  <2>. HIDE DEF new
  <2>3. proc' \in [Children -> Processes] /\ \A r \in Children \ {q} : proc'[r] = proc[r]
    BY <2>1, <2>2 DEF TypeOK
  <2>. QED BY <1>e, <2>3 DEF Exit, TypeOK
<1>. SUFFICES Frame
  OBVIOUS
<1>. HIDE DEF Frame
<1>n. proc[q].missing \in SUBSET Values /\ proc[q].port \in SUBSET Values
  BY DEF TypeOK, Processes, Values
<1>1. CASE Configure(q)
  BY <1>1, <1>b, <1>e, <1>n DEF Configure, States, Alive
<1>2. CASE Bind(q)
  <2>1. CASE Become(q, "serving")
    BY <1>2, <2>1, <1>b DEF Bind, States, Alive
  <2>2. CASE ~Become(q, "serving")
    <3>. DEFINE told == IF build[q[1]].occupied = "named" THEN proc[q].port ELSE {}
                good == build[q[1]].occupied = "silent"
    <3>1. Exit(q, good, told) /\ good \in BOOLEAN /\ told \in SUBSET Values
      BY <1>2, <2>2, <1>n DEF Bind
    <3>. HIDE DEF told, good
    <3>. QED BY <1>2, <3>1, <1>e DEF Bind, Alive
  <2>. QED BY <2>1, <2>2
<1>3. CASE Probe(q)
  <2>. DEFINE good == \/ build[q[1]].probe = "blind"
                      \/ build[q[1]].probe = "asks" /\ \E p \in proc[q].port : run_healthcheck(p)
  <2>1. Exit(q, good, proc[q].port) /\ good \in BOOLEAN
    BY <1>3 DEF Probe
  <2>. HIDE DEF good
  <2>. QED BY <1>3, <2>1, <1>e, <1>n DEF Probe, Alive
<1>4. CASE Die(q)
  BY <1>4, <1>b DEF Die, States, Alive
<1>. QED BY <1>1, <1>2, <1>3, <1>4 DEF BinaryStep

-----------------------------------------------------------------------------
(* A contract on its own.                                                  *)

\* Nothing on the machine is another contract's.
LEMMA AloneOwns ==
  ASSUME TypeOK, IdleHoldsNothing, NEW c \in Contracts, Alone(c)
  PROVE  /\ \A q \in Children \ {OwnRun(c), OwnServer(c)} : proc[q] = NoChild
         /\ \A d \in Contracts \ {c} : occupied[d] = {}
<1>1. ASSUME NEW d \in Contracts \ {c}
      PROVE  proc[OwnRun(d)] = NoChild /\ proc[OwnServer(d)] = NoChild /\ occupied[d] = {}
  BY DEF Alone, IdleHoldsNothing
<1>2. ASSUME NEW q \in Children \ {OwnRun(c), OwnServer(c)}
      PROVE  \E d \in Contracts \ {c} : q = OwnRun(d) \/ q = OwnServer(d)
  BY DEF Children, OwnRun, OwnServer
<1>. QED BY <1>1, <1>2

\* So only its own children and its own listener hold a port or answer on one.
LEMMA AloneTaken ==
  ASSUME TypeOK, IdleHoldsNothing, NEW c \in Contracts, Alone(c), NEW p
  PROVE  /\ Taken(p) <=> \/ Listening(OwnRun(c)) /\ proc[OwnRun(c)].port = {p}
                         \/ Listening(OwnServer(c)) /\ proc[OwnServer(c)].port = {p}
                         \/ occupied[c] = {p}
         /\ \A q \in Answering(p) : /\ q = OwnRun(c) \/ q = OwnServer(c)
                                    /\ proc[q].state = "serving" /\ proc[q].port = {p}
         /\ run_healthcheck(p) <=>
              /\ build[c].healthy
              /\ \/ proc[OwnRun(c)].state = "serving" /\ proc[OwnRun(c)].port = {p}
                 \/ proc[OwnServer(c)].state = "serving" /\ proc[OwnServer(c)].port = {p}
<1>1. \A q \in Children \ {OwnRun(c), OwnServer(c)} : proc[q].state = "none"
  BY AloneOwns DEF NoChild
<1>2. \A q \in Children : Listening(q) => q \in {OwnRun(c), OwnServer(c)}
  BY <1>1 DEF Listening
<1>3. \A d \in Contracts : occupied[d] = {p} => d = c
  BY AloneOwns
<1>4. Taken(p) <=> \/ Listening(OwnRun(c)) /\ proc[OwnRun(c)].port = {p}
                   \/ Listening(OwnServer(c)) /\ proc[OwnServer(c)].port = {p}
                   \/ occupied[c] = {p}
  BY <1>2, <1>3, OwnChildren DEF Taken
<1>5. \A q \in Answering(p) : /\ q = OwnRun(c) \/ q = OwnServer(c)
                              /\ proc[q].state = "serving" /\ proc[q].port = {p}
  BY <1>2 DEF Answering, Listening
<1>6. OwnRun(c)[1] = c /\ OwnServer(c)[1] = c
  BY DEF OwnRun, OwnServer
<1>7. run_healthcheck(p) <=>
         /\ build[c].healthy
         /\ \/ proc[OwnRun(c)].state = "serving" /\ proc[OwnRun(c)].port = {p}
            \/ proc[OwnServer(c)].state = "serving" /\ proc[OwnServer(c)].port = {p}
  BY <1>5, <1>6, OwnChildren DEF run_healthcheck, Answering
<1>. QED BY <1>4, <1>5, <1>7

\* A contract that runs no child leaves a port for its next clause.
LEMMA PortIsFree ==
  ASSUME TypeOK, IdleHoldsNothing, NEW c \in Contracts, Alone(c),
         AloneInv(c), pc[c] \in {"start", "missing", "dead"}
  PROVE  FreePorts # {}
<1>1. ~Listening(OwnRun(c)) /\ occupied[c] = {}
  BY DEF AloneInv, RunPlaced, ServerPlaced, Listening, Awaiting, NoChild
<1>2. Listening(OwnServer(c)) => proc[OwnServer(c)].port = bind[c] /\ \E p \in Ports : bind[c] = {p}
  BY DEF AloneInv, ServerPlaced, Listening, NoChild, HasServer, ServerDropped, ServerUp, InSpawn
<1>3. \E p \in Ports : ~(Listening(OwnServer(c)) /\ proc[OwnServer(c)].port = {p})
  BY <1>2, PortAssumption
<1>. QED BY <1>1, <1>3, AloneTaken DEF FreePorts

LEMMA ContractAlone ==
  ASSUME Inv, NEW c \in Contracts, Alone(c), ContractStep(c)
  PROVE  AloneInv(c)'
<1>. USE DEF AloneInv, RunPlaced, ServerPlaced, ExitTells, Learned, InTime
<1>. USE DEF Awaiting, InSpawn, ServerUp, ServerDropped, HasServer, Refused
<1>0. TypeOK /\ IdleHoldsNothing /\ AloneInv(c) /\ TypeOK'
  BY ContractFrame DEF Inv
<1>s. build' = build /\ slow' = slow
  BY <1>0, ContractFrame
<1>f. ASSUME Fails(c), build[c] = Conforming => slow
      PROVE  AloneInv(c)'
  BY <1>0, <1>f, FailsEffect
<1>1. CASE PickBind(c)
  <2>1. PICK p \in Ports : bind' = [bind EXCEPT ![c] = {p}]
    BY <1>0, <1>1, PortIsFree DEF PickBind, free_loopback_addr, FreePorts
  <2>2. To(c, "missing") /\ UNCHANGED <<slow, build, todo, run, occupied, proc, listed>>
    BY <1>0, <1>1, PortIsFree DEF PickBind, free_loopback_addr
  <2>3. bind'[c] = {p} /\ pc'[c] = "missing" /\ ~expired'[c]
    BY <1>0, <2>1, <2>2, ToIs DEF Points, TypeOK
  <2>. QED BY <1>0, <1>1, <2>2, <2>3 DEF PickBind, NoChild
<1>2. CASE RemoveVariable(c)
  <2>1. PICK v \in todo[c], p \in bind[c] :
          /\ run' = [run EXCEPT ![c] = {v}]
          /\ RunToExit(c, Child(p, {v}, FALSE), "missing_run")
    BY <1>2 DEF RemoveVariable
  <2>2. v \in Required /\ p \in Ports /\ bind[c] = {p} /\ run'[c] = {v} /\ pc[c] = "missing"
    BY <1>0, <1>2, <2>1 DEF TypeOK, RemoveVariable
  <2>3. Child(p, {v}, FALSE) \in Processes
    BY <2>2, ChildIs
  <2>4. /\ pc'[c] = "missing_run" /\ ~expired'[c]
        /\ proc'[OwnRun(c)] = Child(p, {v}, FALSE)
        /\ proc'[OwnServer(c)] = proc[OwnServer(c)]
    BY <1>0, <2>1, <2>3, RunEffect DEF Points
  <2>5. UNCHANGED <<slow, build, todo, bind, occupied, listed>>
    BY <1>2 DEF RemoveVariable
  <2>. QED BY <1>0, <2>1, <2>2, <2>4, <2>5 DEF Child
<1>3. CASE VariableMissed(c)
  <2>1. CASE ~RefusedWithout(c) /\ Fails(c)
    BY <1>0, <1>3, <2>1, <1>f DEF VariableMissed, Exited, RefusedWithout, Conforming
  <2>2. CASE RefusedWithout(c)
    <3>1. /\ To(c, "missing") /\ todo' = [todo EXCEPT ![c] = @ \ run[c]]
          /\ UNCHANGED <<slow, build, bind, run, occupied, proc, listed>>
      BY <1>3, <2>2 DEF VariableMissed
    <3>2. todo'[c] = todo[c] \ run[c] /\ pc'[c] = "missing" /\ ~expired'[c]
      BY <1>0, <3>1, ToIs DEF Points, TypeOK
    <3>3. run[c] \cap (build[c].without \cup build[c].misnamed) = {}
      BY <1>0, <1>3, <2>2 DEF VariableMissed, Exited, RefusedWithout
    <3>. QED BY <1>0, <1>3, <3>1, <3>2, <3>3 DEF VariableMissed, Exited
  <2>. QED BY <1>3, <2>1, <2>2 DEF VariableMissed
<1>4. CASE Occupy(c)
  <2>1. PICK p \in Ports : /\ run' = [run EXCEPT ![c] = {p}]
                           /\ occupied' = [occupied EXCEPT ![c] = {p}]
                           /\ RunToExit(c, Child(p, {}, FALSE), "occupied_run")
    BY <1>0, <1>4, PortIsFree DEF Occupy, FreePorts
  <2>2. /\ pc[c] = "missing" /\ todo[c] = {} /\ UNCHANGED <<slow, build, todo, bind, listed>>
    BY <1>0, <1>4, PortIsFree DEF Occupy
  <2>3. run'[c] = {p} /\ occupied'[c] = {p}
    BY <1>0, <2>1 DEF TypeOK
  <2>4. /\ pc'[c] = "occupied_run" /\ ~expired'[c]
        /\ proc'[OwnRun(c)] = Child(p, {}, FALSE)
        /\ proc'[OwnServer(c)] = proc[OwnServer(c)]
    BY <1>0, <2>1, ChildIs, RunEffect DEF Points
  <2>. QED BY <1>0, <2>2, <2>3, <2>4 DEF Child
<1>5. CASE OccupiedTried(c)
  <2>1. CASE ~RefusedOccupied(c) /\ Fails(c)
    BY <1>0, <1>5, <2>1, <1>f DEF OccupiedTried, Exited, RefusedOccupied, Conforming
  <2>2. CASE RefusedOccupied(c)
    <3>1. /\ To(c, "spawn") /\ occupied' = [occupied EXCEPT ![c] = {}]
          /\ UNCHANGED <<slow, build, todo, bind, run, proc, listed>>
      BY <1>5, <2>2 DEF OccupiedTried
    <3>2. pc'[c] = "spawn" /\ ~expired'[c] /\ occupied'[c] = {}
      BY <1>0, <3>1, ToIs DEF Points, TypeOK
    <3>3. build[c].occupied = "named"
      BY <1>0, <1>5, <2>2 DEF OccupiedTried, Exited, RefusedOccupied
    <3>. QED BY <1>0, <1>5, <3>1, <3>2, <3>3 DEF OccupiedTried, Exited
  <2>. QED BY <1>5, <2>1, <2>2 DEF OccupiedTried
<1>6. CASE Spawn(c)
  <2>1. PICK p \in bind[c] : proc' = [proc EXCEPT ![OwnServer(c)] = Child(p, {}, FALSE)]
    BY <1>6 DEF Spawn
  <2>2. /\ proc'[OwnServer(c)] = Child(p, {}, FALSE)
        /\ proc'[OwnRun(c)] = proc[OwnRun(c)]
    BY <1>0, <2>1, OwnChildren DEF TypeOK
  <2>3. bind[c] = {p}
    BY <1>0, <1>6, <2>1 DEF Spawn
  <2>4. /\ pc'[c] = "polling" /\ ~expired'[c] /\ pc[c] = "spawn"
        /\ UNCHANGED <<slow, build, todo, bind, run, occupied, listed>>
    BY <1>0, <1>6, ToIs DEF Spawn, Points
  <2>5. /\ proc'[OwnServer(c)].state = "starting" /\ proc'[OwnServer(c)].port = bind[c]
        /\ proc'[OwnServer(c)].missing = {} /\ ~proc'[OwnServer(c)].probing
    BY <2>2, <2>3 DEF Child
  <2>. QED BY <1>0, <2>2, <2>3, <2>4, <2>5
<1>7. CASE Poll(c)
  <2>1. /\ pc' = [pc EXCEPT ![c] = "asking"] /\ pc[c] = "polling"
        /\ UNCHANGED <<slow, build, todo, bind, run, occupied, proc, expired, listed>>
    BY <1>0, <1>7 DEF Poll, Exited
  <2>2. pc'[c] = "asking"
    BY <1>0, <2>1 DEF TypeOK
  <2>. QED BY <1>0, <2>1, <2>2
<1>8. CASE Ask(c)
  <2>. DEFINE up == build[c].healthy /\ proc[OwnServer(c)].state = "serving"
              healthy == \E p \in bind[c] : run_healthcheck(p)
  <2>1. pc[c] = "asking"
    BY <1>8 DEF Ask
  <2>2. PICK p \in Ports : bind[c] = {p}
    BY <1>0, <2>1
  <2>3. run_healthcheck(p) <=> up
    BY <1>0, <2>1, <2>2, AloneTaken
  <2>4. healthy <=> up
    BY <2>2, <2>3
  <2>5. CASE /\ healthy /\ To(c, "probe")
             /\ UNCHANGED <<slow, build, todo, bind, run, occupied, proc, listed>>
    <3>1. pc'[c] = "probe" /\ ~expired'[c]
      BY <1>0, <2>5, ToIs DEF Points
    <3>. QED BY <1>0, <2>1, <2>4, <2>5, <3>1
  <2>6. CASE ~healthy /\ expired[c] /\ Fails(c)
    BY <1>0, <2>1, <2>4, <2>6, <1>f DEF Conforming
  <2>7. CASE /\ pc' = [pc EXCEPT ![c] = "polling"]
             /\ UNCHANGED <<slow, build, todo, bind, run, occupied, proc, expired, listed>>
    <3>1. pc'[c] = "polling"
      BY <1>0, <2>7 DEF TypeOK
    <3>. QED BY <1>0, <2>1, <2>7, <3>1
  <2>. QED BY <1>8, <2>5, <2>6, <2>7 DEF Ask
<1>9. CASE ProbeHealthy(c)
  <2>1. PICK p \in bind[c] : RunToExit(c, Child(p, {}, TRUE), "probe_run")
    BY <1>9 DEF ProbeHealthy
  <2>2. p \in Ports /\ bind[c] = {p} /\ pc[c] = "probe"
    BY <1>0, <1>9, <2>1 DEF TypeOK, ProbeHealthy
  <2>3. /\ pc'[c] = "probe_run" /\ ~expired'[c]
        /\ proc'[OwnRun(c)] = Child(p, {}, TRUE)
        /\ proc'[OwnServer(c)] = proc[OwnServer(c)]
    <3>1. Child(p, {}, TRUE) \in Processes
      BY <2>2, ChildIs
    <3>. QED BY <1>0, <2>1, <3>1, RunEffect DEF Points
  <2>4. UNCHANGED <<slow, build, todo, bind, run, occupied, listed>>
    BY <1>9 DEF ProbeHealthy
  <2>5. /\ proc'[OwnRun(c)].state = "starting" /\ proc'[OwnRun(c)].port = bind[c]
        /\ proc'[OwnRun(c)].probing
    BY <2>2, <2>3 DEF Child
  <2>. QED BY <1>0, <2>2, <2>3, <2>4, <2>5
<1>10. CASE HealthyProbed(c)
  <2>1. CASE ~proc[OwnRun(c)].ok /\ Fails(c)
    BY <1>0, <1>10, <2>1, <1>f DEF HealthyProbed, Exited, Conforming
  <2>2. CASE proc[OwnRun(c)].ok
    <3>1. To(c, "list") /\ UNCHANGED <<slow, build, todo, bind, run, occupied, proc, listed>>
      BY <1>10, <2>2 DEF HealthyProbed
    <3>2. pc'[c] = "list" /\ ~expired'[c]
      BY <1>0, <3>1, ToIs DEF Points
    <3>. QED BY <1>0, <1>10, <2>2, <3>1, <3>2 DEF HealthyProbed, Exited
  <2>. QED BY <1>10, <2>1, <2>2 DEF HealthyProbed
<1>11. CASE ListTools(c)
  <2>. DEFINE answering == UNION {Answering(p) : p \in bind[c]}
  <2>1. pc[c] = "list"
    BY <1>11 DEF ListTools
  <2>2. PICK p \in Ports : bind[c] = {p}
    BY <1>0, <2>1
  <2>3. /\ answering = {OwnServer(c)} /\ OwnServer(c)[1] = c
        /\ proc[OwnServer(c)].state = "serving" /\ proc[OwnServer(c)].port = bind[c]
    <3>1. proc[OwnServer(c)].state = "serving" /\ proc[OwnServer(c)].port = bind[c]
      BY <1>0, <2>1
    <3>2. OwnServer(c) \in Answering(p)
      BY <2>2, <3>1, OwnChildren DEF Answering
    <3>3. \A q \in Answering(p) : q = OwnServer(c)
      BY <1>0, <2>1, AloneTaken
    <3>. QED BY <2>2, <3>1, <3>2, <3>3 DEF OwnServer
  <2>4. CASE build[c].tools
    <3>1. /\ To(c, "dead") /\ proc' = Drop(proc, c, "server")
          /\ UNCHANGED <<slow, build, todo, bind, run, occupied>>
      BY <1>11, <2>3, <2>4 DEF ListTools
    <3>2. pc'[c] = "dead" /\ ~expired'[c]
      BY <1>0, <3>1, ToIs DEF Points
    <3>3. /\ proc'[OwnServer(c)].state = "killed" /\ proc'[OwnServer(c)].port = bind[c]
          /\ proc'[OwnRun(c)] = proc[OwnRun(c)]
      <4>1. OwnServer(c) = <<c, "server">> /\ OwnRun(c) \in Children \ {<<c, "server">>}
        BY DEF OwnServer, OwnRun, Children
      <4>2. proc \in [Children -> Processes] /\ proc[<<c, "server">>].state \in Alive
        BY <1>0, <2>3, <4>1 DEF TypeOK, Alive
      <4>3. /\ \A q \in Children \ {<<c, "server">>} : proc'[q] = proc[q]
            /\ proc'[<<c, "server">>].port = proc[<<c, "server">>].port
            /\ proc'[<<c, "server">>].state = "killed"
        BY <3>1, <4>2, DropIs
      <4>. QED BY <2>3, <4>1, <4>3
    <3>. QED BY <1>0, <2>1, <2>4, <3>1, <3>2, <3>3
  <2>5. CASE ~build[c].tools
    <3>1. Fails(c)
      BY <1>11, <2>3, <2>5 DEF ListTools
    <3>. QED BY <2>5, <3>1, <1>f DEF Conforming
  <2>. QED BY <2>4, <2>5
<1>12. CASE ProbeDead(c)
  <2>1. PICK p \in Ports : /\ run' = [run EXCEPT ![c] = {p}]
                           /\ RunToExit(c, Child(p, {}, TRUE), "dead_run")
    BY <1>0, <1>12, PortIsFree DEF ProbeDead, free_loopback_addr, FreePorts
  <2>2. pc[c] = "dead" /\ UNCHANGED <<slow, build, todo, bind, occupied, listed>>
    BY <1>0, <1>12, PortIsFree DEF ProbeDead, free_loopback_addr
  <2>3. /\ pc'[c] = "dead_run" /\ ~expired'[c]
        /\ proc'[OwnRun(c)] = Child(p, {}, TRUE)
        /\ proc'[OwnServer(c)] = proc[OwnServer(c)]
    BY <1>0, <2>1, ChildIs, RunEffect DEF Points
  <2>. QED BY <1>0, <2>2, <2>3 DEF Child
<1>13. CASE DeadProbed(c)
  <2>1. CASE proc[OwnRun(c)].ok /\ Fails(c)
    BY <1>0, <1>13, <2>1, <1>f DEF DeadProbed, Exited, Conforming
  <2>2. CASE ~proc[OwnRun(c)].ok
    <3>1. To(c, "passed") /\ UNCHANGED <<slow, build, todo, bind, run, occupied, proc, listed>>
      BY <1>13, <2>2 DEF DeadProbed
    <3>2. pc'[c] = "passed" /\ ~expired'[c]
      BY <1>0, <3>1, ToIs DEF Points
    <3>3. build[c].probe = "asks"
      BY <1>0, <1>13, <2>2 DEF DeadProbed, Exited, TypeOK, AllBuilds
    <3>. QED BY <1>0, <1>13, <3>1, <3>2, <3>3 DEF DeadProbed, Exited
  <2>. QED BY <1>13, <2>1, <2>2 DEF DeadProbed
<1>14. CASE GiveUp(c)
  BY <1>0, <1>14, <1>f DEF GiveUp
<1>. QED
  BY <1>1, <1>2, <1>3, <1>4, <1>5, <1>6, <1>7, <1>8, <1>9, <1>10, <1>11, <1>12, <1>13, <1>14
     DEF ContractStep

\* How a child ends or goes on.
LEMMA ExitIs ==
  ASSUME TypeOK, NEW q \in Children, NEW ok \in BOOLEAN, NEW names, Exit(q, ok, names)
  PROVE  /\ proc'[q].state = "exited" /\ (proc'[q].ok <=> ok) /\ proc'[q].names = names
         /\ proc'[q].port = proc[q].port /\ proc'[q].missing = proc[q].missing
         /\ proc'[q].probing = proc[q].probing
<1>. DEFINE new == [[[proc[q] EXCEPT !.state = "exited"] EXCEPT !.ok = ok] EXCEPT !.names = names]
<1>1. proc' = [proc EXCEPT ![q] = new]
  BY DEF Exit, TypeOK, Processes
<1>2. proc'[q] = new
  BY <1>1 DEF TypeOK
<1>. QED BY <1>2 DEF TypeOK, Processes

LEMMA BecomeIs ==
  ASSUME TypeOK, NEW q \in Children, NEW state, Become(q, state)
  PROVE  /\ proc'[q].state = state
         /\ proc'[q].port = proc[q].port /\ proc'[q].missing = proc[q].missing
         /\ proc'[q].probing = proc[q].probing
<1>1. proc' = [proc EXCEPT ![q] = [proc[q] EXCEPT !.state = state]]
  BY DEF Become
<1>. QED BY <1>1 DEF TypeOK, Processes

LEMMA RunAlone ==
  ASSUME Inv, NEW c \in Contracts, Alone(c), BinaryStep(OwnRun(c))
  PROVE  AloneInv(c)'
<1>. DEFINE q == OwnRun(c)
<1>. USE DEF AloneInv, RunPlaced, ServerPlaced, ExitTells, Learned, InTime
<1>. USE DEF Awaiting, InSpawn, ServerUp, ServerDropped, HasServer, Refused
<1>0. TypeOK /\ IdleHoldsNothing /\ AloneInv(c) /\ q \in Children
  BY OwnChildren DEF Inv
<1>a. /\ UNCHANGED <<slow, build, pc, todo, bind, run, occupied, expired, listed>>
      /\ proc[q].state \in Alive
      /\ proc'[OwnServer(c)] = proc[OwnServer(c)]
  BY <1>0, BinaryFrame, OwnChildren
<1>b. q[1] = c
  BY DEF OwnRun
<1>c. pc[c] \in Awaiting \cup {"failed"}
  <2>1. pc[c] # "idle" => proc[q].state \in {"none", "exited"} \/ pc[c] \in Awaiting \cup {"failed"}
    BY <1>0
  <2>2. pc[c] = "idle" => proc[q].state = "none"
    BY <1>0 DEF IdleHoldsNothing, NoChild
  <2>. QED BY <1>a, <2>1, <2>2 DEF Alive
<1>1. CASE pc[c] = "failed"
  BY <1>0, <1>1, <1>a
<1>2. CASE pc[c] = "missing_run"
  <2>1. CASE Configure(q)
    <3>. DEFINE missing == proc[q].missing \ build[c].without
    <3>1. CASE missing = {} /\ Become(q, "configured")
      <4>1. proc'[q].state = "configured" /\ run[c] \subseteq build[c].without
        BY <1>0, <1>2, <3>1, BecomeIs
      <4>2. /\ proc'[q].port = proc[q].port /\ proc'[q].missing = proc[q].missing
            /\ proc'[q].probing = proc[q].probing
        BY <1>0, <3>1, BecomeIs
      <4>. QED BY <1>0, <1>2, <1>a, <4>1, <4>2
    <3>2. CASE missing # {} /\ Exit(q, FALSE, missing \ build[c].misnamed)
      <4>1. PICK v \in todo[c] : run[c] = {v}
        BY <1>0, <1>2
      <4>2. run[c] \cap build[c].without = {} /\ missing = run[c]
        BY <1>0, <1>2, <3>2, <4>1
      <4>3. /\ proc'[q].state = "exited" /\ ~proc'[q].ok
            /\ proc'[q].names = run[c] \ build[c].misnamed
            /\ proc'[q].port = proc[q].port /\ proc'[q].missing = proc[q].missing
            /\ proc'[q].probing = proc[q].probing
        <5>1. Exit(q, FALSE, run[c] \ build[c].misnamed)
          BY <3>2, <4>2
        <5>2. TypeOK /\ q \in Children
          BY <1>0
        <5>. HIDE DEF q
        <5>. QED BY <5>1, <5>2, ExitIs
      <4>4. RunPlaced(c)' /\ ServerPlaced(c)' /\ Learned(c)' /\ InTime(c)'
        BY <1>0, <1>2, <1>a, <4>3
      <4>5. ExitTells(c)'
        BY <1>2, <1>a, <4>2, <4>3
      <4>. QED BY <4>4, <4>5
    <3>. QED BY <1>b, <2>1, <3>1, <3>2 DEF Configure
  <2>2. CASE Bind(q)
    <3>1. PICK p \in Ports : bind[c] = {p} /\ proc[q].port = {p}
      BY <1>0, <1>2
    <3>2. ~Taken(p)
      BY <1>0, <1>2, <2>2, AloneTaken DEF Listening, Bind, NoChild
    <3>3. Become(q, "serving") /\ proc[q].state = "configured"
      BY <2>2, <3>1, <3>2 DEF Bind
    <3>4. /\ proc'[q].state = "serving"
          /\ proc'[q].port = proc[q].port /\ proc'[q].missing = proc[q].missing
          /\ proc'[q].probing = proc[q].probing
      BY <1>0, <3>3, BecomeIs
    <3>. QED BY <1>0, <1>2, <1>a, <3>3, <3>4
  <2>. QED BY <1>0, <1>2, <2>1, <2>2 DEF BinaryStep, Probe, Die
<1>3. CASE pc[c] = "occupied_run"
  <2>1. CASE Configure(q)
    <3>1. Become(q, "configured")
      BY <1>0, <1>3, <2>1 DEF Configure
    <3>. QED BY <1>0, <1>3, <1>a, <3>1, BecomeIs
  <2>2. CASE Bind(q)
    <3>1. PICK p \in Ports : run[c] = {p} /\ proc[q].port = {p} /\ occupied[c] = {p}
      BY <1>0, <1>3
    <3>2. Taken(p)
      BY <3>1 DEF Taken
    <3>. DEFINE good == build[c].occupied = "silent"
                told == IF build[c].occupied = "named" THEN proc[q].port ELSE {}
    <3>3. Exit(q, good, told) /\ good \in BOOLEAN
      BY <1>b, <2>2, <3>1, <3>2 DEF Bind
    <3>. HIDE DEF good, told
    <3>4. /\ proc'[q].state = "exited" /\ (proc'[q].ok <=> good) /\ proc'[q].names = told
          /\ proc'[q].port = proc[q].port /\ proc'[q].missing = proc[q].missing
          /\ proc'[q].probing = proc[q].probing
      BY <1>0, <3>3, ExitIs
    <3>5. /\ proc'[q].ok <=> build[c].occupied = "silent"
          /\ proc'[q].names = IF build[c].occupied = "named" THEN run[c] ELSE {}
      BY <3>1, <3>4 DEF good, told
    <3>. QED BY <1>0, <1>3, <1>a, <3>4, <3>5
  <2>. QED BY <1>0, <1>3, <2>1, <2>2 DEF BinaryStep, Probe, Die
<1>4. CASE pc[c] \in {"probe_run", "dead_run"}
  <2>1. Probe(q) /\ proc[q].state = "starting"
    BY <1>0, <1>4 DEF BinaryStep, Configure, Bind, Probe, Die
  <2>2. PICK p \in Ports : proc[q].port = {p}
    BY <1>0, <1>4
  <2>. DEFINE good == \/ build[c].probe = "blind"
                      \/ build[c].probe = "asks" /\ \E p_1 \in proc[q].port : run_healthcheck(p_1)
  <2>3. Exit(q, good, proc[q].port) /\ good \in BOOLEAN
    BY <1>b, <2>1 DEF Probe
  <2>4. good <=> \/ build[c].probe = "blind"
                 \/ build[c].probe = "asks" /\ run_healthcheck(p)
    BY <2>2
  <2>. HIDE DEF good
  <2>5. /\ proc'[q].state = "exited" /\ (proc'[q].ok <=> good)
        /\ proc'[q].port = proc[q].port /\ proc'[q].missing = proc[q].missing
        /\ proc'[q].probing = proc[q].probing
    BY <1>0, <2>3, ExitIs
  <2>6. CASE pc[c] = "probe_run"
    <3>1. run_healthcheck(p)
      BY <1>0, <2>2, <2>6, AloneTaken
    <3>2. proc'[q].ok <=> build[c].probe # "fails"
      BY <1>0, <2>4, <2>5, <3>1 DEF TypeOK, AllBuilds
    <3>. QED BY <1>0, <2>5, <2>6, <1>a, <3>2
  <2>7. CASE pc[c] = "dead_run"
    <3>1. ~run_healthcheck(p)
      BY <1>0, <2>1, <2>7, AloneTaken
    <3>2. proc'[q].ok <=> build[c].probe = "blind"
      BY <2>4, <2>5, <3>1
    <3>. QED BY <1>0, <2>2, <2>5, <2>7, <1>a, <3>2
  <2>. QED BY <1>4, <2>6, <2>7
<1>. QED BY <1>c, <1>1, <1>2, <1>3, <1>4

LEMMA ServerAlone ==
  ASSUME Inv, NEW c \in Contracts, Alone(c), BinaryStep(OwnServer(c))
  PROVE  AloneInv(c)'
<1>. DEFINE q == OwnServer(c)
<1>. USE DEF AloneInv, RunPlaced, ServerPlaced, ExitTells, Learned, InTime
<1>. USE DEF Awaiting, InSpawn, ServerUp, ServerDropped, HasServer, Refused
<1>0. TypeOK /\ IdleHoldsNothing /\ AloneInv(c) /\ q \in Children
  BY OwnChildren DEF Inv
<1>a. /\ UNCHANGED <<slow, build, pc, todo, bind, run, occupied, expired, listed>>
      /\ proc[q].state \in Alive
      /\ proc'[OwnRun(c)] = proc[OwnRun(c)]
  BY <1>0, BinaryFrame, OwnChildren
<1>b. q[1] = c
  BY DEF OwnServer
<1>c. pc[c] \in InSpawn \cup ServerUp \cup ServerDropped \cup {"failed"}
  BY <1>0, <1>a DEF NoChild, Alive
<1>1. CASE pc[c] = "failed"
  BY <1>0, <1>1, <1>a
<1>2. CASE pc[c] \in InSpawn
  <2>1. CASE Configure(q)
    <3>1. Become(q, "configured") /\ proc[q].state = "starting"
      BY <1>0, <1>2, <2>1 DEF Configure
    <3>2. /\ proc'[q].state = "configured"
          /\ proc'[q].port = proc[q].port /\ proc'[q].missing = proc[q].missing
          /\ proc'[q].probing = proc[q].probing
      BY <1>0, <3>1, BecomeIs
    <3>. QED BY <1>0, <1>2, <1>a, <3>1, <3>2
  <2>2. CASE Bind(q)
    <3>1. PICK p \in Ports : bind[c] = {p} /\ proc[q].port = {p}
      BY <1>0, <1>2
    <3>2. ~Taken(p)
      BY <1>0, <1>2, <2>2, AloneTaken DEF Listening, Bind
    <3>3. Become(q, "serving") /\ proc[q].state = "configured"
      BY <2>2, <3>1, <3>2 DEF Bind
    <3>4. /\ proc'[q].state = "serving"
          /\ proc'[q].port = proc[q].port /\ proc'[q].missing = proc[q].missing
          /\ proc'[q].probing = proc[q].probing
      BY <1>0, <3>3, BecomeIs
    <3>. QED BY <1>0, <1>2, <1>a, <3>3, <3>4
  <2>. QED BY <1>0, <1>2, <2>1, <2>2 DEF BinaryStep, Probe, Die
<1>3. CASE pc[c] \in ServerUp
  BY <1>0, <1>3 DEF BinaryStep, Configure, Bind, Probe, Die
<1>4. CASE pc[c] \in ServerDropped
  <2>1. Become(q, "gone")
    BY <1>0, <1>4 DEF BinaryStep, Configure, Bind, Probe, Die
  <2>2. proc'[q].state = "gone" /\ proc'[q].port = proc[q].port
    BY <1>0, <2>1, BecomeIs
  <2>. QED BY <1>0, <1>4, <1>a, <2>2
<1>. QED BY <1>c, <1>1, <1>2, <1>3, <1>4

-----------------------------------------------------------------------------
LEMMA InitInv == Init => Inv
<1>. SUFFICES ASSUME Init PROVE Inv
  OBVIOUS
<1>1. NoChild \in Processes
  BY DEF NoChild, Processes, States
<1>2. TypeOK
  BY <1>1, BuildAssumption DEF Init, TypeOK, Points
<1>3. IdleHoldsNothing
  BY OwnChildren DEF Init, IdleHoldsNothing
<1>4. ASSUME NEW c \in Contracts
      PROVE  AloneInv(c)
  <2>1. /\ pc[c] = "idle" /\ todo[c] = Required /\ occupied[c] = {} /\ ~expired[c]
        /\ proc[OwnRun(c)] = NoChild /\ proc[OwnServer(c)] = NoChild
    BY OwnChildren DEF Init
  <2>. QED BY <2>1 DEF AloneInv, RunPlaced, ServerPlaced, ExitTells, Learned, InTime, NoChild,
                       Awaiting, InSpawn, ServerUp, ServerDropped, HasServer, Refused
<1>. QED BY <1>2, <1>3, <1>4 DEF Inv

LEMMA CallStep ==
  ASSUME Inv, NEW d \in Contracts, Call(d)
  PROVE  Inv'
<1>0. TypeOK /\ IdleHoldsNothing
  BY DEF Inv
<1>1. /\ pc[d] = "idle" /\ pc'[d] = "start" /\ ~expired'[d]
      /\ pc' \in [Contracts -> Points] /\ expired' \in [Contracts -> BOOLEAN]
      /\ \A c \in Contracts \ {d} : pc'[c] = pc[c] /\ expired'[c] = expired[c]
      /\ UNCHANGED <<slow, build, todo, bind, run, occupied, proc, listed>>
  BY <1>0, ToIs DEF Call, Points
<1>2. TypeOK'
  BY <1>0, <1>1 DEF TypeOK
<1>3. IdleHoldsNothing'
  BY <1>0, <1>1 DEF IdleHoldsNothing
<1>4. ASSUME NEW c \in Contracts, Alone(c)'
      PROVE  AloneInv(c)'
  <2>1. c = d
    BY <1>1, <1>4 DEF Alone
  <2>2. Alone(c)
    BY <1>1, <1>4, <2>1 DEF Alone
  <2>3. AloneInv(c) /\ proc[OwnRun(c)] = NoChild /\ todo[c] = Required
    BY <1>0, <1>1, <2>1, <2>2 DEF Inv, IdleHoldsNothing
  <2>. QED BY <1>1, <2>1, <2>3
           DEF AloneInv, RunPlaced, ServerPlaced, ExitTells, Learned, InTime, NoChild,
               Awaiting, InSpawn, ServerUp, ServerDropped, HasServer, Refused
<1>. QED BY <1>2, <1>3, <1>4 DEF Inv

LEMMA ExpireStep ==
  ASSUME Inv, NEW d \in Contracts, Expire(d)
  PROVE  Inv'
<1>. USE DEF Awaiting, InSpawn
<1>0. TypeOK /\ IdleHoldsNothing
  BY DEF Inv
<1>1. /\ pc[d] \in Awaiting \cup InSpawn
      /\ slow \/ proc[Awaited(d)].state = "serving"
      /\ expired' \in [Contracts -> BOOLEAN]
      /\ \A c \in Contracts \ {d} : expired'[c] = expired[c]
      /\ UNCHANGED <<slow, build, pc, todo, bind, run, occupied, proc, listed>>
  BY <1>0 DEF Expire, TypeOK
<1>2. TypeOK'
  BY <1>0, <1>1 DEF TypeOK
<1>3. IdleHoldsNothing'
  BY <1>0, <1>1 DEF IdleHoldsNothing
<1>4. ASSUME NEW c \in Contracts, Alone(c)'
      PROVE  AloneInv(c)'
  <2>1. Alone(c) /\ AloneInv(c)
    BY <1>1, <1>4 DEF Alone, Inv
  <2>2. c = d
    BY <1>1, <2>1 DEF Alone
  <2>3. RunPlaced(c)' /\ ServerPlaced(c)' /\ ExitTells(c)' /\ Learned(c)'
    BY <1>1, <2>1 DEF AloneInv, RunPlaced, ServerPlaced, ExitTells, Learned
  <2>4. InTime(c)'
    <3>. SUFFICES ASSUME build[c] = Conforming, ~slow
                  PROVE  pc[c] \in InSpawn /\ proc[OwnServer(c)].state = "serving"
      BY <1>1, <2>2 DEF InTime
    <3>1. proc[Awaited(c)].state = "serving" /\ build[c].without = {}
      BY <1>1, <2>2 DEF Conforming
    <3>2. pc[c] \in Awaiting => proc[OwnRun(c)].state = "serving"
      BY <3>1 DEF Awaited
    <3>3. pc[c] \notin Awaiting
      BY <2>1, <3>1, <3>2 DEF AloneInv, ExitTells, RunPlaced
    <3>. QED BY <1>1, <2>2, <3>1, <3>3 DEF Awaited
  <2>. QED BY <2>3, <2>4 DEF AloneInv
<1>. QED BY <1>2, <1>3, <1>4 DEF Inv

LEMMA ContractStepInv ==
  ASSUME Inv, NEW d \in Contracts, ContractStep(d)
  PROVE  Inv'
<1>0. TypeOK /\ IdleHoldsNothing
  BY DEF Inv
<1>1. /\ TypeOK' /\ pc[d] # "idle" /\ pc'[d] # "idle"
      /\ \A c \in Contracts \ {d} : Untouched(c)
  BY <1>0, ContractFrame
<1>2. IdleHoldsNothing'
  BY <1>0, <1>1 DEF IdleHoldsNothing, Untouched
<1>3. ASSUME NEW c \in Contracts, Alone(c)'
      PROVE  AloneInv(c)'
  <2>1. c = d
    BY <1>1, <1>3 DEF Alone
  <2>2. Alone(d)
    BY <1>1, <1>3, <2>1 DEF Alone, Untouched
  <2>. QED BY <2>1, <2>2, ContractAlone
<1>. QED BY <1>1, <1>2, <1>3 DEF Inv

LEMMA BinaryStepInv ==
  ASSUME Inv, NEW q \in Children, BinaryStep(q)
  PROVE  Inv'
<1>0. TypeOK /\ IdleHoldsNothing
  BY DEF Inv
<1>1. /\ TypeOK'
      /\ UNCHANGED <<slow, build, pc, todo, bind, run, occupied, expired, listed>>
      /\ proc[q].state \in Alive
      /\ \A r \in Children \ {q} : proc'[r] = proc[r]
  BY <1>0, BinaryFrame
<1>2. proc[q] # NoChild
  BY <1>1 DEF NoChild, Alive
<1>3. IdleHoldsNothing'
  BY <1>0, <1>1, <1>2, OwnChildren DEF IdleHoldsNothing
<1>4. ASSUME NEW c \in Contracts, Alone(c)'
      PROVE  AloneInv(c)'
  <2>1. Alone(c)
    BY <1>1, <1>4 DEF Alone
  <2>2. q = OwnRun(c) \/ q = OwnServer(c)
    BY <1>0, <1>2, <2>1, AloneOwns
  <2>. QED BY <2>1, <2>2, RunAlone, ServerAlone
<1>. QED BY <1>1, <1>3, <1>4 DEF Inv

\* The types of the variables, and what a contract on its own knows of the binary
\* at each of its clauses, whatever the binary, its variables and the ports are.
THEOREM Invariant == Spec => []Inv
<1>1. Inv /\ [Next]_vars => Inv'
  <2>. SUFFICES ASSUME Inv, [Next]_vars PROVE Inv'
    OBVIOUS
  <2>1. CASE UNCHANGED vars
    BY <2>1 DEF vars, Inv, TypeOK, IdleHoldsNothing, Alone, AloneInv, RunPlaced, ServerPlaced,
                ExitTells, Learned, InTime
  <2>. QED BY <2>1, CallStep, ExpireStep, ContractStepInv, BinaryStepInv DEF Next
<1>. QED BY InitInv, <1>1, PTL DEF Spec

\* check_binary_contract tells the truth: the only binary a contract on its own
\* passes is one that keeps every clause.
THEOREM Sound == Spec => []ContractSound
<1>1. Inv => ContractSound
  <2>. SUFFICES ASSUME Inv, NEW c \in Contracts, pc[c] = "passed", Alone(c)
                PROVE  build[c] = Conforming
    BY DEF ContractSound
  <2>1. Learned(c)
    BY DEF Inv, AloneInv
  <2>2. build[c] \in AllBuilds
    BY DEF Inv, TypeOK
  <2>3. /\ todo[c] = {} /\ (Required \ todo[c]) \cap (build[c].without \cup build[c].misnamed) = {}
        /\ build[c].occupied = "named" /\ build[c].healthy
        /\ build[c].probe = "asks" /\ build[c].tools
    BY <2>1 DEF Learned, Refused, HasServer, ServerUp, ServerDropped
  <2>4. build[c].without = {} /\ build[c].misnamed = {}
    BY <2>2, <2>3 DEF AllBuilds
  <2>. QED BY <2>2, <2>3, <2>4 DEF AllBuilds, Conforming
<1>. QED BY Invariant, <1>1, PTL

\* It fails no conforming binary that starts in time: no clause trips over what
\* the one before left behind, with any number of required variables, as long as
\* the kernel has two ports to hand out.
THEOREM Passes == Spec => []ConformingPasses
<1>1. Inv => ConformingPasses
  BY DEF Inv, AloneInv, InTime, ConformingPasses
<1>. QED BY Invariant, <1>1, PTL
-----------------------------------------------------------------------------
(* Startup. *)

\* The server and the spelling of its target are among those given, and a server
\* that came through from_env is held to the list its variable holds.
StartInv ==
  /\ server \in Servers
  /\ host \in Spellings
  /\ phase = "serving" /\ raw # {} => allowed = parse_allowed_hosts(raw)

\* from_env, the router and the operator's corrections keep to that.
LEMMA StartInvariant == StartupSpec => []StartInv
<1>1. StartupInit => StartInv
  BY DEF StartupInit, StartInv
<1>2. StartInv /\ [StartupNext]_startupVars => StartInv'
  BY DEF StartInv, StartupNext, startupVars, Start, Route, Correct
<1>. QED BY <1>1, <1>2, PTL DEF StartupSpec

\* Blanks add no name: dropping the entries that hold nothing else loses nobody.
LEMMA ParsedNames ==
  ASSUME NEW list
  PROVE  UNION parse_allowed_hosts(list) = UNION {Names(entries) : entries \in list}
BY DEF parse_allowed_hosts

\* rmcp is never handed an empty list, which it reads as any host.
LEMMA RouterNeverOpen ==
  ASSUME NEW list
  PROVE  /\ mcp_router(list) = IF UNION list = {} THEN Loopback ELSE UNION list
         /\ mcp_router(list) # {}
BY DEF mcp_router, Loopback

\* mcp_router and parse_allowed_hosts: a server answers the Host headers it was
\* told to and no other, loopback when it was told none, for any list, blanks
\* and lists of nothing but blanks included.
THEOREM HostsListed == StartupSpec => []HostsAsListed
<1>1. StartInv => HostsAsListed
  <2>. SUFFICES ASSUME StartInv, phase = "serving"
                PROVE  mcp_router(allowed) = IF Meant = {} THEN Loopback ELSE Meant
    BY RouterNeverOpen DEF HostsAsListed, Accepts
  <2>1. Meant = UNION allowed
    BY ParsedNames DEF StartInv, Meant
  <2>. QED BY <2>1, RouterNeverOpen
<1>. QED BY StartInvariant, <1>1, PTL

\* normalize_base_url of every server: the scheme and the port given are asked,
\* or the server's own, however the target is spelled.
LEMMA AddressOfSpelling ==
  ASSUME NEW s \in Servers, s # "pg", NEW h \in Spellings, h.form = "name" \/ s = "pbs"
  PROVE  LET scheme == IF h.scheme = "none" THEN DefaultScheme(s) ELSE h.scheme
             default == IF h.scheme = "none" THEN DefaultPort[s] ELSE 0
             port == IF h.port # 0 THEN h.port ELSE default
         IN  Address(normalize_base_url(s, h)) =
               {<<scheme, IF port # 0 THEN port ELSE IF scheme = "http" THEN 80 ELSE 443>>}
<1>. DEFINE url == normalize_base_url(s, h)
<1>h. /\ h \in [scheme : {"none", "http", "https"}, form : {"name", "literal", "bracketed"},
                 port : Nat]
      /\ h.form = "literal" => h.scheme = "none" /\ h.port = 0
      /\ s \in {"prom", "loki", "tempo", "am", "pbs", "wp", "ha"}
  BY SpellingAssumption, ServersAssumption
<1>1. CASE h.scheme # "none"
  BY <1>1, <1>h DEF normalize_base_url, Address
<1>2. CASE h.scheme = "none" /\ s \in Http
  BY <1>2, <1>h DEF normalize_base_url, normalize_common, Address, Http, DefaultPort, DefaultScheme
<1>3. CASE h.scheme = "none" /\ s = "pbs"
  BY <1>3, <1>h DEF normalize_base_url, normalize_pbs, Address, Http, DefaultPort, DefaultScheme
<1>4. CASE h.scheme = "none" /\ s \in {"wp", "ha"}
  BY <1>4, <1>h DEF normalize_base_url, Address, Http, DefaultPort, DefaultScheme
<1>. QED BY <1>1, <1>2, <1>3, <1>4, <1>h DEF Http

\* Every server asks its upstream where the operator meant: at the scheme and
\* port given, or at the server's defaults, for any port.
THEOREM TargetMeant == StartupSpec => []TargetIsMeant
<1>1. StartInv => TargetIsMeant
  BY AddressOfSpelling DEF StartInv, TargetIsMeant, MeantAddress
<1>. QED BY StartInvariant, <1>1, PTL
-----------------------------------------------------------------------------
(* McpExchange: what a body is read as.                                    *)

\* Some numbers have a least one.
LEMMA LeastNumber ==
  ASSUME NEW T \in SUBSET Nat, T # {}
  PROVE  \E m \in T : \A k \in T : m <= k
<1>1. PICK m \in T : \A k \in T : ~(<<k, m>> \in OpToRel(<, Nat))
  BY NatLessThanWellFounded, WFMin
<1>2. \A k \in T : ~(k < m)
  BY <1>1 DEF OpToRel
<1>. QED BY <1>2

Messages == [id : Nat, to : SUBSET Tasks, page : Nat, ok : BOOLEAN]
Lines == [kind : {"data", "blank", "other"}, part : {"whole", "head", "tail", "none"},
          message : Messages]
Nothing == [events |-> <<>>, data |-> <<>>]
Read == [events : Seq(Seq(Lines)), data : Seq(Lines)]

\* f is what the loop over the first n lines of b holds after each.
Loops(f, n, b) ==
  /\ f[0] = Nothing
  /\ \A k \in 1..n : f[k] = Line(f[k - 1], b[k])

\* The loop over the lines goes from line to line.
LEMMA ReadingSteps ==
  ASSUME NEW body \in Seq(Lines)
  PROVE  \E f : Loops(f, Len(body), body) /\ Reading(body) = f[Len(body)]
<1>. DEFINE Loop(n, g) == g = [k \in 0..n |-> IF k = 0 THEN Nothing ELSE Line(g[k - 1], body[k])]
            Stuck == {n \in Nat : ~\E g : Loop(n, g)}
<1>1. Stuck = {}
  <2>. SUFFICES ASSUME Stuck # {} PROVE FALSE
    OBVIOUS
  <2>1. PICK m \in Stuck : \A k \in Stuck : m <= k
    BY LeastNumber
  <2>2. CASE m = 0
    <3>. DEFINE h == [k \in 0..0 |-> Nothing]
    <3>1. Loop(0, h)
      OBVIOUS
    <3>. QED BY <2>1, <2>2, <3>1
  <2>3. CASE m # 0
    <3>a. m \in Nat
      OBVIOUS
    <3>1. m - 1 \in Nat /\ m - 1 \notin Stuck
      <4>. HIDE DEF Stuck
      <4>. QED BY <2>1, <2>3, <3>a
    <3>2. PICK g : Loop(m - 1, g)
      BY <3>1
    <3>. DEFINE h == [k \in 0..m |-> IF k = m THEN Line(g[m - 1], body[m]) ELSE g[k]]
    <3>3. \A k \in 0..m : h[k] = IF k = 0 THEN Nothing ELSE Line(h[k - 1], body[k])
      BY <3>1, <3>2, <2>3
    <3>4. Loop(m, h)
      BY <3>3
    <3>. QED BY <2>1, <3>4
  <2>. QED BY <2>2, <2>3
<1>2. Len(body) \in Nat
  OBVIOUS
<1>3. \E g : Loop(Len(body), g)
  BY <1>1, <1>2
<1>4. PICK f : Loop(Len(body), f) /\ Reading(body) = f[Len(body)]
  BY <1>3 DEF Reading, Nothing
<1>5. f[0] = Nothing
  BY <1>2, <1>4
<1>6. \A k \in 1..Len(body) : f[k] = Line(f[k - 1], body[k])
  BY <1>2, <1>4
<1>. QED BY <1>4, <1>5, <1>6 DEF Loops

\* Two loops over the same lines agree.
LEMMA ReadingAgrees ==
  ASSUME NEW n \in Nat, NEW f, NEW g, NEW b, Loops(f, n, b), Loops(g, n, b)
  PROVE  f[n] = g[n]
<1>. DEFINE T == {k \in 0..n : f[k] # g[k]}
<1>. SUFFICES ASSUME T # {} PROVE FALSE
  OBVIOUS
<1>1. PICK m \in T : \A k \in T : m <= k
  <2>1. T \in SUBSET Nat
    OBVIOUS
  <2>. HIDE DEF T
  <2>. QED BY <2>1, LeastNumber
<1>2. m # 0 /\ m \in 1..n /\ m - 1 \in 0..n
  BY DEF Loops
<1>3. f[m - 1] = g[m - 1]
  BY <1>1, <1>2
<1>. QED BY <1>2, <1>3 DEF Loops

\* What is read of one line more.
LEMMA ReadingAppend ==
  /\ Reading(<<>>) = Nothing
  /\ \A s \in Seq(Lines), l \in Lines : Reading(Append(s, l)) = Line(Reading(s), l)
<1>1. Reading(<<>>) = Nothing
  <2>1. <<>> \in Seq(Lines) /\ Len(<<>>) = 0
    OBVIOUS
  <2>. QED BY <2>1, ReadingSteps DEF Loops
<1>2. ASSUME NEW s \in Seq(Lines), NEW l \in Lines
      PROVE  Reading(Append(s, l)) = Line(Reading(s), l)
  <2>. DEFINE r == Append(s, l)
              n == Len(s)
  <2>1. r \in Seq(Lines) /\ Len(r) = n + 1 /\ r[n + 1] = l /\ \A k \in 1..n : r[k] = s[k]
    OBVIOUS
  <2>2. n \in Nat
    OBVIOUS
  <2>. HIDE DEF r, n
  <2>3. PICK f : Loops(f, n + 1, r) /\ Reading(r) = f[n + 1]
    BY <2>1, ReadingSteps
  <2>4. PICK g : Loops(g, n, s) /\ Reading(s) = g[n]
    BY ReadingSteps DEF n
  <2>5. f[n] = g[n]
    <3>1. Loops(f, n, s)
      BY <2>1, <2>2, <2>3 DEF Loops
    <3>. QED BY <2>2, <2>4, <3>1, ReadingAgrees
  <2>6. f[n + 1] = Line(f[n], l)
    BY <2>1, <2>2, <2>3 DEF Loops
  <2>. QED BY <2>3, <2>4, <2>5, <2>6 DEF r
<1>. QED BY <1>1, <1>2

\* A body as far as whole events go: nothing of an event is left open.
Whole(body) == body \in Seq(Lines) /\ Reading(body) \in Read /\ Reading(body).data = <<>>

\* One line more, by its kind.
LEMMA LineRead ==
  ASSUME NEW s \in Seq(Lines), NEW l \in Lines, Reading(s) \in Read
  PROVE  /\ Append(s, l) \in Seq(Lines)
         /\ l.kind = "data" =>
              Reading(Append(s, l)) = [events |-> Reading(s).events,
                                       data |-> Append(Reading(s).data, l)]
         /\ l.kind = "blank" /\ Reading(s).data # <<>> =>
              Reading(Append(s, l)) = [events |-> Append(Reading(s).events, Reading(s).data),
                                       data |-> <<>>]
         /\ l.kind = "blank" /\ Reading(s).data = <<>> => Reading(Append(s, l)) = Reading(s)
         /\ l.kind = "other" => Reading(Append(s, l)) = Reading(s)
         /\ Reading(Append(s, l)) \in Read
<1>1. Reading(Append(s, l)) = Line(Reading(s), l)
  BY ReadingAppend
<1>. DEFINE acc == Reading(s)
<1>2. acc \in Read /\ Reading(Append(s, l)) = Line(acc, l)
  BY <1>1
<1>. HIDE DEF acc
<1>3. Append(acc.data, l) \in Seq(Lines) /\ acc.events \in Seq(Seq(Lines)) /\ acc.data \in Seq(Lines)
  BY <1>2 DEF Read
<1>4. Append(acc.events, acc.data) \in Seq(Seq(Lines))
  BY <1>3
<1>5. Line(acc, l) \in Read
  BY <1>2, <1>3, <1>4 DEF Line, Read
<1>. QED BY <1>2, <1>5 DEF Line, acc

\* The lines of a message.
LEMMA MessageLines ==
  ASSUME NEW m \in Messages
  PROVE  /\ \A part \in {"whole", "head", "tail"} :
              /\ Data(m, part) \in Lines /\ Data(m, part).kind = "data"
              /\ Data(m, part).message = m /\ Data(m, part).part = part
         /\ Notification \in Messages
         /\ Empty \in Lines /\ Empty.kind = "data" /\ Empty.message = Notification
         /\ Blank \in Lines /\ Blank.kind = "blank" /\ Blank.message = Notification
         /\ Other \in Lines /\ Other.kind = "other" /\ Other.message = Notification
BY DEF Messages, Lines, Data, Empty, Blank, Other, Notification

\* Sequences of one and two lines.
LEMMA OneThenTwo ==
  ASSUME NEW a \in Lines, NEW b \in Lines
  PROVE  Append(<<>>, a) = <<a>> /\ Append(<<a>>, b) = <<a, b>>
<1>1. <<>> \in Seq(Lines) /\ <<a>> \in Seq(Lines)
  OBVIOUS
<1>2. Append(<<>>, a) = <<a>>
  BY <1>1
<1>3. Append(<<a>>, b) = <<a, b>>
  <2>. DEFINE p == Append(<<a>>, b)
              q == <<a, b>>
  <2>1. p \in Seq(Lines) /\ Len(p) = 2 /\ p[1] = a /\ p[2] = b
    BY <1>1
  <2>2. q \in Seq(Lines) /\ Len(q) = 2 /\ q[1] = a /\ q[2] = b
    OBVIOUS
  <2>. HIDE DEF p, q
  <2>3. p = [i \in 1..2 |-> p[i]] /\ q = [i \in 1..2 |-> q[i]]
    BY <2>1, <2>2
  <2>4. \A i \in 1..2 : p[i] = q[i]
    BY <2>1, <2>2
  <2>5. p = q
    BY <2>3, <2>4
  <2>. QED BY <2>5 DEF p, q
<1>. QED BY <1>2, <1>3

\* An event that is not closed yet.
LEMMA EventOpens ==
  ASSUME NEW s, Whole(s), NEW m \in Messages, NEW split \in BOOLEAN
  PROVE  /\ s \o Event(m, split) \in Seq(Lines)
         /\ Event(m, split) \in Seq(Lines) /\ Event(m, split) # <<>>
         /\ Parses(Event(m, split)) /\ Event(m, split)[1].message = m
         /\ Reading(s \o Event(m, split)) = [events |-> Reading(s).events, data |-> Event(m, split)]
         /\ Reading(s \o Event(m, split)) \in Read
<1>1. /\ s \in Seq(Lines) /\ Reading(s) \in Read /\ Reading(s).data = <<>>
  BY DEF Whole
<1>. DEFINE head == Data(m, "head")
            tail == Data(m, "tail")
            whole == Data(m, "whole")
<1>2. /\ head \in Lines /\ head.kind = "data" /\ head.part = "head" /\ head.message = m
      /\ tail \in Lines /\ tail.kind = "data" /\ tail.part = "tail" /\ tail.message = m
      /\ whole \in Lines /\ whole.kind = "data" /\ whole.part = "whole" /\ whole.message = m
  BY MessageLines
<1>3. Event(m, split) = IF split THEN <<head, tail>> ELSE <<whole>>
  BY DEF Event
<1>. HIDE DEF head, tail, whole
<1>4. /\ Event(m, split) \in Seq(Lines) /\ Event(m, split) # <<>>
      /\ Parses(Event(m, split)) /\ Event(m, split)[1].message = m
      /\ s \o Event(m, split) \in Seq(Lines)
  BY <1>1, <1>2, <1>3 DEF Parses
<1>5. CASE split
  <2>1. s \o Event(m, split) = Append(Append(s, head), tail)
    BY <1>1, <1>2, <1>3, <1>5
  <2>2. /\ Append(s, head) \in Seq(Lines) /\ Reading(Append(s, head)) \in Read
        /\ Reading(Append(s, head)) = [events |-> Reading(s).events, data |-> Append(<<>>, head)]
    BY <1>1, <1>2, LineRead
  <2>3. /\ Reading(Append(Append(s, head), tail)) \in Read
        /\ Reading(Append(Append(s, head), tail)) =
             [events |-> Reading(Append(s, head)).events,
              data |-> Append(Reading(Append(s, head)).data, tail)]
    BY <1>2, <2>2, LineRead
  <2>4. Append(Append(<<>>, head), tail) = <<head, tail>>
    BY <1>2, OneThenTwo
  <2>5. /\ Reading(Append(s, head)).events = Reading(s).events
        /\ Reading(Append(s, head)).data = Append(<<>>, head)
    BY <2>2
  <2>. QED BY <1>3, <1>4, <1>5, <2>1, <2>3, <2>4, <2>5
<1>6. CASE ~split
  <2>1. s \o Event(m, split) = Append(s, whole)
    BY <1>1, <1>2, <1>3, <1>6
  <2>2. /\ Reading(Append(s, whole)) \in Read
        /\ Reading(Append(s, whole)) = [events |-> Reading(s).events, data |-> Append(<<>>, whole)]
    BY <1>1, <1>2, LineRead
  <2>3. Append(<<>>, whole) = <<whole>>
    BY <1>2, OneThenTwo
  <2>. QED BY <1>3, <1>4, <1>6, <2>1, <2>2, <2>3
<1>. QED BY <1>5, <1>6

\* A whole event more.
LEMMA EventCloses ==
  ASSUME NEW s, Whole(s), NEW m \in Messages, NEW split \in BOOLEAN
  PROVE  /\ Whole(s \o (Event(m, split) \o <<Blank>>))
         /\ Reading(s \o (Event(m, split) \o <<Blank>>)).events =
              Append(Reading(s).events, Event(m, split))
<1>. DEFINE e == Event(m, split)
            r == s \o e
<1>1. /\ r \in Seq(Lines) /\ e \in Seq(Lines) /\ e # <<>> /\ Reading(r) \in Read
      /\ Reading(r) = [events |-> Reading(s).events, data |-> e]
  BY EventOpens
<1>2. Blank \in Lines /\ Blank.kind = "blank"
  BY MessageLines
<1>3. s \in Seq(Lines)
  BY DEF Whole
<1>. HIDE DEF e, r
<1>4. /\ Append(r, Blank) \in Seq(Lines) /\ Reading(Append(r, Blank)) \in Read
      /\ Reading(Append(r, Blank)) = [events |-> Append(Reading(s).events, e), data |-> <<>>]
  <2>1. Reading(r).events = Reading(s).events /\ Reading(r).data = e
    BY <1>1
  <2>. QED BY <1>1, <1>2, <2>1, LineRead
<1>5. s \o (e \o <<Blank>>) = Append(r, Blank)
  BY <1>1, <1>2, <1>3 DEF r
<1>6. /\ Reading(Append(r, Blank)).data = <<>>
      /\ Reading(Append(r, Blank)).events = Append(Reading(s).events, e)
  BY <1>4
<1>7. Whole(Append(r, Blank))
  BY <1>4, <1>6 DEF Whole
<1>. QED BY <1>5, <1>6, <1>7 DEF e

\* A priming event holds data that is no message.
LEMMA PrimingCloses ==
  ASSUME NEW s, Whole(s)
  PROVE  /\ Whole(s \o Priming)
         /\ Reading(s \o Priming).events = Append(Reading(s).events, <<Empty>>)
<1>1. s \in Seq(Lines) /\ Reading(s) \in Read /\ Reading(s).data = <<>>
  BY DEF Whole
<1>2. /\ Empty \in Lines /\ Empty.kind = "data"
      /\ Blank \in Lines /\ Blank.kind = "blank"
      /\ Other \in Lines /\ Other.kind = "other"
  BY DEF Messages, Lines, Empty, Blank, Other, Notification
<1>. DEFINE a == Append(s, Other)
            b == Append(a, Empty)
            c == Append(b, Blank)
<1>3. s \o Priming = c
  BY <1>1, <1>2 DEF Priming
<1>4. /\ a \in Seq(Lines) /\ Reading(a) \in Read
      /\ Reading(a).data = <<>> /\ Reading(a).events = Reading(s).events
  BY <1>1, <1>2, LineRead
<1>. HIDE DEF a
<1>5. /\ b \in Seq(Lines) /\ Reading(b) \in Read
      /\ Reading(b) = [events |-> Reading(s).events, data |-> Append(<<>>, Empty)]
  BY <1>1, <1>2, <1>4, LineRead
<1>. HIDE DEF b
<1>6. Append(<<>>, Empty) = <<Empty>> /\ <<Empty>> # <<>>
  BY <1>2, OneThenTwo
<1>7. Reading(b).events = Reading(s).events /\ Reading(b).data = <<Empty>>
  BY <1>5, <1>6
<1>8. /\ c \in Seq(Lines) /\ Reading(c) \in Read
      /\ Reading(c) = [events |-> Append(Reading(s).events, <<Empty>>), data |-> <<>>]
  BY <1>2, <1>5, <1>6, <1>7, LineRead
<1>. QED BY <1>3, <1>8 DEF Whole

-----------------------------------------------------------------------------
(* The messages of a body, and the one extract_message finds.              *)

MessagesOf(body) == {body[i].message : i \in DOMAIN body}

LEMMA MessagesOfConcat ==
  ASSUME NEW s \in Seq(Lines), NEW r \in Seq(Lines)
  PROVE  MessagesOf(s \o r) = MessagesOf(s) \cup MessagesOf(r)
<1>. DEFINE c == s \o r
            n == Len(s)
<1>1. /\ DOMAIN c = 1..(n + Len(r)) /\ DOMAIN s = 1..n /\ DOMAIN r = 1..Len(r)
      /\ n \in Nat /\ Len(r) \in Nat
      /\ \A i \in 1..n : c[i] = s[i]
      /\ \A i \in 1..Len(r) : c[n + i] = r[i]
  OBVIOUS
<1>. HIDE DEF c, n
<1>2. ASSUME NEW i \in DOMAIN c PROVE c[i].message \in MessagesOf(s) \cup MessagesOf(r)
  <2>1. CASE i \in 1..n
    BY <1>1, <2>1 DEF MessagesOf
  <2>2. CASE i \notin 1..n
    <3>. DEFINE j == i - n
    <3>1. j \in 1..Len(r) /\ i = n + j
      BY <1>1, <2>2
    <3>2. c[i] = r[j]
      BY <1>1, <3>1
    <3>. QED BY <1>1, <3>1, <3>2 DEF MessagesOf
  <2>. QED BY <2>1, <2>2
<1>3. ASSUME NEW i \in DOMAIN s PROVE s[i].message \in MessagesOf(c)
  BY <1>1 DEF MessagesOf
<1>4. ASSUME NEW i \in DOMAIN r PROVE r[i].message \in MessagesOf(c)
  <2>1. n + i \in DOMAIN c /\ c[n + i] = r[i]
    BY <1>1
  <2>. QED BY <2>1 DEF MessagesOf
<1>5. MessagesOf(c) \subseteq MessagesOf(s) \cup MessagesOf(r)
  BY <1>2 DEF MessagesOf
<1>6. MessagesOf(s) \subseteq MessagesOf(c) /\ MessagesOf(r) \subseteq MessagesOf(c)
  BY <1>3, <1>4 DEF MessagesOf
<1>. QED BY <1>5, <1>6 DEF c

\* What an event, a priming event, a blank line and nothing carry.
LEMMA MessagesOfPieces ==
  ASSUME NEW m \in Messages
  PROVE  /\ \A split \in BOOLEAN : MessagesOf(Event(m, split)) = {m}
         /\ \A part : MessagesOf(<<Data(m, part)>>) = {m}
         /\ MessagesOf(Priming) = {Notification}
         /\ MessagesOf(<<Blank>>) = {Notification}
         /\ MessagesOf(<<>>) = {}
<1>1. ASSUME NEW split \in BOOLEAN PROVE MessagesOf(Event(m, split)) = {m}
  BY DEF MessagesOf, Event, Data
<1>2. MessagesOf(Priming) = {Notification}
  BY DEF MessagesOf, Priming, Other, Empty, Blank
<1>3. MessagesOf(<<Blank>>) = {Notification} /\ MessagesOf(<<>>) = {}
  BY DEF MessagesOf, Blank
<1>4. ASSUME NEW part PROVE MessagesOf(<<Data(m, part)>>) = {m}
  BY DEF MessagesOf, Data
<1>. QED BY <1>1, <1>2, <1>3, <1>4

\* None of the events is a message with this id.
Foreign(events, i) == \A k \in DOMAIN events : Parses(events[k]) => events[k][1].message.id # i

LEMMA ForeignAppend ==
  ASSUME NEW events \in Seq(Seq(Lines)), NEW e \in Seq(Lines), NEW i, Foreign(events, i),
         Parses(e) => e[1].message.id # i
  PROVE  Foreign(Append(events, e), i)
<1>1. /\ DOMAIN Append(events, e) = 1..(Len(events) + 1) /\ DOMAIN events = 1..Len(events)
      /\ Append(events, e)[Len(events) + 1] = e
      /\ \A k \in 1..Len(events) : Append(events, e)[k] = events[k]
  OBVIOUS
<1>2. ASSUME NEW k \in 1..(Len(events) + 1), Parses(Append(events, e)[k])
      PROVE  Append(events, e)[k][1].message.id # i
  <2>1. CASE k = Len(events) + 1
    BY <1>1, <1>2, <2>1
  <2>2. CASE k \in 1..Len(events)
    BY <1>1, <1>2, <2>2 DEF Foreign
  <2>. QED BY <2>1, <2>2
<1>. QED BY <1>1, <1>2 DEF Foreign

\* The one event with the id is found behind any number of others, and none
\* is found among the others alone.
LEMMA FindsOwn ==
  ASSUME NEW answer, answer.form = "sse", NEW i, NEW events \in Seq(Seq(Lines)), Foreign(events, i)
  PROVE  /\ sse_events(answer.body) = events => extract_message(answer, i) = {}
         /\ \A e \in Seq(Lines) :
              sse_events(answer.body) = Append(events, e) /\ Parses(e) /\ e[1].message.id = i
              => extract_message(answer, i) = {e[1].message}
<1>1. ASSUME sse_events(answer.body) = events PROVE extract_message(answer, i) = {}
  BY <1>1 DEF extract_message, Foreign
<1>2. ASSUME NEW e \in Seq(Lines), sse_events(answer.body) = Append(events, e),
             Parses(e), e[1].message.id = i
      PROVE  extract_message(answer, i) = {e[1].message}
  <2>. DEFINE all == Append(events, e)
              n == Len(events) + 1
              found == {k \in DOMAIN all : Parses(all[k]) /\ all[k][1].message.id = i}
  <2>1. /\ n \in Nat /\ DOMAIN all = 1..n /\ all[n] = e
        /\ \A k \in 1..n : k # n => k \in DOMAIN events /\ all[k] = events[k]
    OBVIOUS
  <2>2. found = {n}
    <3>1. n \in found
      BY <1>2, <2>1
    <3>2. ASSUME NEW k \in found PROVE k = n
      <4>1. k \in 1..n /\ Parses(all[k]) /\ all[k][1].message.id = i
        BY <2>1
      <4>. HIDE DEF all, n, found
      <4>. QED BY <2>1, <4>1 DEF Foreign
    <3>. HIDE DEF found
    <3>. QED BY <3>1, <3>2
  <2>3. extract_message(answer, i) = {all[k][1].message : k \in {f \in found : \A g \in found : f <= g}}
    BY <1>2 DEF extract_message
  <2>. HIDE DEF all, n, found
  <2>4. {f \in found : \A g \in found : f <= g} = {n}
    BY <2>1, <2>2
  <2>. QED BY <2>1, <2>3, <2>4
<1>. QED BY <1>1, <1>2

-----------------------------------------------------------------------------
(* McpExchange: the invariant.                                             *)

Forms == {"none", "json", "failed", "text", "sse"}

ExchangeType ==
  /\ next_id \in Nat \ {0}
  /\ stage \in [Tasks -> {"idle", "sent", "answered", "done"}]
  /\ id \in [Tasks -> Nat]
  /\ page \in [Tasks -> Nat]
  /\ reply \in [Tasks -> [form : Forms, body : Seq(Lines)]]
  /\ tools \in [Tasks -> Seq(Nat)]
  /\ got \in [Tasks -> SUBSET Messages]

\* No two requests have one id, and none the id of a notification.
IdsDiffer ==
  /\ \A t \in Tasks : id[t] < next_id /\ (stage[t] # "idle" => id[t] # 0)
  /\ \A t, u \in Tasks : t # u /\ id[t] = id[u] => id[t] = 0

\* What travels ahead of a response is whole events, none of them t's.
AheadIsForeign(t) ==
  /\ Whole(reply[t].body)
  /\ \A m \in MessagesOf(reply[t].body) : m.to # {t}
  /\ Foreign(Reading(reply[t].body).events, id[t])

\* An answered request finds its own response, if it is there, and nothing else.
FindsItsOwn(t) ==
  /\ extract_message(reply[t], id[t]) = {m \in Own(t) : reply[t].form \in {"json", "sse"}}
  /\ \A m \in Own(t) : m.page = page[t]

\* The pages collected are those before the one asked for.
PagesSoFar(t) ==
  /\ page[t] \in 1..Pages
  /\ \A k \in DOMAIN tools[t] : tools[t][k] = k
  /\ stage[t] # "done" => Len(tools[t]) = page[t] - 1
  /\ stage[t] = "done" /\ got[t] # {} => Len(tools[t]) = Pages

TaskInv(t) ==
  /\ stage[t] = "idle" => reply[t] = NoReply
  /\ stage[t] = "sent" => AheadIsForeign(t)
  /\ stage[t] \in {"answered", "done"} => FindsItsOwn(t)
  /\ stage[t] = "done" =>
       got[t] = {m \in Own(t) : reply[t].form \in {"json", "sse"} /\ (m.ok \/ t \notin Listing)}
  /\ t \in Listing => PagesSoFar(t)

ExchangeInv == ExchangeType /\ IdsDiffer /\ \A t \in Tasks : TaskInv(t)

LEMMA EmptyBody ==
  /\ NoReply \in [form : Forms, body : Seq(Lines)] /\ NoReply.form = "none" /\ NoReply.body = <<>>
  /\ Whole(<<>>) /\ MessagesOf(<<>>) = {} /\ Reading(<<>>).events = <<>>
  /\ \A i : Foreign(<<>>, i)
<1>1. Reading(<<>>) = [events |-> <<>>, data |-> <<>>]
  BY ReadingAppend DEF Nothing
<1>2. <<>> \in Seq(Lines) /\ <<>> \in Seq(Seq(Lines))
  OBVIOUS
<1>3. Reading(<<>>).data = <<>> /\ Reading(<<>>).events = <<>>
  BY <1>1
<1>4. Reading(<<>>) \in Read
  <2>1. \A e \in Seq(Seq(Lines)), d \in Seq(Lines) : [events |-> e, data |-> d] \in Read
    BY DEF Read
  <2>. QED BY <1>1, <1>2, <2>1
<1>5. Whole(<<>>)
  BY <1>2, <1>3, <1>4 DEF Whole
<1>. QED BY <1>2, <1>3, <1>5 DEF NoReply, Forms, Foreign, MessagesOf

\* A task nobody touched keeps what held of it.
LEMMA TaskUntouched ==
  ASSUME NEW u \in Tasks, TaskInv(u),
         stage'[u] = stage[u], reply'[u] = reply[u], id'[u] = id[u],
         page'[u] = page[u], tools'[u] = tools[u], got'[u] = got[u]
  PROVE  TaskInv(u)'
<1>1. Own(u)' = Own(u)
  BY DEF Own
<1>2. AheadIsForeign(u) => AheadIsForeign(u)'
  BY DEF AheadIsForeign
<1>3. FindsItsOwn(u) => FindsItsOwn(u)'
  BY <1>1 DEF FindsItsOwn
<1>4. PagesSoFar(u) => PagesSoFar(u)'
  BY DEF PagesSoFar
<1>. QED BY <1>1, <1>2, <1>3, <1>4 DEF TaskInv

LEMMA ExchangeInitInv == ExchangeInit => ExchangeInv
<1>. SUFFICES ASSUME ExchangeInit PROVE ExchangeInv
  OBVIOUS
<1>1. ExchangeType
  BY EmptyBody DEF ExchangeInit, ExchangeType
<1>2. IdsDiffer
  BY DEF ExchangeInit, IdsDiffer
<1>3. ASSUME NEW t \in Tasks PROVE TaskInv(t)
  BY ExchangeAssumption DEF ExchangeInit, TaskInv, PagesSoFar
<1>. QED BY <1>1, <1>2, <1>3 DEF ExchangeInv

\* A new request has an id of its own, and nothing of its answer is there yet.
LEMMA RequestInv ==
  ASSUME ExchangeInv, NEW t \in Tasks, Request(t)
  PROVE  ExchangeInv'
<1>1. ExchangeType'
  BY DEF ExchangeInv, ExchangeType, Request
<1>2. IdsDiffer'
  BY DEF ExchangeInv, ExchangeType, IdsDiffer, Request
<1>3. ASSUME NEW u \in Tasks, u # t PROVE TaskInv(u)'
  <2>1. TaskInv(u)
    BY DEF ExchangeInv
  <2>. QED BY <1>3, <2>1, TaskUntouched DEF ExchangeInv, ExchangeType, Request
<1>4. TaskInv(t)'
  <2>1. /\ TaskInv(t) /\ stage[t] = "idle" /\ stage'[t] = "sent" /\ reply'[t] = reply[t]
        /\ page'[t] = page[t] /\ tools'[t] = tools[t] /\ got'[t] = got[t]
    BY DEF ExchangeInv, ExchangeType, Request
  <2>2. reply'[t].body = <<>>
    BY <2>1, EmptyBody DEF TaskInv
  <2>3. AheadIsForeign(t)'
    BY <2>2, EmptyBody DEF AheadIsForeign
  <2>4. (t \in Listing => PagesSoFar(t))'
    BY <2>1 DEF TaskInv, PagesSoFar
  <2>. QED BY <2>1, <2>3, <2>4 DEF TaskInv
<1>. QED BY <1>1, <1>2, <1>3, <1>4 DEF ExchangeInv

\* A whole event more, or a priming event, with no message of this id.
LEMMA AheadStaysForeign ==
  ASSUME NEW b, Whole(b), NEW i, Foreign(Reading(b).events, i), i # 0,
         NEW m \in Messages, m.id # i, NEW split \in BOOLEAN
  PROVE  /\ Event(m, split) \o <<Blank>> \in Seq(Lines) /\ Priming \in Seq(Lines)
         /\ Whole(b \o (Event(m, split) \o <<Blank>>)) /\ Whole(b \o Priming)
         /\ Foreign(Reading(b \o (Event(m, split) \o <<Blank>>)).events, i)
         /\ Foreign(Reading(b \o Priming).events, i)
         /\ MessagesOf(b \o (Event(m, split) \o <<Blank>>)) = MessagesOf(b) \cup {m, Notification}
         /\ MessagesOf(b \o Priming) = MessagesOf(b) \cup {Notification}
<1>. DEFINE events == Reading(b).events
            e == Event(m, split)
            p == <<Empty>>
<1>1. b \in Seq(Lines) /\ events \in Seq(Seq(Lines)) /\ Foreign(events, i)
  BY DEF Whole, Read
<1>2. /\ Blank \in Lines /\ Empty \in Lines /\ Other \in Lines
      /\ <<Blank>> \in Seq(Lines) /\ Priming \in Seq(Lines)
  BY MessageLines DEF Priming
<1>3. e \in Seq(Lines) /\ e[1].message = m
  BY EventOpens
<1>4. p \in Seq(Lines) /\ ~Parses(p)
  BY <1>2 DEF Parses, Empty
<1>5. /\ Whole(b \o (e \o <<Blank>>)) /\ Reading(b \o (e \o <<Blank>>)).events = Append(events, e)
      /\ Whole(b \o Priming) /\ Reading(b \o Priming).events = Append(events, p)
  BY EventCloses, PrimingCloses
<1>6. MessagesOf(e) = {m} /\ MessagesOf(<<Blank>>) = {Notification} /\ MessagesOf(Priming) = {Notification}
  BY MessagesOfPieces
<1>. HIDE DEF events, e, p
<1>7. Foreign(Append(events, e), i) /\ Foreign(Append(events, p), i)
  BY <1>1, <1>3, <1>4, ForeignAppend
<1>8. e \o <<Blank>> \in Seq(Lines) /\ MessagesOf(e \o <<Blank>>) = {m, Notification}
  <2>1. MessagesOf(e \o <<Blank>>) = MessagesOf(e) \cup MessagesOf(<<Blank>>)
    BY <1>2, <1>3, MessagesOfConcat
  <2>. QED BY <1>2, <1>3, <1>6, <2>1
<1>9. /\ MessagesOf(b \o (e \o <<Blank>>)) = MessagesOf(b) \cup MessagesOf(e \o <<Blank>>)
      /\ MessagesOf(b \o Priming) = MessagesOf(b) \cup MessagesOf(Priming)
  BY <1>1, <1>2, <1>8, MessagesOfConcat
<1>. QED BY <1>2, <1>5, <1>6, <1>7, <1>8, <1>9 DEF e

\* What is sent ahead is nothing of the task's own.
LEMMA OthersForeign ==
  ASSUME ExchangeInv, NEW t \in Tasks, stage[t] = "sent", NEW m \in Others(t)
  PROVE  m \in Messages /\ m.to # {t} /\ m.id # id[t]
<1>1. id[t] # 0
  BY DEF ExchangeInv, IdsDiffer
<1>2. CASE m = Notification
  BY <1>1, <1>2 DEF Notification, Messages
<1>3. CASE m # Notification
  <2>1. PICK u \in Tasks \ {t}, ok \in BOOLEAN : m = Response(u, ok)
    BY <1>3 DEF Others
  <2>2. id[u] # id[t]
    BY <1>1, <2>1 DEF ExchangeInv, IdsDiffer
  <2>3. id[u] \in Nat /\ page[u] \in Nat /\ {u} \in SUBSET Tasks /\ {u} # {t}
    BY <2>1 DEF ExchangeInv, ExchangeType
  <2>. QED BY <2>1, <2>2, <2>3 DEF Response, Messages
<1>. QED BY <1>2, <1>3

\* Whatever else the server sends first is a whole event of another's.
LEMMA PushInv ==
  ASSUME ExchangeInv, NEW t \in Tasks, Push(t)
  PROVE  ExchangeInv'
<1>1. /\ stage[t] = "sent" /\ reply[t] \in [form : Forms, body : Seq(Lines)] /\ id[t] # 0
      /\ TaskInv(t) /\ AheadIsForeign(t)
  BY DEF Push, ExchangeInv, ExchangeType, IdsDiffer, TaskInv
<1>2. PICK ahead \in Ahead(t) :
        reply' = [reply EXCEPT ![t] = [form |-> "sse", body |-> reply[t].body \o ahead]]
  BY DEF Push
<1>3. /\ Whole(reply[t].body) /\ Foreign(Reading(reply[t].body).events, id[t])
      /\ reply[t].body \in Seq(Lines) /\ \A m \in MessagesOf(reply[t].body) : m.to # {t}
  BY <1>1 DEF AheadIsForeign, Whole
<1>b. PICK b : b = reply[t].body
  OBVIOUS
<1>i. PICK i : i = id[t]
  OBVIOUS
<1>c. PICK c : c = b \o ahead
  OBVIOUS
<1>4. /\ ahead \in Seq(Lines) /\ Whole(c) /\ Foreign(Reading(c).events, i)
      /\ \A m \in MessagesOf(c) : m.to # {t}
  <2>1. Notification \in Messages /\ Notification.to # {t} /\ Notification.id # i
    BY <1>1, <1>i DEF Notification, Messages
  <2>2. /\ Whole(b) /\ Foreign(Reading(b).events, i) /\ i # 0
        /\ \A m \in MessagesOf(b) : m.to # {t}
    BY <1>1, <1>3, <1>b, <1>i
  <2>3. CASE ahead = Priming
    <3>1. /\ Priming \in Seq(Lines) /\ Whole(b \o Priming)
          /\ Foreign(Reading(b \o Priming).events, i)
          /\ MessagesOf(b \o Priming) = MessagesOf(b) \cup {Notification}
      BY <2>1, <2>2, AheadStaysForeign
    <3>. QED BY <1>c, <2>1, <2>2, <2>3, <3>1
  <2>4. CASE ahead # Priming
    <3>1. PICK m \in Others(t), split \in BOOLEAN : ahead = Event(m, split) \o <<Blank>>
      BY <2>4 DEF Ahead
    <3>2. m \in Messages /\ m.to # {t} /\ m.id # i
      BY <1>1, <1>i, <3>1, OthersForeign
    <3>3. /\ ahead \in Seq(Lines) /\ Whole(c) /\ Foreign(Reading(c).events, i)
          /\ MessagesOf(c) = MessagesOf(b) \cup {m, Notification}
      BY <1>c, <2>2, <3>1, <3>2, AheadStaysForeign
    <3>. QED BY <2>1, <2>2, <3>2, <3>3
  <2>. QED BY <2>3, <2>4
<1>5. c \in Seq(Lines)
  BY <1>4 DEF Whole
<1>6. reply' = [reply EXCEPT ![t] = [form |-> "sse", body |-> c]]
  BY <1>2, <1>b, <1>c
<1>7. reply'[t].body = c /\ reply'[t].form = "sse"
  BY <1>6 DEF ExchangeInv, ExchangeType
<1>8. UNCHANGED <<next_id, stage, id, page, tools, got>>
  BY DEF Push
<1>9. AheadIsForeign(t)'
  BY <1>4, <1>7, <1>8, <1>i DEF AheadIsForeign
<1>10. ExchangeType'
  <2>1. [form |-> "sse", body |-> c] \in [form : Forms, body : Seq(Lines)]
    BY <1>5 DEF Forms
  <2>. QED BY <1>6, <1>8, <2>1 DEF ExchangeInv, ExchangeType
<1>11. IdsDiffer'
  BY <1>8 DEF ExchangeInv, IdsDiffer
<1>12. ASSUME NEW u \in Tasks, u # t PROVE TaskInv(u)'
  <2>1. TaskInv(u)
    BY DEF ExchangeInv
  <2>. QED BY <1>6, <1>8, <1>12, <2>1, TaskUntouched DEF ExchangeInv, ExchangeType
<1>13. TaskInv(t)'
  BY <1>1, <1>8, <1>9 DEF TaskInv, PagesSoFar
<1>. QED BY <1>10, <1>11, <1>12, <1>13 DEF ExchangeInv

\* A stream that ends with whole events, and one that ends with its response,
\* whether the response's event is closed or the body's end closes it.
LEMMA StreamEnds ==
  ASSUME NEW b, Whole(b), NEW m \in Messages, NEW split \in BOOLEAN, NEW ended \in BOOLEAN
  PROVE  LET body == b \o Event(m, split) \o (IF ended THEN <<Blank>> ELSE <<>>)
         IN  /\ sse_events(b) = Reading(b).events
             /\ body \in Seq(Lines)
             /\ sse_events(body) = Append(Reading(b).events, Event(m, split))
             /\ MessagesOf(body) \subseteq MessagesOf(b) \cup {m, Notification}
             /\ m \in MessagesOf(body)
<1>1. Blank \in Lines /\ Blank.kind = "blank"
  BY MessageLines
<1>2. b \in Seq(Lines) /\ Reading(b) \in Read /\ Reading(b).data = <<>>
  BY DEF Whole
<1>3. sse_events(b) = Reading(b).events
  BY <1>1, <1>2, LineRead DEF sse_events
<1>. DEFINE e == Event(m, split)
            r == b \o e
<1>4. /\ r \in Seq(Lines) /\ e \in Seq(Lines) /\ e # <<>> /\ Reading(r) \in Read
      /\ Reading(r) = [events |-> Reading(b).events, data |-> e]
  BY EventOpens
<1>5. MessagesOf(e) = {m} /\ MessagesOf(<<Blank>>) = {Notification}
  BY MessagesOfPieces
<1>. HIDE DEF e
<1>6. MessagesOf(r) = MessagesOf(b) \cup {m}
  BY <1>2, <1>4, <1>5, MessagesOfConcat
<1>. HIDE DEF r
<1>7. Reading(r).events = Reading(b).events /\ Reading(r).data = e
  BY <1>4
<1>8. /\ Append(r, Blank) \in Seq(Lines) /\ Reading(Append(r, Blank)) \in Read
      /\ Reading(Append(r, Blank)) = [events |-> Append(Reading(b).events, e), data |-> <<>>]
  BY <1>1, <1>4, <1>7, LineRead
<1>9. /\ Reading(Append(r, Blank)).data = <<>>
      /\ Reading(Append(r, Blank)).events = Append(Reading(b).events, e)
  BY <1>8
<1>10. CASE ~ended
  <2>1. r \o <<>> = r
    BY <1>4
  <2>2. sse_events(r) = Append(Reading(b).events, e)
    BY <1>9 DEF sse_events
  <2>. QED BY <1>3, <1>4, <1>6, <1>10, <2>1, <2>2 DEF r, e
<1>11. CASE ended
  <2>1. r \o <<Blank>> = Append(r, Blank) /\ <<Blank>> \in Seq(Lines)
    BY <1>1, <1>4
  <2>2. sse_events(Append(r, Blank)) = Append(Reading(b).events, e)
    <3>. DEFINE w == Append(r, Blank)
    <3>1. w \in Seq(Lines) /\ Reading(w) \in Read /\ Reading(w).data = <<>>
      BY <1>8, <1>9
    <3>. HIDE DEF w
    <3>2. sse_events(w) = Reading(w).events
      BY <1>1, <3>1, LineRead DEF sse_events
    <3>. QED BY <1>9, <3>2 DEF w
  <2>3. MessagesOf(r \o <<Blank>>) = MessagesOf(r) \cup {Notification}
    <3>1. PICK x : x = <<Blank>>
      OBVIOUS
    <3>2. MessagesOf(r \o x) = MessagesOf(r) \cup MessagesOf(x)
      BY <1>4, <2>1, <3>1, MessagesOfConcat
    <3>. QED BY <1>5, <3>1, <3>2
  <2>. QED BY <1>3, <1>6, <1>8, <1>11, <2>1, <2>2, <2>3 DEF r, e
<1>. QED BY <1>10, <1>11

\* However a POST is answered, the request finds its own response in it or none.
LEMMA ReplyFinds ==
  ASSUME ExchangeInv, NEW t \in Tasks, Reply(t)
  PROVE  /\ \A u \in Tasks : u # t => reply'[u] = reply[u]
         /\ reply' \in [Tasks -> [form : Forms, body : Seq(Lines)]]
         /\ FindsItsOwn(t)'
<1>1. /\ stage[t] = "sent" /\ AheadIsForeign(t) /\ reply \in [Tasks -> [form : Forms, body : Seq(Lines)]]
      /\ id' = id /\ page' = page
  BY DEF Reply, ExchangeInv, ExchangeType, TaskInv
<1>2. PICK b : b = reply[t].body
  OBVIOUS
<1>3. PICK i : i = id[t]
  OBVIOUS
<1>4. /\ Whole(b) /\ Foreign(Reading(b).events, i) /\ \A m \in MessagesOf(b) : m.to # {t}
      /\ b \in Seq(Lines) /\ Reading(b).events \in Seq(Seq(Lines)) /\ Reading(b) \in Read
  BY <1>1, <1>2, <1>3 DEF AheadIsForeign, Whole, Read
<1>5. ASSUME NEW ok \in BOOLEAN
      PROVE  /\ Response(t, ok) \in Messages /\ Response(t, ok).id = i /\ Response(t, ok).to = {t}
             /\ Response(t, ok).page = page[t]
  BY <1>3 DEF ExchangeInv, ExchangeType, Response, Messages
<1>6. Notification.to # {t}
  BY DEF Notification
<1>7. Own(t)' = {m \in MessagesOf(reply'[t].body) : m.to = {t}}
  BY DEF Own, MessagesOf
<1>8. FindsItsOwn(t)' <=>
        /\ extract_message(reply'[t], i) =
             {m \in MessagesOf(reply'[t].body) : m.to = {t} /\ reply'[t].form \in {"json", "sse"}}
        /\ \A m \in MessagesOf(reply'[t].body) : m.to = {t} => m.page = page[t]
  BY <1>1, <1>3, <1>7 DEF FindsItsOwn
<1>9. ASSUME NEW ok \in BOOLEAN,
             reply' = [reply EXCEPT ![t] =
                         [form |-> "json", body |-> <<Data(Response(t, ok), "whole")>>]]
      PROVE  /\ \A u \in Tasks : u # t => reply'[u] = reply[u]
             /\ reply' \in [Tasks -> [form : Forms, body : Seq(Lines)]]
             /\ FindsItsOwn(t)'
  <2>1. PICK m \in Messages : m = Response(t, ok)
    BY <1>5
  <2>2. Data(m, "whole") \in Lines /\ Data(m, "whole").message = m
    BY MessageLines
  <2>3. <<Data(m, "whole")>> \in Seq(Lines) /\ <<Data(m, "whole")>>[1].message = m
    BY <2>2
  <2>4. reply'[t] = [form |-> "json", body |-> <<Data(m, "whole")>>]
    BY <1>1, <1>9, <2>1
  <2>5. extract_message(reply'[t], i) = {m}
    BY <1>5, <2>1, <2>3, <2>4 DEF extract_message
  <2>6. MessagesOf(reply'[t].body) = {m}
    BY <2>4, MessagesOfPieces
  <2>7. FindsItsOwn(t)'
    BY <1>5, <1>8, <2>1, <2>4, <2>5, <2>6
  <2>8. [form |-> "json", body |-> <<Data(m, "whole")>>] \in [form : Forms, body : Seq(Lines)]
    BY <2>3 DEF Forms
  <2>. QED BY <1>1, <1>9, <2>1, <2>7, <2>8
<1>10. ASSUME NEW form \in {"failed", "text"},
              reply' = [reply EXCEPT ![t] = [form |-> form, body |-> <<>>]]
       PROVE  /\ \A u \in Tasks : u # t => reply'[u] = reply[u]
              /\ reply' \in [Tasks -> [form : Forms, body : Seq(Lines)]]
              /\ FindsItsOwn(t)'
  <2>1. reply'[t] = [form |-> form, body |-> <<>>]
    BY <1>1, <1>10
  <2>2. extract_message(reply'[t], i) = {}
    BY <2>1 DEF extract_message
  <2>3. MessagesOf(reply'[t].body) = {}
    BY <2>1, EmptyBody
  <2>4. <<>> \in Seq(Lines)
    OBVIOUS
  <2>5. [form |-> form, body |-> <<>>] \in [form : Forms, body : Seq(Lines)]
    BY <2>4 DEF Forms
  <2>6. FindsItsOwn(t)'
    BY <1>8, <2>1, <2>2, <2>3
  <2>. QED BY <1>1, <1>10, <2>5, <2>6
<1>11. ASSUME NEW split \in BOOLEAN, NEW ended \in BOOLEAN, NEW ok \in BOOLEAN,
              reply' = [reply EXCEPT ![t] =
                [form |-> "sse",
                 body |-> reply[t].body \o Event(Response(t, ok), split)
                          \o (IF ended THEN <<Blank>> ELSE <<>>)]]
       PROVE  /\ \A u \in Tasks : u # t => reply'[u] = reply[u]
              /\ reply' \in [Tasks -> [form : Forms, body : Seq(Lines)]]
              /\ FindsItsOwn(t)'
  <2>1. PICK m \in Messages : m = Response(t, ok)
    BY <1>5
  <2>2. PICK body : body = b \o Event(m, split) \o (IF ended THEN <<Blank>> ELSE <<>>)
    OBVIOUS
  <2>3. /\ body \in Seq(Lines)
        /\ sse_events(body) = Append(Reading(b).events, Event(m, split))
        /\ MessagesOf(body) \subseteq MessagesOf(b) \cup {m, Notification}
        /\ m \in MessagesOf(body)
    BY <1>4, <2>2, StreamEnds
  <2>4. reply'[t] = [form |-> "sse", body |-> body]
    BY <1>1, <1>2, <1>11, <2>1, <2>2
  <2>5. /\ Event(m, split) \in Seq(Lines) /\ Parses(Event(m, split))
        /\ Event(m, split)[1].message = m
    BY <1>4, EventOpens
  <2>6. extract_message(reply'[t], i) = {m}
    <3>1. PICK answer : answer = reply'[t]
      OBVIOUS
    <3>2. answer.form = "sse" /\ answer.body = body
      BY <2>4, <3>1
    <3>3. m.id = i
      BY <1>5, <2>1
    <3>4. PICK e \in Seq(Lines) : e = Event(m, split)
      BY <2>5
    <3>5. /\ sse_events(answer.body) = Append(Reading(b).events, e) /\ Parses(e)
          /\ e[1].message = m /\ e[1].message.id = i
      BY <2>3, <2>5, <3>2, <3>3, <3>4
    <3>6. PICK events \in Seq(Seq(Lines)) : events = Reading(b).events
      BY <1>4
    <3>7. Foreign(events, i) /\ sse_events(answer.body) = Append(events, e)
      BY <1>4, <3>5, <3>6
    <3>8. extract_message(answer, i) = {e[1].message}
      BY <3>2, <3>5, <3>7, FindsOwn
    <3>. QED BY <3>1, <3>5, <3>8
  <2>7. FindsItsOwn(t)'
    <3>1. {n \in MessagesOf(body) : n.to = {t}} = {m} /\ m.page = page[t]
      BY <1>4, <1>5, <1>6, <2>1, <2>3
    <3>. QED BY <1>8, <2>4, <2>6, <3>1
  <2>. QED BY <1>1, <1>11, <2>3, <2>4, <2>7 DEF Forms
<1>12. ASSUME reply' = [reply EXCEPT ![t].form = "sse"]
       PROVE  /\ \A u \in Tasks : u # t => reply'[u] = reply[u]
              /\ reply' \in [Tasks -> [form : Forms, body : Seq(Lines)]]
              /\ FindsItsOwn(t)'
  <2>1. reply'[t] = [form |-> "sse", body |-> b]
    BY <1>1, <1>2, <1>12
  <2>2. sse_events(b) = Reading(b).events
    <3>1. Notification \in Messages
      BY DEF Notification, Messages
    <3>. QED BY <1>4, <3>1, StreamEnds
  <2>3. extract_message(reply'[t], i) = {}
    <3>1. PICK answer : answer = reply'[t]
      OBVIOUS
    <3>. QED BY <1>4, <2>1, <2>2, <3>1, FindsOwn
  <2>4. FindsItsOwn(t)'
    BY <1>4, <1>8, <2>1, <2>3
  <2>. QED BY <1>1, <1>4, <1>12, <2>1, <2>4 DEF Forms
<1>. QED BY <1>9, <1>10, <1>11, <1>12 DEF Reply

LEMMA ReplyInv ==
  ASSUME ExchangeInv, NEW t \in Tasks, Reply(t)
  PROVE  ExchangeInv'
<1>1. /\ \A u \in Tasks : u # t => reply'[u] = reply[u]
      /\ reply' \in [Tasks -> [form : Forms, body : Seq(Lines)]]
      /\ FindsItsOwn(t)'
  BY ReplyFinds
<1>2. /\ stage[t] = "sent" /\ stage' = [stage EXCEPT ![t] = "answered"]
      /\ UNCHANGED <<next_id, id, page, tools, got>>
  BY DEF Reply
<1>3. ExchangeType'
  BY <1>1, <1>2 DEF ExchangeInv, ExchangeType
<1>4. IdsDiffer'
  BY <1>2 DEF ExchangeInv, ExchangeType, IdsDiffer
<1>5. ASSUME NEW u \in Tasks, u # t PROVE TaskInv(u)'
  <2>1. TaskInv(u) /\ stage'[u] = stage[u]
    BY <1>2, <1>5 DEF ExchangeInv, ExchangeType
  <2>. QED BY <1>1, <1>2, <1>5, <2>1, TaskUntouched
<1>6. TaskInv(t)'
  <2>1. stage'[t] = "answered" /\ TaskInv(t)
    BY <1>2 DEF ExchangeInv, ExchangeType
  <2>2. t \in Listing => PagesSoFar(t)'
    BY <1>2, <2>1 DEF TaskInv, PagesSoFar
  <2>. QED BY <1>1, <2>1, <2>2 DEF TaskInv
<1>. QED BY <1>3, <1>4, <1>5, <1>6 DEF ExchangeInv

\* What a task has of its answer: its own message, of its page.
LEMMA AnswerOfTask ==
  ASSUME ExchangeInv, NEW t \in Tasks, stage[t] = "answered"
  PROVE  /\ extract_message(reply[t], id[t]) = {m \in Own(t) : reply[t].form \in {"json", "sse"}}
         /\ Own(t) \subseteq Messages
         /\ \A m \in Own(t) : m.page = page[t]
<1>1. TaskInv(t) /\ reply[t].body \in Seq(Lines)
  BY DEF ExchangeInv, ExchangeType
<1>2. Own(t) \subseteq Messages
  <2>1. PICK b \in Seq(Lines) : b = reply[t].body
    BY <1>1
  <2>2. \A l \in Lines : l.message \in Messages
    BY DEF Lines
  <2>3. \A i \in DOMAIN b : b[i] \in Lines
    OBVIOUS
  <2>4. \A i \in DOMAIN b : b[i].message \in Messages
    BY <2>2, <2>3
  <2>. QED BY <2>1, <2>4 DEF Own
<1>. QED BY <1>1, <1>2 DEF TaskInv, FindsItsOwn

\* A call is given its message, a listing that breaks off an error.
LEMMA TakeInv ==
  ASSUME ExchangeInv, NEW t \in Tasks, Take(t)
  PROVE  ExchangeInv'
<1>1. /\ stage[t] = "answered" /\ stage' = [stage EXCEPT ![t] = "done"]
      /\ t \notin Listing \/ into_result(extract_message(reply[t], id[t])) = {}
      /\ got' = [got EXCEPT ![t] = IF t \in Listing THEN {} ELSE extract_message(reply[t], id[t])]
      /\ UNCHANGED <<next_id, id, page, reply, tools>>
  BY DEF Take
<1>2. PICK message : message = extract_message(reply[t], id[t])
  OBVIOUS
<1>3. /\ message = {m \in Own(t) : reply[t].form \in {"json", "sse"}} /\ message \in SUBSET Messages
  BY <1>1, <1>2, AnswerOfTask
<1>4. got' = [got EXCEPT ![t] = IF t \in Listing THEN {} ELSE message]
  BY <1>1, <1>2
<1>5. ExchangeType'
  BY <1>1, <1>3, <1>4 DEF ExchangeInv, ExchangeType
<1>6. IdsDiffer'
  BY <1>1 DEF ExchangeInv, ExchangeType, IdsDiffer
<1>7. ASSUME NEW u \in Tasks, u # t PROVE TaskInv(u)'
  <2>1. TaskInv(u) /\ stage'[u] = stage[u] /\ got'[u] = got[u]
    BY <1>1, <1>4, <1>7 DEF ExchangeInv, ExchangeType
  <2>. QED BY <1>1, <1>7, <2>1, TaskUntouched
<1>8. TaskInv(t)'
  <2>1. /\ stage'[t] = "done" /\ TaskInv(t) /\ FindsItsOwn(t)
        /\ got'[t] = IF t \in Listing THEN {} ELSE message
    BY <1>1, <1>4 DEF ExchangeInv, ExchangeType, TaskInv
  <2>2. Own(t)' = Own(t)
    BY <1>1 DEF Own
  <2>3. FindsItsOwn(t)'
    BY <1>1, <2>1, <2>2 DEF FindsItsOwn
  <2>4. t \in Listing => PagesSoFar(t)'
    BY <1>1, <2>1 DEF TaskInv, PagesSoFar
  <2>5. got'[t] = {m \in Own(t) : reply[t].form \in {"json", "sse"} /\ (m.ok \/ t \notin Listing)}
    BY <1>1, <1>2, <1>3, <2>1 DEF into_result
  <2>. QED BY <1>1, <2>1, <2>2, <2>3, <2>4, <2>5 DEF TaskInv
<1>. QED BY <1>5, <1>6, <1>7, <1>8 DEF ExchangeInv

\* A page collected is the one asked for, and the last one ends the list.
LEMMA CollectInv ==
  ASSUME ExchangeInv, NEW t \in Tasks, Collect(t)
  PROVE  ExchangeInv'
<1>1. /\ stage[t] = "answered" /\ t \in Listing /\ UNCHANGED <<next_id, id>>
  BY DEF Collect
<1>2. PICK message : message = into_result(extract_message(reply[t], id[t]))
  OBVIOUS
<1>3. /\ message = {m \in Own(t) : reply[t].form \in {"json", "sse"} /\ m.ok}
      /\ message \in SUBSET Messages /\ \A m \in message : m.page = page[t]
  BY <1>1, <1>2, AnswerOfTask DEF into_result
<1>4. PICK m \in message :
        /\ tools' = [tools EXCEPT ![t] = Append(@, m.page)]
        /\ \/ /\ More(m)
              /\ page' = [page EXCEPT ![t] = @ + 1]
              /\ stage' = [stage EXCEPT ![t] = "idle"]
              /\ reply' = [reply EXCEPT ![t] = NoReply]
              /\ UNCHANGED got
           \/ /\ ~More(m)
              /\ stage' = [stage EXCEPT ![t] = "done"]
              /\ got' = [got EXCEPT ![t] = message]
              /\ UNCHANGED <<page, reply>>
  BY <1>2 DEF Collect
<1>5. m.page = page[t] /\ page[t] \in Nat /\ tools[t] \in Seq(Nat) /\ Append(tools[t], m.page) \in Seq(Nat)
  BY <1>3 DEF ExchangeInv, ExchangeType
<1>6. ExchangeType'
  <2>1. ExchangeType
    BY DEF ExchangeInv
  <2>2. tools' \in [Tasks -> Seq(Nat)]
    BY <1>4, <1>5, <2>1 DEF ExchangeType
  <2>3. stage' \in [Tasks -> {"idle", "sent", "answered", "done"}]
    BY <1>4, <2>1 DEF ExchangeType
  <2>6. page' \in [Tasks -> Nat]
    <3>1. page \in [Tasks -> Nat] /\ page[t] + 1 \in Nat
      BY <1>5, <2>1 DEF ExchangeType
    <3>2. page' = page \/ page' = [page EXCEPT ![t] = page[t] + 1]
      BY <1>4
    <3>. QED BY <3>1, <3>2
  <2>4. reply' \in [Tasks -> [form : Forms, body : Seq(Lines)]]
    BY <1>4, <2>1, EmptyBody DEF ExchangeType
  <2>5. got' \in [Tasks -> SUBSET Messages]
    BY <1>3, <1>4, <2>1 DEF ExchangeType
  <2>. QED BY <1>1, <2>1, <2>2, <2>3, <2>4, <2>5, <2>6 DEF ExchangeType
<1>7. IdsDiffer'
  BY <1>1, <1>4 DEF ExchangeInv, ExchangeType, IdsDiffer
<1>8. ASSUME NEW u \in Tasks, u # t PROVE TaskInv(u)'
  <2>1. /\ TaskInv(u) /\ stage'[u] = stage[u] /\ got'[u] = got[u] /\ tools'[u] = tools[u]
        /\ page'[u] = page[u] /\ reply'[u] = reply[u] /\ id'[u] = id[u]
    BY <1>1, <1>4, <1>8 DEF ExchangeInv, ExchangeType
  <2>. QED BY <2>1, TaskUntouched
<1>9. TaskInv(t)'
  <2>1. TaskInv(t) /\ FindsItsOwn(t) /\ PagesSoFar(t)
    BY <1>1 DEF ExchangeInv, TaskInv
  <2>2. /\ tools'[t] = Append(tools[t], page[t]) /\ tools'[t] \in Seq(Nat)
        /\ Len(tools'[t]) = page[t] /\ page[t] \in 1..Pages /\ Pages \in Nat
        /\ \A k \in 1..page[t] : tools'[t][k] = k
        /\ DOMAIN tools'[t] = 1..page[t]
    <3>1. tools'[t] = Append(tools[t], page[t])
      BY <1>4, <1>5 DEF ExchangeInv, ExchangeType
    <3>2. /\ Len(tools[t]) = page[t] - 1 /\ page[t] \in 1..Pages /\ Pages \in Nat
          /\ \A k \in DOMAIN tools[t] : tools[t][k] = k
      BY <1>1, <2>1, ExchangeAssumption DEF PagesSoFar
    <3>. QED BY <1>5, <3>1, <3>2
  <2>3. CASE More(m)
    <3>1. /\ page'[t] = page[t] + 1 /\ stage'[t] = "idle" /\ reply'[t] = NoReply /\ got'[t] = got[t]
      BY <1>4, <2>3 DEF ExchangeInv, ExchangeType
    <3>2. page[t] < Pages
      BY <1>5, <2>3 DEF More
    <3>3. PagesSoFar(t)'
      BY <2>2, <3>1, <3>2 DEF PagesSoFar
    <3>. QED BY <3>1, <3>3 DEF TaskInv
  <2>4. CASE ~More(m)
    <3>1. /\ page'[t] = page[t] /\ stage'[t] = "done" /\ reply'[t] = reply[t] /\ got'[t] = message
          /\ id'[t] = id[t]
      BY <1>1, <1>4, <2>4 DEF ExchangeInv, ExchangeType
    <3>2. page[t] = Pages
      BY <1>5, <2>2, <2>4 DEF More
    <3>3. PagesSoFar(t)'
      BY <2>2, <3>1, <3>2 DEF PagesSoFar
    <3>4. Own(t)' = Own(t)
      BY <3>1 DEF Own
    <3>5. FindsItsOwn(t)'
      BY <2>1, <3>1, <3>4 DEF FindsItsOwn
    <3>6. got'[t] = {n \in Own(t) : reply[t].form \in {"json", "sse"} /\ (n.ok \/ t \notin Listing)}
      BY <1>1, <1>3, <3>1
    <3>. QED BY <3>1, <3>3, <3>4, <3>5, <3>6 DEF TaskInv
  <2>. QED BY <2>3, <2>4
<1>. QED BY <1>6, <1>7, <1>8, <1>9 DEF ExchangeInv

\* What the session's client keeps, for any tasks, pages and streams.
LEMMA ExchangeInvariant == ExchangeSpec => []ExchangeInv
<1>1. ExchangeInv /\ [ExchangeNext]_exchangeVars => ExchangeInv'
  <2>. SUFFICES ASSUME ExchangeInv, [ExchangeNext]_exchangeVars PROVE ExchangeInv'
    OBVIOUS
  <2>1. CASE UNCHANGED exchangeVars
    <3>1. ExchangeType' /\ IdsDiffer'
      BY <2>1 DEF exchangeVars, ExchangeInv, ExchangeType, IdsDiffer
    <3>2. \A t \in Tasks : TaskInv(t)'
      BY <2>1, TaskUntouched DEF exchangeVars, ExchangeInv
    <3>. QED BY <3>1, <3>2 DEF ExchangeInv
  <2>. QED BY <2>1, RequestInv, PushInv, ReplyInv, TakeInv, CollectInv DEF ExchangeNext
<1>. QED BY ExchangeInitInv, <1>1, PTL DEF ExchangeSpec

\* McpClient::request: a task is given the response to its own request or an
\* error, whatever travels on its stream, however many tasks share the client.
THEOREM AnswersAreOwn == ExchangeSpec => []AnswerIsOwn
<1>1. ExchangeInv => AnswerIsOwn
  BY DEF ExchangeInv, TaskInv, AnswerIsOwn
<1>. QED BY ExchangeInvariant, <1>1, PTL

\* McpClient::list_tools: a list is every page once and in order, or an error,
\* for any number of pages.
THEOREM ListsAreWhole == ExchangeSpec => []ListIsWhole
<1>1. ExchangeInv => ListIsWhole
  <2>. SUFFICES ASSUME ExchangeInv, NEW t \in Listing, stage[t] = "done", got[t] # {}
                PROVE  tools[t] = [n \in 1..Pages |-> n]
    BY DEF ListIsWhole
  <2>1. /\ tools[t] \in Seq(Nat) /\ Len(tools[t]) = Pages
        /\ \A k \in DOMAIN tools[t] : tools[t][k] = k
    BY ExchangeAssumption DEF ExchangeInv, ExchangeType, TaskInv, PagesSoFar
  <2>. QED BY <2>1
<1>. QED BY ExchangeInvariant, <1>1, PTL
=============================================================================
