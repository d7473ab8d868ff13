------------------------------ MODULE Startup ------------------------------
(***************************************************************************)
(* Confort.Run for one container, by the goroutines or processes of one      *)
(* beacon server: who creates it, who finds it, whether its configuration    *)
(* will do, its endpoints and the Waiter; then a ContainerExec in it.        *)
(*                                                                         *)
(* The container boots, binds its ports, gets ready (then it is healthy, the *)
(* waiter's command succeeds, and the waiter's message is in the log) and    *)
(* exits when it likes; then Docker removes it, unless AutoRemove was unset. *)
(* Docker is external; any request may fail, and then has no effect.  Module  *)
(* Backend has the network and the policies, which are left out here.        *)
(*                                                                         *)
(* Bounds: MaxRuns[i] calls of an instance, MaxExits exits of the container; *)
(* all ask for the same ports; a waiter's interval is longer than nothing.   *)
(* Configurations are compared if the container has no ports and no waiter   *)
(* and could not be started, elsewhere either result is possible; CreateExec *)
(* follows a first Run of such a container, and no Run follows it.           *)
(***************************************************************************)
EXTENDS Integers, FiniteSets, ConfigConsistency

CONSTANTS Inst,     \* Confort instances
          Port,     \* ports of the container
          Conf,     \* records like conf
          MaxRuns, MaxExits, MaxCalls, None

Waiter == {"none", "log", "healthy", "command"}

ASSUME StartupAssumption ==
  /\ IsFiniteSet(Port) /\ MaxRuns \in [Inst -> Nat] /\ MaxExits \in Nat
  /\ MaxCalls \in Nat
  /\ None \notin Inst \cup Conf

ASSUME ConfAssumption ==
  \A c \in Conf : /\ IsConfig(c.first) /\ IsConfig(c.asked)
                  /\ IsContainer(c.image.container) /\ IsHost(c.image.host)

VARIABLES ctr,     \* the container: "none", "created", "running", "exited"
          born,    \* its first life, which serves as its ID, or 0
          remove,  \* HostConfig.AutoRemove, TRUE unless the caller unsets it
          exposed, \* its ports
          bound,   \* those that Docker has bound
          life,    \* how often a container was started
          ready,   \* the lives in which it got ready
          exits,   \* how often one exited
          conf,    \* what is compared: the configuration asked for, the first
                   \* one's and the image's, and if it is checked; or None
          lock,    \* LockForContainerSetup: who has it, or None
          pc,      \* pc[i]: where Run is
          runs,    \* runs[i]: calls so far
          known,   \* known[i]: containerInfo.containerID, or 0
          wait,    \* wait[i]: containerInfo.wait
          running, \* running[i]: containerInfo.running
          ports,   \* ports[i]: containerInfo.ports, and portMap before
          expired, \* expired[i]: the deadline of the loop i is in has passed
          since    \* since[i]: the life in which i found it ready, or 0

VARIABLES made, execID, writers, op, at, calls, attached, cmd, executed

container == <<ctr, born, bound, life, ready, exits>>
info == <<known, wait, running, ports, since>>
kind == <<remove, exposed>>
run == <<lock, pc, runs, expired>>
exec == <<made, execID, writers, op, at, calls, attached, cmd, executed>>
vars == <<container, kind, conf, info, run, exec>>

E == INSTANCE Exec

-----------------------------------------------------------------------------
Goto(i, where) == pc' = [pc EXCEPT ![i] = where]

\* Run returns, and unlocks.
Return(i) ==
  /\ Goto(i, "idle")
  /\ lock' = None
  /\ expired' = [expired EXCEPT ![i] = FALSE]
  /\ UNCHANGED runs

\* The container that i has registered still exists.
Exists(i) == ctr # "none" /\ known[i] = born

Startable(i) == Exists(i) /\ ~ (ctr = "exited" /\ remove)

(* A request fails, and Run returns the error; but a waiter's command that   *)
(* fails is a "no".                                                          *)
RequestFails(i) ==
  /\ \/ pc[i] = "create" /\ known[i] = 0
     \/ pc[i] = "start" /\ ~ running[i]
     \/ pc[i] = "ports" /\ exposed # {}
     \/ pc[i] = "check" /\ wait[i] # "command"
  /\ Return(i)
  /\ conf' = None
  /\ UNCHANGED <<container, kind, info, exec>>

\* So do those about a container that is gone.
NotFound(i) ==
  /\ pc[i] # "create"
  /\ ~ IF pc[i] = "start" THEN Startable(i) ELSE Exists(i)
  /\ RequestFails(i)

RunLock(i) ==
  /\ pc[i] = "idle" /\ runs[i] < MaxRuns[i] /\ ~ made
  /\ runs' = [runs EXCEPT ![i] = @ + 1]
  /\ Goto(i, "lock")
  /\ UNCHANGED <<container, kind, conf, info, lock, expired, exec>>

\* A container without ports, by a Run without a waiter: see the bounds.
Setting == remove /\ exposed = {} /\ \E i \in Inst : wait[i] = "none"

\* LockForContainerSetup returns, or fails because the context ends.
Locked(i) ==
  /\ pc[i] = "lock" /\ lock = None
  /\ lock' = i
  /\ conf' \in IF Setting /\ ctr = "created" THEN Conf ELSE {None}
  /\ Goto(i, "create")
  /\ UNCHANGED <<container, kind, info, runs, expired, exec>>

LockFails(i) ==
  /\ pc[i] = "lock"
  /\ Goto(i, "idle")
  /\ UNCHANGED <<container, kind, conf, info, lock, runs, expired, exec>>

-----------------------------------------------------------------------------
(* CreateContainer. *)

\* Is a container with configuration seen good enough, if that is checked?
Accepted(seen) ==
  \/ conf = None
  \/ conf # None /\ (conf.check => checkConfigConsistency(conf.asked, seen))

Refused(seen) ==
  \/ conf = None
  \/ conf # None /\ conf.check /\ ~ checkConfigConsistency(conf.asked, seen)

\* What i compares: what it registered itself, or what Docker has.
Seen(i) == CASE conf = None -> None
             [] known[i] # 0 -> conf.first
             [] OTHER -> Created(conf.first, conf.image)

\* A container that i knows: the waiter of this call is not looked at.
CreateKnown(i) ==
  /\ pc[i] = "create" /\ known[i] # 0
  /\ \/ /\ Accepted(Seen(i))
        /\ Goto(i, "start") /\ UNCHANGED <<lock, runs, expired>>
     \/ Refused(Seen(i)) /\ Return(i)
  /\ conf' = None
  /\ UNCHANGED <<container, kind, info, exec>>

Register(i, id) ==
  /\ known' = [known EXCEPT ![i] = id]
  /\ \E w \in Waiter : wait' = [wait EXCEPT ![i] = w]
  /\ Goto(i, "start")
  /\ UNCHANGED <<running, ports, since, lock, runs, expired>>

CreateFound(i) ==
  /\ pc[i] = "create" /\ known[i] = 0 /\ ctr # "none"
  /\ \/ /\ Accepted(Seen(i))
        /\ IF ctr # "exited" THEN Register(i, born)
                            ELSE Return(i) /\ UNCHANGED info
     \/ Refused(Seen(i)) /\ Return(i) /\ UNCHANGED info
  /\ conf' = None
  /\ UNCHANGED <<container, kind, exec>>

CreateNew(i) ==
  /\ pc[i] = "create" /\ known[i] = 0 /\ ctr = "none"
  /\ ctr' = "created" /\ born' = life + 1
  /\ Register(i, life + 1)
  /\ UNCHANGED <<bound, life, ready, exits, kind, conf, exec>>

-----------------------------------------------------------------------------
(* StartContainer. *)

Cached(i) ==
  /\ pc[i] = "start" /\ running[i]
  /\ Return(i)
  /\ UNCHANGED <<container, kind, conf, info, exec>>

\* Docker starts a container again that has exited and was kept.
ContainerStart(i) ==
  /\ pc[i] = "start" /\ ~ running[i] /\ Startable(i)
  /\ IF ctr = "running" THEN UNCHANGED container
     ELSE /\ ctr' = "running" /\ bound' = {}
          /\ life' = life + 1
          /\ UNCHANGED <<born, ready, exits>>
  /\ Goto(i, "ports")
  /\ UNCHANGED <<lock, runs, expired, kind, conf, info, exec>>

\* StartContainer succeeds.
Started(i) ==
  /\ running' = [running EXCEPT ![i] = TRUE]
  /\ since' = [since EXCEPT ![i] = life]
  /\ Return(i)
  /\ UNCHANGED <<known, wait>>

\* Mutant of PortMap: a port that is not bound yet is passed over.
PortMapHasty(i) ==
  /\ pc[i] = "ports"
  /\ \/ /\ ~ expired[i] /\ Exists(i)
        /\ ports' = [ports EXCEPT ![i] = IF ctr = "running" THEN bound ELSE {}]
        /\ IF wait[i] = "none" THEN Started(i)
           ELSE /\ Goto(i, "check")
                /\ UNCHANGED expired
                /\ UNCHANGED <<known, wait, running, since, lock, runs>>
     \/ expired[i] /\ exposed # {} /\ Return(i) /\ UNCHANGED info
  /\ UNCHANGED <<container, kind, conf, exec>>

(* containerPortMap: inspected again while a port of a running container is  *)
(* not bound; one that does not run has no ports to wait for.  The waiter    *)
(* has a deadline of its own, if the context has none.                       *)
PortMap(i) ==
  /\ pc[i] = "ports"
  /\ \/ /\ \/ exposed = {}
           \/ /\ ~ expired[i] /\ Exists(i)
              /\ ctr = "running" => bound = exposed
        /\ ports' = [ports EXCEPT ![i] = IF ctr = "running" THEN bound ELSE {}]
        /\ IF wait[i] = "none" THEN Started(i)
           ELSE /\ Goto(i, "check")
                /\ expired' = [expired EXCEPT ![i] = FALSE]
                        \/ UNCHANGED expired
                /\ UNCHANGED <<known, wait, running, since, lock, runs>>
     \/ expired[i] /\ exposed # {} /\ Return(i) /\ UNCHANGED info
  /\ UNCHANGED <<container, kind, conf, exec>>

-----------------------------------------------------------------------------
(* Waiter.Wait, and its CheckFuncs. *)

\* The log has what the container wrote in all of its lives.
CheckOk(i) ==
  /\ Exists(i)
  /\ IF wait[i] = "log" THEN \E l \in ready : l >= born
                        ELSE ctr = "running" /\ life \in ready

\* With a deadline that has passed the requests fail.
Check(i) ==
  /\ pc[i] = "check"
  /\ \/ ~ expired[i] /\ CheckOk(i) /\ Started(i) /\ UNCHANGED ports
     \/ /\ wait[i] = "command" \/ (~ expired[i] /\ Exists(i) /\ ~ CheckOk(i))
        /\ Goto(i, "select")
        /\ UNCHANGED <<info, lock, runs, expired>>
     \/ expired[i] /\ wait[i] # "command" /\ Return(i) /\ UNCHANGED info
  /\ UNCHANGED <<container, kind, conf, exec>>

\* Mutant of Select: the timeout ends the wait without an error.
SelectQuietly(i) ==
  /\ pc[i] = "select"
  /\ \/ expired[i] /\ Started(i) /\ UNCHANGED ports
     \/ ~ expired[i] /\ Goto(i, "check") /\ UNCHANGED <<info, lock, runs, expired>>
  /\ UNCHANGED <<container, kind, conf, exec>>

\* Mutant of Select: the end of the context is not looked at.
SelectSleep(i) ==
  /\ pc[i] = "select"
  /\ Goto(i, "check") /\ UNCHANGED <<info, lock, runs, expired>>
  /\ UNCHANGED <<container, kind, conf, exec>>

\* The context is done, or else the interval passes.
Select(i) ==
  /\ pc[i] = "select"
  /\ \/ expired[i] /\ Return(i) /\ UNCHANGED info
     \/ ~ expired[i] /\ Goto(i, "check") /\ UNCHANGED <<info, lock, runs, expired>>
  /\ UNCHANGED <<container, kind, conf, exec>>

\* A deadline passes: 30 seconds, the waiter's timeout, or the caller's.
Expire(i) ==
  /\ pc[i] \in {"ports", "check", "select"} /\ ~ expired[i]
  /\ expired' = [expired EXCEPT ![i] = TRUE]
  /\ UNCHANGED <<container, kind, conf, info, lock, pc, runs, exec>>

-----------------------------------------------------------------------------
(* The container, and ContainerExec. *)

Bind ==
  /\ ctr = "running"
  /\ \E p \in exposed \ bound : bound' = bound \cup {p}
  /\ UNCHANGED <<ctr, born, life, ready, exits, kind, conf, info, run, exec>>

GetReady ==
  /\ ctr = "running" /\ life \notin ready
  /\ ready' = ready \cup {life}
  /\ UNCHANGED <<ctr, born, bound, life, exits, kind, conf, info, run, exec>>

Exit ==
  /\ ctr = "running" /\ exits < MaxExits
  /\ ctr' = "exited" /\ bound' = {}
  /\ exits' = exits + 1
  /\ E!Killed
  /\ UNCHANGED <<born, life, ready, kind, conf, info, run,
                 made, execID, writers, op, at, calls, attached, executed>>

AutoRemove ==
  /\ ctr = "exited" /\ remove
  /\ ctr' = "none" /\ born' = 0
  /\ UNCHANGED <<bound, life, ready, exits, kind, conf, info, run, exec>>

\* A ContainerExec of a container that Run has returned.
ExecStep ==
  /\ Setting /\ (made \/ exits = 0)
  /\ \E i \in Inst : /\ runs[i] = 1 /\ running[i]
                      /\ \A j \in Inst \ {i} : runs[j] = 0
  /\ E!NextExec
  /\ UNCHANGED <<born, bound, life, ready, exits, kind, conf, info, run>>

-----------------------------------------------------------------------------
Init ==
  /\ ctr = "none" /\ born = 0 /\ remove \in BOOLEAN /\ exposed \in {{}, Port} /\ bound = {}
  /\ life = 0 /\ ready = {} /\ exits = 0
  /\ conf = None /\ lock = None
  /\ pc = [i \in Inst |-> "idle"]
  /\ runs = [i \in Inst |-> 0]
  /\ known = [i \in Inst |-> 0]
  /\ wait = [i \in Inst |-> None]
  /\ running = [i \in Inst |-> FALSE]
  /\ ports = [i \in Inst |-> {}]
  /\ expired = [i \in Inst |-> FALSE]
  /\ since = [i \in Inst |-> 0]
  /\ E!InitExec

RunStep(i) ==
  \/ Locked(i) \/ CreateKnown(i) \/ CreateFound(i) \/ CreateNew(i)
  \/ Cached(i) \/ ContainerStart(i) \/ PortMap(i) \/ Check(i) \/ Select(i)
  \/ NotFound(i)

Next ==
  \/ \E i \in Inst : RunLock(i) \/ LockFails(i) \/ RunStep(i)
                       \/ RequestFails(i) \/ Expire(i)
  \/ Bind \/ GetReady \/ Exit \/ AutoRemove
  \/ ExecStep

Spec == Init /\ [][Next]_vars

(* A Run goes on while it can, and deadlines pass; the container owes        *)
(* nothing, and requests need not fail.                                      *)
FairSpec ==
  /\ Spec
  /\ \A i \in Inst : WF_vars(RunStep(i)) /\ WF_vars(Expire(i))

-----------------------------------------------------------------------------
\* Type invariant of the container, the instances' records and the calls.
TypeOKRun ==
  /\ ctr \in {"none", "created", "running", "exited"}
  /\ exposed \subseteq Port /\ bound \subseteq exposed
  /\ exits \in 0..MaxExits /\ life \in 0..(exits + 1) /\ ready \subseteq 1..life
  /\ conf \in Conf \cup {None} /\ lock \in Inst \cup {None}
  /\ conf # None => lock # None /\ pc[lock] = "create"
  /\ pc \in [Inst -> {"idle", "lock", "create", "start", "ports", "check",
                      "select"}]
  /\ runs \in [Inst -> Nat] /\ \A i \in Inst : runs[i] =< MaxRuns[i]
  /\ born \in 0..(life + 1) /\ known \in [Inst -> 0..(life + 1)]
  /\ wait \in [Inst -> Waiter \cup {None}] /\ remove \in BOOLEAN
  /\ running \in [Inst -> BOOLEAN] /\ expired \in [Inst -> BOOLEAN]
  /\ ports \in [Inst -> SUBSET Port]
  /\ since \in [Inst -> 0..life]

TypeOK == TypeOKRun /\ E!TypeOKExec

(* A Run whose waiter asks for health or for a command ("until the first     *)
(* success", wait.go:142) succeeds only if the container got ready in the    *)
(* life that this Run started or found, and one whose waiter reads the log    *)
(* only if it got ready in that life or an earlier one of the same container: *)
(* never because the time was over, a request failed or there was another    *)
(* container with that name.                                                 *)
ReadyWhenRun ==
  \A i \in Inst : running[i] =>
    /\ wait[i] \in {"healthy", "command"} => since[i] \in ready
    /\ wait[i] = "log" => \E l \in ready : known[i] <= l /\ l <= since[i]

(* The endpoints of a container that Run returns are all of its ports, also  *)
(* if the container exits and is started again before they are asked for      *)
(* (backend.go:470-492).  There are none, never some, only if the container   *)
(* has exited in the very life that this Run started or found, and the waiter  *)
(* is none that asks a running container: life l has ended when there were l  *)
(* exits.                                                                    *)
PortsBound ==
  \A i \in Inst : running[i] /\ ports[i] # exposed =>
    /\ ports[i] = {} /\ exits >= since[i]
    /\ wait[i] \in {"none", "log"}

\* Run i compares configurations in this step.
Compares(i) == conf # None /\ conf' = None /\ pc[i] = "create" /\ pc'[i] # pc[i]

(* A container is used for a request only if it has all that is asked for,   *)
(* and one that is known is refused only if it has not (backend.go:313, 361): *)
(* the comparison of the fields agrees with what the configurations say as   *)
(* sets of statements.  What the image adds to a container does not matter:  *)
(* a request that is good for the instance that knows the container is good  *)
(* for one that finds it, if the image sets none of the fields that must be   *)
(* equal (WorkingDir).                                                       *)
ReuseConsistent ==
  [][\A i \in Inst : Compares(i) /\ conf.check =>
       /\ pc'[i] = "start" => Contained(conf.asked, Seen(i))
       /\ pc'[i] = "idle" /\ known[i] # 0 =>
            ~ Contained(conf.asked, Seen(i))
       /\ /\ conf.image.container.equal = "" /\ conf.image.host.equal = ""
          /\ checkConfigConsistency(conf.asked, conf.first)
          => checkConfigConsistency(conf.asked, Created(conf.first, conf.image))]_vars

(* Every Run returns, also if the container never gets ready, never binds    *)
(* its ports, or exits.                                                      *)
RunReturns == \A i \in Inst : pc[i] # "idle" ~> pc[i] = "idle"

\* See Exec.
NilMeansDone == E!NilMeansDone
=============================================================================
