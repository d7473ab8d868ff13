---------------------------- MODULE StartupProofs ----------------------------
(***************************************************************************)
(* Run and ContainerExec keep their promises for any number of instances,    *)
(* ports, calls and exits of the container, and whatever requests fail; and   *)
(* a comparison of configurations says what their statements say, for all    *)
(* configurations.                                                          *)
(***************************************************************************)
EXTENDS Startup, TLAPS

\* Run holds the lock from CreateContainer on; the comparison comes first.
LockInv ==
  /\ \A i \in Inst : lock = i <=> pc[i] \notin {"idle", "lock"}
  /\ conf # None => ctr = "created"

\* The lives of the container that exists, and those before.
LifeInv ==
  /\ life = exits + (IF ctr = "running" THEN 1 ELSE 0)
  /\ IF ctr = "none" THEN born = 0 ELSE born > 0

\* StartContainer is for a container that i has registered; running is last.
KnownInv ==
  \A i \in Inst :
    /\ known[i] # 0 => wait[i] \in Waiter
    /\ pc[i] \in {"start", "ports", "check", "select"} \/ running[i] => known[i] # 0
    /\ pc[i] \in {"ports", "check", "select"} => ~ running[i]

(* Only an exit stops the container that i has started; nobody but i could   *)
(* start it again, so endpoints that are not complete are those of one that   *)
(* still does not run.                                                       *)
PortsInv ==
  \A i \in Inst :
    /\ pc[i] \in {"ports", "check", "select"} => ctr = "running" \/ exits > 0
    /\ pc[i] \in {"check", "select"} /\ ports[i] # exposed =>
         ctr # "running" /\ ports[i] = {}

\* The command at Docker, and what is attached where the method op is.
ExecInv ==
  /\ ~ made => at = "idle"
  /\ execID <=> cmd # "none"
  /\ execID => attached # {}
  /\ executed = IF cmd \in {"none", "created"} THEN 0 ELSE 1
  /\ at # "idle" => calls > 0
  /\ executed > 0 => calls > 0
  /\ at = "start" => /\ op # "Wait"
                     /\ op = "Output" => "stdout" \in writers
                     /\ op = "CombinedOutput" => writers = E!Stream
  /\ at \in {"attach", "copy", "inspect"} =>
       /\ op # "Start"
       /\ op = "Output" => "stdout" \in attached
       /\ op = "CombinedOutput" => attached = E!Stream
  /\ at \in {"copy", "inspect"} => cmd \notin {"none", "created"}
  /\ at = "inspect" => cmd # "running"
  /\ at = "nil" /\ op # "Start" =>
       /\ cmd = "succeeded"
       /\ op = "Output" => "stdout" \in attached
       /\ op = "CombinedOutput" => attached = E!Stream

(* The inductive invariant.  ReadyWhenRun, PortsBound and NilMeansDone are not *)
(* inductive: they hold when Run and the methods return, and the parts above   *)
(* say what holds on the way.                                                *)
IInv ==
  /\ TypeOK /\ LockInv /\ LifeInv /\ KnownInv
  /\ ReadyWhenRun /\ PortsInv /\ PortsBound /\ ExecInv
-----------------------------------------------------------------------------
LEMMA ExecFrame ==
  ExecStep => UNCHANGED <<container, kind, conf, info, run>>
BY DEF ExecStep, E!NextExec, E!CreateExec, E!Begin, E!CallStep, E!Start, E!Attach, E!Copy,
       E!Inspect, E!CommandEnds, container

\* The types, but for those of module Exec.
LEMMA TypeKept ==
  TypeOK /\ LockInv /\ LifeInv /\ [Next]_vars => TypeOKRun'
<1> SUFFICES ASSUME TypeOK /\ LockInv /\ LifeInv, [Next]_vars
             PROVE  TypeOKRun'
  OBVIOUS
<1> USE StartupAssumption DEF TypeOK, TypeOKRun, LockInv, LifeInv, Waiter, Goto, Return,
           container, kind, info, run, exec
<1>1. ASSUME NEW i \in Inst, RunLock(i) PROVE TypeOKRun'
  BY <1>1 DEF RunLock
<1>2. ASSUME NEW i \in Inst, LockFails(i) PROVE TypeOKRun'
  BY <1>2 DEF LockFails
<1>3. ASSUME NEW i \in Inst, Locked(i) PROVE TypeOKRun'
  BY <1>3 DEF Locked, Setting
<1>4. ASSUME NEW i \in Inst, CreateKnown(i) PROVE TypeOKRun'
  BY <1>4, ZenonT(60) DEF CreateKnown
<1>5. ASSUME NEW i \in Inst, CreateFound(i) PROVE TypeOKRun'
  <2>1. CASE Return(i)
    BY <1>5, <2>1 DEF CreateFound, Register
  <2>2. CASE ~ Return(i)
    BY <1>5, <2>2 DEF CreateFound, Register
  <2> QED
    BY <2>1, <2>2
<1>6. ASSUME NEW i \in Inst, CreateNew(i) PROVE TypeOKRun'
  BY <1>6 DEF CreateNew, Register
<1>7. ASSUME NEW i \in Inst, Cached(i) PROVE TypeOKRun'
  BY <1>7 DEF Cached
<1>8. ASSUME NEW i \in Inst, ContainerStart(i) PROVE TypeOKRun'
  <2>1. CASE ctr = "running"
    BY <1>8, <2>1 DEF ContainerStart, Startable, Exists
  <2>2. CASE ctr # "running"
    <3>1. life' = life + 1 /\ bound' = {} /\ ctr' = "running" /\ conf' = conf
          /\ UNCHANGED <<born, ready, exits, kind, info, lock, runs, expired>>
      BY <1>8, <2>2 DEF ContainerStart
    <3>2. pc' \in [Inst -> {"idle", "lock", "create", "start", "ports", "check",
                           "select"}]
      BY <1>8 DEF ContainerStart
    <3>3. conf = None
      BY <1>8 DEF ContainerStart
    <3>4. life' \in 0..(exits' + 1) /\ ready' \subseteq 1..life' /\ born' \in 0..(life' + 1)
      BY <2>2, <3>1
    <3>5. known' \in [Inst -> 0..(life' + 1)] /\ since' \in [Inst -> 0..life']
      BY <3>1 DEF info
    <3> QED
      BY <3>1, <3>2, <3>3, <3>4, <3>5 DEF kind, info
  <2> QED
    BY <2>1, <2>2
<1>9. ASSUME NEW i \in Inst, PortMap(i) PROVE TypeOKRun'
  <2>1. /\ UNCHANGED <<container, kind, conf, runs, known, wait>>
        /\ lock' \in {lock, None}
    BY <1>9 DEF PortMap, Started, Exists
  <2>2. pc' \in [Inst -> {"idle", "lock", "create", "start", "ports", "check",
                           "select"}]
    BY <1>9 DEF PortMap, Started
  <2>3. expired' \in [Inst -> BOOLEAN]
    BY <1>9 DEF PortMap, Started
  <2>4. /\ ports' = ports
           \/ ports' = [ports EXCEPT ![i] = IF ctr = "running" THEN bound ELSE {}]
        /\ running' = running \/ running' = [running EXCEPT ![i] = TRUE]
        /\ since' = since \/ since' = [since EXCEPT ![i] = life]
    BY <1>9 DEF PortMap, Started, info
  <2>5. ports' \in [Inst -> SUBSET Port]
    BY <2>4
  <2>6. running' \in [Inst -> BOOLEAN]
    BY <2>4
  <2>7. life \in 0..life
    OBVIOUS
  <2>8. since' \in [Inst -> 0..life]
    BY <2>4, <2>7
  <2>9. conf = None
    BY <1>9 DEF PortMap
  <2> QED
    BY <2>1, <2>2, <2>3, <2>5, <2>6, <2>8, <2>9 DEF container, kind
<1>10. ASSUME NEW i \in Inst, Check(i) PROVE TypeOKRun'
  <2>1. CASE Started(i)
    BY <1>10, <2>1 DEF Check, Started, CheckOk, Exists
  <2>2. CASE ~ Started(i)
    BY <1>10, <2>2, ZenonT(60) DEF Check, Started, CheckOk, Exists
  <2> QED
    BY <2>1, <2>2
<1>11. ASSUME NEW i \in Inst, Select(i) PROVE TypeOKRun'
  BY <1>11, ZenonT(60) DEF Select
<1>12. ASSUME NEW i \in Inst, NotFound(i) PROVE TypeOKRun'
  BY <1>12 DEF NotFound, RequestFails
<1>13. ASSUME NEW i \in Inst, RequestFails(i) PROVE TypeOKRun'
  BY <1>13 DEF RequestFails
<1>14. ASSUME NEW i \in Inst, Expire(i) PROVE TypeOKRun'
  BY <1>14 DEF Expire
<1>15. CASE Bind
  BY <1>15 DEF Bind
<1>16. CASE GetReady
  BY <1>16 DEF GetReady
<1>17. CASE Exit
  BY <1>17 DEF Exit, E!Killed
<1>18. CASE AutoRemove
  BY <1>18 DEF AutoRemove
<1>19. CASE ExecStep
  BY <1>19, ExecFrame
<1>20. CASE UNCHANGED vars
  BY <1>20 DEF vars
<1> QED
  BY <1>1, <1>2, <1>3, <1>4, <1>5, <1>6, <1>7, <1>8, <1>9, <1>10,
     <1>11, <1>12, <1>13, <1>14, <1>15, <1>16, <1>17, <1>18, <1>19, <1>20
     DEF Next, RunStep

\* LockForContainerSetup excludes, and what is compared was not started.
LEMMA LockKept ==
  TypeOK /\ LockInv /\ [Next]_vars => LockInv'
<1> SUFFICES ASSUME TypeOK /\ LockInv, [Next]_vars
             PROVE  LockInv'
  OBVIOUS
<1> USE StartupAssumption DEF TypeOK, TypeOKRun, LockInv, Goto, Return,
           container, kind, info, run, exec
<1>1. ASSUME NEW i \in Inst, RunLock(i) PROVE LockInv'
  BY <1>1 DEF RunLock
<1>2. ASSUME NEW i \in Inst, LockFails(i) PROVE LockInv'
  BY <1>2 DEF LockFails
<1>3. ASSUME NEW i \in Inst, Locked(i) PROVE LockInv'
  BY <1>3 DEF Locked, Setting
<1>4. ASSUME NEW i \in Inst, CreateKnown(i) PROVE LockInv'
  BY <1>4 DEF CreateKnown
<1>5. ASSUME NEW i \in Inst, CreateFound(i) PROVE LockInv'
  BY <1>5 DEF CreateFound, Register
<1>6. ASSUME NEW i \in Inst, CreateNew(i) PROVE LockInv'
  BY <1>6 DEF CreateNew, Register
<1>7. ASSUME NEW i \in Inst, Cached(i) PROVE LockInv'
  BY <1>7 DEF Cached
<1>8. ASSUME NEW i \in Inst, ContainerStart(i) PROVE LockInv'
  BY <1>8 DEF ContainerStart, Startable, Exists
<1>9. ASSUME NEW i \in Inst, PortMap(i) PROVE LockInv'
  BY <1>9 DEF PortMap, Started, Exists
<1>10. ASSUME NEW i \in Inst, Check(i) PROVE LockInv'
  BY <1>10 DEF Check, Started, CheckOk, Exists
<1>11. ASSUME NEW i \in Inst, Select(i) PROVE LockInv'
  BY <1>11 DEF Select
<1>12. ASSUME NEW i \in Inst, NotFound(i) PROVE LockInv'
  BY <1>12 DEF NotFound, RequestFails
<1>13. ASSUME NEW i \in Inst, RequestFails(i) PROVE LockInv'
  BY <1>13 DEF RequestFails
<1>14. ASSUME NEW i \in Inst, Expire(i) PROVE LockInv'
  BY <1>14 DEF Expire
<1>15. CASE Bind
  BY <1>15 DEF Bind
<1>16. CASE GetReady
  BY <1>16 DEF GetReady
<1>17. CASE Exit
  BY <1>17 DEF Exit, E!Killed
<1>18. CASE AutoRemove
  BY <1>18 DEF AutoRemove
<1>19. CASE ExecStep
  BY <1>19, ExecFrame
<1>20. CASE UNCHANGED vars
  BY <1>20 DEF vars
<1> QED
  BY <1>1, <1>2, <1>3, <1>4, <1>5, <1>6, <1>7, <1>8, <1>9, <1>10,
     <1>11, <1>12, <1>13, <1>14, <1>15, <1>16, <1>17, <1>18, <1>19, <1>20
     DEF Next, RunStep

\* A container that exists has a first life, and only exits end lives.
LEMMA LifeKept ==
  TypeOK /\ LockInv /\ LifeInv /\ [Next]_vars => LifeInv'
<1> SUFFICES ASSUME TypeOK /\ LockInv /\ LifeInv, [Next]_vars
             PROVE  LifeInv'
  OBVIOUS
<1> USE StartupAssumption DEF TypeOK, TypeOKRun, LifeInv, Goto, Return,
           container, kind, info, run, exec
<1>1. ASSUME NEW i \in Inst, RunLock(i) PROVE LifeInv'
  BY <1>1 DEF RunLock
<1>2. ASSUME NEW i \in Inst, LockFails(i) PROVE LifeInv'
  BY <1>2 DEF LockFails
<1>3. ASSUME NEW i \in Inst, Locked(i) PROVE LifeInv'
  BY <1>3 DEF Locked, Setting
<1>4. ASSUME NEW i \in Inst, CreateKnown(i) PROVE LifeInv'
  BY <1>4 DEF CreateKnown
<1>5. ASSUME NEW i \in Inst, CreateFound(i) PROVE LifeInv'
  BY <1>5 DEF CreateFound, Register
<1>6. ASSUME NEW i \in Inst, CreateNew(i) PROVE LifeInv'
  BY <1>6 DEF CreateNew, Register
<1>7. ASSUME NEW i \in Inst, Cached(i) PROVE LifeInv'
  BY <1>7 DEF Cached
<1>8. ASSUME NEW i \in Inst, ContainerStart(i) PROVE LifeInv'
  BY <1>8 DEF ContainerStart, Startable, Exists
<1>9. ASSUME NEW i \in Inst, PortMap(i) PROVE LifeInv'
  BY <1>9 DEF PortMap, Started, Exists
<1>10. ASSUME NEW i \in Inst, Check(i) PROVE LifeInv'
  BY <1>10 DEF Check, Started, CheckOk, Exists
<1>11. ASSUME NEW i \in Inst, Select(i) PROVE LifeInv'
  BY <1>11 DEF Select
<1>12. ASSUME NEW i \in Inst, NotFound(i) PROVE LifeInv'
  BY <1>12 DEF NotFound, RequestFails
<1>13. ASSUME NEW i \in Inst, RequestFails(i) PROVE LifeInv'
  BY <1>13 DEF RequestFails
<1>14. ASSUME NEW i \in Inst, Expire(i) PROVE LifeInv'
  BY <1>14 DEF Expire
<1>15. CASE Bind
  BY <1>15 DEF Bind
<1>16. CASE GetReady
  BY <1>16 DEF GetReady
<1>17. CASE Exit
  BY <1>17 DEF Exit, E!Killed
<1>18. CASE AutoRemove
  BY <1>18 DEF AutoRemove
<1>19. CASE ExecStep
  BY <1>19, ExecFrame
<1>20. CASE UNCHANGED vars
  BY <1>20 DEF vars
<1> QED
  BY <1>1, <1>2, <1>3, <1>4, <1>5, <1>6, <1>7, <1>8, <1>9, <1>10,
     <1>11, <1>12, <1>13, <1>14, <1>15, <1>16, <1>17, <1>18, <1>19, <1>20
     DEF Next, RunStep

\* StartContainer comes after CreateContainer, which registers the container.
LEMMA KnownKept ==
  TypeOK /\ LifeInv /\ KnownInv /\ [Next]_vars => KnownInv'
<1> SUFFICES ASSUME TypeOK /\ LifeInv /\ KnownInv, [Next]_vars
             PROVE  KnownInv'
  OBVIOUS
<1> USE StartupAssumption DEF TypeOK, TypeOKRun, LifeInv, KnownInv, Waiter, Goto, Return,
           container, kind, info, run, exec
<1>1. ASSUME NEW i \in Inst, RunLock(i) PROVE KnownInv'
  BY <1>1 DEF RunLock
<1>2. ASSUME NEW i \in Inst, LockFails(i) PROVE KnownInv'
  BY <1>2 DEF LockFails
<1>3. ASSUME NEW i \in Inst, Locked(i) PROVE KnownInv'
  BY <1>3 DEF Locked, Setting
<1>4. ASSUME NEW i \in Inst, CreateKnown(i) PROVE KnownInv'
  BY <1>4 DEF CreateKnown
<1>5. ASSUME NEW i \in Inst, CreateFound(i) PROVE KnownInv'
  BY <1>5 DEF CreateFound, Register
<1>6. ASSUME NEW i \in Inst, CreateNew(i) PROVE KnownInv'
  BY <1>6 DEF CreateNew, Register
<1>7. ASSUME NEW i \in Inst, Cached(i) PROVE KnownInv'
  BY <1>7 DEF Cached
<1>8. ASSUME NEW i \in Inst, ContainerStart(i) PROVE KnownInv'
  BY <1>8 DEF ContainerStart, Startable, Exists
<1>9. ASSUME NEW i \in Inst, PortMap(i) PROVE KnownInv'
  BY <1>9 DEF PortMap, Started, Exists
<1>10. ASSUME NEW i \in Inst, Check(i) PROVE KnownInv'
  BY <1>10 DEF Check, Started, CheckOk, Exists
<1>11. ASSUME NEW i \in Inst, Select(i) PROVE KnownInv'
  BY <1>11 DEF Select
<1>12. ASSUME NEW i \in Inst, NotFound(i) PROVE KnownInv'
  BY <1>12 DEF NotFound, RequestFails
<1>13. ASSUME NEW i \in Inst, RequestFails(i) PROVE KnownInv'
  BY <1>13 DEF RequestFails
<1>14. ASSUME NEW i \in Inst, Expire(i) PROVE KnownInv'
  BY <1>14 DEF Expire
<1>15. CASE Bind
  BY <1>15 DEF Bind
<1>16. CASE GetReady
  BY <1>16 DEF GetReady
<1>17. CASE Exit
  BY <1>17 DEF Exit, E!Killed
<1>18. CASE AutoRemove
  BY <1>18 DEF AutoRemove
<1>19. CASE ExecStep
  BY <1>19, ExecFrame
<1>20. CASE UNCHANGED vars
  BY <1>20 DEF vars
<1> QED
  BY <1>1, <1>2, <1>3, <1>4, <1>5, <1>6, <1>7, <1>8, <1>9, <1>10,
     <1>11, <1>12, <1>13, <1>14, <1>15, <1>16, <1>17, <1>18, <1>19, <1>20
     DEF Next, RunStep

\* wait and known stay as they are once they are set, and ready only grows.
LEMMA ReadyKept ==
  TypeOK /\ LifeInv /\ KnownInv /\ ReadyWhenRun /\ [Next]_vars => ReadyWhenRun'
<1> SUFFICES ASSUME TypeOK /\ LifeInv /\ KnownInv /\ ReadyWhenRun, [Next]_vars
             PROVE  ReadyWhenRun'
  OBVIOUS
<1> USE StartupAssumption DEF TypeOK, TypeOKRun, KnownInv, ReadyWhenRun, Goto, Return,
           container, kind, info, run, exec
<1>1. ASSUME NEW i \in Inst, RunLock(i) PROVE ReadyWhenRun'
  BY <1>1 DEF RunLock
<1>2. ASSUME NEW i \in Inst, LockFails(i) PROVE ReadyWhenRun'
  BY <1>2 DEF LockFails
<1>3. ASSUME NEW i \in Inst, Locked(i) PROVE ReadyWhenRun'
  BY <1>3 DEF Locked, Setting
<1>4. ASSUME NEW i \in Inst, CreateKnown(i) PROVE ReadyWhenRun'
  BY <1>4 DEF CreateKnown
<1>5. ASSUME NEW i \in Inst, CreateFound(i) PROVE ReadyWhenRun'
  BY <1>5 DEF CreateFound, Register
<1>6. ASSUME NEW i \in Inst, CreateNew(i) PROVE ReadyWhenRun'
  BY <1>6 DEF CreateNew, Register
<1>7. ASSUME NEW i \in Inst, Cached(i) PROVE ReadyWhenRun'
  BY <1>7 DEF Cached
<1>8. ASSUME NEW i \in Inst, ContainerStart(i) PROVE ReadyWhenRun'
  BY <1>8 DEF ContainerStart, Startable, Exists
<1>9. ASSUME NEW i \in Inst, PortMap(i) PROVE ReadyWhenRun'
  BY <1>9 DEF PortMap, Started, Exists
<1>10. ASSUME NEW i \in Inst, Check(i) PROVE ReadyWhenRun'
  BY <1>10 DEF Check, Started, CheckOk, Exists
<1>11. ASSUME NEW i \in Inst, Select(i) PROVE ReadyWhenRun'
  BY <1>11 DEF Select
<1>12. ASSUME NEW i \in Inst, NotFound(i) PROVE ReadyWhenRun'
  BY <1>12 DEF NotFound, RequestFails
<1>13. ASSUME NEW i \in Inst, RequestFails(i) PROVE ReadyWhenRun'
  BY <1>13 DEF RequestFails
<1>14. ASSUME NEW i \in Inst, Expire(i) PROVE ReadyWhenRun'
  BY <1>14 DEF Expire
<1>15. CASE Bind
  BY <1>15 DEF Bind
<1>16. CASE GetReady
  BY <1>16 DEF GetReady
<1>17. CASE Exit
  BY <1>17 DEF Exit, E!Killed
<1>18. CASE AutoRemove
  BY <1>18 DEF AutoRemove
<1>19. CASE ExecStep
  BY <1>19, ExecFrame
<1>20. CASE UNCHANGED vars
  BY <1>20 DEF vars
<1> QED
  BY <1>1, <1>2, <1>3, <1>4, <1>5, <1>6, <1>7, <1>8, <1>9, <1>10,
     <1>11, <1>12, <1>13, <1>14, <1>15, <1>16, <1>17, <1>18, <1>19, <1>20
     DEF Next, RunStep

\* Nobody starts the container while i has the lock and waits for it.
LEMMA PortsKept ==
  TypeOK /\ LockInv /\ LifeInv /\ KnownInv /\ PortsInv /\ [Next]_vars => PortsInv'
<1> SUFFICES ASSUME TypeOK /\ LockInv /\ LifeInv /\ KnownInv /\ PortsInv, [Next]_vars
             PROVE  PortsInv'
  OBVIOUS
<1> USE StartupAssumption DEF TypeOK, TypeOKRun, LockInv, KnownInv, PortsInv, Goto, Return,
           container, kind, info, run, exec
<1>1. ASSUME NEW i \in Inst, RunLock(i) PROVE PortsInv'
  BY <1>1 DEF RunLock
<1>2. ASSUME NEW i \in Inst, LockFails(i) PROVE PortsInv'
  BY <1>2 DEF LockFails
<1>3. ASSUME NEW i \in Inst, Locked(i) PROVE PortsInv'
  BY <1>3 DEF Locked, Setting
<1>4. ASSUME NEW i \in Inst, CreateKnown(i) PROVE PortsInv'
  BY <1>4 DEF CreateKnown
<1>5. ASSUME NEW i \in Inst, CreateFound(i) PROVE PortsInv'
  BY <1>5 DEF CreateFound, Register
<1>6. ASSUME NEW i \in Inst, CreateNew(i) PROVE PortsInv'
  BY <1>6 DEF CreateNew, Register
<1>7. ASSUME NEW i \in Inst, Cached(i) PROVE PortsInv'
  BY <1>7 DEF Cached
<1>8. ASSUME NEW i \in Inst, ContainerStart(i) PROVE PortsInv'
  BY <1>8 DEF ContainerStart, Startable, Exists
<1>9. ASSUME NEW i \in Inst, PortMap(i) PROVE PortsInv'
  <2>1. CASE pc'[i] = "idle" /\ UNCHANGED info
    BY <1>9, <2>1 DEF PortMap, Started, Exists
  <2>2. CASE wait[i] = "none" /\ ~ UNCHANGED info
    BY <1>9, <2>2 DEF PortMap, Started, Exists
  <2>3. CASE wait[i] # "none" /\ ~ (pc'[i] = "idle" /\ UNCHANGED info)
    <3>1. /\ UNCHANGED <<ctr, exits, exposed>> /\ pc[i] = "ports"
          /\ \A j \in Inst \ {i} : pc'[j] = pc[j] /\ ports'[j] = ports[j]
      BY <1>9, <2>3, SMTT(30) DEF PortMap
    <3>2. ports'[i] = exposed \/ (ctr # "running" /\ ports'[i] = {})
      BY <1>9, <2>3, SMTT(30) DEF PortMap
    <3> QED
      BY <3>1, <3>2
  <2> QED
    BY <1>9, <2>1, <2>2, <2>3 DEF PortMap, Started, Exists
<1>10. ASSUME NEW i \in Inst, Check(i) PROVE PortsInv'
  BY <1>10 DEF Check, Started, CheckOk, Exists
<1>11. ASSUME NEW i \in Inst, Select(i) PROVE PortsInv'
  BY <1>11 DEF Select
<1>12. ASSUME NEW i \in Inst, NotFound(i) PROVE PortsInv'
  BY <1>12 DEF NotFound, RequestFails
<1>13. ASSUME NEW i \in Inst, RequestFails(i) PROVE PortsInv'
  BY <1>13 DEF RequestFails
<1>14. ASSUME NEW i \in Inst, Expire(i) PROVE PortsInv'
  BY <1>14 DEF Expire
<1>15. CASE Bind
  BY <1>15 DEF Bind
<1>16. CASE GetReady
  BY <1>16 DEF GetReady
<1>17. CASE Exit
  BY <1>17 DEF Exit, E!Killed
<1>18. CASE AutoRemove
  BY <1>18 DEF AutoRemove
<1>19. CASE ExecStep
  BY <1>19, ExecFrame
<1>20. CASE UNCHANGED vars
  BY <1>20 DEF vars
<1> QED
  BY <1>1, <1>2, <1>3, <1>4, <1>5, <1>6, <1>7, <1>8, <1>9, <1>10,
     <1>11, <1>12, <1>13, <1>14, <1>15, <1>16, <1>17, <1>18, <1>19, <1>20
     DEF Next, RunStep

\* Once Run has succeeded the endpoints stay as they are.
LEMMA BoundKept ==
  TypeOK /\ LifeInv /\ KnownInv /\ PortsInv /\ PortsBound /\ [Next]_vars => PortsBound'
<1> SUFFICES ASSUME TypeOK /\ LifeInv /\ KnownInv /\ PortsInv /\ PortsBound, [Next]_vars
             PROVE  PortsBound'
  OBVIOUS
<1> USE StartupAssumption DEF TypeOK, TypeOKRun, LifeInv, KnownInv, PortsInv, PortsBound, Waiter, Goto, Return,
           container, kind, info, run, exec
<1>1. ASSUME NEW i \in Inst, RunLock(i) PROVE PortsBound'
  BY <1>1 DEF RunLock
<1>2. ASSUME NEW i \in Inst, LockFails(i) PROVE PortsBound'
  BY <1>2 DEF LockFails
<1>3. ASSUME NEW i \in Inst, Locked(i) PROVE PortsBound'
  BY <1>3 DEF Locked, Setting
<1>4. ASSUME NEW i \in Inst, CreateKnown(i) PROVE PortsBound'
  BY <1>4 DEF CreateKnown
<1>5. ASSUME NEW i \in Inst, CreateFound(i) PROVE PortsBound'
  BY <1>5 DEF CreateFound, Register
<1>6. ASSUME NEW i \in Inst, CreateNew(i) PROVE PortsBound'
  BY <1>6 DEF CreateNew, Register
<1>7. ASSUME NEW i \in Inst, Cached(i) PROVE PortsBound'
  BY <1>7 DEF Cached
<1>8. ASSUME NEW i \in Inst, ContainerStart(i) PROVE PortsBound'
  BY <1>8 DEF ContainerStart, Startable, Exists
<1>9. ASSUME NEW i \in Inst, PortMap(i) PROVE PortsBound'
  <2>1. CASE pc'[i] = "idle" /\ UNCHANGED info
    BY <1>9, <2>1 DEF PortMap, Started, Exists
  <2>2. CASE wait[i] = "none" /\ ~ UNCHANGED info
    <3>1. /\ UNCHANGED <<exits, exposed, wait>>
          /\ \A j \in Inst \ {i} : running'[j] = running[j] /\ ports'[j] = ports[j]
                                   /\ since'[j] = since[j]
          /\ since'[i] = life
          /\ ports'[i] = exposed \/ (ctr # "running" /\ ports'[i] = {})
      BY <1>9, <2>2, SMTT(30) DEF PortMap, Started, Exists
    <3>2. ctr # "running" => exits >= life
      OBVIOUS
    <3> QED
      BY <2>2, <3>1, <3>2
  <2>3. CASE wait[i] # "none" /\ ~ (pc'[i] = "idle" /\ UNCHANGED info)
    BY <1>9, <2>3 DEF PortMap, Started, Exists
  <2> QED
    BY <1>9, <2>1, <2>2, <2>3 DEF PortMap, Started, Exists
<1>10. ASSUME NEW i \in Inst, Check(i) PROVE PortsBound'
  BY <1>10 DEF Check, Started, CheckOk, Exists
<1>11. ASSUME NEW i \in Inst, Select(i) PROVE PortsBound'
  BY <1>11 DEF Select
<1>12. ASSUME NEW i \in Inst, NotFound(i) PROVE PortsBound'
  BY <1>12 DEF NotFound, RequestFails
<1>13. ASSUME NEW i \in Inst, RequestFails(i) PROVE PortsBound'
  BY <1>13 DEF RequestFails
<1>14. ASSUME NEW i \in Inst, Expire(i) PROVE PortsBound'
  BY <1>14 DEF Expire
<1>15. CASE Bind
  BY <1>15 DEF Bind
<1>16. CASE GetReady
  BY <1>16 DEF GetReady
<1>17. CASE Exit
  BY <1>17 DEF Exit, E!Killed
<1>18. CASE AutoRemove
  BY <1>18 DEF AutoRemove
<1>19. CASE ExecStep
  BY <1>19, ExecFrame
<1>20. CASE UNCHANGED vars
  BY <1>20 DEF vars
<1> QED
  BY <1>1, <1>2, <1>3, <1>4, <1>5, <1>6, <1>7, <1>8, <1>9, <1>10,
     <1>11, <1>12, <1>13, <1>14, <1>15, <1>16, <1>17, <1>18, <1>19, <1>20
     DEF Next, RunStep

-----------------------------------------------------------------------------
(* A ContainerExec: each method adds to what the one before it has done.     *)
LEMMA ExecKept ==
  E!TypeOKExec /\ ExecInv /\ E!NextExec => E!TypeOKExec' /\ ExecInv'
<1> SUFFICES ASSUME E!TypeOKExec, ExecInv, E!NextExec
             PROVE  E!TypeOKExec' /\ ExecInv'
  OBVIOUS
<1> USE StartupAssumption DEF E!TypeOKExec, ExecInv, E!Idle, E!Op, E!Stream
<1>1. CASE E!CreateExec
  <2>1. E!TypeOKExec'
    BY <1>1 DEF E!CreateExec
  <2>2. ExecInv'
    BY <1>1 DEF E!CreateExec
  <2> QED
    BY <2>1, <2>2
<1>2. ASSUME NEW o \in E!Op, E!Begin(o) PROVE E!TypeOKExec' /\ ExecInv'
  <2>1. /\ UNCHANGED <<made, execID, attached, cmd, executed>>
        /\ made /\ calls < MaxCalls /\ calls' = calls + 1 /\ op' = o
    BY <1>2 DEF E!Begin
  <2>2. \/ at' = "error" /\ writers' = writers
        \/ at' = "start" /\ o \in {"Start", "Run"} /\ writers' = writers
        \/ at' = "start" /\ o = "Output" /\ writers' = writers \cup {"stdout"}
        \/ at' = "start" /\ o = "CombinedOutput" /\ writers' = E!Stream
        \/ at' = "attach" /\ o = "Wait" /\ writers' = writers
    <3>1. CASE o \in {"Start", "Run", "Wait"}
      BY <1>2, <3>1 DEF E!Begin
    <3>2. CASE o = "Output"
      BY <1>2, <3>2 DEF E!Begin, E!Return
    <3>3. CASE o = "CombinedOutput"
      BY <1>2, <3>3 DEF E!Begin, E!Return
    <3> QED
      BY <3>1, <3>2, <3>3
  <2>3. E!TypeOKExec'
    <3>1. calls' \in 0..MaxCalls
      BY <2>1
    <3>2. writers' \subseteq E!Stream
      BY <2>2
    <3>3. at' \in E!Idle \cup {"start", "attach", "copy", "inspect"}
      BY <2>2
    <3> QED
      BY <2>1, <3>1, <3>2, <3>3
  <2>4. ExecInv'
    BY <2>1, <2>2
  <2> QED
    BY <2>3, <2>4
<1>3. CASE E!Start
  <2>1. E!TypeOKExec'
    BY <1>3 DEF E!Start, E!Return
  <2>2. ExecInv'
    BY <1>3 DEF E!Start, E!Return
  <2> QED
    BY <2>1, <2>2
<1>4. CASE E!Attach
  BY <1>4 DEF E!Attach, E!Return, E!object
<1>5. CASE E!Copy
  BY <1>5 DEF E!Copy, E!Return, E!object
<1>6. CASE E!Inspect
  BY <1>6 DEF E!Inspect, E!Return, E!object
<1>7. CASE E!CommandEnds
  BY <1>7 DEF E!CommandEnds, E!object
<1> QED
  BY <1>1, <1>2, <1>3, <1>4, <1>5, <1>6, <1>7 DEF E!NextExec, E!CallStep

\* Only methods, and an exit of the container, change it.
LEMMA ExecSteps == [Next]_vars => E!NextExec \/ (E!Killed /\ Exit) \/ UNCHANGED exec
<1>1. CASE ExecStep
  BY <1>1 DEF ExecStep
<1>2. CASE Exit
  BY <1>2 DEF Exit
<1>3. CASE Next /\ ~ ExecStep /\ ~ Exit
  BY <1>3
     DEF Next, RunStep, RunLock, LockFails, Locked, CreateKnown, CreateFound, CreateNew,
         Cached,
     ContainerStart, PortMap, Check, Select, NotFound, RequestFails, Expire, Bind, GetReady,
     AutoRemove
<1> QED
  BY <1>1, <1>2, <1>3 DEF vars, exec

\* So the invariant of Exec is kept by every step.
LEMMA ExecInvKept ==
  E!TypeOKExec /\ ExecInv /\ [Next]_vars => E!TypeOKExec' /\ ExecInv'
<1> SUFFICES ASSUME E!TypeOKExec, ExecInv, [Next]_vars
             PROVE  E!TypeOKExec' /\ ExecInv'
  OBVIOUS
<1>1. CASE E!NextExec
  BY <1>1, ExecKept
<1>2. CASE E!Killed /\ Exit
  BY <1>2 DEF E!Killed, Exit, E!TypeOKExec, ExecInv
<1>3. CASE UNCHANGED exec
  BY <1>3 DEF exec, E!TypeOKExec, ExecInv, E!Idle, E!Op, E!Stream
<1> QED
  BY <1>1, <1>2, <1>3, ExecSteps

-----------------------------------------------------------------------------
(* The inductive invariant, from the first state and from step to step.      *)
THEOREM Invariance == Spec => []IInv
<1>1. Init => IInv
  <2> SUFFICES ASSUME Init PROVE IInv
    OBVIOUS
  <2> USE StartupAssumption DEF Init
  <2>1. TypeOKRun
    BY DEF TypeOKRun
  <2>2. E!InitExec
    OBVIOUS
  <2>3. E!TypeOKExec
    <3>1. made \in BOOLEAN /\ execID \in BOOLEAN /\ writers = {} /\ attached = {}
      BY <2>2, Zenon DEF E!InitExec
    <3>2. calls \in 0..MaxCalls /\ executed \in 0..MaxCalls
      BY <2>2 DEF E!InitExec
    <3>3. op = "none" /\ at = "idle" /\ cmd = "none"
      BY <2>2 DEF E!InitExec
    <3> QED
      BY <3>1, <3>2, <3>3 DEF E!TypeOKExec, E!Idle
  <2>4. ExecInv
    BY <2>2 DEF ExecInv, E!InitExec
  <2>5. LockInv /\ LifeInv /\ KnownInv /\ ReadyWhenRun /\ PortsInv /\ PortsBound
    BY DEF LockInv, LifeInv, KnownInv, ReadyWhenRun, PortsInv, PortsBound
  <2> QED
    BY <2>1, <2>3, <2>4, <2>5 DEF IInv, TypeOK
<1>2. IInv /\ [Next]_vars => IInv'
  BY TypeKept, LockKept, LifeKept, KnownKept, ReadyKept, PortsKept, BoundKept, ExecInvKept
     DEF IInv, TypeOK
<1> QED
  BY <1>1, <1>2, PTL DEF Spec

(* The container, the instances' records and the calls keep their types, for *)
(* every number of instances: what is compared belongs to the one that has   *)
(* the lock.                                                                *)
THEOREM TypeCorrect == Spec => []TypeOK
BY Invariance, PTL DEF IInv

(* When Run succeeds the container has got ready, as its waiter asks.        *)
THEOREM Ready == Spec => []ReadyWhenRun
BY Invariance, PTL DEF IInv

(* The endpoints that Run returns are complete, or none because the container  *)
(* has exited in the life that Run started or found.                         *)
THEOREM Endpoints == Spec => []PortsBound
BY Invariance, PTL DEF IInv

(* A nil error of a method that waits means that the command has succeeded,  *)
(* and that it was executed once.                                           *)
THEOREM NilIsDone == Spec => []NilMeansDone
<1>1. IInv => NilMeansDone
  BY DEF IInv, ExecInv, NilMeansDone, E!NilMeansDone, E!Stream
<1> QED
  BY <1>1, Invariance, PTL

-----------------------------------------------------------------------------
(* Each comparison of two values says that the statements of one are among   *)
(* those of the other; an unset value makes none.                            *)
LEMMA SubsetsOfItems ==
  ASSUME NEW e, NEW t
  PROVE  /\ stringSubset(e, t) <=> Items("string", t) \subseteq Items("string", e)
         /\ mapSubset(e, t) <=> Items("map", t) \subseteq Items("map", e)
         /\ sequentialSubset(e, t) <=> Items("sequence", t) \subseteq Items("sequence", e)
         /\ pointerSubset(e, t) <=> Items("pointer", t) \subseteq Items("pointer", e)
         /\ equals(e, t) <=> Items("equal", t) \subseteq Items("equal", e)
<1>1. stringSubset(e, t) <=> Items("string", t) \subseteq Items("string", e)
  BY DEF stringSubset, Items, Unset
<1>2. sequentialSubset(e, t) <=> Items("sequence", t) \subseteq Items("sequence", e)
  BY DEF sequentialSubset, Items, Unset
<1>3. pointerSubset(e, t) <=> Items("pointer", t) \subseteq Items("pointer", e)
  BY DEF pointerSubset, Items, Unset
<1>4. equals(e, t) <=> Items("equal", t) \subseteq Items("equal", e)
  BY DEF equals, Items
<1>5. mapSubset(e, t) <=> Items("map", t) \subseteq Items("map", e)
  <2>1. /\ Items("map", t) = {<<k, t[k]>> : k \in DOMAIN t}
        /\ Items("map", e) = {<<k, e[k]>> : k \in DOMAIN e}
    BY DEF Items
  <2>2. Items("map", t) \subseteq Items("map", e)
          <=> \A k \in DOMAIN t : k \in DOMAIN e /\ e[k] = t[k]
    <3>1. ASSUME Items("map", t) \subseteq Items("map", e), NEW k \in DOMAIN t
          PROVE  k \in DOMAIN e /\ e[k] = t[k]
      <4>1. <<k, t[k]>> \in Items("map", e)
        BY <2>1, <3>1
      <4>2. PICK j \in DOMAIN e : <<k, t[k]>> = <<j, e[j]>>
        BY <2>1, <4>1
      <4> QED
        BY <4>2
    <3>2. ASSUME \A k \in DOMAIN t : k \in DOMAIN e /\ e[k] = t[k]
          PROVE  Items("map", t) \subseteq Items("map", e)
      BY <2>1, <3>2, Zenon
    <3> QED
      BY <3>1, <3>2
  <2> QED
    BY <2>2 DEF mapSubset
<1> QED
  BY <1>1, <1>2, <1>3, <1>4, <1>5

\* A slice without items is the empty one.
LEMMA SliceOfItems ==
  ASSUME NEW e \in Seq(STRING), NEW t \in Seq(STRING)
  PROVE  sliceSubset(e, t) <=> Items("slice", t) \subseteq Items("slice", e)
<1>1. Items("slice", t) = Range(t) /\ Items("slice", e) = Range(e)
  BY DEF Items
<1>2. ASSUME NEW s \in Seq(STRING) PROVE s = << >> <=> Range(s) = {}
  <2>1. s = << >> <=> Len(s) = 0
    OBVIOUS
  <2>2. DOMAIN s = 1..Len(s) /\ Len(s) \in Nat
    OBVIOUS
  <2>3. Range(s) = {} <=> DOMAIN s = {}
    BY Zenon DEF Range
  <2>4. 1..Len(s) = {} <=> Len(s) = 0
    <3>1. Len(s) # 0 => 1 \in 1..Len(s)
      BY <2>2
    <3>2. Len(s) = 0 => 1..Len(s) = {}
      BY <2>2
    <3> QED
      BY <3>1, <3>2
  <2> QED
    BY <2>1, <2>2, <2>3, <2>4
<1> QED
  BY <1>1, <1>2 DEF sliceSubset

\* The statements of a part are those of its fields.
LEMMA FactsByField ==
  ASSUME NEW a, NEW b, DOMAIN a = DOMAIN b
  PROVE  Facts(a) \subseteq Facts(b)
           <=> \A f \in DOMAIN a : Items(f, a[f]) \subseteq Items(f, b[f])
<1>1. \A f, x : <<f, x>> \in Facts(a) <=> f \in DOMAIN a /\ x \in Items(f, a[f])
  BY DEF Facts
<1>2. \A f, x : <<f, x>> \in Facts(b) <=> f \in DOMAIN b /\ x \in Items(f, b[f])
  BY DEF Facts
<1>3. \A y \in Facts(a) : \E f, x : y = <<f, x>>
  BY DEF Facts
<1>4. ASSUME Facts(a) \subseteq Facts(b), NEW f \in DOMAIN a
      PROVE  Items(f, a[f]) \subseteq Items(f, b[f])
  BY <1>1, <1>2, <1>4, Zenon
<1>5. ASSUME \A f \in DOMAIN a : Items(f, a[f]) \subseteq Items(f, b[f]), NEW y \in Facts(a)
      PROVE  y \in Facts(b)
  <2>1. PICK f, x : y = <<f, x>>
    BY <1>3, <1>5
  <2> QED
    BY <1>1, <1>2, <1>5, <2>1, Zenon
<1> QED
  BY <1>4, <1>5

\* The comparison of Config.
LEMMA ContainerChecked ==
  ASSUME NEW e, NEW t, IsContainer(e), IsContainer(t)
  PROVE  checkContainerConfig(e, t) <=> Facts(t) \subseteq Facts(e)
<1>1. Facts(t) \subseteq Facts(e)
        <=> \A f \in DOMAIN t : Items(f, t[f]) \subseteq Items(f, e[f])
  BY FactsByField DEF IsContainer, IsPart
<1>2. sliceSubset(e.slice, t.slice)
        <=> Items("slice", t.slice) \subseteq Items("slice", e.slice)
  BY SliceOfItems DEF IsContainer, IsPart
<1> QED
  BY <1>1, <1>2, SubsetsOfItems DEF checkContainerConfig, IsContainer, IsPart

\* The comparison of HostConfig.
LEMMA HostChecked ==
  ASSUME NEW e, NEW t, IsHost(e), IsHost(t)
  PROVE  checkHostConfig(e, t) <=> Facts(t) \subseteq Facts(e)
<1>1. Facts(t) \subseteq Facts(e)
        <=> \A f \in DOMAIN t : Items(f, t[f]) \subseteq Items(f, e[f])
  BY FactsByField DEF IsHost, IsPart
<1>2. sliceSubset(e.slice, t.slice)
        <=> Items("slice", t.slice) \subseteq Items("slice", e.slice)
  BY SliceOfItems DEF IsHost, IsPart
<1> QED
  BY <1>1, <1>2, SubsetsOfItems DEF checkHostConfig, IsHost, IsPart

\* The comparison of the EndpointSettings of networks that both have.
LEMMA EndpointsChecked ==
  ASSUME NEW e, NEW t, IsConfig(e), IsConfig(t)
  PROVE  checkEndpointSettings(e.networks, t.networks)
           <=> \A n \in DOMAIN t.networks \cap DOMAIN e.networks :
                 Facts(t.networks[n]) \subseteq Facts(e.networks[n])
<1>1. SUFFICES ASSUME NEW n \in DOMAIN t.networks \cap DOMAIN e.networks
               PROVE  Facts(t.networks[n]) \subseteq Facts(e.networks[n])
                        <=> /\ pointerSubset(e.networks[n].pointer, t.networks[n].pointer)
                            /\ sliceSubset(e.networks[n].slice, t.networks[n].slice)
                            /\ equals(e.networks[n].equal, t.networks[n].equal)
                            /\ stringSubset(e.networks[n].string, t.networks[n].string)
                            /\ mapSubset(e.networks[n].map, t.networks[n].map)
  BY DEF checkEndpointSettings
<1> DEFINE p == e.networks[n]
           q == t.networks[n]
           fields == {"pointer", "slice", "equal", "string", "map"}
<1>2. IsPart(p, fields) /\ IsPart(q, fields)
  BY DEF IsConfig
<1> HIDE DEF p, q
<1>3. Facts(q) \subseteq Facts(p) <=> \A f \in fields : Items(f, q[f]) \subseteq Items(f, p[f])
  BY <1>2, FactsByField DEF IsPart
<1>4. sliceSubset(p.slice, q.slice) <=> Items("slice", q.slice) \subseteq Items("slice", p.slice)
  BY <1>2, SliceOfItems DEF IsPart
<1>5. Facts(q) \subseteq Facts(p)
        <=> /\ pointerSubset(p.pointer, q.pointer) /\ sliceSubset(p.slice, q.slice)
            /\ equals(p.equal, q.equal) /\ stringSubset(p.string, q.string)
            /\ mapSubset(p.map, q.map)
  BY <1>3, <1>4, SubsetsOfItems
<1> QED
  BY <1>5 DEF p, q

(* The comparison of some sixty fields in six ways says what the reference   *)
(* says: every statement of the configuration asked for is one of the        *)
(* container's.                                                             *)
THEOREM ConsistentIsContained ==
  ASSUME NEW asked, NEW has, IsConfig(asked), IsConfig(has)
  PROVE  checkConfigConsistency(asked, has) <=> Contained(asked, has)
BY ContainerChecked, HostChecked, EndpointsChecked
   DEF checkConfigConsistency, Contained, IsConfig

\* Docker keeps the types of what it completes.
LEMMA CreatedType ==
  ASSUME NEW config, NEW image, IsConfig(config),
         IsContainer(image.container), IsHost(image.host)
  PROVE  /\ IsConfig(Created(config, image))
         /\ Created(config, image).container = Filled(config.container, image.container)
         /\ Created(config, image).host = Filled(config.host, image.host)
         /\ Created(config, image).networks = config.networks
<1>1. ASSUME NEW a, NEW b, NEW fields, IsPart(a, fields), IsPart(b, fields), "slice" \in fields
      PROVE  IsPart(Filled(a, b), fields)
  <2>1. DOMAIN Filled(a, b) = fields /\ Filled(a, b).slice = a.slice \o b.slice
    BY <1>1 DEF Filled, IsPart
  <2> QED
    BY <1>1, <2>1 DEF IsPart
<1>2. IsContainer(Filled(config.container, image.container))
  BY <1>1 DEF IsContainer, IsConfig
<1>3. IsHost(Filled(config.host, image.host))
  BY <1>1 DEF IsHost, IsConfig
<1>4. /\ DOMAIN Created(config, image) = DOMAIN config
      /\ Created(config, image).container = Filled(config.container, image.container)
      /\ Created(config, image).host = Filled(config.host, image.host)
      /\ Created(config, image).networks = config.networks
  BY DEF Created, IsConfig
<1> QED
  BY <1>2, <1>3, <1>4 DEF IsConfig

\* A slice to which another one is added loses no items.
LEMMA ConcatRange ==
  ASSUME NEW p \in Seq(STRING), NEW q \in Seq(STRING)
  PROVE  Range(p) \subseteq Range(p \o q)
<1>1. /\ DOMAIN p = 1..Len(p) /\ DOMAIN (p \o q) = 1..(Len(p) + Len(q))
      /\ Len(p) \in Nat /\ Len(q) \in Nat
      /\ \A j \in 1..Len(p) : (p \o q)[j] = p[j]
  OBVIOUS
<1>2. \A j \in DOMAIN p : j \in DOMAIN (p \o q) /\ (p \o q)[j] = p[j]
  BY <1>1
<1> QED
  BY <1>2, Zenon DEF Range

(* What the image adds takes no statement away, if it sets none of the        *)
(* fields that must be equal.                                                *)
LEMMA FilledKeeps ==
  ASSUME NEW a, NEW b, NEW t, DOMAIN a = DOMAIN t, DOMAIN b = DOMAIN t,
         a.slice \in Seq(STRING), b.slice \in Seq(STRING), b.equal = "",
         Facts(t) \subseteq Facts(a)
  PROVE  Facts(t) \subseteq Facts(Filled(a, b))
<1> DEFINE c == Filled(a, b)
<1>1. DOMAIN c = DOMAIN t
  BY DEF Filled
<1>2. ASSUME NEW f \in DOMAIN t PROVE Items(f, a[f]) \subseteq Items(f, c[f])
  <2>1. CASE f = "slice"
    <3>1. c[f] = a.slice \o b.slice
      BY <2>1 DEF Filled
    <3>2. Range(a.slice) \subseteq Range(a.slice \o b.slice)
      BY ConcatRange
    <3> QED
      BY <2>1, <3>1, <3>2 DEF Items
  <2>2. CASE f = "map"
    <3>1. c[f] = [k \in DOMAIN a[f] \cup DOMAIN b[f] |->
                    IF k \in DOMAIN a[f] THEN a[f][k] ELSE b[f][k]]
      BY <2>2 DEF Filled
    <3>2. \A k \in DOMAIN a[f] : k \in DOMAIN c[f] /\ c[f][k] = a[f][k]
      BY <3>1
    <3>3. mapSubset(c[f], a[f])
      BY <3>2 DEF mapSubset
    <3> QED
      BY <2>2, <3>3, SubsetsOfItems
  <2>3. CASE f = "equal"
    <3>1. c[f] = a[f]
      BY <2>3 DEF Filled, Unset
    <3> QED
      BY <3>1
  <2>4. CASE f \notin {"slice", "map", "equal"}
    <3>1. c[f] = IF a[f] = Unset(f) THEN b[f] ELSE a[f]
      BY <2>4 DEF Filled
    <3>2. Items(f, a[f]) = IF a[f] = Unset(f) THEN {} ELSE {a[f]}
      BY <2>4 DEF Items
    <3> QED
      BY <3>1, <3>2
  <2> QED
    BY <2>1, <2>2, <2>3, <2>4
<1> QED
  BY <1>1, <1>2, FactsByField

\* What is good for the configuration as it was asked for is good for Docker's.
LEMMA CreatedAccepted ==
  ASSUME NEW asked, NEW first, NEW image, IsConfig(asked), IsConfig(first),
         IsContainer(image.container), IsHost(image.host),
         image.container.equal = "", image.host.equal = "",
         checkConfigConsistency(asked, first)
  PROVE  checkConfigConsistency(asked, Created(first, image))
<1>1. Contained(asked, first)
  BY ConsistentIsContained
<1>2. Facts(asked.container) \subseteq Facts(Filled(first.container, image.container))
  BY <1>1, FilledKeeps DEF Contained, IsConfig, IsContainer, IsPart
<1>3. Facts(asked.host) \subseteq Facts(Filled(first.host, image.host))
  BY <1>1, FilledKeeps DEF Contained, IsConfig, IsHost, IsPart
<1>4. Contained(asked, Created(first, image))
  BY <1>1, <1>2, <1>3, CreatedType DEF Contained
<1> QED
  BY <1>4, CreatedType, ConsistentIsContained

\* Configurations are compared in CreateContainer, and by nobody else.
LEMMA WhoCompares ==
  ASSUME TypeOK, [Next]_vars, NEW i \in Inst, Compares(i)
  PROVE  CreateKnown(i) \/ CreateFound(i) \/ (pc'[i] = "idle" /\ known[i] = 0)
<1> USE DEF Compares, TypeOK, TypeOKRun, Goto, Return
<1>1. ASSUME NEW j \in Inst, RunLock(j) \/ LockFails(j) \/ Locked(j) \/ CreateNew(j) \/ Cached(j)
                              \/ ContainerStart(j) \/ Select(j) \/ Expire(j)
      PROVE  FALSE
  BY <1>1
     DEF RunLock, LockFails, Locked, CreateNew, Register, Cached, ContainerStart,
         Select, Expire
<1>2. ASSUME NEW j \in Inst, PortMap(j) \/ Check(j)
      PROVE  FALSE
  BY <1>2 DEF PortMap, Check, Started
<1>3. ASSUME NEW j \in Inst, CreateKnown(j) \/ CreateFound(j)
      PROVE  i = j
  BY <1>3 DEF CreateKnown, CreateFound, Register
<1>4. ASSUME NEW j \in Inst, NotFound(j) \/ RequestFails(j)
      PROVE  pc'[i] = "idle" /\ known[i] = 0
  BY <1>4 DEF NotFound, RequestFails
<1>5. ASSUME Bind \/ GetReady \/ Exit \/ AutoRemove \/ ExecStep \/ UNCHANGED vars
      PROVE  FALSE
  BY <1>5 DEF Bind, GetReady, Exit, AutoRemove, ExecStep, vars, run
<1> QED
  BY <1>1, <1>2, <1>3, <1>4, <1>5 DEF Next, RunStep

(* Run uses a container only if it has all that is asked for, and refuses    *)
(* one that the instance knows only if it has not.                           *)
THEOREM Reuse == Spec => ReuseConsistent
<1>1. ASSUME TypeOK, [Next]_vars, NEW i \in Inst, Compares(i), conf.check
      PROVE  /\ pc'[i] = "start" => Contained(conf.asked, Seen(i))
             /\ pc'[i] = "idle" /\ known[i] # 0 => ~ Contained(conf.asked, Seen(i))
             /\ /\ conf.image.container.equal = "" /\ conf.image.host.equal = ""
                /\ checkConfigConsistency(conf.asked, conf.first)
                => checkConfigConsistency(conf.asked, Created(conf.first, conf.image))
  <2>1. conf # None /\ conf \in Conf /\ pc[i] = "create"
    BY <1>1 DEF Compares, TypeOK, TypeOKRun
  <2>2. /\ IsConfig(conf.asked) /\ IsConfig(conf.first)
        /\ IsContainer(conf.image.container) /\ IsHost(conf.image.host)
    BY <2>1, ConfAssumption
  <2>3. IsConfig(Seen(i))
    BY <2>1, <2>2, CreatedType DEF Seen
  <2>4. Contained(conf.asked, Seen(i)) <=> checkConfigConsistency(conf.asked, Seen(i))
    BY <2>2, <2>3, ConsistentIsContained
  <2>5. /\ conf.image.container.equal = "" /\ conf.image.host.equal = ""
        /\ checkConfigConsistency(conf.asked, conf.first)
        => checkConfigConsistency(conf.asked, Created(conf.first, conf.image))
    BY <2>2, CreatedAccepted
  <2>6. CASE CreateKnown(i)
    BY <1>1, <2>1, <2>4, <2>5, <2>6
       DEF CreateKnown, Accepted, Refused, Goto, Return, TypeOK, TypeOKRun
  <2>7. CASE CreateFound(i)
    BY <1>1, <2>1, <2>4, <2>5, <2>7
       DEF CreateFound, Register, Accepted, Refused, Goto, Return, TypeOK, TypeOKRun
  <2> QED
    BY <1>1, <2>5, <2>6, <2>7, WhoCompares
<1>2. IInv /\ [Next]_vars =>
        [\A i \in Inst : Compares(i) /\ conf.check =>
           /\ pc'[i] = "start" => Contained(conf.asked, Seen(i))
           /\ pc'[i] = "idle" /\ known[i] # 0 => ~ Contained(conf.asked, Seen(i))
           /\ /\ conf.image.container.equal = "" /\ conf.image.host.equal = ""
              /\ checkConfigConsistency(conf.asked, conf.first)
              => checkConfigConsistency(conf.asked, Created(conf.first, conf.image))]_vars
  BY <1>1 DEF IInv
<1> QED
  BY <1>2, Invariance, PTL DEF Spec, ReuseConsistent

=============================================================================
