------------------------------ MODULE Backend ------------------------------
(***************************************************************************)
(* confort.go and backend.go: Confort instances of one namespace, in one or *)
(* more test processes, on one Docker daemon; and the clean-up of           *)
(* `confort test` (internal/cmd).                                           *)
(*                                                                         *)
(* Every request to Docker is a step of its own, between which the other    *)
(* instances act: what an instance has listed may be gone, or be new, when   *)
(* it acts on it.  Docker is external: names are unique, a network with      *)
(* running containers is not removed, a container starts if it has its      *)
(* networks.  An instance with a beacon server (Beacon) shares its locks     *)
(* with the others there (module LockStream) and leaves the clean-up to the  *)
(* command; any other one is outside of the command, has locks of its own    *)
(* and cleans up in Close.                                                  *)
(*                                                                         *)
(* An instance creates at most one network, and remembers a container that   *)
(* it created: so the creator serves as the ID of what it created.           *)
(*                                                                         *)
(* Bounds: the calls of an instance follow each other; containers do not    *)
(* end by themselves.  Any request may fail, and has then no effect, but     *)
(* those of the clean-up fail only for the reasons above; the command's      *)
(* requests about containers, and those about networks, are one step each.   *)
(***************************************************************************)
EXTENDS Integers, Sequences, FiniteSets

CONSTANTS Proc,    \* Confort instances
          Beacon,  \* those with a beacon server
          Builder, \* those that call Build
          Before,  \* containers there may be before
          Name,    \* names of containers
          User,    \* who created what was there before
          Other,   \* some other network
          None

Policy == {"error", "reuse", "reusable", "takeover"}

Container == [id : Proc \cup {User}, state : {"created", "running", "paused"},
              nets : SUBSET (Proc \cup {User, Other}), image : BOOLEAN]

Terminate == [op : {"remove", "disconnect"}, c : Name, id : Proc \cup {User}]
               \cup [op : {"network"}, id : Proc \cup {User}]

\* Where an instance is: before New has returned, in Build, in Run, or between
\* calls and in Close; or it was closed, or is gone with an error or its process.
Early == {"none", "networkList", "networkCreate", "networkInspect"}
Building == {"imageList", "imageBuild", "forceBuild"}
Setting == {"create", "containerInspect", "networkConnect", "containerCreate",
            "start", "wait"}
Opened == {"open", "release"} \cup Building \cup Setting
Ended == {"closed", "gone"}
Place == Early \cup Opened \cup Ended

ASSUME BackendAssumption ==
  /\ Before \subseteq Container
  /\ \A c \in Before : c.id = User /\ c.nets \subseteq {User, Other}
  /\ Beacon \subseteq Proc /\ Builder \subseteq Proc
  /\ {User, Other, None} \cap Proc = {} /\ User # None /\ Other # None
  /\ None \notin Container /\ None \notin BOOLEAN

VARIABLES net,      \* the namespace's network: its creator, or None
          ctr,      \* ctr[c]: the container with name c, or None
          image,    \* the image: if a beacon instance built it, or None
          policy,   \* policy[p]: dockerBackend.policy
          pc,       \* pc[p]: where the instance is
          arg,      \* arg[p]: the container that Run is about
          nw,       \* nw[p]: dockerNamespace.network
          known,    \* known[p][c]: containerInfo.containerID, or None
          running,  \* running[p]: the containers with containerInfo.running
          existing, \* existing[p]: what ContainerList found
          term,     \* term[p]: dockerNamespace.terminate
          locks,    \* locks[l]: the beacon instance that has lock l, or None
          cleanup   \* how far `confort test` is

docker == <<net, ctr, image>>
namespace == <<nw, known, running, term>>
call == <<arg, existing, locks>>
vars == <<docker, namespace, call, policy, pc, cleanup>>

-----------------------------------------------------------------------------
Goto(p, where) == pc' = [pc EXCEPT ![p] = where]

\* The lock l: "namespace", "build" or the name of a container.
Lock(p, l) ==
  IF p \in Beacon THEN /\ locks[l] = None
                       /\ locks' = [locks EXCEPT ![l] = p]
                  ELSE UNCHANGED locks

\* The deferred unlock, also when the process dies.
Unlock(p) == locks' = [l \in DOMAIN locks |-> IF locks[l] = p THEN None
                                                              ELSE locks[l]]

\* A call of p returns.
Return(p, where) ==
  /\ Goto(p, where) /\ Unlock(p)
  /\ arg' = [arg EXCEPT ![p] = None]
  /\ existing' = [existing EXCEPT ![p] = None]

\* The instance p is no more, and what it knew is forgotten.
End(p, how) ==
  /\ Return(p, how)
  /\ nw' = [nw EXCEPT ![p] = None]
  /\ known' = [known EXCEPT ![p] = [c \in Name |-> None]]
  /\ running' = [running EXCEPT ![p] = {}]
  /\ term' = [term EXCEPT ![p] = << >>]

Attached(n) == {c \in Name : ctr[c] # None /\ ctr[c].state # "created"
                               /\ n \in ctr[c].nets}

-----------------------------------------------------------------------------
(* New: dockerBackend.Namespace under LockForNamespace. *)

NewLock(p) ==
  /\ pc[p] = "none"
  /\ p \in Beacon => cleanup = "tests"
  /\ \/ /\ Lock(p, "namespace")
        /\ Goto(p, "networkList")
        /\ UNCHANGED <<namespace, arg, existing>>
     \/ End(p, "gone")
  /\ UNCHANGED <<docker, policy, cleanup>>

\* Namespace returns, with the network n that it created or found.
Open(p, n, nwCreated) ==
  /\ nw' = [nw EXCEPT ![p] = n]
  /\ term' = [term EXCEPT ![p] =
                IF \/ nwCreated /\ policy[p] # "reusable"
                   \/ policy[p] = "takeover"
                THEN <<[op |-> "network", id |-> n]>> ELSE << >>]
  /\ Return(p, "open")
  /\ UNCHANGED <<known, running>>

NetworkList(p) ==
  /\ pc[p] = "networkList"
  /\ \/ /\ net # None /\ policy[p] # "error"
        /\ Open(p, net, FALSE)
     \/ /\ net = None
        /\ Goto(p, "networkCreate")
        /\ UNCHANGED <<namespace, call>>
     \/ End(p, "gone")
  /\ UNCHANGED <<docker, policy, cleanup>>

\* CheckDuplicate: a name that is taken is an error.
NetworkCreate(p) ==
  /\ pc[p] = "networkCreate"
  /\ \/ /\ net = None
        /\ net' = p
        /\ Goto(p, "networkInspect")
        /\ UNCHANGED <<namespace, call>>
     \/ End(p, "gone") /\ UNCHANGED net
  /\ UNCHANGED <<ctr, image, policy, cleanup>>

\* On an error the network stays.
NetworkInspect(p) ==
  /\ pc[p] = "networkInspect"
  /\ \/ net = p /\ Open(p, p, TRUE)
     \/ End(p, "gone")
  /\ UNCHANGED <<docker, policy, cleanup>>

-----------------------------------------------------------------------------
(* Build: BuildImage under LockForBuild. *)

BuildLock(p) ==
  /\ pc[p] = "open" /\ p \in Builder
  /\ Lock(p, "build")
  /\ \E force \in BOOLEAN : Goto(p, IF force THEN "forceBuild" ELSE "imageList")
  /\ UNCHANGED <<docker, namespace, arg, existing, policy, cleanup>>

ImageList(p) ==
  /\ pc[p] = "imageList"
  /\ \/ image = None /\ Goto(p, "imageBuild") /\ UNCHANGED call
     \/ Return(p, "open")
  /\ UNCHANGED <<docker, namespace, policy, cleanup>>

ImageBuild(p) ==
  /\ pc[p] \in {"imageBuild", "forceBuild"}
  /\ image' = (p \in Beacon) \/ UNCHANGED image
  /\ Return(p, "open")
  /\ UNCHANGED <<net, ctr, namespace, policy, cleanup>>

-----------------------------------------------------------------------------
(* Run: CreateContainer and StartContainer under LockForContainerSetup. *)

\* Mutant of RunLock: no lock.
RunLockNot(p, c) ==
  /\ pc[p] = "open"
  /\ arg' = [arg EXCEPT ![p] = c]
  /\ Goto(p, "create")
  /\ UNCHANGED <<docker, namespace, existing, locks, policy, cleanup>>

RunLock(p, c) ==
  /\ pc[p] = "open"
  /\ Lock(p, c)
  /\ arg' = [arg EXCEPT ![p] = c]
  /\ Goto(p, "create")
  /\ UNCHANGED <<docker, namespace, existing, policy, cleanup>>

\* Run returns, and nothing else happens.
RunReturn(p) == Return(p, "open") /\ UNCHANGED <<docker, namespace>>

(* A container that the instance knows is taken as it is, unless its         *)
(* configuration is found to be another; the rest asks Docker.               *)
CreateKnown(p) ==
  /\ pc[p] = "create" /\ known[p][arg[p]] # None
  /\ \/ Goto(p, "start") /\ UNCHANGED <<docker, namespace, call>>
     \/ RunReturn(p)
  /\ UNCHANGED <<policy, cleanup>>

ContainerList(p) ==
  /\ pc[p] = "create" /\ known[p][arg[p]] = None
  /\ LET c == ctr[arg[p]]
     IN  \/ /\ c = None
            /\ Goto(p, "containerCreate")
            /\ UNCHANGED <<docker, namespace, call>>
         \/ /\ c # None /\ c.image /\ policy[p] # "error"
            /\ existing' = [existing EXCEPT ![p] = c]
            /\ Goto(p, "containerInspect")
            /\ UNCHANGED <<docker, namespace, arg, locks>>
         \/ RunReturn(p)
  /\ UNCHANGED <<policy, cleanup>>

\* Mutant of Register: what was created is removed, whatever the policy.
RegisterCreated(p, id, found, connected) ==
  /\ term' = [term EXCEPT ![p] =
       IF ~ found \/ policy[p] = "takeover"
       THEN Append(@, [op |-> "remove", c |-> arg[p], id |-> id])
       ELSE IF connected
       THEN Append(@, [op |-> "disconnect", c |-> arg[p], id |-> id])
       ELSE @]
  /\ known' = [known EXCEPT ![p][arg[p]] = id]
  /\ Goto(p, "start")
  /\ UNCHANGED <<nw, running, call>>

\* The end of CreateContainer, for the container id, which was there or not.
Register(p, id, found, connected) ==
  /\ term' = [term EXCEPT ![p] =
       IF (~ found /\ policy[p] # "reusable") \/ policy[p] = "takeover"
       THEN Append(@, [op |-> "remove", c |-> arg[p], id |-> id])
       ELSE IF connected
       THEN Append(@, [op |-> "disconnect", c |-> arg[p], id |-> id])
       ELSE @]
  /\ known' = [known EXCEPT ![p][arg[p]] = id]
  /\ Goto(p, "start")
  /\ UNCHANGED <<nw, running, call>>

\* The container with the ID that p has, or found, is still there.
Same(p, id) == ctr[arg[p]] # None /\ ctr[arg[p]].id = id

(* The state and the networks are those that ContainerList found.  The       *)
(* configuration may be found inconsistent.                                  *)
ContainerInspect(p) ==
  /\ pc[p] = "containerInspect"
  /\ LET e == existing[p]
     IN  \/ /\ Same(p, e.id) /\ e.state # "paused" /\ nw[p] \in e.nets
            /\ Register(p, e.id, TRUE, FALSE)
            /\ UNCHANGED docker
         \/ /\ Same(p, e.id) /\ e.state # "paused" /\ nw[p] \notin e.nets
            /\ Goto(p, "networkConnect")
            /\ UNCHANGED <<docker, namespace, call>>
         \/ RunReturn(p)
  /\ UNCHANGED <<policy, cleanup>>

NetworkConnect(p) ==
  /\ pc[p] = "networkConnect"
  /\ LET id == existing[p].id
         able == Same(p, id) /\ net = nw[p]
     IN  \/ /\ able
            /\ ctr' = [ctr EXCEPT ![arg[p]].nets = @ \cup {nw[p]}]
            /\ Register(p, id, TRUE, TRUE)
            /\ UNCHANGED <<net, image>>
         \/ RunReturn(p)
  /\ UNCHANGED <<policy, cleanup>>

\* The pull of the image, which may fail, and the creation.
ContainerCreate(p) ==
  /\ pc[p] = "containerCreate"
  /\ \/ /\ ctr[arg[p]] = None
        /\ ctr' = [ctr EXCEPT ![arg[p]] =
                     [id |-> p, state |-> "created", nets |-> {nw[p]},
                      image |-> TRUE]]
        /\ Register(p, p, FALSE, FALSE)
        /\ UNCHANGED <<net, image>>
     \/ RunReturn(p)
  /\ UNCHANGED <<policy, cleanup>>

\* StartContainer up to ContainerStart, which leaves a running one alone.
ContainerStart(p) ==
  /\ pc[p] = "start"
  /\ LET c == arg[p]
         able == Same(p, known[p][c]) /\ ctr[c].state # "paused"
                   /\ ctr[c].nets \subseteq {net, Other}
     IN  \/ /\ c \notin running[p] /\ able
            /\ ctr' = [ctr EXCEPT ![c].state = "running"]
            /\ Goto(p, "wait")
            /\ UNCHANGED <<net, image, namespace, call>>
         \/ RunReturn(p)
  /\ UNCHANGED <<policy, cleanup>>

(* containerPortMap and Wait, which may time out; nothing is asked of a      *)
(* container without ports and waiter.  Then Run returns.                    *)
Wait(p) ==
  /\ pc[p] = "wait"
  /\ \/ /\ running' = [running EXCEPT ![p] = @ \cup {arg[p]}]
        /\ Return(p, "open")
        /\ UNCHANGED <<docker, nw, known, term>>
     \/ RunReturn(p)
  /\ UNCHANGED <<policy, cleanup>>

-----------------------------------------------------------------------------
(* Close. *)

\* With a beacon server only the connection is closed.
Close(p) ==
  /\ pc[p] = "open"
  /\ IF p \in Beacon \/ term[p] = << >>
     THEN End(p, "closed")
     ELSE Goto(p, "release") /\ UNCHANGED <<namespace, call>>
  /\ UNCHANGED <<docker, policy, cleanup>>

\* What a terminate function of p does, if Docker does it.
Execute(p, t) ==
  CASE t.op = "remove" ->
         /\ ctr' = [ctr EXCEPT ![t.c] =
                     IF @ # None /\ @.id = t.id THEN None ELSE @]
         /\ UNCHANGED net
    [] t.op = "disconnect" ->
         /\ ctr' = IF ctr[t.c] # None /\ ctr[t.c].id = t.id /\ net = nw[p]
                   THEN [ctr EXCEPT ![t.c].nets = @ \ {net}] ELSE ctr
         /\ UNCHANGED net
    [] t.op = "network" ->
         /\ net' = IF net = t.id /\ Attached(net) = {} THEN None ELSE net
         /\ UNCHANGED ctr

\* Mutant of Release: in the order of creation.
ReleaseForward(p) ==
  /\ pc[p] = "release"
  /\ Execute(p, Head(term[p]))
  /\ IF Len(term[p]) = 1
     THEN End(p, "closed")
     ELSE /\ term' = [term EXCEPT ![p] = Tail(@)]
          /\ UNCHANGED <<nw, known, running, call, pc>>
  /\ UNCHANGED <<image, policy, cleanup>>

\* The terminate functions, the last one first; errors do not stop it.
Release(p) ==
  /\ pc[p] = "release"
  /\ Execute(p, term[p][Len(term[p])])
  /\ IF Len(term[p]) = 1
     THEN End(p, "closed")
     ELSE /\ term' = [term EXCEPT ![p] = SubSeq(@, 1, Len(@) - 1)]
          /\ UNCHANGED <<nw, known, running, call, pc>>
  /\ UNCHANGED <<image, policy, cleanup>>

\* The test process dies.
Die(p) ==
  /\ pc[p] \notin Ended \cup {"none"}
  /\ End(p, "gone")
  /\ UNCHANGED <<docker, policy, cleanup>>

-----------------------------------------------------------------------------
(* The end of `confort test`: CleanupResources of what has the label of its   *)
(* beacon instances, containers first.                                       *)

\* Without clean-up if the policy says so, or if the tests could not be run.
TestsEnd ==
  /\ cleanup = "tests"
  /\ \A p \in Beacon : pc[p] \in Ended \cup {"none"}
  /\ \/ /\ \A p \in Beacon : policy[p] # "reusable"
        /\ cleanup' = "containers"
     \/ /\ \/ \E p \in Beacon : policy[p] = "reusable"
           \/ \A p \in Beacon : pc[p] = "none"
        /\ cleanup' = "kept"
  /\ UNCHANGED <<docker, namespace, call, policy, pc>>

\* Mutant of CleanupContainers: running containers are not forced out.
CleanupContainersGently ==
  /\ cleanup = "containers"
  /\ ctr' = [c \in Name |-> IF ctr[c] # None /\ ctr[c].id \in Beacon
                               /\ ctr[c].state # "running"
                             THEN None ELSE ctr[c]]
  /\ cleanup' = "networks"
  /\ UNCHANGED <<net, image, namespace, call, policy, pc>>

CleanupContainers ==
  /\ cleanup = "containers"
  /\ ctr' = [c \in Name |-> IF ctr[c] # None /\ ctr[c].id \in Beacon
                             THEN None ELSE ctr[c]]
  /\ cleanup' = "networks"
  /\ UNCHANGED <<net, image, namespace, call, policy, pc>>

CleanupNetworks ==
  /\ cleanup = "networks"
  /\ net' = IF net \in Beacon /\ Attached(net) = {} THEN None ELSE net
  /\ cleanup' = "done"
  /\ UNCHANGED <<ctr, image, namespace, call, policy, pc>>

-----------------------------------------------------------------------------
(* Any policies, but one for all with a beacon server, which gets it from    *)
(* the command; with or without a network and containers of earlier times.   *)
Init ==
  /\ net \in {None, User}
  /\ ctr \in [Name -> {None} \cup {c \in Before : c.nets \subseteq {net, Other}}]
  /\ image = None
  /\ policy \in [Proc -> Policy]
  /\ \A p, q \in Beacon : policy[p] = policy[q]
  /\ pc = [p \in Proc |-> "none"]
  /\ arg = [p \in Proc |-> None]
  /\ nw = [p \in Proc |-> None]
  /\ known = [p \in Proc |-> [c \in Name |-> None]]
  /\ running = [p \in Proc |-> {}]
  /\ existing = [p \in Proc |-> None]
  /\ term = [p \in Proc |-> << >>]
  /\ locks = [l \in {"namespace", "build"} \cup Name |-> None]
  /\ cleanup = "tests"

Step(p) ==
  \/ NewLock(p) \/ NetworkList(p) \/ NetworkCreate(p) \/ NetworkInspect(p)
  \/ BuildLock(p) \/ ImageList(p) \/ ImageBuild(p)
  \/ \E c \in Name : RunLock(p, c)
  \/ CreateKnown(p) \/ ContainerList(p) \/ ContainerInspect(p)
  \/ NetworkConnect(p) \/ ContainerCreate(p) \/ ContainerStart(p) \/ Wait(p)
  \/ Close(p) \/ Release(p) \/ Die(p)

Next ==
  \/ \E p \in Proc : Step(p)
  \/ TestsEnd \/ CleanupContainers \/ CleanupNetworks

Spec == Init /\ [][Next]_vars

-----------------------------------------------------------------------------
\* Type invariant of Docker's resources, the instances and their locks.
TypeOK ==
  /\ net \in Proc \cup {User, None}
  /\ ctr \in [Name -> Container \cup {None}]
  /\ image \in BOOLEAN \cup {None}
  /\ policy \in [Proc -> Policy]
  /\ pc \in [Proc -> Place]
  /\ arg \in [Proc -> Name \cup {None}]
  /\ nw \in [Proc -> Proc \cup {User, None}]
  /\ known \in [Proc -> [Name -> Proc \cup {User, None}]]
  /\ running \in [Proc -> SUBSET Name]
  /\ existing \in [Proc -> Container \cup {None}]
  /\ term \in [Proc -> Seq(Terminate)]
  /\ locks \in [{"namespace", "build"} \cup Name -> Beacon \cup {None}]
  /\ cleanup \in {"tests", "kept", "containers", "networks", "done"}

\* p, which has no beacon server, may remove what id created: p holds it, and
\* has created it or takes it over.
MayRemove(p, id, held) ==
  /\ p \in Proc \ Beacon /\ pc[p] = "release" /\ id = held
  /\ policy[p] = "takeover" \/ (id = p /\ policy[p] # "reusable")

(* Resources are removed by who may remove them (README.md:180-184): an      *)
(* instance removes what it created, unless it was to be reusable, or with   *)
(* takeover the very network and containers that it reused; the command, what *)
(* its own tests created.  A name that somebody else has created anew in the  *)
(* meantime is left alone.                                                   *)
OwnRemoval ==
  [][/\ \A c \in Name : ctr[c] # None /\ ctr'[c] = None =>
          \/ \E p \in Proc : term'[p] # term[p] /\ MayRemove(p, ctr[c].id, known[p][c])
          \/ ctr[c].id \in Beacon /\ cleanup = "containers"
     /\ net # None /\ net' = None =>
          \/ \E p \in Proc : term'[p] # term[p] /\ MayRemove(p, net, nw[p])
          \/ net \in Beacon /\ cleanup = "networks"]_vars

(* "Close releases all created resources with cft" (confort.go:280): when    *)
(* Close returns, the containers are gone that p created, also those that    *)
(* failed to start, and so is the network, unless somebody else's container  *)
(* runs on it.                                                               *)
CloseCleans ==
  [][\A p \in Proc \ Beacon :
       pc[p] # "closed" /\ pc'[p] = "closed" /\ policy[p] # "reusable" =>
         /\ \A c \in Name : ctr'[c] # None => ctr'[c].id # p
         /\ net' = p => \E c \in Attached(net) : ctr[c].id # p]_vars

(* `confort test` leaves nothing behind that its tests created ("After tests *)
(* finished, all created resources will be removed", README.md:132), also if *)
(* they failed half-way or died, but for a network that others use.          *)
TestCleans ==
  [][cleanup # "done" /\ cleanup' = "done" =>
       /\ \A c \in Name : ctr'[c] # None => ctr'[c].id \notin Beacon
       /\ net' \in Beacon => Attached(net) # {}]_vars

(* Instances of one beacon server never get in each other's way: what one    *)
(* has found missing, no other one has created when it creates it.           *)
NoConflict ==
  \A p \in Beacon :
    /\ pc[p] = "networkCreate" => net \notin Beacon
    /\ pc[p] = "imageBuild" => image # TRUE
    /\ pc[p] = "containerCreate" /\ ctr[arg[p]] # None =>
         ctr[arg[p]].id \notin Beacon

=============================================================================
