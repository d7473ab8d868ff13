---------------------------- MODULE BackendProofs ----------------------------
(***************************************************************************)
(* Networks, images and containers are created, and removed, by those who  *)
(* may, for any number of instances, with and without a beacon server.      *)
(***************************************************************************)
EXTENDS Backend, SequenceTheorems, TLAPS

\* What a call of p has at hand where it is.
CallInv(p) ==
  /\ pc[p] \in Setting => arg[p] \in Name
  /\ pc[p] \in {"containerInspect", "networkConnect"} => existing[p] \in Container
  /\ pc[p] \in Opened => nw[p] \in Proc \cup {User}
  /\ pc[p] \in Early => term[p] = << >>
  /\ pc[p] = "release" => p \notin Beacon /\ term[p] # << >>

\* An instance with a beacon server has the lock of the call it is in.
LockInv(p) ==
  p \in Beacon =>
    /\ pc[p] \in Early \ {"none"} => locks["namespace"] = p
    /\ pc[p] \in Building => locks["build"] = p
    /\ pc[p] \in Setting => locks[arg[p]] = p

\* The clean-up functions of p are about what p may remove.
TermInv(p) ==
  \A n \in 1..Len(term[p]) : term[p][n].op \in {"remove", "network"} =>
    \/ policy[p] = "takeover"
    \/ term[p][n].id = p /\ policy[p] # "reusable"

RemoveOwn(p, c) == [op |-> "remove", c |-> c, id |-> p]
RemoveNet(p) == [op |-> "network", id |-> p]

CleansUp(p) == p \in Proc \ Beacon /\ policy[p] # "reusable"

\* The container c is p's.
Owns(p, c) == ctr[c] # None /\ ctr[c].id = p

(* Who cleans up has a function for each of its containers, and for its      *)
(* network one that comes last, that is, the first in the list.               *)
OwnTerm(p) ==
  CleansUp(p) /\ pc[p] # "gone" =>
    \A c \in Name : Owns(p, c) => \E n \in 1..Len(term[p]) : term[p][n] = RemoveOwn(p, c)

NetFirst(p) ==
  CleansUp(p) /\ net = p =>
    \/ pc[p] \in {"gone", "closed", "networkInspect"}
    \/ term[p] # << >> /\ term[p][1] = RemoveNet(p)

\* NoConflict, for p.
Undisputed(p) ==
  p \in Beacon =>
    /\ pc[p] = "networkCreate" => net \notin Beacon
    /\ pc[p] = "imageBuild" => image # TRUE
    /\ pc[p] = "containerCreate" /\ ctr[arg[p]] # None => ctr[arg[p]].id \notin Beacon

InstanceInv(p) ==
  /\ CallInv(p) /\ LockInv(p) /\ Undisputed(p)
  /\ TermInv(p) /\ OwnTerm(p) /\ NetFirst(p)

\* The clean-up of the command comes after the tests, and containers go first.
CleanupInv ==
  /\ cleanup # "tests" => \A p \in Beacon : pc[p] \in Ended \cup {"none"}
  /\ cleanup \in {"networks", "done"} =>
       \A c \in Name : ctr[c] # None => ctr[c].id \notin Beacon

\* The inductive invariant.
IInv == TypeOK /\ CleanupInv /\ \A p \in Proc : InstanceInv(p)

-----------------------------------------------------------------------------
(* What a step of p leaves alone. *)

OthersKept(p) ==
  \A r \in Proc : r # p =>
    /\ pc'[r] = pc[r] /\ arg'[r] = arg[r] /\ existing'[r] = existing[r]
    /\ nw'[r] = nw[r] /\ term'[r] = term[r]

LocksKept(p) ==
  \A r \in Proc : r # p =>
    \A l \in {"namespace", "build"} \cup Name : locks[l] = r => locks'[l] = r

\* Resources come from p's creations only.
Creations(p) ==
  /\ \A r \in Proc : net' = r /\ net # r => r = p /\ pc[p] = "networkCreate"
  /\ \A r \in Proc, c \in Name : Owns(r, c)' /\ ~ Owns(r, c) =>
       r = p /\ pc[p] = "containerCreate" /\ arg[p] = c
  /\ image' = TRUE /\ image # TRUE => p \in Beacon /\ pc[p] \in Building

\* None is neither a process nor a container.
LEMMA Distinct ==
  /\ None \notin Proc /\ None \notin Container /\ User # None
  /\ User \notin Proc /\ Beacon \subseteq Proc
BY BackendAssumption

\* The instances that a step of p is not about.
LEMMA OtherInstances ==
  ASSUME IInv, NEW p \in Proc, OthersKept(p), LocksKept(p), Creations(p),
         UNCHANGED policy
  PROVE  \A r \in Proc : r # p => InstanceInv(r)'
<1> SUFFICES ASSUME NEW r \in Proc, r # p PROVE InstanceInv(r)'
  OBVIOUS
<1>1. /\ InstanceInv(r) /\ InstanceInv(p)
      /\ pc'[r] = pc[r] /\ arg'[r] = arg[r] /\ existing'[r] = existing[r]
      /\ nw'[r] = nw[r] /\ term'[r] = term[r] /\ policy'[r] = policy[r]
  BY DEF IInv, OthersKept
<1>2. CallInv(r)' /\ TermInv(r)'
  BY <1>1 DEF InstanceInv, CallInv, TermInv
<1>3. LockInv(r)'
  BY <1>1, ZenonT(60) DEF InstanceInv, CallInv, LockInv, LocksKept
<1>4. OwnTerm(r)'
  <2>1. \A c \in Name : Owns(r, c)' => Owns(r, c)
    BY DEF Creations
  <2> QED
    BY <1>1, <2>1 DEF InstanceInv, OwnTerm, CleansUp, RemoveOwn
<1>5. NetFirst(r)'
  BY <1>1 DEF InstanceInv, NetFirst, CleansUp, RemoveNet, Creations
<1>6. Undisputed(r)'
  <2> SUFFICES ASSUME r \in Beacon PROVE Undisputed(r)'
    BY DEF Undisputed
  <2>1. CASE pc[r] = "networkCreate"
    <3>1. pc[p] = "networkCreate" => p \notin Beacon
      BY <1>1, <2>1 DEF InstanceInv, LockInv, Early
    <3>2. net \notin Beacon
      BY <1>1, <2>1 DEF InstanceInv, Undisputed
    <3>3. net' \notin Beacon
      BY <3>1, <3>2, Distinct DEF Creations
    <3> QED
      BY <1>1, <2>1, <3>3 DEF Undisputed
  <2>2. CASE pc[r] = "imageBuild"
    <3>1. p \in Beacon => pc[p] \notin Building
      BY <1>1, <2>2 DEF InstanceInv, LockInv, Building
    <3>2. image # TRUE
      BY <1>1, <2>2 DEF InstanceInv, Undisputed
    <3>3. image' # TRUE
      BY <3>1, <3>2 DEF Creations
    <3> QED
      BY <1>1, <2>2, <3>3 DEF Undisputed
  <2>3. CASE pc[r] = "containerCreate"
    <3>1. PICK c \in Name : arg[r] = c /\ locks[c] = r
      BY <1>1, <2>3 DEF InstanceInv, CallInv, LockInv, Setting
    <3>2. pc[p] = "containerCreate" /\ arg[p] = c => p \notin Beacon
      BY <1>1, <3>1 DEF InstanceInv, LockInv, Setting
    <3>3. \A q \in Beacon : ~ Owns(q, c)
      BY <1>1, <2>3, <3>1, Distinct DEF InstanceInv, Undisputed, Owns
    <3>4. \A q \in Beacon : ~ Owns(q, c)'
      BY <3>1, <3>2, <3>3, Distinct DEF Creations
    <3>5. arg'[r] = c /\ (ctr'[c] # None => ctr'[c].id \notin Beacon)
      BY <1>1, <3>1, <3>4 DEF Owns
    <3> QED
      BY <1>1, <2>3, <3>5 DEF Undisputed
  <2> QED
    BY <1>1, <2>1, <2>2, <2>3 DEF Undisputed
<1> QED
  BY <1>2, <1>3, <1>4, <1>5, <1>6 DEF InstanceInv

\* What a step of p must show about p.
LEMMA StepInv ==
  ASSUME IInv, NEW p \in Proc, OthersKept(p), LocksKept(p), Creations(p),
         UNCHANGED policy, UNCHANGED cleanup, p \in Beacon => cleanup = "tests",
         TypeOK', InstanceInv(p)'
  PROVE  IInv'
<1>1. \A r \in Proc : InstanceInv(r)'
  BY OtherInstances
<1>2. CleanupInv'
  <2>1. ASSUME cleanup # "tests" PROVE \A r \in Beacon : pc'[r] = pc[r]
    BY <2>1, Distinct DEF OthersKept
  <2>2. ASSUME cleanup \in {"networks", "done"}, NEW c \in Name, ctr'[c] # None
        PROVE  ctr'[c].id \notin Beacon
    <3> SUFFICES ASSUME NEW r \in Beacon, Owns(r, c)' PROVE FALSE
      BY <2>2 DEF Owns
    <3>1. r \in Proc /\ r # p
      BY <2>2, Distinct
    <3>2. Owns(r, c)
      BY <3>1 DEF Creations
    <3> QED
      BY <2>2, <3>2 DEF IInv, CleanupInv, Owns
  <2> QED
    BY <2>1, <2>2 DEF IInv, CleanupInv
<1> QED
  BY <1>1, <1>2 DEF IInv

\* A beacon instance that is in a call has not been cleaned up after.
LEMMA TestsGoOn ==
  ASSUME IInv, NEW p \in Proc, pc[p] \notin Ended \cup {"none"}
  PROVE  p \in Beacon => cleanup = "tests"
BY DEF IInv, CleanupInv

-----------------------------------------------------------------------------
(* The ways a call goes on: it returns, the instance ends, or the next        *)
(* request comes.                                                            *)

\* Unlocking takes nothing from the others.
LEMMA UnlockKeeps ==
  ASSUME TypeOK, NEW p \in Proc, Unlock(p)
  PROVE  /\ LocksKept(p)
         /\ locks' \in [{"namespace", "build"} \cup Name -> Beacon \cup {None}]
BY DEF TypeOK, Unlock, LocksKept

\* Docker does nothing.
LEMMA NothingCreated ==
  ASSUME NEW p \in Proc, UNCHANGED docker
  PROVE  Creations(p)
BY DEF docker, Creations, Owns

\* What Return does.
LEMMA ReturnEffect ==
  ASSUME TypeOK, NEW p \in Proc, NEW where \in Place, Return(p, where)
  PROVE  /\ pc'[p] = where /\ LocksKept(p)
         /\ \A r \in Proc : r # p =>
              pc'[r] = pc[r] /\ arg'[r] = arg[r] /\ existing'[r] = existing[r]
         /\ pc' \in [Proc -> Place]
         /\ arg' \in [Proc -> Name \cup {None}]
         /\ existing' \in [Proc -> Container \cup {None}]
         /\ locks' \in [{"namespace", "build"} \cup Name -> Beacon \cup {None}]
<1>1. /\ pc' = [pc EXCEPT ![p] = where]
      /\ arg' = [arg EXCEPT ![p] = None]
      /\ existing' = [existing EXCEPT ![p] = None]
      /\ Unlock(p)
  BY DEF Return, Goto
<1>2. /\ pc \in [Proc -> Place] /\ arg \in [Proc -> Name \cup {None}]
      /\ existing \in [Proc -> Container \cup {None}]
  BY DEF TypeOK
<1>3. /\ LocksKept(p)
      /\ locks' \in [{"namespace", "build"} \cup Name -> Beacon \cup {None}]
  BY <1>1, UnlockKeeps
<1> HIDE DEF Container, Place
<1> QED
  BY <1>1, <1>2, <1>3

\* The instance is no more, before it has cleaned up.
LEMMA GoneInv ==
  ASSUME IInv, NEW p \in Proc, End(p, "gone"), p \in Beacon => cleanup = "tests",
         UNCHANGED <<docker, policy, cleanup>>
  PROVE  IInv'
<1>1. TypeOK /\ "gone" \in Place
  BY DEF IInv, Place, Ended
<1>2. Return(p, "gone")
  BY DEF End
<1>3. /\ nw' = [nw EXCEPT ![p] = None]
      /\ known' = [known EXCEPT ![p] = [c \in Name |-> None]]
      /\ running' = [running EXCEPT ![p] = {}]
      /\ term' = [term EXCEPT ![p] = << >>]
  BY DEF End
<1>4. pc'[p] = "gone" /\ LocksKept(p) /\ term'[p] = << >>
  BY <1>1, <1>2, <1>3, ReturnEffect DEF TypeOK
<1>5. OthersKept(p)
  BY <1>1, <1>2, <1>3, ReturnEffect DEF OthersKept, TypeOK
<1>6. TypeOK'
  <2>1. /\ nw' \in [Proc -> Proc \cup {User, None}]
        /\ running' \in [Proc -> SUBSET Name]
        /\ term' \in [Proc -> Seq(Terminate)]
    BY <1>1, <1>3 DEF TypeOK
  <2>2. known' \in [Proc -> [Name -> Proc \cup {User, None}]]
    BY <1>1, <1>3 DEF TypeOK
  <2>3. /\ pc' \in [Proc -> Place]
        /\ arg' \in [Proc -> Name \cup {None}]
        /\ existing' \in [Proc -> Container \cup {None}]
        /\ locks' \in [{"namespace", "build"} \cup Name -> Beacon \cup {None}]
    BY <1>1, <1>2, ReturnEffect
  <2> QED
    BY <1>1, <2>1, <2>2, <2>3 DEF TypeOK, docker
<1>7. InstanceInv(p)'
  <2>1. CallInv(p)' /\ LockInv(p)' /\ Undisputed(p)'
    BY <1>4 DEF CallInv, LockInv, Undisputed, Setting, Opened, Early, Building
  <2>2. TermInv(p)' /\ OwnTerm(p)' /\ NetFirst(p)'
    BY <1>4 DEF TermInv, OwnTerm, NetFirst
  <2> QED
    BY <2>1, <2>2 DEF InstanceInv
<1> QED
  BY <1>4, <1>5, <1>6, <1>7, NothingCreated, StepInv

\* A call that returns without having created anything.
LEMMA BackInv ==
  ASSUME IInv, NEW p \in Proc, pc[p] \in Building \cup Setting, Return(p, "open"),
         UNCHANGED <<nw, known, term>>, running' \in [Proc -> SUBSET Name],
         UNCHANGED <<net, ctr, policy, cleanup>>, image' \in BOOLEAN \cup {None},
         Creations(p)
  PROVE  IInv'
<1>1. TypeOK /\ "open" \in Place /\ InstanceInv(p)
  BY DEF IInv, Place, Opened
<1>2. pc'[p] = "open" /\ LocksKept(p) /\ OthersKept(p)
  BY <1>1, ReturnEffect DEF OthersKept
<1>3. TypeOK'
  <2>1. /\ pc' \in [Proc -> Place]
        /\ arg' \in [Proc -> Name \cup {None}]
        /\ existing' \in [Proc -> Container \cup {None}]
        /\ locks' \in [{"namespace", "build"} \cup Name -> Beacon \cup {None}]
    BY <1>1, ReturnEffect
  <2> QED
    BY <1>1, <2>1 DEF TypeOK
<1>4. pc[p] \in Opened /\ pc[p] \notin {"gone", "closed", "networkInspect", "release"}
  BY DEF Opened, Building, Setting
<1>5. CallInv(p)' /\ LockInv(p)' /\ Undisputed(p)'
  BY <1>1, <1>2, <1>4
     DEF InstanceInv, CallInv, LockInv, Undisputed, Setting, Opened, Early, Building
<1>6. TermInv(p)' /\ OwnTerm(p)' /\ NetFirst(p)'
  BY <1>1, <1>2, <1>4
     DEF InstanceInv, TermInv, OwnTerm, NetFirst, CleansUp, Owns, RemoveOwn, RemoveNet
<1>7. p \in Beacon => cleanup = "tests"
  BY <1>4, TestsGoOn DEF Ended, Opened, Building, Setting
<1> QED
  BY <1>2, <1>3, <1>5, <1>6, <1>7, StepInv DEF InstanceInv

\* The call goes on to its next request; nothing new is there.
LEMMA GotoInv ==
  ASSUME IInv, NEW p \in Proc, NEW to \in Place, Goto(p, to),
         UNCHANGED <<net, image, namespace, policy, cleanup>>,
         ctr' \in [Name -> Container \cup {None}],
         \A r \in Proc, c \in Name : Owns(r, c)' => Owns(r, c),
         locks' \in [{"namespace", "build"} \cup Name -> Beacon \cup {None}],
         LocksKept(p),
         arg' \in [Proc -> Name \cup {None}],
         existing' \in [Proc -> Container \cup {None}],
         \A r \in Proc : r # p => arg'[r] = arg[r] /\ existing'[r] = existing[r],
         pc[p] \notin {"gone", "closed", "networkInspect"},
         p \in Beacon => cleanup = "tests",
         CallInv(p)', LockInv(p)', Undisputed(p)'
  PROVE  IInv'
<1>1. TypeOK /\ InstanceInv(p)
  BY DEF IInv
<1>2. /\ pc' = [pc EXCEPT ![p] = to] /\ pc' \in [Proc -> Place] /\ pc'[p] = to
      /\ \A r \in Proc : r # p => pc'[r] = pc[r]
  BY <1>1 DEF Goto, TypeOK
<1>3. OthersKept(p)
  BY <1>2 DEF OthersKept, namespace
<1>4. TypeOK'
  BY <1>1, <1>2 DEF TypeOK, namespace
<1>5. Creations(p)
  BY DEF Creations
<1>6. TermInv(p)' /\ OwnTerm(p)' /\ NetFirst(p)'
  BY <1>1, <1>2
     DEF InstanceInv, TermInv, OwnTerm, NetFirst, CleansUp, RemoveOwn, RemoveNet, namespace
<1> QED
  BY <1>3, <1>4, <1>5, <1>6, StepInv DEF InstanceInv

\* The lock of a call is p's if it is at the server.
LEMMA LockEffect ==
  ASSUME TypeOK, NEW p \in Proc, NEW l \in {"namespace", "build"} \cup Name, Lock(p, l)
  PROVE  /\ LocksKept(p) /\ (p \in Beacon => locks'[l] = p)
         /\ locks' \in [{"namespace", "build"} \cup Name -> Beacon \cup {None}]
<1>1. CASE p \in Beacon
  <2>1. locks[l] = None /\ locks' = [locks EXCEPT ![l] = p]
    BY <1>1 DEF Lock
  <2>2. locks \in [{"namespace", "build"} \cup Name -> Beacon \cup {None}]
    BY DEF TypeOK
  <2>3. \A m \in {"namespace", "build"} \cup Name :
          locks'[m] = IF m = l THEN p ELSE locks[m]
    BY <2>1, <2>2
  <2>4. LocksKept(p)
    BY <2>1, <2>3, Distinct DEF LocksKept
  <2>5. locks' \in [{"namespace", "build"} \cup Name -> Beacon \cup {None}]
    BY <1>1, <2>1, <2>2
  <2> QED
    BY <2>3, <2>4, <2>5
<1>2. CASE p \notin Beacon
  BY <1>2 DEF TypeOK, Lock, LocksKept
<1> QED
  BY <1>1, <1>2

\* The locks and the container of the call stay as they are.
LEMMA CallKept ==
  ASSUME TypeOK, NEW p \in Proc, UNCHANGED call
  PROVE  /\ LocksKept(p)
         /\ locks' \in [{"namespace", "build"} \cup Name -> Beacon \cup {None}]
         /\ arg' \in [Proc -> Name \cup {None}]
         /\ existing' \in [Proc -> Container \cup {None}]
         /\ \A r \in Proc : arg'[r] = arg[r] /\ existing'[r] = existing[r]
BY DEF TypeOK, call, LocksKept

\* The containers stay as they are.
LEMMA ContainersKept ==
  ASSUME TypeOK, UNCHANGED docker
  PROVE  /\ ctr' \in [Name -> Container \cup {None}]
         /\ \A r \in Proc, c \in Name : Owns(r, c)' => Owns(r, c)
         /\ UNCHANGED <<net, image>>
BY DEF TypeOK, docker, Owns

\* A call goes on that has changed nothing but its place.
LEMMA OnwardInv ==
  ASSUME IInv, NEW p \in Proc, NEW to \in Place, Goto(p, to),
         UNCHANGED <<docker, namespace, call, policy, cleanup>>,
         pc[p] \notin Ended \cup {"none", "networkInspect"},
         CallInv(p)', LockInv(p)', Undisputed(p)'
  PROVE  IInv'
<1>1. TypeOK /\ (p \in Beacon => cleanup = "tests")
  BY TestsGoOn DEF IInv
<1> QED
  BY <1>1, CallKept, ContainersKept, GotoInv DEF Ended

-----------------------------------------------------------------------------
(* New. *)

LEMMA NewLockInv ==
  ASSUME IInv, NEW p \in Proc, NewLock(p)
  PROVE  IInv'
<1>1. CASE End(p, "gone")
  BY <1>1, GoneInv DEF NewLock
<1>2. CASE /\ Lock(p, "namespace") /\ Goto(p, "networkList")
           /\ UNCHANGED <<namespace, arg, existing>>
  <2>1. TypeOK /\ InstanceInv(p) /\ pc'[p] = "networkList" /\ pc[p] = "none"
    BY <1>2 DEF IInv, NewLock, Goto, TypeOK
  <2>2. UNCHANGED <<docker, policy, cleanup>>
    BY DEF NewLock
  <2>3. CallInv(p)' /\ LockInv(p)' /\ Undisputed(p)'
    BY <1>2, <2>1, LockEffect
       DEF InstanceInv, CallInv, LockInv, Undisputed, Early, Building, Setting, Opened,
           namespace
  <2>4. "networkList" \in Place /\ pc[p] \notin {"gone", "closed", "networkInspect"}
    BY <2>1 DEF Place, Early
  <2>5. p \in Beacon => cleanup = "tests"
    BY DEF NewLock
  <2>6. /\ LocksKept(p)
        /\ locks' \in [{"namespace", "build"} \cup Name -> Beacon \cup {None}]
    BY <1>2, <2>1, LockEffect
  <2>7. /\ arg' \in [Proc -> Name \cup {None}]
        /\ existing' \in [Proc -> Container \cup {None}]
        /\ \A r \in Proc : r # p => arg'[r] = arg[r] /\ existing'[r] = existing[r]
    BY <1>2, <2>1 DEF TypeOK
  <2> QED
    BY <1>2, <2>1, <2>2, <2>3, <2>4, <2>5, <2>6, <2>7, ContainersKept, GotoInv
<1> QED
  BY <1>1, <1>2 DEF NewLock

\* Namespace has its network: p is open for calls.
LEMMA OpenInv ==
  ASSUME IInv, NEW p \in Proc, NEW n \in Proc \cup {User}, NEW nwCreated \in BOOLEAN,
         pc[p] \in {"networkList", "networkInspect"}, net = n, nwCreated => n = p,
         ~ nwCreated => pc[p] = "networkList",
         Open(p, n, nwCreated), UNCHANGED <<docker, policy, cleanup>>
  PROVE  IInv'
<1>1. TypeOK /\ InstanceInv(p) /\ "open" \in Place
  BY DEF IInv, Place, Opened
<1>2. /\ Return(p, "open") /\ UNCHANGED <<known, running>>
      /\ nw' = [nw EXCEPT ![p] = n]
  BY DEF Open
<1> DEFINE t == IF \/ nwCreated /\ policy[p] # "reusable"
                   \/ policy[p] = "takeover"
                THEN <<RemoveNet(n)>> ELSE << >>
<1>3. term' = [term EXCEPT ![p] = t]
  BY DEF Open, RemoveNet
<1>4. t \in Seq(Terminate)
  <2>1. RemoveNet(n) \in Terminate
    BY DEF RemoveNet, Terminate
  <2>2. <<RemoveNet(n)>> \in Seq(Terminate) /\ << >> \in Seq(Terminate)
    BY <2>1
  <2> QED
    BY <2>2
<1>5. /\ t # << >> => /\ t = <<RemoveNet(n)>>
                      /\ policy[p] = "takeover" \/ (n = p /\ policy[p] # "reusable")
      /\ nwCreated /\ policy[p] # "reusable" => t = <<RemoveNet(n)>>
  OBVIOUS
<1> HIDE DEF t
<1>6. /\ nw' \in [Proc -> Proc \cup {User, None}] /\ nw'[p] = n
      /\ \A r \in Proc : r # p => nw'[r] = nw[r]
  BY <1>1, <1>2 DEF TypeOK
<1>7. /\ term' \in [Proc -> Seq(Terminate)] /\ term'[p] = t
      /\ \A r \in Proc : r # p => term'[r] = term[r]
  BY <1>1, <1>3, <1>4 DEF TypeOK
<1>8. pc'[p] = "open" /\ LocksKept(p) /\ OthersKept(p)
  BY <1>1, <1>2, <1>6, <1>7, ReturnEffect DEF OthersKept
<1>9. TypeOK'
  <2>1. /\ pc' \in [Proc -> Place]
        /\ arg' \in [Proc -> Name \cup {None}]
        /\ existing' \in [Proc -> Container \cup {None}]
        /\ locks' \in [{"namespace", "build"} \cup Name -> Beacon \cup {None}]
    BY <1>1, <1>2, ReturnEffect
  <2> QED
    BY <1>1, <1>2, <1>6, <1>7, <2>1 DEF TypeOK, docker
<1>10. CallInv(p)' /\ LockInv(p)' /\ Undisputed(p)'
  BY <1>6, <1>8 DEF CallInv, LockInv, Undisputed, Setting, Opened, Early, Building
<1>11. TermInv(p)'
  BY <1>5, <1>7 DEF TermInv, RemoveNet
<1>12. OwnTerm(p)'
  <2>1. CleansUp(p) => \A c \in Name : ~ Owns(p, c)
    BY <1>1 DEF InstanceInv, CallInv, OwnTerm, Early
  <2> QED
    BY <2>1 DEF OwnTerm, CleansUp, Owns, docker
<1>13. NetFirst(p)'
  <2>1. CASE nwCreated
    BY <1>5, <1>7, <2>1 DEF NetFirst, CleansUp
  <2>2. CASE ~ nwCreated
    <3>1. CleansUp(p) => net # p
      BY <1>1, <2>2 DEF InstanceInv, NetFirst, CallInv, Early
    <3> QED
      BY <3>1 DEF NetFirst, CleansUp, docker
  <2> QED
    BY <2>1, <2>2
<1>14. p \in Beacon => cleanup = "tests"
  BY TestsGoOn DEF Ended
<1> QED
  BY <1>8, <1>9, <1>10, <1>11, <1>12, <1>13, <1>14, NothingCreated, StepInv
     DEF InstanceInv

LEMMA NetworkListInv ==
  ASSUME IInv, NEW p \in Proc, NetworkList(p)
  PROVE  IInv'
<1>1. TypeOK /\ InstanceInv(p) /\ pc[p] = "networkList"
      /\ (p \in Beacon => cleanup = "tests")
  BY TestsGoOn DEF IInv, NetworkList, Ended
<1>2. CASE net # None /\ Open(p, net, FALSE)
  <2>1. net \in Proc \cup {User}
    BY <1>1, <1>2 DEF TypeOK
  <2> QED
    BY <1>1, <1>2, <2>1, OpenInv DEF NetworkList
<1>3. CASE net = None /\ Goto(p, "networkCreate") /\ UNCHANGED <<namespace, call>>
  <2>1. pc'[p] = "networkCreate" /\ "networkCreate" \in Place
    BY <1>1, <1>3 DEF Goto, TypeOK, Place, Early
  <2>2. UNCHANGED <<docker, policy, cleanup>>
    BY DEF NetworkList
  <2>3. CallInv(p)' /\ LockInv(p)'
    BY <1>1, <1>3, <2>1
       DEF InstanceInv, CallInv, LockInv, Early, Building, Setting, Opened,
           namespace, call
  <2>4. Undisputed(p)'
    BY <1>3, <2>1, <2>2, Distinct DEF Undisputed, docker
  <2> QED
    BY <1>1, <1>3, <2>1, <2>2, <2>3, <2>4, OnwardInv DEF Ended
<1>4. CASE End(p, "gone")
  BY <1>1, <1>4, GoneInv DEF NetworkList
<1> QED
  BY <1>2, <1>3, <1>4 DEF NetworkList

LEMMA NetworkCreateInv ==
  ASSUME IInv, NEW p \in Proc, NetworkCreate(p)
  PROVE  IInv'
<1>1. TypeOK /\ InstanceInv(p) /\ pc[p] = "networkCreate"
      /\ (p \in Beacon => cleanup = "tests")
  BY TestsGoOn DEF IInv, NetworkCreate, Ended
<1>2. CASE net' = p /\ Goto(p, "networkInspect") /\ UNCHANGED <<namespace, call>>
  <2>1. /\ pc' = [pc EXCEPT ![p] = "networkInspect"] /\ "networkInspect" \in Place
        /\ UNCHANGED <<ctr, image, policy, cleanup>>
    BY <1>2 DEF Goto, NetworkCreate, Place, Early
  <2>2. /\ pc' \in [Proc -> Place] /\ pc'[p] = "networkInspect"
        /\ \A r \in Proc : r # p => pc'[r] = pc[r]
    BY <1>1, <2>1 DEF TypeOK
  <2>3. OthersKept(p) /\ LocksKept(p)
    BY <1>2, <2>2 DEF OthersKept, LocksKept, namespace, call
  <2>4. TypeOK'
    BY <1>1, <1>2, <2>1, <2>2 DEF TypeOK, namespace, call
  <2>5. Creations(p)
    BY <1>1, <1>2, <2>1 DEF Creations, Owns
  <2>6. CallInv(p)' /\ LockInv(p)' /\ Undisputed(p)'
    BY <1>1, <1>2, <2>2
       DEF InstanceInv, CallInv, LockInv, Undisputed, Early, Building, Setting, Opened,
           namespace, call
  <2>7. TermInv(p)' /\ OwnTerm(p)' /\ NetFirst(p)'
    BY <1>1, <1>2, <2>1, <2>2
       DEF InstanceInv, TermInv, OwnTerm, NetFirst, CleansUp, Owns, RemoveOwn, namespace
  <2> QED
    BY <1>1, <2>1, <2>3, <2>4, <2>5, <2>6, <2>7, StepInv DEF InstanceInv
<1>3. CASE End(p, "gone") /\ UNCHANGED net
  <2>1. UNCHANGED <<docker, policy, cleanup>>
    BY <1>3 DEF NetworkCreate, docker
  <2> QED
    BY <1>1, <1>3, <2>1, GoneInv
<1> QED
  BY <1>2, <1>3 DEF NetworkCreate

LEMMA NetworkInspectInv ==
  ASSUME IInv, NEW p \in Proc, NetworkInspect(p)
  PROVE  IInv'
<1>1. pc[p] = "networkInspect" /\ (p \in Beacon => cleanup = "tests")
  BY TestsGoOn DEF NetworkInspect, Ended
<1>2. CASE net = p /\ Open(p, p, TRUE)
  BY <1>1, <1>2, OpenInv DEF NetworkInspect
<1>3. CASE End(p, "gone")
  BY <1>1, <1>3, GoneInv DEF NetworkInspect
<1> QED
  BY <1>2, <1>3 DEF NetworkInspect

-----------------------------------------------------------------------------
(* Build. *)

LEMMA BuildLockInv ==
  ASSUME IInv, NEW p \in Proc, BuildLock(p)
  PROVE  IInv'
<1>1. PICK to \in {"forceBuild", "imageList"} : Goto(p, to)
  BY DEF BuildLock
<1>2. /\ pc[p] = "open" /\ Lock(p, "build")
      /\ UNCHANGED <<docker, namespace, arg, existing, policy, cleanup>>
  BY DEF BuildLock
<1>3. TypeOK /\ InstanceInv(p) /\ pc'[p] = to /\ to \in Place
  BY <1>1 DEF IInv, Goto, TypeOK, Place, Opened, Building
<1>4. CallInv(p)' /\ LockInv(p)' /\ Undisputed(p)'
  BY <1>2, <1>3, LockEffect
     DEF InstanceInv, CallInv, LockInv, Undisputed, Early, Building, Setting, Opened,
         namespace
<1>5. /\ LocksKept(p)
      /\ locks' \in [{"namespace", "build"} \cup Name -> Beacon \cup {None}]
  BY <1>2, <1>3, LockEffect
<1>6. /\ arg' \in [Proc -> Name \cup {None}]
      /\ existing' \in [Proc -> Container \cup {None}]
      /\ \A r \in Proc : r # p => arg'[r] = arg[r] /\ existing'[r] = existing[r]
  BY <1>2, <1>3 DEF TypeOK
<1>7. p \in Beacon => cleanup = "tests"
  BY <1>2, TestsGoOn DEF Ended
<1> QED
  BY <1>1, <1>2, <1>3, <1>4, <1>5, <1>6, <1>7, ContainersKept, GotoInv

LEMMA ImageListInv ==
  ASSUME IInv, NEW p \in Proc, ImageList(p)
  PROVE  IInv'
<1>1. /\ TypeOK /\ InstanceInv(p) /\ pc[p] = "imageList"
      /\ UNCHANGED <<docker, namespace, policy, cleanup>>
  BY DEF IInv, ImageList
<1>2. CASE image = None /\ Goto(p, "imageBuild") /\ UNCHANGED call
  <2>1. pc'[p] = "imageBuild" /\ "imageBuild" \in Place
    BY <1>1, <1>2 DEF Goto, TypeOK, Place, Opened, Building
  <2>2. CallInv(p)' /\ LockInv(p)'
    BY <1>1, <1>2, <2>1
       DEF InstanceInv, CallInv, LockInv, Early, Building, Setting, Opened,
           namespace, call
  <2>3. image' # TRUE
    BY <1>1, <1>2, BackendAssumption, Zenon DEF docker
  <2>4. Undisputed(p)'
    BY <2>1, <2>3 DEF Undisputed
  <2> QED
    BY <1>1, <1>2, <2>1, <2>2, <2>4, OnwardInv DEF Ended
<1>3. CASE Return(p, "open")
  <2>1. Creations(p)
    BY <1>1, NothingCreated
  <2>2. UNCHANGED <<nw, known, term>> /\ running' \in [Proc -> SUBSET Name]
    BY <1>1 DEF TypeOK, namespace
  <2>3. UNCHANGED <<net, ctr, policy, cleanup>> /\ image' \in BOOLEAN \cup {None}
    BY <1>1, Zenon DEF TypeOK, docker
  <2> QED
    BY <1>1, <1>3, <2>1, <2>2, <2>3, BackInv DEF Building
<1> QED
  BY <1>1, <1>2, <1>3 DEF ImageList

LEMMA ImageBuildInv ==
  ASSUME IInv, NEW p \in Proc, ImageBuild(p)
  PROVE  IInv'
<1>1. /\ TypeOK /\ pc[p] \in Building /\ Return(p, "open")
      /\ UNCHANGED <<net, ctr, namespace, policy, cleanup>>
  BY DEF IInv, ImageBuild, Building
<1>2. image' = (p \in Beacon) \/ image' = image
  BY Zenon DEF ImageBuild
<1>3. image' \in BOOLEAN \cup {None}
  <2>1. image \in BOOLEAN \cup {None}
    BY <1>1 DEF TypeOK
  <2>2. ASSUME image' = (p \in Beacon) PROVE image' \in BOOLEAN
    BY <2>2
  <2> QED
    BY <1>2, <2>1, <2>2, Zenon
<1>4. image' = TRUE /\ image # TRUE => p \in Beacon
  BY <1>2, Zenon
<1>5. Creations(p)
  BY <1>1, <1>4 DEF Creations, Owns
<1>6. UNCHANGED <<nw, known, term>> /\ running' \in [Proc -> SUBSET Name]
  BY <1>1 DEF TypeOK, namespace
<1> QED
  BY <1>1, <1>3, <1>5, <1>6, BackInv

-----------------------------------------------------------------------------
(* Run. *)

LEMMA RunLockInv ==
  ASSUME IInv, NEW p \in Proc, NEW c \in Name, RunLock(p, c)
  PROVE  IInv'
<1>1. /\ pc[p] = "open" /\ Lock(p, c) /\ Goto(p, "create")
      /\ arg' = [arg EXCEPT ![p] = c]
      /\ UNCHANGED <<docker, namespace, existing, policy, cleanup>>
  BY DEF RunLock
<1>2. TypeOK /\ InstanceInv(p) /\ pc'[p] = "create" /\ "create" \in Place
  BY <1>1 DEF IInv, Goto, TypeOK, Place, Opened, Setting
<1>3. /\ arg' \in [Proc -> Name \cup {None}] /\ arg'[p] = c
      /\ existing' \in [Proc -> Container \cup {None}]
      /\ \A r \in Proc : r # p => arg'[r] = arg[r] /\ existing'[r] = existing[r]
  BY <1>1, <1>2 DEF TypeOK
<1>4. /\ LocksKept(p) /\ (p \in Beacon => locks'[c] = p)
      /\ locks' \in [{"namespace", "build"} \cup Name -> Beacon \cup {None}]
  BY <1>1, <1>2, LockEffect
<1>5. CallInv(p)' /\ LockInv(p)' /\ Undisputed(p)'
  BY <1>1, <1>2, <1>3, <1>4
     DEF InstanceInv, CallInv, LockInv, Undisputed, Early, Building, Setting, Opened,
         namespace
<1>6. p \in Beacon => cleanup = "tests"
  BY <1>1, TestsGoOn DEF Ended
<1> QED
  BY <1>1, <1>2, <1>3, <1>4, <1>5, <1>6, ContainersKept, GotoInv

\* Run returns, having found or failed to get what it needs.
LEMMA RunReturnInv ==
  ASSUME IInv, NEW p \in Proc, pc[p] \in Setting, RunReturn(p),
         UNCHANGED <<policy, cleanup>>
  PROVE  IInv'
<1>1. TypeOK /\ Return(p, "open") /\ UNCHANGED <<docker, namespace>>
  BY DEF IInv, RunReturn
<1>2. UNCHANGED <<nw, known, term>> /\ running' \in [Proc -> SUBSET Name]
  BY <1>1 DEF TypeOK, namespace
<1>3. UNCHANGED <<net, ctr, policy, cleanup>> /\ image' \in BOOLEAN \cup {None}
  BY <1>1, Zenon DEF TypeOK, docker
<1> QED
  BY <1>1, <1>2, <1>3, NothingCreated, BackInv

\* The next request of Run is about the same container.
LEMMA RunOnInv ==
  ASSUME IInv, NEW p \in Proc, pc[p] \in Setting,
         NEW to \in {"start", "containerCreate", "networkConnect"},
         to = "containerCreate" => ctr[arg[p]] = None,
         to = "networkConnect" => pc[p] = "containerInspect",
         Goto(p, to), UNCHANGED <<docker, namespace, call, policy, cleanup>>
  PROVE  IInv'
<1>1. /\ TypeOK /\ InstanceInv(p) /\ to \in Place /\ pc'[p] = to
      /\ pc[p] \notin Ended \cup {"none", "networkInspect"}
  BY DEF IInv, Goto, TypeOK, Place, Opened, Setting, Ended
<1>2. CallInv(p)' /\ LockInv(p)' /\ Undisputed(p)'
  BY <1>1 DEF InstanceInv, CallInv, LockInv, Undisputed, Early, Building, Setting,
              Opened, namespace, call, docker
<1> QED
  BY <1>1, <1>2, OnwardInv

LEMMA CreateKnownInv ==
  ASSUME IInv, NEW p \in Proc, CreateKnown(p)
  PROVE  IInv'
BY RunOnInv, RunReturnInv DEF CreateKnown, Setting

LEMMA ContainerListInv ==
  ASSUME IInv, NEW p \in Proc, ContainerList(p)
  PROVE  IInv'
<1>1. TypeOK /\ InstanceInv(p) /\ pc[p] = "create" /\ UNCHANGED <<policy, cleanup>>
  BY DEF IInv, ContainerList
<1>2. arg[p] \in Name
  BY <1>1 DEF InstanceInv, CallInv, Setting
<1> DEFINE c == ctr[arg[p]]
<1>3. CASE /\ c = None /\ Goto(p, "containerCreate")
           /\ UNCHANGED <<docker, namespace, call>>
  BY <1>1, <1>3, RunOnInv DEF Setting
<1>4. CASE /\ c # None /\ existing' = [existing EXCEPT ![p] = c]
           /\ Goto(p, "containerInspect")
           /\ UNCHANGED <<docker, namespace, arg, locks>>
  <2>1. c \in Container
    BY <1>1, <1>2, <1>4 DEF TypeOK
  <2> HIDE DEF c
  <2>2. pc'[p] = "containerInspect" /\ "containerInspect" \in Place
    BY <1>1, <1>4 DEF Goto, TypeOK, Place, Opened, Setting
  <2>3. /\ existing' \in [Proc -> Container \cup {None}] /\ existing'[p] = c
        /\ arg' \in [Proc -> Name \cup {None}]
        /\ \A r \in Proc : r # p => arg'[r] = arg[r] /\ existing'[r] = existing[r]
    BY <1>1, <1>4, <2>1 DEF TypeOK
  <2>4. /\ LocksKept(p)
        /\ locks' \in [{"namespace", "build"} \cup Name -> Beacon \cup {None}]
    BY <1>1, <1>4 DEF TypeOK, LocksKept
  <2>5. CallInv(p)' /\ LockInv(p)' /\ Undisputed(p)'
    BY <1>1, <1>4, <2>1, <2>2, <2>3
       DEF InstanceInv, CallInv, LockInv, Undisputed, Early, Building, Setting, Opened,
           namespace
  <2>6. p \in Beacon => cleanup = "tests"
    BY <1>1, TestsGoOn DEF Ended
  <2> QED
    BY <1>1, <1>4, <2>2, <2>3, <2>4, <2>5, <2>6, ContainersKept, GotoInv
<1>5. CASE RunReturn(p)
  BY <1>1, <1>5, RunReturnInv DEF Setting
<1> QED
  BY <1>3, <1>4, <1>5 DEF ContainerList

\* The end of CreateContainer: whoever cleans up has a function for what it
\* created.
LEMMA RegisterInv ==
  ASSUME IInv, NEW p \in Proc, pc[p] \in Setting, NEW id \in Proc \cup {User},
         NEW found \in BOOLEAN, NEW connected \in BOOLEAN,
         Register(p, id, found, connected), ~ found => id = p,
         UNCHANGED <<net, image, policy, cleanup>>,
         ctr' \in [Name -> Container \cup {None}], Creations(p),
         \A c \in Name : Owns(p, c)' /\ ~ Owns(p, c) => c = arg[p] /\ ~ found
  PROVE  IInv'
<1>1. TypeOK /\ InstanceInv(p) /\ arg[p] \in Name /\ term[p] \in Seq(Terminate)
  BY DEF IInv, InstanceInv, CallInv, TypeOK
<1>2. /\ pc' = [pc EXCEPT ![p] = "start"] /\ "start" \in Place
      /\ known' = [known EXCEPT ![p][arg[p]] = id]
      /\ UNCHANGED <<nw, running, call>>
  BY DEF Register, Goto, Place, Opened, Setting
<1> DEFINE remove == [op |-> "remove", c |-> arg[p], id |-> id]
           disconnect == [op |-> "disconnect", c |-> arg[p], id |-> id]
           mine == (~ found /\ policy[p] # "reusable") \/ policy[p] = "takeover"
           t == IF mine THEN Append(term[p], remove)
                ELSE IF connected THEN Append(term[p], disconnect) ELSE term[p]
<1>3. term' = [term EXCEPT ![p] = t]
  BY DEF Register
<1>4. remove \in Terminate /\ disconnect \in Terminate
  BY <1>1 DEF Terminate
<1>5. /\ t \in Seq(Terminate) /\ Len(t) >= Len(term[p])
      /\ \A n \in 1..Len(term[p]) : t[n] = term[p][n]
  BY <1>1, <1>4
<1>6. mine => Len(t) = Len(term[p]) + 1 /\ t[Len(t)] = remove
  BY <1>1, <1>4
<1>7. ASSUME NEW n \in 1..Len(t), n \notin 1..Len(term[p])
      PROVE  \/ mine /\ t[n] = remove
             \/ t[n] = disconnect
  BY <1>1, <1>4, <1>7
<1>8. mine => policy[p] = "takeover" \/ (id = p /\ policy[p] # "reusable")
  OBVIOUS
<1>9. /\ remove.op = "remove" /\ remove.id = id /\ disconnect.op = "disconnect"
      /\ id = p => remove = RemoveOwn(p, arg[p])
  BY DEF RemoveOwn
<1> HIDE DEF t, remove, disconnect
<1>10. /\ term' \in [Proc -> Seq(Terminate)] /\ term'[p] = t
       /\ \A r \in Proc : r # p => term'[r] = term[r]
  BY <1>1, <1>3, <1>5 DEF TypeOK
<1>11. /\ pc' \in [Proc -> Place] /\ pc'[p] = "start"
       /\ \A r \in Proc : r # p => pc'[r] = pc[r]
  BY <1>1, <1>2 DEF TypeOK
<1>12. known' \in [Proc -> [Name -> Proc \cup {User, None}]]
  BY <1>1, <1>2 DEF TypeOK
<1>13. TypeOK'
  BY <1>1, <1>2, <1>10, <1>11, <1>12 DEF TypeOK, call
<1>14. OthersKept(p) /\ LocksKept(p)
  BY <1>2, <1>10, <1>11 DEF OthersKept, LocksKept, call
<1>15. CallInv(p)' /\ LockInv(p)' /\ Undisputed(p)'
  BY <1>1, <1>2, <1>11
     DEF InstanceInv, CallInv, LockInv, Undisputed, Early, Building, Setting, Opened,
         call
<1>16. TermInv(p)'
  <2> SUFFICES ASSUME NEW n \in 1..Len(t), t[n].op \in {"remove", "network"}
               PROVE  policy[p] = "takeover" \/ (t[n].id = p /\ policy[p] # "reusable")
    BY <1>10 DEF TermInv
  <2>1. CASE n \in 1..Len(term[p])
    BY <1>1, <1>5, <2>1 DEF InstanceInv, TermInv
  <2>2. CASE n \notin 1..Len(term[p])
    BY <1>7, <1>8, <1>9, <2>2
  <2> QED
    BY <2>1, <2>2
<1>17. OwnTerm(p)'
  <2> SUFFICES ASSUME CleansUp(p), NEW c \in Name, Owns(p, c)'
               PROVE  \E n \in 1..Len(t) : t[n] = RemoveOwn(p, c)
    BY <1>10 DEF OwnTerm, CleansUp, RemoveOwn
  <2>1. CASE Owns(p, c)
    <3>1. PICK n \in 1..Len(term[p]) : term[p][n] = RemoveOwn(p, c)
      BY <1>1, <2>1 DEF InstanceInv, OwnTerm, Setting
    <3>2. n \in 1..Len(t) /\ t[n] = RemoveOwn(p, c)
      BY <1>1, <1>5, <3>1
    <3> QED
      BY <3>2
  <2>2. CASE ~ Owns(p, c)
    <3>1. c = arg[p] /\ ~ found /\ mine
      BY <2>2 DEF CleansUp
    <3>2. Len(t) \in 1..Len(t) /\ t[Len(t)] = RemoveOwn(p, c)
      BY <1>1, <1>6, <1>9, <3>1
    <3> QED
      BY <3>2
  <2> QED
    BY <2>1, <2>2
<1>18. NetFirst(p)'
  <2>1. CleansUp(p) /\ net = p => term[p] # << >> /\ term[p][1] = RemoveNet(p)
    BY <1>1 DEF InstanceInv, NetFirst, Setting
  <2>2. term[p] # << >> => 1 \in 1..Len(term[p]) /\ t # << >> /\ t[1] = term[p][1]
    BY <1>1, <1>5
  <2> QED
    BY <1>10, <2>1, <2>2 DEF NetFirst, CleansUp, RemoveNet
<1>19. p \in Beacon => cleanup = "tests"
  BY TestsGoOn DEF Ended, Setting
<1> QED
  BY <1>13, <1>14, <1>15, <1>16, <1>17, <1>18, <1>19, StepInv DEF InstanceInv

LEMMA ContainerInspectInv ==
  ASSUME IInv, NEW p \in Proc, ContainerInspect(p)
  PROVE  IInv'
<1>1. TypeOK /\ InstanceInv(p) /\ pc[p] = "containerInspect"
      /\ UNCHANGED <<policy, cleanup>>
  BY DEF IInv, ContainerInspect
<1>2. existing[p].id \in Proc \cup {User}
  BY <1>1 DEF InstanceInv, CallInv, Container
<1>3. CASE Register(p, existing[p].id, TRUE, FALSE) /\ UNCHANGED docker
  <2>1. Creations(p)
    BY <1>3, NothingCreated
  <2>2. /\ ctr' \in [Name -> Container \cup {None}]
        /\ \A c \in Name : Owns(p, c)' => Owns(p, c)
    BY <1>1, <1>3, ContainersKept
  <2>3. UNCHANGED <<net, image, policy, cleanup>> /\ pc[p] \in Setting
    BY <1>1, <1>3 DEF docker, Setting
  <2>4. PICK id \in Proc \cup {User} : id = existing[p].id
    BY <1>2
  <2>5. Register(p, id, TRUE, FALSE)
    BY <1>3, <2>4
  <2> QED
    BY <2>1, <2>2, <2>3, <2>5, RegisterInv
<1>4. CASE Goto(p, "networkConnect") /\ UNCHANGED <<docker, namespace, call>>
  BY <1>1, <1>4, RunOnInv DEF Setting
<1>5. CASE RunReturn(p)
  BY <1>1, <1>5, RunReturnInv DEF Setting
<1> QED
  BY <1>3, <1>4, <1>5 DEF ContainerInspect

LEMMA NetworkConnectInv ==
  ASSUME IInv, NEW p \in Proc, NetworkConnect(p)
  PROVE  IInv'
<1>1. TypeOK /\ InstanceInv(p) /\ pc[p] = "networkConnect"
      /\ UNCHANGED <<policy, cleanup>>
  BY DEF IInv, NetworkConnect
<1>2. /\ existing[p].id \in Proc \cup {User} /\ arg[p] \in Name
      /\ nw[p] \in Proc \cup {User}
  BY <1>1 DEF InstanceInv, CallInv, Container, Setting, Opened
<1>3. CASE /\ Same(p, existing[p].id)
           /\ ctr' = [ctr EXCEPT ![arg[p]].nets = @ \cup {nw[p]}]
           /\ Register(p, existing[p].id, TRUE, TRUE)
           /\ UNCHANGED <<net, image>>
  <2>1. ctr[arg[p]] \in Container /\ ctr \in [Name -> Container \cup {None}]
    BY <1>1, <1>2, <1>3 DEF TypeOK, Same
  <2> DEFINE new == [ctr[arg[p]] EXCEPT !.nets = @ \cup {nw[p]}]
  <2>2. new \in Container /\ new.id = ctr[arg[p]].id
    BY <1>2, <2>1 DEF Container
  <2>3. ctr' = [ctr EXCEPT ![arg[p]] = new]
    BY <1>3
  <2> HIDE DEF new
  <2>4. /\ ctr' \in [Name -> Container \cup {None}]
        /\ \A c \in Name : ctr'[c] = IF c = arg[p] THEN new ELSE ctr[c]
    BY <1>2, <2>1, <2>2, <2>3
  <2>5. \A r \in Proc, c \in Name : Owns(r, c)' => Owns(r, c)
    BY <1>2, <1>3, <2>2, <2>4 DEF Owns, Same
  <2>6. Creations(p)
    BY <1>3, <2>5 DEF Creations
  <2> QED
    BY <1>1, <1>2, <1>3, <2>4, <2>5, <2>6, RegisterInv DEF Setting
<1>4. CASE RunReturn(p)
  BY <1>1, <1>4, RunReturnInv DEF Setting
<1> QED
  BY <1>3, <1>4 DEF NetworkConnect

LEMMA ContainerCreateInv ==
  ASSUME IInv, NEW p \in Proc, ContainerCreate(p)
  PROVE  IInv'
<1>1. TypeOK /\ InstanceInv(p) /\ pc[p] = "containerCreate"
      /\ UNCHANGED <<policy, cleanup>>
  BY DEF IInv, ContainerCreate
<1>2. arg[p] \in Name /\ nw[p] \in Proc \cup {User}
  BY <1>1 DEF InstanceInv, CallInv, Setting, Opened
<1> DEFINE new == [id |-> p, state |-> "created", nets |-> {nw[p]}, image |-> TRUE]
<1>3. CASE /\ ctr' = [ctr EXCEPT ![arg[p]] = new]
           /\ Register(p, p, FALSE, FALSE)
           /\ UNCHANGED <<net, image>>
  <2>1. new \in Container /\ new.id = p
    BY <1>2 DEF Container
  <2> HIDE DEF new
  <2>2. /\ ctr' \in [Name -> Container \cup {None}]
        /\ \A c \in Name : ctr'[c] = IF c = arg[p] THEN new ELSE ctr[c]
    BY <1>1, <1>2, <1>3, <2>1 DEF TypeOK
  <2>3. \A r \in Proc, c \in Name : Owns(r, c)' /\ ~ Owns(r, c) => r = p /\ c = arg[p]
    BY <2>1, <2>2 DEF Owns
  <2>4. Creations(p)
    BY <1>1, <1>3, <2>3 DEF Creations
  <2> QED
    BY <1>1, <1>3, <2>2, <2>3, <2>4, RegisterInv DEF Setting
<1>4. CASE RunReturn(p)
  BY <1>1, <1>4, RunReturnInv DEF Setting
<1> QED
  BY <1>3, <1>4 DEF ContainerCreate

LEMMA ContainerStartInv ==
  ASSUME IInv, NEW p \in Proc, ContainerStart(p)
  PROVE  IInv'
<1>1. TypeOK /\ InstanceInv(p) /\ pc[p] = "start" /\ UNCHANGED <<policy, cleanup>>
  BY DEF IInv, ContainerStart
<1>2. arg[p] \in Name
  BY <1>1 DEF InstanceInv, CallInv, Setting
<1>3. CASE /\ Same(p, known[p][arg[p]])
           /\ ctr' = [ctr EXCEPT ![arg[p]].state = "running"]
           /\ Goto(p, "wait")
           /\ UNCHANGED <<net, image, namespace, call>>
  <2>1. ctr[arg[p]] \in Container /\ ctr \in [Name -> Container \cup {None}]
    BY <1>1, <1>2, <1>3 DEF TypeOK, Same
  <2> DEFINE new == [ctr[arg[p]] EXCEPT !.state = "running"]
  <2>2. new \in Container /\ new.id = ctr[arg[p]].id
    BY <2>1 DEF Container
  <2>3. ctr' = [ctr EXCEPT ![arg[p]] = new]
    BY <1>3
  <2> HIDE DEF new
  <2>4. /\ ctr' \in [Name -> Container \cup {None}]
        /\ \A c \in Name : ctr'[c] = IF c = arg[p] THEN new ELSE ctr[c]
    BY <1>2, <2>1, <2>2, <2>3
  <2>5. \A r \in Proc, c \in Name : Owns(r, c)' => Owns(r, c)
    BY <1>2, <1>3, <2>2, <2>4 DEF Owns, Same
  <2>6. pc'[p] = "wait" /\ "wait" \in Place
    BY <1>1, <1>3 DEF Goto, TypeOK, Place, Opened, Setting
  <2>7. CallInv(p)' /\ LockInv(p)' /\ Undisputed(p)'
    BY <1>1, <1>3, <2>6
       DEF InstanceInv, CallInv, LockInv, Undisputed, Early, Building, Setting, Opened,
           namespace, call
  <2>8. p \in Beacon => cleanup = "tests"
    BY <1>1, TestsGoOn DEF Ended
  <2> QED
    BY <1>1, <1>3, <2>4, <2>5, <2>6, <2>7, <2>8, CallKept, GotoInv
<1>4. CASE RunReturn(p)
  BY <1>1, <1>4, RunReturnInv DEF Setting
<1> QED
  BY <1>3, <1>4 DEF ContainerStart

LEMMA WaitInv ==
  ASSUME IInv, NEW p \in Proc, Wait(p)
  PROVE  IInv'
<1>1. TypeOK /\ InstanceInv(p) /\ pc[p] = "wait" /\ UNCHANGED <<policy, cleanup>>
  BY DEF IInv, Wait
<1>2. CASE /\ running' = [running EXCEPT ![p] = @ \cup {arg[p]}]
           /\ Return(p, "open")
           /\ UNCHANGED <<docker, nw, known, term>>
  <2>1. arg[p] \in Name
    BY <1>1 DEF InstanceInv, CallInv, Setting
  <2>2. running' \in [Proc -> SUBSET Name]
    BY <1>1, <1>2, <2>1 DEF TypeOK
  <2>3. UNCHANGED <<net, ctr, policy, cleanup>> /\ image' \in BOOLEAN \cup {None}
    BY <1>1, <1>2, Zenon DEF TypeOK, docker
  <2> QED
    BY <1>1, <1>2, <2>2, <2>3, NothingCreated, BackInv DEF Setting
<1>3. CASE RunReturn(p)
  BY <1>1, <1>3, RunReturnInv DEF Setting
<1> QED
  BY <1>2, <1>3 DEF Wait

-----------------------------------------------------------------------------
(* Close, and the end of a process. *)

\* Close returns; what p had to remove is gone.
LEMMA ClosedInv ==
  ASSUME IInv, NEW p \in Proc, pc[p] \in {"open", "release"}, End(p, "closed"),
         UNCHANGED <<image, policy, cleanup>>, net' \in {net, None},
         ctr' \in [Name -> Container \cup {None}],
         \A r \in Proc, c \in Name : Owns(r, c)' => Owns(r, c),
         CleansUp(p) => \A c \in Name : ~ Owns(p, c)'
  PROVE  IInv'
<1>1. TypeOK /\ "closed" \in Place
  BY DEF IInv, Place, Ended
<1>2. Return(p, "closed")
  BY DEF End
<1>3. /\ nw' = [nw EXCEPT ![p] = None]
      /\ known' = [known EXCEPT ![p] = [c \in Name |-> None]]
      /\ running' = [running EXCEPT ![p] = {}]
      /\ term' = [term EXCEPT ![p] = << >>]
  BY DEF End
<1>4. pc'[p] = "closed" /\ LocksKept(p) /\ term'[p] = << >>
  BY <1>1, <1>2, <1>3, ReturnEffect DEF TypeOK
<1>5. OthersKept(p)
  BY <1>1, <1>2, <1>3, ReturnEffect DEF OthersKept, TypeOK
<1>6. TypeOK'
  <2>1. /\ nw' \in [Proc -> Proc \cup {User, None}]
        /\ running' \in [Proc -> SUBSET Name]
        /\ term' \in [Proc -> Seq(Terminate)]
    BY <1>1, <1>3 DEF TypeOK
  <2>2. known' \in [Proc -> [Name -> Proc \cup {User, None}]]
    BY <1>1, <1>3 DEF TypeOK
  <2>3. /\ pc' \in [Proc -> Place]
        /\ arg' \in [Proc -> Name \cup {None}]
        /\ existing' \in [Proc -> Container \cup {None}]
        /\ locks' \in [{"namespace", "build"} \cup Name -> Beacon \cup {None}]
    BY <1>1, <1>2, ReturnEffect
  <2>4. net' \in Proc \cup {User, None}
    BY <1>1 DEF TypeOK
  <2> QED
    BY <1>1, <2>1, <2>2, <2>3, <2>4 DEF TypeOK
<1>7. InstanceInv(p)'
  <2>1. CallInv(p)' /\ LockInv(p)' /\ Undisputed(p)'
    BY <1>4 DEF CallInv, LockInv, Undisputed, Setting, Opened, Early, Building
  <2>2. TermInv(p)' /\ NetFirst(p)'
    BY <1>4 DEF TermInv, NetFirst
  <2>3. OwnTerm(p)'
    BY DEF OwnTerm, CleansUp
  <2> QED
    BY <2>1, <2>2, <2>3 DEF InstanceInv
<1>8. Creations(p)
  BY Distinct DEF Creations
<1>9. p \in Beacon => cleanup = "tests"
  BY TestsGoOn DEF Ended
<1> QED
  BY <1>4, <1>5, <1>6, <1>7, <1>8, <1>9, StepInv

LEMMA CloseInv ==
  ASSUME IInv, NEW p \in Proc, Close(p)
  PROVE  IInv'
<1>1. /\ TypeOK /\ InstanceInv(p) /\ pc[p] = "open"
      /\ UNCHANGED <<docker, policy, cleanup>>
  BY DEF IInv, Close
<1>2. CASE p \in Beacon \/ term[p] = << >>
  <2>1. End(p, "closed")
    BY <1>2 DEF Close
  <2>2. CleansUp(p) => \A c \in Name : ~ Owns(p, c)'
    <3> SUFFICES ASSUME CleansUp(p), NEW c \in Name, Owns(p, c) PROVE FALSE
      BY <1>1 DEF docker, Owns
    <3>1. term[p] = << >>
      BY <1>2 DEF CleansUp
    <3> QED
      BY <1>1, <3>1 DEF InstanceInv, OwnTerm
  <2>3. UNCHANGED <<image, policy, cleanup>> /\ net' \in {net, None}
    BY <1>1 DEF docker
  <2> QED
    BY <1>1, <2>1, <2>2, <2>3, ContainersKept, ClosedInv
<1>3. CASE p \notin Beacon /\ term[p] # << >>
  <2>1. Goto(p, "release") /\ UNCHANGED <<namespace, call>>
    BY <1>3 DEF Close
  <2>2. pc'[p] = "release" /\ "release" \in Place
    BY <1>1, <2>1 DEF Goto, TypeOK, Place, Opened
  <2>3. CallInv(p)' /\ LockInv(p)' /\ Undisputed(p)'
    BY <1>1, <1>3, <2>1, <2>2
       DEF InstanceInv, CallInv, LockInv, Undisputed, Early, Building, Setting, Opened,
           namespace
  <2> QED
    BY <1>1, <1>3, <2>1, <2>2, <2>3, CallKept, ContainersKept, GotoInv DEF docker
<1> QED
  BY <1>2, <1>3

\* What a terminate function does: it removes what it is about, and nothing else.
LEMMA ExecuteEffect ==
  ASSUME TypeOK, NEW p \in Proc, NEW t \in Terminate, Execute(p, t)
  PROVE  /\ net' \in {net, None}
         /\ ctr' \in [Name -> Container \cup {None}]
         /\ \A r \in Proc, c \in Name : Owns(r, c)' => Owns(r, c)
         /\ \A c \in Name : ctr[c] # None /\ ctr'[c] = None =>
              t.op = "remove" /\ t.id = ctr[c].id /\ t.c = c
         /\ \A r \in Proc, c \in Name : t = RemoveOwn(r, c) => ~ Owns(r, c)'
         /\ net' # net => t.op = "network" /\ t.id = net
         /\ \A r \in Proc : t = RemoveNet(r) /\ net' = r => net = r /\ Attached(net) # {}
<1>1. ctr \in [Name -> Container \cup {None}] /\ net \in Proc \cup {User, None}
  BY DEF TypeOK
<1>2. /\ t.op \in {"remove", "disconnect", "network"}
      /\ t.op # "network" => t.c \in Name
  BY DEF Terminate
<1>3. \A r \in Proc :
        /\ RemoveNet(r).op = "network" /\ RemoveNet(r).id = r
        /\ \A c \in Name : /\ RemoveOwn(r, c).op = "remove"
                           /\ RemoveOwn(r, c).c = c /\ RemoveOwn(r, c).id = r
  BY DEF RemoveOwn, RemoveNet
<1>4. CASE t.op = "remove"
  <2> DEFINE new == IF ctr[t.c] # None /\ ctr[t.c].id = t.id THEN None ELSE ctr[t.c]
  <2>1. ctr' = [ctr EXCEPT ![t.c] = new] /\ net' = net
    BY <1>4 DEF Execute
  <2>2. new \in Container \cup {None}
    BY <1>1, <1>2, <1>4
  <2>3. /\ ctr' \in [Name -> Container \cup {None}]
        /\ \A c \in Name : ctr'[c] = IF c = t.c THEN new ELSE ctr[c]
    BY <1>1, <1>2, <1>4, <2>1, <2>2
  <2>4. \A r \in Proc, c \in Name : Owns(r, c)' => Owns(r, c)
    BY <2>3 DEF Owns
  <2>5. \A c \in Name : ctr[c] # None /\ ctr'[c] = None =>
          t.id = ctr[c].id /\ t.c = c
    BY <2>3
  <2>6. \A r \in Proc, c \in Name : t = RemoveOwn(r, c) => ~ Owns(r, c)'
    BY <1>3, <2>3 DEF Owns
  <2> QED
    BY <1>3, <1>4, <2>1, <2>3, <2>4, <2>5, <2>6
<1>5. CASE t.op = "disconnect"
  <2>1. /\ ctr' = IF ctr[t.c] # None /\ ctr[t.c].id = t.id /\ net = nw[p]
                  THEN [ctr EXCEPT ![t.c].nets = @ \ {net}] ELSE ctr
        /\ net' = net
    BY <1>5 DEF Execute
  <2>2. /\ ctr' \in [Name -> Container \cup {None}]
        /\ \A c \in Name : /\ ctr[c] # None => ctr'[c] # None
                           /\ ctr'[c] # None => ctr[c] # None /\ ctr'[c].id = ctr[c].id
    <3>1. CASE ctr[t.c] # None /\ ctr' = [ctr EXCEPT ![t.c].nets = @ \ {net}]
      <4>1. ctr[t.c] \in Container
        BY <1>1, <1>2, <1>5, <3>1
      <4> DEFINE new == [ctr[t.c] EXCEPT !.nets = @ \ {net}]
      <4>2. new \in Container /\ new.id = ctr[t.c].id
        BY <4>1 DEF Container
      <4>3. ctr' = [ctr EXCEPT ![t.c] = new]
        BY <3>1
      <4> HIDE DEF new
      <4> QED
        BY <1>1, <1>2, <1>5, <3>1, <4>2, <4>3, Distinct
    <3>2. CASE ctr' = ctr
      BY <1>1, <3>2
    <3> QED
      BY <2>1, <3>1, <3>2
  <2>3. \A r \in Proc, c \in Name : Owns(r, c)' => Owns(r, c)
    BY <2>2 DEF Owns
  <2>4. net' = net /\ \A r \in Proc : t # RemoveNet(r) /\ \A c \in Name : t # RemoveOwn(r, c)
    BY <1>3, <1>5, <2>1
  <2>5. \A c \in Name : ~ (ctr[c] # None /\ ctr'[c] = None)
    BY <2>2
  <2> HIDE DEF Terminate, Container
  <2> QED
    BY <2>2, <2>3, <2>4, <2>5
<1>6. CASE t.op = "network"
  <2>1. /\ net' = IF net = t.id /\ Attached(net) = {} THEN None ELSE net
        /\ ctr' = ctr
    BY <1>6 DEF Execute
  <2>2. \A r \in Proc, c \in Name : Owns(r, c)' => Owns(r, c)
    BY <2>1 DEF Owns
  <2>3. \A r \in Proc : t = RemoveNet(r) /\ net' = r => net = r /\ Attached(net) # {}
    BY <1>3, <2>1, Distinct
  <2> QED
    BY <1>1, <1>3, <1>6, <2>1, <2>2, <2>3
<1> QED
  BY <1>2, <1>4, <1>5, <1>6

\* What is left of the terminate functions when the last one is done.
LEMMA AllButLast ==
  ASSUME NEW S, NEW s \in Seq(S), s # << >>, Len(s) # 1
  PROVE  LET rest == SubSeq(s, 1, Len(s) - 1)
         IN  /\ rest \in Seq(S) /\ Len(rest) = Len(s) - 1 /\ rest # << >>
             /\ \A n \in 1..Len(rest) : n \in 1..Len(s) /\ rest[n] = s[n]
<1>1. PICK l \in Nat : l = Len(s) /\ l >= 1
  OBVIOUS
<1> DEFINE k == Len(s) - 1
<1>2. k \in Nat /\ k >= 1 /\ k < Len(s) /\ Len(s) \in Nat
  <2>1. l # 1
    BY <1>1
  <2>2. l - 1 \in Nat /\ l - 1 >= 1 /\ l - 1 < l
    BY <1>1, <2>1
  <2> QED
    BY <1>1, <2>2
<1> HIDE DEF k
<1>3. /\ SubSeq(s, 1, k) \in Seq(S) /\ Len(SubSeq(s, 1, k)) = k
      /\ \A n \in 1..k : SubSeq(s, 1, k)[n] = s[n]
  BY <1>2, SubSeqProperties
<1>4. SubSeq(s, 1, k) # << >> /\ \A n \in 1..k : n \in 1..Len(s)
  BY <1>2, <1>3
<1> QED
  BY <1>3, <1>4 DEF k

LEMMA ReleaseInv ==
  ASSUME IInv, NEW p \in Proc, Release(p)
  PROVE  IInv'
<1>1. /\ TypeOK /\ InstanceInv(p) /\ pc[p] = "release"
      /\ UNCHANGED <<image, policy, cleanup>>
  BY DEF IInv, Release
<1>2. p \notin Beacon /\ term[p] # << >> /\ term[p] \in Seq(Terminate)
  BY <1>1 DEF InstanceInv, CallInv, TypeOK
<1> DEFINE last == term[p][Len(term[p])]
<1>3. last \in Terminate
  BY <1>2
<1>4. Len(term[p]) \in Nat /\ Len(term[p]) >= 1
  BY <1>2
<1> HIDE DEF last
<1>5. Execute(p, last)
  BY DEF Release, last
<1>6. /\ net' \in {net, None}
      /\ ctr' \in [Name -> Container \cup {None}]
      /\ \A r \in Proc, c \in Name : Owns(r, c)' => Owns(r, c)
      /\ \A c \in Name : last = RemoveOwn(p, c) => ~ Owns(p, c)'
  BY <1>1, <1>3, <1>5, ExecuteEffect
<1>7. CASE Len(term[p]) = 1
  <2>1. End(p, "closed")
    BY <1>7 DEF Release
  <2>2. CleansUp(p) => \A c \in Name : ~ Owns(p, c)'
    <3> SUFFICES ASSUME CleansUp(p), NEW c \in Name, Owns(p, c)' PROVE FALSE
      OBVIOUS
    <3>1. PICK n \in 1..Len(term[p]) : term[p][n] = RemoveOwn(p, c)
      BY <1>1, <1>6 DEF InstanceInv, OwnTerm
    <3>2. n = Len(term[p])
      BY <1>7, <3>1
    <3> QED
      BY <1>6, <3>1, <3>2 DEF last
  <2> QED
    BY <1>1, <1>6, <2>1, <2>2, ClosedInv
<1>8. CASE Len(term[p]) # 1
  <2> DEFINE rest == SubSeq(term[p], 1, Len(term[p]) - 1)
  <2>1. /\ rest \in Seq(Terminate) /\ Len(rest) = Len(term[p]) - 1 /\ rest # << >>
        /\ \A n \in 1..Len(rest) : n \in 1..Len(term[p]) /\ rest[n] = term[p][n]
    BY <1>2, <1>8, AllButLast
  <2>2. /\ term' = [term EXCEPT ![p] = rest]
        /\ UNCHANGED <<nw, known, running, call, pc>>
    BY <1>8 DEF Release
  <2> HIDE DEF rest
  <2>3. /\ term' \in [Proc -> Seq(Terminate)] /\ term'[p] = rest
        /\ \A r \in Proc : r # p => term'[r] = term[r]
    BY <1>1, <2>1, <2>2 DEF TypeOK
  <2>4. TypeOK'
    <3>1. net' \in Proc \cup {User, None}
      BY <1>1, <1>6 DEF TypeOK
    <3> QED
      BY <1>1, <1>6, <2>2, <2>3, <3>1 DEF TypeOK, call
  <2>5. OthersKept(p) /\ LocksKept(p) /\ Creations(p)
    BY <1>1, <1>6, <2>2, <2>3, Distinct DEF OthersKept, LocksKept, Creations, call
  <2>6. CallInv(p)' /\ LockInv(p)' /\ Undisputed(p)'
    BY <1>1, <1>2, <2>1, <2>2, <2>3
       DEF InstanceInv, CallInv, LockInv, Undisputed, Early, Building, Setting, Opened
  <2>7. TermInv(p)'
    BY <1>1, <2>1, <2>3 DEF InstanceInv, TermInv
  <2>8. OwnTerm(p)'
    <3> SUFFICES ASSUME CleansUp(p), NEW c \in Name, Owns(p, c)'
                 PROVE  \E n \in 1..Len(rest) : rest[n] = RemoveOwn(p, c)
      BY <1>1, <2>3 DEF OwnTerm, CleansUp, RemoveOwn
    <3>1. PICK n \in 1..Len(term[p]) : term[p][n] = RemoveOwn(p, c)
      BY <1>1, <1>6 DEF InstanceInv, OwnTerm
    <3>2. n # Len(term[p])
      BY <1>6, <3>1 DEF last
    <3>3. n \in 1..Len(rest)
      BY <1>4, <2>1, <3>2
    <3> QED
      BY <2>1, <3>1, <3>3
  <2>9. NetFirst(p)'
    <3>1. 1 \in 1..Len(rest)
      BY <1>4, <1>8, <2>1
    <3>2. rest[1] = term[p][1]
      BY <2>1, <3>1
    <3>3. CleansUp(p)' /\ net' = p => CleansUp(p) /\ net = p
      BY <1>1, <1>6, Distinct DEF CleansUp
    <3>4. CleansUp(p) /\ net = p => term[p][1] = RemoveNet(p)
      BY <1>1 DEF InstanceInv, NetFirst
    <3> QED
      BY <2>1, <2>3, <3>2, <3>3, <3>4 DEF NetFirst, RemoveNet
  <2> QED
    BY <1>1, <1>2, <2>4, <2>5, <2>6, <2>7, <2>8, <2>9, StepInv DEF InstanceInv
<1> QED
  BY <1>7, <1>8

LEMMA DieInv ==
  ASSUME IInv, NEW p \in Proc, Die(p)
  PROVE  IInv'
<1>1. p \in Beacon => cleanup = "tests"
  BY TestsGoOn DEF Die
<1> QED
  BY <1>1, GoneInv DEF Die

-----------------------------------------------------------------------------
(* The command. *)

LEMMA TestsEndInv ==
  ASSUME IInv, TestsEnd
  PROVE  IInv'
<1>1. /\ cleanup = "tests" /\ cleanup' \in {"containers", "kept"}
      /\ \A p \in Beacon : pc[p] \in Ended \cup {"none"}
      /\ UNCHANGED <<docker, namespace, call, policy, pc>>
  BY DEF TestsEnd
<1>2. TypeOK'
  BY <1>1 DEF IInv, TypeOK, docker, namespace, call
<1>3. CleanupInv'
  BY <1>1 DEF CleanupInv
<1>4. ASSUME NEW p \in Proc PROVE InstanceInv(p)'
  <2>1. InstanceInv(p)
    BY DEF IInv
  <2>2. CallInv(p)' /\ LockInv(p)' /\ TermInv(p)' /\ Undisputed(p)'
    BY <1>1, <2>1, ZenonT(60)
       DEF InstanceInv, CallInv, LockInv, Undisputed, TermInv, docker, namespace, call
  <2>3. OwnTerm(p)' /\ NetFirst(p)'
    BY <1>1, <2>1
       DEF InstanceInv, OwnTerm, NetFirst, CleansUp, Owns, RemoveOwn, RemoveNet, docker,
           namespace
  <2> QED
    BY <2>2, <2>3 DEF InstanceInv
<1> QED
  BY <1>2, <1>3, <1>4 DEF IInv

\* The clean-up takes resources away from beacon instances, which have ended.
LEMMA CleanupStepInv ==
  ASSUME IInv, cleanup # "tests", UNCHANGED <<image, namespace, call, policy, pc>>,
         net' \in {net, None}, ctr' \in [Name -> Container \cup {None}],
         \A c \in Name : ctr'[c] \in {ctr[c], None},
         cleanup' \in {"networks", "done"},
         \A c \in Name : ctr'[c] # None => ctr'[c].id \notin Beacon
  PROVE  IInv'
<1>1. TypeOK /\ CleanupInv
  BY DEF IInv
<1>2. net' \in Proc \cup {User, None}
  BY <1>1 DEF TypeOK
<1>3. TypeOK'
  BY <1>1, <1>2 DEF TypeOK, namespace, call
<1>4. CleanupInv'
  BY <1>1 DEF CleanupInv
<1>5. ASSUME NEW p \in Proc PROVE InstanceInv(p)'
  <2>1. InstanceInv(p)
    BY DEF IInv
  <2>2. \A c \in Name : Owns(p, c)' => Owns(p, c)
    BY DEF Owns
  <2>3. net' = p => net = p
    BY Distinct
  <2>4. CallInv(p)' /\ LockInv(p)' /\ TermInv(p)'
    BY <2>1 DEF InstanceInv, CallInv, LockInv, TermInv, namespace, call
  <2>5. Undisputed(p)'
    BY <1>1 DEF CleanupInv, Undisputed, Ended
  <2>6. OwnTerm(p)' /\ NetFirst(p)'
    BY <2>1, <2>2, <2>3
       DEF InstanceInv, OwnTerm, NetFirst, CleansUp, RemoveOwn, RemoveNet, namespace
  <2> QED
    BY <2>4, <2>5, <2>6 DEF InstanceInv
<1> QED
  BY <1>3, <1>4, <1>5 DEF IInv

LEMMA CleanupContainersInv ==
  ASSUME IInv, CleanupContainers
  PROVE  IInv'
<1>1. /\ ctr' = [c \in Name |-> IF ctr[c] # None /\ ctr[c].id \in Beacon
                                  THEN None ELSE ctr[c]]
      /\ cleanup = "containers" /\ cleanup' = "networks"
      /\ UNCHANGED <<net, image, namespace, call, policy, pc>>
  BY DEF CleanupContainers
<1>2. ctr \in [Name -> Container \cup {None}]
  BY DEF IInv, TypeOK
<1>3. /\ ctr' \in [Name -> Container \cup {None}]
      /\ \A c \in Name : /\ ctr'[c] \in {ctr[c], None}
                         /\ ctr'[c] # None => ctr'[c].id \notin Beacon
  BY <1>1, <1>2
<1> QED
  BY <1>1, <1>3, CleanupStepInv

LEMMA CleanupNetworksInv ==
  ASSUME IInv, CleanupNetworks
  PROVE  IInv'
<1>1. /\ cleanup = "networks" /\ cleanup' = "done" /\ net' \in {net, None}
      /\ UNCHANGED <<ctr, image, namespace, call, policy, pc>>
  BY DEF CleanupNetworks
<1>2. /\ ctr' \in [Name -> Container \cup {None}]
      /\ \A c \in Name : /\ ctr'[c] \in {ctr[c], None}
                         /\ ctr'[c] # None => ctr'[c].id \notin Beacon
  BY <1>1 DEF IInv, TypeOK, CleanupInv
<1> QED
  BY <1>1, <1>2, CleanupStepInv

-----------------------------------------------------------------------------
(* The theorems. *)

LEMMA InitInv == Init => IInv
<1> SUFFICES ASSUME Init PROVE IInv
  OBVIOUS
<1>1. /\ net \in {None, User} /\ image = None /\ policy \in [Proc -> Policy]
      /\ ctr \in [Name -> {None} \cup {c \in Before : c.nets \subseteq {net, Other}}]
      /\ pc = [p \in Proc |-> "none"] /\ arg = [p \in Proc |-> None]
      /\ nw = [p \in Proc |-> None]
      /\ known = [p \in Proc |-> [c \in Name |-> None]]
      /\ running = [p \in Proc |-> {}] /\ existing = [p \in Proc |-> None]
      /\ term = [p \in Proc |-> << >>]
      /\ locks = [l \in {"namespace", "build"} \cup Name |-> None]
      /\ cleanup = "tests"
  BY DEF Init
<1>2. ctr \in [Name -> Container \cup {None}]
  BY <1>1, BackendAssumption
<1>3. \A p \in Proc, c \in Name : ~ Owns(p, c)
  BY <1>1, BackendAssumption DEF Owns
<1>4. TypeOK
  BY <1>1, <1>2 DEF TypeOK, Place, Early
<1>5. CleanupInv
  BY <1>1 DEF CleanupInv
<1>6. ASSUME NEW p \in Proc PROVE InstanceInv(p)
  <2>1. pc[p] = "none" /\ term[p] = << >> /\ net # p
    BY <1>1, Distinct
  <2>2. CallInv(p) /\ LockInv(p) /\ Undisputed(p)
    BY <2>1 DEF CallInv, LockInv, Undisputed, Setting, Opened, Early, Building
  <2>3. TermInv(p) /\ OwnTerm(p) /\ NetFirst(p)
    BY <1>3, <2>1 DEF TermInv, OwnTerm, NetFirst
  <2> QED
    BY <2>2, <2>3 DEF InstanceInv
<1> QED
  BY <1>4, <1>5, <1>6 DEF IInv

LEMMA NextInv == IInv /\ [Next]_vars => IInv'
<1> SUFFICES ASSUME IInv, [Next]_vars PROVE IInv'
  OBVIOUS
<1>1. ASSUME NEW p \in Proc, Step(p) PROVE IInv'
  BY <1>1, NewLockInv, NetworkListInv, NetworkCreateInv, NetworkInspectInv, BuildLockInv,
     ImageListInv, ImageBuildInv, RunLockInv, CreateKnownInv, ContainerListInv,
     ContainerInspectInv, NetworkConnectInv, ContainerCreateInv, ContainerStartInv, WaitInv,
     CloseInv, ReleaseInv, DieInv DEF Step
<1>2. ASSUME UNCHANGED vars PROVE IInv'
  <2>1. UNCHANGED <<net, ctr, image, nw, known, running, term, arg, existing, locks, policy, pc,
                    cleanup>>
    BY <1>2 DEF vars, docker, namespace, call
  <2>2. TypeOK' /\ CleanupInv'
    BY <2>1 DEF IInv, TypeOK, CleanupInv
  <2>3. ASSUME NEW p \in Proc PROVE InstanceInv(p)'
    <3>1. InstanceInv(p)
      BY DEF IInv
    <3>2. CallInv(p)' /\ LockInv(p)' /\ TermInv(p)' /\ Undisputed(p)'
      BY <2>1, <3>1, ZenonT(60) DEF InstanceInv, CallInv, LockInv, Undisputed, TermInv
    <3>3. OwnTerm(p)' /\ NetFirst(p)'
      BY <2>1, <3>1
         DEF InstanceInv, OwnTerm, NetFirst, CleansUp, Owns, RemoveOwn, RemoveNet
    <3> QED
      BY <3>2, <3>3 DEF InstanceInv
  <2> QED
    BY <2>2, <2>3 DEF IInv
<1> QED
  BY <1>1, <1>2, TestsEndInv, CleanupContainersInv, CleanupNetworksInv DEF Next

\* What the instances, their locks and the clean-up functions say of each other
\* holds whatever requests fail and whichever processes die.
THEOREM Invariance == Spec => []IInv
BY InitInv, NextInv, PTL DEF Spec

\* Every request finds what the ones before it have left, of the right kind.
THEOREM TypeCorrect == Spec => []TypeOK
<1>1. IInv => TypeOK
  BY DEF IInv
<1> QED
  BY <1>1, Invariance, PTL

(* The instances of one beacon server never get in each other's way, however  *)
(* many there are, and with others outside of the command.                    *)
THEOREM Unopposed == Spec => []NoConflict
<1>1. IInv => NoConflict
  BY Distinct DEF IInv, InstanceInv, Undisputed, NoConflict
<1> QED
  BY <1>1, Invariance, PTL

\* A step of q leaves the others where they are.
LEMMA OnlyOwnPlace ==
  ASSUME IInv, NEW q \in Proc, Step(q), NEW p \in Proc, pc'[p] # pc[p]
  PROVE  q = p
<1> SUFFICES ASSUME q # p PROVE FALSE
  OBVIOUS
<1>1. pc \in [Proc -> Place]
  BY DEF IInv, TypeOK
<1>2. ASSUME NEW where, Goto(q, where) \/ Return(q, where) \/ End(q, where) PROVE FALSE
  BY <1>1, <1>2 DEF Goto, Return, End
<1>3. ~ NewLock(q) /\ ~ NetworkList(q) /\ ~ NetworkCreate(q) /\ ~ NetworkInspect(q)
  BY <1>2 DEF NewLock, NetworkList, NetworkCreate, NetworkInspect, Open
<1>4. ~ BuildLock(q) /\ ~ ImageList(q) /\ ~ ImageBuild(q)
  BY <1>2 DEF BuildLock, ImageList, ImageBuild
<1>5. \A c \in Name : ~ RunLock(q, c)
  BY <1>2 DEF RunLock
<1>6. ~ CreateKnown(q) /\ ~ ContainerList(q) /\ ~ ContainerInspect(q)
  BY <1>2 DEF CreateKnown, ContainerList, ContainerInspect, Register, RunReturn
<1>7. ~ NetworkConnect(q) /\ ~ ContainerCreate(q) /\ ~ ContainerStart(q) /\ ~ Wait(q)
  BY <1>2 DEF NetworkConnect, ContainerCreate, ContainerStart, Wait, Register, RunReturn
<1>8. ~ Close(q) /\ ~ Release(q) /\ ~ Die(q)
  BY <1>2 DEF Close, Release, Die
<1> QED
  BY <1>3, <1>4, <1>5, <1>6, <1>7, <1>8 DEF Step

\* Only Close and its clean-up make an instance a closed one.
LEMMA OnlyCloseCloses ==
  ASSUME IInv, NEW p \in Proc, Step(p), pc[p] # "closed", pc'[p] = "closed"
  PROVE  Close(p) \/ Release(p)
<1>1. pc \in [Proc -> Place]
  BY DEF IInv, TypeOK
<1>2. ~ NewLock(p) /\ ~ NetworkList(p) /\ ~ NetworkCreate(p) /\ ~ NetworkInspect(p)
  BY <1>1
     DEF NewLock, NetworkList, NetworkCreate, NetworkInspect, Open, Goto, Return, End
<1>3. ~ BuildLock(p) /\ ~ ImageList(p) /\ ~ ImageBuild(p)
  BY <1>1 DEF BuildLock, ImageList, ImageBuild, Goto, Return
<1>4. \A c \in Name : ~ RunLock(p, c)
  BY <1>1 DEF RunLock, Goto
<1>5. ~ CreateKnown(p) /\ ~ ContainerList(p) /\ ~ ContainerInspect(p)
  BY <1>1
     DEF CreateKnown, ContainerList, ContainerInspect, Register, RunReturn, Goto, Return
<1>6. ~ NetworkConnect(p) /\ ~ ContainerCreate(p) /\ ~ ContainerStart(p) /\ ~ Wait(p)
  BY <1>1
     DEF NetworkConnect, ContainerCreate, ContainerStart, Wait, Register, RunReturn,
         Goto,
              Return
<1>7. ~ Die(p)
  BY <1>1 DEF Die, Goto, Return, End
<1> QED
  BY <1>2, <1>3, <1>4, <1>5, <1>6, <1>7 DEF Step

\* A container that is replaced by its new state is still there.
LEMMA StillThere ==
  ASSUME TypeOK, NEW c \in Name, NEW new \in Container, ctr' = [ctr EXCEPT ![c] = new]
  PROVE  \A d \in Name : ctr[d] # None => ctr'[d] # None
BY Distinct DEF TypeOK

\* Only the clean-up of Close removes something.
LEMMA OnlyReleaseRemoves ==
  ASSUME IInv, NEW p \in Proc, Step(p), ~ Release(p)
  PROVE  /\ \A c \in Name : ctr[c] # None => ctr'[c] # None
         /\ net # None => net' # None
<1>1. TypeOK /\ InstanceInv(p)
  BY DEF IInv
<1>2. ASSUME UNCHANGED <<net, ctr>>
      PROVE  /\ \A c \in Name : ctr[c] # None => ctr'[c] # None
             /\ net # None => net' # None
  BY <1>2
<1>3. \/ NewLock(p) \/ NetworkList(p) \/ NetworkInspect(p)
      \/ BuildLock(p) \/ ImageList(p) \/ ImageBuild(p)
      => UNCHANGED <<net, ctr>>
  BY DEF NewLock, NetworkList, NetworkInspect, BuildLock, ImageList, ImageBuild, docker
<1>4. \/ \E c \in Name : RunLock(p, c)
      \/ CreateKnown(p) \/ ContainerList(p) \/ ContainerInspect(p) \/ Wait(p)
      \/ Close(p) \/ Die(p)
      => UNCHANGED <<net, ctr>>
  BY DEF RunLock, CreateKnown, ContainerList, ContainerInspect, Wait, Close, Die, RunReturn,
         docker
<1>5. CASE NetworkCreate(p)
  BY <1>5, Distinct DEF NetworkCreate
<1>6. RunReturn(p) => UNCHANGED <<net, ctr>>
  BY DEF RunReturn, docker
<1>7. pc[p] \in Setting => arg[p] \in Name /\ nw[p] \in Proc \cup {User}
  BY <1>1 DEF InstanceInv, CallInv, Opened
<1>8. \A id : arg[p] \in Name /\ Same(p, id) => ctr[arg[p]] \in Container
  BY <1>1 DEF TypeOK, Same
<1>9. CASE NetworkConnect(p)
  <2>1. CASE /\ Same(p, existing[p].id) /\ UNCHANGED net
             /\ ctr' = [ctr EXCEPT ![arg[p]].nets = @ \cup {nw[p]}]
    <3>1. /\ arg[p] \in Name /\ nw[p] \in Proc \cup {User}
          /\ ctr[arg[p]] \in Container
      BY <1>7, <1>8, <1>9, <2>1 DEF NetworkConnect, Setting
    <3>2. [ctr[arg[p]] EXCEPT !.nets = @ \cup {nw[p]}] \in Container
      BY <3>1 DEF Container
    <3>3. \A d \in Name : ctr[d] # None => ctr'[d] # None
      BY <1>1, <2>1, <3>1, <3>2, StillThere
    <3> QED
      BY <2>1, <3>3
  <2> QED
    BY <1>2, <1>6, <1>9, <2>1 DEF NetworkConnect
<1>10. CASE ContainerCreate(p)
  <2>1. CASE /\ ctr' = [ctr EXCEPT ![arg[p]] =
                         [id |-> p, state |-> "created", nets |-> {nw[p]}, image |-> TRUE]]
             /\ UNCHANGED net
    <3>1. arg[p] \in Name /\ nw[p] \in Proc \cup {User}
      BY <1>7, <1>10 DEF ContainerCreate, Setting
    <3>2. [id |-> p, state |-> "created", nets |-> {nw[p]}, image |-> TRUE] \in Container
      BY <3>1 DEF Container
    <3>3. \A d \in Name : ctr[d] # None => ctr'[d] # None
      BY <1>1, <2>1, <3>1, <3>2, StillThere
    <3> QED
      BY <2>1, <3>3
  <2> QED
    BY <1>2, <1>6, <1>10, <2>1 DEF ContainerCreate
<1>11. CASE ContainerStart(p)
  <2>1. CASE /\ Same(p, known[p][arg[p]]) /\ UNCHANGED net
             /\ ctr' = [ctr EXCEPT ![arg[p]].state = "running"]
    <3>1. arg[p] \in Name /\ ctr[arg[p]] \in Container
      BY <1>7, <1>8, <1>11, <2>1 DEF ContainerStart, Setting
    <3>2. [ctr[arg[p]] EXCEPT !.state = "running"] \in Container
      BY <3>1 DEF Container
    <3>3. \A d \in Name : ctr[d] # None => ctr'[d] # None
      BY <1>1, <2>1, <3>1, <3>2, StillThere
    <3> QED
      BY <2>1, <3>3
  <2> QED
    BY <1>2, <1>6, <1>11, <2>1 DEF ContainerStart
<1> QED
  BY <1>2, <1>3, <1>4, <1>5, <1>9, <1>10, <1>11 DEF Step

-----------------------------------------------------------------------------
(* The clean-up functions are about what the instance holds. *)

\* CreateContainer has found nothing registered under the name.
Seeking == {"containerInspect", "networkConnect", "containerCreate"}

Held(p) ==
  /\ \A n \in 1..Len(term[p]) :
       /\ term[p][n].op = "remove" => term[p][n].id = known[p][term[p][n].c]
       /\ term[p][n].op = "network" => term[p][n].id = nw[p]
  /\ pc[p] \in Seeking => known[p][arg[p]] = None

HeldInv == \A p \in Proc : Held(p)

\* A step of p is about p.
LEMMA HeldFrame ==
  ASSUME HeldInv, NEW p \in Proc, Held(p)',
         \A r \in Proc : r # p =>
           /\ pc'[r] = pc[r] /\ arg'[r] = arg[r] /\ nw'[r] = nw[r]
           /\ known'[r] = known[r] /\ term'[r] = term[r]
  PROVE  HeldInv'
<1> SUFFICES ASSUME NEW r \in Proc, r # p PROVE Held(r)'
  BY DEF HeldInv
<1>1. /\ pc'[r] = pc[r] /\ arg'[r] = arg[r] /\ nw'[r] = nw[r]
      /\ known'[r] = known[r] /\ term'[r] = term[r] /\ Held(r)
  BY DEF HeldInv
<1> QED
  BY <1>1 DEF Held

\* An instance that ends has no functions.
LEMMA HeldEnd ==
  ASSUME TypeOK, HeldInv, NEW p \in Proc, NEW how \in Ended, End(p, how)
  PROVE  HeldInv'
<1>1. how \in Place /\ how \notin Seeking /\ Return(p, how)
  BY DEF Place, Ended, Seeking, End
<1>2. /\ pc'[p] = how
      /\ \A r \in Proc : r # p => pc'[r] = pc[r] /\ arg'[r] = arg[r]
  BY <1>1, ReturnEffect
<1>3. /\ term'[p] = << >>
      /\ \A r \in Proc : r # p =>
           nw'[r] = nw[r] /\ known'[r] = known[r] /\ term'[r] = term[r]
  BY DEF End, TypeOK
<1>4. Held(p)'
  BY <1>1, <1>2, <1>3 DEF Held
<1> QED
  BY <1>2, <1>3, <1>4, HeldFrame

\* A step that leaves the namespace as it is.
LEMMA HeldStays ==
  ASSUME HeldInv, NEW p \in Proc, UNCHANGED <<nw, known, term>>,
         \A r \in Proc : r # p => pc'[r] = pc[r] /\ arg'[r] = arg[r],
         pc'[p] \in Seeking =>
           known[p][arg'[p]] = None \/ (pc[p] \in Seeking /\ arg'[p] = arg[p])
  PROVE  HeldInv'
<1>1. Held(p)
  BY DEF HeldInv
<1>2. Held(p)'
  BY <1>1 DEF Held
<1> QED
  BY <1>2, HeldFrame

LEMMA HeldReturn ==
  ASSUME TypeOK, HeldInv, NEW p \in Proc, Return(p, "open"),
         UNCHANGED <<nw, known, term>>
  PROVE  HeldInv'
<1>1. "open" \in Place /\ "open" \notin Seeking
  BY DEF Place, Opened, Seeking
<1>2. pc'[p] = "open" /\ \A r \in Proc : r # p => pc'[r] = pc[r] /\ arg'[r] = arg[r]
  BY <1>1, ReturnEffect
<1> QED
  BY <1>1, <1>2, HeldStays

LEMMA HeldGoto ==
  ASSUME TypeOK, HeldInv, NEW p \in Proc, NEW where \in Place, Goto(p, where),
         UNCHANGED <<nw, known, term>>,
         \A r \in Proc : r # p => arg'[r] = arg[r],
         where \in Seeking =>
           known[p][arg'[p]] = None \/ (pc[p] \in Seeking /\ arg'[p] = arg[p])
  PROVE  HeldInv'
<1>1. pc'[p] = where /\ \A r \in Proc : r # p => pc'[r] = pc[r]
  BY DEF Goto, TypeOK
<1> QED
  BY <1>1, HeldStays

\* Namespace registers the network that its function will remove.
LEMMA HeldOpen ==
  ASSUME TypeOK, HeldInv, NEW p \in Proc, NEW n \in Proc \cup {User},
         NEW nwCreated \in BOOLEAN, Open(p, n, nwCreated)
  PROVE  HeldInv'
<1>1. /\ Return(p, "open") /\ known' = known /\ nw' = [nw EXCEPT ![p] = n]
      /\ "open" \in Place /\ "open" \notin Seeking
  BY DEF Open, Place, Opened, Seeking
<1>2. pc'[p] = "open" /\ \A r \in Proc : r # p => pc'[r] = pc[r] /\ arg'[r] = arg[r]
  BY <1>1, ReturnEffect
<1>3. PICK t \in {<<RemoveNet(n)>>, << >>} : term' = [term EXCEPT ![p] = t]
  BY DEF Open, RemoveNet
<1>4. /\ nw'[p] = n /\ term'[p] = t
      /\ \A r \in Proc : r # p => nw'[r] = nw[r] /\ term'[r] = term[r]
  BY <1>1, <1>3 DEF TypeOK
<1>5. \A i \in 1..Len(t) : t[i] = RemoveNet(n)
  BY <1>3
<1>6. RemoveNet(n).op = "network" /\ RemoveNet(n).id = n
  BY DEF RemoveNet
<1>7. Held(p)'
  BY <1>1, <1>2, <1>4, <1>5, <1>6 DEF Held
<1> QED
  BY <1>1, <1>2, <1>4, <1>7, HeldFrame

\* CreateContainer registers the container that its function will remove, under
\* a name that had none.
LEMMA HeldRegister ==
  ASSUME IInv, HeldInv, NEW p \in Proc, pc[p] \in Seeking,
         NEW id \in Proc \cup {User},
         NEW found \in BOOLEAN, NEW connected \in BOOLEAN,
         Register(p, id, found, connected)
  PROVE  HeldInv'
<1>1. /\ TypeOK /\ arg[p] \in Name /\ term[p] \in Seq(Terminate)
      /\ Held(p) /\ known[p][arg[p]] = None
  BY DEF IInv, InstanceInv, CallInv, TypeOK, Setting, Seeking, HeldInv, Held
<1>2. /\ pc' = [pc EXCEPT ![p] = "start"] /\ "start" \notin Seeking
      /\ known' = [known EXCEPT ![p][arg[p]] = id] /\ UNCHANGED <<nw, arg>>
  BY DEF Register, Goto, Seeking, call
<1>3. /\ pc'[p] = "start" /\ known'[p][arg[p]] = id
      /\ \A c \in Name : c # arg[p] => known'[p][c] = known[p][c]
      /\ \A r \in Proc : r # p => pc'[r] = pc[r] /\ known'[r] = known[r]
  BY <1>1, <1>2 DEF TypeOK
<1> DEFINE remove == [op |-> "remove", c |-> arg[p], id |-> id]
           disconnect == [op |-> "disconnect", c |-> arg[p], id |-> id]
<1>4. PICK t \in {Append(term[p], remove), Append(term[p], disconnect), term[p]} :
        term' = [term EXCEPT ![p] = t]
  BY DEF Register
<1>5. /\ remove \in Terminate /\ disconnect \in Terminate
      /\ remove.op = "remove" /\ remove.c = arg[p] /\ remove.id = id
      /\ disconnect.op = "disconnect"
  BY <1>1 DEF Terminate
<1> HIDE DEF remove, disconnect
<1>6. ASSUME NEW n \in 1..Len(t)
      PROVE  (n \in 1..Len(term[p]) /\ t[n] = term[p][n]) \/ t[n] \in {remove, disconnect}
  BY <1>1, <1>4, <1>5, <1>6
<1>7. term'[p] = t /\ \A r \in Proc : r # p => term'[r] = term[r]
  BY <1>1, <1>4 DEF TypeOK
<1>8. ASSUME NEW n \in 1..Len(t)
      PROVE  /\ t[n].op = "remove" => t[n].id = known'[p][t[n].c]
             /\ t[n].op = "network" => t[n].id = nw'[p]
  <2>1. CASE t[n] \in {remove, disconnect}
    BY <1>3, <1>5, <2>1
  <2>2. CASE n \in 1..Len(term[p]) /\ t[n] = term[p][n]
    <3>1. /\ t[n].op = "remove" => t[n].id = known[p][t[n].c]
          /\ t[n].op = "network" => t[n].id = nw[p]
      BY <1>1, <2>2 DEF Held
    <3>2. t[n].op = "remove" => t[n].c \in Name /\ t[n].id \in Proc \cup {User}
      <4>1. t[n] \in Terminate
        BY <1>1, <2>2
      <4> QED
        BY <4>1 DEF Terminate
    <3>3. t[n].op = "remove" => t[n].c # arg[p]
      BY <1>1, <3>1, <3>2, Distinct
    <3> QED
      BY <1>2, <1>3, <3>1, <3>2, <3>3
  <2> QED
    BY <1>6, <2>1, <2>2
<1>9. Held(p)'
  BY <1>2, <1>3, <1>7, <1>8 DEF Held
<1> QED
  BY <1>2, <1>3, <1>7, <1>9, HeldFrame

\* A clean-up function less.
LEMMA HeldRelease ==
  ASSUME IInv, HeldInv, NEW p \in Proc, Release(p)
  PROVE  HeldInv'
<1>1. TypeOK /\ InstanceInv(p) /\ pc[p] = "release" /\ Held(p)
  BY DEF IInv, Release, HeldInv
<1>2. term[p] # << >> /\ term[p] \in Seq(Terminate)
  BY <1>1 DEF InstanceInv, CallInv, TypeOK
<1>3. CASE Len(term[p]) = 1
  <2>1. End(p, "closed") /\ "closed" \in Ended
    BY <1>3 DEF Release, Ended
  <2> QED
    BY <1>1, <2>1, HeldEnd
<1>4. CASE Len(term[p]) # 1
  <2> DEFINE rest == SubSeq(term[p], 1, Len(term[p]) - 1)
  <2>1. \A n \in 1..Len(rest) : n \in 1..Len(term[p]) /\ rest[n] = term[p][n]
    BY <1>2, <1>4, AllButLast
  <2>2. /\ term' = [term EXCEPT ![p] = rest]
        /\ UNCHANGED <<nw, known, running, arg, pc>>
    BY <1>4 DEF Release, call
  <2> HIDE DEF rest
  <2>3. term'[p] = rest /\ \A r \in Proc : r # p => term'[r] = term[r]
    BY <1>1, <2>2 DEF TypeOK
  <2>4. Held(p)'
    BY <1>1, <2>1, <2>2, <2>3 DEF Held
  <2> QED
    BY <2>2, <2>3, <2>4, HeldFrame
<1> QED
  BY <1>3, <1>4

\* Every step of an instance.
LEMMA HeldStep ==
  ASSUME IInv, HeldInv, NEW p \in Proc, Step(p)
  PROVE  HeldInv'
<1>1. TypeOK /\ InstanceInv(p) /\ {"gone", "closed"} \subseteq Ended
  BY DEF IInv, Ended
<1>2. /\ {"networkList", "networkCreate", "networkInspect", "imageList", "forceBuild",
           "imageBuild", "create", "start", "wait", "release", "containerInspect",
           "networkConnect", "containerCreate"} \subseteq Place
      /\ {"networkList", "networkCreate", "networkInspect", "imageList", "forceBuild",
           "imageBuild", "create", "start", "wait", "release"} \cap Seeking = {}
  BY DEF Place, Early, Opened, Building, Setting, Seeking
<1>3. RunReturn(p) => HeldInv'
  BY <1>1, HeldReturn DEF RunReturn, namespace
<1>4. NewLock(p) \/ NetworkCreate(p) => HeldInv'
  BY <1>1, <1>2, HeldEnd, HeldGoto DEF NewLock, NetworkCreate, namespace, call
<1>5. CASE NetworkList(p)
  <2>1. CASE net # None /\ Open(p, net, FALSE)
    <3>1. net \in Proc \cup {User}
      BY <1>1, <2>1 DEF TypeOK
    <3> QED
      BY <1>1, <2>1, <3>1, HeldOpen
  <2> QED
    BY <1>1, <1>2, <1>5, <2>1, HeldEnd, HeldGoto DEF NetworkList, namespace, call
<1>6. NetworkInspect(p) => HeldInv'
  BY <1>1, HeldEnd, HeldOpen DEF NetworkInspect
<1>7. CASE BuildLock(p)
  <2>1. PICK where \in {"forceBuild", "imageList"} : Goto(p, where)
    BY <1>7 DEF BuildLock
  <2> QED
    BY <1>1, <1>2, <1>7, <2>1, HeldGoto DEF BuildLock, namespace
<1>8. ImageList(p) \/ ImageBuild(p) => HeldInv'
  BY <1>1, <1>2, HeldReturn, HeldGoto DEF ImageList, ImageBuild, namespace, call
<1>9. ASSUME NEW c \in Name, RunLock(p, c) PROVE HeldInv'
  <2>1. \A r \in Proc : r # p => arg'[r] = arg[r]
    BY <1>1, <1>9 DEF RunLock, TypeOK
  <2> QED
    BY <1>1, <1>2, <1>9, <2>1, HeldGoto DEF RunLock, namespace
<1>10. CreateKnown(p) => HeldInv'
  BY <1>1, <1>2, <1>3, HeldGoto DEF CreateKnown, namespace, call
<1>11. CASE ContainerList(p)
  <2>1. ASSUME NEW where \in {"containerCreate", "containerInspect"}, Goto(p, where),
               UNCHANGED <<namespace, arg>>
        PROVE  HeldInv'
    BY <1>1, <1>2, <1>11, <2>1, HeldGoto DEF ContainerList, namespace
  <2> QED
    BY <1>3, <1>11, <2>1 DEF ContainerList, call
<1>12. CASE ContainerInspect(p)
  <2>1. existing[p].id \in Proc \cup {User} /\ pc[p] \in Seeking
    BY <1>1, <1>12 DEF InstanceInv, CallInv, Container, ContainerInspect, Seeking
  <2>2. CASE Goto(p, "networkConnect") /\ UNCHANGED <<docker, namespace, call>>
    BY <1>1, <1>2, <2>1, <2>2, HeldGoto DEF namespace, call
  <2> QED
    BY <1>3, <1>12, <2>1, <2>2, HeldRegister DEF ContainerInspect
<1>13. CASE NetworkConnect(p)
  <2>1. existing[p].id \in Proc \cup {User} /\ pc[p] \in Seeking
    BY <1>1, <1>13 DEF InstanceInv, CallInv, Container, NetworkConnect, Seeking
  <2> QED
    BY <1>3, <1>13, <2>1, HeldRegister DEF NetworkConnect
<1>14. CASE ContainerCreate(p)
  <2>1. pc[p] \in Seeking
    BY <1>14 DEF ContainerCreate, Seeking
  <2> QED
    BY <1>3, <1>14, <2>1, HeldRegister DEF ContainerCreate
<1>15. CASE ContainerStart(p)
  <2>1. CASE Goto(p, "wait") /\ UNCHANGED <<net, image, namespace, call>>
    BY <1>1, <1>2, <2>1, HeldGoto DEF namespace, call
  <2> QED
    BY <1>3, <1>15, <2>1 DEF ContainerStart
<1>16. Wait(p) => HeldInv'
  BY <1>1, <1>3, HeldReturn DEF Wait
<1>17. Close(p) \/ Die(p) => HeldInv'
  BY <1>1, <1>2, HeldEnd, HeldGoto DEF Close, Die, namespace, call
<1> QED
  BY <1>4, <1>5, <1>6, <1>7, <1>8, <1>9, <1>10, <1>11, <1>12, <1>13, <1>14, <1>15,
     <1>16, <1>17, HeldRelease DEF Step

\* Whatever a clean-up function would remove, the instance has registered.
THEOREM Holding == Spec => []HeldInv
<1>1. Init => HeldInv
  <2> SUFFICES ASSUME Init, NEW p \in Proc PROVE Held(p)
    BY DEF HeldInv
  <2>1. pc[p] = "none" /\ term[p] = << >>
    BY DEF Init
  <2> QED
    BY <2>1 DEF Held, Seeking
<1>2. IInv /\ HeldInv /\ [Next]_vars => HeldInv'
  <2> SUFFICES ASSUME IInv, HeldInv, [Next]_vars PROVE HeldInv'
    OBVIOUS
  <2>1. CASE UNCHANGED <<nw, known, term, pc, arg>>
    BY <2>1 DEF HeldInv, Held
  <2>2. TestsEnd \/ CleanupContainers \/ CleanupNetworks \/ UNCHANGED vars
        => UNCHANGED <<nw, known, term, pc, arg>>
    BY DEF TestsEnd, CleanupContainers, CleanupNetworks, vars, namespace, call
  <2> QED
    BY <2>1, <2>2, HeldStep DEF Next
<1> QED
  BY <1>1, <1>2, Invariance, PTL DEF Spec

-----------------------------------------------------------------------------
\* A step of the clean-up of Close: p may remove what it removes, and when it is
\* the last one, nothing of p's is left.
LEMMA ReleaseRemoves ==
  ASSUME IInv, HeldInv, NEW p \in Proc, Release(p)
  PROVE  /\ term'[p] # term[p]
         /\ \A c \in Name : ctr[c] # None /\ ctr'[c] = None => MayRemove(p, ctr[c].id, known[p][c])
         /\ net # None /\ net' = None => MayRemove(p, net, nw[p])
         /\ CleansUp(p) /\ pc'[p] = "closed" =>
              /\ \A c \in Name : ~ Owns(p, c)'
              /\ net' = p => \E c \in Attached(net) : ctr[c].id # p
<1>1. TypeOK /\ InstanceInv(p) /\ pc[p] = "release"
  BY DEF IInv, Release
<1>2. p \notin Beacon /\ term[p] # << >> /\ term[p] \in Seq(Terminate)
  BY <1>1 DEF InstanceInv, CallInv, TypeOK
<1> DEFINE last == term[p][Len(term[p])]
<1>3. last \in Terminate /\ Len(term[p]) \in 1..Len(term[p])
  BY <1>2
<1>4. last.op \in {"remove", "network"} =>
        policy[p] = "takeover" \/ (last.id = p /\ policy[p] # "reusable")
  BY <1>1, <1>3 DEF InstanceInv, TermInv
<1>0. /\ last.op = "remove" => last.id = known[p][last.c]
      /\ last.op = "network" => last.id = nw[p]
  BY <1>3 DEF HeldInv, Held
<1> HIDE DEF last
<1>5. Execute(p, last)
  BY DEF Release, last
<1>6. /\ \A r \in Proc, c \in Name : Owns(r, c)' => Owns(r, c)
      /\ \A c \in Name : ctr[c] # None /\ ctr'[c] = None =>
           last.op = "remove" /\ last.id = ctr[c].id /\ last.c = c
      /\ \A c \in Name : last = RemoveOwn(p, c) => ~ Owns(p, c)'
      /\ net' # net => last.op = "network" /\ last.id = net
      /\ last = RemoveNet(p) /\ net' = p => net = p /\ Attached(net) # {}
      /\ net' \in {net, None}
  BY <1>1, <1>3, <1>5, ExecuteEffect
<1>7. term'[p] # term[p]
  <2>1. CASE Len(term[p]) = 1
    BY <1>1, <1>2, <2>1 DEF Release, End, TypeOK
  <2>2. CASE Len(term[p]) # 1
    <3> DEFINE rest == SubSeq(term[p], 1, Len(term[p]) - 1)
    <3>1. Len(rest) = Len(term[p]) - 1
      BY <1>2, <2>2, AllButLast
    <3>2. term' = [term EXCEPT ![p] = rest]
      BY <2>2 DEF Release
    <3> HIDE DEF rest
    <3>3. term'[p] = rest
      BY <1>1, <3>2 DEF TypeOK
    <3>4. Len(term[p]) \in Nat
      BY <1>2
    <3> QED
      BY <3>1, <3>3, <3>4
  <2> QED
    BY <2>1, <2>2
<1>8. \A c \in Name : ctr[c] # None /\ ctr'[c] = None => MayRemove(p, ctr[c].id, known[p][c])
  BY <1>0, <1>1, <1>2, <1>4, <1>6 DEF MayRemove
<1>9. net # None /\ net' = None => MayRemove(p, net, nw[p])
  BY <1>0, <1>1, <1>2, <1>4, <1>6 DEF MayRemove
<1>10. ASSUME CleansUp(p), pc'[p] = "closed"
       PROVE  /\ \A c \in Name : ~ Owns(p, c)'
              /\ net' = p => \E c \in Attached(net) : ctr[c].id # p
  <2>1. Len(term[p]) = 1
    BY <1>1, <1>10 DEF Release
  <2>2. last = term[p][1] /\ \A n \in 1..Len(term[p]) : n = 1
    BY <2>1 DEF last
  <2>3. \A c \in Name : Owns(p, c) => last = RemoveOwn(p, c)
    BY <1>1, <1>10, <2>2 DEF InstanceInv, OwnTerm
  <2>4. \A c \in Name : ~ Owns(p, c)'
    BY <1>6, <2>3
  <2>5. ASSUME net' = p PROVE \E c \in Attached(net) : ctr[c].id # p
    <3>1. net = p
      BY <1>6, <2>5, Distinct
    <3>2. last = RemoveNet(p)
      BY <1>1, <1>10, <2>2, <3>1 DEF InstanceInv, NetFirst
    <3>3. Attached(net) # {}
      BY <1>6, <2>5, <3>2
    <3>4. \A c \in Name : last # RemoveOwn(p, c)
      <4>1. RemoveNet(p).op = "network" /\ \A c \in Name : RemoveOwn(p, c).op = "remove"
        BY DEF RemoveNet, RemoveOwn
      <4> QED
        BY <3>2, <4>1
    <3>5. \A c \in Attached(net) : c \in Name /\ ctr[c] # None
      BY DEF Attached
    <3> QED
      BY <2>3, <3>3, <3>4, <3>5 DEF Owns
  <2> QED
    BY <2>4, <2>5
<1> QED
  BY <1>7, <1>8, <1>9, <1>10

(* Whatever is removed, is removed by who may: by Close what the instance      *)
(* created or took over, by the command what its tests created.               *)
THEOREM Removals == Spec => OwnRemoval
<1>1. IInv /\ HeldInv /\ [Next]_vars =>
        [/\ \A c \in Name : ctr[c] # None /\ ctr'[c] = None =>
              \/ \E p \in Proc : term'[p] # term[p] /\ MayRemove(p, ctr[c].id, known[p][c])
              \/ ctr[c].id \in Beacon /\ cleanup = "containers"
         /\ net # None /\ net' = None =>
              \/ \E p \in Proc : term'[p] # term[p] /\ MayRemove(p, net, nw[p])
              \/ net \in Beacon /\ cleanup = "networks"]_vars
  <2> SUFFICES ASSUME IInv, HeldInv, Next
               PROVE
        /\ \A c \in Name : ctr[c] # None /\ ctr'[c] = None =>
             \/ \E p \in Proc : term'[p] # term[p] /\ MayRemove(p, ctr[c].id, known[p][c])
             \/ ctr[c].id \in Beacon /\ cleanup = "containers"
        /\ net # None /\ net' = None =>
             \/ \E p \in Proc : term'[p] # term[p] /\ MayRemove(p, net, nw[p])
             \/ net \in Beacon /\ cleanup = "networks"
    OBVIOUS
  <2>1. CASE \E p \in Proc : Step(p)
    <3>1. PICK p \in Proc : Step(p)
      BY <2>1
    <3>2. CASE Release(p)
      BY <3>2, ReleaseRemoves
    <3>3. CASE ~ Release(p)
      BY <3>1, <3>3, OnlyReleaseRemoves
    <3> QED
      BY <3>2, <3>3
  <2>2. CASE TestsEnd
    BY <2>2 DEF TestsEnd, docker
  <2>3. CASE CleanupContainers
    BY <2>3 DEF CleanupContainers
  <2>4. CASE CleanupNetworks
    BY <2>4 DEF CleanupNetworks
  <2> QED
    BY <2>1, <2>2, <2>3, <2>4 DEF Next
<1> QED
  BY <1>1, Invariance, Holding, PTL DEF Spec, OwnRemoval

(* When Close returns, nothing is left that the instance created, but for a    *)
(* network that somebody else's container runs on.                            *)
THEOREM Closed == Spec => CloseCleans
<1>1. IInv /\ HeldInv /\ [Next]_vars =>
        [\A p \in Proc \ Beacon :
           pc[p] # "closed" /\ pc'[p] = "closed" /\ policy[p] # "reusable" =>
             /\ \A c \in Name : ctr'[c] # None => ctr'[c].id # p
             /\ net' = p => \E c \in Attached(net) : ctr[c].id # p]_vars
  <2> SUFFICES ASSUME IInv, HeldInv, Next, NEW p \in Proc \ Beacon, pc[p] # "closed",
                      pc'[p] = "closed", policy[p] # "reusable"
               PROVE  /\ \A c \in Name : ctr'[c] # None => ctr'[c].id # p
                      /\ net' = p => \E c \in Attached(net) : ctr[c].id # p
    OBVIOUS
  <2>1. CleansUp(p) /\ p \in Proc /\ InstanceInv(p) /\ TypeOK
    BY DEF CleansUp, IInv
  <2>2. PICK q \in Proc : Step(q)
    BY DEF Next, TestsEnd, CleanupContainers, CleanupNetworks
  <2>3. q = p
    BY <2>1, <2>2, OnlyOwnPlace
  <2>4. CASE Release(p)
    BY <2>1, <2>4, ReleaseRemoves DEF Owns
  <2>5. CASE Close(p)
    <3>1. pc[p] = "open" /\ UNCHANGED <<net, ctr>> /\ term[p] = << >>
      BY <2>1, <2>5 DEF Close, docker, Goto, TypeOK
    <3>2. \A c \in Name : ~ Owns(p, c)
      BY <2>1, <3>1 DEF InstanceInv, OwnTerm
    <3>3. net # p
      BY <2>1, <3>1 DEF InstanceInv, NetFirst
    <3> QED
      BY <3>1, <3>2, <3>3 DEF Owns
  <2> QED
    BY <2>1, <2>2, <2>3, <2>4, <2>5, OnlyCloseCloses
<1> QED
  BY <1>1, Invariance, Holding, PTL DEF Spec, CloseCleans

(* `confort test` leaves no container behind that its tests created, and no    *)
(* network of theirs but one that others use.                                 *)
THEOREM TestLeavesNothing == Spec => TestCleans
<1>1. IInv /\ [Next]_vars =>
        [cleanup # "done" /\ cleanup' = "done" =>
           /\ \A c \in Name : ctr'[c] # None => ctr'[c].id \notin Beacon
           /\ net' \in Beacon => Attached(net) # {}]_vars
  <2> SUFFICES ASSUME IInv, Next, cleanup # "done", cleanup' = "done"
               PROVE  /\ \A c \in Name : ctr'[c] # None => ctr'[c].id \notin Beacon
                      /\ net' \in Beacon => Attached(net) # {}
    OBVIOUS
  <2>1. CleanupNetworks
    <3>1. ASSUME NEW p \in Proc, Step(p) PROVE UNCHANGED cleanup
      BY <3>1 DEF Step, NewLock, NetworkList, NetworkCreate, NetworkInspect, BuildLock,
                  ImageList, ImageBuild, RunLock, CreateKnown, ContainerList,
                  ContainerInspect, NetworkConnect, ContainerCreate, ContainerStart, Wait,
                  Close, Release, Die
    <3> QED
      BY <3>1 DEF Next, TestsEnd, CleanupContainers
  <2>2. /\ cleanup = "networks" /\ UNCHANGED ctr
        /\ net' = IF net \in Beacon /\ Attached(net) = {} THEN None ELSE net
    BY <2>1 DEF CleanupNetworks
  <2>3. \A c \in Name : ctr[c] # None => ctr[c].id \notin Beacon
    BY <2>2 DEF IInv, CleanupInv
  <2> QED
    BY <2>2, <2>3, Distinct
<1> QED
  BY <1>1, Invariance, PTL DEF Spec, TestCleans
=============================================================================
