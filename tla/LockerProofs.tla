---------------------------- MODULE LockerProofs ----------------------------
(***************************************************************************)
(* LockForContainerUse keeps its promises for any number of callers and    *)
(* containers, and implements ContainerUse.  What it needs of the locks it  *)
(* takes from KeyedLockProofs; of Acquirer it needs the states of the calls *)
(* and of their goroutines, and not the queue.                              *)
(***************************************************************************)
EXTENDS Locker, TLAPS

KP == INSTANCE KeyedLockProofs

AllRequests == UNION {Requests[p] : p \in Proc}

\* The types of the variables that the argument is about.
TypeOKUse ==
  /\ set \in [Proc -> SUBSET Key]
  /\ phase \in [Proc -> A!Phase]
  /\ job \in [Proc -> [Key -> A!Job]]
  /\ once \in [Key -> {"fresh", "running", "done"}]
  /\ req \in [Proc -> AllRequests \cup {<< >>}]
  /\ at \in [Proc -> [Key -> At]]
  /\ initPending \in [Proc -> SUBSET Key]
  /\ downgraded \in [Proc -> SUBSET Key]

(* A call that has not started locking has taken nothing; one that locks, or *)
(* has locked, has a goroutine for each container of its params.             *)
CallInv(p) ==
  /\ phase[p] \in {"out", "queued", "left"} =>
       /\ \A k \in Key : job[p][k] = "off" /\ at[p][k] = "start"
       /\ initPending[p] = {} /\ downgraded[p] = {}
  /\ phase[p] = "queued" => set[p] = DOMAIN req[p] /\ req[p] \in AllRequests
  /\ phase[p] \in {"locking", "held"} =>
       req[p] \in AllRequests /\ \A k \in DOMAIN req[p] : job[p][k] # "off"
  /\ phase[p] \in {"out", "queued", "left", "locking"} => p \notin initErr
  /\ phase[p] \in {"left", "undo"} => p \in done

\* What p's goroutine for k has done so far is seen in its lock.
LockOf(p, k) ==
  /\ job[p][k] \in {"off", "failed"} => st[p][k] = "none"
  /\ job[p][k] = "locked" =>
       st[p][k] = IF req[p][k].exclusive \/ k \notin downgraded[p]
                  THEN "ex" ELSE "sh"
  /\ job[p][k] = "run" =>
       /\ at[p][k] \in {"start", "plain"} => st[p][k] = "none"
       /\ at[p][k] = "once" => st[p][k] \in {"wantEx", "ex"}
       /\ at[p][k] = "got" => st[p][k] = "ex"
       /\ at[p][k] = "wait" =>
            st[p][k] \in IF req[p][k].exclusive THEN {"wantEx", "ex"}
                                                ELSE {"wantSh", "sh"}

\* The goroutine of p for k and the rest of p's call.
JobInv(p, k) ==
  /\ LockOf(p, k)
  /\ job[p][k] # "off" => k \in DOMAIN req[p]
  /\ job[p][k] = "run" => phase[p] = "locking" /\ k \notin downgraded[p]
  /\ job[p][k] = "run" /\ at[p][k] \in {"once", "got"} => req[p][k].init
  /\ job[p][k] = "failed" => phase[p] # "held" /\ p \in done
  /\ phase[p] \in {"locking", "held"} /\ k \in initPending[p] =>
       job[p][k] = "locked" /\ k \notin downgraded[p] /\ req[p][k].init

(* p's goroutine is in the function of once.Do for k; p has the task of      *)
(* initialising k.                                                           *)
Asking(p, k) == job[p][k] = "run" /\ at[p][k] = "once"

Pending(p, k) ==
  \/ job[p][k] = "run" /\ at[p][k] = "got"
  \/ phase[p] \in {"locking", "held"} /\ k \in initPending[p]

(* The Once of a container is with one caller at most, from once.Do to        *)
(* SetInitResult.                                                            *)
OnceInv(k) ==
  /\ \A p \in Proc : Asking(p, k) => once[k] = "running"
  /\ \A p \in Proc : Pending(p, k) => once[k] = "done"
  /\ \A p, r \in Proc : Asking(p, k) /\ Asking(r, k) => p = r
  /\ \A p, r \in Proc : Pending(p, k) /\ Pending(r, k) => p = r

(* What holds of a Locker whoever runs the init functions: LockForContainerUse *)
(* here, a client of the beacon server in Beacon.                            *)
SInv ==
  /\ TypeOKUse
  /\ KP!IInv
  /\ \A p \in Proc : CallInv(p)
  /\ \A p \in Proc, k \in Key : JobInv(p, k)
  /\ \A k \in Key : OnceInv(k)

\* A container that is initialised is never initialised again.
RunsInv(k) ==
  /\ runs[k] \in Nat
  /\ \A p \in Proc : Pending(p, k) => runs[k] = 0
  /\ once[k] # "done" => runs[k] = 0

\* The inductive invariant.
IInv ==
  /\ SInv
  /\ DOMAIN runs = Key
  /\ \A k \in Key : RunsInv(k)

(* What a step of p that is not SetInitResult may do to the Once of k and to  *)
(* the task of initialising k: nothing; drop the task, for the locks are      *)
(* given back; and, as long as the Once is not spent, take it, to fail or to  *)
(* get the task.                                                             *)
OnceAt(p, k) ==
  \/ once'[k] = once[k] /\ (Pending(p, k)' <=> Pending(p, k))
  \/ once'[k] = once[k] /\ ~ Pending(p, k)' /\ phase'[p] \in {"release", "undo"}
  \/ once[k] # "done" /\ (once'[k] = "done" <=> Pending(p, k)')

OnceStep(p) ==
  /\ \A r \in Proc, k \in Key : r # p => (Pending(r, k)' <=> Pending(r, k))
  /\ \A k \in Key : OnceAt(p, k)

-----------------------------------------------------------------------------
(* The locks: what their operations do to the caller and to the others, by    *)
(* the invariant of KeyedLock.                                               *)

\* Nobody but p at k is in another state, unless it was woken.
OnlyWoken(p, k) ==
  \A r \in Proc, j \in Key : r # p \/ j # k =>
    \/ st'[r][j] = st[r][j]
    \/ st[r][j] = "wantEx" /\ st'[r][j] = "ex"
    \/ st[r][j] = "wantSh" /\ st'[r][j] = "sh"

LEMMA Finite == KP!IsFiniteSet(Proc) /\ max \in Nat \ {0}
BY LockAssumption DEF IsFiniteSet, KP!IsFiniteSet

LEMMA WokenMeans ==
  ASSUME NEW p \in Proc, NEW k \in Key, KP!OthersOnlyWoken(p, k)
  PROVE  OnlyWoken(p, k)
BY DEF OnlyWoken, KP!OthersOnlyWoken, KP!Want, KP!Granted

\* KeyedLock.Lock and RLock.
LEMMA LockStep ==
  ASSUME KP!IInv, NEW p \in Proc, NEW k \in Key, KL!Lock(p, k)
  PROVE  /\ KP!IInv' /\ OnlyWoken(p, k)
         /\ st[p][k] = "none" /\ st'[p][k] \in {"wantEx", "ex"}
<1>1. KP!Acquire(p, k, "wantEx") /\ "wantEx" \in KP!Want
  BY DEF KL!Lock, KL!Acquire, KP!Acquire, KL!Granted, KP!Granted, KP!Want
<1>2. KP!IInv'
  BY <1>1, Finite, KP!AcquireInv
<1>3. /\ KP!OthersOnlyWoken(p, k)
      /\ st[p][k] = "none" /\ st'[p][k] \in {"wantEx", KP!Granted("wantEx")}
  BY <1>1, Finite, KP!AcquireStep
<1> QED
  BY <1>2, <1>3, WokenMeans DEF KP!Granted

LEMMA RLockStep ==
  ASSUME KP!IInv, NEW p \in Proc, NEW k \in Key, KL!RLock(p, k)
  PROVE  /\ KP!IInv' /\ OnlyWoken(p, k)
         /\ st[p][k] = "none" /\ st'[p][k] \in {"wantSh", "sh"}
<1>1. KP!Acquire(p, k, "wantSh") /\ "wantSh" \in KP!Want
  BY DEF KL!RLock, KL!Acquire, KP!Acquire, KL!Granted, KP!Granted, KP!Want
<1>2. KP!IInv'
  BY <1>1, Finite, KP!AcquireInv
<1>3. /\ KP!OthersOnlyWoken(p, k)
      /\ st[p][k] = "none" /\ st'[p][k] \in {"wantSh", KP!Granted("wantSh")}
  BY <1>1, Finite, KP!AcquireStep
<1> QED
  BY <1>2, <1>3, WokenMeans DEF KP!Granted

\* The semaphore's Release, in the two names it has here.
LEMMA SameRelease ==
  ASSUME NEW p \in Proc, NEW k \in Key, NEW weight, NEW to, KL!Release(p, k, weight, to)
  PROVE  KP!Release(p, k, weight, to)
BY DEF KL!Release, KP!Release, KL!Notify, KP!Notify, KL!Fits, KP!Fits,
       KL!Granted, KP!Granted

\* Unlock, RUnlock and Downgrade: the locks that are given back.
LEMMA UnlockStep ==
  ASSUME KP!IInv, NEW p \in Proc, NEW k \in Key, KL!Unlock(p, k) \/ KL!RUnlock(p, k)
  PROVE  /\ KP!IInv' /\ OnlyWoken(p, k)
         /\ st[p][k] \in {"ex", "sh"} /\ st'[p][k] = "none"
<1>1. PICK weight \in Int :
        /\ KP!Release(p, k, weight, "none")
        /\ \/ st[p][k] = "ex" /\ weight = max
           \/ st[p][k] = "sh" /\ weight = 1
  BY Finite, SameRelease DEF KL!Unlock, KL!RUnlock
<1>2. KP!Unlock(p, k) \/ KP!RUnlock(p, k)
  BY <1>1 DEF KP!Unlock, KP!RUnlock
<1>3. KP!IInv'
  BY <1>2, Finite, KP!NextInv DEF KP!Next
<1>4. KP!OthersOnlyWoken(p, k) /\ st'[p][k] = "none"
  BY <1>1, Finite, KP!ReleaseStep DEF KP!Hold
<1> QED
  BY <1>1, <1>3, <1>4, WokenMeans

LEMMA DowngradeStep ==
  ASSUME KP!IInv, NEW p \in Proc, NEW k \in Key, KL!Downgrade(p, k)
  PROVE  /\ KP!IInv' /\ OnlyWoken(p, k)
         /\ st[p][k] = "ex" /\ st'[p][k] = "sh"
<1>1. KP!Release(p, k, max - 1, "sh") /\ st[p][k] = "ex"
  BY SameRelease DEF KL!Downgrade
<1>2. KP!Downgrade(p, k)
  BY <1>1 DEF KP!Downgrade
<1>3. KP!IInv'
  BY <1>2, Finite, KP!NextInv DEF KP!Next
<1>4. KP!OthersOnlyWoken(p, k) /\ st'[p][k] = "sh"
  BY <1>1, Finite, KP!ReleaseStep DEF KP!Hold
<1> QED
  BY <1>1, <1>3, <1>4, WokenMeans

\* A blocked Lock or RLock that ends with its context.
LEMMA CancelStep ==
  ASSUME KP!IInv, NEW p \in Proc, NEW k \in Key, KL!Cancel(p, k)
  PROVE  /\ KP!IInv' /\ OnlyWoken(p, k)
         /\ st[p][k] \in {"wantEx", "wantSh"} /\ st'[p][k] = "none"
<1>1. \A w, i : KL!RemoveAt(w, i) = KP!RemoveAt(w, i)
  BY DEF KL!RemoveAt, KP!RemoveAt
<1>2. KL!Want = KP!Want
  BY DEF KL!Want, KP!Want
<1>3. \A s, q, c : KL!Notify(s, k, q, c) <=> KP!Notify(s, k, q, c)
  BY DEF KL!Notify, KP!Notify, KL!Fits, KP!Fits, KL!Granted, KP!Granted
<1>4. KP!Cancel(p, k)
  BY <1>1, <1>2, <1>3 DEF KL!Cancel, KP!Cancel
<1>5. KP!IInv'
  BY <1>4, Finite, KP!CancelInv
<1>6. /\ KP!OthersOnlyWoken(p, k)
      /\ st[p][k] \in KP!Want /\ st'[p][k] = "none"
  BY <1>4, Finite, KP!CancelStep
<1> QED
  BY <1>5, <1>6, WokenMeans DEF KP!Want

\* The locks stay as they are.
LEMMA LocksKept ==
  ASSUME KP!IInv, UNCHANGED lockVars
  PROVE  KP!IInv' /\ \A p \in Proc, k \in Key : OnlyWoken(p, k)
<1>1. UNCHANGED KP!vars
  BY DEF lockVars, KP!vars
<1>2. KP!IInv'
  BY <1>1, Finite, KP!NextInv
<1> QED
  BY <1>2 DEF lockVars, OnlyWoken

-----------------------------------------------------------------------------
(* What a step of p leaves alone. *)

\* The other calls.
OthersKept(p) ==
  \A r \in Proc : r # p =>
    /\ phase'[r] = phase[r] /\ set'[r] = set[r] /\ req'[r] = req[r]
    /\ job'[r] = job[r] /\ at'[r] = at[r]
    /\ initPending'[r] = initPending[r] /\ downgraded'[r] = downgraded[r]
    /\ r \in initErr' <=> r \in initErr

\* The goroutine of p for j.
KeyKept(p, j) ==
  /\ job'[p][j] = job[p][j] /\ at'[p][j] = at[p][j]
  /\ j \in initPending'[p] <=> j \in initPending[p]
  /\ j \in downgraded'[p] <=> j \in downgraded[p]

\* A goroutine that does nothing, and whose lock at most is given to it.
LEMMA JobFrame ==
  ASSUME NEW r \in Proc, NEW j \in Key, JobInv(r, j), KeyKept(r, j),
         phase'[r] = phase[r], req'[r] = req[r], done \subseteq done',
         \/ st'[r][j] = st[r][j]
         \/ st[r][j] = "wantEx" /\ st'[r][j] = "ex"
         \/ st[r][j] = "wantSh" /\ st'[r][j] = "sh"
  PROVE  JobInv(r, j)'
<1>1. LockOf(r, j)'
  BY DEF JobInv, LockOf, KeyKept
<1> QED
  BY <1>1 DEF JobInv, KeyKept

\* The calls that a step of p is not about.
LEMMA OtherCalls ==
  ASSUME SInv, NEW p \in Proc, OthersKept(p), done \subseteq done',
         \A r \in Proc, j \in Key : r # p =>
           \/ st'[r][j] = st[r][j]
           \/ st[r][j] = "wantEx" /\ st'[r][j] = "ex"
           \/ st[r][j] = "wantSh" /\ st'[r][j] = "sh"
  PROVE  \A r \in Proc : r # p => CallInv(r)' /\ \A j \in Key : JobInv(r, j)'
<1> SUFFICES ASSUME NEW r \in Proc, r # p
             PROVE  CallInv(r)' /\ \A j \in Key : JobInv(r, j)'
  OBVIOUS
<1>1. CallInv(r)'
  BY DEF SInv, CallInv, OthersKept
<1>2. ASSUME NEW j \in Key PROVE JobInv(r, j)'
  <2>1. KeyKept(r, j) /\ phase'[r] = phase[r] /\ req'[r] = req[r] /\ JobInv(r, j)
    BY DEF SInv, OthersKept, KeyKept
  <2> QED
    BY <2>1, JobFrame
<1> QED
  BY <1>1, <1>2

\* A container that nobody comes to initialise or is done with initialising.
LEMMA OnceFrame ==
  ASSUME NEW k \in Key, OnceInv(k),
         once'[k] = once[k],
         \A r \in Proc : /\ Asking(r, k)' => Asking(r, k)
                         /\ Pending(r, k)' => Pending(r, k)
  PROVE  OnceInv(k)'
BY DEF OnceInv

\* A step of p that is about its call only, and not about a lock.
LEMMA CallStep ==
  ASSUME SInv, NEW p \in Proc, OthersKept(p), done \subseteq done',
         UNCHANGED lockVars, UNCHANGED once,
         TypeOKUse', CallInv(p)', \A k \in Key : JobInv(p, k)',
         \A k \in Key : Asking(p, k)' => Asking(p, k),
         \A k \in Key : \/ Pending(p, k)' <=> Pending(p, k)
                        \/ ~ Pending(p, k)' /\ phase'[p] \in {"release", "undo"}
  PROVE  SInv' /\ OnceStep(p)
<1>1. KP!IInv' /\ \A r \in Proc, j \in Key : st'[r][j] = st[r][j]
  BY LocksKept DEF SInv, lockVars
<1>2. \A r \in Proc : r # p => CallInv(r)' /\ \A j \in Key : JobInv(r, j)'
  BY <1>1, OtherCalls
<1>3. \A r \in Proc, k \in Key : r # p =>
        (Asking(r, k)' <=> Asking(r, k)) /\ (Pending(r, k)' <=> Pending(r, k))
  BY DEF OthersKept, Asking, Pending
<1>4. ASSUME NEW k \in Key PROVE OnceInv(k)'
  <2>1. \A r \in Proc : /\ Asking(r, k)' => Asking(r, k)
                        /\ Pending(r, k)' => Pending(r, k)
    BY <1>3
  <2> QED
    BY <2>1, OnceFrame DEF SInv
<1>5. \A k \in Key : OnceAt(p, k)
  BY DEF OnceAt, Pending
<1>6. OnceStep(p)
  BY <1>3, <1>5 DEF OnceStep
<1> QED
  BY <1>1, <1>2, <1>4, <1>6 DEF SInv

\* A step of p's goroutine for k, or of p's init function for k.
LEMMA GoroutineStep ==
  ASSUME SInv, NEW p \in Proc, NEW k \in Key, OthersKept(p), UNCHANGED done,
         \A j \in Key : j # k => KeyKept(p, j) /\ once'[j] = once[j],
         phase'[p] = phase[p], req'[p] = req[p],
         KP!IInv', OnlyWoken(p, k),
         TypeOKUse', CallInv(p)', JobInv(p, k)', OnceInv(k)'
  PROVE  SInv'
<1>1. \A r \in Proc : r # p => CallInv(r)' /\ \A j \in Key : JobInv(r, j)'
  BY OtherCalls DEF OnlyWoken
<1>2. ASSUME NEW j \in Key, j # k PROVE JobInv(p, j)'
  BY <1>2, JobFrame DEF SInv, OnlyWoken
<1>3. ASSUME NEW j \in Key, j # k PROVE OnceInv(j)'
  <2>1. \A r \in Proc : /\ Asking(r, j)' <=> Asking(r, j)
                        /\ Pending(r, j)' <=> Pending(r, j)
    BY <1>3 DEF OthersKept, KeyKept, Asking, Pending
  <2> QED
    BY <1>3, <2>1, OnceFrame DEF SInv
<1> QED
  BY <1>1, <1>2, <1>3 DEF SInv

-----------------------------------------------------------------------------
(* The steps of a call. *)

\* The params of calls are functions on some containers.
LEMMA RequestsTyped ==
  \A r \in AllRequests :
    DOMAIN r \subseteq Key /\ DOMAIN r # {} /\ r \in [DOMAIN r -> Param]
BY RequestsAssumption DEF AllRequests

\* LockForContainerUse begins.
LEMMA CallInvariant ==
  ASSUME SInv, NEW p \in Proc, Call(p)
  PROVE  SInv' /\ OnceStep(p)
<1>1. PICK r \in Requests[p] : A!Accept(p, DOMAIN r) /\ req' = [req EXCEPT ![p] = r]
  BY DEF Call
<1>2. TypeOKUse /\ CallInv(p) /\ \A k \in Key : JobInv(p, k)
  BY DEF SInv
<1>3. r \in AllRequests /\ DOMAIN r \subseteq Key
  BY RequestsTyped DEF AllRequests
<1>4. /\ phase[p] = "out" /\ phase' = [phase EXCEPT ![p] = "queued"]
      /\ set' = [set EXCEPT ![p] = DOMAIN r]
      /\ UNCHANGED <<lockVars, useVars, once, at, runs, job, done>>
  BY <1>1 DEF Call, A!Accept, A!accept
<1>5. TypeOKUse'
  BY <1>1, <1>2, <1>3, <1>4 DEF TypeOKUse, A!Phase, useVars
<1>6. OthersKept(p)
  BY <1>1, <1>2, <1>4 DEF OthersKept, TypeOKUse, useVars
<1>7. phase'[p] = "queued" /\ set'[p] = DOMAIN r /\ req'[p] = r
  BY <1>1, <1>2, <1>4 DEF TypeOKUse
<1>8. CallInv(p)'
  BY <1>2, <1>3, <1>4, <1>7 DEF CallInv, useVars
<1>9. \A k \in Key : JobInv(p, k)'
  BY <1>2, <1>4, <1>7 DEF CallInv, JobInv, LockOf, useVars, lockVars
<1>10. \A k \in Key : /\ Asking(p, k)' <=> Asking(p, k)
                      /\ Pending(p, k)' <=> Pending(p, k)
  BY <1>2, <1>4, <1>7 DEF CallInv, Asking, Pending, useVars
<1> QED
  BY <1>4, <1>5, <1>6, <1>8, <1>9, <1>10, CallStep

\* A context ends.
LEMMA CtxDoneInvariant ==
  ASSUME SInv, NEW p \in Proc, CtxDone(p)
  PROVE  SInv' /\ OnceStep(p)
<1>1. /\ done \subseteq done'
      /\ UNCHANGED <<lockVars, useVars, once, req, at, runs, set, phase, job>>
  BY DEF CtxDone, A!CtxDone
<1>2. TypeOKUse' /\ OthersKept(p) /\ CallInv(p)'
  BY <1>1 DEF SInv, TypeOKUse, OthersKept, CallInv, useVars
<1>3. \A k \in Key : JobInv(p, k)'
  BY <1>1 DEF SInv, JobInv, LockOf, useVars, lockVars
<1>4. \A k \in Key : /\ Asking(p, k)' <=> Asking(p, k)
                     /\ Pending(p, k)' <=> Pending(p, k)
  BY <1>1 DEF Asking, Pending, useVars
<1> QED
  BY <1>1, <1>2, <1>3, <1>4, CallStep

\* Acquire returns because the context ended, and leaves its entry behind.
LEMMA GiveUpInvariant ==
  ASSUME SInv, NEW p \in Proc, Queue(p), A!GiveUp(p)
  PROVE  SInv' /\ OnceStep(p)
<1>1. TypeOKUse /\ CallInv(p) /\ \A k \in Key : JobInv(p, k)
  BY DEF SInv
<1>2. /\ phase[p] = "queued" /\ p \in done /\ phase' = [phase EXCEPT ![p] = "left"]
      /\ UNCHANGED <<lockVars, useVars, once, req, at, runs, set, job, done>>
  BY DEF Queue, A!GiveUp
<1>3. TypeOKUse' /\ OthersKept(p) /\ phase'[p] = "left"
  BY <1>1, <1>2 DEF TypeOKUse, A!Phase, OthersKept, useVars
<1>4. CallInv(p)'
  BY <1>1, <1>2, <1>3 DEF CallInv, useVars
<1>5. \A k \in Key : JobInv(p, k)'
  BY <1>1, <1>2, <1>3 DEF CallInv, JobInv, LockOf, useVars, lockVars
<1>6. \A k \in Key : /\ Asking(p, k)' <=> Asking(p, k)
                     /\ Pending(p, k)' <=> Pending(p, k)
  BY <1>1, <1>2, <1>3 DEF CallInv, Asking, Pending, useVars
<1> QED
  BY <1>2, <1>3, <1>4, <1>5, <1>6, CallStep

\* Acquire starts a goroutine for each container of the call.
LEMMA StartInvariant ==
  ASSUME SInv, NEW p \in Proc, Queue(p), A!Start(p)
  PROVE  SInv' /\ OnceStep(p)
<1>1. TypeOKUse /\ CallInv(p) /\ \A k \in Key : JobInv(p, k)
  BY DEF SInv
<1>2. /\ phase[p] = "queued" /\ phase' = [phase EXCEPT ![p] = "locking"]
      /\ job' = [job EXCEPT ![p] = [k \in Key |-> IF k \in set[p] THEN "run"
                                                                  ELSE "off"]]
      /\ UNCHANGED <<lockVars, useVars, once, req, at, runs, set, done>>
  BY DEF Queue, A!Start
<1>3. \A k \in Key : job[p][k] = "off" /\ at[p][k] = "start"
  BY <1>1, <1>2 DEF CallInv
<1>4. /\ phase'[p] = "locking"
      /\ \A k \in Key : job'[p][k] = IF k \in set[p] THEN "run" ELSE "off"
      /\ \A r \in Proc : r # p => phase'[r] = phase[r] /\ job'[r] = job[r]
  BY <1>1, <1>2 DEF TypeOKUse
<1>5. TypeOKUse'
  <2>1. [k \in Key |-> IF k \in set[p] THEN "run" ELSE "off"] \in [Key -> A!Job]
    BY DEF A!Job
  <2> QED
    BY <1>1, <1>2, <2>1 DEF TypeOKUse, A!Phase, useVars
<1>6. OthersKept(p)
  BY <1>2, <1>4 DEF OthersKept, useVars
<1>7. CallInv(p)'
  BY <1>1, <1>2, <1>4, RequestsTyped DEF CallInv, useVars
<1>8. \A k \in Key : JobInv(p, k)'
  BY <1>1, <1>2, <1>3, <1>4 DEF CallInv, JobInv, LockOf, useVars, lockVars
<1>9. \A k \in Key : /\ Asking(p, k)' <=> Asking(p, k)
                     /\ Pending(p, k)' <=> Pending(p, k)
  BY <1>1, <1>2, <1>3, <1>4 DEF CallInv, Asking, Pending, useVars
<1> QED
  BY <1>2, <1>5, <1>6, <1>7, <1>8, <1>9, CallStep

\* Acquire returns with all of the locks.
LEMMA AcquiredInvariant ==
  ASSUME SInv, NEW p \in Proc, Queue(p), A!Acquired(p)
  PROVE  SInv' /\ OnceStep(p)
<1>1. TypeOKUse /\ CallInv(p) /\ \A k \in Key : JobInv(p, k)
  BY DEF SInv
<1>2. /\ phase[p] = "locking" /\ phase' = [phase EXCEPT ![p] = "held"]
      /\ \A k \in Key : job[p][k] \notin {"run", "failed"}
      /\ UNCHANGED <<lockVars, useVars, once, req, at, runs, set, job, done>>
  BY DEF Queue, A!Acquired, A!Waited
<1>3. TypeOKUse' /\ OthersKept(p) /\ phase'[p] = "held"
  BY <1>1, <1>2 DEF TypeOKUse, A!Phase, OthersKept, useVars
<1>4. CallInv(p)'
  BY <1>1, <1>2, <1>3 DEF CallInv, useVars
<1>5. \A k \in Key : JobInv(p, k)'
  BY <1>1, <1>2, <1>3 DEF JobInv, LockOf, useVars, lockVars
<1>6. \A k \in Key : /\ Asking(p, k)' <=> Asking(p, k)
                     /\ Pending(p, k)' <=> Pending(p, k)
  BY <1>2, <1>3 DEF Asking, Pending, useVars
<1> QED
  BY <1>2, <1>3, <1>4, <1>5, <1>6, CallStep

(* Acquire takes back the locks of a call whose context ended: a container   *)
(* that this call was to initialise stays with its Once spent.               *)
LEMMA UndoInvariant ==
  ASSUME SInv, NEW p \in Proc, Queue(p), A!Undo(p)
  PROVE  SInv' /\ OnceStep(p)
<1>1. TypeOKUse /\ CallInv(p) /\ \A k \in Key : JobInv(p, k)
  BY DEF SInv
<1>2. /\ phase[p] = "locking" /\ phase' = [phase EXCEPT ![p] = "undo"]
      /\ \A k \in Key : job[p][k] # "run"
      /\ \E k \in Key : job[p][k] = "failed"
      /\ set' = [set EXCEPT ![p] = {}]
      /\ UNCHANGED <<lockVars, useVars, once, req, at, runs, job, done>>
  BY DEF Queue, A!Undo, A!Waited, A!remove
<1>3. TypeOKUse' /\ OthersKept(p) /\ phase'[p] = "undo"
  BY <1>1, <1>2 DEF TypeOKUse, A!Phase, OthersKept, useVars
<1>4. CallInv(p)'
  BY <1>1, <1>2, <1>3 DEF CallInv, JobInv
<1>5. \A k \in Key : JobInv(p, k)'
  BY <1>1, <1>2, <1>3 DEF JobInv, LockOf, useVars, lockVars
<1>6. \A k \in Key : ~ Pending(p, k)' /\ (Asking(p, k)' => Asking(p, k))
  BY <1>2, <1>3 DEF Asking, Pending, useVars
<1> QED
  BY <1>2, <1>3, <1>4, <1>5, <1>6, CallStep

\* The caller gives its containers back, initialised or not.
LEMMA ReleaseInvariant ==
  ASSUME SInv, NEW p \in Proc, A!Release(p),
         UNCHANGED <<lockVars, useVars, once, req, at>>
  PROVE  SInv' /\ OnceStep(p)
<1>1. TypeOKUse /\ CallInv(p) /\ \A k \in Key : JobInv(p, k)
  BY DEF SInv
<1>2. /\ phase[p] = "held" /\ phase' = [phase EXCEPT ![p] = "release"]
      /\ UNCHANGED <<set, job, done>>
  BY DEF A!Release
<1>3. TypeOKUse' /\ OthersKept(p) /\ phase'[p] = "release"
  BY <1>1, <1>2 DEF TypeOKUse, A!Phase, OthersKept, useVars
<1>4. CallInv(p)'
  BY <1>3 DEF CallInv
<1>5. \A k \in Key : JobInv(p, k)'
  BY <1>1, <1>2, <1>3 DEF JobInv, LockOf, useVars, lockVars
<1>6. \A k \in Key : ~ Pending(p, k)' /\ (Asking(p, k)' => Asking(p, k))
  BY <1>1, <1>2, <1>3 DEF JobInv, Asking, Pending, useVars
<1> QED
  BY <1>2, <1>3, <1>4, <1>5, <1>6, CallStep

\* The call, or its unlock, returns.
LEMMA ReturnInvariant ==
  ASSUME SInv, NEW p \in Proc, Return(p)
  PROVE  SInv' /\ OnceStep(p)
<1>1. TypeOKUse /\ CallInv(p) /\ \A k \in Key : JobInv(p, k)
  BY DEF SInv
<1>2. /\ phase[p] \in {"release", "undo"} /\ phase' = [phase EXCEPT ![p] = "out"]
      /\ \A k \in Key : job[p][k] # "locked"
      /\ job' = [job EXCEPT ![p] = A!NoJob]
      /\ initPending' = [initPending EXCEPT ![p] = {}]
      /\ downgraded' = [downgraded EXCEPT ![p] = {}]
      /\ initErr' = initErr \ {p}
      /\ req' = [req EXCEPT ![p] = << >>]
      /\ at' = [at EXCEPT ![p] = AllStart]
      /\ UNCHANGED <<lockVars, once, runs, set, done>>
  BY DEF Return, A!Return
<1>3. AllStart \in [Key -> At] /\ A!NoJob \in [Key -> A!Job]
  BY DEF AllStart, At, A!NoJob, A!Job
<1>4. /\ phase' \in [Proc -> A!Phase] /\ job' \in [Proc -> [Key -> A!Job]]
      /\ req' \in [Proc -> AllRequests \cup {<< >>}]
      /\ at' \in [Proc -> [Key -> At]]
  BY <1>1, <1>2, <1>3 DEF TypeOKUse, A!Phase
<1>5. TypeOKUse'
  BY <1>1, <1>2, <1>4 DEF TypeOKUse
<1>6. OthersKept(p)
  BY <1>1, <1>2 DEF TypeOKUse, OthersKept
<1>7. /\ phase'[p] = "out" /\ initPending'[p] = {} /\ downgraded'[p] = {}
      /\ \A k \in Key : job'[p][k] = "off" /\ at'[p][k] = "start"
      /\ p \notin initErr'
  BY <1>1, <1>2 DEF TypeOKUse, A!NoJob, AllStart
<1>8. CallInv(p)'
  BY <1>7 DEF CallInv
<1>9. ASSUME NEW k \in Key PROVE JobInv(p, k)'
  <2>1. st[p][k] = "none"
    BY <1>1, <1>2 DEF JobInv, LockOf, TypeOKUse, A!Job
  <2> QED
    BY <1>2, <1>7, <2>1 DEF JobInv, LockOf, lockVars
<1>10. \A k \in Key : /\ Asking(p, k)' <=> Asking(p, k)
                      /\ Pending(p, k)' <=> Pending(p, k)
  BY <1>1, <1>2, <1>7 DEF JobInv, Asking, Pending
<1> QED
  BY <1>2, <1>5, <1>6, <1>8, <1>9, <1>10, CallStep

-----------------------------------------------------------------------------
(* The steps of a goroutine. *)

\* What is the same in every step of p's goroutine for k.
Goroutine(p, k) ==
  /\ OthersKept(p) /\ UNCHANGED done
  /\ \A j \in Key : j # k => KeyKept(p, j) /\ once'[j] = once[j]
  /\ phase'[p] = phase[p] /\ req'[p] = req[p]
  /\ p \in initErr' <=> p \in initErr

\* A goroutine that runs is part of a call that locks, and goes on to run,
\* to have locked or to have failed.
LEMMA GoroutineCall ==
  ASSUME SInv, NEW p \in Proc, NEW k \in Key, Goroutine(p, k),
         job[p][k] = "run", job'[p][k] # "off"
  PROVE  CallInv(p)'
<1>1. phase[p] = "locking" /\ CallInv(p)
  BY DEF SInv, JobInv
<1>2. DOMAIN req[p] \subseteq Key
  BY <1>1, RequestsTyped DEF CallInv
<1>3. \A j \in Key : job[p][j] # "off" => job'[p][j] # "off"
  BY DEF Goroutine, KeyKept
<1> QED
  BY <1>1, <1>2, <1>3 DEF CallInv, Goroutine

\* It concerns no Once but that of k.
LEMMA GoroutineOnce ==
  ASSUME NEW p \in Proc, NEW k \in Key, Goroutine(p, k), OnceAt(p, k)
  PROVE  OnceStep(p)
<1>1. \A r \in Proc, j \in Key : r # p => (Pending(r, j)' <=> Pending(r, j))
  BY DEF Goroutine, OthersKept, Pending
<1>2. \A j \in Key : j # k => OnceAt(p, j)
  BY DEF Goroutine, KeyKept, OnceAt, Pending
<1> QED
  BY <1>1, <1>2 DEF OnceStep

\* What a step of p's goroutine for k must show about k.
LEMMA GoroutineInvariant ==
  ASSUME SInv, NEW p \in Proc, NEW k \in Key, Goroutine(p, k),
         job[p][k] = "run", job'[p][k] # "off",
         KP!IInv', OnlyWoken(p, k), TypeOKUse', JobInv(p, k)', OnceInv(k)', OnceAt(p, k)
  PROVE  SInv' /\ OnceStep(p)
BY GoroutineCall, GoroutineStep, GoroutineOnce DEF Goroutine

\* The others neither come to ask for the Once of k nor leave it.
LEMMA OthersAsk ==
  ASSUME NEW p \in Proc, NEW k \in Key, OthersKept(p)
  PROVE  \A r \in Proc : r # p => /\ Asking(r, k)' <=> Asking(r, k)
                                  /\ Pending(r, k)' <=> Pending(r, k)
BY DEF OthersKept, Asking, Pending

\* once.Do calls its function, which asks for an exclusive lock.
LEMMA DoOnceInvariant ==
  ASSUME SInv, NEW p \in Proc, NEW k \in Key, DoOnce(p, k)
  PROVE  SInv' /\ OnceStep(p)
<1>1. TypeOKUse /\ JobInv(p, k) /\ OnceInv(k)
  BY DEF SInv
<1>2. /\ job[p][k] = "run" /\ at[p][k] = "start" /\ req[p][k].init
      /\ once[k] = "fresh"
      /\ once' = [once EXCEPT ![k] = "running"]
      /\ at' = [at EXCEPT ![p][k] = "once"]
      /\ KL!Lock(p, k)
      /\ UNCHANGED <<acquirerVars, useVars, req, runs>>
  BY DEF DoOnce, Running, Goto
<1>3. /\ KP!IInv' /\ OnlyWoken(p, k) /\ st'[p][k] \in {"wantEx", "ex"}
  BY <1>2, LockStep DEF SInv
<1>4. at'[p][k] = "once" /\ once'[k] = "running"
  BY <1>1, <1>2 DEF TypeOKUse
<1>5. TypeOKUse'
  BY <1>1, <1>2 DEF TypeOKUse, At, acquirerVars, useVars
<1>6. Goroutine(p, k)
  BY <1>1, <1>2 DEF TypeOKUse, Goroutine, OthersKept, KeyKept, acquirerVars, useVars
<1>7. JobInv(p, k)'
  BY <1>1, <1>2, <1>3, <1>4 DEF JobInv, LockOf, acquirerVars, useVars
<1>8. OnceInv(k)'
  <2>1. ~ Pending(p, k)' /\ \A r \in Proc : ~ Asking(r, k) /\ ~ Pending(r, k)
    BY <1>1, <1>2, <1>4 DEF OnceInv, JobInv, Pending, acquirerVars, useVars
  <2>2. OthersKept(p)
    BY <1>6 DEF Goroutine
  <2> QED
    BY <1>1, <1>2, <1>4, <2>1, <2>2, OthersAsk DEF OnceInv
<1>9. OnceAt(p, k)
  BY <1>1, <1>2, <1>4 DEF OnceAt, JobInv, Pending, acquirerVars, useVars
<1> QED
  BY <1>2, <1>3, <1>5, <1>6, <1>7, <1>8, <1>9, GoroutineInvariant DEF acquirerVars

\* once.Do has nothing to do.
LEMMA SkipOnceInvariant ==
  ASSUME SInv, NEW p \in Proc, NEW k \in Key, SkipOnce(p, k)
  PROVE  SInv' /\ OnceStep(p)
<1>1. TypeOKUse /\ JobInv(p, k) /\ OnceInv(k)
  BY DEF SInv
<1>2. /\ job[p][k] = "run" /\ at[p][k] = "start"
      /\ at' = [at EXCEPT ![p][k] = "plain"]
      /\ UNCHANGED <<acquirerVars, lockVars, useVars, once, req, runs>>
  BY DEF SkipOnce, Running, Goto
<1>3. /\ KP!IInv' /\ OnlyWoken(p, k)
  BY <1>2, LocksKept DEF SInv
<1>4. at'[p][k] = "plain"
  BY <1>1, <1>2 DEF TypeOKUse
<1>5. TypeOKUse'
  BY <1>1, <1>2 DEF TypeOKUse, At, acquirerVars, useVars
<1>6. Goroutine(p, k)
  BY <1>1, <1>2 DEF TypeOKUse, Goroutine, OthersKept, KeyKept, acquirerVars, useVars
<1>7. JobInv(p, k)'
  BY <1>1, <1>2, <1>4 DEF JobInv, LockOf, acquirerVars, useVars, lockVars
<1>8. OnceInv(k)'
  <2>1. /\ Asking(p, k)' <=> Asking(p, k)
        /\ Pending(p, k)' <=> Pending(p, k)
    BY <1>2, <1>4 DEF Asking, Pending, acquirerVars, useVars
  <2>2. OthersKept(p)
    BY <1>6 DEF Goroutine
  <2> QED
    BY <1>1, <1>2, <2>1, <2>2, OthersAsk, OnceFrame DEF acquirerVars
<1>9. OnceAt(p, k)
  BY <1>2, <1>4 DEF OnceAt, Pending, acquirerVars, useVars
<1> QED
  BY <1>2, <1>3, <1>5, <1>6, <1>7, <1>8, <1>9, GoroutineInvariant DEF acquirerVars

\* The function of once.Do returns with its lock.
LEMMA OnceDoneInvariant ==
  ASSUME SInv, NEW p \in Proc, NEW k \in Key, OnceDone(p, k)
  PROVE  SInv' /\ OnceStep(p)
<1>1. TypeOKUse /\ JobInv(p, k) /\ OnceInv(k)
  BY DEF SInv
<1>2. /\ job[p][k] = "run" /\ at[p][k] = "once" /\ st[p][k] = "ex"
      /\ once' = [once EXCEPT ![k] = "done"]
      /\ at' = [at EXCEPT ![p][k] = "got"]
      /\ UNCHANGED <<acquirerVars, lockVars, useVars, req, runs>>
  BY DEF OnceDone, Running, Goto
<1>3. /\ KP!IInv' /\ OnlyWoken(p, k)
  BY <1>2, LocksKept DEF SInv
<1>4. at'[p][k] = "got" /\ once'[k] = "done"
  BY <1>1, <1>2 DEF TypeOKUse
<1>5. TypeOKUse'
  BY <1>1, <1>2 DEF TypeOKUse, At, acquirerVars, useVars
<1>6. Goroutine(p, k)
  BY <1>1, <1>2 DEF TypeOKUse, Goroutine, OthersKept, KeyKept, acquirerVars, useVars
<1>7. JobInv(p, k)'
  BY <1>1, <1>2, <1>4 DEF JobInv, LockOf, acquirerVars, useVars, lockVars
<1>8. OnceInv(k)'
  <2>1. /\ Asking(p, k) /\ ~ Asking(p, k)' /\ Pending(p, k)'
        /\ \A r \in Proc : ~ Pending(r, k) /\ (Asking(r, k) => r = p)
    BY <1>1, <1>2, <1>4 DEF OnceInv, Asking, Pending, acquirerVars
  <2>2. OthersKept(p)
    BY <1>6 DEF Goroutine
  <2> QED
    BY <1>1, <1>2, <1>4, <2>1, <2>2, OthersAsk DEF OnceInv
<1>9. OnceAt(p, k)
  <2>1. once[k] = "running"
    BY <1>1, <1>2 DEF OnceInv, Asking
  <2> QED
    BY <1>2, <1>4, <2>1 DEF OnceAt, Pending, acquirerVars
<1> QED
  BY <1>2, <1>3, <1>5, <1>6, <1>7, <1>8, <1>9, GoroutineInvariant DEF acquirerVars

\* The goroutine asks for the lock that its param wants.
LEMMA PlainLockInvariant ==
  ASSUME SInv, NEW p \in Proc, NEW k \in Key, PlainLock(p, k)
  PROVE  SInv' /\ OnceStep(p)
<1>1. TypeOKUse /\ JobInv(p, k) /\ OnceInv(k)
  BY DEF SInv
<1>2. /\ job[p][k] = "run" /\ at[p][k] \in {"start", "plain"}
      /\ IF req[p][k].exclusive THEN KL!Lock(p, k) ELSE KL!RLock(p, k)
      /\ at' = [at EXCEPT ![p][k] = "wait"]
      /\ UNCHANGED <<acquirerVars, useVars, once, req, runs>>
  BY DEF PlainLock, Running, Goto
<1>3. /\ KP!IInv' /\ OnlyWoken(p, k)
      /\ st'[p][k] \in IF req[p][k].exclusive THEN {"wantEx", "ex"}
                                              ELSE {"wantSh", "sh"}
  BY <1>2, LockStep, RLockStep DEF SInv
<1>4. at'[p][k] = "wait"
  BY <1>1, <1>2 DEF TypeOKUse
<1>5. TypeOKUse'
  BY <1>1, <1>2 DEF TypeOKUse, At, acquirerVars, useVars
<1>6. Goroutine(p, k)
  BY <1>1, <1>2 DEF TypeOKUse, Goroutine, OthersKept, KeyKept, acquirerVars, useVars
<1>7. JobInv(p, k)'
  BY <1>1, <1>2, <1>3, <1>4 DEF JobInv, LockOf, acquirerVars, useVars
<1>8. OnceInv(k)'
  <2>1. /\ Asking(p, k)' <=> Asking(p, k)
        /\ Pending(p, k)' <=> Pending(p, k)
    BY <1>2, <1>4 DEF Asking, Pending, acquirerVars, useVars
  <2>2. OthersKept(p)
    BY <1>6 DEF Goroutine
  <2> QED
    BY <1>1, <1>2, <2>1, <2>2, OthersAsk, OnceFrame DEF acquirerVars
<1>9. OnceAt(p, k)
  BY <1>2, <1>4 DEF OnceAt, Pending, acquirerVars, useVars
<1> QED
  BY <1>2, <1>3, <1>5, <1>6, <1>7, <1>8, <1>9, GoroutineInvariant DEF acquirerVars

\* The lock for initialising k is there.
LEMMA InitLockedInvariant ==
  ASSUME SInv, NEW p \in Proc, NEW k \in Key, InitLocked(p, k)
  PROVE  SInv' /\ OnceStep(p)
<1>1. TypeOKUse /\ JobInv(p, k) /\ OnceInv(k)
  BY DEF SInv
<1>2. /\ job[p][k] = "run" /\ at[p][k] = "got"
      /\ job' = [job EXCEPT ![p][k] = "locked"]
      /\ set' = [set EXCEPT ![p] = @ \ {k}]
      /\ initPending' = [initPending EXCEPT ![p] = @ \cup {k}]
      /\ UNCHANGED <<lockVars, downgraded, initErr, once, req, at, runs, phase, done>>
  BY DEF InitLocked, Running, A!NotifyLock, A!removeLockedKey
<1>3. /\ KP!IInv' /\ OnlyWoken(p, k)
  BY <1>2, LocksKept DEF SInv
<1>4. job'[p][k] = "locked" /\ k \in initPending'[p]
  BY <1>1, <1>2 DEF TypeOKUse
<1>5. TypeOKUse'
  <2>1. job' \in [Proc -> [Key -> A!Job]]
    BY <1>1, <1>2 DEF TypeOKUse, A!Job
  <2> QED
    BY <1>1, <1>2, <2>1 DEF TypeOKUse
<1>6. Goroutine(p, k)
  BY <1>1, <1>2 DEF TypeOKUse, Goroutine, OthersKept, KeyKept
<1>7. JobInv(p, k)'
  BY <1>1, <1>2, <1>4 DEF JobInv, LockOf, lockVars
<1>8. OnceInv(k)'
  <2>1. /\ ~ Asking(p, k) /\ ~ Asking(p, k)' /\ Pending(p, k) /\ Pending(p, k)'
    BY <1>1, <1>2, <1>4 DEF JobInv, Asking, Pending
  <2>2. OthersKept(p)
    BY <1>6 DEF Goroutine
  <2> QED
    BY <1>1, <1>2, <2>1, <2>2, OthersAsk, OnceFrame
<1>9. OnceAt(p, k)
  BY <1>1, <1>2, <1>4 DEF OnceAt, JobInv, Pending
<1> QED
  BY <1>2, <1>3, <1>4, <1>5, <1>6, <1>7, <1>8, <1>9, GoroutineInvariant

\* The plain lock is there.
LEMMA PlainLockedInvariant ==
  ASSUME SInv, NEW p \in Proc, NEW k \in Key, PlainLocked(p, k)
  PROVE  SInv' /\ OnceStep(p)
<1>1. TypeOKUse /\ JobInv(p, k) /\ OnceInv(k)
  BY DEF SInv
<1>2. /\ job[p][k] = "run" /\ at[p][k] = "wait" /\ st[p][k] \in {"ex", "sh"}
      /\ job' = [job EXCEPT ![p][k] = "locked"]
      /\ set' = [set EXCEPT ![p] = @ \ {k}]
      /\ downgraded' = IF req[p][k].exclusive THEN downgraded
                       ELSE [downgraded EXCEPT ![p] = @ \cup {k}]
      /\ UNCHANGED <<lockVars, initPending, initErr, once, req, at, runs, phase, done>>
  BY DEF PlainLocked, Running, A!NotifyLock, A!removeLockedKey
<1>3. /\ KP!IInv' /\ OnlyWoken(p, k)
  BY <1>2, LocksKept DEF SInv
<1>4. /\ job'[p][k] = "locked"
      /\ k \notin downgraded[p]
      /\ k \in downgraded'[p] <=> ~ req[p][k].exclusive
  BY <1>1, <1>2 DEF TypeOKUse, JobInv
<1>5. TypeOKUse'
  <2>1. job' \in [Proc -> [Key -> A!Job]]
    BY <1>1, <1>2 DEF TypeOKUse, A!Job
  <2>2. downgraded' \in [Proc -> SUBSET Key]
    BY <1>1, <1>2 DEF TypeOKUse
  <2> QED
    BY <1>1, <1>2, <2>1, <2>2 DEF TypeOKUse
<1>6. Goroutine(p, k)
  BY <1>1, <1>2 DEF TypeOKUse, Goroutine, OthersKept, KeyKept
<1>7. JobInv(p, k)'
  <2>1. k \notin initPending[p]
    BY <1>1, <1>2 DEF JobInv
  <2> QED
    BY <1>1, <1>2, <1>4, <2>1 DEF JobInv, LockOf, lockVars
<1>8. OnceInv(k)'
  <2>1. /\ Asking(p, k)' <=> Asking(p, k)
        /\ Pending(p, k)' <=> Pending(p, k)
    BY <1>2, <1>4 DEF Asking, Pending
  <2>2. OthersKept(p)
    BY <1>6 DEF Goroutine
  <2> QED
    BY <1>1, <1>2, <2>1, <2>2, OthersAsk, OnceFrame
<1>9. OnceAt(p, k)
  BY <1>2, <1>4 DEF OnceAt, Pending
<1> QED
  BY <1>2, <1>3, <1>4, <1>5, <1>6, <1>7, <1>8, <1>9, GoroutineInvariant

\* The context ends before the lock is there.
LEMMA LockErrorInvariant ==
  ASSUME SInv, NEW p \in Proc, NEW k \in Key, LockError(p, k)
  PROVE  SInv' /\ OnceStep(p)
<1>1. TypeOKUse /\ JobInv(p, k) /\ OnceInv(k)
  BY DEF SInv
<1>2. /\ job[p][k] = "run" /\ at[p][k] \in {"once", "wait"}
      /\ KL!Cancel(p, k)
      /\ A!GroupDone(p)
      /\ job' = [job EXCEPT ![p][k] = "failed"]
      /\ once' = IF at[p][k] = "once" THEN [once EXCEPT ![k] = "fresh"] ELSE once
      /\ UNCHANGED <<useVars, req, at, runs, set, phase, done>>
  BY DEF LockError, Running, A!LockFailed
<1>3. /\ KP!IInv' /\ OnlyWoken(p, k) /\ st'[p][k] = "none"
  BY <1>2, CancelStep DEF SInv
<1>4. p \in done
  BY <1>2 DEF A!GroupDone, SInv, JobInv
<1>5. job'[p][k] = "failed"
  BY <1>1, <1>2 DEF TypeOKUse
<1>6. TypeOKUse'
  <2>1. job' \in [Proc -> [Key -> A!Job]]
    BY <1>1, <1>2 DEF TypeOKUse, A!Job
  <2> QED
    BY <1>1, <1>2, <2>1 DEF TypeOKUse, useVars
<1>7. Goroutine(p, k)
  BY <1>1, <1>2 DEF TypeOKUse, Goroutine, OthersKept, KeyKept, useVars
<1>8. JobInv(p, k)'
  <2>1. k \notin initPending[p] /\ phase[p] = "locking"
    BY <1>1, <1>2 DEF JobInv
  <2> QED
    BY <1>1, <1>2, <1>3, <1>4, <1>5, <2>1 DEF JobInv, LockOf, useVars
<1>9. OnceInv(k)'
  <2>1. ~ Asking(p, k)' /\ (Pending(p, k)' <=> Pending(p, k))
    BY <1>2, <1>5 DEF Asking, Pending, useVars
  <2>2. OthersKept(p)
    BY <1>7 DEF Goroutine
  <2>3. CASE at[p][k] = "once"
    <3>1. \A r \in Proc : ~ Asking(r, k)' /\ ~ Pending(r, k)'
      <4>1. Asking(p, k)
        BY <1>2, <2>3 DEF Asking
      <4>2. once[k] = "running" /\ \A r \in Proc : r # p => ~ Asking(r, k)
        BY <1>1, <4>1 DEF OnceInv
      <4>3. \A r \in Proc : ~ Pending(r, k)
        BY <1>1, <4>2 DEF OnceInv
      <4> QED
        BY <2>1, <2>2, <4>2, <4>3, OthersAsk
    <3>2. once'[k] = "fresh"
      BY <1>1, <1>2, <2>3 DEF TypeOKUse
    <3> QED
      BY <3>1, <3>2 DEF OnceInv
  <2>4. CASE at[p][k] = "wait"
    <3>1. ~ Asking(p, k)
      BY <2>4 DEF Asking
    <3>2. once' = once
      BY <1>2, <2>4
    <3> QED
      BY <1>1, <1>2, <2>1, <2>2, <3>1, <3>2, OthersAsk, OnceFrame
  <2> QED
    BY <1>2, <2>3, <2>4
<1>10. OnceAt(p, k)
  <2>1. Pending(p, k)' <=> Pending(p, k)
    BY <1>2, <1>5 DEF Pending, useVars
  <2>2. CASE at[p][k] = "once"
    <3>1. once[k] = "running"
      BY <1>1, <1>2, <2>2 DEF OnceInv, Asking
    <3>2. once'[k] = "fresh" /\ ~ Pending(p, k)
      BY <1>1, <1>2, <2>2, <3>1 DEF OnceInv, TypeOKUse
    <3> QED
      BY <2>1, <3>1, <3>2 DEF OnceAt
  <2>3. CASE at[p][k] = "wait"
    BY <1>2, <2>1, <2>3 DEF OnceAt
  <2> QED
    BY <1>2, <2>2, <2>3
<1> QED
  BY <1>2, <1>3, <1>5, <1>6, <1>7, <1>8, <1>9, <1>10, GoroutineInvariant

-----------------------------------------------------------------------------
(* Init functions, and locks that are given back. *)

\* A call that has not its turn to change keeps what CallInv says of it.
LEMMA SameCall ==
  ASSUME SInv, NEW p \in Proc, phase[p] \in {"held", "release", "undo"},
         phase'[p] = phase[p], req'[p] = req[p], done \subseteq done',
         phase[p] = "held" => job'[p] = job[p]
  PROVE  CallInv(p)'
<1>1. CallInv(p)
  BY DEF SInv
<1> QED
  BY <1>1 DEF CallInv

\* The task of initialising k is done with, by p, who had it.
LEMMA OnceOver ==
  ASSUME NEW p \in Proc, NEW k \in Key, OnceInv(k), Pending(p, k), ~ Pending(p, k)',
         OthersKept(p), ~ Asking(p, k)'
  PROVE  OnceInv(k)'
<1>1. \A r \in Proc : ~ Asking(r, k) /\ (Pending(r, k) => r = p)
  BY DEF OnceInv
<1>2. \A r \in Proc : ~ Asking(r, k)' /\ ~ Pending(r, k)'
  BY <1>1, OthersAsk
<1> QED
  BY <1>2 DEF OnceInv

\* SetInitResult, of a container that p has to initialise.
LEMMA SetInitResultInvariant ==
  ASSUME SInv, NEW p \in Proc, NEW k \in Key, NEW ok \in BOOLEAN,
         phase[p] = "held", k \in initPending[p], SetInitResult(p, k, ok),
         UNCHANGED <<acquirerVars, req, at>>,
         initErr' = initErr \/ initErr' = initErr \cup {p}
  PROVE  /\ SInv'
         /\ initPending' = [initPending EXCEPT ![p] = @ \ {k}]
         /\ once' = IF ok THEN once ELSE [once EXCEPT ![k] = "fresh"]
         /\ Pending(p, k) /\ ~ Pending(p, k)'
         /\ \A r \in Proc, j \in Key :
              r # p \/ j # k => (Pending(r, j)' <=> Pending(r, j))
<1>1. TypeOKUse /\ JobInv(p, k) /\ OnceInv(k)
  BY DEF SInv
<1>2. /\ initPending' = [initPending EXCEPT ![p] = @ \ {k}]
      /\ once' = IF ok THEN once ELSE [once EXCEPT ![k] = "fresh"]
  BY DEF SetInitResult
<1>3. \/ /\ ~ req[p][k].exclusive
         /\ KL!Downgrade(p, k)
         /\ downgraded' = [downgraded EXCEPT ![p] = @ \cup {k}]
      \/ UNCHANGED <<lockVars, downgraded>>
  BY DEF SetInitResult
<1>4. /\ job[p][k] = "locked" /\ k \notin downgraded[p] /\ st[p][k] = "ex"
  BY <1>1 DEF JobInv, LockOf
<1>5. /\ KP!IInv' /\ OnlyWoken(p, k)
      /\ st'[p][k] = IF k \in downgraded'[p] THEN "sh" ELSE "ex"
      /\ k \in downgraded'[p] => ~ req[p][k].exclusive
  <2>1. CASE KL!Downgrade(p, k) /\ downgraded' = [downgraded EXCEPT ![p] = @ \cup {k}]
             /\ ~ req[p][k].exclusive
    BY <1>1, <2>1, DowngradeStep DEF SInv, TypeOKUse
  <2>2. CASE UNCHANGED <<lockVars, downgraded>>
    BY <1>4, <2>2, LocksKept DEF SInv, lockVars
  <2> QED
    BY <1>3, <2>1, <2>2
<1>6. k \notin initPending'[p]
  BY <1>1, <1>2 DEF TypeOKUse
<1>7. TypeOKUse'
  <2>1. downgraded' \in [Proc -> SUBSET Key]
    <3>1. downgraded \in [Proc -> SUBSET Key]
      BY <1>1 DEF TypeOKUse
    <3>2. downgraded' \in {downgraded, [downgraded EXCEPT ![p] = @ \cup {k}]}
      BY <1>3
    <3> QED
      BY <3>1, <3>2
  <2> QED
    BY <1>1, <1>2, <2>1 DEF TypeOKUse, acquirerVars
<1>8. OthersKept(p)
  BY <1>1, <1>2, <1>3 DEF TypeOKUse, OthersKept, acquirerVars
<1>9. \A j \in Key : j # k => KeyKept(p, j) /\ once'[j] = once[j]
  BY <1>1, <1>2, <1>3 DEF TypeOKUse, KeyKept, acquirerVars
<1>10. JobInv(p, k)'
  BY <1>1, <1>4, <1>5, <1>6 DEF JobInv, LockOf, acquirerVars
<1>11. Pending(p, k) /\ ~ Pending(p, k)' /\ ~ Asking(p, k)'
  BY <1>4, <1>6 DEF Pending, Asking, acquirerVars
<1>12. OnceInv(k)'
  BY <1>1, <1>8, <1>11, OnceOver
<1>13. CallInv(p)'
  BY SameCall DEF acquirerVars
<1>14. SInv'
  BY <1>5, <1>7, <1>8, <1>9, <1>10, <1>12, <1>13, GoroutineStep DEF acquirerVars
<1>15. \A r \in Proc, j \in Key : r # p => (Pending(r, j)' <=> Pending(r, j))
  BY <1>8, OthersAsk
<1>16. \A j \in Key : j # k => (Pending(p, j)' <=> Pending(p, j))
  BY <1>9 DEF KeyKept, Pending, acquirerVars
<1> QED
  BY <1>2, <1>11, <1>14, <1>15, <1>16

LEMMA UnlockKeyInvariant ==
  ASSUME SInv, NEW p \in Proc, NEW k \in Key, UnlockKey(p, k)
  PROVE  SInv' /\ OnceStep(p)
<1>1. TypeOKUse /\ JobInv(p, k) /\ OnceInv(k)
  BY DEF SInv
<1>2. /\ phase[p] \in {"release", "undo"} /\ job[p][k] = "locked"
      /\ job' = [job EXCEPT ![p][k] = "off"]
      /\ KL!Unlock(p, k) \/ KL!RUnlock(p, k)
      /\ UNCHANGED <<useVars, once, req, at, runs, set, phase, done>>
  BY DEF UnlockKey, A!UnlockKey
<1>3. KP!IInv' /\ OnlyWoken(p, k) /\ st'[p][k] = "none"
  BY <1>2, UnlockStep DEF SInv
<1>4. job'[p][k] = "off"
  BY <1>1, <1>2 DEF TypeOKUse
<1>5. TypeOKUse'
  <2>1. job' \in [Proc -> [Key -> A!Job]]
    BY <1>1, <1>2 DEF TypeOKUse, A!Job
  <2> QED
    BY <1>1, <1>2, <2>1 DEF TypeOKUse, useVars
<1>6. Goroutine(p, k)
  BY <1>1, <1>2 DEF TypeOKUse, Goroutine, OthersKept, KeyKept, useVars
<1>7. JobInv(p, k)'
  BY <1>1, <1>2, <1>3, <1>4 DEF JobInv, LockOf, useVars
<1>8. OnceInv(k)'
  <2>1. /\ Asking(p, k)' <=> Asking(p, k)
        /\ Pending(p, k)' <=> Pending(p, k)
    BY <1>2, <1>4 DEF Asking, Pending
  <2>2. OthersKept(p)
    BY <1>6 DEF Goroutine
  <2> QED
    BY <1>1, <1>2, <2>1, <2>2, OthersAsk, OnceFrame
<1>9. CallInv(p)'
  BY <1>2, SameCall
<1>10. OnceAt(p, k)
  BY <1>2, <1>4 DEF OnceAt, Pending
<1> QED
  BY <1>2, <1>3, <1>5, <1>6, <1>7, <1>8, <1>9, <1>10, GoroutineStep, GoroutineOnce
     DEF Goroutine

-----------------------------------------------------------------------------
\* Nobody has called.
LEMMA InitSInv == Init => SInv
<1> SUFFICES ASSUME Init PROVE SInv
  OBVIOUS
<1>1. KP!Init
  BY DEF Init, KL!Init, KP!Init
<1>2. KP!IInv
  BY <1>1, Finite, KP!InitInv
<1>3. A!NoJob \in [Key -> A!Job] /\ AllStart \in [Key -> At]
  BY DEF A!NoJob, A!Job, AllStart, At
<1>4. TypeOKUse
  BY <1>3 DEF Init, A!Init, TypeOKUse, A!Phase
<1>5. ASSUME NEW p \in Proc
      PROVE  /\ phase[p] = "out" /\ initPending[p] = {} /\ downgraded[p] = {}
             /\ p \notin initErr
             /\ \A k \in Key : /\ job[p][k] = "off" /\ at[p][k] = "start"
                               /\ st[p][k] = "none"
  BY DEF Init, A!Init, KL!Init, A!NoJob, AllStart
<1>6. \A p \in Proc : CallInv(p)
  BY <1>5 DEF CallInv
<1>7. \A p \in Proc, k \in Key : JobInv(p, k)
  BY <1>5 DEF JobInv, LockOf
<1>8. \A k \in Key : OnceInv(k)
  BY <1>5 DEF OnceInv, Asking, Pending
<1> QED
  BY <1>2, <1>4, <1>6, <1>7, <1>8 DEF SInv

LEMMA InitInv == Init => IInv
<1> SUFFICES ASSUME Init PROVE IInv
  OBVIOUS
<1>1. SInv /\ DOMAIN runs = Key
  BY InitSInv DEF Init
<1>2. ASSUME NEW k \in Key PROVE RunsInv(k)
  <2>1. once[k] = "fresh" /\ runs[k] = 0
    BY DEF Init
  <2> QED
    BY <2>1 DEF RunsInv
<1> QED
  BY <1>1, <1>2 DEF IInv

\* The steps that run no init function.
LockerStep(p) ==
  \/ Call(p) \/ CtxDone(p) \/ Queue(p) \/ Return(p)
  \/ \E k \in Key :
       \/ DoOnce(p, k) \/ SkipOnce(p, k) \/ OnceDone(p, k)
       \/ PlainLock(p, k) \/ InitLocked(p, k) \/ PlainLocked(p, k)
       \/ LockError(p, k) \/ UnlockKey(p, k)

LEMMA LockerStepInvariant ==
  ASSUME SInv, NEW p \in Proc, LockerStep(p)
  PROVE  SInv' /\ OnceStep(p)
<1>1. CASE Queue(p)
  <2>1. A!GiveUp(p) \/ A!Start(p) \/ A!Acquired(p) \/ A!Undo(p)
    BY <1>1 DEF Queue
  <2> QED
    BY <1>1, <2>1, GiveUpInvariant, StartInvariant, AcquiredInvariant, UndoInvariant
<1>2. ASSUME NEW k \in Key,
             \/ DoOnce(p, k) \/ SkipOnce(p, k) \/ OnceDone(p, k)
             \/ PlainLock(p, k) \/ InitLocked(p, k) \/ PlainLocked(p, k)
             \/ LockError(p, k) \/ UnlockKey(p, k)
      PROVE  SInv' /\ OnceStep(p)
  BY <1>2, DoOnceInvariant, SkipOnceInvariant, OnceDoneInvariant, PlainLockInvariant,
     InitLockedInvariant, PlainLockedInvariant, LockErrorInvariant, UnlockKeyInvariant
<1> QED
  BY <1>1, <1>2, CallInvariant, CtxDoneInvariant, ReturnInvariant DEF LockerStep

\* Nothing happens in the Locker.
LEMMA StutterInvariant ==
  ASSUME SInv, UNCHANGED <<acquirerVars, lockVars, useVars, once, req, at>>
  PROVE  SInv' /\ \A p \in Proc, k \in Key : Pending(p, k)' <=> Pending(p, k)
<1>1. KP!IInv'
  BY LocksKept DEF SInv
<1>2. TypeOKUse'
  BY DEF SInv, TypeOKUse, acquirerVars, useVars
<1>3. \A p \in Proc : CallInv(p)'
  BY DEF SInv, CallInv, acquirerVars, useVars
<1>4. \A p \in Proc, k \in Key : JobInv(p, k)'
  BY DEF SInv, JobInv, LockOf, acquirerVars, useVars, lockVars
<1>5. \A k \in Key : OnceInv(k)'
  BY DEF SInv, OnceInv, Asking, Pending, acquirerVars, useVars
<1>6. \A p \in Proc, k \in Key : Pending(p, k)' <=> Pending(p, k)
  BY DEF Pending, acquirerVars, useVars
<1> QED
  BY <1>1, <1>2, <1>3, <1>4, <1>5, <1>6 DEF SInv

\* Inits are counted by InitOK only, and no context is without its end again.
LEMMA LockerStepKeeps ==
  ASSUME NEW p \in Proc, LockerStep(p)
  PROVE  runs' = runs /\ done \subseteq done'
<1>1. CASE Call(p)
  BY <1>1 DEF Call, A!Accept
<1>2. CASE CtxDone(p) \/ Return(p)
  BY <1>2 DEF CtxDone, Return, A!CtxDone, A!Return
<1>3. CASE Queue(p)
  BY <1>3 DEF Queue, A!GiveUp, A!Start, A!Acquired, A!Undo
<1>4. ASSUME NEW k \in Key,
             DoOnce(p, k) \/ SkipOnce(p, k) \/ OnceDone(p, k) \/ PlainLock(p, k)
      PROVE  runs' = runs /\ done' = done
  BY <1>4 DEF DoOnce, SkipOnce, OnceDone, PlainLock, acquirerVars
<1>5. ASSUME NEW k \in Key,
             \/ InitLocked(p, k) \/ PlainLocked(p, k)
             \/ LockError(p, k) \/ UnlockKey(p, k)
      PROVE  runs' = runs /\ done' = done
  BY <1>5 DEF InitLocked, PlainLocked, LockError, UnlockKey, A!NotifyLock,
              A!LockFailed, A!UnlockKey
<1> QED
  BY <1>1, <1>2, <1>3, <1>4, <1>5 DEF LockerStep

\* Only Release takes a call to where it gives its containers back.
LEMMA OnlyReleaseReleases ==
  ASSUME SInv, NEW p \in Proc, LockerStep(p), phase'[p] = "release"
  PROVE  phase[p] = "release"
<1>1. TypeOKUse
  BY DEF SInv
<1>2. CASE Call(p)
  BY <1>1, <1>2 DEF TypeOKUse, Call, A!Accept
<1>3. CASE CtxDone(p) \/ Return(p)
  BY <1>1, <1>3 DEF TypeOKUse, CtxDone, Return, A!CtxDone, A!Return
<1>4. CASE Queue(p)
  BY <1>1, <1>4 DEF TypeOKUse, Queue, A!GiveUp, A!Start, A!Acquired, A!Undo
<1>5. ASSUME NEW k \in Key,
             DoOnce(p, k) \/ SkipOnce(p, k) \/ OnceDone(p, k) \/ PlainLock(p, k)
      PROVE  phase' = phase
  BY <1>5 DEF DoOnce, SkipOnce, OnceDone, PlainLock, acquirerVars
<1>6. ASSUME NEW k \in Key,
             \/ InitLocked(p, k) \/ PlainLocked(p, k)
             \/ LockError(p, k) \/ UnlockKey(p, k)
      PROVE  phase' = phase
  BY <1>6 DEF InitLocked, PlainLocked, LockError, UnlockKey, A!NotifyLock,
              A!LockFailed, A!UnlockKey
<1> QED
  BY <1>2, <1>3, <1>4, <1>5, <1>6 DEF LockerStep

\* A container whose init a step of p does not count.
LEMMA RunsFrame ==
  ASSUME NEW p \in Proc, NEW k \in Key, RunsInv(k), OnceStep(p), runs' = runs
  PROVE  RunsInv(k)'
<1>1. \A r \in Proc : r # p => (Pending(r, k)' <=> Pending(r, k))
  BY DEF OnceStep
<1>2. CASE once'[k] = once[k] /\ (Pending(p, k)' <=> Pending(p, k))
  BY <1>1, <1>2 DEF RunsInv
<1>3. CASE once'[k] = once[k] /\ ~ Pending(p, k)' /\ phase'[p] \in {"release", "undo"}
  BY <1>1, <1>3 DEF RunsInv
<1>4. CASE once[k] # "done" /\ (once'[k] = "done" <=> Pending(p, k)')
  <2>1. runs'[k] = 0 /\ runs[k] = 0
    BY <1>4 DEF RunsInv
  <2> QED
    BY <1>4, <2>1 DEF RunsInv
<1> QED
  BY <1>2, <1>3, <1>4 DEF OnceStep, OnceAt

\* An init function returns.
LEMMA InitInvariant ==
  ASSUME IInv, NEW p \in Proc, NEW k \in Key, InitOK(p, k) \/ InitFail(p, k)
  PROVE  IInv'
<1>1. SInv /\ TypeOKUse /\ OnceInv(k) /\ \A j \in Key : RunsInv(j)
  BY DEF IInv, SInv
<1>2. /\ phase[p] = "held" /\ k \in initPending[p]
      /\ UNCHANGED <<acquirerVars, req, at>>
      /\ initErr' = initErr \/ initErr' = initErr \cup {p}
  BY DEF InitOK, InitFail, InitTurn
<1>3. PICK o \in BOOLEAN :
        /\ SetInitResult(p, k, o)
        /\ runs' = IF o THEN [runs EXCEPT ![k] = @ + 1] ELSE runs
  BY DEF InitOK, InitFail
<1>4. /\ SInv'
      /\ once' = IF o THEN once ELSE [once EXCEPT ![k] = "fresh"]
      /\ Pending(p, k) /\ ~ Pending(p, k)'
      /\ \A r \in Proc, j \in Key : r # p \/ j # k => (Pending(r, j)' <=> Pending(r, j))
  BY <1>1, <1>2, <1>3, SetInitResultInvariant
<1>5. DOMAIN runs' = Key
  BY <1>3 DEF IInv
<1>6. ASSUME NEW j \in Key, j # k PROVE RunsInv(j)'
  <2>1. once'[j] = once[j] /\ runs'[j] = runs[j] /\ done' = done
    BY <1>1, <1>2, <1>3, <1>4, <1>6 DEF TypeOKUse, IInv, acquirerVars
  <2>2. \A r \in Proc : Pending(r, j)' <=> Pending(r, j)
    BY <1>4, <1>6
  <2> QED
    BY <1>1, <2>1, <2>2 DEF RunsInv
<1>7. RunsInv(k)'
  <2>1. \A r \in Proc : ~ Pending(r, k)'
    BY <1>1, <1>4 DEF OnceInv
  <2>2. once[k] = "done" /\ runs[k] = 0
    BY <1>1, <1>4 DEF OnceInv, RunsInv
  <2>3. /\ o => once'[k] = "done" /\ runs'[k] = 1
        /\ ~ o => once'[k] = "fresh" /\ runs'[k] = 0
    BY <1>1, <1>3, <1>4, <2>2 DEF TypeOKUse, IInv
  <2> QED
    BY <2>1, <2>3 DEF RunsInv
<1> QED
  BY <1>4, <1>5, <1>6, <1>7 DEF IInv

\* Every step preserves the invariant.
LEMMA NextInv == ASSUME IInv, [Next]_vars PROVE IInv'
<1>1. SInv /\ DOMAIN runs = Key /\ \A k \in Key : RunsInv(k)
  BY DEF IInv
<1>2. ASSUME NEW p \in Proc, LockerStep(p) PROVE IInv'
  <2>1. SInv' /\ OnceStep(p) /\ runs' = runs
    BY <1>1, <1>2, LockerStepInvariant, LockerStepKeeps
  <2> QED
    BY <1>1, <2>1, RunsFrame DEF IInv
<1>3. ASSUME NEW p \in Proc, Release(p) PROVE IInv'
  <2>1. /\ A!Release(p) /\ UNCHANGED <<lockVars, useVars, once, req, at>>
        /\ phase[p] = "held" /\ initPending[p] = {} /\ runs' = runs
    BY <1>3 DEF Release, A!Release
  <2>2. SInv' /\ OnceStep(p)
    BY <1>1, <2>1, ReleaseInvariant
  <2> QED
    BY <1>1, <2>1, <2>2, RunsFrame DEF IInv
<1>4. CASE UNCHANGED vars
  <2>1. SInv' /\ \A p \in Proc, k \in Key : Pending(p, k)' <=> Pending(p, k)
    BY <1>1, <1>4, StutterInvariant DEF vars
  <2> QED
    BY <1>1, <1>4, <2>1 DEF vars, acquirerVars, RunsInv, IInv
<1> QED
  BY <1>2, <1>3, <1>4, InitInvariant DEF Next, Step, KeyStep, LockerStep

-----------------------------------------------------------------------------
\* An exclusive lock is the only one, by the invariant of KeyedLock.
LEMMA Excludes ==
  ASSUME SInv, NEW p \in Proc, NEW r \in Proc, p # r, NEW k \in Key, st[p][k] = "ex"
  PROVE  st[r][k] \notin {"ex", "sh"}
<1>1. KP!Exclusion
  BY Finite, KP!InvImplies DEF SInv
<1> QED
  BY <1>1 DEF KP!Exclusion, KP!Hold

\* What the invariant says of init functions and of what calls leave behind.
LEMMA InvImplies == IInv => InitAlone /\ NothingLeft
<1> SUFFICES ASSUME IInv PROVE InitAlone /\ NothingLeft
  OBVIOUS
<1>1. ASSUME NEW p \in Proc, NEW r \in Proc, NEW k \in Key, p # r, st[p][k] = "ex"
      PROVE  st[r][k] \notin {"ex", "sh"}
  BY <1>1, Excludes DEF IInv
<1>2. InitAlone
  <2> SUFFICES ASSUME NEW p \in Proc, NEW r \in Proc, p # r,
                      phase[p] \in {"locking", "held"}, NEW k \in initPending[p]
               PROVE  st[r][k] \notin {"ex", "sh"}
    BY DEF InitAlone
  <2>1. k \in Key
    BY DEF IInv, SInv, TypeOKUse
  <2>2. st[p][k] = "ex"
    BY <2>1 DEF IInv, SInv, JobInv, LockOf
  <2> QED
    BY <1>1, <2>1, <2>2
<1>3. NothingLeft
  BY DEF NothingLeft, IInv, SInv, CallInv, JobInv, LockOf
<1> QED
  BY <1>2, <1>3

(* The inductive invariant holds in every state.                             *)
THEOREM Invariance == Spec => []IInv
BY InitInv, NextInv, PTL DEF Spec

(* Init functions run alone: from the moment a caller is told to initialise   *)
(* a container (AcquireContainerLockEntry.Lock) to SetInitResult, nobody else *)
(* holds a lock of it.                                                       *)
THEOREM Alone == Spec => []InitAlone
BY Invariance, InvImplies, PTL

(* A call that failed, wherever, or was released has given back every lock    *)
(* (the error path of Acquire, and Release, in acquire.go).                  *)
THEOREM Nothing == Spec => []NothingLeft
BY Invariance, InvImplies, PTL

\* Only the error path of Acquire takes a call to where it gives back its
\* locks with an init still to be run.
LEMMA OnlyUndoUndoes ==
  ASSUME SInv, NEW p \in Proc, LockerStep(p), phase'[p] = "undo", phase[p] # "undo"
  PROVE  A!Undo(p)
<1>1. TypeOKUse
  BY DEF SInv
<1>2. CASE Call(p)
  BY <1>1, <1>2 DEF TypeOKUse, Call, A!Accept
<1>3. CASE CtxDone(p) \/ Return(p)
  BY <1>1, <1>3 DEF TypeOKUse, CtxDone, Return, A!CtxDone, A!Return
<1>4. CASE Queue(p)
  BY <1>1, <1>4 DEF TypeOKUse, Queue, A!GiveUp, A!Start, A!Acquired
<1>5. ASSUME NEW k \in Key,
             DoOnce(p, k) \/ SkipOnce(p, k) \/ OnceDone(p, k) \/ PlainLock(p, k)
      PROVE  phase' = phase
  BY <1>5 DEF DoOnce, SkipOnce, OnceDone, PlainLock, acquirerVars
<1>6. ASSUME NEW k \in Key,
             \/ InitLocked(p, k) \/ PlainLocked(p, k)
             \/ LockError(p, k) \/ UnlockKey(p, k)
      PROVE  phase' = phase
  BY <1>6 DEF InitLocked, PlainLocked, LockError, UnlockKey, A!NotifyLock,
              A!LockFailed, A!UnlockKey
<1> QED
  BY <1>2, <1>3, <1>4, <1>5, <1>6 DEF LockerStep

\* What the error path of Acquire finds when it drops the task of p to
\* initialise k.
LEMMA UndoLoses ==
  ASSUME SInv, NEW p \in Proc, NEW k \in Key, A!Undo(p), Pending(p, k)
  PROVE  /\ p \in done /\ phase[p] = "locking" /\ phase'[p] = "undo"
         /\ k \in initPending[p]
         /\ \E j \in Key \ {k} : job[p][j] = "failed"
<1>1. TypeOKUse /\ \A j \in Key : JobInv(p, j)
  BY DEF SInv
<1>2. /\ phase[p] = "locking" /\ \A j \in Key : job[p][j] # "run"
      /\ phase' = [phase EXCEPT ![p] = "undo"]
  BY DEF A!Undo, A!Waited
<1>3. PICK j \in Key : job[p][j] = "failed"
  BY DEF A!Undo
<1>4. k \in initPending[p] /\ job[p][k] = "locked"
  BY <1>1, <1>2 DEF Pending, JobInv
<1>5. p \in done
  BY <1>1, <1>3 DEF JobInv
<1>6. phase'[p] = "undo"
  BY <1>1, <1>2 DEF TypeOKUse
<1> QED
  BY <1>2, <1>3, <1>4, <1>5, <1>6

\* InitLost in terms of the invariant, now and after a step.
LEMMA LostIs ==
  ASSUME NEW k \in Key
  PROVE  /\ InitLost(k) <=>
              once[k] = "done" /\ runs[k] = 0 /\ \A p \in Proc : ~ Pending(p, k)
         /\ InitLost(k)' <=>
              once'[k] = "done" /\ runs'[k] = 0 /\ \A p \in Proc : ~ Pending(p, k)'
BY DEF InitLost, Running, Pending

(* No init is lost, but for the error path of Acquire after the end of a      *)
(* context: a spent Once belongs to an initialised container or to a caller   *)
(* that has still to initialise it (locker.go, acquire.go).                  *)
THEOREM NotLost == Spec => InitNotLost
<1> DEFINE Undone(p, k) ==
      /\ phase[p] = "locking" /\ phase'[p] = "undo"
      /\ k \in initPending[p]
      /\ \E j \in Key \ {k} : job[p][j] = "failed"
<1>1. ASSUME IInv, Next, NEW k \in Key, InitLost(k)', ~ InitLost(k)
      PROVE  \E p \in done : Undone(p, k)
  <2>1. /\ SInv /\ RunsInv(k) /\ DOMAIN runs = Key
        /\ once'[k] = "done" /\ runs'[k] = 0 /\ \A p \in Proc : ~ Pending(p, k)'
        /\ ~ (once[k] = "done" /\ runs[k] = 0 /\ \A p \in Proc : ~ Pending(p, k))
    BY <1>1, LostIs DEF IInv
  <2>2. ASSUME NEW p \in Proc, OnceStep(p), runs' = runs
        PROVE  Pending(p, k) /\ phase'[p] \in {"release", "undo"}
    BY <2>1, <2>2 DEF OnceStep, OnceAt
  <2>3. ASSUME NEW p \in Proc, LockerStep(p) PROVE \E q \in done : Undone(q, k)
    <3>1. OnceStep(p) /\ runs' = runs
      BY <2>1, <2>3, LockerStepInvariant, LockerStepKeeps
    <3>2. Pending(p, k) /\ phase'[p] \in {"release", "undo"} /\ JobInv(p, k)
      BY <2>1, <2>2, <3>1 DEF SInv
    <3>3. phase[p] \notin {"release", "undo"}
      BY <3>2 DEF Pending, JobInv
    <3>4. A!Undo(p)
      BY <2>1, <2>3, <3>2, <3>3, OnlyReleaseReleases, OnlyUndoUndoes
    <3> QED
      BY <2>1, <3>2, <3>4, UndoLoses
  <2>4. ASSUME NEW p \in Proc, Release(p) PROVE FALSE
    <3>1. /\ A!Release(p) /\ UNCHANGED <<lockVars, useVars, once, req, at>>
          /\ phase[p] = "held" /\ initPending[p] = {} /\ runs' = runs
      BY <2>4 DEF Release, A!Release
    <3>2. OnceStep(p) /\ ~ Pending(p, k)
      BY <2>1, <3>1, ReleaseInvariant DEF SInv, JobInv, Pending
    <3> QED
      BY <2>2, <3>1, <3>2
  <2>5. ASSUME NEW p \in Proc, NEW j \in Key, InitOK(p, j) \/ InitFail(p, j)
        PROVE  FALSE
    <3>1. PICK o \in BOOLEAN :
            /\ SetInitResult(p, j, o)
            /\ runs' = IF o THEN [runs EXCEPT ![j] = @ + 1] ELSE runs
      BY <2>5 DEF InitOK, InitFail
    <3>2. /\ phase[p] = "held" /\ j \in initPending[p]
          /\ UNCHANGED <<acquirerVars, req, at>>
          /\ initErr' = initErr \/ initErr' = initErr \cup {p}
      BY <2>5 DEF InitOK, InitFail, InitTurn
    <3>3. /\ once' = IF o THEN once ELSE [once EXCEPT ![j] = "fresh"]
          /\ Pending(p, j)
          /\ \A r \in Proc, i \in Key : r # p \/ i # j => (Pending(r, i)' <=> Pending(r, i))
      BY <2>1, <3>1, <3>2, SetInitResultInvariant
    <3>4. CASE j = k
      <4>1. runs[k] = 0 /\ TypeOKUse
        BY <2>1, <3>3, <3>4 DEF RunsInv, SInv
      <4> QED
        BY <2>1, <3>1, <3>3, <3>4, <4>1 DEF TypeOKUse
    <3>5. CASE j # k
      <4>1. once'[k] = once[k] /\ runs'[k] = runs[k]
        BY <2>1, <3>1, <3>3, <3>5 DEF SInv, TypeOKUse
      <4> QED
        BY <2>1, <3>3, <3>5, <4>1
    <3> QED
      BY <3>4, <3>5
  <2> QED
    BY <1>1, <2>3, <2>4, <2>5 DEF Next, Step, KeyStep, LockerStep
<1>2. IInv /\ [Next]_vars =>
        [\A k \in Key : InitLost(k)' /\ ~ InitLost(k) => \E p \in done : Undone(p, k)]_vars
  BY <1>1
<1> QED
  BY <1>2, Invariance, PTL DEF Spec, InitNotLost

-----------------------------------------------------------------------------
(* The refinement: what the callers see is ContainerUse.                     *)

\* A call that has all of its locks excludes, and is compatible with, the
\* users of its containers.
LEMMA HolderExcludes ==
  ASSUME IInv, NEW p \in Proc, phase[p] \in {"locking", "held"},
         \A k \in Key : job[p][k] \notin {"run", "failed"},
         NEW r \in Proc, r # p, Using(r)
  PROVE  /\ req[p] \in AllRequests
         /\ \A k \in DOMAIN req[p] \cap DOMAIN req[r] :
              ~ req[p][k].exclusive /\ ~ req[r][k].exclusive
         /\ \A k \in DOMAIN req[r] : k \notin initPending[p]
<1>1. /\ phase[r] = "held" /\ req[p] \in AllRequests /\ req[r] \in AllRequests
      /\ DOMAIN req[p] \subseteq Key /\ DOMAIN req[r] \subseteq Key
  BY RequestsTyped DEF Using, IInv, SInv, CallInv
<1>2. ASSUME NEW k \in DOMAIN req[r]
      PROVE  /\ k \in Key /\ st[r][k] \in {"ex", "sh"}
             /\ req[r][k].exclusive => st[r][k] = "ex"
  <2>1. k \in Key /\ job[r][k] # "off" /\ JobInv(r, k) /\ job[r][k] \in A!Job
    BY <1>1 DEF IInv, SInv, CallInv, TypeOKUse
  <2>2. job[r][k] = "locked"
    BY <1>1, <2>1 DEF JobInv, A!Job
  <2> QED
    BY <2>1, <2>2 DEF JobInv, LockOf
<1>3. ASSUME NEW k \in DOMAIN req[p]
      PROVE  /\ k \in Key /\ st[p][k] \in {"ex", "sh"}
             /\ req[p][k].exclusive => st[p][k] = "ex"
  <2>1. k \in Key /\ job[p][k] # "off" /\ JobInv(p, k) /\ job[p][k] \in A!Job
    BY <1>1 DEF IInv, SInv, CallInv, TypeOKUse
  <2>2. job[p][k] = "locked"
    BY <2>1 DEF A!Job
  <2> QED
    BY <2>1, <2>2 DEF JobInv, LockOf
<1>4. ASSUME NEW k \in Key, st[p][k] \in {"ex", "sh"}, st[r][k] \in {"ex", "sh"}
      PROVE  st[p][k] # "ex" /\ st[r][k] # "ex"
  BY <1>4, Excludes DEF IInv
<1>5. \A k \in DOMAIN req[p] \cap DOMAIN req[r] :
        ~ req[p][k].exclusive /\ ~ req[r][k].exclusive
  BY <1>2, <1>3, <1>4
<1>6. ASSUME NEW k \in DOMAIN req[r], k \in initPending[p] PROVE FALSE
  <2>1. st[p][k] = "ex"
    BY <1>2, <1>6 DEF IInv, SInv, JobInv, LockOf
  <2> QED
    BY <1>2, <1>4, <2>1
<1> QED
  BY <1>1, <1>5, <1>6

\* Such a call may be given its containers.
LEMMA MayGrant ==
  ASSUME IInv, NEW p \in Proc, phase[p] \in {"locking", "held"},
         \A k \in Key : job[p][k] \notin {"run", "failed"},
         ~ Using(p), Use' = [Use EXCEPT ![p] = req[p]]
  PROVE  CU!Grant(p)
<1>1. Use[p] = << >>
  BY DEF Use
<1>2. req[p] \in AllRequests
  BY DEF IInv, SInv, CallInv
<1>3. ASSUME NEW r \in Proc \ {p} PROVE CU!Compatible(req[p], Use[r])
  <2>1. CASE Using(r)
    <3>1. Use[r] = req[r]
      BY <2>1 DEF Use
    <3> QED
      BY <2>1, <3>1, HolderExcludes DEF CU!Compatible
  <2>2. CASE ~ Using(r)
    <3>1. Use[r] = << >> /\ DOMAIN << >> = {}
      BY <2>2 DEF Use
    <3> QED
      BY <3>1 DEF CU!Compatible
  <2> QED
    BY <2>1, <2>2
<1> QED
  BY <1>1, <1>2, <1>3 DEF CU!Grant, AllRequests

\* A step of p is about p's call.
CallsKept(p) ==
  \A r \in Proc : r # p =>
    /\ phase'[r] = phase[r] /\ req'[r] = req[r]
    /\ initPending'[r] = initPending[r]
    /\ r \in initErr' <=> r \in initErr

LEMMA StepKeepsCalls ==
  ASSUME SInv, NEW p \in Proc, Call(p) \/ CtxDone(p) \/ Step(p)
  PROVE  CallsKept(p)
<1>1. TypeOKUse
  BY DEF SInv
<1>2. CASE Call(p)
  BY <1>1, <1>2 DEF TypeOKUse, CallsKept, Call, A!Accept, useVars
<1>3. CASE CtxDone(p)
  BY <1>3 DEF CallsKept, CtxDone, A!CtxDone, useVars
<1>4. CASE Queue(p)
  BY <1>1, <1>4 DEF TypeOKUse, CallsKept, Queue, A!GiveUp, A!Start, A!Acquired,
                    A!Undo, useVars
<1>5. CASE Release(p) \/ Return(p)
  BY <1>1, <1>5 DEF TypeOKUse, CallsKept, Release, Return, A!Release, A!Return, useVars
<1>6. ASSUME NEW k \in Key,
             DoOnce(p, k) \/ SkipOnce(p, k) \/ OnceDone(p, k) \/ PlainLock(p, k)
      PROVE  CallsKept(p)
  BY <1>6 DEF CallsKept, DoOnce, SkipOnce, OnceDone, PlainLock, acquirerVars, useVars
<1>7. ASSUME NEW k \in Key, InitLocked(p, k) \/ PlainLocked(p, k)
      PROVE  CallsKept(p)
  BY <1>1, <1>7 DEF TypeOKUse, CallsKept, InitLocked, PlainLocked, A!NotifyLock
<1>8. ASSUME NEW k \in Key, LockError(p, k) \/ UnlockKey(p, k)
      PROVE  CallsKept(p)
  BY <1>8 DEF CallsKept, LockError, UnlockKey, A!LockFailed, A!UnlockKey, useVars
<1>9. ASSUME NEW k \in Key, InitOK(p, k) \/ InitFail(p, k)
      PROVE  CallsKept(p)
  BY <1>1, <1>9 DEF TypeOKUse, CallsKept, InitOK, InitFail, SetInitResult, acquirerVars
<1> QED
  BY <1>2, <1>3, <1>4, <1>5, <1>6, <1>7, <1>8, <1>9 DEF Step, KeyStep

\* So it changes what p uses, if it changes what is used.
LEMMA UseStep ==
  ASSUME NEW p \in Proc, CallsKept(p)
  PROVE  /\ Using(p)' => Use' = [Use EXCEPT ![p] = req'[p]]
         /\ ~ Using(p)' => Use' = [Use EXCEPT ![p] = << >>]
         /\ ~ Using(p) /\ ~ Using(p)' => Use' = Use
<1>1. \A r \in Proc : r # p => Use'[r] = Use[r]
  BY DEF CallsKept, Use, Using
<1>2. Use'[p] = IF Using(p)' THEN req'[p] ELSE << >>
  BY DEF Use
<1>3. Use = [r \in Proc |-> Use[r]] /\ Use' = [r \in Proc |-> Use'[r]]
  BY DEF Use
<1>4. ~ Using(p) => Use[p] = << >>
  BY DEF Use
<1> QED
  BY <1>1, <1>2, <1>3, <1>4

\* eg.Wait returns nil: the containers are given, unless some of them have still
\* to be initialised.
LEMMA AcquiredRefines ==
  ASSUME IInv, NEW p \in Proc, Queue(p), A!Acquired(p)
  PROVE  CU!Acquire(p) \/ UNCHANGED CU!vars
<1>1. /\ phase[p] = "locking" /\ phase'[p] = "held"
      /\ \A k \in Key : job[p][k] \notin {"run", "failed"}
      /\ UNCHANGED <<req, initPending, initErr, runs>>
  BY DEF IInv, SInv, TypeOKUse, Queue, A!Acquired, A!Waited, useVars
<1>2. CallsKept(p) /\ ~ Using(p)
  BY <1>1, StepKeepsCalls DEF IInv, Step, Using
<1>3. CASE Using(p)'
  <2>1. Use' = [Use EXCEPT ![p] = req[p]]
    BY <1>1, <1>2, <1>3, UseStep
  <2>2. CU!Grant(p)
    BY <1>1, <1>2, <2>1, MayGrant
  <2> QED
    BY <1>1, <2>2 DEF CU!Acquire
<1>4. CASE ~ Using(p)'
  <2>1. Use' = Use
    BY <1>2, <1>4, UseStep
  <2> QED
    BY <1>1, <2>1 DEF CU!vars
<1> QED
  BY <1>3, <1>4

\* An init succeeds: the last one is what the call waited for.
LEMMA InitOKRefines ==
  ASSUME IInv, NEW p \in Proc, NEW k \in Key, InitOK(p, k)
  PROVE  CU!Initialise(p, k)
<1>1. /\ phase[p] = "held" /\ k \in initPending[p]
      /\ runs' = [runs EXCEPT ![k] = @ + 1]
      /\ UNCHANGED <<phase, initErr, req>>
  BY DEF InitOK, InitTurn, acquirerVars
<1>2. CallsKept(p) /\ ~ Using(p)
  BY <1>1, StepKeepsCalls DEF IInv, Step, KeyStep, Using
<1>3. runs[k] = 0
  BY <1>1 DEF IInv, RunsInv, Pending
<1>4. runs' = [runs EXCEPT ![k] = 1]
  BY <1>1, <1>3
<1>5. \A j \in Key : job[p][j] \notin {"run", "failed"}
  BY <1>1 DEF IInv, SInv, JobInv
<1>6. ASSUME NEW r \in Proc PROVE k \notin DOMAIN Use[r]
  <2>1. CASE Using(r)
    <3>1. Use[r] = req[r] /\ r # p
      BY <1>2, <2>1 DEF Use
    <3> QED
      BY <1>1, <1>5, <2>1, <3>1, HolderExcludes
  <2>2. CASE ~ Using(r)
    <3>1. Use[r] = << >> /\ DOMAIN << >> = {}
      BY <2>2 DEF Use
    <3> QED
      BY <3>1
  <2> QED
    BY <2>1, <2>2
<1>7. CU!Grant(p) \/ UNCHANGED Use
  <2>1. CASE Using(p)'
    <3>1. Use' = [Use EXCEPT ![p] = req[p]]
      BY <1>1, <1>2, <2>1, UseStep
    <3> QED
      BY <1>1, <1>2, <1>5, <3>1, MayGrant
  <2>2. CASE ~ Using(p)'
    BY <1>2, <2>2, UseStep
  <2> QED
    BY <2>1, <2>2
<1> QED
  BY <1>3, <1>4, <1>6, <1>7 DEF CU!Initialise

LEMMA ReleaseRefines ==
  ASSUME IInv, NEW p \in Proc, Release(p)
  PROVE  CU!Release(p)
<1>1. phase'[p] = "release" /\ UNCHANGED runs
  BY DEF IInv, SInv, TypeOKUse, Release, A!Release
<1>2. CallsKept(p) /\ ~ Using(p)'
  BY <1>1, StepKeepsCalls DEF IInv, Step, Using
<1>3. Use' = [Use EXCEPT ![p] = << >>]
  BY <1>2, UseStep
<1> QED
  BY <1>1, <1>3 DEF CU!Release

\* Nothing else is seen: the queue, the locks, the Onces, and failures.
LEMMA RestUnseen ==
  ASSUME IInv, NEW p \in Proc,
         \/ Call(p) \/ Return(p)
         \/ Queue(p) /\ (A!GiveUp(p) \/ A!Start(p) \/ A!Undo(p))
         \/ \E k \in Key :
              \/ DoOnce(p, k) \/ SkipOnce(p, k) \/ OnceDone(p, k)
              \/ PlainLock(p, k) \/ InitLocked(p, k) \/ PlainLocked(p, k)
              \/ LockError(p, k) \/ InitFail(p, k) \/ UnlockKey(p, k)
  PROVE  UNCHANGED CU!vars
<1>1. TypeOKUse /\ \A k \in Key : JobInv(p, k)
  BY DEF IInv, SInv
<1>2. CallsKept(p)
  BY StepKeepsCalls DEF IInv, Step, KeyStep
<1>3. ~ Using(p) /\ ~ Using(p)' /\ UNCHANGED runs
  <2>1. CASE Call(p)
    BY <1>1, <2>1 DEF TypeOKUse, Using, Call, A!Accept
  <2>2. CASE Return(p)
    BY <1>1, <2>2 DEF TypeOKUse, Using, Return, A!Return
  <2>3. CASE Queue(p) /\ (A!GiveUp(p) \/ A!Start(p) \/ A!Undo(p))
    BY <1>1, <2>3 DEF TypeOKUse, Using, Queue, A!GiveUp, A!Start, A!Undo, A!Waited
  <2>4. ASSUME NEW k \in Key,
               DoOnce(p, k) \/ SkipOnce(p, k) \/ OnceDone(p, k) \/ PlainLock(p, k)
        PROVE  ~ Using(p) /\ ~ Using(p)' /\ UNCHANGED runs
    <3>1. job[p][k] = "run" /\ phase' = phase /\ runs' = runs
      BY <2>4 DEF DoOnce, SkipOnce, OnceDone, PlainLock, Running, acquirerVars
    <3> QED
      BY <1>1, <3>1 DEF JobInv, Using
  <2>5. ASSUME NEW k \in Key, InitLocked(p, k) \/ PlainLocked(p, k) \/ LockError(p, k)
        PROVE  ~ Using(p) /\ ~ Using(p)' /\ UNCHANGED runs
    <3>1. job[p][k] = "run" /\ phase' = phase /\ runs' = runs
      BY <2>5 DEF InitLocked, PlainLocked, LockError, Running, A!NotifyLock, A!LockFailed
    <3> QED
      BY <1>1, <3>1 DEF JobInv, Using
  <2>6. ASSUME NEW k \in Key, InitFail(p, k)
        PROVE  ~ Using(p) /\ ~ Using(p)' /\ UNCHANGED runs
    BY <2>6 DEF InitFail, InitTurn, Using
  <2>7. ASSUME NEW k \in Key, UnlockKey(p, k)
        PROVE  ~ Using(p) /\ ~ Using(p)' /\ UNCHANGED runs
    BY <2>7 DEF UnlockKey, A!UnlockKey, Using
  <2> QED
    BY <2>1, <2>2, <2>3, <2>4, <2>5, <2>6, <2>7
<1> QED
  BY <1>2, <1>3, UseStep DEF CU!vars

LEMMA SameUse ==
  ASSUME UNCHANGED <<phase, req, useVars, runs>>
  PROVE  UNCHANGED CU!vars
BY DEF CU!vars, Use, Using, useVars

(* LockForContainerUse implements ContainerUse: all the containers of a call  *)
(* are given at once, to users that are compatible, and taken back at once,   *)
(* and an init function succeeds once per container and while nobody uses it  *)
(* (control.go, locker.go).                                                  *)
THEOREM Refinement == Spec => ImplementsContainerUse
<1>1. Init => CU!Init
  <2> SUFFICES ASSUME Init PROVE CU!Init
    OBVIOUS
  <2>1. \A p \in Proc : ~ Using(p)
    BY DEF Init, A!Init, Using
  <2> QED
    BY <2>1 DEF Init, CU!Init, Use
<1>2. ASSUME IInv, [Next]_vars PROVE [CU!Next]_(CU!vars)
  <2>1. ASSUME NEW p \in Proc, Queue(p) PROVE [CU!Next]_(CU!vars)
    <3>1. A!GiveUp(p) \/ A!Start(p) \/ A!Acquired(p) \/ A!Undo(p)
      BY <2>1 DEF Queue
    <3> QED
      BY <1>2, <2>1, <3>1, AcquiredRefines, RestUnseen DEF CU!Next
  <2>2. ASSUME NEW p \in Proc, NEW k \in Key, KeyStep(p, k)
        PROVE  [CU!Next]_(CU!vars)
    <3>1. InitOK(p, k) => CU!Next
      BY <1>2, InitOKRefines DEF CU!Next
    <3>2. ~ InitOK(p, k) => UNCHANGED CU!vars
      BY <1>2, <2>2, RestUnseen DEF KeyStep
    <3> QED
      BY <3>1, <3>2
  <2>3. ASSUME NEW p \in Proc, Release(p) PROVE [CU!Next]_(CU!vars)
    BY <1>2, <2>3, ReleaseRefines DEF CU!Next
  <2>4. ASSUME NEW p \in Proc, Call(p) \/ Return(p) PROVE [CU!Next]_(CU!vars)
    BY <1>2, <2>4, RestUnseen
  <2>5. ASSUME NEW p \in Proc, CtxDone(p) PROVE [CU!Next]_(CU!vars)
    BY <2>5, SameUse DEF CtxDone, A!CtxDone
  <2>6. CASE UNCHANGED vars
    BY <2>6, SameUse DEF vars, acquirerVars
  <2> QED
    BY <1>2, <2>1, <2>2, <2>3, <2>4, <2>5, <2>6 DEF Next, Step
<1> QED
  BY <1>1, <1>2, Invariance, PTL DEF Spec, ImplementsContainerUse, CU!Spec

-----------------------------------------------------------------------------
(* A Locker is an Acquirer and a KeyedLock: a step of a call is a step of     *)
(* each, or leaves it alone.                                                 *)

LEMMA AcquirerStep ==
  ASSUME NEW p \in Proc, Call(p) \/ CtxDone(p) \/ Step(p)
  PROVE  A!Next \/ UNCHANGED acquirerVars
<1>1. CASE Call(p)
  <2>1. PICK r \in Requests[p] : A!Accept(p, DOMAIN r)
    BY <1>1 DEF Call
  <2>2. DOMAIN r \in SUBSET Key /\ DOMAIN r # {}
    BY RequestsAssumption
  <2> QED
    BY <2>1, <2>2 DEF A!Next
<1>2. CASE CtxDone(p)
  BY <1>2 DEF CtxDone, A!Next
<1>3. CASE Queue(p) \/ Release(p) \/ Return(p)
  BY <1>3 DEF Queue, Release, Return, A!Next, A!Step
<1>4. ASSUME NEW k \in Key,
             DoOnce(p, k) \/ SkipOnce(p, k) \/ OnceDone(p, k) \/ PlainLock(p, k)
      PROVE  UNCHANGED acquirerVars
  BY <1>4 DEF DoOnce, SkipOnce, OnceDone, PlainLock
<1>5. ASSUME NEW k \in Key, InitOK(p, k) \/ InitFail(p, k)
      PROVE  UNCHANGED acquirerVars
  BY <1>5 DEF InitOK, InitFail
<1>6. ASSUME NEW k \in Key,
             \/ InitLocked(p, k) \/ PlainLocked(p, k) \/ LockError(p, k)
             \/ UnlockKey(p, k)
      PROVE  A!Next
  BY <1>6 DEF InitLocked, PlainLocked, LockError, UnlockKey, A!Next, A!Step
<1> QED
  BY <1>1, <1>2, <1>3, <1>4, <1>5, <1>6 DEF Step, KeyStep

LEMMA KeyedLockStep ==
  ASSUME NEW p \in Proc, Call(p) \/ CtxDone(p) \/ Step(p)
  PROVE  KL!Next \/ UNCHANGED lockVars
<1>1. CASE Call(p) \/ CtxDone(p) \/ Queue(p) \/ Release(p) \/ Return(p)
  BY <1>1 DEF Call, CtxDone, Queue, Release, Return
<1>2. ASSUME NEW k \in Key, DoOnce(p, k) \/ PlainLock(p, k) \/ LockError(p, k)
      PROVE  KL!Next
  BY <1>2 DEF DoOnce, PlainLock, LockError, KL!Next
<1>3. ASSUME NEW k \in Key, InitOK(p, k) \/ InitFail(p, k) \/ UnlockKey(p, k)
      PROVE  KL!Next \/ UNCHANGED lockVars
  BY <1>3 DEF InitOK, InitFail, SetInitResult, UnlockKey, KL!Next
<1>4. ASSUME NEW k \in Key,
             \/ SkipOnce(p, k) \/ OnceDone(p, k)
             \/ InitLocked(p, k) \/ PlainLocked(p, k)
      PROVE  UNCHANGED lockVars
  BY <1>4 DEF SkipOnce, OnceDone, InitLocked, PlainLocked
<1> QED
  BY <1>1, <1>2, <1>3, <1>4 DEF Step, KeyStep

(* What is proved of acquire.go and of keyedlock.go alone holds of them in a  *)
(* Locker: each call of AcquireContainerLock, and of what it returns, is a     *)
(* sequence of their steps, so that the calls of a Locker are served in order   *)
(* of arrival, no waiter is forgotten and no token lost (locker.go:165).        *)
THEOREM Components == Spec => A!Spec /\ KL!Spec
<1>1. Init => A!Init /\ KL!Init
  BY DEF Init
<1>2. [Next]_vars => [A!Next]_(A!vars)
  BY AcquirerStep DEF Next, vars, acquirerVars, A!vars
<1>3. [Next]_vars => [KL!Next]_(KL!vars)
  BY KeyedLockStep DEF Next, vars, lockVars, KL!vars
<1> QED
  BY <1>1, <1>2, <1>3, PTL DEF Spec, A!Spec, KL!Spec

AP == INSTANCE AcquirerProofs

\* AcquirerProofs is about the Acquirer of a Locker.
LEMMA AcquirerSame ==
  (A!Init => AP!Init) /\ ([A!Next]_(A!vars) => [AP!Next]_(AP!vars))
<1>1. A!Init => AP!Init
  BY DEF A!Init, AP!Init, A!NoJob, AP!NoJob
<1>2. [A!Next]_(A!vars) => [AP!Next]_(AP!vars)
  <2>1. \A q, s, c : A!Proceeding(q, s, c) = AP!Proceeding(q, s, c)
    BY DEF A!Proceeding, AP!Proceeding, A!Unhindered, AP!Unhindered, A!Overlap, AP!Overlap
  <2>2. \A q, p : A!Without(q, p) = AP!Without(q, p)
    BY DEF A!Without, AP!Without, A!RemoveAt, AP!RemoveAt
  <2>3. ASSUME NEW p \in Proc, NEW keys \in SUBSET Key, A!Accept(p, keys)
        PROVE  AP!Accept(p, keys)
    BY <2>1, <2>3 DEF A!Accept, AP!Accept, A!accept, AP!accept
  <2>4. ASSUME NEW p \in Proc, A!CtxDone(p) PROVE AP!CtxDone(p)
    BY <2>4 DEF A!CtxDone, AP!CtxDone
  <2>5. ASSUME NEW p \in Proc, A!Step(p) PROVE AP!Step(p)
    <3>1. CASE A!GiveUp(p) \/ A!Start(p) \/ A!Acquired(p) \/ A!Release(p) \/ A!Return(p)
      BY <3>1 DEF AP!Step, A!GiveUp, AP!GiveUp, A!Start, AP!Start,
                  A!Acquired, AP!Acquired,
                  A!Waited, AP!Waited, A!Release, AP!Release, A!Return, AP!Return,
                  A!NoJob, AP!NoJob
    <3>2. CASE A!Undo(p)
      BY <2>1, <2>2, <3>2 DEF AP!Step, A!Undo, AP!Undo, A!Waited, AP!Waited,
                              A!remove, AP!remove
    <3>3. ASSUME NEW k \in Key, A!NotifyLock(p, k) PROVE AP!NotifyLock(p, k)
      BY <2>1, <2>2, <3>3 DEF A!NotifyLock, AP!NotifyLock, A!removeLockedKey,
                              AP!removeLockedKey
    <3>4. ASSUME NEW k \in Key, A!LockFailed(p, k) \/ A!UnlockKey(p, k)
          PROVE  AP!LockFailed(p, k) \/ AP!UnlockKey(p, k)
      BY <3>4 DEF A!LockFailed, AP!LockFailed, A!GroupDone, AP!GroupDone,
                  A!UnlockKey, AP!UnlockKey
    <3> QED
      BY <2>5, <3>1, <3>2, <3>3, <3>4 DEF A!Step, AP!Step
  <2> QED
    BY <2>3, <2>4, <2>5 DEF A!Next, AP!Next, A!vars, AP!vars
<1> QED
  BY <1>1, <1>2

\* The theorems of AcquirerProofs, for the Acquirer of a Locker.
LEMMA AcquirerOrder ==
  A!Spec => [](A!OneLockerPerKey /\ A!ArrivalOrder /\ A!NoLostProceed)
<1>1. AP!Spec => [](AP!OneLockerPerKey /\ AP!ArrivalOrder /\ AP!NoLostProceed)
  <2>1. AP!CancelableAssumption
    BY LockAssumption DEF AP!CancelableAssumption
  <2> QED
    BY <2>1, AP!OneLocker, AP!Order, AP!Progress, PTL
<1>2. AP!OneLockerPerKey /\ AP!ArrivalOrder => A!OneLockerPerKey /\ A!ArrivalOrder
  BY DEF A!OneLockerPerKey, AP!OneLockerPerKey, A!ArrivalOrder, AP!ArrivalOrder
<1>3. AP!NoLostProceed => A!NoLostProceed
  BY DEF A!NoLostProceed, AP!NoLostProceed, A!Unhindered, AP!Unhindered,
         A!Overlap, AP!Overlap
<1> QED
  BY <1>1, <1>2, <1>3, AcquirerSame, PTL DEF A!Spec, AP!Spec

(* The queue is what makes the calls of a Locker wait for each other: for a    *)
(* container one call at a time has its Lock running, in order of arrival, and *)
(* none that nothing holds up is forgotten (acquire.go:29).                    *)
THEOREM Order == Spec => [](A!OneLockerPerKey /\ A!ArrivalOrder /\ A!NoLostProceed)
BY Components, AcquirerOrder, PTL

\* The theorems of KeyedLockProofs, for the locks of a Locker.
LEMMA LocksImplied == SInv => KL!Exclusion /\ KL!TokensAccounted /\ KL!NoLostWakeup
<1> SUFFICES ASSUME SInv PROVE KL!Exclusion /\ KL!TokensAccounted /\ KL!NoLostWakeup
  OBVIOUS
<1>1. KP!Exclusion /\ KP!TokensAccounted /\ KP!NoLostWakeup
  BY Finite, KP!InvImplies DEF SInv
<1>2. KL!Exclusion
  BY <1>1 DEF KL!Exclusion, KP!Exclusion, KL!Hold, KP!Hold
<1>3. KL!TokensAccounted
  BY <1>1 DEF KL!TokensAccounted, KP!TokensAccounted, KL!Writers, KP!Writers,
              KL!Readers, KP!Readers, KL!Cardinality, KP!Cardinality
<1>4. KL!NoLostWakeup
  BY <1>1 DEF KL!NoLostWakeup, KP!NoLostWakeup, KL!Fits, KP!Fits
<1> QED
  BY <1>2, <1>3, <1>4

(* The semaphores under the calls of a Locker: a writer is alone, no token is  *)
(* lost, and none is free beside a waiter that could have it (keyedlock.go).   *)
THEOREM Locks == Spec => [](KL!Exclusion /\ KL!TokensAccounted /\ KL!NoLostWakeup)
<1>1. IInv => KL!Exclusion /\ KL!TokensAccounted /\ KL!NoLostWakeup
  BY LocksImplied DEF IInv
<1> QED
  BY <1>1, Invariance, PTL

-----------------------------------------------------------------------------
(* Types. *)

\* The params of a call are one of its caller's; runs counts.
ReqInv ==
  /\ \A p \in Proc : req[p] \in Requests[p] \cup {<< >>}
  /\ initErr \subseteq Proc
  /\ runs \in [Key -> Nat]

LEMMA ReqStep ==
  ASSUME TypeOKUse, ReqInv, NEW p \in Proc, LockerStep(p)
  PROVE  ReqInv'
<1>1. /\ initErr' \subseteq initErr
      /\ \/ req' = req
         \/ \E r \in Requests[p] \cup {<< >>} : req' = [req EXCEPT ![p] = r]
  <2>1. CASE Call(p)
    BY <2>1 DEF Call, useVars
  <2>2. CASE CtxDone(p) \/ Queue(p) \/ Return(p)
    BY <2>2 DEF CtxDone, Queue, Return, useVars
  <2>3. ASSUME NEW k \in Key,
               DoOnce(p, k) \/ SkipOnce(p, k) \/ OnceDone(p, k) \/ PlainLock(p, k)
        PROVE  UNCHANGED <<req, initErr>>
    BY <2>3 DEF DoOnce, SkipOnce, OnceDone, PlainLock, useVars
  <2>4. ASSUME NEW k \in Key,
               \/ InitLocked(p, k) \/ PlainLocked(p, k) \/ LockError(p, k)
               \/ UnlockKey(p, k)
        PROVE  UNCHANGED <<req, initErr>>
    BY <2>4 DEF InitLocked, PlainLocked, LockError, UnlockKey, useVars
  <2> QED
    BY <2>1, <2>2, <2>3, <2>4 DEF LockerStep
<1>2. runs' = runs
  BY LockerStepKeeps
<1> QED
  BY <1>1, <1>2 DEF ReqInv, TypeOKUse

\* What the theorems of AcquirerProofs and KeyedLockProofs say of types.
LEMMA AcquirerTyped == A!Spec => []A!TypeOK
<1>1. AP!CancelableAssumption
  BY LockAssumption DEF AP!CancelableAssumption
<1>2. AP!Spec => []AP!TypeOK
  BY <1>1, AP!TypeCorrect
<1>3. AP!TypeOK => A!TypeOK
  BY DEF A!TypeOK, AP!TypeOK, A!Phase, AP!Phase, A!Job, AP!Job
<1> QED
  BY <1>2, <1>3, AcquirerSame, PTL DEF A!Spec, AP!Spec

LEMMA Typed == SInv /\ ReqInv /\ A!TypeOK => TypeOK
<1> SUFFICES ASSUME SInv, ReqInv, A!TypeOK PROVE TypeOK
  OBVIOUS
<1>1. KL!TypeOK
  <2>1. KP!TypeOK
    BY DEF SInv, KP!IInv
  <2> QED
    BY <2>1 DEF KL!TypeOK, KP!TypeOK, KL!States, KP!States, KL!Want, KP!Want,
                KL!Hold, KP!Hold
<1> QED
  BY <1>1 DEF TypeOK, SInv, TypeOKUse, ReqInv

(* The queue, the locks, the Onces and the calls of a Locker are well typed.  *)
THEOREM TypeCorrect == Spec => []TypeOK
<1>1. Init => ReqInv
  BY DEF Init, ReqInv
<1>2. IInv /\ ReqInv /\ [Next]_vars => ReqInv'
  <2> SUFFICES ASSUME IInv, ReqInv, [Next]_vars PROVE ReqInv'
    OBVIOUS
  <2>1. TypeOKUse
    BY DEF IInv, SInv
  <2>2. ASSUME NEW p \in Proc, LockerStep(p) PROVE ReqInv'
    BY <2>1, <2>2, ReqStep
  <2>3. ASSUME NEW p \in Proc,
               Release(p) \/ \E k \in Key : InitOK(p, k) \/ InitFail(p, k)
        PROVE  ReqInv'
    <3>1. CASE Release(p)
      BY <3>1 DEF Release, useVars, ReqInv
    <3>2. ASSUME NEW k \in Key, InitOK(p, k) PROVE ReqInv'
      BY <3>2 DEF InitOK, useVars, ReqInv
    <3>3. ASSUME NEW k \in Key, InitFail(p, k) PROVE ReqInv'
      BY <3>3 DEF InitFail, useVars, ReqInv
    <3> QED
      BY <2>3, <3>1, <3>2, <3>3
  <2>4. CASE UNCHANGED vars
    BY <2>4 DEF vars, useVars, ReqInv
  <2> QED
    BY <2>2, <2>3, <2>4 DEF Next, Step, KeyStep, LockerStep
<1>3. IInv => SInv
  BY DEF IInv
<1> QED
  BY <1>1, <1>2, <1>3, Invariance, Components, AcquirerTyped, Typed, PTL DEF Spec

=============================================================================
