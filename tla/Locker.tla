------------------------------- MODULE Locker -------------------------------
(***************************************************************************)
(* internal/exclusion/locker.go and control.go: the use of containers.     *)
(*                                                                         *)
(* LockForContainerUse takes the locks of the containers a test wants,     *)
(* exclusive or shared, and runs the init functions of those that nobody   *)
(* initialised yet, under an exclusive lock that it then downgrades.  It   *)
(* composes Acquirer (the order of the calls), KeyedLock (containerUse)    *)
(* and, for each container, a oncewait.Once (external: Do runs its function *)
(* for the first caller and makes the others wait until it returned, then   *)
(* does nothing; Refresh makes it new again).                              *)
(*                                                                         *)
(* A process is a caller of LockForContainerUse, and its goroutine for k    *)
(* is the process of the KeyedLock for k.  Every action is a step of p's    *)
(* call or of one of its goroutines.                                        *)
(***************************************************************************)
EXTENDS Integers, Sequences, FiniteSets

CONSTANTS Proc,        \* callers of LockForContainerUse
          Key,         \* names of containers
          max,         \* tokens of a semaphore
          Cancelable,  \* the callers whose context may end
          Failing,     \* the callers whose init functions may fail
          Requests     \* Requests[p]: the params a call of p may have

Param == [exclusive : BOOLEAN, init : BOOLEAN]

ASSUME RequestsAssumption ==
  /\ DOMAIN Requests = Proc
  /\ \A p \in Proc : \A r \in Requests[p] :
       \E S \in SUBSET Key : S # {} /\ r \in [S -> Param]

ASSUME FailingAssumption == Failing \subseteq Proc

\* What Acquirer and KeyedLock assume of their constants.
ASSUME LockAssumption ==
  /\ IsFiniteSet(Proc)
  /\ max \in Nat \ {0}
  /\ Cancelable \subseteq Proc

VARIABLES queue, set, proceed, phase, job, done,  \* of Acquirer
          st, cur, waiters,                       \* of KeyedLock
          once,        \* once[k]: the Once of container k
          req,         \* req[p]: the params of p's call
          at,          \* at[p][k]: where p's Lock function for k is
          initPending, \* initPending[p]: containers p has still to initialise
          downgraded,  \* downgraded[p]: containers p locked with downgraded = 1
          initErr,     \* the callers whose init failed
          runs         \* runs[k]: history, the inits of k that succeeded

A == INSTANCE Acquirer
KL == INSTANCE KeyedLock

acquirerVars == <<queue, set, proceed, phase, job, done>>
lockVars == <<st, cur, waiters>>
useVars == <<initPending, downgraded, initErr>>
vars == <<acquirerVars, lockVars, useVars, once, req, at, runs>>

At == {"start", "once", "plain", "wait", "got"}

AllStart == [k \in Key |-> "start"]

-----------------------------------------------------------------------------
(* LockForContainerUse up to Acquire, and the steps of Acquire that only     *)
(* concern the queue.                                                        *)

Call(p) ==
  \E r \in Requests[p] :
    /\ A!Accept(p, DOMAIN r)
    /\ req' = [req EXCEPT ![p] = r]
    /\ UNCHANGED <<lockVars, useVars, once, at, runs>>

CtxDone(p) ==
  /\ A!CtxDone(p)
  /\ UNCHANGED <<lockVars, useVars, once, req, at, runs>>

Queue(p) ==
  /\ A!GiveUp(p) \/ A!Start(p) \/ A!Acquired(p) \/ A!Undo(p)
  /\ UNCHANGED <<lockVars, useVars, once, req, at, runs>>

-----------------------------------------------------------------------------
(* The Lock function of an AcquireContainerLockEntry: the goroutine of p for *)
(* k.                                                                        *)

Running(p, k, where) == job[p][k] = "run" /\ at[p][k] = where

Goto(p, k, where) == at' = [at EXCEPT ![p][k] = where]

\* The first caller of once.Do: its function asks for an exclusive lock.
DoOnce(p, k) ==
  /\ Running(p, k, "start") /\ req[p][k].init /\ once[k] = "fresh"
  /\ once' = [once EXCEPT ![k] = "running"]
  /\ KL!Lock(p, k)
  /\ Goto(p, k, "once")
  /\ UNCHANGED <<acquirerVars, useVars, req, runs>>

\* A later caller of once.Do, once the function of the first has returned.
SkipOnce(p, k) ==
  /\ Running(p, k, "start") /\ req[p][k].init /\ once[k] = "done"
  /\ Goto(p, k, "plain")
  /\ UNCHANGED <<acquirerVars, lockVars, useVars, once, req, runs>>

\* The function of once.Do got the lock and returns: initAcquired.
OnceDone(p, k) ==
  /\ Running(p, k, "once") /\ st[p][k] = "ex"
  /\ once' = [once EXCEPT ![k] = "done"]
  /\ Goto(p, k, "got")
  /\ UNCHANGED <<acquirerVars, lockVars, useVars, req, runs>>

\* No init, or somebody else's: the lock as it was asked for.
PlainLock(p, k) ==
  /\ \/ Running(p, k, "start") /\ ~ req[p][k].init
     \/ Running(p, k, "plain")
  /\ IF req[p][k].exclusive THEN KL!Lock(p, k) ELSE KL!RLock(p, k)
  /\ Goto(p, k, "wait")
  /\ UNCHANGED <<acquirerVars, useVars, once, req, runs>>

\* Mutant of InitLocked: a lock to be shared is downgraded before init.
InitLockedShared(p, k) ==
  /\ Running(p, k, "got")
  /\ A!NotifyLock(p, k)
  /\ IF req[p][k].exclusive
     THEN UNCHANGED <<lockVars, downgraded>>
     ELSE /\ KL!Downgrade(p, k)
          /\ downgraded' = [downgraded EXCEPT ![p] = @ \cup {k}]
  /\ initPending' = [initPending EXCEPT ![p] = @ \cup {k}]
  /\ UNCHANGED <<initErr, once, req, at, runs>>

\* The lock for initialising is there: notifyLock, and a lock with init set.
InitLocked(p, k) ==
  /\ Running(p, k, "got")
  /\ A!NotifyLock(p, k)
  /\ initPending' = [initPending EXCEPT ![p] = @ \cup {k}]
  /\ UNCHANGED <<lockVars, downgraded, initErr, once, req, at, runs>>

\* The plain lock is there: notifyLock, and a lock without init.
PlainLocked(p, k) ==
  /\ Running(p, k, "wait") /\ st[p][k] \in {"ex", "sh"}
  /\ A!NotifyLock(p, k)
  /\ downgraded' = IF req[p][k].exclusive THEN downgraded
                   ELSE [downgraded EXCEPT ![p] = @ \cup {k}]
  /\ UNCHANGED <<lockVars, initPending, initErr, once, req, at, runs>>

\* A blocked Lock or RLock ends with its context; within once.Do, Refresh.
LockError(p, k) ==
  /\ Running(p, k, "once") \/ Running(p, k, "wait")
  /\ KL!Cancel(p, k)
  /\ A!LockFailed(p, k)
  /\ once' = IF at[p][k] = "once" THEN [once EXCEPT ![k] = "fresh"] ELSE once
  /\ UNCHANGED <<useVars, req, at, runs>>

-----------------------------------------------------------------------------
(* The rest of control.LockForContainerUse: init functions, one container    *)
(* after the other in any order, each followed by SetInitResult.             *)

\* Mutant of SetInitResult: every lock is downgraded.
SetInitResultShared(p, k, ok) ==
  /\ initPending' = [initPending EXCEPT ![p] = @ \ {k}]
  /\ \/ /\ ok /\ KL!Downgrade(p, k)
        /\ downgraded' = [downgraded EXCEPT ![p] = @ \cup {k}]
        /\ UNCHANGED once
     \/ /\ ~ ok /\ once' = [once EXCEPT ![k] = "fresh"]
        /\ UNCHANGED <<lockVars, downgraded>>

\* Mutant of SetInitResult: the Once is refreshed though the init succeeded.
SetInitResultRefresh(p, k, ok) ==
  /\ initPending' = [initPending EXCEPT ![p] = @ \ {k}]
  /\ IF ok /\ ~ req[p][k].exclusive
     THEN /\ KL!Downgrade(p, k)
          /\ downgraded' = [downgraded EXCEPT ![p] = @ \cup {k}]
     ELSE UNCHANGED <<lockVars, downgraded>>
  /\ once' = [once EXCEPT ![k] = "fresh"]

\* Mutant of SetInitResult: the Once of a failed init stays spent.
SetInitResultSpent(p, k, ok) ==
  /\ initPending' = [initPending EXCEPT ![p] = @ \ {k}]
  /\ IF ok /\ ~ req[p][k].exclusive
     THEN /\ KL!Downgrade(p, k)
          /\ downgraded' = [downgraded EXCEPT ![p] = @ \cup {k}]
     ELSE UNCHANGED <<lockVars, downgraded>>
  /\ UNCHANGED once

(* ContainerLock.SetInitResult, of a lock with init set: a success           *)
(* downgrades a lock that is to be shared, a failure makes the Once new.     *)
SetInitResult(p, k, ok) ==
  /\ initPending' = [initPending EXCEPT ![p] = @ \ {k}]
  /\ IF ok /\ ~ req[p][k].exclusive
     THEN /\ KL!Downgrade(p, k)
          /\ downgraded' = [downgraded EXCEPT ![p] = @ \cup {k}]
     ELSE UNCHANGED <<lockVars, downgraded>>
  /\ once' = IF ok THEN once ELSE [once EXCEPT ![k] = "fresh"]

InitTurn(p, k) == phase[p] = "held" /\ k \in initPending[p]

\* Init succeeds.
InitOK(p, k) ==
  /\ InitTurn(p, k) /\ p \notin initErr
  /\ SetInitResult(p, k, TRUE)
  /\ runs' = [runs EXCEPT ![k] = @ + 1]
  /\ UNCHANGED <<acquirerVars, initErr, req, at>>

\* Init fails, panics, or is skipped after another failed.
InitFail(p, k) ==
  /\ InitTurn(p, k) /\ p \in Failing \cup done \cup initErr
  /\ SetInitResult(p, k, FALSE)
  /\ initErr' = initErr \cup {p}
  /\ UNCHANGED <<acquirerVars, req, at, runs>>

Using(p) == phase[p] = "held" /\ initPending[p] = {} /\ p \notin initErr

\* unlock: by the caller when it is done, or at once because an init failed.
Release(p) ==
  /\ initPending[p] = {}
  /\ A!Release(p)
  /\ UNCHANGED <<lockVars, useVars, once, req, at, runs>>

\* ContainerLock.Release, for one container.
UnlockKey(p, k) ==
  /\ A!UnlockKey(p, k)
  /\ IF req[p][k].exclusive \/ k \notin downgraded[p]
     THEN KL!Unlock(p, k) ELSE KL!RUnlock(p, k)
  /\ UNCHANGED <<useVars, once, req, at, runs>>

\* The call, or its unlock, returns.
Return(p) ==
  /\ A!Return(p)
  /\ initPending' = [initPending EXCEPT ![p] = {}]
  /\ downgraded' = [downgraded EXCEPT ![p] = {}]
  /\ initErr' = initErr \ {p}
  /\ req' = [req EXCEPT ![p] = << >>]
  /\ at' = [at EXCEPT ![p] = AllStart]
  /\ UNCHANGED <<lockVars, once, runs>>

-----------------------------------------------------------------------------
\* NewLocker.
Init ==
  /\ A!Init /\ KL!Init
  /\ once = [k \in Key |-> "fresh"]
  /\ req = [p \in Proc |-> << >>]
  /\ at = [p \in Proc |-> AllStart]
  /\ initPending = [p \in Proc |-> {}]
  /\ downgraded = [p \in Proc |-> {}]
  /\ initErr = {}
  /\ runs = [k \in Key |-> 0]

KeyStep(p, k) ==
  \/ DoOnce(p, k) \/ SkipOnce(p, k) \/ OnceDone(p, k)
  \/ PlainLock(p, k) \/ InitLocked(p, k) \/ PlainLocked(p, k)
  \/ LockError(p, k) \/ InitOK(p, k) \/ InitFail(p, k) \/ UnlockKey(p, k)

\* What a call does once it is made.
Step(p) ==
  \/ Queue(p) \/ Release(p) \/ Return(p)
  \/ \E k \in Key : KeyStep(p, k)

Next == \E p \in Proc : Call(p) \/ CtxDone(p) \/ Step(p)

Spec == Init /\ [][Next]_vars

(* A call goes on as long as one of its goroutines can, init functions       *)
(* return and callers release their locks; nobody has to make a call and no  *)
(* context has to end.                                                       *)
FairSpec == Spec /\ \A p \in Proc : WF_vars(Step(p))

-----------------------------------------------------------------------------
\* Type invariant of a Locker and of the calls of LockForContainerUse.
TypeOK ==
  /\ A!TypeOK /\ KL!TypeOK
  /\ once \in [Key -> {"fresh", "running", "done"}]
  /\ \A p \in Proc : req[p] \in Requests[p] \cup {<< >>}
  /\ at \in [Proc -> [Key -> At]]
  /\ initPending \in [Proc -> SUBSET Key]
  /\ downgraded \in [Proc -> SUBSET Key]
  /\ initErr \subseteq Proc
  /\ runs \in [Key -> Nat]

(* Init functions run alone, "executed with an exclusive lock"               *)
(* (confort.go:672): from the moment p is given the task of initialising k   *)
(* until it is done, nobody else holds a lock of k.                          *)
InitAlone ==
  \A p, r \in Proc : p # r /\ phase[p] \in {"locking", "held"} =>
    \A k \in initPending[p] : st[r][k] \notin {"ex", "sh"}

(* A call that is out of LockForContainerUse with an error, or was released, *)
(* has no lock left, wherever it failed: waiting, locking or initialising    *)
(* ("lock acquisition for all containers fails", confort.go:759).            *)
NothingLeft ==
  \A p \in Proc, k \in Key : phase[p] \in {"out", "left"} => st[p][k] = "none"

(* A caller that gave an init function uses an initialised container: after  *)
(* an error "you can attempt to use the container and init again"            *)
(* (confort.go:676).                                                         *)
InitBeforeUse ==
  \A p \in Proc : Using(p) =>
    \A k \in DOMAIN req[p] : req[p][k].init => runs[k] > 0

(* A container that nobody will ever initialise: its Once is spent, no init   *)
(* has succeeded, and nobody has the task of initialising it.                *)
InitLost(k) ==
  /\ once[k] = "done" /\ runs[k] = 0
  /\ \A p \in Proc :
       /\ ~ Running(p, k, "got")
       /\ phase[p] \in {"locking", "held"} => k \notin initPending[p]

(* An init that did not succeed can be tried again ("you can attempt to use   *)
(* the container and init again", confort.go:676): no step loses it, but the  *)
(* error path of Acquire (acquire.go:65), when the context of a call ended    *)
(* that has the lock for one init and did not get another lock: it gives the  *)
(* lock back with the Once spent.                                            *)
InitNotLost ==
  [][\A k \in Key : InitLost(k)' /\ ~ InitLost(k) =>
       \E p \in done :
         /\ phase[p] = "locking" /\ phase'[p] = "undo"
         /\ k \in initPending[p]
         /\ \E j \in Key \ {k} : job[p][j] = "failed"]_vars

(* Every call gets its locks: no deadlock among calls that take several       *)
(* containers in any order, some of them with init, unless a context ended    *)
(* in the queue of the Acquirer: what that does is in run Acquirer_leak.      *)
EventuallyAcquired ==
  \A p \in Proc :
    phase[p] = "queued" ~>
      phase[p] = "held" \/ p \in done \/ \E r \in Proc : phase[r] = "left"

\* The containers a caller uses, as a caller of LockForContainerUse sees it.
Use == [p \in Proc |-> IF Using(p) THEN req[p] ELSE << >>]

CU == INSTANCE ContainerUse WITH use <- Use, inits <- runs, outside <- {},
        Requests <- UNION {Requests[p] : p \in Proc}

(* Nobody ever sees more of this than containers given and taken back all at *)
(* once, to compatible users, and inits that succeed alone and "only once per *)
(* container" (confort.go:672): queue, semaphores, Onces, failures and the    *)
(* order of goroutines do not show (control.go:100, confort.go:758).          *)
ImplementsContainerUse == CU!Spec

=============================================================================
