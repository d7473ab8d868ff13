------------------------------ MODULE Acquirer ------------------------------
(***************************************************************************)
(* internal/exclusion/acquire.go: taking several locks at once.            *)
(*                                                                         *)
(* Each call of Acquire appends an entry, the set of its keys, to a queue. *)
(* An entry may start locking once no entry before it contains one of its  *)
(* keys; from then on one goroutine per key runs the caller's Lock, and    *)
(* takes the key out of the entry as soon as it is locked.  So two calls   *)
(* that share a key get it in the order of their arrival, and two that     *)
(* share none never wait for each other.                                   *)
(*                                                                         *)
(* Here a Lock takes any time to return; module Locker says what it does.  *)
(* A process makes one call after another and is the name of its entry.    *)
(* Bound: a process whose context has ended makes no further call.         *)
(***************************************************************************)
EXTENDS Integers, Sequences, FiniteSets, SequencesExt

CONSTANTS Proc,        \* the callers
          Key,         \* names of containers
          Cancelable   \* the callers whose context may end

ASSUME CancelableAssumption == Cancelable \subseteq Proc

VARIABLES queue,    \* acquireController.queue, a list of entries
          set,      \* set[p]: acquireSet.set, the keys p's entry still wants
          proceed,  \* the callers whose acquireSet.proceed is closed
          phase,    \* phase[p]: how far p's call is
          job,      \* job[p][k]: the goroutine of p's call for k
          done      \* the callers whose ctx.Done() is closed

vars == <<queue, set, proceed, phase, job, done>>

(* out: no call; queued: in the select of Acquire; locking: in eg.Wait;      *)
(* held: Acquire returned nil; release, undo: giving locks back, in Release  *)
(* or on the error path; left: returned because the context ended.           *)
Phase == {"out", "queued", "locking", "held", "release", "undo", "left"}

Job == {"off", "run", "locked", "failed"}

NoJob == [k \in Key |-> "off"]

Overlap(p, r, s) == s[p] \cap s[r] # {}

-----------------------------------------------------------------------------
(* acquireController: its mutex makes each method one step.                  *)

\* The entry of queue q at i shares no key with those before it.
Unhindered(q, s, i) == \A j \in 1..(i - 1) : ~ Overlap(q[j], q[i], s)

\* Mutant of Proceeding: only running entries hold up those behind them.
ProceedingPast(q, s, closed) ==
  closed \cup
    {q[i] : i \in {j \in 1..Len(q) :
                     \A l \in 1..(j - 1) :
                       q[l] \in closed => ~ Overlap(q[l], q[j], s)}}

(* proceed(): the keys of every entry, running or not, hold up the entries   *)
(* behind it; an entry that nothing holds up has its channel closed.         *)
Proceeding(q, s, closed) ==
  closed \cup {q[i] : i \in {j \in 1..Len(q) : Unhindered(q, s, j)}}

accept(p, keys) ==
  /\ set' = [set EXCEPT ![p] = keys]
  /\ queue' = Append(queue, p)
  /\ proceed' = Proceeding(queue', set', proceed \ {p})

\* queue.Remove(e), which does nothing for an entry that is not in the list.
Without(q, p) ==
  IF \E i \in 1..Len(q) : q[i] = p
  THEN RemoveAt(q, CHOOSE i \in 1..Len(q) : q[i] = p)
  ELSE q

\* Mutant of removeLockedKey: those behind are not told that the key is free.
removeLockedKeyQuietly(p, k) ==
  /\ set' = [set EXCEPT ![p] = @ \ {k}]
  /\ queue' = IF \E j, l \in set[p] : j # l THEN queue ELSE Without(queue, p)
  /\ UNCHANGED proceed

\* Mutant of removeLockedKey: the entry goes with the first key it locked.
removeLockedKeyEntry(p, k) ==
  /\ set' = [set EXCEPT ![p] = @ \ {k}]
  /\ queue' = Without(queue, p)
  /\ proceed' = Proceeding(queue', set', proceed)

\* Mutant of removeLockedKey: the entry stays when its last key is locked.
removeLockedKeyOnly(p, k) ==
  /\ set' = [set EXCEPT ![p] = @ \ {k}]
  /\ proceed' = Proceeding(queue, set', proceed)
  /\ UNCHANGED queue

(* The set of an entry that left the list is not looked at again: here it    *)
(* loses its last key too.                                                   *)
removeLockedKey(p, k) ==
  /\ set' = [set EXCEPT ![p] = @ \ {k}]
  /\ queue' = IF \E j, l \in set[p] : j # l THEN queue ELSE Without(queue, p)
  /\ proceed' = Proceeding(queue', set', proceed)

remove(p) ==
  /\ set' = [set EXCEPT ![p] = {}]
  /\ queue' = Without(queue, p)
  /\ proceed' = Proceeding(queue', set', proceed)

-----------------------------------------------------------------------------
(* Acquire and Release. *)

\* A call of Acquire for the locks of keys, up to its select.
Accept(p, keys) ==
  /\ phase[p] = "out" /\ p \notin done
  /\ accept(p, keys)
  /\ phase' = [phase EXCEPT ![p] = "queued"]
  /\ UNCHANGED <<job, done>>

\* The caller's context ends, at any time.
CtxDone(p) ==
  /\ p \in Cancelable \ done
  /\ done' = done \cup {p}
  /\ UNCHANGED <<queue, set, proceed, phase, job>>

\* The select takes ctx.Done(): Acquire returns, its entry stays in the queue.
GiveUp(p) ==
  /\ phase[p] = "queued" /\ p \in done
  /\ phase' = [phase EXCEPT ![p] = "left"]
  /\ UNCHANGED <<queue, set, proceed, job, done>>

\* The select takes proceed (if both are ready, either may be taken).
Start(p) ==
  /\ phase[p] = "queued" /\ p \in proceed
  /\ phase' = [phase EXCEPT ![p] = "locking"]
  /\ job' = [job EXCEPT ![p] = [k \in Key |-> IF k \in set[p] THEN "run"
                                                              ELSE "off"]]
  /\ UNCHANGED <<queue, set, proceed, done>>

\* Lock got its lock and calls notifyLock.
NotifyLock(p, k) ==
  /\ job[p][k] = "run"
  /\ job' = [job EXCEPT ![p][k] = "locked"]
  /\ removeLockedKey(p, k)
  /\ UNCHANGED <<phase, done>>

\* The context of the errgroup has ended: the caller's, or a Lock has failed.
GroupDone(p) == p \in done \/ \E k \in Key : job[p][k] = "failed"

\* Lock returns the context's error.
LockFailed(p, k) ==
  /\ job[p][k] = "run" /\ GroupDone(p)
  /\ job' = [job EXCEPT ![p][k] = "failed"]
  /\ UNCHANGED <<queue, set, proceed, phase, done>>

Waited(p) == phase[p] = "locking" /\ \A k \in Key : job[p][k] # "run"

\* eg.Wait returns nil.
Acquired(p) ==
  /\ Waited(p)
  /\ \A k \in Key : job[p][k] # "failed"
  /\ phase' = [phase EXCEPT ![p] = "held"]
  /\ UNCHANGED <<queue, set, proceed, job, done>>

\* Mutant of Undo: the locks that were taken are kept.
UndoKeeping(p) ==
  /\ Waited(p)
  /\ \E k \in Key : job[p][k] = "failed"
  /\ remove(p)
  /\ phase' = [phase EXCEPT ![p] = "out"]
  /\ job' = [job EXCEPT ![p] = NoJob]
  /\ UNCHANGED done

\* eg.Wait returns an error: the entry goes, then the locks that were taken.
Undo(p) ==
  /\ Waited(p)
  /\ \E k \in Key : job[p][k] = "failed"
  /\ remove(p)
  /\ phase' = [phase EXCEPT ![p] = "undo"]
  /\ UNCHANGED <<job, done>>

\* The caller releases its locks.
Release(p) ==
  /\ phase[p] = "held"
  /\ phase' = [phase EXCEPT ![p] = "release"]
  /\ UNCHANGED <<queue, set, proceed, job, done>>

\* One Unlock of Release, or of the error path; in any order.
UnlockKey(p, k) ==
  /\ phase[p] \in {"release", "undo"} /\ job[p][k] = "locked"
  /\ job' = [job EXCEPT ![p][k] = "off"]
  /\ UNCHANGED <<queue, set, proceed, phase, done>>

\* Every Unlock has returned, and so does the call.
Return(p) ==
  /\ phase[p] \in {"release", "undo"}
  /\ \A k \in Key : job[p][k] # "locked"
  /\ phase' = [phase EXCEPT ![p] = "out"]
  /\ job' = [job EXCEPT ![p] = NoJob]
  /\ UNCHANGED <<queue, set, proceed, done>>

-----------------------------------------------------------------------------
\* NewAcquirer, before any call.
Init ==
  /\ queue = << >>
  /\ set = [p \in Proc |-> {}]
  /\ proceed = {}
  /\ phase = [p \in Proc |-> "out"]
  /\ job = [p \in Proc |-> NoJob]
  /\ done = {}

\* What a call does once it is made.
Step(p) ==
  \/ GiveUp(p) \/ Start(p) \/ Acquired(p) \/ Undo(p) \/ Release(p) \/ Return(p)
  \/ \E k \in Key : NotifyLock(p, k) \/ LockFailed(p, k) \/ UnlockKey(p, k)

Next ==
  \E p \in Proc :
    \/ \E keys \in SUBSET Key : keys # {} /\ Accept(p, keys)
    \/ CtxDone(p)
    \/ Step(p)

Spec == Init /\ [][Next]_vars

(* A call goes on as long as it can: its goroutines are scheduled, a Lock    *)
(* returns and its caller releases what it got.  Nobody has to make a call,  *)
(* and no context has to end.                                                *)
FairSpec == Spec /\ \A p \in Proc : WF_vars(Step(p))

-----------------------------------------------------------------------------
\* Type invariant of the controller and of the calls; an entry is in the queue
\* once, so that the queue is no longer than the number of callers.
TypeOK ==
  /\ queue \in Seq(Proc)
  /\ \A i, j \in 1..Len(queue) : queue[i] = queue[j] => i = j
  /\ set \in [Proc -> SUBSET Key]
  /\ proceed \subseteq Proc
  /\ phase \in [Proc -> Phase]
  /\ job \in [Proc -> [Key -> Job]]
  /\ done \subseteq Cancelable

(* At most one goroutine at a time runs the Lock of a key, whatever errors   *)
(* and cancellations happen (acquire.go:137-167): the locks under Acquire    *)
(* have at most one waiter, and the init of a container one candidate.       *)
OneLockerPerKey ==
  \A k \in Key, p, r \in Proc :
    job[p][k] = "run" /\ job[r][k] = "run" => p = r

(* Calls that share a key get it in the order they came: none has started on *)
(* a key, or got it, that an earlier call is still waiting for.              *)
ArrivalOrder ==
  \A i, j \in 1..Len(queue) : i < j =>
    \A k \in set[queue[i]] : job[queue[j]][k] = "off"

(* No entry is forgotten: whenever the queue changed, an entry that nothing  *)
(* holds up has been told to proceed.                                        *)
NoLostProceed ==
  \A i \in 1..Len(queue) : Unhindered(queue, set, i) => queue[i] \in proceed

(* A call of Acquire gets its locks, "it blocks until all previous locks are *)
(* released" (confort.go:686), or its context ends.                          *)
EventuallyAcquired ==
  \A p \in Proc :
    phase[p] = "queued" ~> phase[p] = "held" \/ p \in done

=============================================================================
