----------------------------- MODULE KeyedLock -----------------------------
(***************************************************************************)
(* internal/exclusion/keyedlock.go: a map from names to weighted           *)
(* semaphores of max tokens.  A writer takes all of them, a reader one, and *)
(* a writer downgrades to a reader by giving back max - 1.                  *)
(*                                                                         *)
(* A process stands for the goroutine that calls the lock for a key: it     *)
(* never has two calls for the same key under way.  st is what the caller   *)
(* knows (which call it is in, which lock it holds); cur and waiters are    *)
(* the semaphore's own state.  The semaphore is golang.org/x/sync           *)
(* semaphore.Weighted (external): a mutex makes each of its operations      *)
(* atomic, waiters are served first in, first out, and a newcomer never     *)
(* passes a waiter.                                                         *)
(***************************************************************************)
EXTENDS Integers, Sequences, FiniteSets, SequencesExt

CONSTANTS Proc,   \* the goroutines that use the lock
          Key,    \* names: images, containers
          max     \* const max, 1<<63 - 1 in the code

ASSUME ProcAssumption == IsFiniteSet(Proc)

ASSUME MaxAssumption == max \in Nat \ {0}

VARIABLES st,       \* st[p][k]: the state of p's call, or of its lock, for k
          cur,      \* cur[k]: tokens taken from the semaphore of k
          waiters   \* waiters[k]: the processes blocked in Acquire, in order

vars == <<st, cur, waiters>>

Want == {"wantEx", "wantSh"}
Hold == {"ex", "sh"}
States == {"none"} \cup Want \cup Hold

Granted(w) == IF w = "wantEx" THEN "ex" ELSE "sh"

-----------------------------------------------------------------------------
(* The semaphore. *)

\* Processes q[1..i] can all be woken when c tokens are taken, s being st.
Fits(s, k, q, c, i) ==
  \/ i = 1 /\ s[q[1]][k] = "wantEx" /\ c = 0
  \/ c + i =< max /\ \A j \in 1..i : s[q[j]][k] = "wantSh"

(* notifyWaiters: wakes the longest prefix q[1..n] of the waiters of k for   *)
(* which there are tokens, once c tokens are taken and the callers are as    *)
(* in s.                                                                     *)
Notify(s, k, q, c) ==
  \E n \in 0..Len(q) :
    /\ n > 0 => Fits(s, k, q, c, n)
    /\ n < Len(q) => ~ Fits(s, k, q, c, n + 1)
    /\ st' = [p \in Proc |-> IF \E i \in 1..n : q[i] = p
                             THEN [s[p] EXCEPT ![k] = Granted(s[p][k])]
                             ELSE s[p]]
    /\ cur' = [cur EXCEPT ![k] = IF n > 0 /\ s[q[1]][k] = "wantEx"
                                 THEN max ELSE c + n]
    /\ waiters' = [waiters EXCEPT ![k] = SubSeq(q, n + 1, Len(q))]

\* Mutant of Acquire: a newcomer does not look whether somebody waits.
AcquireBarging(p, k, want) ==
  /\ st[p][k] = "none"
  /\ LET weight == IF want = "wantEx" THEN max ELSE 1
     IN  IF max - cur[k] >= weight
         THEN /\ cur' = [cur EXCEPT ![k] = @ + weight]
              /\ st' = [st EXCEPT ![p][k] = Granted(want)]
              /\ UNCHANGED waiters
         ELSE /\ waiters' = [waiters EXCEPT ![k] = Append(@, p)]
              /\ st' = [st EXCEPT ![p][k] = want]
              /\ UNCHANGED cur

\* Weighted.Acquire up to the point where it has a lock or waits for one.
Acquire(p, k, want) ==
  /\ st[p][k] = "none"
  /\ LET weight == IF want = "wantEx" THEN max ELSE 1
     IN  \/ /\ max - cur[k] >= weight /\ waiters[k] = << >>
            /\ cur' = [cur EXCEPT ![k] = @ + weight]
            /\ st' = [st EXCEPT ![p][k] = Granted(want)]
            /\ UNCHANGED waiters
         \/ /\ ~ (max - cur[k] >= weight /\ waiters[k] = << >>)
            /\ waiters' = [waiters EXCEPT ![k] = Append(@, p)]
            /\ st' = [st EXCEPT ![p][k] = want]
            /\ UNCHANGED cur

\* Weighted.Release of weight tokens, after which p's lock on k is in state to.
Release(p, k, weight, to) ==
  Notify([st EXCEPT ![p][k] = to], k, waiters[k], cur[k] - weight)

-----------------------------------------------------------------------------
(* The operations of KeyedLock. *)

Lock(p, k) == Acquire(p, k, "wantEx")

RLock(p, k) == Acquire(p, k, "wantSh")

\* Mutant of Cancel: a waiter that leaves the front wakes nobody.
CancelQuietly(p, k) ==
  /\ st[p][k] \in Want
  /\ \E i \in 1..Len(waiters[k]) :
       /\ waiters[k][i] = p
       /\ waiters' = [waiters EXCEPT ![k] = RemoveAt(@, i)]
       /\ st' = [st EXCEPT ![p][k] = "none"]
       /\ UNCHANGED cur

(* The context of a blocked Lock or RLock ends.  A waiter that was woken in  *)
(* the meantime pretends not to have noticed and returns with its lock: that *)
(* is the case in which no Cancel happens.  Otherwise it leaves the queue,    *)
(* and if it was at the front it wakes those behind it.                      *)
Cancel(p, k) ==
  /\ st[p][k] \in Want
  /\ \E i \in 1..Len(waiters[k]) :
       /\ waiters[k][i] = p
       /\ LET q == RemoveAt(waiters[k], i)
              s == [st EXCEPT ![p][k] = "none"]
          IN  IF i = 1 /\ max > cur[k]
              THEN Notify(s, k, q, cur[k])
              ELSE /\ waiters' = [waiters EXCEPT ![k] = q]
                   /\ st' = s
                   /\ UNCHANGED cur

\* Mutant of Unlock: returns a reader's share of the tokens.
UnlockOne(p, k) ==
  /\ st[p][k] = "ex"
  /\ Release(p, k, 1, "none")

Unlock(p, k) ==
  /\ st[p][k] = "ex"
  /\ Release(p, k, max, "none")

\* Mutant of Downgrade: returns every token, and still holds the lock.
DowngradeAll(p, k) ==
  /\ st[p][k] = "ex"
  /\ Release(p, k, max, "sh")

Downgrade(p, k) ==
  /\ st[p][k] = "ex"
  /\ Release(p, k, max - 1, "sh")

\* Mutant of RUnlock: returns a writer's share of the tokens.
RUnlockAll(p, k) ==
  /\ st[p][k] = "sh"
  /\ Release(p, k, max, "none")

RUnlock(p, k) ==
  /\ st[p][k] = "sh"
  /\ Release(p, k, 1, "none")

-----------------------------------------------------------------------------
\* NewKeyedLock: a semaphore is created free, by the first call for its key.
Init ==
  /\ st = [p \in Proc |-> [k \in Key |-> "none"]]
  /\ cur = [k \in Key |-> 0]
  /\ waiters = [k \in Key |-> << >>]

Next ==
  \E p \in Proc, k \in Key :
    \/ Lock(p, k)
    \/ RLock(p, k)
    \/ Cancel(p, k)
    \/ Unlock(p, k)
    \/ Downgrade(p, k)
    \/ RUnlock(p, k)

Spec == Init /\ [][Next]_vars

(* A holder is told to give its lock back, so it does; nothing obliges       *)
(* anyone to take a lock, to cancel or to downgrade.                         *)
Fairness ==
  \A p \in Proc, k \in Key : WF_vars(Unlock(p, k) \/ RUnlock(p, k))

FairSpec == Spec /\ Fairness

-----------------------------------------------------------------------------
Writers(k) == {p \in Proc : st[p][k] = "ex"}
Readers(k) == {p \in Proc : st[p][k] = "sh"}

\* Type invariant of the lock's state.
TypeOK ==
  /\ st \in [Proc -> [Key -> States]]
  /\ cur \in [Key -> 0..max]
  /\ waiters \in [Key -> Seq(Proc)]

\* A lock held exclusively (Lock, keyedlock.go:22) is held by nobody else.
Exclusion ==
  \A k \in Key, p, q \in Proc :
    st[p][k] = "ex" /\ st[q][k] \in Hold => p = q

(* The semaphore's counter is the sum of what the holders took: Unlock,      *)
(* RUnlock and Downgrade return exactly the tokens their holder has left, in *)
(* any order, so that no Release can go below zero (which panics).           *)
TokensAccounted ==
  \A k \in Key :
    cur[k] = IF Writers(k) # {} THEN max ELSE Cardinality(Readers(k))

(* No wake-up is lost, whichever way tokens came back (unlock, downgrade, a  *)
(* cancelled waiter): the waiter at the front is always one that cannot run. *)
NoLostWakeup ==
  \A k \in Key : waiters[k] # << >> => ~ Fits(st, k, waiters[k], cur[k], 1)

(* Locks are given in the order they were asked for: a step gives a lock to  *)
(* a process only if everyone who waited before it has one too, or gave up.  *)
NoOvertaking ==
  [][\A k \in Key, p \in Proc :
       st[p][k] \notin Hold /\ st'[p][k] \in Hold
         => \A i \in 1..Len(waiters[k]) :
              \/ \E j \in 1..i : waiters[k][j] = p
              \/ st'[waiters[k][i]][k] \notin Want]_vars

(* A blocked Lock or RLock returns: readers that keep coming do not starve a *)
(* writer, nor a cancelled waiter those behind it.                           *)
WaiterServed ==
  \A p \in Proc, k \in Key : st[p][k] \in Want ~> st[p][k] \notin Want

=============================================================================
