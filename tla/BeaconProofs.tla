---------------------------- MODULE BeaconProofs ----------------------------
(***************************************************************************)
(* The streams of a beacon server are safe for any number of clients,      *)
(* whichever of them die and whenever they do: the stream for the use of    *)
(* containers (module Beacon), which leaves no lock behind and implements   *)
(* ContainerUse, and the streams for one lock (module LockStream).          *)
(*                                                                         *)
(* Of the server's Locker nothing is proved again: SInv of LockerProofs     *)
(* holds whoever runs the init functions.                                   *)
(***************************************************************************)
EXTENDS Beacon, LockStream, FiniteSetTheorems, TLAPS

LP == INSTANCE LockerProofs

Cli == {"idle", "recv", "init", "using", "ended"}

HandlerAt == {"none", "recv", "acquire", "init", "clean", "failed", "wait", "again",
              "end"}

Single(p) == params[p] \notin ManyInits

Types ==
  /\ cli \in [Proc -> Cli]
  /\ params \in [Proc -> Calls \cup {<< >>}]
  /\ todo \in [Proc -> SUBSET Key]
  /\ up \in [Proc -> Seq(Message)]
  /\ down \in [Proc -> Seq(SUBSET Key)]
  /\ handler \in [Proc -> HandlerAt]
  /\ i \in [Proc -> Nat]
  /\ runs \in [Key -> Nat]

\* Where the handler is, and where its call of the Locker is.
HandlerInv(p) ==
  /\ handler[p] = "none" => phase[p] \in {"out", "left"}
  /\ handler[p] = "recv" => phase[p] = "out"
  /\ handler[p] = "acquire" =>
       phase[p] # "release" /\ (phase[p] = "out" => p \in done)
  /\ handler[p] \in {"init", "clean", "failed", "wait"} => phase[p] = "held"
  /\ handler[p] \in {"again", "end"} => phase[p] \in {"release", "out"}
  /\ phase[p] \in {"queued", "locking", "held"} => req[p] = params[p]

(* What is in the stream.  The handler reads no result of an init that it     *)
(* does not wait for: each is about another container, and one of its        *)
(* targets.                                                                  *)
StreamInv(p) ==
  /\ cli[p] # "init" => todo[p] = {}
  /\ \A n \in 1..Len(up[p]) : up[p][n].type = "acquire" =>
       /\ handler[p] \in {"recv", "none"}
       /\ up[p] = <<[type |-> "acquire", req |-> params[p]]>>
       /\ cli[p] \in {"recv", "ended"} /\ down[p] = << >>
  /\ handler[p] = "acquire" =>
       up[p] = << >> /\ down[p] = << >> /\ cli[p] \in {"recv", "ended"}
  /\ \A n \in 1..Len(up[p]) : up[p][n].type = "init" /\ ~ up[p][n].ok => cli[p] = "ended"
  /\ handler[p] = "init" =>
       /\ cli[p] = "recv" => up[p] = << >> /\ down[p] = <<initPending[p]>>
       /\ todo[p] \subseteq initPending[p]
       /\ \A n \in 1..Len(up[p]) : up[p][n].type = "init" =>
            up[p][n].key \in initPending[p] \ todo[p]
       /\ \A m, n \in 1..Len(up[p]) :
            /\ up[p][m].type = "init" /\ up[p][n].type = "init"
            /\ up[p][m].key = up[p][n].key
            => m = n

\* The handler of a call with one init at most waits for its result.
SingleInv(p) ==
  Single(p) =>
    /\ handler[p] = "init" /\ initPending[p] # {} => i[p] = 0
    /\ handler[p] \in {"clean", "failed", "wait"} => initPending[p] = {}

(* Such a call of a client that lives: from the answer to its release, the   *)
(* handler is with the client.                                              *)
AliveInv(p) ==
  Single(p) /\ p \notin done =>
    /\ cli[p] = "recv" =>
         \/ handler[p] = "recv" /\ up[p] # << >> /\ Head(up[p]).type = "acquire"
         \/ handler[p] = "acquire"
         \/ /\ handler[p] \in {"init", "clean", "wait"}
            /\ up[p] = << >> /\ down[p] = <<initPending[p]>>
    /\ cli[p] \in {"init", "using"} =>
         /\ handler[p] \in {"init", "clean", "wait"}
         /\ \/ up[p] = << >> /\ todo[p] = initPending[p]
            \/ /\ handler[p] = "init" /\ todo[p] = {}
               /\ \E k \in Key :
                    /\ initPending[p] = {k}
                    /\ up[p] = <<[type |-> "init", key |-> k, ok |-> TRUE]>>

(* p's client may still run the init of k, or has failed to and its handler   *)
(* does not know yet.                                                        *)
Claim(p, k) ==
  \/ handler[p] = "acquire" /\ LP!Pending(p, k)
  \/ cli[p] = "recv" /\ down[p] # << >> /\ k \in Head(down[p])
  \/ cli[p] = "init" /\ k \in todo[p]
  \/ /\ handler[p] = "init"
     /\ \E n \in 1..Len(up[p]) :
          up[p][n].type = "init" /\ up[p][n].key = k /\ ~ up[p][n].ok

\* One client at a time has the task of initialising k, and none after it is done.
ClaimInv(k) ==
  /\ \A p \in Proc : Claim(p, k) => once[k] = "done" /\ runs[k] = 0
  /\ \A p, r \in Proc : Claim(p, k) /\ Claim(r, k) => p = r
  /\ once[k] # "done" => runs[k] = 0

\* The inductive invariant.
IInv ==
  /\ LP!SInv
  /\ Types
  /\ \A p \in Proc : HandlerInv(p) /\ StreamInv(p)
  /\ \A p \in Proc : SingleInv(p) /\ AliveInv(p)
  /\ \A k \in Key \ Split : ClaimInv(k)

-----------------------------------------------------------------------------
(* The Locker of the server is one that LockerProofs is about. *)

LEMMA Assumptions ==
  LP!LockAssumption /\ LP!RequestsAssumption /\ LP!FailingAssumption
<1>1. LP!RequestsAssumption
  BY BeaconAssumption DEF LP!RequestsAssumption, LP!Param, L!Param
<1> QED
  BY <1>1, BeaconAssumption
     DEF LP!LockAssumption, LP!FailingAssumption, IsFiniteSet, LP!IsFiniteSet

LEMMA SameAcquirer ==
  ASSUME NEW p \in Proc
  PROVE  /\ L!A!CtxDone(p) => LP!A!CtxDone(p)
         /\ L!A!GiveUp(p) => LP!A!GiveUp(p)
         /\ L!A!Start(p) => LP!A!Start(p)
         /\ L!A!Acquired(p) => LP!A!Acquired(p)
         /\ L!A!Undo(p) => LP!A!Undo(p)
         /\ L!A!Release(p) => LP!A!Release(p)
         /\ L!A!Return(p) => LP!A!Return(p)
         /\ \A keys : L!A!Accept(p, keys) => LP!A!Accept(p, keys)
         /\ \A k : L!A!NotifyLock(p, k) => LP!A!NotifyLock(p, k)
         /\ \A k : L!A!LockFailed(p, k) => LP!A!LockFailed(p, k)
         /\ \A k : L!A!UnlockKey(p, k) => LP!A!UnlockKey(p, k)
<1>1. \A q, s, c : L!A!Proceeding(q, s, c) = LP!A!Proceeding(q, s, c)
  BY DEF L!A!Proceeding, LP!A!Proceeding, L!A!Unhindered, LP!A!Unhindered,
         L!A!Overlap, LP!A!Overlap
<1>2. \A q : L!A!Without(q, p) = LP!A!Without(q, p)
  BY DEF L!A!Without, LP!A!Without, L!A!RemoveAt, LP!A!RemoveAt
<1>3. \A keys : L!A!Accept(p, keys) => LP!A!Accept(p, keys)
  BY <1>1 DEF L!A!Accept, LP!A!Accept, L!A!accept, LP!A!accept
<1>4. \A k : L!A!NotifyLock(p, k) => LP!A!NotifyLock(p, k)
  BY <1>1, <1>2 DEF L!A!NotifyLock, LP!A!NotifyLock,
                    L!A!removeLockedKey, LP!A!removeLockedKey
<1>5. L!A!Undo(p) => LP!A!Undo(p)
  BY <1>1, <1>2
     DEF L!A!Undo, LP!A!Undo, L!A!Waited, LP!A!Waited, L!A!remove, LP!A!remove
<1>6. /\ L!A!CtxDone(p) => LP!A!CtxDone(p)
      /\ L!A!GiveUp(p) => LP!A!GiveUp(p)
      /\ L!A!Start(p) => LP!A!Start(p)
      /\ L!A!Acquired(p) => LP!A!Acquired(p)
      /\ L!A!Release(p) => LP!A!Release(p)
  BY DEF L!A!CtxDone, LP!A!CtxDone, L!A!GiveUp, LP!A!GiveUp, L!A!Start, LP!A!Start,
         L!A!Acquired, LP!A!Acquired, L!A!Waited, LP!A!Waited, L!A!Release, LP!A!Release
<1>7. L!A!Return(p) => LP!A!Return(p)
  BY DEF L!A!Return, LP!A!Return, L!A!NoJob, LP!A!NoJob
<1>8. \A k : L!A!LockFailed(p, k) => LP!A!LockFailed(p, k)
  BY DEF L!A!LockFailed, LP!A!LockFailed, L!A!GroupDone, LP!A!GroupDone
<1>9. \A k : L!A!UnlockKey(p, k) => LP!A!UnlockKey(p, k)
  BY DEF L!A!UnlockKey, LP!A!UnlockKey
<1> QED
  BY <1>3, <1>4, <1>5, <1>6, <1>7, <1>8, <1>9

LEMMA SameLock ==
  ASSUME NEW p \in Proc, NEW k \in Key
  PROVE  /\ L!KL!Lock(p, k) => LP!KL!Lock(p, k)
         /\ L!KL!RLock(p, k) => LP!KL!RLock(p, k)
         /\ L!KL!Unlock(p, k) => LP!KL!Unlock(p, k)
         /\ L!KL!RUnlock(p, k) => LP!KL!RUnlock(p, k)
         /\ L!KL!Downgrade(p, k) => LP!KL!Downgrade(p, k)
         /\ L!KL!Cancel(p, k) => LP!KL!Cancel(p, k)
<1>1. \A s, q, c : L!KL!Notify(s, k, q, c) <=> LP!KL!Notify(s, k, q, c)
  BY DEF L!KL!Notify, LP!KL!Notify, L!KL!Fits, LP!KL!Fits, L!KL!Granted, LP!KL!Granted
<1>2. \A weight, to : L!KL!Release(p, k, weight, to) <=> LP!KL!Release(p, k, weight, to)
  BY <1>1 DEF L!KL!Release, LP!KL!Release
<1>3. \A w, n : L!KL!RemoveAt(w, n) = LP!KL!RemoveAt(w, n)
  BY DEF L!KL!RemoveAt, LP!KL!RemoveAt
<1>4. L!KL!Cancel(p, k) => LP!KL!Cancel(p, k)
  BY <1>1, <1>3 DEF L!KL!Cancel, LP!KL!Cancel, L!KL!Want, LP!KL!Want
<1>5. /\ L!KL!Lock(p, k) => LP!KL!Lock(p, k)
      /\ L!KL!RLock(p, k) => LP!KL!RLock(p, k)
  BY DEF L!KL!Lock, LP!KL!Lock, L!KL!RLock, LP!KL!RLock, L!KL!Acquire, LP!KL!Acquire,
         L!KL!Granted, LP!KL!Granted
<1>6. /\ L!KL!Unlock(p, k) => LP!KL!Unlock(p, k)
      /\ L!KL!RUnlock(p, k) => LP!KL!RUnlock(p, k)
      /\ L!KL!Downgrade(p, k) => LP!KL!Downgrade(p, k)
  BY <1>2 DEF L!KL!Unlock, LP!KL!Unlock, L!KL!RUnlock, LP!KL!RUnlock,
              L!KL!Downgrade, LP!KL!Downgrade
<1> QED
  BY <1>4, <1>5, <1>6

LEMMA SameVars ==
  /\ L!acquirerVars = LP!acquirerVars /\ L!acquirerVars' = LP!acquirerVars'
  /\ L!lockVars = LP!lockVars /\ L!lockVars' = LP!lockVars'
  /\ L!useVars = LP!useVars /\ L!useVars' = LP!useVars'
BY DEF L!acquirerVars, LP!acquirerVars, L!lockVars, LP!lockVars, L!useVars, LP!useVars

\* The steps of the Locker that the handler takes part in.
ServerStep(p) ==
  \/ L!Call(p) \/ L!CtxDone(p) \/ L!Queue(p) \/ L!Return(p)
  \/ \E k \in Key :
       \/ L!DoOnce(p, k) \/ L!SkipOnce(p, k) \/ L!OnceDone(p, k)
       \/ L!PlainLock(p, k) \/ L!InitLocked(p, k) \/ L!PlainLocked(p, k)
       \/ L!LockError(p, k) \/ L!UnlockKey(p, k)

LEMMA SameLocker ==
  ASSUME NEW p \in Proc, ServerStep(p)
  PROVE  LP!LockerStep(p)
<1>1. CASE L!Call(p) \/ L!CtxDone(p)
  BY <1>1, SameAcquirer, SameVars
     DEF L!Call, LP!Call, L!CtxDone, LP!CtxDone, LP!LockerStep
<1>2. CASE L!Queue(p) \/ L!Return(p)
  BY <1>2, SameAcquirer, SameVars
     DEF L!Queue, LP!Queue, L!Return, LP!Return, L!AllStart, LP!AllStart, LP!LockerStep
<1>3. ASSUME NEW k \in Key,
             L!DoOnce(p, k) \/ L!SkipOnce(p, k) \/ L!OnceDone(p, k) \/ L!PlainLock(p, k)
      PROVE  \/ LP!DoOnce(p, k) \/ LP!SkipOnce(p, k) \/ LP!OnceDone(p, k)
             \/ LP!PlainLock(p, k)
  BY <1>3, SameLock, SameVars
     DEF L!DoOnce, LP!DoOnce, L!SkipOnce, LP!SkipOnce, L!OnceDone, LP!OnceDone,
         L!PlainLock, LP!PlainLock, L!Running, LP!Running, L!Goto, LP!Goto
<1>4. ASSUME NEW k \in Key,
             \/ L!InitLocked(p, k) \/ L!PlainLocked(p, k)
             \/ L!LockError(p, k) \/ L!UnlockKey(p, k)
      PROVE  \/ LP!InitLocked(p, k) \/ LP!PlainLocked(p, k)
             \/ LP!LockError(p, k) \/ LP!UnlockKey(p, k)
  BY <1>4, SameAcquirer, SameLock, SameVars
     DEF L!InitLocked, LP!InitLocked, L!PlainLocked, LP!PlainLocked, L!LockError,
         LP!LockError, L!UnlockKey, LP!UnlockKey, L!Running, LP!Running
<1> QED
  BY <1>1, <1>2, <1>3, <1>4 DEF ServerStep, LP!LockerStep

\* So the invariant of the Locker is kept, and LockerProofs says what happens to
\* the Onces and to the other calls.
LEMMA ServerStepInv ==
  ASSUME LP!SInv, NEW p \in Proc, ServerStep(p)
  PROVE  /\ LP!SInv' /\ LP!OnceStep(p) /\ LP!CallsKept(p)
         /\ runs' = runs /\ done \subseteq done'
<1>1. LP!LockerStep(p)
  BY SameLocker
<1>2. LP!SInv' /\ LP!OnceStep(p)
  BY <1>1, Assumptions, LP!LockerStepInvariant
<1>3. LP!CallsKept(p)
  <2>1. LP!Call(p) \/ LP!CtxDone(p) \/ LP!Step(p)
    BY <1>1 DEF LP!LockerStep, LP!Step, LP!KeyStep
  <2> QED
    BY <2>1, Assumptions, LP!StepKeepsCalls
<1>4. runs' = runs /\ done \subseteq done'
  BY <1>1, Assumptions, LP!LockerStepKeeps
<1> QED
  BY <1>2, <1>3, <1>4

-----------------------------------------------------------------------------
(* Messages, params and streams. *)

LEMMA MessageTyped ==
  ASSUME NEW m \in Message
  PROVE  /\ m.type \in {"acquire", "init", "release", "eof"}
         /\ m.type = "init" => m.key \in Key /\ m.ok \in BOOLEAN
BY DEF Message

LEMMA Messages ==
  /\ \A r \in Calls : [type |-> "acquire", req |-> r] \in Message
  /\ \A k \in Key, ok \in BOOLEAN : [type |-> "init", key |-> k, ok |-> ok] \in Message
  /\ [type |-> "release"] \in Message /\ [type |-> "eof"] \in Message
BY DEF Message, Calls

LEMMA ReadSeq ==
  ASSUME NEW M, NEW s \in Seq(M), s # << >>
  PROVE  /\ Tail(s) \in Seq(M) /\ Len(s) \in Nat /\ Len(Tail(s)) = Len(s) - 1
         /\ 1 \in 1..Len(s) /\ Head(s) = s[1] /\ Head(s) \in M
         /\ \A n \in 1..Len(Tail(s)) : n + 1 \in 1..Len(s) /\ Tail(s)[n] = s[n + 1]
OBVIOUS

LEMMA SendSeq ==
  ASSUME NEW M, NEW s \in Seq(M), NEW t \in Seq(M)
  PROVE  /\ s \o t \in Seq(M)
         /\ \A n \in 1..Len(s \o t) :
              \/ n \in 1..Len(s) /\ (s \o t)[n] = s[n]
              \/ n - Len(s) \in 1..Len(t) /\ (s \o t)[n] = t[n - Len(s)]
OBVIOUS

LEMMA CallsTyped ==
  ASSUME NEW r \in Calls
  PROVE  DOMAIN r \subseteq Key /\ IsFiniteSet(DOMAIN r) /\ DOMAIN r # {}
BY BeaconAssumption DEF Calls

LEMMA NoCall == << >> \notin Calls
<1>1. DOMAIN << >> = {}
  OBVIOUS
<1> QED
  BY <1>1, CallsTyped

LEMMA AtMostOne ==
  ASSUME NEW S, IsFiniteSet(S), ~ (Cardinality(S) > 1), NEW x \in S, NEW y \in S
  PROVE  x = y
<1> SUFFICES ASSUME x # y PROVE FALSE
  OBVIOUS
<1>1. IsFiniteSet({x}) /\ Cardinality({x}) = 1
  BY FS_Singleton
<1>2. Cardinality({x} \cup {y}) = 2
  BY <1>1, FS_AddElement
<1>3. {x} \cup {y} \in SUBSET S
  OBVIOUS
<1>4. Cardinality({x} \cup {y}) <= Cardinality(S) /\ Cardinality(S) \in Nat
  BY <1>3, FS_Subset, FS_CardinalityType
<1> QED
  BY <1>2, <1>4

\* The targets of a handler are containers that the call has an init for.
LEMMA Targets ==
  ASSUME LP!SInv, NEW p \in Proc, HandlerInv(p), phase[p] = "held"
  PROVE  /\ params[p] \in Calls /\ initPending[p] \subseteq Key
         /\ \A k \in initPending[p] : k \in DOMAIN params[p] /\ params[p][k].init
<1>1. req[p] = params[p] /\ req[p] \in Calls
  BY DEF HandlerInv, LP!SInv, LP!CallInv, LP!AllRequests, Calls
<1>2. initPending[p] \subseteq Key
  BY DEF LP!SInv, LP!TypeOKUse
<1>3. ASSUME NEW k \in initPending[p] PROVE k \in DOMAIN req[p] /\ req[p][k].init
  <2>1. LP!JobInv(p, k)
    BY <1>2 DEF LP!SInv
  <2> QED
    BY <2>1 DEF LP!JobInv
<1> QED
  BY <1>1, <1>2, <1>3

LEMMA OneTarget ==
  ASSUME LP!SInv, NEW p \in Proc, HandlerInv(p), phase[p] = "held", Single(p)
  PROVE  \A j, k \in initPending[p] : j = k
<1> DEFINE S == {k \in DOMAIN params[p] : params[p][k].init}
<1>1. params[p] \in Calls /\ initPending[p] \subseteq S
  BY Targets
<1>2. IsFiniteSet(DOMAIN params[p]) /\ S \in SUBSET DOMAIN params[p]
  BY <1>1, CallsTyped
<1>3. IsFiniteSet(S)
  BY <1>2, FS_Subset
<1>4. ~ (Cardinality(S) > 1)
  BY <1>1 DEF Single, ManyInits
<1>5. \A x, y \in S : x = y
  BY <1>3, <1>4, AtMostOne
<1> QED
  BY <1>1, <1>5

\* The containers that only calls with one init initialise.
LEMMA NotSplit ==
  ASSUME LP!SInv, NEW p \in Proc, HandlerInv(p), phase[p] = "held",
         NEW k \in initPending[p], k \notin Split
  PROVE  Single(p)
BY Targets DEF Single, Split, ManyInits

-----------------------------------------------------------------------------
(* What a step of p leaves alone. *)

OthersKept(p) ==
  \A r \in Proc : r # p =>
    /\ cli'[r] = cli[r] /\ params'[r] = params[r] /\ todo'[r] = todo[r]
    /\ up'[r] = up[r] /\ down'[r] = down[r]
    /\ handler'[r] = handler[r] /\ i'[r] = i[r]
    /\ phase'[r] = phase[r] /\ req'[r] = req[r] /\ initPending'[r] = initPending[r]

LEMMA OthersInv ==
  ASSUME IInv, NEW p \in Proc, OthersKept(p), done \subseteq done',
         NEW r \in Proc, r # p
  PROVE  HandlerInv(r)' /\ StreamInv(r)' /\ SingleInv(r)' /\ AliveInv(r)'
<1>1. HandlerInv(r) /\ StreamInv(r) /\ SingleInv(r) /\ AliveInv(r)
  BY DEF IInv
<1>2. /\ cli'[r] = cli[r] /\ params'[r] = params[r] /\ todo'[r] = todo[r]
      /\ up'[r] = up[r] /\ down'[r] = down[r]
      /\ handler'[r] = handler[r] /\ i'[r] = i[r]
      /\ phase'[r] = phase[r] /\ req'[r] = req[r] /\ initPending'[r] = initPending[r]
  BY DEF OthersKept
<1>3. HandlerInv(r)' /\ SingleInv(r)'
  BY <1>1, <1>2 DEF HandlerInv, SingleInv, Single
<1>4. StreamInv(r)'
  BY <1>1, <1>2, SMTT(30) DEF StreamInv
<1>5. AliveInv(r)'
  BY <1>1, <1>2 DEF AliveInv, Single
<1> QED
  BY <1>3, <1>4, <1>5

LEMMA StepInv ==
  ASSUME IInv, NEW p \in Proc, OthersKept(p), done \subseteq done', LP!SInv', Types',
         HandlerInv(p)', StreamInv(p)', SingleInv(p)', AliveInv(p)',
         \A k \in Key \ Split : ClaimInv(k)'
  PROVE  IInv'
<1>1. \A r \in Proc : HandlerInv(r)' /\ StreamInv(r)' /\ SingleInv(r)' /\ AliveInv(r)'
  BY OthersInv
<1> QED
  BY <1>1 DEF IInv

LEMMA OtherClaims ==
  ASSUME NEW p \in Proc, OthersKept(p), NEW k \in Key,
         \A r \in Proc : r # p => (LP!Pending(r, k)' <=> LP!Pending(r, k))
  PROVE  \A r \in Proc : r # p => (Claim(r, k)' <=> Claim(r, k))
BY DEF OthersKept, Claim

\* A step after which nobody but those who could before may initialise k.
LEMMA ClaimFrame ==
  ASSUME NEW k \in Key, ClaimInv(k), once'[k] = once[k], runs'[k] = runs[k],
         \A r \in Proc : Claim(r, k)' => Claim(r, k)
  PROVE  ClaimInv(k)'
BY DEF ClaimInv

\* A step of the Locker that is not SetInitResult.
LEMMA ClaimStep ==
  ASSUME NEW p \in Proc, NEW k \in Key, ClaimInv(k), OthersKept(p), LP!OnceStep(p),
         runs' = runs,
         Claim(p, k)' => Claim(p, k) \/ (handler[p] = "acquire" /\ LP!Pending(p, k)')
  PROVE  ClaimInv(k)'
<1>1. \A r \in Proc : r # p => (Claim(r, k)' <=> Claim(r, k))
  BY OtherClaims DEF LP!OnceStep
<1>2. CASE once'[k] = once[k] /\ (LP!Pending(p, k)' => LP!Pending(p, k))
  <2>1. Claim(p, k)' => Claim(p, k)
    BY <1>2 DEF Claim
  <2>2. \A r \in Proc : Claim(r, k)' => Claim(r, k)
    BY <1>1, <2>1
  <2> QED
    BY <1>2, <2>2, ClaimFrame
<1>3. CASE once[k] # "done" /\ (once'[k] = "done" <=> LP!Pending(p, k)')
  <2>1. runs'[k] = 0 /\ \A r \in Proc : ~ Claim(r, k)
    BY <1>3 DEF ClaimInv
  <2>2. \A r \in Proc : Claim(r, k)' => r = p /\ once'[k] = "done"
    BY <1>1, <1>3, <2>1
  <2> QED
    BY <2>1, <2>2 DEF ClaimInv
<1>4. LP!OnceAt(p, k)
  BY DEF LP!OnceStep
<1> QED
  BY <1>2, <1>3, <1>4 DEF LP!OnceAt

\* Nothing happens in the Locker.
LEMMA Still ==
  ASSUME LP!SInv, UNCHANGED lockerVars
  PROVE  /\ LP!SInv'
         /\ \A r \in Proc, k \in Key : LP!Pending(r, k)' <=> LP!Pending(r, k)
         /\ UNCHANGED <<phase, req, initPending, once, done>>
<1>1. UNCHANGED <<LP!acquirerVars, LP!lockVars, LP!useVars, once, req, at>>
  BY DEF lockerVars, LP!acquirerVars, LP!lockVars, LP!useVars
<1>2. LP!SInv' /\ \A r \in Proc, k \in Key : LP!Pending(r, k)' <=> LP!Pending(r, k)
  BY <1>1, Assumptions, LP!StutterInvariant
<1> QED
  BY <1>2 DEF lockerVars

\* A step of p outside of the Locker.
LEMMA StillInv ==
  ASSUME IInv, NEW p \in Proc, UNCHANGED lockerVars, OthersKept(p), UNCHANGED runs,
         Types',
         HandlerInv(p)', StreamInv(p)', SingleInv(p)', AliveInv(p)',
         \A k \in Key : Claim(p, k)' => Claim(p, k)
  PROVE  IInv'
<1>1. /\ LP!SInv'
      /\ \A r \in Proc, k \in Key : LP!Pending(r, k)' <=> LP!Pending(r, k)
      /\ UNCHANGED <<phase, req, initPending, once, done>>
  BY Still DEF IInv
<1>2. ASSUME NEW k \in Key \ Split PROVE ClaimInv(k)'
  <2>1. \A r \in Proc : Claim(r, k)' => Claim(r, k)
    BY <1>1, OtherClaims
  <2> QED
    BY <1>1, <2>1, ClaimFrame DEF IInv
<1> QED
  BY <1>1, <1>2, StepInv

-----------------------------------------------------------------------------
(* The steps of a client. *)

\* A new call: the stream is new, and there is nothing in it but the params.
LEMMA ClientAcquireInv ==
  ASSUME IInv, NEW p \in Proc, ClientAcquire(p)
  PROVE  IInv'
<1>1. /\ LP!SInv /\ Types /\ LP!CallInv(p)
      /\ HandlerInv(p) /\ StreamInv(p) /\ SingleInv(p) /\ AliveInv(p)
  BY DEF IInv, LP!SInv
<1>2. PICK r \in Requests[p] :
        /\ params' = [params EXCEPT ![p] = r]
        /\ up' = [up EXCEPT ![p] = <<[type |-> "acquire", req |-> r]>>]
  BY DEF ClientAcquire
<1>3. /\ cli[p] \in {"idle", "ended"} /\ handler[p] = "none" /\ p \notin done
      /\ down' = [down EXCEPT ![p] = << >>]
      /\ cli' = [cli EXCEPT ![p] = "recv"]
      /\ handler' = [handler EXCEPT ![p] = "recv"]
      /\ UNCHANGED <<lockerVars, todo, runs, i>>
  BY DEF ClientAcquire
<1>4. r \in Calls /\ [type |-> "acquire", req |-> r] \in Message
  BY Messages DEF Calls
<1>5. /\ params'[p] = r /\ up'[p] = <<[type |-> "acquire", req |-> r]>>
      /\ down'[p] = << >> /\ cli'[p] = "recv" /\ handler'[p] = "recv"
      /\ todo'[p] = {} /\ phase'[p] = "out" /\ phase[p] = "out"
  BY <1>1, <1>2, <1>3 DEF Types, StreamInv, HandlerInv, LP!CallInv, lockerVars
<1>6. OthersKept(p)
  BY <1>1, <1>2, <1>3 DEF Types, OthersKept, lockerVars
<1>7. Types'
  <2>1. up' \in [Proc -> Seq(Message)] /\ down' \in [Proc -> Seq(SUBSET Key)]
    BY <1>1, <1>2, <1>3, <1>4 DEF Types
  <2> QED
    BY <1>1, <1>2, <1>3, <1>4, <2>1 DEF Types, Cli, HandlerAt
<1>8. HandlerInv(p)' /\ SingleInv(p)'
  BY <1>5 DEF HandlerInv, SingleInv
<1>9. StreamInv(p)'
  <2>1. /\ Len(up'[p]) = 1 /\ up'[p][1].type = "acquire"
    BY <1>5
  <2> QED
    BY <1>5, <2>1 DEF StreamInv
<1>10. AliveInv(p)'
  BY <1>5 DEF AliveInv
<1>11. \A k \in Key : Claim(p, k)' => Claim(p, k)
  BY <1>5 DEF Claim
<1> QED
  BY <1>3, <1>6, <1>7, <1>8, <1>9, <1>10, <1>11, StillInv

\* The answer: what the client is to initialise is what the handler waits for.
LEMMA ClientRecvInv ==
  ASSUME IInv, NEW p \in Proc, ClientRecv(p)
  PROVE  IInv'
<1>1. /\ LP!SInv /\ Types
      /\ HandlerInv(p) /\ StreamInv(p) /\ SingleInv(p) /\ AliveInv(p)
  BY DEF IInv
<1>2. /\ cli[p] = "recv" /\ down[p] # << >>
      /\ todo' = [todo EXCEPT ![p] = Head(down[p])]
      /\ down' = [down EXCEPT ![p] = << >>]
      /\ cli' = [cli EXCEPT ![p] = "init"]
      /\ UNCHANGED <<lockerVars, params, runs, up, handler, i>>
  BY DEF ClientRecv
<1>3. UNCHANGED <<phase, req, initPending, done>>
  BY <1>2 DEF lockerVars
<1>4. /\ todo'[p] = Head(down[p]) /\ down'[p] = << >> /\ cli'[p] = "init"
  BY <1>1, <1>2 DEF Types
<1>5. OthersKept(p)
  BY <1>1, <1>2, <1>3 DEF Types, OthersKept
<1>6. Types'
  <2>1. Head(down[p]) \in SUBSET Key
    BY <1>1, <1>2, ReadSeq DEF Types
  <2>2. down' \in [Proc -> Seq(SUBSET Key)]
    BY <1>1, <1>2 DEF Types
  <2> QED
    BY <1>1, <1>2, <2>1, <2>2 DEF Types, Cli
<1>7. HandlerInv(p)' /\ SingleInv(p)'
  BY <1>1, <1>2, <1>3 DEF HandlerInv, SingleInv, Single
<1>8. StreamInv(p)'
  <2>1. handler[p] = "init" => up[p] = << >> /\ Head(down[p]) = initPending[p]
    BY <1>1, <1>2 DEF StreamInv
  <2> QED
    BY <1>1, <1>2, <1>3, <1>4, <2>1, SMTT(30) DEF StreamInv
<1>9. AliveInv(p)'
  <2> SUFFICES ASSUME Single(p), p \notin done
               PROVE  /\ handler[p] \in {"init", "clean", "wait"}
                      /\ up[p] = << >> /\ todo'[p] = initPending[p]
    BY <1>2, <1>3, <1>4 DEF AliveInv, Single
  <2>1. ~ (handler[p] = "recv" /\ up[p] # << >> /\ Head(up[p]).type = "acquire")
    BY <1>1, <1>2, ReadSeq DEF StreamInv, Types
  <2>2. handler[p] # "acquire"
    BY <1>1, <1>2 DEF StreamInv
  <2>3. /\ handler[p] \in {"init", "clean", "wait"}
        /\ up[p] = << >> /\ down[p] = <<initPending[p]>>
    BY <1>1, <1>2, <2>1, <2>2 DEF AliveInv
  <2> QED
    BY <1>4, <2>3
<1>10. \A k \in Key : Claim(p, k)' => Claim(p, k)
  <2>1. \A k \in Key : LP!Pending(p, k)' <=> LP!Pending(p, k)
    BY <1>1, <1>2, Still
  <2> QED
    BY <1>2, <1>4, <2>1 DEF Claim
<1> QED
  BY <1>2, <1>5, <1>6, <1>7, <1>8, <1>9, <1>10, StillInv

\* The call fails, because its context ended or the handler returned.
LEMMA ClientRecvErrorInv ==
  ASSUME IInv, NEW p \in Proc, ClientRecvError(p)
  PROVE  IInv'
<1>1. /\ LP!SInv /\ Types
      /\ HandlerInv(p) /\ StreamInv(p) /\ SingleInv(p) /\ AliveInv(p)
  BY DEF IInv
<1>2. /\ cli[p] = "recv"
      /\ cli' = [cli EXCEPT ![p] = "ended"]
      /\ UNCHANGED <<lockerVars, params, todo, runs, up, down, handler, i>>
  BY DEF ClientRecvError
<1>3. UNCHANGED <<phase, req, initPending, done>>
  BY <1>2 DEF lockerVars
<1>4. cli'[p] = "ended"
  BY <1>1, <1>2 DEF Types
<1>5. OthersKept(p) /\ Types'
  BY <1>1, <1>2, <1>3 DEF Types, OthersKept, Cli
<1>6. HandlerInv(p)' /\ SingleInv(p)'
  BY <1>1, <1>2, <1>3 DEF HandlerInv, SingleInv, Single
<1>7. StreamInv(p)' /\ AliveInv(p)'
  BY <1>1, <1>2, <1>3, <1>4 DEF StreamInv, AliveInv
<1>8. \A k \in Key : Claim(p, k)' => Claim(p, k)
  <2>1. \A k \in Key : LP!Pending(p, k)' <=> LP!Pending(p, k)
    BY <1>1, <1>2, Still
  <2> QED
    BY <1>2, <1>4, <2>1 DEF Claim
<1> QED
  BY <1>2, <1>5, <1>6, <1>7, <1>8, StillInv

\* Every init is done: the call returns.
LEMMA ClientUseInv ==
  ASSUME IInv, NEW p \in Proc, ClientUse(p)
  PROVE  IInv'
<1>1. /\ LP!SInv /\ Types
      /\ HandlerInv(p) /\ StreamInv(p) /\ SingleInv(p) /\ AliveInv(p)
  BY DEF IInv
<1>2. /\ cli[p] = "init" /\ todo[p] = {}
      /\ cli' = [cli EXCEPT ![p] = "using"]
      /\ UNCHANGED <<lockerVars, params, todo, runs, up, down, handler, i>>
  BY DEF ClientUse
<1>3. UNCHANGED <<phase, req, initPending, done>>
  BY <1>2 DEF lockerVars
<1>4. cli'[p] = "using"
  BY <1>1, <1>2 DEF Types
<1>5. OthersKept(p) /\ Types'
  BY <1>1, <1>2, <1>3 DEF Types, OthersKept, Cli
<1>6. HandlerInv(p)' /\ SingleInv(p)'
  BY <1>1, <1>2, <1>3 DEF HandlerInv, SingleInv, Single
<1>7. StreamInv(p)'
  BY <1>1, <1>2, <1>3, <1>4 DEF StreamInv
<1>8. AliveInv(p)'
  BY <1>1, <1>2, <1>3, <1>4 DEF AliveInv, Single
<1>9. \A k \in Key : Claim(p, k)' => Claim(p, k)
  <2>1. \A k \in Key : LP!Pending(p, k)' <=> LP!Pending(p, k)
    BY <1>1, <1>2, Still
  <2> QED
    BY <1>2, <1>4, <2>1 DEF Claim
<1> QED
  BY <1>2, <1>5, <1>6, <1>7, <1>8, <1>9, StillInv

\* The unlock function: nothing that the handler still has to read is lost.
LEMMA ClientUnlockInv ==
  ASSUME IInv, NEW p \in Proc, ClientUnlock(p)
  PROVE  IInv'
<1> DEFINE t == <<[type |-> "release"], [type |-> "eof"]>>
<1>1. /\ LP!SInv /\ Types
      /\ HandlerInv(p) /\ StreamInv(p) /\ SingleInv(p) /\ AliveInv(p)
  BY DEF IInv
<1>2. /\ cli[p] = "using"
      /\ up' = [up EXCEPT ![p] = up[p] \o t]
      /\ cli' = [cli EXCEPT ![p] = "ended"]
      /\ UNCHANGED <<lockerVars, params, todo, runs, down, handler, i>>
  BY DEF ClientUnlock
<1>3. UNCHANGED <<phase, req, initPending, done>>
  BY <1>2 DEF lockerVars
<1>4. t \in Seq(Message) /\ \A n \in 1..Len(t) : t[n].type \in {"release", "eof"}
  BY Messages
<1> HIDE DEF t
<1>5. /\ up[p] \o t \in Seq(Message)
      /\ \A n \in 1..Len(up[p] \o t) :
           \/ n \in 1..Len(up[p]) /\ (up[p] \o t)[n] = up[p][n]
           \/ (up[p] \o t)[n].type \in {"release", "eof"}
  <2>1. up[p] \in Seq(Message)
    BY <1>1 DEF Types
  <2> QED
    BY <1>4, <2>1, SendSeq
<1>6. cli'[p] = "ended" /\ up'[p] = up[p] \o t
  BY <1>1, <1>2 DEF Types
<1>7. OthersKept(p) /\ Types'
  BY <1>1, <1>2, <1>3, <1>5 DEF Types, OthersKept, Cli
<1>8. HandlerInv(p)' /\ SingleInv(p)'
  BY <1>1, <1>2, <1>3 DEF HandlerInv, SingleInv, Single
<1>9. StreamInv(p)' /\ AliveInv(p)'
  <2>1. ASSUME NEW n \in 1..Len(up'[p]), up'[p][n].type \in {"acquire", "init"}
        PROVE  n \in 1..Len(up[p]) /\ up'[p][n] = up[p][n]
    BY <1>5, <1>6, <2>1
  <2>2. \A n \in 1..Len(up[p]) : up[p][n].type # "acquire"
    BY <1>1, <1>2 DEF StreamInv
  <2>3. todo[p] = {} /\ handler[p] # "acquire"
    BY <1>1, <1>2 DEF StreamInv
  <2>4. handler[p] = "init" =>
          /\ \A n \in 1..Len(up[p]) : up[p][n].type = "init" =>
               up[p][n].key \in initPending[p] \ todo[p]
          /\ \A m, n \in 1..Len(up[p]) :
               /\ up[p][m].type = "init" /\ up[p][n].type = "init"
               /\ up[p][m].key = up[p][n].key
               => m = n
    BY <1>1 DEF StreamInv
  <2> QED
    BY <1>2, <1>3, <1>6, <2>1, <2>2, <2>3, <2>4, SMTT(30) DEF StreamInv, AliveInv
<1>10. \A k \in Key : Claim(p, k)' => Claim(p, k)
  <2>1. \A k \in Key : LP!Pending(p, k)' <=> LP!Pending(p, k)
    BY <1>1, <1>2, Still
  <2> QED
    BY <1>2, <1>5, <1>6, <2>1 DEF Claim
<1> QED
  BY <1>2, <1>7, <1>8, <1>9, <1>10, StillInv

(* An init function returns: its result, and io.EOF after a failure, goes    *)
(* into the stream unless that is broken.                                    *)
LEMMA ClientInitInv ==
  ASSUME IInv, NEW p \in Proc, NEW k \in Key, ClientInit(p, k)
  PROVE  IInv'
<1>1. /\ LP!SInv /\ Types
      /\ HandlerInv(p) /\ StreamInv(p) /\ SingleInv(p) /\ AliveInv(p)
  BY DEF IInv
<1>2. PICK ok \in BOOLEAN, sent \in BOOLEAN :
        /\ sent \/ Broken(p)
        /\ runs' = IF ok THEN [runs EXCEPT ![k] = @ + 1] ELSE runs
        /\ up' = IF sent
                 THEN [up EXCEPT ![p] =
                         @ \o <<[type |-> "init", key |-> k, ok |-> ok]>>
                           \o IF ok THEN << >> ELSE <<[type |-> "eof"]>>]
                 ELSE up
        /\ IF ok /\ sent
           THEN todo' = [todo EXCEPT ![p] = @ \ {k}] /\ UNCHANGED cli
           ELSE /\ todo' = [todo EXCEPT ![p] = {}]
                /\ cli' = [cli EXCEPT ![p] = "ended"]
  BY DEF ClientInit
<1> DEFINE m == [type |-> "init", key |-> k, ok |-> ok]
           rest == IF ok THEN << >> ELSE <<[type |-> "eof"]>>
           sq == (up[p] \o <<m>>) \o rest
<1>3. /\ cli[p] = "init" /\ k \in todo[p]
      /\ UNCHANGED <<lockerVars, params, down, handler, i>>
  BY DEF ClientInit
<1>4. UNCHANGED <<phase, req, initPending, once, done>>
  BY <1>3 DEF lockerVars
<1>5. up' = IF sent THEN [up EXCEPT ![p] = sq] ELSE up
  BY <1>2
<1>6. m \in Message /\ m.type = "init" /\ m.key = k /\ m.ok = ok
  BY Messages
<1>7. /\ rest \in Seq(Message)
      /\ \A n \in 1..Len(rest) : rest[n].type = "eof"
  BY Messages
<1>8. /\ sq \in Seq(Message)
      /\ \A n \in 1..Len(sq) :
           \/ n \in 1..Len(up[p]) /\ sq[n] = up[p][n]
           \/ n = Len(up[p]) + 1 /\ sq[n] = m
           \/ sq[n].type = "eof"
  <2> DEFINE one == up[p] \o <<m>>
  <2>1. up[p] \in Seq(Message) /\ <<m>> \in Seq(Message) /\ Len(up[p]) \in Nat
    BY <1>1, <1>6 DEF Types
  <2>2. /\ one \in Seq(Message)
        /\ \A n \in 1..Len(one) :
             \/ n \in 1..Len(up[p]) /\ one[n] = up[p][n]
             \/ n = Len(up[p]) + 1 /\ one[n] = m
    BY <2>1
  <2> HIDE DEF one, rest, m
  <2>3. /\ one \o rest \in Seq(Message)
        /\ \A n \in 1..Len(one \o rest) :
             \/ n \in 1..Len(one) /\ (one \o rest)[n] = one[n]
             \/ n - Len(one) \in 1..Len(rest) /\ (one \o rest)[n] = rest[n - Len(one)]
    BY <1>7, <2>2, SendSeq
  <2>4. sq = one \o rest
    BY DEF one
  <2> QED
    BY <1>7, <2>2, <2>3, <2>4
<1>9. ok => sq = up[p] \o <<m>>
  <2>1. up[p] \o <<m>> \in Seq(Message)
    BY <1>1, <1>6 DEF Types
  <2> QED
    BY <2>1
<1> HIDE DEF sq, rest, m
<1>10. /\ todo'[p] \subseteq todo[p] /\ k \notin todo'[p]
       /\ ok /\ sent => todo'[p] = todo[p] \ {k} /\ cli'[p] = "init"
       /\ ~ (ok /\ sent) => todo'[p] = {} /\ cli'[p] = "ended"
       /\ up'[p] = IF sent THEN sq ELSE up[p]
  <2>1. up'[p] = IF sent THEN sq ELSE up[p]
    BY <1>1, <1>5 DEF Types
  <2>2. CASE ok /\ sent
    <3>1. todo' = [todo EXCEPT ![p] = @ \ {k}] /\ cli' = cli
      BY <1>2, <2>2
    <3> QED
      BY <1>1, <1>3, <2>1, <2>2, <3>1 DEF Types
  <2>3. CASE ~ (ok /\ sent)
    <3>1. todo' = [todo EXCEPT ![p] = {}] /\ cli' = [cli EXCEPT ![p] = "ended"]
      BY <1>2, <2>3
    <3> QED
      BY <1>1, <2>1, <2>3, <3>1 DEF Types
  <2> QED
    BY <2>2, <2>3
<1>11. ASSUME NEW n \in 1..Len(up'[p])
       PROVE  \/ n \in 1..Len(up[p]) /\ up'[p][n] = up[p][n]
              \/ n = Len(up[p]) + 1 /\ up'[p][n] = m /\ sent
              \/ up'[p][n].type = "eof"
  BY <1>8, <1>10
<1>12. OthersKept(p)
  BY <1>1, <1>2, <1>3, <1>4, <1>5 DEF Types, OthersKept
<1>13. Types'
  <2>1. up' \in [Proc -> Seq(Message)]
    BY <1>1, <1>5, <1>8 DEF Types
  <2>2. runs' \in [Key -> Nat]
    BY <1>1, <1>2 DEF Types
  <2>3. todo' \in [Proc -> SUBSET Key] /\ cli' \in [Proc -> Cli]
    <3>1. CASE ok /\ sent
      <4>1. todo' = [todo EXCEPT ![p] = @ \ {k}] /\ cli' = cli
        BY <1>2, <3>1
      <4> QED
        BY <1>1, <4>1 DEF Types
    <3>2. CASE ~ (ok /\ sent)
      <4>1. todo' = [todo EXCEPT ![p] = {}] /\ cli' = [cli EXCEPT ![p] = "ended"]
        BY <1>2, <3>2
      <4> QED
        BY <1>1, <4>1 DEF Types, Cli
    <3> QED
      BY <3>1, <3>2
  <2> QED
    BY <1>1, <1>3, <2>1, <2>2, <2>3 DEF Types
<1>14. HandlerInv(p)' /\ SingleInv(p)'
  BY <1>1, <1>3, <1>4 DEF HandlerInv, SingleInv, Single
<1>15. /\ \A n \in 1..Len(up[p]) :
            /\ up[p][n].type # "acquire"
            /\ ~ (up[p][n].type = "init" /\ ~ up[p][n].ok)
       /\ handler[p] # "acquire"
  BY <1>1, <1>3 DEF StreamInv
<1>16. StreamInv(p)'
  <2>1. ASSUME NEW n \in 1..Len(up'[p]) PROVE up'[p][n].type # "acquire"
    BY <1>6, <1>11, <1>15
  <2>2. ASSUME NEW n \in 1..Len(up'[p]), up'[p][n].type = "init", ~ up'[p][n].ok
        PROVE  cli'[p] = "ended"
    BY <1>6, <1>10, <1>11, <1>15, <2>2
  <2>3. ASSUME handler[p] = "init"
        PROVE  /\ todo'[p] \subseteq initPending[p]
               /\ \A n \in 1..Len(up'[p]) : up'[p][n].type = "init" =>
                    up'[p][n].key \in initPending[p] \ todo'[p]
    <3>1. /\ todo[p] \subseteq initPending[p]
          /\ \A n \in 1..Len(up[p]) : up[p][n].type = "init" =>
               up[p][n].key \in initPending[p] \ todo[p]
      BY <1>1, <2>3 DEF StreamInv
    <3> QED
      BY <1>3, <1>6, <1>10, <1>11, <3>1
  <2>4. ASSUME handler[p] = "init", NEW a \in 1..Len(up'[p]), NEW b \in 1..Len(up'[p]),
               up'[p][a].type = "init", up'[p][b].type = "init",
               up'[p][a].key = up'[p][b].key
        PROVE  a = b
    <3>1. /\ \A n \in 1..Len(up[p]) : up[p][n].type = "init" => up[p][n].key # k
          /\ \A x, y \in 1..Len(up[p]) :
               /\ up[p][x].type = "init" /\ up[p][y].type = "init"
               /\ up[p][x].key = up[p][y].key
               => x = y
      BY <1>1, <1>3, <2>4 DEF StreamInv
    <3>2. \/ a \in 1..Len(up[p]) /\ up'[p][a] = up[p][a]
          \/ a = Len(up[p]) + 1 /\ up'[p][a] = m
      BY <1>11, <2>4
    <3>3. \/ b \in 1..Len(up[p]) /\ up'[p][b] = up[p][b]
          \/ b = Len(up[p]) + 1 /\ up'[p][b] = m
      BY <1>11, <2>4
    <3> QED
      BY <1>6, <2>4, <3>1, <3>2, <3>3
  <2>5. cli'[p] # "recv" /\ (cli'[p] # "init" => todo'[p] = {})
    BY <1>10
  <2> QED
    BY <1>3, <1>4, <1>15, <2>1, <2>2, <2>3, <2>4, <2>5 DEF StreamInv
<1>17. AliveInv(p)'
  <2> SUFFICES ASSUME Single(p), p \notin done, cli'[p] = "init"
               PROVE  /\ handler[p] = "init" /\ todo'[p] = {}
                      /\ initPending[p] = {k} /\ up'[p] = <<m>>
    BY <1>3, <1>4, <1>10 DEF AliveInv, Single, m
  <2>1. ok /\ sent
    BY <1>10
  <2>2. /\ handler[p] \in {"init", "clean", "wait"}
        /\ up[p] = << >> /\ todo[p] = initPending[p]
    BY <1>1, <1>3 DEF AliveInv
  <2>3. phase[p] = "held"
    BY <1>1, <2>2 DEF HandlerInv
  <2>4. initPending[p] = {k} /\ handler[p] = "init"
    BY <1>1, <1>3, <2>2, <2>3, OneTarget DEF SingleInv
  <2>5. up'[p] = << >> \o <<m>>
    BY <1>9, <1>10, <2>1, <2>2
  <2>6. << >> \o <<m>> = <<m>>
    OBVIOUS
  <2> QED
    BY <1>10, <2>1, <2>2, <2>4, <2>5, <2>6
<1>18. ASSUME NEW j \in Key \ Split PROVE ClaimInv(j)'
  <2>1. ClaimInv(j) /\ Claim(p, k)
    BY <1>3 DEF IInv, Claim
  <2>2. \A r \in Proc : r # p => (Claim(r, j)' <=> Claim(r, j))
    BY <1>1, <1>3, <1>12, Still, OtherClaims
  <2>3. ASSUME Claim(p, j)' PROVE Claim(p, j) /\ ~ (ok /\ j = k)
    <3>1. CASE cli'[p] = "init" /\ j \in todo'[p]
      BY <1>3, <1>10, <3>1 DEF Claim
    <3>2. ASSUME NEW n \in 1..Len(up'[p]),
                 up'[p][n].type = "init" /\ up'[p][n].key = j /\ ~ up'[p][n].ok
          PROVE  j = k /\ ~ ok
      BY <1>6, <1>11, <1>15, <3>2
    <3>3. handler'[p] # "acquire" /\ cli'[p] # "recv"
      BY <1>3, <1>10, <1>15
    <3> QED
      BY <2>1, <2>3, <3>1, <3>2, <3>3 DEF Claim
  <2>4. CASE ok /\ j = k
    <3>1. \A r \in Proc : ~ Claim(r, j)'
      BY <2>1, <2>2, <2>3, <2>4 DEF ClaimInv
    <3>2. once'[j] = "done"
      BY <1>4, <2>1, <2>4 DEF ClaimInv
    <3> QED
      BY <3>1, <3>2 DEF ClaimInv
  <2>5. CASE ~ (ok /\ j = k)
    <3>1. runs'[j] = runs[j] /\ once'[j] = once[j]
      BY <1>1, <1>2, <1>4, <2>5 DEF Types
    <3>2. \A r \in Proc : Claim(r, j)' => Claim(r, j)
      BY <2>2, <2>3
    <3> QED
      BY <2>1, <3>1, <3>2, ClaimFrame
  <2> QED
    BY <2>4, <2>5
<1> QED
  BY <1>1, <1>3, <1>4, <1>12, <1>13, <1>14, <1>16, <1>17, <1>18, Still, StepInv

-----------------------------------------------------------------------------
(* The steps of the Locker that the handler calls. *)

\* The context of the client ends.
LEMMA CtxDoneInv ==
  ASSUME IInv, NEW p \in Proc, CtxDone(p)
  PROVE  IInv'
<1>1. /\ LP!SInv /\ Types
      /\ HandlerInv(p) /\ StreamInv(p) /\ SingleInv(p) /\ AliveInv(p)
  BY DEF IInv
<1>2. ServerStep(p)
  BY DEF CtxDone, ServerStep, L!CtxDone, L!lockVars, L!useVars, clientVars
<1>3. /\ LP!SInv' /\ LP!OnceStep(p) /\ runs' = runs /\ done \subseteq done'
  BY <1>1, <1>2, ServerStepInv
<1>4. /\ UNCHANGED <<phase, req, initPending, once>>
      /\ UNCHANGED <<cli, params, todo, up, down, handler, i>>
  BY DEF CtxDone, L!A!CtxDone, clientVars
<1>5. OthersKept(p) /\ Types'
  BY <1>1, <1>3, <1>4 DEF Types, OthersKept
<1>6. HandlerInv(p)' /\ SingleInv(p)'
  BY <1>1, <1>3, <1>4 DEF HandlerInv, SingleInv, Single
<1>7. StreamInv(p)'
  BY <1>1, <1>4 DEF StreamInv
<1>8. AliveInv(p)'
  BY <1>1, <1>3, <1>4 DEF AliveInv, Single
<1>9. ASSUME NEW k \in Key \ Split PROVE ClaimInv(k)'
  <2>1. Claim(p, k)' => Claim(p, k) \/ (handler[p] = "acquire" /\ LP!Pending(p, k)')
    BY <1>4 DEF Claim
  <2> QED
    BY <1>3, <1>5, <2>1, ClaimStep DEF IInv
<1> QED
  BY <1>3, <1>5, <1>6, <1>7, <1>8, <1>9, StepInv

\* The handler calls AcquireContainerLock, with the params of the client.
LEMMA AcquireInv ==
  ASSUME IInv, NEW p \in Proc, Acquire(p)
  PROVE  IInv'
<1>1. /\ LP!SInv /\ Types /\ LP!CallInv(p)
      /\ HandlerInv(p) /\ StreamInv(p) /\ SingleInv(p) /\ AliveInv(p)
  BY DEF IInv, LP!SInv
<1>2. /\ handler[p] = "recv" /\ up[p] # << >> /\ Head(up[p]).type = "acquire"
      /\ L!Call(p) /\ req'[p] = Head(up[p]).req
      /\ up' = [up EXCEPT ![p] = Tail(@)]
      /\ handler' = [handler EXCEPT ![p] = "acquire"]
      /\ UNCHANGED <<cli, params, todo, down, i>>
  BY DEF Acquire, Received, Read, Goto
<1>3. /\ LP!SInv' /\ LP!OnceStep(p) /\ LP!CallsKept(p)
      /\ runs' = runs /\ done \subseteq done'
  BY <1>1, <1>2, ServerStepInv DEF ServerStep
<1>4. /\ up[p] = <<[type |-> "acquire", req |-> params[p]]>>
      /\ cli[p] \in {"recv", "ended"} /\ down[p] = << >>
  <2>1. up[p] \in Seq(Message)
    BY <1>1 DEF Types
  <2>2. 1 \in 1..Len(up[p]) /\ up[p][1].type = "acquire"
    BY <1>2, <2>1, ReadSeq
  <2> QED
    BY <1>1, <2>2 DEF StreamInv
<1>5. Head(up[p]).req = params[p] /\ Tail(up[p]) = << >>
  BY <1>4
<1>6. phase' = [phase EXCEPT ![p] = "queued"] /\ UNCHANGED <<job, done>> /\ at' = at
  BY <1>2 DEF L!Call, L!A!Accept
<1>7. /\ phase'[p] = "queued" /\ req'[p] = params[p] /\ up'[p] = << >>
      /\ handler'[p] = "acquire"
  BY <1>1, <1>2, <1>5, <1>6 DEF Types, LP!SInv, LP!TypeOKUse
<1>8. OthersKept(p)
  BY <1>1, <1>2, <1>3 DEF Types, OthersKept, LP!CallsKept
<1>9. Types'
  <2>1. up' \in [Proc -> Seq(Message)]
    BY <1>1, <1>2, <1>5 DEF Types
  <2> QED
    BY <1>1, <1>2, <1>3, <2>1 DEF Types, HandlerAt
<1>10. HandlerInv(p)' /\ SingleInv(p)'
  BY <1>2, <1>7 DEF HandlerInv, SingleInv
<1>11. StreamInv(p)' /\ AliveInv(p)'
  BY <1>1, <1>2, <1>4, <1>7, SMTT(30) DEF StreamInv, AliveInv
<1>12. ASSUME NEW k \in Key \ Split PROVE ClaimInv(k)'
  <2>1. ~ LP!Pending(p, k)'
    BY <1>1, <1>2, <1>6, <1>7 DEF LP!Pending, LP!CallInv, HandlerInv
  <2>2. ~ Claim(p, k)'
    BY <1>2, <1>4, <1>7, <2>1 DEF Claim
  <2> QED
    BY <1>3, <1>8, <2>2, ClaimStep DEF IInv
<1> QED
  BY <1>3, <1>8, <1>9, <1>10, <1>11, <1>12, StepInv

\* How AcquireContainerLock goes on.
LEMMA LockingSteps ==
  ASSUME LP!SInv, NEW p \in Proc, Locking(p)
  PROVE  /\ ServerStep(p) /\ req' = req
         /\ \/ phase' = phase
            \/ /\ phase[p] \in {"queued", "locking"}
               /\ phase'[p] \in {"locking", "held", "left", "undo"}
<1>1. LP!TypeOKUse
  BY DEF LP!SInv
<1>2. CASE L!Queue(p)
  BY <1>1, <1>2 DEF ServerStep, LP!TypeOKUse, L!Queue, L!A!GiveUp, L!A!Start,
                    L!A!Acquired, L!A!Undo, L!A!Waited
<1>3. ASSUME NEW k \in Key,
             \/ L!DoOnce(p, k) \/ L!SkipOnce(p, k) \/ L!OnceDone(p, k)
             \/ L!PlainLock(p, k)
      PROVE  req' = req /\ phase' = phase
  BY <1>3 DEF L!DoOnce, L!SkipOnce, L!OnceDone, L!PlainLock, L!acquirerVars
<1>4. ASSUME NEW k \in Key,
             L!InitLocked(p, k) \/ L!PlainLocked(p, k) \/ L!LockError(p, k)
      PROVE  req' = req /\ phase' = phase
  BY <1>4 DEF L!InitLocked, L!PlainLocked, L!LockError, L!A!NotifyLock, L!A!LockFailed
<1> QED
  BY <1>2, <1>3, <1>4 DEF Locking, ServerStep

LEMMA LockingInv ==
  ASSUME IInv, NEW p \in Proc, Locking(p)
  PROVE  IInv'
<1>1. /\ LP!SInv /\ Types
      /\ HandlerInv(p) /\ StreamInv(p) /\ SingleInv(p) /\ AliveInv(p)
  BY DEF IInv
<1>2. handler[p] = "acquire" /\ UNCHANGED <<cli, params, todo, up, down, handler, i>>
  BY DEF Locking
<1>3. /\ ServerStep(p) /\ req' = req
      /\ \/ phase' = phase
         \/ /\ phase[p] \in {"queued", "locking"}
            /\ phase'[p] \in {"locking", "held", "left", "undo"}
  BY <1>1, LockingSteps
<1>4. /\ LP!SInv' /\ LP!OnceStep(p) /\ LP!CallsKept(p)
      /\ runs' = runs /\ done \subseteq done'
  BY <1>1, <1>3, ServerStepInv
<1>5. OthersKept(p) /\ Types'
  BY <1>1, <1>2, <1>4 DEF Types, OthersKept, LP!CallsKept
<1>6. HandlerInv(p)'
  BY <1>1, <1>2, <1>3, <1>4 DEF HandlerInv
<1>7. SingleInv(p)' /\ StreamInv(p)' /\ AliveInv(p)'
  BY <1>1, <1>2 DEF SingleInv, StreamInv, AliveInv
<1>8. ASSUME NEW k \in Key \ Split PROVE ClaimInv(k)'
  <2>1. Claim(p, k)' => Claim(p, k) \/ (handler[p] = "acquire" /\ LP!Pending(p, k)')
    BY <1>2 DEF Claim
  <2> QED
    BY <1>4, <1>5, <2>1, ClaimStep DEF IInv
<1> QED
  BY <1>4, <1>5, <1>6, <1>7, <1>8, StepInv

\* The Unlocks, and the return, of release or of a failed AcquireContainerLock.
LEMMA UnlockInv ==
  ASSUME IInv, NEW p \in Proc, Unlock(p)
  PROVE  IInv'
<1>1. /\ LP!SInv /\ Types /\ LP!CallInv(p)
      /\ HandlerInv(p) /\ StreamInv(p) /\ SingleInv(p) /\ AliveInv(p)
  BY DEF IInv, LP!SInv
<1>2. /\ L!Return(p) \/ \E k \in Key : L!UnlockKey(p, k)
      /\ UNCHANGED <<cli, params, todo, up, down, handler, i>>
  BY DEF Unlock
<1>3. /\ LP!SInv' /\ LP!OnceStep(p) /\ LP!CallsKept(p)
      /\ runs' = runs /\ done \subseteq done'
  BY <1>1, <1>2, ServerStepInv DEF ServerStep
<1>4. /\ phase[p] \in {"release", "undo"}
      /\ phase' = phase \/ phase' = [phase EXCEPT ![p] = "out"]
  BY <1>2 DEF L!Return, L!UnlockKey, L!A!Return, L!A!UnlockKey
<1>5. phase'[p] \in {phase[p], "out"}
  BY <1>1, <1>4 DEF LP!SInv, LP!TypeOKUse
<1>6. OthersKept(p) /\ Types'
  BY <1>1, <1>2, <1>3 DEF Types, OthersKept, LP!CallsKept
<1>7. handler[p] \in {"acquire", "again", "end"}
  BY <1>1, <1>4 DEF HandlerInv, Types, HandlerAt
<1>8. HandlerInv(p)'
  <2>1. phase[p] = "undo" => p \in done
    BY <1>1 DEF LP!CallInv
  <2> QED
    BY <1>1, <1>2, <1>3, <1>4, <1>5, <1>7, <2>1 DEF HandlerInv
<1>9. SingleInv(p)' /\ StreamInv(p)' /\ AliveInv(p)'
  <2>1. done \subseteq done'
    BY <1>3
  <2> QED
    BY <1>1, <1>2, <1>7, <2>1 DEF SingleInv, StreamInv, AliveInv, Single
<1>10. ASSUME NEW k \in Key \ Split PROVE ClaimInv(k)'
  <2>1. Claim(p, k)' => Claim(p, k) \/ (handler[p] = "acquire" /\ LP!Pending(p, k)')
    BY <1>2 DEF Claim
  <2> QED
    BY <1>3, <1>6, <2>1, ClaimStep DEF IInv
<1> QED
  BY <1>3, <1>6, <1>8, <1>9, <1>10, StepInv

\* The counter of a loop that has ended is forgotten.
LEMMA CounterKept ==
  ASSUME Types, NEW p \in Proc, i' = i \/ i' = [i EXCEPT ![p] = 0]
  PROVE  i' \in [Proc -> Nat] /\ \A r \in Proc : r # p => i'[r] = i[r]
<1>1. i \in [Proc -> Nat]
  BY DEF Types
<1> QED
  BY <1>1

\* release(): whoever lives and has one init at most has asked for it.
LEMMA ReleaseInv ==
  ASSUME IInv, NEW p \in Proc, NEW then \in {"again", "end"}, Release(p, then),
         handler[p] \notin {"recv", "none"}, i' = i \/ i' = [i EXCEPT ![p] = 0],
         up' = up \/ (up[p] # << >> /\ Read(p)),
         Single(p) /\ p \notin done => cli[p] \notin {"recv", "init", "using"}
  PROVE  IInv'
<1>1. /\ LP!SInv /\ Types
      /\ HandlerInv(p) /\ StreamInv(p) /\ SingleInv(p) /\ AliveInv(p)
  BY DEF IInv
<1>2. /\ L!A!Release(p)
      /\ handler' = [handler EXCEPT ![p] = then]
      /\ UNCHANGED <<st, cur, waiters, once, req, at, initPending, downgraded,
                     initErr, cli, params, todo, runs, down>>
  BY DEF Release, Goto, clientVars
<1>3. LP!SInv' /\ LP!OnceStep(p)
  <2>1. LP!A!Release(p)
    BY <1>2, SameAcquirer
  <2>2. UNCHANGED <<LP!lockVars, LP!useVars, once, req, at>>
    BY <1>2 DEF LP!lockVars, LP!useVars
  <2> QED
    BY <1>1, <2>1, <2>2, Assumptions, LP!ReleaseInvariant
<1>4. phase' = [phase EXCEPT ![p] = "release"] /\ done' = done
  BY <1>2 DEF L!A!Release
<1>5. phase'[p] = "release" /\ handler'[p] = then
  BY <1>1, <1>2, <1>4 DEF Types, LP!SInv, LP!TypeOKUse
<1>6. /\ up' \in [Proc -> Seq(Message)]
      /\ \A r \in Proc : r # p => up'[r] = up[r]
      /\ \A n \in 1..Len(up'[p]) : \E m \in 1..Len(up[p]) : up'[p][n] = up[p][m]
  <2>1. CASE up' = up
    BY <1>1, <2>1 DEF Types
  <2>2. CASE up[p] # << >> /\ Read(p)
    <3>1. up' = [up EXCEPT ![p] = Tail(up[p])] /\ up[p] \in Seq(Message)
      BY <1>1, <2>2 DEF Read, Types
    <3>2. /\ Tail(up[p]) \in Seq(Message)
          /\ \A n \in 1..Len(Tail(up[p])) :
               n + 1 \in 1..Len(up[p]) /\ Tail(up[p])[n] = up[p][n + 1]
      BY <2>2, <3>1, ReadSeq
    <3>3. /\ up' \in [Proc -> Seq(Message)] /\ up'[p] = Tail(up[p])
          /\ \A r \in Proc : r # p => up'[r] = up[r]
      BY <1>1, <3>1, <3>2 DEF Types
    <3> QED
      BY <3>2, <3>3
  <2> QED
    BY <2>1, <2>2
<1>0. i' \in [Proc -> Nat] /\ \A r \in Proc : r # p => i'[r] = i[r]
  BY <1>1, CounterKept
<1>7. OthersKept(p)
  BY <1>0, <1>1, <1>2, <1>4, <1>6 DEF Types, OthersKept, LP!SInv, LP!TypeOKUse
<1>8. Types'
  BY <1>0, <1>1, <1>2, <1>6 DEF Types, HandlerAt
<1>9. HandlerInv(p)' /\ SingleInv(p)'
  BY <1>5 DEF HandlerInv, SingleInv
<1>10. StreamInv(p)'
  <2>1. \A n \in 1..Len(up[p]) : up[p][n].type # "acquire"
    BY <1>1 DEF StreamInv
  <2>2. handler'[p] \notin {"acquire", "init"} /\ cli' = cli /\ todo' = todo
    BY <1>2, <1>5
  <2>3. /\ cli[p] # "init" => todo[p] = {}
        /\ \A n \in 1..Len(up[p]) :
             up[p][n].type = "init" /\ ~ up[p][n].ok => cli[p] = "ended"
    BY <1>1 DEF StreamInv
  <2>4. \A n \in 1..Len(up'[p]) :
          /\ up'[p][n].type # "acquire"
          /\ up'[p][n].type = "init" /\ ~ up'[p][n].ok => cli[p] = "ended"
    BY <1>6, <2>1, <2>3
  <2> QED
    BY <2>2, <2>3, <2>4 DEF StreamInv
<1>11. AliveInv(p)'
  BY <1>2, <1>4 DEF AliveInv, Single
<1>12. ASSUME NEW k \in Key \ Split PROVE ClaimInv(k)'
  <2>1. Claim(p, k)' => Claim(p, k)
    BY <1>2, <1>5 DEF Claim
  <2> QED
    BY <1>2, <1>3, <1>7, <2>1, ClaimStep DEF IInv
<1> QED
  BY <1>3, <1>4, <1>7, <1>8, <1>9, <1>10, <1>11, <1>12, StepInv

-----------------------------------------------------------------------------
(* The rest of the handler: what it does between two calls of the Locker.    *)

\* Whoever lives and has one init at most is not waited for when the stream ends.
LEMMA StreamEnds ==
  ASSUME IInv, NEW p \in Proc, handler[p] \in {"init", "wait"},
         RecvError(p) \/ Received(p, "release"), Single(p), p \notin done
  PROVE  cli[p] \notin {"recv", "init", "using"}
<1>1. AliveInv(p)
  BY DEF IInv
<1>2. up[p] # << >> /\ Head(up[p]).type \in {"eof", "release"}
  BY DEF RecvError, Received
<1>3. \A k \in Key : up[p] # <<[type |-> "init", key |-> k, ok |-> TRUE]>>
  <2>1. \A k \in Key : Head(<<[type |-> "init", key |-> k, ok |-> TRUE]>>).type = "init"
    OBVIOUS
  <2> QED
    BY <1>2, <2>1
<1> QED
  BY <1>1, <1>2, <1>3 DEF AliveInv

LEMMA ReleaseStepsInv ==
  ASSUME IInv, NEW p \in Proc,
         \/ SendError(p) \/ InitError(p) \/ Failed(p) \/ WaitError(p) \/ WaitRelease(p)
  PROVE  IInv'
<1>1. AliveInv(p)
  BY DEF IInv
<1>2. CASE SendError(p)
  BY <1>2, ReleaseInv DEF SendError
<1>3. CASE InitError(p)
  BY <1>3, StreamEnds, ReleaseInv DEF InitError, InitLoop
<1>4. CASE Failed(p)
  BY <1>1, <1>4, ReleaseInv DEF Failed, AliveInv
<1>5. CASE WaitError(p)
  BY <1>5, StreamEnds, ReleaseInv DEF WaitError
<1>6. CASE WaitRelease(p)
  <2>1. up[p] # << >>
    BY <1>6 DEF WaitRelease, Received
  <2> QED
    BY <1>6, <2>1, StreamEnds, ReleaseInv DEF WaitRelease
<1> QED
  BY <1>2, <1>3, <1>4, <1>5, <1>6

\* The handler goes on, and nothing else happens.
LEMMA GotoInv ==
  ASSUME IInv, NEW p \in Proc, NEW w \in HandlerAt \ {"acquire", "init"}, Goto(p, w),
         UNCHANGED <<lockerVars, clientVars, up, down>>,
         i' = i \/ i' = [i EXCEPT ![p] = 0],
         HandlerInv(p)', SingleInv(p)', AliveInv(p)',
         \A n \in 1..Len(up[p]) : up[p][n].type = "acquire" => w \in {"recv", "none"}
  PROVE  IInv'
<1>1. LP!SInv /\ Types /\ StreamInv(p)
  BY DEF IInv
<1>2. handler' = [handler EXCEPT ![p] = w] /\ handler'[p] = w
  BY <1>1 DEF Goto, Types
<1>3. UNCHANGED <<phase, req, initPending, done, cli, params, todo, runs>>
  BY DEF lockerVars, clientVars
<1>0. i' \in [Proc -> Nat] /\ \A r \in Proc : r # p => i'[r] = i[r]
  BY <1>1, CounterKept
<1>4. OthersKept(p) /\ Types'
  <2>1. Types'
    BY <1>0, <1>1, <1>2, <1>3 DEF Types
  <2>2. OthersKept(p)
    BY <1>0, <1>1, <1>2, <1>3 DEF Types, OthersKept
  <2> QED
    BY <2>1, <2>2
<1>5. StreamInv(p)'
  BY <1>1, <1>2, <1>3 DEF StreamInv
<1>6. \A k \in Key : Claim(p, k)' => Claim(p, k)
  BY <1>2, <1>3 DEF Claim
<1> QED
  BY <1>3, <1>4, <1>5, <1>6, StillInv

LEMMA GotoStepsInv ==
  ASSUME IInv, NEW p \in Proc,
         \/ Stop(p) \/ AcquireError(p) \/ InitLoopEnds(p) \/ Succeeded(p) \/ Released(p)
  PROVE  IInv'
<1>1. /\ LP!SInv /\ Types /\ LP!CallInv(p)
      /\ HandlerInv(p) /\ StreamInv(p) /\ SingleInv(p) /\ AliveInv(p)
  BY DEF IInv, LP!SInv
<1>2. PICK w \in HandlerAt \ {"acquire", "init"} :
        /\ Goto(p, w) /\ UNCHANGED <<lockerVars, clientVars, up, down>>
        /\ i' = i \/ i' = [i EXCEPT ![p] = 0]
  BY DEF Stop, AcquireError, InitLoopEnds, Succeeded, Released, HandlerAt
<1>3. handler'[p] = w
  BY <1>1, <1>2 DEF Goto, Types
<1>4. UNCHANGED <<phase, req, initPending, done, cli, params, todo>>
  BY <1>2 DEF lockerVars, clientVars
<1>5. CASE Stop(p)
  <2>1. handler[p] = "recv" /\ w = "none"
    BY <1>1, <1>3, <1>5 DEF Stop, Goto, Types
  <2>2. p \in done \/ (up[p] # << >> /\ Head(up[p]).type # "acquire")
    BY <1>5 DEF Stop
  <2>3. HandlerInv(p)' /\ SingleInv(p)'
    BY <1>1, <1>3, <1>4, <2>1 DEF HandlerInv, SingleInv
  <2>4. AliveInv(p)'
    BY <1>1, <1>3, <1>4, <2>1, <2>2 DEF AliveInv, Single
  <2> QED
    BY <1>2, <2>1, <2>3, <2>4, GotoInv
<1>6. CASE AcquireError(p)
  <2>1. handler[p] = "acquire" /\ w = "none" /\ phase[p] \in {"out", "left"}
    BY <1>1, <1>3, <1>6 DEF AcquireError, Goto, Types
  <2>2. p \in done
    BY <1>1, <2>1 DEF HandlerInv, LP!CallInv
  <2>3. HandlerInv(p)' /\ SingleInv(p)' /\ AliveInv(p)'
    BY <1>1, <1>3, <1>4, <2>1, <2>2 DEF HandlerInv, SingleInv, AliveInv
  <2> QED
    BY <1>2, <2>1, <2>3, GotoInv
<1>7. CASE InitLoopEnds(p)
  <2>1. handler[p] = "init" /\ w = "clean" /\ ~ (i[p] < Cardinality(initPending[p]))
    BY <1>1, <1>3, <1>7 DEF InitLoopEnds, InitLoop, Goto, Types
  <2>2. phase[p] = "held"
    BY <1>1, <2>1 DEF HandlerInv
  <2>3. Single(p) => initPending[p] = {}
    <3> SUFFICES ASSUME Single(p), NEW k \in initPending[p] PROVE FALSE
      OBVIOUS
    <3>1. initPending[p] = {k}
      BY <1>1, <2>2, OneTarget
    <3>2. i[p] = 0
      BY <1>1, <2>1 DEF SingleInv
    <3>3. Cardinality({k}) = 1
      BY FS_Singleton
    <3> QED
      BY <2>1, <3>1, <3>2, <3>3
  <2>4. HandlerInv(p)' /\ SingleInv(p)'
    BY <1>1, <1>3, <1>4, <2>1, <2>2, <2>3 DEF HandlerInv, SingleInv, Single
  <2>5. AliveInv(p)'
    BY <1>1, <1>2, <1>3, <1>4, <2>1, <2>3 DEF AliveInv, Single
  <2>6. \A n \in 1..Len(up[p]) : up[p][n].type # "acquire"
    BY <1>1, <2>1 DEF StreamInv
  <2> QED
    BY <1>2, <2>4, <2>5, <2>6, GotoInv
<1>8. CASE Succeeded(p)
  <2>1. handler[p] = "clean" /\ w = "wait" /\ initPending[p] = {}
    BY <1>1, <1>3, <1>8 DEF Succeeded, Goto, Types
  <2>2. HandlerInv(p)' /\ SingleInv(p)'
    BY <1>1, <1>3, <1>4, <2>1 DEF HandlerInv, SingleInv
  <2>3. AliveInv(p)'
    BY <1>1, <1>2, <1>3, <1>4, <2>1 DEF AliveInv, Single
  <2>4. \A n \in 1..Len(up[p]) : up[p][n].type # "acquire"
    BY <1>1, <2>1 DEF StreamInv
  <2> QED
    BY <1>2, <2>2, <2>3, <2>4, GotoInv
<1>9. CASE Released(p)
  <2>1. handler[p] \in {"end", "again"} /\ w \in {"none", "recv"} /\ phase[p] = "out"
    BY <1>1, <1>3, <1>9 DEF Released, Goto, Types
  <2>2. HandlerInv(p)' /\ SingleInv(p)' /\ AliveInv(p)'
    BY <1>1, <1>3, <1>4, <2>1 DEF HandlerInv, SingleInv, AliveInv, Single
  <2> QED
    BY <1>2, <2>1, <2>2, GotoInv
<1> QED
  BY <1>5, <1>6, <1>7, <1>8, <1>9

\* The answer is sent: the client may now run the inits that the handler has.
LEMMA SendInv ==
  ASSUME IInv, NEW p \in Proc, Send(p)
  PROVE  IInv'
<1>1. /\ LP!SInv /\ Types
      /\ HandlerInv(p) /\ StreamInv(p) /\ SingleInv(p) /\ AliveInv(p)
  BY DEF IInv
<1>2. /\ handler[p] = "acquire" /\ phase[p] = "held"
      /\ down' = [down EXCEPT ![p] = <<initPending[p]>>]
      /\ i' = [i EXCEPT ![p] = 0]
      /\ handler' = [handler EXCEPT ![p] = "init"]
      /\ UNCHANGED <<lockerVars, cli, params, todo, runs, up>>
  BY DEF Send, Goto, clientVars
<1>3. UNCHANGED <<phase, req, initPending, done>>
  BY <1>2 DEF lockerVars
<1>4. /\ up[p] = << >> /\ cli[p] \in {"recv", "ended"} /\ todo[p] = {}
  BY <1>1, <1>2 DEF StreamInv
<1>5. /\ down'[p] = <<initPending[p]>> /\ i'[p] = 0 /\ handler'[p] = "init"
  BY <1>1, <1>2 DEF Types
<1>6. OthersKept(p)
  BY <1>1, <1>2, <1>3 DEF Types, OthersKept
<1>7. Types'
  <2>1. initPending[p] \in SUBSET Key
    BY <1>1, <1>2, Targets
  <2>2. <<initPending[p]>> \in Seq(SUBSET Key)
    BY <2>1
  <2>3. down' \in [Proc -> Seq(SUBSET Key)]
    BY <1>1, <1>2, <2>2 DEF Types
  <2> QED
    BY <1>1, <1>2, <2>3 DEF Types, HandlerAt
<1>8. HandlerInv(p)' /\ SingleInv(p)'
  BY <1>1, <1>2, <1>3, <1>5 DEF HandlerInv, SingleInv
<1>9. StreamInv(p)' /\ AliveInv(p)'
  BY <1>2, <1>3, <1>4, <1>5 DEF StreamInv, AliveInv
<1>10. ASSUME NEW k \in Key, Claim(p, k)' PROVE Claim(p, k)
  <2>1. Head(down'[p]) = initPending[p]
    BY <1>5
  <2>2. k \in initPending[p]
    BY <1>2, <1>4, <1>5, <1>10, <2>1 DEF Claim
  <2> QED
    BY <1>2, <2>2 DEF Claim, LP!Pending
<1> QED
  BY <1>2, <1>6, <1>7, <1>8, <1>9, <1>10, StillInv

\* SetInitResult by the handler is the one that LockerProofs is about.
LEMMA ResultInv ==
  ASSUME IInv, NEW p \in Proc, NEW k \in Key, NEW ok \in BOOLEAN,
         phase[p] = "held", k \in initPending[p], L!SetInitResult(p, k, ok),
         UNCHANGED <<queue, set, proceed, phase, job, done, req, at, initErr>>
  PROVE  /\ LP!SInv'
         /\ initPending' = [initPending EXCEPT ![p] = @ \ {k}]
         /\ once' = IF ok THEN once ELSE [once EXCEPT ![k] = "fresh"]
         /\ \A r \in Proc, j \in Key : r # p => (LP!Pending(r, j)' <=> LP!Pending(r, j))
<1>1. LP!SetInitResult(p, k, ok)
  BY SameLock, SameVars DEF L!SetInitResult, LP!SetInitResult
<1>2. UNCHANGED <<LP!acquirerVars, req, at>> /\ initErr' = initErr
  BY DEF LP!acquirerVars
<1>3. LP!SInv
  BY DEF IInv
<1> QED
  BY <1>1, <1>2, <1>3, Assumptions, LP!SetInitResultInvariant

(* The result of an init arrives.  A failure sets the Once free, and by then   *)
(* the client has ended its call.                                            *)
LEMMA InitResultInv ==
  ASSUME IInv, NEW p \in Proc, InitResult(p)
  PROVE  IInv'
<1> DEFINE k == up[p][1].key
           ok == up[p][1].ok
<1>1. /\ LP!SInv /\ Types
      /\ HandlerInv(p) /\ StreamInv(p) /\ SingleInv(p) /\ AliveInv(p)
  BY DEF IInv
<1>2. /\ handler[p] = "init" /\ up[p] # << >> /\ Head(up[p]).type = "init"
      /\ L!SetInitResult(p, Head(up[p]).key, Head(up[p]).ok)
      /\ handler' = [handler EXCEPT ![p] = IF Head(up[p]).ok THEN "init" ELSE "clean"]
      /\ i' = [i EXCEPT ![p] = IF Head(up[p]).ok THEN @ + 1 ELSE 0]
      /\ up' = [up EXCEPT ![p] = Tail(up[p])]
      /\ UNCHANGED <<queue, set, proceed, phase, job, done, req, at, initErr,
                     cli, params, todo, runs, down>>
  BY DEF InitResult, InitLoop, Received, Read, Goto, clientVars
<1>3. /\ Tail(up[p]) \in Seq(Message) /\ 1 \in 1..Len(up[p]) /\ Head(up[p]) = up[p][1]
      /\ up[p][1] \in Message
      /\ \A n \in 1..Len(Tail(up[p])) :
           n + 1 \in 1..Len(up[p]) /\ Tail(up[p])[n] = up[p][n + 1] /\ n + 1 # 1
  <2>1. up[p] \in Seq(Message)
    BY <1>1 DEF Types
  <2>2. /\ Tail(up[p]) \in Seq(Message) /\ 1 \in 1..Len(up[p]) /\ Head(up[p]) = up[p][1]
        /\ Head(up[p]) \in Message
        /\ \A n \in 1..Len(Tail(up[p])) :
             n + 1 \in 1..Len(up[p]) /\ Tail(up[p])[n] = up[p][n + 1]
    BY <1>2, <2>1, ReadSeq
  <2>3. \A n \in 1..Len(Tail(up[p])) : n + 1 # 1
    BY <2>2
  <2> QED
    BY <2>2, <2>3
<1>4. k \in Key /\ ok \in BOOLEAN
  BY <1>2, <1>3, MessageTyped
<1>5. /\ k \in initPending[p] /\ k \notin todo[p] /\ cli[p] # "recv"
      /\ ~ ok => cli[p] = "ended"
  BY <1>1, <1>2, <1>3 DEF StreamInv
<1>6. phase[p] = "held"
  BY <1>1, <1>2 DEF HandlerInv
<1>7. /\ LP!SInv'
      /\ initPending' = [initPending EXCEPT ![p] = @ \ {k}]
      /\ once' = IF ok THEN once ELSE [once EXCEPT ![k] = "fresh"]
      /\ \A r \in Proc, j \in Key : r # p => (LP!Pending(r, j)' <=> LP!Pending(r, j))
  <2>1. L!SetInitResult(p, k, ok)
    BY <1>2, <1>3
  <2> HIDE DEF k, ok
  <2> QED
    BY <1>2, <1>4, <1>5, <1>6, <2>1, ResultInv
<1>8. /\ initPending'[p] = initPending[p] \ {k} /\ up'[p] = Tail(up[p])
      /\ handler'[p] = IF ok THEN "init" ELSE "clean"
  BY <1>1, <1>2, <1>3, <1>7, SMTT(30) DEF Types, LP!SInv, LP!TypeOKUse
<1>9. OthersKept(p)
  BY <1>1, <1>2, <1>7, SMTT(30) DEF Types, OthersKept, LP!SInv, LP!TypeOKUse
<1>10. Types'
  <2>1. up' \in [Proc -> Seq(Message)]
    BY <1>1, <1>2, <1>3 DEF Types
  <2>2. handler' \in [Proc -> HandlerAt]
    BY <1>1, <1>2 DEF Types, HandlerAt
  <2> QED
    BY <1>1, <1>2, <2>1, <2>2, SMTT(30) DEF Types
<1>11. Single(p) => initPending'[p] = {}
  BY <1>1, <1>5, <1>6, <1>8, OneTarget
<1>12. HandlerInv(p)' /\ SingleInv(p)'
  BY <1>1, <1>2, <1>6, <1>8, <1>11 DEF HandlerInv, SingleInv, Single
<1>13. StreamInv(p)'
  <2>1. ASSUME NEW n \in 1..Len(up'[p])
        PROVE  /\ n + 1 \in 1..Len(up[p]) /\ up'[p][n] = up[p][n + 1]
               /\ up'[p][n].type # "acquire"
               /\ up'[p][n].type = "init" /\ ~ up'[p][n].ok => cli[p] = "ended"
               /\ up'[p][n].type = "init" => up'[p][n].key \in initPending'[p] \ todo[p]
    <3>1. n + 1 \in 1..Len(up[p]) /\ up'[p][n] = up[p][n + 1] /\ n + 1 # 1
      BY <1>3, <1>8
    <3>2. /\ up[p][n + 1].type # "acquire"
          /\ up[p][n + 1].type = "init" /\ ~ up[p][n + 1].ok => cli[p] = "ended"
          /\ up[p][n + 1].type = "init" =>
               up[p][n + 1].key \in initPending[p] \ todo[p] /\ up[p][n + 1].key # k
      BY <1>1, <1>2, <1>3, <3>1 DEF StreamInv
    <3> QED
      BY <1>8, <3>1, <3>2
  <2>2. ASSUME NEW a \in 1..Len(up'[p]), NEW b \in 1..Len(up'[p]),
               up'[p][a].type = "init", up'[p][b].type = "init",
               up'[p][a].key = up'[p][b].key
        PROVE  a = b
    <3>1. a + 1 = b + 1
      BY <1>1, <1>2, <2>1, <2>2 DEF StreamInv
    <3>2. a \in Int /\ b \in Int
      BY <1>3, <1>8
    <3> QED
      BY <3>1, <3>2
  <2>3. todo[p] \subseteq initPending'[p] /\ (cli[p] # "init" => todo[p] = {})
    BY <1>1, <1>2, <1>5, <1>8 DEF StreamInv
  <2>4. /\ handler'[p] \in {"init", "clean"} /\ cli'[p] = cli[p] /\ cli[p] # "recv"
        /\ todo'[p] = todo[p]
    BY <1>2, <1>5, <1>8
  <2>5. /\ \A n \in 1..Len(up'[p]) :
             /\ up'[p][n].type # "acquire"
             /\ up'[p][n].type = "init" /\ ~ up'[p][n].ok => cli'[p] = "ended"
             /\ up'[p][n].type = "init" =>
                  up'[p][n].key \in initPending'[p] \ todo'[p]
        /\ \A a, b \in 1..Len(up'[p]) :
             /\ up'[p][a].type = "init" /\ up'[p][b].type = "init"
             /\ up'[p][a].key = up'[p][b].key
             => a = b
    BY <2>1, <2>2, <2>4
  <2> HIDE DEF k, ok
  <2> QED
    BY <2>3, <2>4, <2>5 DEF StreamInv
<1>14. AliveInv(p)'
  <2> SUFFICES ASSUME Single(p), p \notin done, cli[p] \in {"init", "using"}
               PROVE  /\ handler'[p] = "init"
                      /\ up'[p] = << >> /\ todo[p] = initPending'[p]
    BY <1>2, <1>5 DEF AliveInv, Single
  <2>1. PICK j \in Key : up[p] = <<[type |-> "init", key |-> j, ok |-> TRUE]>>
    BY <1>1, <1>2 DEF AliveInv
  <2>2. todo[p] = {}
    BY <1>1, <1>2 DEF AliveInv
  <2>3. ok /\ Tail(up[p]) = << >>
    BY <2>1
  <2> QED
    BY <1>8, <1>11, <2>2, <2>3
<1>15. ASSUME NEW j \in Key \ Split PROVE ClaimInv(j)'
  <2>1. ClaimInv(j) /\ \A r \in Proc : r # p => (Claim(r, j)' <=> Claim(r, j))
    BY <1>7, <1>9, OtherClaims DEF IInv
  <2>2. ASSUME Claim(p, j)' PROVE ok /\ Claim(p, j)
    <3>1. handler'[p] # "acquire" /\ cli'[p] # "recv"
      BY <1>2, <1>5, <1>8
    <3>2. CASE cli'[p] = "init" /\ j \in todo'[p]
      BY <1>2, <1>4, <1>5, <3>2 DEF Claim
    <3>3. ASSUME handler'[p] = "init", NEW n \in 1..Len(up'[p]),
                 up'[p][n].type = "init" /\ up'[p][n].key = j /\ ~ up'[p][n].ok
          PROVE  ok /\ Claim(p, j)
      <4>1. n + 1 \in 1..Len(up[p]) /\ up'[p][n] = up[p][n + 1]
        BY <1>3, <1>8
      <4>2. ok
        BY <1>8, <3>3
      <4> QED
        BY <1>2, <3>3, <4>1, <4>2 DEF Claim
    <3> QED
      BY <2>2, <3>1, <3>2, <3>3 DEF Claim
  <2>3. CASE ok \/ j # k
    <3>1. once'[j] = once[j]
      BY <1>1, <1>4, <1>7, <2>3 DEF LP!SInv, LP!TypeOKUse
    <3>2. runs'[j] = runs[j] /\ \A r \in Proc : Claim(r, j)' => Claim(r, j)
      BY <1>2, <2>1, <2>2
    <3> QED
      BY <2>1, <3>1, <3>2, ClaimFrame
  <2>4. CASE ~ ok /\ j = k
    <3>1. Claim(p, j)
      BY <1>2, <1>3, <2>4 DEF Claim
    <3>2. runs'[j] = 0 /\ \A r \in Proc : ~ Claim(r, j)'
      BY <1>2, <2>1, <2>2, <2>4, <3>1 DEF ClaimInv
    <3> QED
      BY <3>2 DEF ClaimInv
  <2> QED
    BY <2>3, <2>4
<1> QED
  BY <1>2, <1>7, <1>9, <1>10, <1>12, <1>13, <1>14, <1>15, StepInv

(* A target that is left: only a call with more than one init leaves any,     *)
(* and what that does to its containers is outside of what is promised.       *)
LEMMA CleanInv ==
  ASSUME IInv, NEW p \in Proc, NEW k \in Key, Clean(p, k)
  PROVE  IInv'
<1>1. /\ LP!SInv /\ Types
      /\ HandlerInv(p) /\ StreamInv(p) /\ SingleInv(p) /\ AliveInv(p)
  BY DEF IInv
<1>2. /\ handler[p] \in {"clean", "failed"} /\ k \in initPending[p]
      /\ L!SetInitResult(p, k, FALSE)
      /\ handler' = [handler EXCEPT ![p] = "failed"]
      /\ UNCHANGED <<queue, set, proceed, phase, job, done, req, at, initErr,
                     cli, params, todo, runs, up, down, i>>
  BY DEF Clean, Goto, clientVars
<1>3. phase[p] = "held" /\ ~ Single(p)
  BY <1>1, <1>2 DEF HandlerInv, SingleInv
<1>4. /\ LP!SInv'
      /\ initPending' = [initPending EXCEPT ![p] = @ \ {k}]
      /\ once' = [once EXCEPT ![k] = "fresh"]
      /\ \A r \in Proc, j \in Key : r # p => (LP!Pending(r, j)' <=> LP!Pending(r, j))
  BY <1>2, <1>3, ResultInv
<1>5. handler'[p] = "failed"
  BY <1>1, <1>2 DEF Types
<1>6. OthersKept(p)
  BY <1>1, <1>2, <1>4 DEF Types, OthersKept, LP!SInv, LP!TypeOKUse
<1>7. Types'
  BY <1>1, <1>2 DEF Types, HandlerAt
<1>8. HandlerInv(p)' /\ SingleInv(p)' /\ AliveInv(p)'
  BY <1>1, <1>2, <1>3, <1>5 DEF HandlerInv, SingleInv, AliveInv, Single
<1>9. StreamInv(p)'
  <2>1. \A n \in 1..Len(up[p]) : up[p][n].type # "acquire"
    BY <1>1, <1>2 DEF StreamInv
  <2> QED
    BY <1>1, <1>2, <1>5, <2>1 DEF StreamInv
<1>10. ASSUME NEW j \in Key \ Split PROVE ClaimInv(j)'
  <2>1. once'[j] = once[j] /\ runs'[j] = runs[j]
    <3>1. j # k
      BY <1>1, <1>2, <1>3, NotSplit
    <3> QED
      BY <1>1, <1>2, <1>4, <3>1 DEF LP!SInv, LP!TypeOKUse
  <2>2. \A r \in Proc : r # p => (Claim(r, j)' <=> Claim(r, j))
    BY <1>4, <1>6, OtherClaims
  <2>3. Claim(p, j)' => Claim(p, j)
    BY <1>2, <1>5 DEF Claim
  <2>4. \A r \in Proc : Claim(r, j)' => Claim(r, j)
    BY <2>2, <2>3
  <2> QED
    BY <2>1, <2>4, ClaimFrame DEF IInv
<1> QED
  BY <1>2, <1>4, <1>6, <1>7, <1>8, <1>9, <1>10, StepInv

-----------------------------------------------------------------------------
(* The invariant. *)

LEMMA InitInv == Init => IInv
<1> SUFFICES ASSUME Init PROVE IInv
  OBVIOUS
<1>1. L!Init
  BY DEF Init
<1>2. LP!Init
  BY <1>1 DEF L!Init, LP!Init, L!A!Init, LP!A!Init, L!KL!Init, LP!KL!Init,
              L!A!NoJob, LP!A!NoJob, L!AllStart, LP!AllStart
<1>3. LP!SInv
  BY <1>2, Assumptions, LP!InitSInv
<1>4. /\ phase = [p \in Proc |-> "out"] /\ once = [k \in Key |-> "fresh"]
      /\ runs = [k \in Key |-> 0]
  BY <1>1 DEF L!Init, L!A!Init
<1>5. Types
  <2>1. << >> \in Seq(Message) /\ << >> \in Seq(SUBSET Key)
    OBVIOUS
  <2> QED
    BY <1>4, <2>1 DEF Init, Types, Cli, HandlerAt
<1>6. ASSUME NEW p \in Proc
      PROVE  HandlerInv(p) /\ StreamInv(p) /\ SingleInv(p) /\ AliveInv(p)
  BY <1>4 DEF Init, HandlerInv, StreamInv, SingleInv, AliveInv
<1>7. ASSUME NEW k \in Key PROVE ClaimInv(k)
  BY <1>4 DEF Init, Claim, ClaimInv
<1> QED
  BY <1>3, <1>5, <1>6, <1>7 DEF IInv

LEMMA ClientStepInv ==
  ASSUME IInv, NEW p \in Proc, ClientAcquire(p) \/ CtxDone(p) \/ ClientStep(p)
  PROVE  IInv'
BY ClientAcquireInv, CtxDoneInv, ClientRecvInv, ClientRecvErrorInv, ClientUseInv,
   ClientUnlockInv, ClientInitInv
   DEF ClientStep

LEMMA HandlerStepInv ==
  ASSUME IInv, NEW p \in Proc, HandlerStep(p)
  PROVE  IInv'
BY AcquireInv, LockingInv, UnlockInv, ReleaseStepsInv, GotoStepsInv, SendInv,
   InitResultInv, CleanInv
   DEF HandlerStep

LEMMA StutterInv ==
  ASSUME IInv, UNCHANGED vars
  PROVE  IInv'
<1>1. UNCHANGED <<lockerVars, cli, params, todo, runs, up, down, handler, i>>
  BY DEF vars, clientVars
<1>2. /\ LP!SInv'
      /\ \A r \in Proc, k \in Key : LP!Pending(r, k)' <=> LP!Pending(r, k)
      /\ UNCHANGED <<phase, req, initPending, once, done>>
  BY <1>1, Still DEF IInv
<1>3. Types'
  BY <1>1 DEF IInv, Types
<1>4. ASSUME NEW p \in Proc
      PROVE  HandlerInv(p)' /\ StreamInv(p)' /\ SingleInv(p)' /\ AliveInv(p)'
  <2>1. HandlerInv(p) /\ StreamInv(p) /\ SingleInv(p) /\ AliveInv(p)
    BY DEF IInv
  <2>2. HandlerInv(p)' /\ SingleInv(p)'
    BY <1>1, <1>2, <2>1 DEF HandlerInv, SingleInv, Single
  <2>3. StreamInv(p)'
    BY <1>1, <1>2, <2>1 DEF StreamInv
  <2>4. AliveInv(p)'
    BY <1>1, <1>2, <2>1 DEF AliveInv, Single
  <2> QED
    BY <2>2, <2>3, <2>4
<1>5. ASSUME NEW k \in Key \ Split PROVE ClaimInv(k)'
  <2>1. \A r \in Proc : Claim(r, k)' => Claim(r, k)
    BY <1>1, <1>2 DEF Claim
  <2> QED
    BY <1>1, <1>2, <2>1, ClaimFrame DEF IInv
<1> QED
  BY <1>2, <1>3, <1>4, <1>5 DEF IInv

LEMMA NextInv ==
  ASSUME IInv, [Next]_vars
  PROVE  IInv'
BY ClientStepInv, HandlerStepInv, StutterInv DEF Next

(* In every state of a beacon server that any number of clients use, some of *)
(* which die: where a handler is tells where its call of the Locker is, what  *)
(* is in its stream is what it waits for, a client that lives is never ahead  *)
(* of its handler, and one client at a time may initialise a container, and   *)
(* none after it is initialised (AcquireContainerLock, beacon.go:177;         *)
(* LockForContainerUse, control.go:179).                                     *)
THEOREM Invariance == Spec => []IInv
<1>1. IInv /\ [Next]_vars => IInv'
  BY NextInv
<1> QED
  BY <1>1, InitInv, PTL DEF Spec

(* Whenever the handler of a stream has returned, its client has no lock of   *)
(* any container left, wherever the stream ended (AcquireContainerLock,        *)
(* beacon.go:177).                                                            *)
THEOREM Cleans == Spec => []HandlerCleans
<1>1. IInv => HandlerCleans
  <2> SUFFICES ASSUME IInv, NEW p \in Proc, NEW k \in Key, handler[p] = "none"
               PROVE  st[p][k] = "none"
    BY DEF HandlerCleans
  <2>1. phase[p] \in {"out", "left"}
    BY DEF IInv, HandlerInv
  <2>2. LP!CallInv(p) /\ LP!JobInv(p, k)
    BY DEF IInv, LP!SInv
  <2>3. job[p][k] = "off"
    BY <2>1, <2>2 DEF LP!CallInv
  <2> QED
    BY <2>2, <2>3 DEF LP!JobInv, LP!LockOf
<1> QED
  BY <1>1, Invariance, PTL

-----------------------------------------------------------------------------
(* What the clients see of it: Beacon implements ContainerUse. *)

(* A client that lives and has one init at most, from the answer on: the      *)
(* server has the locks of its containers.                                   *)
LEMMA HasLocks ==
  ASSUME IInv, NEW p \in Proc, Single(p), p \notin done, cli[p] \in {"init", "using"}
  PROVE  /\ params[p] \in Calls /\ todo[p] \subseteq DOMAIN params[p]
         /\ \A k \in DOMAIN params[p] :
              /\ k \in Key /\ st[p][k] \in {"ex", "sh"}
              /\ params[p][k].exclusive \/ k \in todo[p] => st[p][k] = "ex"
<1>1. LP!SInv /\ LP!TypeOKUse /\ LP!CallInv(p) /\ HandlerInv(p) /\ AliveInv(p)
  BY DEF IInv, LP!SInv
<1>2. phase[p] = "held" /\ todo[p] \subseteq initPending[p]
  BY <1>1 DEF AliveInv, HandlerInv
<1>3. /\ params[p] \in Calls /\ req[p] = params[p]
      /\ \A k \in initPending[p] : k \in DOMAIN params[p]
  BY <1>1, <1>2, Targets DEF HandlerInv
<1>4. ASSUME NEW k \in DOMAIN params[p]
      PROVE  /\ k \in Key /\ st[p][k] \in {"ex", "sh"}
             /\ params[p][k].exclusive \/ k \in todo[p] => st[p][k] = "ex"
  <2>1. k \in Key
    BY <1>3, CallsTyped
  <2>2. LP!JobInv(p, k) /\ job[p][k] \in LP!A!Job /\ job[p][k] # "off"
    BY <1>1, <1>2, <1>3, <2>1 DEF LP!SInv, LP!CallInv, LP!TypeOKUse
  <2>3. job[p][k] = "locked"
    BY <1>2, <2>2 DEF LP!JobInv, LP!A!Job
  <2> QED
    BY <1>2, <1>3, <2>1, <2>2, <2>3 DEF LP!JobInv, LP!LockOf
<1> QED
  BY <1>2, <1>3, <1>4

(* What a client of a call with one init at most believes, the server knows:  *)
(* while it initialises or uses containers, its context alive, the server has  *)
(* their locks for it, in the mode it asked for or exclusively.  With two      *)
(* inits it need not be so: see run Beacon_twoinits (beacon.go:253).           *)
THEOREM OneInitProtected ==
  Spec => [](\A p \in Proc : params[p] \notin ManyInits => Protected(p))
<1>1. IInv => \A p \in Proc : params[p] \notin ManyInits => Protected(p)
  BY HasLocks DEF Single, Protected
<1> QED
  BY <1>1, Invariance, PTL

\* So it excludes those who use its containers.
LEMMA NobodyElse ==
  ASSUME IInv, NEW p \in Proc, Single(p), p \notin done, cli[p] \in {"init", "using"},
         NEW r \in Proc, r # p, Using(r)
  PROVE  /\ CU!Compatible(params[p], params[r])
         /\ \A k \in todo[p] : k \notin DOMAIN params[r]
<1>1. Single(r) /\ r \notin done /\ cli[r] = "using"
  BY DEF Using, Single
<1>2. /\ todo[p] \subseteq DOMAIN params[p]
      /\ \A k \in DOMAIN params[p] :
           /\ k \in Key /\ st[p][k] \in {"ex", "sh"}
           /\ params[p][k].exclusive \/ k \in todo[p] => st[p][k] = "ex"
  BY HasLocks
<1>3. \A k \in DOMAIN params[r] :
        /\ k \in Key /\ st[r][k] \in {"ex", "sh"}
        /\ params[r][k].exclusive => st[r][k] = "ex"
  BY <1>1, HasLocks
<1>4. ASSUME NEW k \in Key, st[p][k] \in {"ex", "sh"}, st[r][k] \in {"ex", "sh"}
      PROVE  st[p][k] # "ex" /\ st[r][k] # "ex"
  BY <1>4, Assumptions, LP!Excludes DEF IInv
<1> QED
  BY <1>2, <1>3, <1>4 DEF CU!Compatible

\* Only p's call may look different after a step of p.
LEMMA UseOf ==
  ASSUME NEW p \in Proc, \A r \in Proc : r # p => (Using(r)' <=> Using(r)),
         \A r \in Proc : r # p => params'[r] = params[r]
  PROVE  Use' = [Use EXCEPT ![p] = IF Using(p)' THEN params'[p] ELSE << >>]
BY DEF Use

\* A step that changes nothing a client sees.
LEMMA Unseen ==
  ASSUME UNCHANGED <<params, runs, done>>,
         \A p \in Proc : cli'[p] = "using" <=> cli[p] = "using"
  PROVE  UNCHANGED CU!vars
<1>1. Use' = Use
  BY DEF Use, Using
<1>2. Outside' = Outside /\ Inits' = Inits
  BY DEF Outside, Inits
<1> QED
  BY <1>1, <1>2 DEF CU!vars

\* A client has all of its containers when its last init is done.
LEMMA ClientUseRefines ==
  ASSUME IInv, NEW p \in Proc, ClientUse(p)
  PROVE  CU!Acquire(p) \/ UNCHANGED CU!vars
<1>1. /\ cli[p] = "init" /\ cli' = [cli EXCEPT ![p] = "using"]
      /\ UNCHANGED <<params, runs, done>> /\ cli \in [Proc -> Cli]
  BY DEF ClientUse, lockerVars, IInv, Types
<1>2. Outside' = Outside /\ Inits' = Inits
  BY <1>1 DEF Outside, Inits
<1>3. CASE Single(p) /\ p \notin done
  <2>1. Use' = [Use EXCEPT ![p] = params[p]]
    <3>1. Using(p)' /\ \A r \in Proc : r # p => (Using(r)' <=> Using(r))
      BY <1>1, <1>3 DEF Using, Single
    <3> QED
      BY <1>1, <3>1, UseOf
  <2>2. Use[p] = << >> /\ params[p] \in Calls
    BY <1>1, <1>3, HasLocks DEF Use, Using
  <2>3. ASSUME NEW r \in Proc \ {p} PROVE CU!Compatible(params[p], Use[r])
    <3>1. CASE Using(r)
      BY <1>1, <1>3, <3>1, NobodyElse DEF Use
    <3>2. CASE ~ Using(r)
      <4>1. Use[r] = << >> /\ DOMAIN << >> = {}
        BY <3>2 DEF Use
      <4> QED
        BY <4>1 DEF CU!Compatible
    <3> QED
      BY <3>1, <3>2
  <2> QED
    BY <1>2, <2>1, <2>2, <2>3 DEF CU!Acquire, CU!Grant
<1>4. CASE ~ (Single(p) /\ p \notin done)
  <2>1. Use' = Use
    BY <1>1, <1>4 DEF Use, Using, Single
  <2> QED
    BY <1>2, <2>1 DEF CU!vars
<1> QED
  BY <1>3, <1>4

\* An init function succeeds: once, and alone.
LEMMA ClientInitRefines ==
  ASSUME IInv, NEW p \in Proc, NEW k \in Key, ClientInit(p, k)
  PROVE  CU!Initialise(p, k) \/ UNCHANGED CU!vars
<1>1. /\ cli[p] = "init" /\ k \in todo[p] /\ UNCHANGED <<params, done>>
      /\ cli' = cli \/ cli' = [cli EXCEPT ![p] = "ended"]
      /\ runs' = runs \/ runs' = [runs EXCEPT ![k] = @ + 1]
      /\ cli \in [Proc -> Cli] /\ runs \in [Key -> Nat]
  BY DEF ClientInit, lockerVars, IInv, Types
<1>2. \A r \in Proc : cli'[r] = "using" <=> cli[r] = "using"
  BY <1>1
<1>3. Use' = Use /\ Outside' = Outside
  BY <1>1, <1>2 DEF Use, Using, Outside
<1>4. CASE runs' = runs
  BY <1>1, <1>2, <1>4, Unseen
<1>5. CASE runs' = [runs EXCEPT ![k] = @ + 1] /\ runs[k] > 0
  <2>1. k \in Split
    <3>1. Claim(p, k)
      BY <1>1 DEF Claim
    <3> QED
      BY <1>5, <3>1 DEF IInv, ClaimInv
  <2>2. Inits' = Inits
    BY <1>1, <1>5, <2>1 DEF Inits
  <2> QED
    BY <1>3, <2>2 DEF CU!vars
<1>6. CASE runs' = [runs EXCEPT ![k] = @ + 1] /\ runs[k] = 0
  <2>1. Inits[k] = 0 /\ Inits' = [Inits EXCEPT ![k] = 1]
    <3>1. runs'[k] = 1 /\ \A j \in Key : j # k => runs'[j] = runs[j]
      BY <1>1, <1>6
    <3>2. \A j \in Key : Inits'[j] = IF j = k THEN 1 ELSE Inits[j]
      BY <3>1 DEF Inits
    <3>3. Inits = [j \in Key |-> Inits[j]] /\ Inits' = [j \in Key |-> Inits'[j]]
      BY DEF Inits
    <3> HIDE DEF Inits
    <3>4. Inits' = [Inits EXCEPT ![k] = 1]
      BY <3>2, <3>3
    <3> QED
      BY <1>6, <3>4 DEF Inits
  <2>2. p \in Outside \/ \A r \in Proc : k \notin DOMAIN Use[r]
    <3> SUFFICES ASSUME p \notin Outside, NEW r \in Proc PROVE k \notin DOMAIN Use[r]
      OBVIOUS
    <3>1. Single(p) /\ p \notin done
      BY DEF Outside, Single
    <3>2. CASE Using(r)
      <4>1. r # p
        BY <1>1, <3>2 DEF Using
      <4> QED
        BY <1>1, <3>1, <3>2, <4>1, NobodyElse DEF Use
    <3>3. CASE ~ Using(r)
      <4>1. Use[r] = << >> /\ DOMAIN << >> = {}
        BY <3>3 DEF Use
      <4> QED
        BY <4>1
    <3> QED
      BY <3>2, <3>3
  <2> QED
    BY <1>3, <2>1, <2>2 DEF CU!Initialise
<1>7. runs[k] > 0 \/ runs[k] = 0
  BY <1>1
<1> QED
  BY <1>1, <1>4, <1>5, <1>6, <1>7

LEMMA ClientUnlockRefines ==
  ASSUME IInv, NEW p \in Proc, ClientUnlock(p)
  PROVE  CU!Release(p)
<1>1. /\ cli' = [cli EXCEPT ![p] = "ended"]
      /\ UNCHANGED <<params, runs, done>> /\ cli \in [Proc -> Cli]
  BY DEF ClientUnlock, lockerVars, IInv, Types
<1>2. Outside' = Outside /\ Inits' = Inits
  BY <1>1 DEF Outside, Inits
<1>3. ~ Using(p)' /\ \A r \in Proc : r # p => (Using(r)' <=> Using(r))
  BY <1>1 DEF Using
<1>4. Use' = [Use EXCEPT ![p] = << >>]
  BY <1>1, <1>3, UseOf
<1> QED
  BY <1>2, <1>4 DEF CU!Release

\* A new call, or the end of its context, takes a client into or out of the promise.
LEMMA MoveRefines ==
  ASSUME IInv, NEW p \in Proc, ClientAcquire(p) \/ CtxDone(p)
  PROVE  CU!Move(p)
<1>1. cli \in [Proc -> Cli] /\ params \in [Proc -> Calls \cup {<< >>}] /\ runs' = runs
  BY DEF IInv, Types, ClientAcquire, CtxDone, clientVars
<1>2. Inits' = Inits
  BY <1>1 DEF Inits
<1>3. CASE ClientAcquire(p)
  <2>1. PICK r : params' = [params EXCEPT ![p] = r]
    BY <1>3 DEF ClientAcquire
  <2>2. p \notin done /\ done' = done /\ cli' = [cli EXCEPT ![p] = "recv"]
    BY <1>3 DEF ClientAcquire, lockerVars
  <2>3. Outside' = IF r \in ManyInits THEN Outside \cup {p} ELSE Outside \ {p}
    BY <1>1, <2>1, <2>2 DEF Outside
  <2>4. ~ Using(p)' /\ \A s \in Proc : s # p => (Using(s)' <=> Using(s))
    BY <1>1, <2>1, <2>2 DEF Using
  <2>5. Use' = [Use EXCEPT ![p] = << >>]
    BY <1>1, <2>1, <2>4, UseOf
  <2> QED
    BY <1>2, <2>3, <2>5 DEF CU!Move
<1>4. CASE CtxDone(p)
  <2>1. done' = done \cup {p} /\ params' = params /\ cli' = cli
    BY <1>4 DEF CtxDone, L!A!CtxDone, clientVars
  <2>2. Outside' = Outside \cup {p}
    BY <2>1 DEF Outside
  <2>3. ~ Using(p)' /\ \A s \in Proc : s # p => (Using(s)' <=> Using(s))
    BY <2>1 DEF Using
  <2>4. Use' = [Use EXCEPT ![p] = << >>]
    BY <2>1, <2>3, UseOf
  <2> QED
    BY <1>2, <2>2, <2>4 DEF CU!Move
<1> QED
  BY <1>3, <1>4

\* What the handler does is not seen.
LEMMA HandlerStepUnseen ==
  ASSUME NEW p \in Proc, HandlerStep(p)
  PROVE  UNCHANGED <<cli, params, runs, done>>
<1>1. CASE Acquire(p)
  BY <1>1 DEF Acquire, L!Call, L!A!Accept
<1>2. CASE Locking(p)
  <2>1. CASE L!Queue(p)
    BY <1>2, <2>1 DEF Locking, L!Queue, L!A!GiveUp, L!A!Start, L!A!Acquired, L!A!Undo
  <2>2. ASSUME NEW k \in Key,
               \/ L!DoOnce(p, k) \/ L!SkipOnce(p, k) \/ L!OnceDone(p, k)
               \/ L!PlainLock(p, k)
        PROVE  UNCHANGED <<runs, done>>
    BY <2>2 DEF L!DoOnce, L!SkipOnce, L!OnceDone, L!PlainLock, L!acquirerVars
  <2>3. ASSUME NEW k \in Key,
               L!InitLocked(p, k) \/ L!PlainLocked(p, k) \/ L!LockError(p, k)
        PROVE  UNCHANGED <<runs, done>>
    BY <2>3 DEF L!InitLocked, L!PlainLocked, L!LockError, L!A!NotifyLock, L!A!LockFailed
  <2> QED
    BY <1>2, <2>1, <2>2, <2>3 DEF Locking
<1>3. CASE Unlock(p)
  BY <1>3 DEF Unlock, L!Return, L!UnlockKey, L!A!Return, L!A!UnlockKey
<1>4. CASE \/ SendError(p) \/ InitError(p) \/ Failed(p) \/ WaitError(p) \/ WaitRelease(p)
  <2>1. Release(p, "end") \/ Release(p, "again")
    BY <1>4 DEF SendError, InitError, Failed, WaitError, WaitRelease
  <2> QED
    BY <2>1 DEF Release, L!A!Release, clientVars
<1>5. CASE \/ Stop(p) \/ AcquireError(p) \/ InitLoopEnds(p) \/ Succeeded(p)
           \/ Released(p) \/ Send(p)
  BY <1>5 DEF Stop, AcquireError, InitLoopEnds, Succeeded, Released, Send, lockerVars,
              clientVars
<1>6. CASE InitResult(p) \/ \E k \in Key : Clean(p, k)
  BY <1>6 DEF InitResult, Clean, clientVars
<1> QED
  BY <1>1, <1>2, <1>3, <1>4, <1>5, <1>6 DEF HandlerStep

(* Clients of a beacon server see what ContainerUse promises: the containers  *)
(* of a call are given and taken back at once, to compatible users, and an     *)
(* init succeeds alone and once, whichever clients die and wherever the        *)
(* messages are; outside of it are clients whose context has ended and calls   *)
(* with more than one init (AcquireContainerLock, beacon.go:177;               *)
(* LockForContainerUse, control.go:179).                                       *)
THEOREM Refinement == Spec => ImplementsContainerUse
<1>1. Init => CU!Init
  <2> SUFFICES ASSUME Init PROVE CU!Init
    OBVIOUS
  <2>1. done = {} /\ runs = [k \in Key |-> 0]
    BY DEF Init, L!Init, L!A!Init
  <2>2. \A p \in Proc : params[p] \notin ManyInits /\ cli[p] = "idle"
    BY NoCall DEF Init, ManyInits
  <2>3. Use = [p \in Proc |-> << >>] /\ Outside = {} /\ Inits = [k \in Key |-> 0]
    BY <2>1, <2>2 DEF Use, Using, Outside, Inits
  <2> QED
    BY <2>3 DEF CU!Init
<1>2. ASSUME IInv, [Next]_vars PROVE [CU!Next]_(CU!vars)
  <2>1. ASSUME NEW p \in Proc, ClientRecv(p) \/ ClientRecvError(p)
        PROVE  UNCHANGED CU!vars
    <3>1. /\ UNCHANGED <<params, runs, done>> /\ cli[p] = "recv" /\ cli \in [Proc -> Cli]
          /\ \/ cli' = [cli EXCEPT ![p] = "init"]
             \/ cli' = [cli EXCEPT ![p] = "ended"]
      BY <1>2, <2>1 DEF ClientRecv, ClientRecvError, lockerVars, IInv, Types
    <3> QED
      BY <3>1, Unseen
  <2>2. ASSUME NEW p \in Proc, HandlerStep(p) PROVE UNCHANGED CU!vars
    BY <2>2, HandlerStepUnseen, Unseen
  <2>3. CASE UNCHANGED vars
    BY <2>3, Unseen DEF vars, lockerVars, clientVars
  <2>4. ASSUME NEW p \in Proc, ClientAcquire(p) \/ CtxDone(p) PROVE CU!Next
    BY <1>2, <2>4, MoveRefines DEF CU!Next
  <2>5. ASSUME NEW p \in Proc, ClientUse(p) \/ ClientUnlock(p)
        PROVE  [CU!Next]_(CU!vars)
    BY <1>2, <2>5, ClientUseRefines, ClientUnlockRefines DEF CU!Next
  <2>6. ASSUME NEW p \in Proc, NEW k \in Key, ClientInit(p, k)
        PROVE  [CU!Next]_(CU!vars)
    BY <1>2, <2>6, ClientInitRefines DEF CU!Next
  <2> QED
    BY <1>2, <2>1, <2>2, <2>3, <2>4, <2>5, <2>6 DEF Next, ClientStep
<1> QED
  BY <1>1, <1>2, Invariance, PTL DEF Spec, ImplementsContainerUse, CU!Spec

-----------------------------------------------------------------------------
(* The queue and the semaphores of the server. *)

LEMMA ServerAcquirer ==
  ASSUME NEW p \in Proc,
         ClientAcquire(p) \/ CtxDone(p) \/ ClientStep(p) \/ HandlerStep(p)
  PROVE  LP!A!Next \/ UNCHANGED LP!acquirerVars
<1>1. CASE ServerStep(p)
  <2>1. LP!Call(p) \/ LP!CtxDone(p) \/ LP!Step(p)
    BY <1>1, SameLocker DEF LP!LockerStep, LP!Step, LP!KeyStep
  <2> QED
    BY <2>1, Assumptions, LP!AcquirerStep
<1>2. CASE \/ SendError(p) \/ InitError(p) \/ Failed(p) \/ WaitError(p) \/ WaitRelease(p)
  <2>1. L!A!Release(p)
    BY <1>2 DEF SendError, InitError, Failed, WaitError, WaitRelease, Release
  <2> QED
    BY <2>1, SameAcquirer DEF LP!A!Next, LP!A!Step
<1>3. CASE Acquire(p) \/ CtxDone(p) \/ Locking(p) \/ Unlock(p)
  BY <1>1, <1>3
     DEF Acquire, CtxDone, Locking, Unlock, ServerStep, L!CtxDone, L!lockVars,
                    L!useVars, clientVars
<1>4. CASE ClientAcquire(p) \/ ClientStep(p)
  BY <1>4 DEF ClientAcquire, ClientStep, ClientRecv, ClientRecvError, ClientUse,
              ClientUnlock, ClientInit, lockerVars, LP!acquirerVars
<1>5. CASE \/ Stop(p) \/ AcquireError(p) \/ InitLoopEnds(p) \/ Succeeded(p)
           \/ Released(p) \/ Send(p) \/ InitResult(p) \/ \E k \in Key : Clean(p, k)
  BY <1>5 DEF Stop, AcquireError, InitLoopEnds, Succeeded, Released, Send, InitResult,
              Clean, lockerVars, LP!acquirerVars
<1> QED
  BY <1>2, <1>3, <1>4, <1>5 DEF HandlerStep

(* At the server the calls of all clients wait in one queue, whoever dies in   *)
(* it: for a container one handler at a time has its Lock running, in order of  *)
(* arrival, and none that nothing holds up is forgotten (AcquireContainerLock,  *)
(* beacon.go:177; acquire.go:29).                                               *)
THEOREM ServerOrder ==
  Spec => [](L!A!OneLockerPerKey /\ L!A!ArrivalOrder /\ L!A!NoLostProceed)
<1>1. Init => LP!A!Init
  BY DEF Init, L!Init, L!A!Init, LP!A!Init, L!A!NoJob, LP!A!NoJob
<1>2. [Next]_vars => [LP!A!Next]_(LP!A!vars)
  BY ServerAcquirer DEF Next, vars, lockerVars, LP!acquirerVars, LP!A!vars
<1>3. LP!A!Spec => [](LP!A!OneLockerPerKey /\ LP!A!ArrivalOrder /\ LP!A!NoLostProceed)
  BY Assumptions, LP!AcquirerOrder
<1>4. LP!A!OneLockerPerKey /\ LP!A!ArrivalOrder =>
        L!A!OneLockerPerKey /\ L!A!ArrivalOrder
  BY DEF L!A!OneLockerPerKey, LP!A!OneLockerPerKey, L!A!ArrivalOrder, LP!A!ArrivalOrder
<1>5. LP!A!NoLostProceed => L!A!NoLostProceed
  BY DEF L!A!NoLostProceed, LP!A!NoLostProceed, L!A!Unhindered, LP!A!Unhindered,
         L!A!Overlap, LP!A!Overlap
<1> QED
  BY <1>1, <1>2, <1>3, <1>4, <1>5, PTL DEF Spec, LP!A!Spec

(* The semaphores of the server, whichever clients die with or without a lock: *)
(* a writer is alone, no token is lost, and none is free beside a waiter that   *)
(* could have it (keyedlock.go, beacon.go:177).                                 *)
THEOREM ServerLocks ==
  Spec => [](L!KL!Exclusion /\ L!KL!TokensAccounted /\ L!KL!NoLostWakeup)
<1>1. IInv => L!KL!Exclusion /\ L!KL!TokensAccounted /\ L!KL!NoLostWakeup
  <2> SUFFICES ASSUME IInv
               PROVE  L!KL!Exclusion /\ L!KL!TokensAccounted /\ L!KL!NoLostWakeup
    OBVIOUS
  <2>1. LP!KL!Exclusion /\ LP!KL!TokensAccounted /\ LP!KL!NoLostWakeup
    BY Assumptions, LP!LocksImplied DEF IInv
  <2>2. L!KL!Exclusion
    BY <2>1 DEF L!KL!Exclusion, LP!KL!Exclusion, L!KL!Hold, LP!KL!Hold
  <2>3. L!KL!TokensAccounted
    BY <2>1
       DEF L!KL!TokensAccounted, LP!KL!TokensAccounted, L!KL!Writers, LP!KL!Writers,
                L!KL!Readers, LP!KL!Readers, L!KL!Cardinality, LP!KL!Cardinality
  <2>4. L!KL!NoLostWakeup
    BY <2>1 DEF L!KL!NoLostWakeup, LP!KL!NoLostWakeup, L!KL!Fits, LP!KL!Fits
  <2> QED
    BY <2>2, <2>3, <2>4
<1> QED
  BY <1>1, Invariance, PTL

-----------------------------------------------------------------------------
(* The streams for one lock, of LockStream: for a namespace, a build or a     *)
(* setup.  They share no state with the streams for the use of containers.     *)

\* A handler that is past the Lock owns the lock of its stream, and an owned
\* lock belongs to such a handler.
LockOwnerInv ==
  /\ \A p \in Client : lockHandler[p] # "none" => key[p] \in Lock
  /\ \A p \in Client : lockHandler[p] \in {"send", "locked"} => owner[key[p]] = p
  /\ \A k \in Lock : owner[k] # None =>
       lockHandler[owner[k]] \in {"send", "locked"} /\ key[owner[k]] = k

\* What is in the stream: the lock message until the handler has read it, and
\* nothing from then until the client unlocks.
LockStreamInv ==
  \A p \in Client :
    /\ lockCli[p] = "recv" /\ lockHandler[p] = "recv"
         => lockUp[p] = <<"lock">> /\ p \notin locked
    /\ lockCli[p] = "recv" /\ lockHandler[p] \in {"lock", "send", "locked"}
         => lockUp[p] = << >>
    /\ lockCli[p] \in {"recv", "holding"} /\ p \in locked => lockUp[p] = << >>
    /\ lockCli[p] = "holding" => p \in locked

\* While the client lives, its handler is with it.
LockAliveInv ==
  \A p \in Client : lockCli[p] \in {"recv", "holding"} /\ p \notin lockDone =>
    /\ lockHandler[p] # "none"
    /\ p \in locked => lockHandler[p] = "locked"

(* The inductive invariant.  ClientOwns is not inductive: a client gets the  *)
(* answer later than the handler gets the lock, and in between the stream    *)
(* must hold nothing that makes the handler give the lock back.              *)
LockInv == LockTypeOK /\ LockOwnerInv /\ LockStreamInv /\ LockAliveInv

-----------------------------------------------------------------------------
\* At first there is no stream and no owner.
LEMMA LockInitInv == LockInit => LockInv
BY LockAssumption DEF LockInit, LockInv, LockTypeOK, LockOwnerInv, LockStreamInv,
       LockAliveInv, Lock

\* A call of beaconControl, and the end of its context, keep the invariant.
LEMMA LockClientInv ==
  ASSUME LockInv, NEW p \in Client,
         ClientLock(p) \/ LockCtxDone(p) \/ LockClientStep(p)
  PROVE  LockInv'
<1>1. CASE ClientLock(p)
  <2>1. LockTypeOK'
    BY <1>1 DEF LockInv, LockTypeOK, ClientLock
  <2>2. LockOwnerInv'
    BY <1>1, LockAssumption DEF LockInv, LockTypeOK, LockOwnerInv, ClientLock, Lock
  <2>3. LockStreamInv' /\ LockAliveInv'
    BY <1>1 DEF LockInv, LockTypeOK, LockStreamInv, LockAliveInv, ClientLock
  <2> QED
    BY <2>1, <2>2, <2>3 DEF LockInv
<1>2. CASE LockCtxDone(p)
  BY <1>2
     DEF LockInv, LockTypeOK, LockOwnerInv, LockStreamInv, LockAliveInv, LockCtxDone
<1>3. CASE LockClientRecv(p)
  <2>1. LockTypeOK'
    BY <1>3 DEF LockInv, LockTypeOK, LockClientRecv
  <2>2. LockOwnerInv'
    BY <1>3 DEF LockInv, LockOwnerInv, LockClientRecv
  <2>3. LockStreamInv'
    BY <1>3 DEF LockInv, LockTypeOK, LockStreamInv, LockClientRecv
  <2>4. LockAliveInv'
    BY <1>3 DEF LockInv, LockTypeOK, LockAliveInv, LockClientRecv
  <2> QED
    BY <2>1, <2>2, <2>3, <2>4 DEF LockInv
<1>4. CASE LockClientUnlock(p)
  <2>1. lockUp[p] = << >>
    BY <1>4 DEF LockInv, LockStreamInv, LockClientUnlock
  <2>2. lockUp' = [lockUp EXCEPT ![p] = <<"unlock", "eof">>]
    BY <1>4, <2>1 DEF LockClientUnlock
  <2>3. LockTypeOK'
    BY <1>4, <2>2, SMTT(30) DEF LockInv, LockTypeOK, LockClientUnlock
  <2>4. LockOwnerInv' /\ LockStreamInv' /\ LockAliveInv'
    BY <1>4, <2>2
       DEF LockInv, LockTypeOK, LockOwnerInv, LockStreamInv, LockAliveInv,
           LockClientUnlock
  <2> QED
    BY <2>3, <2>4 DEF LockInv
<1> QED
  BY <1>1, <1>2, <1>3, <1>4 DEF LockClientStep

\* Reading a message leaves a shorter stream.
LEMMA LockReadSeq ==
  ASSUME LockTypeOK, NEW p \in Client, lockUp[p] # << >>, LockRead(p)
  PROVE  /\ lockUp' \in [Client -> Seq({"lock", "unlock", "eof"})]
         /\ \A q \in Client : Len(lockUp'[q]) =< 2
BY DEF LockTypeOK, LockRead

\* Every step of the three handlers of beacon.go keeps the invariant.
LEMMA LockHandlerInv ==
  ASSUME LockInv, NEW p \in Client, LockHandlerStep(p)
  PROVE  LockInv'
<1>1. CASE RecvLock(p)
  <2>1. LockTypeOK'
    BY <1>1, LockReadSeq DEF LockInv, LockTypeOK, RecvLock, LockReceived, LockGoto
  <2>2. LockOwnerInv' /\ LockAliveInv'
    BY <1>1
       DEF LockInv, LockTypeOK, LockOwnerInv, LockStreamInv, LockAliveInv, RecvLock,
           LockGoto
  <2>3. LockStreamInv'
    BY <1>1
       DEF LockInv, LockTypeOK, LockStreamInv, RecvLock, LockReceived, LockRead,
           LockGoto
  <2> QED
    BY <2>1, <2>2, <2>3 DEF LockInv
<1>2. CASE Grant(p)
  <2>1. LockTypeOK'
    BY <1>2 DEF LockInv, LockTypeOK, Grant, LockGoto
  <2>2. LockOwnerInv'
    BY <1>2, LockAssumption DEF LockInv, LockTypeOK, LockOwnerInv, Grant, LockGoto
  <2>3. LockStreamInv' /\ LockAliveInv'
    BY <1>2 DEF LockInv, LockTypeOK, LockStreamInv, LockAliveInv, Grant, LockGoto
  <2> QED
    BY <2>1, <2>2, <2>3 DEF LockInv
<1>3. CASE LockError(p)
  BY <1>3
     DEF LockInv, LockTypeOK, LockOwnerInv, LockStreamInv, LockAliveInv, LockError,
         LockGoto
<1>4. CASE LockSend(p)
  BY <1>4
     DEF LockInv, LockTypeOK, LockOwnerInv, LockStreamInv, LockAliveInv, LockSend,
         LockGoto
<1>5. CASE RecvUnlock(p)
  <2>1. LockTypeOK'
    BY <1>5, LockReadSeq DEF LockInv, LockTypeOK, RecvUnlock, LockReceived, LockGoto
  <2>2. LockOwnerInv'
    BY <1>5, LockAssumption DEF LockInv, LockTypeOK, LockOwnerInv, RecvUnlock, LockGoto
  <2>3. lockCli[p] \notin {"recv", "holding"}
    BY <1>5 DEF LockInv, LockStreamInv, RecvUnlock, LockReceived
  <2>4. LockStreamInv' /\ LockAliveInv'
    BY <1>5, <2>3
       DEF LockInv, LockTypeOK, LockStreamInv, LockAliveInv, RecvUnlock, LockRead, LockGoto
  <2> QED
    BY <2>1, <2>2, <2>4 DEF LockInv
<1>6. CASE Return(p)
  <2>1. LockTypeOK'
    BY <1>6 DEF LockInv, LockTypeOK, Return, LockGoto
  <2>2. LockOwnerInv'
    BY <1>6, LockAssumption DEF LockInv, LockTypeOK, LockOwnerInv, Return, LockGoto
  <2>3. p \in lockDone \/ LockReceived(p, "eof")
    BY <1>6 DEF Return
  <2>4. lockCli[p] \in {"recv", "holding"} => p \in lockDone
    BY <1>6, <2>3 DEF LockInv, LockStreamInv, LockReceived, Return
  <2>5. LockStreamInv' /\ LockAliveInv'
    BY <1>6, <2>4 DEF LockInv, LockTypeOK, LockStreamInv, LockAliveInv, Return, LockGoto
  <2> QED
    BY <2>1, <2>2, <2>5 DEF LockInv
<1> QED
  BY <1>1, <1>2, <1>3, <1>4, <1>5, <1>6 DEF LockHandlerStep

\* The inductive invariant holds throughout.
THEOREM LockInvariance == LockSpec => []LockInv
<1>1. LockInv /\ [LockNext]_lockVars => LockInv'
  <2> SUFFICES ASSUME LockInv, [LockNext]_lockVars PROVE LockInv'
    OBVIOUS
  <2>1. CASE LockNext
    BY <2>1, LockClientInv, LockHandlerInv DEF LockNext
  <2>2. CASE UNCHANGED lockVars
    BY <2>2 DEF LockInv, LockTypeOK, LockOwnerInv, LockStreamInv, LockAliveInv, lockVars
  <2> QED
    BY <2>1, <2>2
<1> QED
  BY <1>1, LockInitInv, PTL DEF LockSpec

(* Clients, streams and handlers of beacon.go:20-175 and control.go:90-177   *)
(* are well typed; no stream ever holds more than two messages.              *)
THEOREM LockTypeCorrect == LockSpec => []LockTypeOK
<1>1. LockInv => LockTypeOK
  BY DEF LockInv
<1> QED
  BY <1>1, LockInvariance, PTL

(* A client that was sent LOCK_STATE_LOCKED and lives owns the lock at the   *)
(* server, however many others die while they wait for it or hold it.        *)
THEOREM LockOwns == LockSpec => []ClientOwns
<1>1. LockInv => ClientOwns
  BY DEF LockInv, LockOwnerInv, LockStreamInv, LockAliveInv, ClientOwns
<1> QED
  BY <1>1, LockInvariance, PTL

(* A handler that returns leaves no lock behind: the deferred unlock of      *)
(* beacon.go covers every way out.                                           *)
THEOREM LockCleans == LockSpec => []LockHandlerCleans
<1>1. LockInv => LockHandlerCleans
  BY DEF LockInv, LockOwnerInv, LockHandlerCleans
<1> QED
  BY <1>1, LockInvariance, PTL

=============================================================================
