------------------------------- MODULE Beacon -------------------------------
(***************************************************************************)
(* The use of containers through a beacon server: the stream handler       *)
(* AcquireContainerLock (internal/beacon/server/beacon.go) and its client, *)
(* beaconControl.LockForContainerUse (internal/exclusion/control.go).      *)
(*                                                                         *)
(* The server holds the locks, in a Locker; the client runs the init        *)
(* functions and uses the containers.  A process is a client together with *)
(* the handler of its stream.  gRPC is external: a stream delivers the      *)
(* client's messages in order, ends with the context of the client, and     *)
(* tells the client when the handler has returned.  A client that dies is    *)
(* one whose context ends.  Only beaconControl talks to the server, so the   *)
(* handler's answers to messages it never sends are left out.                *)
(*                                                                         *)
(* Bound: a client makes its next call when the handler of the last one has *)
(* returned, and none after its context has ended.                          *)
(***************************************************************************)
EXTENDS Integers, Sequences, FiniteSets

CONSTANTS Proc,        \* clients
          Key,         \* names of containers
          max,         \* tokens of a semaphore
          Cancelable,  \* the clients whose context may end
          Failing,     \* the clients whose init functions may fail
          Requests     \* Requests[p]: the params a call of p may have

VARIABLES queue, set, proceed, phase, job, done,     \* of Acquirer
          st, cur, waiters,                          \* of KeyedLock
          once, req, at, initPending, downgraded, initErr, runs,  \* of Locker
          cli,      \* cli[p]: where the client's call is
          params,   \* params[p]: the params of that call
          todo,     \* todo[p]: results with AcquireInit, not initialised yet
          up,       \* up[p]: what the client sent and the handler has to read
          down,     \* down[p]: the response, initAcquired, if not read yet
          handler,  \* handler[p]: where the handler is
          i         \* i[p]: the counter of its InitLoop, while it is there

L == INSTANCE Locker

\* What Locker assumes of its constants; the params of a call are finitely many.
ASSUME BeaconAssumption ==
  /\ DOMAIN Requests = Proc
  /\ \A p \in Proc : \A r \in Requests[p] :
       \E S \in SUBSET Key : S # {} /\ IsFiniteSet(S) /\ r \in [S -> L!Param]
  /\ IsFiniteSet(Proc)
  /\ max \in Nat \ {0}
  /\ Cancelable \subseteq Proc
  /\ Failing \subseteq Proc

lockerVars == <<queue, set, proceed, phase, job, done, st, cur, waiters,
                once, req, at, initPending, downgraded, initErr>>
clientVars == <<cli, params, todo, runs>>
vars == <<lockerVars, clientVars, up, down, handler, i>>

Message ==
  [type : {"acquire"}, req : UNION {Requests[p] : p \in Proc}]
    \cup [type : {"init"}, key : Key, ok : BOOLEAN]
    \cup [type : {"release", "eof"}]

-----------------------------------------------------------------------------
(* beaconControl.LockForContainerUse. *)

ClientAcquire(p) ==
  /\ cli[p] \in {"idle", "ended"} /\ handler[p] = "none" /\ p \notin done
  /\ \E r \in Requests[p] :
       /\ params' = [params EXCEPT ![p] = r]
       /\ up' = [up EXCEPT ![p] = <<[type |-> "acquire", req |-> r]>>]
  /\ down' = [down EXCEPT ![p] = << >>]
  /\ cli' = [cli EXCEPT ![p] = "recv"]
  /\ handler' = [handler EXCEPT ![p] = "recv"]
  /\ UNCHANGED <<lockerVars, todo, runs, i>>

\* The context of the client, and so that of the stream, ends.
CtxDone(p) ==
  /\ L!A!CtxDone(p)
  /\ UNCHANGED <<st, cur, waiters, once, req, at, initPending, downgraded,
                 initErr, clientVars, up, down, handler, i>>

Broken(p) == p \in done \/ handler[p] = "none"

ClientRecv(p) ==
  /\ cli[p] = "recv" /\ down[p] # << >>
  /\ todo' = [todo EXCEPT ![p] = Head(down[p])]
  /\ down' = [down EXCEPT ![p] = << >>]
  /\ cli' = [cli EXCEPT ![p] = "init"]
  /\ UNCHANGED <<lockerVars, params, runs, up, handler, i>>

ClientRecvError(p) ==
  /\ cli[p] = "recv" /\ Broken(p)
  /\ cli' = [cli EXCEPT ![p] = "ended"]
  /\ UNCHANGED <<lockerVars, params, todo, runs, up, down, handler, i>>

\* One init function, and the message with its result.  The call fails when
\* the init fails, after CloseSend, or when the message cannot be sent.
ClientInit(p, k) ==
  /\ cli[p] = "init" /\ k \in todo[p]
  /\ \E ok, sent \in BOOLEAN :
       /\ ok \/ p \in Failing \cup done
       /\ sent \/ Broken(p)
       /\ runs' = IF ok THEN [runs EXCEPT ![k] = @ + 1] ELSE runs
       /\ up' = IF sent
                THEN [up EXCEPT ![p] =
                        @ \o <<[type |-> "init", key |-> k, ok |-> ok]>>
                          \o IF ok THEN << >> ELSE <<[type |-> "eof"]>>]
                ELSE up
       /\ IF ok /\ sent
          THEN todo' = [todo EXCEPT ![p] = @ \ {k}] /\ UNCHANGED cli
          ELSE /\ todo' = [todo EXCEPT ![p] = {}]
               /\ cli' = [cli EXCEPT ![p] = "ended"]
  /\ UNCHANGED <<lockerVars, params, down, handler, i>>

ClientUse(p) ==
  /\ cli[p] = "init" /\ todo[p] = {}
  /\ cli' = [cli EXCEPT ![p] = "using"]
  /\ UNCHANGED <<lockerVars, params, todo, runs, up, down, handler, i>>

\* The unlock function that the call returned; it ignores errors.
ClientUnlock(p) ==
  /\ cli[p] = "using"
  /\ up' = [up EXCEPT ![p] = @ \o <<[type |-> "release"], [type |-> "eof"]>>]
  /\ cli' = [cli EXCEPT ![p] = "ended"]
  /\ UNCHANGED <<lockerVars, params, todo, runs, down, handler, i>>

-----------------------------------------------------------------------------
(* The handler.  Recv returns the next message, io.EOF or, once the context  *)
(* has ended, an error; of a message and an error it may return either.      *)

Received(p, type) == up[p] # << >> /\ Head(up[p]).type = type

RecvError(p) == p \in done \/ Received(p, "eof")

Read(p) == up' = [up EXCEPT ![p] = Tail(@)]

Goto(p, where) == handler' = [handler EXCEPT ![p] = where]

\* release(), whose Unlocks follow one by one: see Unlock.
Release(p, then) ==
  /\ L!A!Release(p)
  /\ Goto(p, then)
  /\ UNCHANGED <<st, cur, waiters, once, req, at, initPending, downgraded,
                 initErr, clientVars, down>>

(* The call of Locker.AcquireContainerLock.  A context that ends before the  *)
(* call has the effect of one that ends right after it.                      *)
Acquire(p) ==
  /\ handler[p] = "recv" /\ Received(p, "acquire")
  /\ L!Call(p) /\ req'[p] = Head(up[p]).req
  /\ Read(p) /\ Goto(p, "acquire")
  /\ UNCHANGED <<cli, params, todo, down, i>>

\* Mutant of Stop: an error other than io.EOF does not end the loop.
StopAtEof(p) ==
  /\ handler[p] = "recv"
  /\ up[p] # << >> /\ Head(up[p]).type # "acquire"
  /\ Goto(p, "none")
  /\ UNCHANGED <<lockerVars, clientVars, up, down, i>>

\* The outer loop ends: nothing more to come, or not an acquire message.
Stop(p) ==
  /\ handler[p] = "recv"
  /\ p \in done \/ (up[p] # << >> /\ Head(up[p]).type # "acquire")
  /\ Goto(p, "none")
  /\ UNCHANGED <<lockerVars, clientVars, up, down, i>>

\* The steps of AcquireContainerLock.
Locking(p) ==
  /\ handler[p] = "acquire"
  /\ \/ L!Queue(p)
     \/ \E k \in Key :
          \/ L!DoOnce(p, k) \/ L!SkipOnce(p, k) \/ L!OnceDone(p, k)
          \/ L!PlainLock(p, k) \/ L!InitLocked(p, k) \/ L!PlainLocked(p, k)
          \/ L!LockError(p, k)
  /\ UNCHANGED <<cli, params, todo, up, down, handler, i>>

\* AcquireContainerLock returned an error, and so does the handler.
AcquireError(p) ==
  /\ handler[p] = "acquire" /\ phase[p] \in {"out", "left"}
  /\ Goto(p, "none")
  /\ UNCHANGED <<lockerVars, clientVars, up, down, i>>

\* The results are sent; initTargets is initPending[p].
Send(p) ==
  /\ handler[p] = "acquire" /\ phase[p] = "held"
  /\ down' = [down EXCEPT ![p] = <<initPending[p]>>]
  /\ i' = [i EXCEPT ![p] = 0]
  /\ Goto(p, "init")
  /\ UNCHANGED <<lockerVars, clientVars, up>>

SendError(p) ==
  /\ handler[p] = "acquire" /\ phase[p] = "held" /\ p \in done
  /\ Release(p, "end")
  /\ UNCHANGED <<up, i>>

InitLoop(p) == handler[p] = "init" /\ i[p] < Cardinality(initPending[p])

InitResult(p) ==
  /\ InitLoop(p) /\ Received(p, "init")
  /\ LET m == Head(up[p])
     IN  /\ L!SetInitResult(p, m.key, m.ok)
         /\ Goto(p, IF m.ok THEN "init" ELSE "clean")
  /\ i' = [i EXCEPT ![p] = IF Head(up[p]).ok THEN @ + 1 ELSE 0]
  /\ Read(p)
  /\ UNCHANGED <<queue, set, proceed, phase, job, done, req, at, initErr,
                 clientVars, down>>

\* The client is gone; the init results that are missing are not set.
InitError(p) ==
  /\ InitLoop(p) /\ RecvError(p)
  /\ Release(p, "end")
  /\ i' = [i EXCEPT ![p] = 0]
  /\ UNCHANGED up

InitLoopEnds(p) ==
  /\ handler[p] = "init" /\ ~ InitLoop(p)
  /\ Goto(p, "clean")
  /\ i' = [i EXCEPT ![p] = 0]
  /\ UNCHANGED <<lockerVars, clientVars, up, down>>

\* SetInitResult(false) for a target that is left; failed = true.
Clean(p, k) ==
  /\ handler[p] \in {"clean", "failed"} /\ k \in initPending[p]
  /\ L!SetInitResult(p, k, FALSE)
  /\ Goto(p, "failed")
  /\ UNCHANGED <<queue, set, proceed, phase, job, done, req, at, initErr,
                 clientVars, up, down, i>>

Failed(p) ==
  /\ handler[p] = "failed" /\ initPending[p] = {}
  /\ Release(p, "again")
  /\ UNCHANGED <<up, i>>

Succeeded(p) ==
  /\ handler[p] = "clean" /\ initPending[p] = {}
  /\ Goto(p, "wait")
  /\ UNCHANGED <<lockerVars, clientVars, up, down, i>>

\* Mutant of WaitError: the handler returns and forgets the locks.
WaitErrorKeeping(p) ==
  /\ handler[p] = "wait" /\ RecvError(p)
  /\ Goto(p, "none")
  /\ UNCHANGED <<lockerVars, clientVars, up, down, i>>

WaitError(p) ==
  /\ handler[p] = "wait" /\ RecvError(p)
  /\ Release(p, "end")
  /\ UNCHANGED <<up, i>>

WaitRelease(p) ==
  /\ handler[p] = "wait" /\ Received(p, "release")
  /\ Release(p, "again")
  /\ Read(p)
  /\ UNCHANGED i

\* The Unlocks of release, or of AcquireContainerLock when it failed.
Unlock(p) ==
  /\ handler[p] # "none"
  /\ L!Return(p) \/ \E k \in Key : L!UnlockKey(p, k)
  /\ UNCHANGED <<cli, params, todo, up, down, handler, i>>

\* release returned: the handler returns, or continues its outer loop.
Released(p) ==
  /\ handler[p] \in {"end", "again"} /\ phase[p] = "out"
  /\ Goto(p, IF handler[p] = "end" THEN "none" ELSE "recv")
  /\ UNCHANGED <<lockerVars, clientVars, up, down, i>>

-----------------------------------------------------------------------------
\* A server without clients.
Init ==
  /\ L!Init
  /\ cli = [p \in Proc |-> "idle"]
  /\ params = [p \in Proc |-> << >>]
  /\ todo = [p \in Proc |-> {}]
  /\ up = [p \in Proc |-> << >>]
  /\ down = [p \in Proc |-> << >>]
  /\ handler = [p \in Proc |-> "none"]
  /\ i = [p \in Proc |-> 0]

ClientStep(p) ==
  \/ ClientRecv(p) \/ ClientRecvError(p) \/ ClientUse(p) \/ ClientUnlock(p)
  \/ \E k \in Key : ClientInit(p, k)

HandlerStep(p) ==
  \/ Acquire(p) \/ Stop(p) \/ Locking(p) \/ AcquireError(p)
  \/ Send(p) \/ SendError(p) \/ InitResult(p) \/ InitError(p) \/ InitLoopEnds(p)
  \/ Failed(p) \/ Succeeded(p) \/ WaitError(p) \/ WaitRelease(p)
  \/ Unlock(p) \/ Released(p)
  \/ \E k \in Key : Clean(p, k)

Next ==
  \E p \in Proc :
    ClientAcquire(p) \/ CtxDone(p) \/ ClientStep(p) \/ HandlerStep(p)

Spec == Init /\ [][Next]_vars

(* Handlers and clients go on as long as they can: messages arrive, init     *)
(* functions return, users release.  Nobody has to make a call.              *)
FairSpec ==
  Spec /\ \A p \in Proc : WF_vars(ClientStep(p) \/ HandlerStep(p))

-----------------------------------------------------------------------------
\* Type invariant of the clients, the streams and the handlers.
TypeOK ==
  /\ L!TypeOK
  /\ cli \in [Proc -> {"idle", "recv", "init", "using", "ended"}]
  /\ \A p \in Proc : params[p] \in Requests[p] \cup {<< >>}
  /\ todo \in [Proc -> SUBSET Key]
  /\ \A p \in Proc : \A n \in 1..Len(up[p]) : up[p][n] \in Message
  /\ \A p \in Proc : Len(down[p]) =< 1
  /\ handler \in [Proc -> {"none", "recv", "acquire", "init", "clean",
                           "failed", "wait", "again", "end"}]
  /\ i \in [Proc -> 0..Cardinality(Key)]

Protected(p) ==
  cli[p] \in {"init", "using"} /\ p \notin done =>
    \A k \in DOMAIN params[p] :
      \/ st[p][k] = "ex"
      \/ st[p][k] = "sh" /\ ~ params[p][k].exclusive /\ k \notin todo[p]

(* What the client believes, the server knows: a client that initialises or  *)
(* uses containers, its context alive, has their locks at the server, in     *)
(* the mode it asked for or, while the result of its init is on the way,     *)
(* exclusively (beacon.go:253; run Beacon_twoinits).                         *)
ClientProtected == \A p \in Proc : Protected(p)

(* A handler that returned has left no lock behind, whatever happened to its *)
(* client: released, failed, died before, during or after its inits.         *)
HandlerCleans ==
  \A p \in Proc, k \in Key : handler[p] = "none" => st[p][k] = "none"

(* Every call is answered, with the locks or an error, and every client that *)
(* is done, one way or the other, is forgotten: its locks are released and   *)
(* its handler returns.  A call may wait in vain only if a client died in the *)
(* queue of the Acquirer: what that does is in run Acquirer_leak.             *)
CallEnds ==
  \A p \in Proc :
    cli[p] \in {"recv", "ended"} \/ p \in done ~>
      \/ handler[p] = "none"
      \/ p \notin done /\ cli[p] \in {"init", "using"}
      \/ p \notin done /\ cli[p] = "recv" /\ \E r \in Proc : phase[r] = "left"

Calls == UNION {Requests[p] : p \in Proc}

\* The calls with more than one init, and the containers that they initialise.
ManyInits == {r \in Calls : Cardinality({k \in DOMAIN r : r[k].init}) > 1}
Split == {k \in Key : \E r \in ManyInits : k \in DOMAIN r /\ r[k].init}

Using(p) == cli[p] = "using" /\ p \notin done /\ params[p] \notin ManyInits

Use == [p \in Proc |-> IF Using(p) THEN params[p] ELSE << >>]

\* Whose calls are outside of the promise, and the inits without theirs.
Outside == done \cup {p \in Proc : params[p] \in ManyInits}
Inits == [k \in Key |-> IF k \in Split /\ runs[k] > 0 THEN 1 ELSE runs[k]]

CU == INSTANCE ContainerUse WITH
        use <- Use, outside <- Outside, inits <- Inits, Requests <- Calls

(* Clients that share a server see what callers of one Locker see: the        *)
(* containers of a call are given and taken back at once, to compatible users, *)
(* and inits succeed alone and "only once per container" (confort.go:672), also *)
(* when their results travel and clients die on the way (control.go:194,       *)
(* beacon.go:180).  Outside of this promise are a client whose context has     *)
(* ended, as the server has released its locks whatever it still does, and     *)
(* calls with two inits, with the containers that they initialise.             *)
ImplementsContainerUse == CU!Spec

=============================================================================
