----------------------------- MODULE LockStream -----------------------------
(***************************************************************************)
(* The locks for creating a namespace, building an image and setting up a  *)
(* container, through a beacon server: the stream handlers                 *)
(* LockForNamespace, LockForBuild and LockForContainerSetup                *)
(* (internal/beacon/server/beacon.go) and the methods of beaconControl     *)
(* that call them (internal/exclusion/control.go).                         *)
(*                                                                         *)
(* The handlers differ in one thing: that of LockForNamespace waits for a   *)
(* sync.Mutex and does not look at the context of the stream; the others    *)
(* wait for a KeyedLock, which does.  A lock is here what module KeyedLock   *)
(* shows it to be, with one owner at a time.  gRPC is external: a stream    *)
(* delivers messages in order and ends with the context of the client.      *)
(*                                                                         *)
(* The names say "lock" where Beacon has its own of the same idea: both are *)
(* streams of one server, and BeaconProofs is about both.                   *)
(*                                                                         *)
(* Bound: a client makes its next call when the handler of the last one has *)
(* returned, and none after its context has ended.                          *)
(***************************************************************************)
EXTENDS Integers, Sequences

CONSTANTS Client,      \* clients, each with the handler of its stream
          Mutex,       \* locks that are waited for without a context
          Keyed,       \* locks for images and containers
          Mortal,      \* the clients whose context may end
          None         \* no owner, no lock

ASSUME LockAssumption ==
  Mutex \cap Keyed = {} /\ None \notin Client \cup Mutex \cup Keyed

VARIABLES owner,        \* owner[k]: the client whose handler holds k
          lockCli,      \* lockCli[p]: where the client's call is
          key,          \* key[p]: the lock it is about
          lockUp,       \* lockUp[p]: messages the handler has to read
          locked,       \* the clients that were sent LOCK_STATE_LOCKED
          lockHandler,  \* lockHandler[p]: where the handler is
          lockDone      \* the clients whose context has ended

lockVars == <<owner, lockCli, key, lockUp, locked, lockHandler, lockDone>>

Lock == Mutex \cup Keyed

-----------------------------------------------------------------------------
(* beaconControl. *)

ClientLock(p) ==
  /\ lockCli[p] \in {"idle", "ended"} /\ lockHandler[p] = "none" /\ p \notin lockDone
  /\ \E k \in Lock : key' = [key EXCEPT ![p] = k]
  /\ lockUp' = [lockUp EXCEPT ![p] = <<"lock">>]
  /\ locked' = locked \ {p}
  /\ lockCli' = [lockCli EXCEPT ![p] = "recv"]
  /\ lockHandler' = [lockHandler EXCEPT ![p] = "recv"]
  /\ UNCHANGED <<owner, lockDone>>

LockCtxDone(p) ==
  /\ p \in Mortal \ lockDone
  /\ lockDone' = lockDone \cup {p}
  /\ UNCHANGED <<owner, lockCli, key, lockUp, locked, lockHandler>>

LockClientRecv(p) ==
  /\ lockCli[p] = "recv"
  /\ \/ p \in locked /\ lockCli' = [lockCli EXCEPT ![p] = "holding"]
     \/ /\ p \in lockDone \/ lockHandler[p] = "none"
        /\ lockCli' = [lockCli EXCEPT ![p] = "ended"]
  /\ UNCHANGED <<owner, key, lockUp, locked, lockHandler, lockDone>>

\* Mutant of LockClientUnlock: the unlock is sent twice.
ClientUnlockTwice(p) ==
  /\ lockCli[p] = "holding"
  /\ lockUp' = [lockUp EXCEPT ![p] = @ \o <<"unlock", "unlock", "eof">>]
  /\ lockCli' = [lockCli EXCEPT ![p] = "ended"]
  /\ UNCHANGED <<owner, key, locked, lockHandler, lockDone>>

\* The unlock function: it ignores errors, and does not wait for the answer.
LockClientUnlock(p) ==
  /\ lockCli[p] = "holding"
  /\ lockUp' = [lockUp EXCEPT ![p] = @ \o <<"unlock", "eof">>]
  /\ lockCli' = [lockCli EXCEPT ![p] = "ended"]
  /\ UNCHANGED <<owner, key, locked, lockHandler, lockDone>>

-----------------------------------------------------------------------------
(* The handler. *)

LockGoto(p, where) == lockHandler' = [lockHandler EXCEPT ![p] = where]

LockReceived(p, m) == lockUp[p] # << >> /\ Head(lockUp[p]) = m

LockRead(p) == lockUp' = [lockUp EXCEPT ![p] = Tail(@)]

RecvLock(p) ==
  /\ lockHandler[p] = "recv" /\ LockReceived(p, "lock")
  /\ LockRead(p) /\ LockGoto(p, "lock")
  /\ UNCHANGED <<owner, lockCli, key, locked, lockDone>>

\* Mutant of Grant: the lock is shared.
GrantShared(p) ==
  /\ lockHandler[p] = "lock"
  /\ owner' = [owner EXCEPT ![key[p]] = p]
  /\ LockGoto(p, "send")
  /\ UNCHANGED <<lockCli, key, lockUp, locked, lockDone>>

\* Locker.LockForNamespace, LockForBuild, LockForContainerSetup return.
Grant(p) ==
  /\ lockHandler[p] = "lock" /\ owner[key[p]] = None
  /\ owner' = [owner EXCEPT ![key[p]] = p]
  /\ LockGoto(p, "send")
  /\ UNCHANGED <<lockCli, key, lockUp, locked, lockDone>>

\* The Lock of a KeyedLock returns the error of the context.
LockError(p) ==
  /\ lockHandler[p] = "lock" /\ p \in lockDone /\ key[p] \in Keyed
  /\ LockGoto(p, "none")
  /\ UNCHANGED <<owner, lockCli, key, lockUp, locked, lockDone>>

LockSend(p) ==
  /\ lockHandler[p] = "send"
  /\ locked' = locked \cup {p}
  /\ LockGoto(p, "locked")
  /\ UNCHANGED <<owner, lockCli, key, lockUp, lockDone>>

RecvUnlock(p) ==
  /\ lockHandler[p] = "locked" /\ LockReceived(p, "unlock")
  /\ owner' = [owner EXCEPT ![key[p]] = None]
  /\ LockRead(p) /\ LockGoto(p, "recv")
  /\ UNCHANGED <<lockCli, key, locked, lockDone>>

\* Mutant of Return: no deferred unlock.
ReturnKeeping(p) ==
  /\ \/ /\ lockHandler[p] \in {"recv", "locked"}
        /\ p \in lockDone \/ LockReceived(p, "eof")
     \/ lockHandler[p] = "send" /\ p \in lockDone
  /\ LockGoto(p, "none")
  /\ UNCHANGED <<owner, lockCli, key, lockUp, locked, lockDone>>

(* Recv returns io.EOF or an error, or Send an error: the deferred function  *)
(* unlocks what is locked.                                                   *)
Return(p) ==
  /\ \/ /\ lockHandler[p] \in {"recv", "locked"}
        /\ p \in lockDone \/ LockReceived(p, "eof")
     \/ lockHandler[p] = "send" /\ p \in lockDone
  /\ owner' = [owner EXCEPT ![key[p]] = IF @ = p THEN None ELSE @]
  /\ LockGoto(p, "none")
  /\ UNCHANGED <<lockCli, key, lockUp, locked, lockDone>>

-----------------------------------------------------------------------------
\* A server without clients.
LockInit ==
  /\ owner = [k \in Lock |-> None]
  /\ lockCli = [p \in Client |-> "idle"]
  /\ key = [p \in Client |-> None]
  /\ lockUp = [p \in Client |-> << >>]
  /\ locked = {}
  /\ lockHandler = [p \in Client |-> "none"]
  /\ lockDone = {}

LockClientStep(p) == LockClientRecv(p) \/ LockClientUnlock(p)

LockHandlerStep(p) ==
  \/ RecvLock(p) \/ Grant(p) \/ LockError(p) \/ LockSend(p)
  \/ RecvUnlock(p) \/ Return(p)

LockNext ==
  \E p \in Client :
    ClientLock(p) \/ LockCtxDone(p) \/ LockClientStep(p) \/ LockHandlerStep(p)

LockSpec == LockInit /\ [][LockNext]_lockVars

(* Messages arrive and users unlock.  A semaphore serves its waiters in      *)
(* order, and a sync.Mutex does not starve one: Grant is strongly fair.      *)
LockFairSpec ==
  /\ LockSpec
  /\ \A p \in Client :
       /\ WF_lockVars(LockClientStep(p)) /\ WF_lockVars(LockHandlerStep(p))
       /\ SF_lockVars(Grant(p))

-----------------------------------------------------------------------------
\* Type invariant of the clients, the streams and the handlers.
LockTypeOK ==
  /\ owner \in [Lock -> Client \cup {None}]
  /\ lockCli \in [Client -> {"idle", "recv", "holding", "ended"}]
  /\ key \in [Client -> Lock \cup {None}]
  /\ lockUp \in [Client -> Seq({"lock", "unlock", "eof"})]
  /\ \A p \in Client : Len(lockUp[p]) =< 2
  /\ locked \subseteq Client
  /\ lockHandler \in [Client -> {"none", "recv", "lock", "send", "locked"}]
  /\ lockDone \subseteq Mortal

(* A client that was told that it holds a lock, its context alive, owns it   *)
(* at the server until it has asked for the unlock: so no two such clients    *)
(* hold one lock.                                                            *)
ClientOwns ==
  \A p \in Client : lockCli[p] = "holding" /\ p \notin lockDone => owner[key[p]] = p

(* A lock belongs to a client only as long as that client has a handler: one *)
(* that returns, for whatever reason, leaves no lock behind.                 *)
LockHandlerCleans ==
  \A k \in Lock : owner[k] # None => lockHandler[owner[k]] \in {"send", "locked"}

(* Who asks for a lock gets it, however many others die, waiting or holding. *)
LockAcquired ==
  \A p \in Client : lockCli[p] = "recv" ~> lockCli[p] = "holding" \/ p \in lockDone

=============================================================================
