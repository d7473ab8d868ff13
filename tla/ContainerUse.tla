---------------------------- MODULE ContainerUse ----------------------------
(***************************************************************************)
(* What LockForContainerUse promises its callers, whoever implements it:    *)
(* control over a Locker in the same process (module Locker), or            *)
(* beaconControl through a beacon server (module Beacon).                   *)
(*                                                                         *)
(* A call gives all of its containers at once, "Acquire initiates the       *)
(* acquisition of locks of the multi-containers ... at the same time"        *)
(* (confort.go:756), when nobody else uses one of them in a way that        *)
(* excludes it, and takes them back at once.  An init function succeeds     *)
(* once per container, and while nobody uses that container.                 *)
(***************************************************************************)
CONSTANTS Proc,      \* callers
          Key,       \* names of containers
          Requests   \* the params a call may have

VARIABLES use,      \* use[p]: the params of the containers p uses
          inits,    \* inits[k]: how often an init of k has succeeded
          outside   \* the callers that are not covered by the promise

vars == <<use, inits, outside>>

Compatible(r, s) ==
  \A k \in DOMAIN r \cap DOMAIN s : ~ r[k].exclusive /\ ~ s[k].exclusive

Grant(p) ==
  /\ use[p] = << >>
  /\ \E r \in Requests :
       /\ \A q \in Proc \ {p} : Compatible(r, use[q])
       /\ use' = [use EXCEPT ![p] = r]

Acquire(p) == Grant(p) /\ UNCHANGED <<inits, outside>>

\* The last init function of a call may be what the call waits for.
Initialise(p, k) ==
  /\ inits[k] = 0
  /\ p \in outside \/ \A q \in Proc : k \notin DOMAIN use[q]
  /\ inits' = [inits EXCEPT ![k] = 1]
  /\ Grant(p) \/ UNCHANGED use
  /\ UNCHANGED outside

Release(p) ==
  /\ use' = [use EXCEPT ![p] = << >>]
  /\ UNCHANGED <<inits, outside>>

\* A caller leaves the promise, where what it does or has not given back is
\* its own affair, or comes back to it.
Move(p) ==
  /\ outside' \in {outside \cup {p}, outside \ {p}}
  /\ use' = [use EXCEPT ![p] = << >>]
  /\ UNCHANGED inits

Init ==
  /\ use = [p \in Proc |-> << >>]
  /\ inits = [k \in Key |-> 0]
  /\ outside = {}

Next ==
  \E p \in Proc :
    \/ Acquire(p) \/ Release(p) \/ Move(p)
    \/ \E k \in Key : Initialise(p, k)

Spec == Init /\ [][Next]_vars
=============================================================================
