------------------------------- MODULE Unique -------------------------------
(***************************************************************************)
(* unique/unique.go and internal/beacon/server/unique.go: values that no   *)
(* two tests get.                                                          *)
(*                                                                         *)
(* A Unique draws values from a function until it gets a new one.  Without *)
(* a beacon server it remembers them itself, in a map under a mutex; with   *)
(* one, the server remembers the text fmt.Sprint makes of them, in a store  *)
(* that many Uniques in many processes share.  A call of StoreUniqueValue   *)
(* may fail on its way to the server or back (external: gRPC).              *)
(***************************************************************************)
EXTENDS Integers, FiniteSets

CONSTANTS Call,      \* callers of Unique.New
          Local,     \* Uniques that remember their values themselves
          Global,    \* Uniques with a beacon server
          storeName, \* storeName[u]: the store of a global Unique
          Value,     \* what the functions may return
          Sprint,    \* Sprint[v]: the text of v, the same for several perhaps
          n,         \* the argument of WithRetry
          width,     \* bits of a uint
          None

ASSUME UniqueAssumption ==
  /\ Local \cap Global = {}
  /\ DOMAIN storeName = Global
  /\ DOMAIN Sprint = Value
  /\ n \in Nat /\ width \in Nat
  /\ None \notin Call \cup Local \cup Global \cup Value

\* A positive number: the provers know nothing of powers.
ASSUME PowerAssumption == 2^width \in Nat \ {0}

Text == {Sprint[v] : v \in Value}

VARIABLES m,      \* m[u]: the values in the map of a local Unique
          mu,     \* mu[u]: the call that has its mutex
          values, \* values[s]: what the server's valueStore for s holds
          pc,     \* pc[c]: where the call is
          uniq,   \* uniq[c]: the Unique that is called
          cand,   \* cand[c]: the value it has drawn
          i,      \* i[c]: the loop counter of generate
          given,  \* history: the calls' results, <<scope, value>> with a count
          lost    \* history: stored values whose call got an error

vars == <<m, mu, values, pc, uniq, cand, i, given, lost>>

Store == {storeName[u] : u \in Global}

\* A Unique without a server is not the name of a store.
ASSUME ScopeAssumption == Local \cap Store = {}

(* WithRetry: no limit is one less than zero. *)
retry == IF n = 0 THEN (n - 1) % 2^width ELSE n

(* Where the value must be unique: in the Unique, or in its store. *)
Scope(u) == IF u \in Local THEN u ELSE storeName[u]

-----------------------------------------------------------------------------
Goto(c, where) == pc' = [pc EXCEPT ![c] = where]

\* generate of a local Unique starts: g.mu.Lock().
LockMu(c, u) ==
  /\ pc[c] = "idle" /\ u \in Local /\ mu[u] = None
  /\ mu' = [mu EXCEPT ![u] = c]
  /\ uniq' = [uniq EXCEPT ![c] = u]
  /\ Goto(c, "loop")
  /\ UNCHANGED <<m, values, cand, i, given, lost>>

\* generate of a global Unique starts.
Start(c, u) ==
  /\ pc[c] = "idle" /\ u \in Global
  /\ uniq' = [uniq EXCEPT ![c] = u]
  /\ Goto(c, "loop")
  /\ UNCHANGED <<m, mu, values, cand, i, given, lost>>

\* generate returns; a local one releases its mutex.
Return(c) ==
  /\ Goto(c, "idle")
  /\ uniq' = [uniq EXCEPT ![c] = None]
  /\ cand' = [cand EXCEPT ![c] = None]
  /\ i' = [i EXCEPT ![c] = 0]
  /\ mu' = IF uniq[c] \in Local THEN [mu EXCEPT ![uniq[c]] = None] ELSE mu

\* One more round of the loop: f is called.
CallF(c) ==
  /\ pc[c] = "loop" /\ i[c] < retry
  /\ Goto(c, "f")
  /\ UNCHANGED <<m, mu, values, uniq, cand, i, given, lost>>

\* errFailedToGenerate.
Exhausted(c) ==
  /\ pc[c] = "loop" /\ i[c] >= retry
  /\ Return(c)
  /\ UNCHANGED <<m, values, given, lost>>

\* Mutant of Retryable: the round is not counted.
RetryableUncounted(c) ==
  /\ pc[c] = "f"
  /\ Goto(c, "loop")
  /\ UNCHANGED <<m, mu, values, uniq, cand, i, given, lost>>

\* f returns ErrRetryable.
Retryable(c) ==
  /\ pc[c] = "f"
  /\ i' = [i EXCEPT ![c] = @ + 1]
  /\ Goto(c, "loop")
  /\ UNCHANGED <<m, mu, values, uniq, cand, given, lost>>

\* f returns another error.
FError(c) ==
  /\ pc[c] = "f"
  /\ Return(c)
  /\ UNCHANGED <<m, values, given, lost>>

\* f returns a value.
Drawn(c, v) ==
  /\ pc[c] = "f"
  /\ cand' = [cand EXCEPT ![c] = v]
  /\ Goto(c, IF uniq[c] \in Local THEN "check" ELSE "call")
  /\ UNCHANGED <<m, mu, values, uniq, i, given, lost>>

Give(c) == given' = [given EXCEPT ![<<Scope(uniq[c]), cand[c]>>] = @ + 1]

\* The value is not new: retry.
Again(c) ==
  /\ cand' = [cand EXCEPT ![c] = None]
  /\ i' = [i EXCEPT ![c] = @ + 1]
  /\ Goto(c, "loop")
  /\ UNCHANGED <<mu, uniq, given>>

\* The rest of a local round: the value is looked up, and kept if it is new.
Check(c) ==
  /\ pc[c] = "check"
  /\ IF cand[c] \in m[uniq[c]]
     THEN Again(c) /\ UNCHANGED m
     ELSE /\ m' = [m EXCEPT ![uniq[c]] = @ \cup {cand[c]}]
          /\ Give(c) /\ Return(c)
  /\ UNCHANGED <<values, lost>>

\* Mutant of tryStore: the value is stored, whether it was there or not.
tryStoreAlways(c) ==
  /\ pc[c] = "call"
  /\ values' = [values EXCEPT ![storeName[uniq[c]]] = @ \cup {Sprint[cand[c]]}]
  /\ Goto(c, "stored")
  /\ UNCHANGED <<m, mu, uniq, cand, i, given, lost>>

\* Mutant of tryStore: the value is looked up after it was added.
tryStoreRefused(c) ==
  /\ pc[c] = "call"
  /\ values' = [values EXCEPT ![storeName[uniq[c]]] = @ \cup {Sprint[cand[c]]}]
  /\ Goto(c, "refused")
  /\ UNCHANGED <<m, mu, uniq, cand, i, given, lost>>

\* The server's StoreUniqueValue: tryStore, one step under its mutex.
tryStore(c) ==
  /\ pc[c] = "call"
  /\ LET s == storeName[uniq[c]]
         t == Sprint[cand[c]]
     IN  IF t \in values[s]
         THEN Goto(c, "refused") /\ UNCHANGED values
         ELSE /\ values' = [values EXCEPT ![s] = @ \cup {t}]
              /\ Goto(c, "stored")
  /\ UNCHANGED <<m, mu, uniq, cand, i, given, lost>>

\* The call of StoreUniqueValue returns an error, before or after its effect.
RPCError(c) ==
  /\ pc[c] \in {"call", "stored", "refused"}
  /\ lost' = IF pc[c] = "stored"
             THEN lost \cup {<<storeName[uniq[c]], Sprint[cand[c]]>>} ELSE lost
  /\ Return(c)
  /\ UNCHANGED <<m, values, given>>

\* The answer of the server arrives.
Stored(c) ==
  /\ pc[c] = "stored"
  /\ Give(c) /\ Return(c)
  /\ UNCHANGED <<m, values, lost>>

Refused(c) ==
  /\ pc[c] = "refused"
  /\ Again(c)
  /\ UNCHANGED <<m, values, lost>>

-----------------------------------------------------------------------------
\* New Uniques and a new server, before any call.
Init ==
  /\ m = [u \in Local |-> {}]
  /\ mu = [u \in Local |-> None]
  /\ values = [s \in Store |-> {}]
  /\ pc = [c \in Call |-> "idle"]
  /\ uniq = [c \in Call |-> None]
  /\ cand = [c \in Call |-> None]
  /\ i = [c \in Call |-> 0]
  /\ given = [x \in (Local \cup Store) \X Value |-> 0]
  /\ lost = {}

\* What a call does once it has started.
Step(c) ==
  \/ CallF(c) \/ Exhausted(c) \/ Retryable(c) \/ FError(c)
  \/ Check(c) \/ tryStore(c) \/ RPCError(c) \/ Stored(c) \/ Refused(c)
  \/ \E v \in Value : Drawn(c, v)

Next ==
  \E c \in Call :
    Step(c) \/ \E u \in Local \cup Global : LockMu(c, u) \/ Start(c, u)

Spec == Init /\ [][Next]_vars

\* A call that has started goes on: f and StoreUniqueValue return.
FairSpec == Spec /\ \A c \in Call : WF_vars(Step(c))

-----------------------------------------------------------------------------
\* Type invariant of the generators, the stores and the calls.
TypeOK ==
  /\ m \in [Local -> SUBSET Value]
  /\ mu \in [Local -> Call \cup {None}]
  /\ values \in [Store -> SUBSET Text]
  /\ pc \in [Call -> {"idle", "loop", "f", "check", "call", "stored", "refused"}]
  /\ uniq \in [Call -> Local \cup Global \cup {None}]
  /\ cand \in [Call -> Value \cup {None}]
  /\ i \in [Call -> 0..retry]
  /\ given \in [(Local \cup Store) \X Value -> Nat]
  /\ lost \subseteq Store \X Text

(* No two calls get the same value from a Unique, or from Uniques of one     *)
(* store: "unique values through all tests that reference the same beacon     *)
(* server and storeName" (unique.go:50-51).  Through a store, not even two   *)
(* values with the same text.                                                *)
GivenOnce ==
  /\ \A x \in DOMAIN given : given[x] =< 1
  /\ \A s \in Store, v, w \in Value :
       v # w /\ given[<<s, v>>] > 0 /\ given[<<s, w>>] > 0
         => Sprint[v] # Sprint[w]

(* The server's stores hold what was given, what is on its way to a call and *)
(* what was lost on that way, and nothing else: no value is burnt without    *)
(* an error, and none is given that the server does not know.                *)
StoreAccounted ==
  \A s \in Store :
    values[s] = {Sprint[v] : v \in {w \in Value : given[<<s, w>>] > 0}}
      \cup {Sprint[cand[c]] :
              c \in {d \in Call : pc[d] = "stored" /\ storeName[uniq[d]] = s}}
      \cup {t \in Text : <<s, t>> \in lost}

(* Every call returns: the retries come to an end, also with WithRetry(0).   *)
CallReturns == \A c \in Call : pc[c] # "idle" ~> pc[c] = "idle"

=============================================================================
