---------------------------- MODULE UniqueProofs ----------------------------
(***************************************************************************)
(* The Uniques of module Unique give no value twice, for any number of      *)
(* callers, Uniques, stores and values, any text fmt.Sprint makes of them,   *)
(* and whatever calls of the server fail.                                   *)
(***************************************************************************)
EXTENDS Unique, TLAPS

\* What a call works on, and that it has rounds left once it has called f.
CallInv ==
  \A c \in Call :
    /\ pc[c] # "idle" => uniq[c] \in Local \cup Global
    /\ pc[c] = "check" => uniq[c] \in Local
    /\ pc[c] \in {"call", "stored", "refused"} => uniq[c] \in Global
    /\ pc[c] \in {"check", "call", "stored", "refused"} => cand[c] \in Value
    /\ pc[c] \notin {"idle", "loop"} => i[c] < retry

\* A call of a local Unique has its mutex, and nobody else has.
MutexInv ==
  /\ \A c \in Call : pc[c] # "idle" /\ uniq[c] \in Local => mu[uniq[c]] = c
  /\ \A u \in Local : mu[u] # None => pc[mu[u]] # "idle" /\ uniq[mu[u]] = u

\* The map of a local Unique holds what it has given.
MapInv ==
  \A u \in Local, v \in Value :
    given[<<u, v>>] = IF v \in m[u] THEN 1 ELSE 0

Given(s, t) == \E v \in Value : given[<<s, v>>] > 0 /\ Sprint[v] = t

\* The text t is in the store s, and the answer is on its way to c.
Coming(c, s, t) ==
  pc[c] = "stored" /\ storeName[uniq[c]] = s /\ Sprint[cand[c]] = t

\* A store holds what was given, what is on its way and what was lost.
StoreInv ==
  \A s \in Store, t \in Text :
    t \in values[s] <=>
      Given(s, t) \/ (\E c \in Call : Coming(c, s, t)) \/ <<s, t>> \in lost

\* A text was given once, or is on its way to one call, and not both.
SourceInv ==
  /\ \A s \in Store, v \in Value : given[<<s, v>>] =< 1
  /\ \A s \in Store, v, w \in Value :
       given[<<s, v>>] > 0 /\ given[<<s, w>>] > 0 /\ Sprint[v] = Sprint[w]
         => v = w
  /\ \A s \in Store, t \in Text, c \in Call :
       Coming(c, s, t) =>
         ~ Given(s, t) /\ \A d \in Call : Coming(d, s, t) => c = d

(* The inductive invariant.  GivenOnce is not inductive: a value is given    *)
(* later than it is stored, and in between its text must not be given or     *)
(* stored again.                                                            *)
IInv == TypeOK /\ CallInv /\ MutexInv /\ MapInv /\ StoreInv /\ SourceInv

-----------------------------------------------------------------------------
\* WithRetry: there is a limit.
LEMMA RetryNat == retry \in Nat
BY UniqueAssumption, PowerAssumption DEF retry

\* The scopes and the values of the history given.
LEMMA GivenType ==
  ASSUME TypeOK, NEW s \in Local \cup Store, NEW v \in Value
  PROVE  given[<<s, v>>] \in Nat
BY DEF TypeOK

\* The text of a value, and the store of a global Unique.
LEMMA TextType == \A v \in Value : Sprint[v] \in Text
BY DEF Text

LEMMA StoreType ==
  ASSUME NEW u \in Global
  PROVE  storeName[u] \in Store /\ Scope(u) = storeName[u]
BY UniqueAssumption DEF Store, Scope

\* New Uniques and a new server.
LEMMA InitInv == Init => IInv
<1> SUFFICES ASSUME Init PROVE IInv
  OBVIOUS
<1> USE DEF Init
<1>1. TypeOK
  BY RetryNat DEF TypeOK
<1>2. CallInv /\ MutexInv /\ MapInv
  BY DEF CallInv, MutexInv, MapInv
<1>3. \A s \in Store, v \in Value : given[<<s, v>>] = 0 /\ ~ given[<<s, v>>] > 0
  OBVIOUS
<1>4. \A s \in Store, t \in Text : ~ Given(s, t)
  BY <1>3 DEF Given
<1>5. \A c \in Call : \A s, t : ~ Coming(c, s, t)
  BY DEF Coming
<1>6. StoreInv
  BY <1>4, <1>5 DEF StoreInv
<1>7. SourceInv
  BY <1>3, <1>5 DEF SourceInv
<1> QED
  BY <1>1, <1>2, <1>6, <1>7 DEF IInv

-----------------------------------------------------------------------------
\* Steps in which no call gets, stores or loses a value.
Quiet == UNCHANGED <<m, values, given, lost>>

\* The invariants of the maps and stores are kept if the values that are on
\* their way stay the same.
LEMMA QuietInv ==
  ASSUME IInv, Quiet,
         \A c \in Call, s \in Store, t \in Text :
           Coming(c, s, t)' <=> Coming(c, s, t)
  PROVE  MapInv' /\ StoreInv' /\ SourceInv'
<1>1. \A s, t : Given(s, t)' <=> Given(s, t)
  BY DEF Given, Quiet
<1>2. MapInv'
  BY DEF IInv, MapInv, Quiet
<1>3. StoreInv'
  BY <1>1 DEF IInv, StoreInv, Quiet
<1>4. SourceInv'
  BY <1>1 DEF IInv, SourceInv, Quiet
<1> QED
  BY <1>2, <1>3, <1>4

\* Return gives the mutex back, and leaves the other calls alone.
LEMMA ReturnInv ==
  ASSUME IInv, NEW c \in Call, pc[c] # "idle", Return(c)
  PROVE  /\ pc' = [pc EXCEPT ![c] = "idle"]
         /\ uniq' \in [Call -> Local \cup Global \cup {None}]
         /\ cand' \in [Call -> Value \cup {None}]
         /\ i' \in [Call -> 0..retry]
         /\ mu' \in [Local -> Call \cup {None}]
         /\ CallInv' /\ MutexInv'
         /\ \A s, t : ~ Coming(c, s, t)'
         /\ \A d \in Call \ {c} : \A s, t : Coming(d, s, t)' <=> Coming(d, s, t)
<1> USE DEF Return, Goto, IInv, TypeOK
<1>1. /\ pc' = [pc EXCEPT ![c] = "idle"]
      /\ uniq' \in [Call -> Local \cup Global \cup {None}]
      /\ cand' \in [Call -> Value \cup {None}]
      /\ i' \in [Call -> 0..retry]
      /\ mu' \in [Local -> Call \cup {None}]
  BY RetryNat
<1>2. CallInv'
  BY DEF CallInv
<1>3. MutexInv'
  BY UniqueAssumption DEF MutexInv, CallInv
<1>4. \A s, t : ~ Coming(c, s, t)'
  BY DEF Coming
<1>5. \A d \in Call \ {c} : \A s, t : Coming(d, s, t)' <=> Coming(d, s, t)
  BY DEF Coming
<1> QED
  BY <1>1, <1>2, <1>3, <1>4, <1>5

-----------------------------------------------------------------------------
\* The rounds of the loop, until a value is kept or stored.
LEMMA RoundInv ==
  ASSUME IInv, NEW c \in Call,
         \/ CallF(c) \/ Retryable(c) \/ Refused(c)
         \/ \E v \in Value : Drawn(c, v)
         \/ \E u \in Local \cup Global : LockMu(c, u) \/ Start(c, u)
         \/ Check(c) /\ cand[c] \in m[uniq[c]]
         \/ tryStore(c) /\ Sprint[cand[c]] \in values[storeName[uniq[c]]]
  PROVE  IInv'
<1> USE DEF CallF, Retryable, Refused, Drawn, LockMu, Start, Check, tryStore,
            Again, Goto
<1>1. TypeOK'
  BY RetryNat DEF IInv, TypeOK, CallInv
<1>2. CallInv'
  BY RetryNat, UniqueAssumption DEF IInv, TypeOK, CallInv
<1>3. MutexInv'
  BY UniqueAssumption DEF IInv, TypeOK, MutexInv
<1>4. Quiet
  BY DEF Quiet
<1>5. \A d \in Call, s \in Store, t \in Text :
        Coming(d, s, t)' <=> Coming(d, s, t)
  BY DEF IInv, TypeOK, Coming
<1> QED
  BY <1>1, <1>2, <1>3, <1>4, <1>5, QuietInv DEF IInv

\* Returns with an error, by which nothing is lost.
LEMMA ErrorInv ==
  ASSUME IInv, NEW c \in Call,
         \/ Exhausted(c) \/ FError(c)
         \/ RPCError(c) /\ pc[c] # "stored"
  PROVE  IInv'
<1>1. Return(c) /\ Quiet /\ pc[c] # "idle" /\ pc[c] # "stored"
  BY DEF Exhausted, FError, RPCError, Quiet
<1>2. \A d \in Call, s \in Store, t \in Text :
        Coming(d, s, t)' <=> Coming(d, s, t)
  BY <1>1, ReturnInv DEF Coming
<1>3. TypeOK'
  BY <1>1, ReturnInv DEF IInv, TypeOK, Quiet
<1> QED
  BY <1>1, <1>2, <1>3, QuietInv, ReturnInv DEF IInv

\* The answer of the server is lost.
LEMMA LostInv ==
  ASSUME IInv, NEW c \in Call, RPCError(c), pc[c] = "stored"
  PROVE  IInv'
<1> DEFINE s0 == storeName[uniq[c]]
           t0 == Sprint[cand[c]]
<1>1. /\ Return(c) /\ pc[c] # "idle" /\ UNCHANGED <<m, values, given>>
      /\ lost' = lost \cup {<<s0, t0>>}
  BY DEF RPCError
<1>2. s0 \in Store /\ t0 \in Text
  BY StoreType, TextType DEF IInv, CallInv
<1>3. TypeOK'
  BY <1>1, <1>2, ReturnInv DEF IInv, TypeOK
<1>4. CallInv' /\ MutexInv' /\ MapInv'
  BY <1>1, ReturnInv DEF IInv, MapInv
<1>5. \A s, t : Given(s, t)' <=> Given(s, t)
  BY <1>1 DEF Given
<1>6. \A s, t : Coming(c, s, t) <=> s = s0 /\ t = t0
  BY DEF Coming
<1> HIDE DEF s0, t0
<1>7. StoreInv'
  <2> SUFFICES ASSUME NEW s \in Store, NEW t \in Text
               PROVE  t \in values'[s] <=>
                        \/ Given(s, t)' \/ <<s, t>> \in lost'
                        \/ \E d \in Call : Coming(d, s, t)'
    BY DEF StoreInv
  <2>1. <<s, t>> \in lost' <=> <<s, t>> \in lost \/ (s = s0 /\ t = t0)
    BY <1>1
  <2>2. (\E d \in Call : Coming(d, s, t)) <=>
          (\E d \in Call : Coming(d, s, t)') \/ (s = s0 /\ t = t0)
    BY <1>1, <1>6, ReturnInv
  <2> QED
    BY <2>1, <2>2, <1>1, <1>5 DEF IInv, StoreInv
<1>8. SourceInv'
  BY <1>1, <1>5, ReturnInv DEF IInv, SourceInv
<1> QED
  BY <1>3, <1>4, <1>7, <1>8 DEF IInv

\* A local Unique keeps a new value and gives it.
LEMMA KeepInv ==
  ASSUME IInv, NEW c \in Call, Check(c), cand[c] \notin m[uniq[c]]
  PROVE  IInv'
<1> DEFINE u0 == uniq[c]
           v0 == cand[c]
<1>1. /\ Return(c) /\ pc[c] = "check" /\ UNCHANGED <<values, lost>>
      /\ m' = [m EXCEPT ![u0] = @ \cup {v0}]
      /\ u0 \in Local /\ v0 \in Value /\ v0 \notin m[u0]
  BY DEF Check, IInv, CallInv
<1>2. given' = [given EXCEPT ![<<u0, v0>>] = @ + 1]
  BY <1>1 DEF Check, Give, Scope
<1>3. given[<<u0, v0>>] = 0
  BY <1>1 DEF IInv, MapInv
<1>4. /\ given' \in [(Local \cup Store) \X Value -> Nat]
      /\ given'[<<u0, v0>>] = 1
  BY <1>1, <1>2, <1>3 DEF IInv, TypeOK
<1>5. ASSUME NEW s \in Local \cup Store, NEW v \in Value, s # u0 \/ v # v0
      PROVE  given'[<<s, v>>] = given[<<s, v>>]
  BY <1>5, <1>2 DEF IInv, TypeOK
<1>6. \A s \in Store, v \in Value : given'[<<s, v>>] = given[<<s, v>>]
  BY <1>1, <1>5, ScopeAssumption
<1>7. \A s \in Store : \A t : Given(s, t)' <=> Given(s, t)
  BY <1>6 DEF Given
<1>8. \A d \in Call : \A s, t : Coming(d, s, t)' <=> Coming(d, s, t)
  BY <1>1, ReturnInv DEF Coming
<1> HIDE DEF u0, v0
<1>9. TypeOK'
  BY <1>1, <1>4, ReturnInv, ZenonT(60) DEF IInv, TypeOK
<1>10. MapInv'
  BY <1>1, <1>4, <1>5, ZenonT(60) DEF IInv, MapInv, TypeOK
<1>11. StoreInv'
  BY <1>1, <1>7, <1>8 DEF IInv, StoreInv
<1>12. SourceInv'
  BY <1>6, <1>7, <1>8 DEF IInv, SourceInv
<1> QED
  BY <1>1, <1>9, <1>10, <1>11, <1>12, ReturnInv DEF IInv

\* The server stores a new text, and answers.
LEMMA StoreNewInv ==
  ASSUME IInv, NEW c \in Call, tryStore(c),
         Sprint[cand[c]] \notin values[storeName[uniq[c]]]
  PROVE  IInv'
<1> DEFINE s0 == storeName[uniq[c]]
           t0 == Sprint[cand[c]]
<1>1. /\ pc[c] = "call" /\ pc' = [pc EXCEPT ![c] = "stored"]
      /\ values' = [values EXCEPT ![s0] = @ \cup {t0}]
      /\ UNCHANGED <<m, mu, uniq, cand, i, given, lost>>
  BY DEF tryStore, Goto
<1>2. s0 \in Store /\ t0 \in Text
  BY <1>1, StoreType, TextType DEF IInv, CallInv
<1>3. TypeOK' /\ CallInv' /\ MutexInv' /\ MapInv'
  BY <1>1, <1>2 DEF IInv, TypeOK, CallInv, MutexInv, MapInv
<1>4. \A s, t : Given(s, t)' <=> Given(s, t)
  BY <1>1 DEF Given
<1>5. \A s, t : Coming(c, s, t)' <=> s = s0 /\ t = t0
  BY <1>1 DEF IInv, TypeOK, Coming
<1>6. \A s, t : ~ Coming(c, s, t)
  BY <1>1 DEF Coming
<1>7. \A d \in Call \ {c} : \A s, t : Coming(d, s, t)' <=> Coming(d, s, t)
  BY <1>1 DEF IInv, TypeOK, Coming
<1>8. t0 \notin values[s0]
  OBVIOUS
<1> HIDE DEF s0, t0
<1>9. StoreInv'
  <2> SUFFICES ASSUME NEW s \in Store, NEW t \in Text
               PROVE  t \in values'[s] <=>
                        \/ Given(s, t)' \/ <<s, t>> \in lost'
                        \/ \E d \in Call : Coming(d, s, t)'
    BY DEF StoreInv
  <2>1. t \in values'[s] <=> t \in values[s] \/ (s = s0 /\ t = t0)
    BY <1>1 DEF IInv, TypeOK
  <2>2. (\E d \in Call : Coming(d, s, t)') <=>
          (\E d \in Call : Coming(d, s, t)) \/ (s = s0 /\ t = t0)
    BY <1>5, <1>6, <1>7
  <2> QED
    BY <2>1, <2>2, <1>1, <1>4 DEF IInv, StoreInv
<1>10. ~ Given(s0, t0) /\ \A d \in Call : ~ Coming(d, s0, t0)
  BY <1>2, <1>8 DEF IInv, StoreInv
<1>11. SourceInv'
  BY <1>1, <1>4, <1>5, <1>7, <1>10 DEF IInv, SourceInv
<1> QED
  BY <1>3, <1>9, <1>11 DEF IInv

\* The answer arrives, and the value is given.
LEMMA GiveInv ==
  ASSUME IInv, NEW c \in Call, Stored(c)
  PROVE  IInv'
<1> DEFINE s0 == storeName[uniq[c]]
           v0 == cand[c]
           t0 == Sprint[v0]
<1>1. /\ Return(c) /\ pc[c] = "stored" /\ UNCHANGED <<m, values, lost>>
      /\ uniq[c] \in Global /\ v0 \in Value
  BY DEF Stored, IInv, CallInv
<1>2. s0 \in Store /\ t0 \in Text /\ s0 \notin Local
  BY <1>1, StoreType, TextType, ScopeAssumption
<1>3. given' = [given EXCEPT ![<<s0, v0>>] = @ + 1]
  BY <1>1, StoreType DEF Stored, Give
<1>4. Coming(c, s0, t0) /\ \A s, t : Coming(c, s, t) => s = s0 /\ t = t0
  BY <1>1 DEF Coming
<1> HIDE DEF t0
<1>5. ~ Given(s0, t0)
  BY <1>2, <1>4 DEF IInv, SourceInv
<1>6. given[<<s0, v0>>] \in Nat
  BY <1>1, <1>2, GivenType DEF IInv
<1>7. \A v \in Value : Sprint[v] = t0 => ~ given[<<s0, v>>] > 0
  BY <1>5 DEF Given
<1>8. Sprint[v0] = t0
  BY DEF t0
<1>9. given[<<s0, v0>>] = 0
  BY <1>1, <1>6, <1>7, <1>8
<1> HIDE DEF s0, v0
<1>10. /\ given' \in [(Local \cup Store) \X Value -> Nat]
       /\ given'[<<s0, v0>>] = 1
  BY <1>1, <1>2, <1>3, <1>9 DEF IInv, TypeOK
<1>11. ASSUME NEW s \in Local \cup Store, NEW v \in Value, s # s0 \/ v # v0
       PROVE  given'[<<s, v>>] = given[<<s, v>>]
  BY <1>11, <1>3 DEF IInv, TypeOK
<1>12. \A s \in Store, t \in Text :
         Given(s, t)' <=> Given(s, t) \/ (s = s0 /\ t = t0)
  <2> SUFFICES ASSUME NEW s \in Store, NEW t \in Text
               PROVE  Given(s, t)' <=> Given(s, t) \/ (s = s0 /\ t = t0)
    OBVIOUS
  <2>1. CASE s = s0 /\ t = t0
    <3>1. given'[<<s, v0>>] > 0
      BY <2>1, <1>10
    <3> QED
      BY <2>1, <3>1, <1>1, <1>8 DEF Given
  <2>2. CASE s # s0 \/ t # t0
    <3>1. \A v \in Value :
            Sprint[v] = t => given'[<<s, v>>] = given[<<s, v>>]
      BY <2>2, <1>8, <1>11
    <3> QED
      BY <2>2, <3>1 DEF Given
  <2> QED
    BY <2>1, <2>2
<1>13. TypeOK'
  BY <1>1, <1>10, ReturnInv DEF IInv, TypeOK
<1>14. MapInv'
  BY <1>1, <1>2, <1>11 DEF IInv, MapInv
<1>15. StoreInv'
  BY <1>1, <1>4, <1>12, ReturnInv, ZenonT(60) DEF IInv, StoreInv
<1>16. SourceInv'
  <2>1. \A s \in Store, v \in Value : given'[<<s, v>>] =< 1
    <3> SUFFICES ASSUME NEW s \in Store, NEW v \in Value
                 PROVE  given'[<<s, v>>] =< 1
      OBVIOUS
    <3>1. CASE s = s0 /\ v = v0
      BY <3>1, <1>10
    <3>2. CASE s # s0 \/ v # v0
      BY <3>2, <1>11 DEF IInv, SourceInv
    <3> QED
      BY <3>1, <3>2
  <2>2. ASSUME NEW s \in Store, NEW v \in Value, NEW w \in Value,
               given'[<<s, v>>] > 0, given'[<<s, w>>] > 0, Sprint[v] = Sprint[w]
        PROVE  v = w
    BY <2>2, <1>7, <1>8, <1>11 DEF IInv, SourceInv
  <2>3. \A s \in Store, t \in Text, d \in Call :
          Coming(d, s, t)' =>
            ~ Given(s, t)' /\ \A e \in Call : Coming(e, s, t)' => d = e
    BY <1>1, <1>2, <1>4, <1>12, ReturnInv DEF IInv, SourceInv
  <2> QED
    BY <2>1, <2>2, <2>3 DEF SourceInv
<1> QED
  BY <1>1, <1>13, <1>14, <1>15, <1>16, ReturnInv DEF IInv

\* Every step keeps the invariant.
LEMMA NextInv == IInv /\ [Next]_vars => IInv'
<1> SUFFICES ASSUME IInv, [Next]_vars PROVE IInv'
  OBVIOUS
<1>1. CASE UNCHANGED vars
  <2>1. TypeOK' /\ CallInv' /\ MutexInv'
    BY <1>1 DEF vars, IInv, TypeOK, CallInv, MutexInv
  <2>2. \A d \in Call, s \in Store, t \in Text :
          Coming(d, s, t)' <=> Coming(d, s, t)
    BY <1>1 DEF vars, Coming
  <2> QED
    BY <1>1, <2>1, <2>2, QuietInv DEF vars, Quiet, IInv
<1>2. CASE Next
  <2> PICK c \in Call :
        Step(c) \/ \E u \in Local \cup Global : LockMu(c, u) \/ Start(c, u)
    BY <1>2 DEF Next
  <2> QED
    BY RoundInv, ErrorInv, LostInv, KeepInv, StoreNewInv, GiveInv DEF Step
<1> QED
  BY <1>1, <1>2

\* The invariant says what the run checks.
LEMMA InvImplies == IInv => GivenOnce /\ StoreAccounted
<1> SUFFICES ASSUME IInv PROVE GivenOnce /\ StoreAccounted
  OBVIOUS
<1>1. \A s \in Local \cup Store, v \in Value : given[<<s, v>>] =< 1
  <2>1. \A s \in Local, v \in Value : given[<<s, v>>] =< 1
    <3> SUFFICES ASSUME NEW s \in Local, NEW v \in Value
                 PROVE  given[<<s, v>>] =< 1
      OBVIOUS
    <3>1. given[<<s, v>>] = 0 \/ given[<<s, v>>] = 1
      BY DEF IInv, MapInv
    <3> QED
      BY <3>1
  <2>2. \A s \in Store, v \in Value : given[<<s, v>>] =< 1
    BY DEF IInv, SourceInv
  <2> QED
    BY <2>1, <2>2
<1>2. \A x \in DOMAIN given : given[x] =< 1
  BY <1>1 DEF IInv, TypeOK
<1>3. GivenOnce
  BY <1>2 DEF IInv, SourceInv, GivenOnce
<1>4. ASSUME NEW s \in Store
      PROVE  values[s] = {Sprint[v] : v \in {w \in Value : given[<<s, w>>] > 0}}
               \cup {Sprint[cand[c]] :
                       c \in {d \in Call : pc[d] = "stored"
                                           /\ storeName[uniq[d]] = s}}
               \cup {t \in Text : <<s, t>> \in lost}
  <2>1. values[s] \subseteq Text
    BY DEF IInv, TypeOK
  <2>2. \A c \in Call : pc[c] = "stored" => Sprint[cand[c]] \in Text
    BY TextType DEF IInv, CallInv
  <2>3. \A t \in Text :
          t \in values[s] <=>
            Given(s, t) \/ (\E c \in Call : Coming(c, s, t)) \/ <<s, t>> \in lost
    BY DEF IInv, StoreInv
  <2> QED
    BY <2>1, <2>2, <2>3, TextType DEF Given, Coming
<1> QED
  BY <1>3, <1>4 DEF StoreAccounted

-----------------------------------------------------------------------------
(* The invariant holds always. *)
THEOREM Invariance == Spec => []IInv
BY InitInv, NextInv, PTL DEF Spec

(* The maps, stores and calls of unique.go keep their types; the loop counter *)
(* of generate does not pass retry, also when WithRetry(0) makes it the        *)
(* largest uint.                                                             *)
THEOREM TypeCorrect == Spec => []TypeOK
<1>1. IInv => TypeOK
  BY DEF IInv
<1> QED
  BY <1>1, Invariance, PTL

(* generate and tryStore: no two calls get the same value from a Unique, or  *)
(* values with the same text from Uniques of one store.                      *)
THEOREM Once == Spec => []GivenOnce
BY InvImplies, Invariance, PTL

(* tryStore and the calls of StoreUniqueValue: a store holds the values that *)
(* were given, are on their way or were lost by an error, and nothing else.  *)
THEOREM Accounted == Spec => []StoreAccounted
BY InvImplies, Invariance, PTL

(* generate of a Unique without a server works on its map under its mutex:    *)
(* at most one call is past g.mu.Lock().                                     *)
THEOREM Mutex ==
  Spec => [](\A c, d \in Call :
               pc[c] # "idle" /\ pc[d] # "idle"
                 /\ uniq[c] \in Local /\ uniq[c] = uniq[d] => c = d)
<1>1. IInv => \A c, d \in Call :
                pc[c] # "idle" /\ pc[d] # "idle"
                  /\ uniq[c] \in Local /\ uniq[c] = uniq[d] => c = d
  BY DEF IInv, MutexInv
<1> QED
  BY <1>1, Invariance, PTL
=============================================================================
