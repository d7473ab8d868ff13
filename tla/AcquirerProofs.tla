--------------------------- MODULE AcquirerProofs ---------------------------
(***************************************************************************)
(* The queue of Acquirer does its work for any number of callers and names. *)
(***************************************************************************)
EXTENDS Acquirer, SequenceTheorems, TLAPS

In(p, q) == \E i \in 1..Len(q) : q[i] = p

InQueue(p) == In(p, queue)

\* The entries of w are entries of q, in the same order.
Within(w, q) ==
  /\ \A i \in 1..Len(w) : In(w[i], q)
  /\ \A i, j \in 1..Len(w) : i < j =>
       \E a, b \in 1..Len(q) : a < b /\ w[i] = q[a] /\ w[j] = q[b]

\* Nobody in q has begun with a key that is wanted before it.
InOrder(q, s) ==
  \A i, j \in 1..Len(q) : i < j => \A k \in s[q[i]] : job[q[j]][k] = "off"

\* q holds no caller twice.
Distinct(q) == \A i, j \in 1..Len(q) : q[i] = q[j] => i = j

\* Entries that were told to proceed share no key with those before them.
Separate(q, s, closed) ==
  \A i, j \in 1..Len(q) :
    i < j /\ q[j] \in closed => s[q[i]] \cap s[q[j]] = {}

\* Only calls that wait or lock have an entry, which still wants some key,
\* and a waiting call has one.
EntryOwned ==
  /\ \A i \in 1..Len(queue) : phase[queue[i]] \in {"queued", "locking", "left"}
  /\ \A i \in 1..Len(queue) : set[queue[i]] # {}
  /\ \A p \in Proc : phase[p] = "queued" => InQueue(p)

\* The entry of a call that locks has proceeded, and holds just the keys that
\* are not locked yet.
JobEntered ==
  \A p \in Proc, k \in Key :
    /\ job[p][k] = "run" => phase[p] = "locking"
    /\ phase[p] = "locking" => p \in proceed
    /\ phase[p] = "locking" /\ job[p][k] \in {"run", "failed"}
         => k \in set[p] /\ InQueue(p)
    /\ phase[p] = "locking" /\ k \in set[p] => job[p][k] \in {"run", "failed"}
    /\ phase[p] \in {"out", "queued", "left"} => job[p][k] = "off"

(* The inductive invariant.  OneLockerPerKey is not inductive: it needs that *)
(* the entries behind a running one are separate from it.                    *)
IInv ==
  /\ TypeOK
  /\ EntryOwned
  /\ JobEntered
  /\ Separate(queue, set, proceed)
  /\ ArrivalOrder
  /\ NoLostProceed

-----------------------------------------------------------------------------
(* The queue. *)

(* A sequence without its i-th element: what follows it moves up by one. *)
LEMMA RemoveAtProperties ==
  ASSUME NEW S, NEW w \in Seq(S), NEW i \in 1..Len(w)
  PROVE  LET q == RemoveAt(w, i)
         IN  /\ q \in Seq(S) /\ Len(q) = Len(w) - 1
             /\ \A j \in 1..Len(q) : q[j] = IF j < i THEN w[j] ELSE w[j + 1]
<1> DEFINE a == SubSeq(w, 1, i - 1)
           b == SubSeq(w, i + 1, Len(w))
           q == a \o b
<1>1. /\ a \in Seq(S) /\ Len(a) = i - 1
      /\ \A j \in 1..(i - 1) : a[j] = w[j]
  OBVIOUS
<1>2. /\ b \in Seq(S) /\ Len(b) = Len(w) - i
      /\ \A j \in 1..(Len(w) - i) : b[j] = w[j + i]
  OBVIOUS
<1> HIDE DEF a, b
<1>3. /\ q \in Seq(S)
      /\ Len(q) = Len(a) + Len(b)
      /\ \A j \in 1..Len(a) + Len(b) :
           q[j] = IF j <= Len(a) THEN a[j] ELSE b[j - Len(a)]
  BY <1>1, <1>2, ConcatProperties, Zenon
<1> HIDE DEF q
<1>4. Len(w) \in Nat /\ Len(q) = Len(w) - 1
  BY <1>1, <1>2, <1>3
<1>5. ASSUME NEW j \in 1..Len(q)
      PROVE  q[j] = IF j < i THEN w[j] ELSE w[j + 1]
  <2>1. q[j] = IF j <= i - 1 THEN a[j] ELSE b[j - (i - 1)]
    BY <1>1, <1>2, <1>3
  <2>2. CASE j < i
    BY <1>1, <2>1, <2>2
  <2>3. CASE ~ (j < i)
    <3>1. j - (i - 1) \in 1..(Len(w) - i) /\ j - (i - 1) + i = j + 1
      BY <1>4, <2>3
    <3>2. q[j] = b[j - (i - 1)]
      BY <1>4, <2>1, <2>3
    <3> QED
      BY <1>2, <2>3, <3>1, <3>2
  <2> QED
    BY <2>2, <2>3
<1> QED
  BY <1>3, <1>4, <1>5 DEF q, a, b, RemoveAt

(* After proceed() the entries that may run are separate from those before   *)
(* them, and none that may run is left out.                                  *)
LEMMA ProceedingOK ==
  ASSUME NEW q \in Seq(Proc), Distinct(q), NEW s, NEW closed,
         Separate(q, s, closed),
         NEW pr, pr = Proceeding(q, s, closed)
  PROVE  /\ Separate(q, s, pr)
         /\ \A i \in 1..Len(q) : Unhindered(q, s, i) => q[i] \in pr
         /\ closed \subseteq pr
         /\ \A x \in pr : x \in closed \/ \E i \in 1..Len(q) : q[i] = x
<1>1. /\ \A i \in 1..Len(q) :
           Unhindered(q, s, i) => q[i] \in Proceeding(q, s, closed)
      /\ closed \subseteq Proceeding(q, s, closed)
  BY DEF Proceeding
<1>2. ASSUME NEW x \in Proceeding(q, s, closed)
      PROVE  x \in closed \/ \E i \in 1..Len(q) : q[i] = x /\ Unhindered(q, s, i)
  BY <1>2 DEF Proceeding
<1>3. ASSUME NEW i \in 1..Len(q), NEW j \in 1..Len(q), i < j,
             q[j] \in Proceeding(q, s, closed)
      PROVE  s[q[i]] \cap s[q[j]] = {}
  <2>1. CASE q[j] \in closed
    BY <1>3, <2>1 DEF Separate
  <2>2. CASE \E m \in 1..Len(q) : q[m] = q[j] /\ Unhindered(q, s, m)
    <3>1. Unhindered(q, s, j)
      BY <2>2 DEF Distinct
    <3>2. i \in 1..(j - 1)
      BY <1>3
    <3> QED
      BY <3>1, <3>2 DEF Unhindered, Overlap
  <2> QED
    BY <1>2, <1>3, <2>1, <2>2
<1> QED
  BY <1>1, <1>2, <1>3 DEF Separate

(* A queue without p keeps the others, in their order. *)
LEMMA WithoutOK ==
  ASSUME NEW q \in Seq(Proc), Distinct(q), NEW p, NEW w, w = Without(q, p)
  PROVE  /\ w \in Seq(Proc)
         /\ Distinct(w)
         /\ Within(w, q)
         /\ ~ In(p, w)
         /\ \A r : r # p /\ In(r, q) => In(r, w)
<1>1. CASE ~ \E i \in 1..Len(q) : q[i] = p
  <2>1. w = q
    BY <1>1 DEF Without
  <2>2. /\ \A i \in 1..Len(w) : w[i] # p /\ \E a \in 1..Len(q) : w[i] = q[a]
        /\ \A a \in 1..Len(q) : q[a] # p => \E i \in 1..Len(w) : w[i] = q[a]
    BY <1>1, <2>1
  <2>3. \A i, j \in 1..Len(w) : i < j =>
                  \E a, b \in 1..Len(q) : a < b /\ w[i] = q[a] /\ w[j] = q[b]
    BY <2>1
  <2> QED
    BY <2>1, <2>2, <2>3 DEF Within, In
<1>2. CASE \E i \in 1..Len(q) : q[i] = p
  <2> DEFINE c == CHOOSE i \in 1..Len(q) : q[i] = p
  <2>1. c \in 1..Len(q) /\ q[c] = p /\ w = RemoveAt(q, c)
    BY <1>2 DEF Without
  <2> HIDE DEF c
  <2> DEFINE up(i) == IF i < c THEN i ELSE i + 1
  <2>2. /\ w \in Seq(Proc) /\ Len(w) = Len(q) - 1
        /\ \A i \in 1..Len(w) : w[i] = IF i < c THEN q[i] ELSE q[i + 1]
    BY <2>1, RemoveAtProperties
  <2>3. /\ Len(q) \in Nat
        /\ \A i \in 1..Len(w) : up(i) \in 1..Len(q) /\ up(i) # c /\ w[i] = q[up(i)]
        /\ \A i, j \in 1..Len(w) : i < j => up(i) < up(j)
        /\ \A i, j \in 1..Len(w) : up(i) = up(j) => i = j
    BY <2>1, <2>2
  <2> HIDE DEF up
  <2>4. Distinct(w)
    BY <2>3, SMTT(30) DEF Distinct
  <2>5. \A i \in 1..Len(w) : w[i] # p /\ \E a \in 1..Len(q) : w[i] = q[a]
    BY <2>1, <2>3 DEF Distinct
  <2>6. \A i, j \in 1..Len(w) : i < j =>
          \E a, b \in 1..Len(q) : a < b /\ w[i] = q[a] /\ w[j] = q[b]
    BY <2>3
  <2>7. ASSUME NEW a \in 1..Len(q), q[a] # p
        PROVE  \E i \in 1..Len(w) : w[i] = q[a]
    <3>1. CASE a < c
      <4>1. a \in 1..Len(w) /\ w[a] = q[a]
        BY <2>1, <2>2, <2>3, <3>1
      <4> QED
        BY <4>1
    <3>2. CASE a > c
      <4>1. a - 1 \in 1..Len(w) /\ w[a - 1] = q[a]
        BY <2>1, <2>2, <2>3, <3>2
      <4> QED
        BY <4>1
    <3> QED
      BY <2>1, <2>7, <3>1, <3>2
  <2>8. Within(w, q)
    BY <2>5, <2>6 DEF Within, In
  <2>9. ~ In(p, w)
    BY <2>5 DEF In
  <2>10. \A r : r # p /\ In(r, q) => In(r, w)
    BY <2>7 DEF In
  <2> QED
    BY <2>2, <2>4, <2>8, <2>9, <2>10
<1> QED
  BY <1>1, <1>2

(* Shrinking entries, and dropping one, leave the queue in order. *)
LEMMA ShrinkOK ==
  ASSUME IInv, NEW p \in Proc, NEW w, w = queue \/ w = Without(queue, p),
         NEW s \in [Proc -> SUBSET Key], \A r \in Proc : s[r] \subseteq set[r]
  PROVE  /\ w \in Seq(Proc) /\ Distinct(w)
         /\ Separate(w, s, proceed)
         /\ Within(w, queue)
         /\ InOrder(w, s)
         /\ \A r \in Proc \ {p} : InQueue(r) => In(r, w)
<1>1. /\ queue \in Seq(Proc) /\ Distinct(queue)
      /\ Separate(queue, set, proceed) /\ ArrivalOrder
      /\ \A i \in 1..Len(queue) : queue[i] \in Proc
  BY DEF IInv, TypeOK, Distinct
<1>2. /\ w \in Seq(Proc) /\ Distinct(w) /\ Within(w, queue)
      /\ \A r \in Proc \ {p} : In(r, queue) => In(r, w)
  <2>1. CASE w = queue
    <3>1. Within(queue, queue)
      BY DEF Within, In
    <3> QED
      BY <1>1, <2>1, <3>1
  <2>2. CASE w = Without(queue, p)
    BY <1>1, <2>2, WithoutOK
  <2> QED
    BY <2>1, <2>2
<1>3. Separate(w, s, proceed)
  <2> SUFFICES ASSUME NEW i \in 1..Len(w), NEW j \in 1..Len(w),
                      i < j, w[j] \in proceed
               PROVE  s[w[i]] \cap s[w[j]] = {}
    BY DEF Separate
  <2>1. PICK a, b \in 1..Len(queue) :
          a < b /\ w[i] = queue[a] /\ w[j] = queue[b]
    BY <1>2 DEF Within
  <2>2. set[queue[a]] \cap set[queue[b]] = {}
    BY <1>1, <2>1 DEF Separate
  <2> QED
    BY <1>1, <2>1, <2>2
<1>4. ASSUME NEW i \in 1..Len(w), NEW j \in 1..Len(w), i < j,
             NEW k \in s[w[i]]
      PROVE  job[w[j]][k] = "off"
  <2>1. PICK a, b \in 1..Len(queue) :
          a < b /\ w[i] = queue[a] /\ w[j] = queue[b]
    BY <1>2, <1>4 DEF Within
  <2>2. k \in set[queue[a]]
    BY <1>1, <2>1
  <2> QED
    BY <1>1, <2>1, <2>2 DEF ArrivalOrder
<1> QED
  BY <1>2, <1>3, <1>4 DEF InQueue, InOrder

-----------------------------------------------------------------------------
(* The actions. *)

LEMMA AcceptInv ==
  ASSUME IInv, NEW p \in Proc, NEW keys \in SUBSET Key, keys # {}, Accept(p, keys)
  PROVE  IInv'
<1> DEFINE q == Append(queue, p)
           n == Len(queue)
           s == [set EXCEPT ![p] = keys]
<1>1. /\ TypeOK /\ queue \in Seq(Proc) /\ n \in Nat /\ Distinct(queue)
      /\ phase[p] = "out" /\ \A k \in Key : job[p][k] = "off"
  BY DEF IInv, TypeOK, Distinct, Accept, JobEntered
<1>2. /\ queue' = q /\ set' = s /\ job' = job /\ done' = done
      /\ phase' = [phase EXCEPT ![p] = "queued"]
      /\ proceed' = Proceeding(q, s, proceed \ {p})
  BY DEF Accept, accept
<1>3. /\ q \in Seq(Proc) /\ Len(q) = n + 1 /\ q[n + 1] = p
      /\ \A i \in 1..n : q[i] = queue[i] /\ queue[i] \in Proc /\ queue[i] # p
  BY <1>1 DEF IInv, EntryOwned
<1>4. /\ s \in [Proc -> SUBSET Key]
      /\ \A r \in Proc \ {p} : s[r] = set[r]
      /\ s[p] = keys
  BY <1>1 DEF TypeOK
<1> HIDE DEF q, s
<1>5. Distinct(q)
  BY <1>1, <1>3 DEF Distinct
<1>6. Separate(q, s, proceed \ {p})
  <2> SUFFICES ASSUME NEW i \in 1..Len(q), NEW j \in 1..Len(q), i < j,
                      q[j] \in proceed \ {p}
               PROVE  s[q[i]] \cap s[q[j]] = {}
    BY DEF Separate
  <2>1. j \in 1..n /\ i \in 1..n
    BY <1>1, <1>3
  <2>2. s[q[i]] = set[queue[i]] /\ s[q[j]] = set[queue[j]] /\ q[j] = queue[j]
    BY <1>3, <1>4, <2>1
  <2> QED
    BY <2>1, <2>2 DEF IInv, Separate
<1>7. /\ Separate(q, s, proceed')
      /\ \A i \in 1..Len(q) : Unhindered(q, s, i) => q[i] \in proceed'
      /\ proceed \ {p} \subseteq proceed'
      /\ proceed' \subseteq Proc
  <2>1. q \in Seq(Proc) /\ proceed' = Proceeding(q, s, proceed \ {p})
    BY <1>2, <1>3
  <2>2. proceed \subseteq Proc /\ \A i \in 1..Len(q) : q[i] \in Proc
    BY <1>1, <1>3 DEF TypeOK
  <2>3. Separate(q, s, proceed')
    BY <1>5, <1>6, <2>1, ProceedingOK
  <2>4. \A i \in 1..Len(q) : Unhindered(q, s, i) => q[i] \in proceed'
    BY <1>5, <1>6, <2>1, ProceedingOK
  <2>5. proceed \ {p} \subseteq proceed'
    BY <1>5, <1>6, <2>1, ProceedingOK
  <2>6. \A x \in proceed' : x \in proceed \ {p} \/ \E i \in 1..Len(q) : q[i] = x
    BY <1>5, <1>6, <2>1, ProceedingOK
  <2> QED
    BY <2>2, <2>3, <2>4, <2>5, <2>6
<1>8. TypeOK'
  BY <1>1, <1>2, <1>3, <1>4, <1>5, <1>7, ZenonT(60) DEF TypeOK, Distinct, Phase
<1>9. \A r \in Proc : InQueue(r) \/ r = p => InQueue(r)'
  BY <1>1, <1>2, <1>3 DEF InQueue, In
<1>10. EntryOwned'
  <2>1. ASSUME NEW i \in 1..Len(q)
        PROVE  phase'[q[i]] \in {"queued", "locking", "left"}
    <3>1. CASE i = n + 1
      BY <1>1, <1>2, <1>3, <3>1 DEF TypeOK
    <3>2. CASE i # n + 1
      <4>1. i \in 1..n
        BY <1>1, <1>3, <3>2
      <4> QED
        BY <1>1, <1>2, <1>3, <4>1 DEF IInv, EntryOwned, TypeOK
    <3> QED
      BY <3>1, <3>2
  <2>2. \A r \in Proc : phase'[r] = "queued" => InQueue(r)'
    BY <1>1, <1>2, <1>9 DEF IInv, EntryOwned, TypeOK
  <2>3. ASSUME NEW i \in 1..Len(q) PROVE s[q[i]] # {}
    <3>1. CASE i = n + 1
      BY <1>3, <1>4, <3>1
    <3>2. CASE i # n + 1
      <4>1. i \in 1..n
        BY <1>1, <1>3, <3>2
      <4> QED
        BY <1>3, <1>4, <4>1 DEF IInv, EntryOwned
    <3> QED
      BY <3>1, <3>2
  <2> QED
    BY <1>2, <2>1, <2>2, <2>3 DEF EntryOwned
<1>11. JobEntered'
  <2> SUFFICES ASSUME NEW r \in Proc, NEW k \in Key
               PROVE  /\ job[r][k] = "run" => phase'[r] = "locking"
                      /\ phase'[r] = "locking" => r \in proceed'
                      /\ phase'[r] = "locking" /\ job[r][k] \in {"run", "failed"}
                           => k \in s[r] /\ InQueue(r)'
                      /\ phase'[r] = "locking" /\ k \in s[r]
                           => job[r][k] \in {"run", "failed"}
                      /\ phase'[r] \in {"out", "queued", "left"}
                           => job[r][k] = "off"
    BY <1>2 DEF JobEntered
  <2>1. CASE r = p
    BY <1>1, <1>2, <2>1 DEF TypeOK
  <2>2. CASE r # p
    BY <1>1, <1>2, <1>4, <1>7, <1>9, <2>2, ZenonT(60) DEF IInv, JobEntered, TypeOK
  <2> QED
    BY <2>1, <2>2
<1>12. ArrivalOrder'
  <2> SUFFICES ASSUME NEW i \in 1..Len(q), NEW j \in 1..Len(q), i < j,
                      NEW k \in s[q[i]]
               PROVE  job[q[j]][k] = "off"
    BY <1>2 DEF ArrivalOrder
  <2>1. i \in 1..n /\ k \in set[queue[i]] /\ k \in Key
    BY <1>1, <1>3, <1>4
  <2>2. CASE j = n + 1
    BY <1>1, <1>3, <2>1, <2>2
  <2>3. CASE j # n + 1
    <3>1. j \in 1..n
      BY <1>1, <1>3, <2>3
    <3> QED
      BY <1>3, <2>1, <3>1 DEF IInv, ArrivalOrder
  <2> QED
    BY <2>2, <2>3
<1>13. NoLostProceed'
  BY <1>2, <1>7 DEF NoLostProceed
<1> QED
  BY <1>2, <1>7, <1>8, <1>10, <1>11, <1>12, <1>13 DEF IInv

LEMMA StartInv ==
  ASSUME IInv, NEW p \in Proc, Start(p)
  PROVE  IInv'
<1>1. /\ TypeOK /\ phase[p] = "queued" /\ p \in proceed /\ InQueue(p)
      /\ UNCHANGED <<queue, set, proceed, done>>
      /\ phase' = [phase EXCEPT ![p] = "locking"]
  BY DEF IInv, Start, EntryOwned
<1>2. /\ job' \in [Proc -> [Key -> Job]]
      /\ \A r \in Proc \ {p} : job'[r] = job[r]
      /\ \A k \in Key : job'[p][k] = IF k \in set[p] THEN "run" ELSE "off"
  BY <1>1 DEF Start, TypeOK, Job
<1>3. TypeOK'
  BY <1>1, <1>2 DEF TypeOK, Phase
<1>e. EntryOwned'
  <2>1. \A i \in 1..Len(queue) : queue[i] \in Proc
    BY <1>1 DEF TypeOK
  <2> QED
    BY <1>1, <2>1 DEF IInv, TypeOK, EntryOwned, InQueue, In
<1>4. JobEntered'
  BY <1>1, <1>2 DEF IInv, TypeOK, JobEntered, InQueue, In
<1>5. ArrivalOrder'
  <2> SUFFICES ASSUME NEW i \in 1..Len(queue), NEW j \in 1..Len(queue), i < j,
                      NEW k \in set[queue[i]]
               PROVE  job'[queue[j]][k] = "off"
    BY <1>1 DEF ArrivalOrder
  <2>1. queue[j] \in Proc /\ k \in Key /\ job[queue[j]][k] = "off"
    BY <1>1 DEF TypeOK, IInv, ArrivalOrder
  <2>2. CASE queue[j] = p
    BY <1>1, <1>2, <2>1, <2>2 DEF IInv, Separate
  <2>3. CASE queue[j] # p
    BY <1>2, <2>1, <2>3
  <2> QED
    BY <2>2, <2>3
<1>6. Separate(queue, set, proceed)' /\ NoLostProceed'
  BY <1>1 DEF IInv, Separate, NoLostProceed, Unhindered, Overlap
<1> QED
  BY <1>3, <1>e, <1>4, <1>5, <1>6 DEF IInv

(* A call whose key k is locked, or whose entry goes with an error: callers  *)
(* other than p notice only that p's entry shrank.                           *)
LEMMA NotifyLockInv ==
  ASSUME IInv, NEW p \in Proc, NEW k \in Key, NotifyLock(p, k)
  PROVE  IInv'
<1> DEFINE s == [set EXCEPT ![p] = @ \ {k}]
           q == queue'
<1>1. /\ TypeOK /\ phase[p] = "locking" /\ job[p][k] = "run" /\ k \in set[p]
      /\ p \in proceed /\ InQueue(p)
      /\ set' = s /\ UNCHANGED <<phase, done>>
      /\ proceed' = Proceeding(queue', s, proceed)
      /\ queue' = IF \E j, l \in set[p] : j # l THEN queue ELSE Without(queue, p)
  BY DEF IInv, NotifyLock, removeLockedKey, JobEntered
<1>2. /\ job' \in [Proc -> [Key -> Job]]
      /\ \A r \in Proc, j \in Key : r # p \/ j # k => job'[r][j] = job[r][j]
      /\ job'[p][k] = "locked"
  BY <1>1 DEF NotifyLock, TypeOK, Job
<1>3. /\ s \in [Proc -> SUBSET Key] /\ s[p] = set[p] \ {k}
      /\ \A r \in Proc \ {p} : s[r] = set[r]
      /\ \A r \in Proc : s[r] \subseteq set[r]
  BY <1>1 DEF TypeOK
<1> HIDE DEF s
<1>4. q = queue \/ q = Without(queue, p)
  BY <1>1
<1> HIDE DEF q
<1>5. /\ q \in Seq(Proc) /\ Distinct(q)
      /\ Separate(q, s, proceed)
  BY <1>3, <1>4, ShrinkOK
<1>6. Within(q, queue)
  BY <1>3, <1>4, ShrinkOK
<1>7. InOrder(q, s)
  BY <1>3, <1>4, ShrinkOK
<1>8. \A r \in Proc \ {p} : InQueue(r) => InQueue(r)'
  <2>1. \A r \in Proc \ {p} : InQueue(r) => In(r, q)
    BY <1>3, <1>4, ShrinkOK
  <2> QED
    BY <2>1 DEF InQueue, In, q
<1>9. proceed' = Proceeding(q, s, proceed)
  BY <1>1 DEF q
<1>10. Separate(q, s, proceed') /\ proceed \subseteq proceed'
  BY <1>5, <1>9, ProceedingOK
<1>11. \A i \in 1..Len(q) : Unhindered(q, s, i) => q[i] \in proceed'
  BY <1>5, <1>9, ProceedingOK
<1>12. \A x \in proceed' : x \in proceed \/ \E i \in 1..Len(q) : q[i] = x
  BY <1>5, <1>9, ProceedingOK
<1>13. TypeOK'
  <2>1. proceed' \subseteq Proc
    BY <1>1, <1>5, <1>12 DEF TypeOK
  <2> QED
    BY <1>1, <1>2, <1>3, <1>5, <2>1 DEF TypeOK, Distinct, q
<1>14. EntryOwned'
  <2>1. \A i \in 1..Len(q) : phase[q[i]] \in {"queued", "locking", "left"}
    BY <1>6 DEF IInv, EntryOwned, Within, In
  <2>2. \A r \in Proc : phase[r] = "queued" => InQueue(r)'
    BY <1>1, <1>8 DEF IInv, EntryOwned
  <2>3. ASSUME NEW i \in 1..Len(q) PROVE s[q[i]] # {}
    <3>1. q[i] \in Proc /\ set[q[i]] # {}
      <4>1. PICK a \in 1..Len(queue) : q[i] = queue[a]
        BY <1>6 DEF Within, In
      <4> QED
        BY <1>1, <4>1 DEF IInv, EntryOwned, TypeOK
    <3>2. CASE q[i] # p
      BY <1>3, <3>1, <3>2
    <3>3. CASE q[i] = p
      <4>1. queue \in Seq(Proc) /\ Distinct(queue)
        BY <1>1 DEF TypeOK, Distinct
      <4>2. ~ In(p, Without(queue, p))
        BY <4>1, WithoutOK
      <4>3. \E j, l \in set[p] : j # l
        BY <1>1, <3>3, <4>2 DEF In, q
      <4> QED
        BY <1>3, <3>3, <4>3
    <3> QED
      BY <3>2, <3>3
  <2> QED
    BY <1>1, <2>1, <2>2, <2>3 DEF EntryOwned, q
<1>15. JobEntered'
  <2> SUFFICES ASSUME NEW r \in Proc, NEW j \in Key
               PROVE  /\ job'[r][j] = "run" => phase[r] = "locking"
                      /\ phase[r] = "locking" => r \in proceed'
                      /\ phase[r] = "locking" /\ job'[r][j] \in {"run", "failed"}
                           => j \in s[r] /\ InQueue(r)'
                      /\ phase[r] = "locking" /\ j \in s[r]
                           => job'[r][j] \in {"run", "failed"}
                      /\ phase[r] \in {"out", "queued", "left"}
                           => job'[r][j] = "off"
    BY <1>1 DEF JobEntered
  <2>1. CASE r # p
    BY <1>2, <1>3, <1>8, <1>10, <2>1 DEF IInv, JobEntered
  <2>2. CASE r = p /\ j = k
    BY <1>1, <1>2, <1>3, <1>10, <2>2
  <2>3. CASE r = p /\ j # k
    <3>1. job'[p][j] = job[p][j]
      BY <1>2, <2>3
    <3>2. job[p][j] \in {"run", "failed"} => j \in set[p]
      BY <1>1 DEF IInv, JobEntered
    <3>3. j \in set[p] => queue' = queue
      BY <1>1, <2>3
    <3>4. job[p][j] \in {"run", "failed"} => j \in s[p] /\ InQueue(p)'
      BY <1>1, <1>3, <2>3, <3>2, <3>3 DEF InQueue, In
    <3> QED
      BY <1>1, <1>3, <1>10, <2>3, <3>1, <3>4 DEF IInv, JobEntered
  <2> QED
    BY <2>1, <2>2, <2>3
<1>16. ArrivalOrder'
  <2> SUFFICES ASSUME NEW i \in 1..Len(q), NEW j \in 1..Len(q), i < j,
                      NEW l \in s[q[i]]
               PROVE  job'[q[j]][l] = "off"
    BY <1>1, ZenonT(60) DEF ArrivalOrder, q
  <2>1. job[q[j]][l] = "off" /\ q[j] \in Proc /\ q[i] \in Proc /\ l \in Key
    BY <1>3, <1>5, <1>7 DEF InOrder
  <2> QED
    BY <1>1, <1>2, <2>1
<1>17. NoLostProceed'
  BY <1>1, <1>11 DEF NoLostProceed, q
<1> QED
  BY <1>1, <1>10, <1>13, <1>14, <1>15, <1>16, <1>17 DEF IInv, q

LEMMA UndoInv ==
  ASSUME IInv, NEW p \in Proc, Undo(p)
  PROVE  IInv'
<1> DEFINE s == [set EXCEPT ![p] = {}]
           q == queue'
<1>1. /\ TypeOK /\ phase[p] = "locking"
      /\ \A k \in Key : job[p][k] # "run"
      /\ set' = s /\ UNCHANGED <<job, done>>
      /\ phase' = [phase EXCEPT ![p] = "undo"]
      /\ proceed' = Proceeding(queue', s, proceed)
      /\ queue' = Without(queue, p)
  BY DEF IInv, Undo, Waited, remove
<1>2. /\ s \in [Proc -> SUBSET Key]
      /\ \A r \in Proc \ {p} : s[r] = set[r]
      /\ \A r \in Proc : s[r] \subseteq set[r]
  BY <1>1 DEF TypeOK
<1> HIDE DEF s
<1>3. q = Without(queue, p)
  BY <1>1
<1> HIDE DEF q
<1>4. /\ q \in Seq(Proc) /\ Distinct(q)
      /\ Separate(q, s, proceed)
  BY <1>2, <1>3, ShrinkOK
<1>5. ~ In(p, q) /\ Within(q, queue)
  <2>1. queue \in Seq(Proc) /\ Distinct(queue)
    BY <1>1 DEF TypeOK, Distinct
  <2> QED
    BY <1>3, <2>1, WithoutOK
<1>6. InOrder(q, s)
  BY <1>2, <1>3, ShrinkOK
<1>7. \A r \in Proc \ {p} : InQueue(r) => InQueue(r)'
  <2>1. \A r \in Proc \ {p} : InQueue(r) => In(r, q)
    BY <1>2, <1>3, ShrinkOK
  <2> QED
    BY <2>1 DEF InQueue, In, q
<1>8. proceed' = Proceeding(q, s, proceed)
  BY <1>1 DEF q
<1>9. Separate(q, s, proceed') /\ proceed \subseteq proceed'
  BY <1>4, <1>8, ProceedingOK
<1>10. \A i \in 1..Len(q) : Unhindered(q, s, i) => q[i] \in proceed'
  BY <1>4, <1>8, ProceedingOK
<1>11. \A x \in proceed' : x \in proceed \/ \E i \in 1..Len(q) : q[i] = x
  BY <1>4, <1>8, ProceedingOK
<1>12. TypeOK'
  <2>1. proceed' \subseteq Proc
    BY <1>1, <1>4, <1>11 DEF TypeOK
  <2> QED
    BY <1>1, <1>2, <1>4, <2>1 DEF TypeOK, Distinct, Phase, q
<1>13. EntryOwned'
  <2>1. \A i \in 1..Len(q) : q[i] \in Proc /\ q[i] # p
                              /\ phase[q[i]] \in {"queued", "locking", "left"}
    BY <1>4, <1>5 DEF IInv, EntryOwned, Within, In
  <2>2. \A i \in 1..Len(q) : phase'[q[i]] \in {"queued", "locking", "left"}
    BY <1>1, <2>1 DEF TypeOK
  <2>3. \A r \in Proc : phase'[r] = "queued" => InQueue(r)'
    BY <1>1, <1>7 DEF IInv, EntryOwned, TypeOK
  <2>4. \A i \in 1..Len(q) : s[q[i]] # {}
    BY <1>2, <1>5, <2>1 DEF IInv, EntryOwned, Within, In
  <2> QED
    BY <1>1, <2>2, <2>3, <2>4 DEF EntryOwned, q
<1>14. JobEntered'
  BY <1>1, <1>2, <1>7, <1>9 DEF IInv, JobEntered, TypeOK
<1>15. ArrivalOrder'
  BY <1>1, <1>6 DEF ArrivalOrder, InOrder, q
<1>16. NoLostProceed'
  BY <1>1, <1>10 DEF NoLostProceed, q
<1> QED
  BY <1>1, <1>9, <1>12, <1>13, <1>14, <1>15, <1>16 DEF IInv, q

(* The steps that leave the queue alone: of those, only a Lock that fails     *)
(* and an Unlock change a job, and both are of p.                             *)
LEMMA QuietInv ==
  ASSUME IInv, UNCHANGED <<queue, set, proceed>>, NEW p \in Proc,
         phase' \in [Proc -> Phase], job' \in [Proc -> [Key -> Job]],
         done' \subseteq Cancelable,
         \A r \in Proc \ {p} : phase'[r] = phase[r] /\ job'[r] = job[r],
         \A k \in Key : job[p][k] = "off" => job'[p][k] = "off",
         phase'[p] = "queued" => phase[p] = "queued",
         InQueue(p) => phase'[p] \in {"queued", "locking", "left"},
         phase'[p] = "locking" => phase[p] = "locking",
         \A k \in Key : job'[p][k] = "run" =>
                          job[p][k] = "run" /\ phase'[p] = "locking",
         phase'[p] = "locking" => \A k \in Key :
             job'[p][k] \in {"run", "failed"} <=> job[p][k] \in {"run", "failed"},
         \A k \in Key : phase'[p] \in {"out", "queued", "left"} =>
                          job'[p][k] = "off"
  PROVE  IInv'
<1>1. TypeOK'
  BY DEF IInv, TypeOK
<1>2. \A r \in Proc : InQueue(r)' <=> InQueue(r)
  BY DEF InQueue, In
<1>3. EntryOwned'
  <2>1. \A i \in 1..Len(queue) : queue[i] \in Proc
    BY DEF IInv, TypeOK
  <2>2. \A i \in 1..Len(queue) : phase'[queue[i]] \in {"queued", "locking", "left"}
    BY <2>1 DEF IInv, EntryOwned, InQueue, In
  <2>3. \A r \in Proc : phase'[r] = "queued" => InQueue(r)'
    BY <1>2 DEF IInv, EntryOwned
  <2> QED
    BY <2>2, <2>3 DEF IInv, EntryOwned
<1>4. JobEntered'
  <2> SUFFICES ASSUME NEW r \in Proc, NEW k \in Key
               PROVE  /\ job'[r][k] = "run" => phase'[r] = "locking"
                      /\ phase'[r] = "locking" => r \in proceed
                      /\ phase'[r] = "locking" /\ job'[r][k] \in {"run", "failed"}
                           => k \in set[r] /\ InQueue(r)
                      /\ phase'[r] = "locking" /\ k \in set[r]
                           => job'[r][k] \in {"run", "failed"}
                      /\ phase'[r] \in {"out", "queued", "left"}
                           => job'[r][k] = "off"
    BY <1>2 DEF JobEntered
  <2>1. CASE r = p
    BY <2>1 DEF IInv, JobEntered
  <2>2. CASE r # p
    BY <2>2 DEF IInv, JobEntered
  <2> QED
    BY <2>1, <2>2
<1>5. ArrivalOrder'
  <2>1. ASSUME NEW i \in 1..Len(queue'), NEW j \in 1..Len(queue'), i < j,
               NEW k \in set'[queue'[i]]
        PROVE  job'[queue'[j]][k] = "off"
    <3>1. queue[j] \in Proc /\ k \in Key /\ job[queue[j]][k] = "off"
      BY <2>1 DEF IInv, TypeOK, ArrivalOrder
    <3> QED
      BY <3>1
  <2> QED
    BY <2>1, Zenon DEF ArrivalOrder
<1>6. Separate(queue, set, proceed)' /\ NoLostProceed'
  BY DEF IInv, Separate, NoLostProceed, Unhindered, Overlap
<1> QED
  BY <1>1, <1>3, <1>4, <1>5, <1>6 DEF IInv

-----------------------------------------------------------------------------
LEMMA InitInv == Init => IInv
BY DEF Init, IInv, TypeOK, EntryOwned, JobEntered, Separate, ArrivalOrder,
       NoLostProceed, NoJob, Phase, Job

LEMMA NextInv == IInv /\ [Next]_vars => IInv'
<1> SUFFICES ASSUME IInv, [Next]_vars PROVE IInv'
  OBVIOUS
<1>t. TypeOK
  BY DEF IInv
<1>q. ASSUME NEW p \in Proc, phase[p] \notin {"queued", "locking", "left"}
      PROVE  ~ InQueue(p)
  BY <1>q DEF IInv, EntryOwned, InQueue, In
<1>1. ASSUME NEW p \in Proc, NEW keys \in SUBSET Key, keys # {}, Accept(p, keys)
      PROVE  IInv'
  BY <1>1, AcceptInv
<1>2. ASSUME NEW p \in Proc, CtxDone(p) PROVE IInv'
  <2>1. /\ UNCHANGED <<queue, set, proceed, phase, job>>
        /\ done' \subseteq Cancelable
    BY <1>2, <1>t DEF CtxDone, TypeOK
  <2> QED
    BY <2>1, <1>t, <1>q, QuietInv DEF IInv, TypeOK, JobEntered
<1>3. ASSUME NEW p \in Proc, GiveUp(p) PROVE IInv'
  <2>1. /\ UNCHANGED <<queue, set, proceed, job, done>>
        /\ phase' = [phase EXCEPT ![p] = "left"] /\ phase[p] = "queued"
    BY <1>3 DEF GiveUp
  <2> QED
    BY <2>1, <1>t, QuietInv DEF IInv, TypeOK, JobEntered, Phase
<1>4. ASSUME NEW p \in Proc, Start(p) PROVE IInv'
  BY <1>4, StartInv
<1>5. ASSUME NEW p \in Proc, NEW k \in Key, NotifyLock(p, k) PROVE IInv'
  BY <1>5, NotifyLockInv
<1>6. ASSUME NEW p \in Proc, NEW k \in Key, LockFailed(p, k) PROVE IInv'
  <2>1. /\ UNCHANGED <<queue, set, proceed, phase, done>>
        /\ job' = [job EXCEPT ![p][k] = "failed"] /\ job[p][k] = "run"
    BY <1>6 DEF LockFailed
  <2>2. phase[p] = "locking"
    BY <2>1 DEF IInv, JobEntered
  <2> QED
    BY <2>1, <2>2, <1>t, QuietInv DEF IInv, TypeOK, JobEntered, Job
<1>7. ASSUME NEW p \in Proc, Acquired(p) PROVE IInv'
  <2>1. /\ UNCHANGED <<queue, set, proceed, job, done>>
        /\ phase' = [phase EXCEPT ![p] = "held"] /\ phase[p] = "locking"
        /\ \A k \in Key : job[p][k] \notin {"run", "failed"}
    BY <1>7 DEF Acquired, Waited
  <2>2. set[p] = {}
    BY <2>1, <1>t DEF IInv, JobEntered, TypeOK
  <2>3. ~ InQueue(p)
    BY <2>2 DEF IInv, EntryOwned, InQueue, In
  <2> QED
    BY <2>1, <2>3, <1>t, QuietInv DEF IInv, TypeOK, JobEntered, Phase
<1>8. ASSUME NEW p \in Proc, Undo(p) PROVE IInv'
  BY <1>8, UndoInv
<1>9. ASSUME NEW p \in Proc, Release(p) PROVE IInv'
  <2>1. /\ UNCHANGED <<queue, set, proceed, job, done>>
        /\ phase' = [phase EXCEPT ![p] = "release"] /\ phase[p] = "held"
    BY <1>9 DEF Release
  <2> QED
    BY <2>1, <1>t, <1>q, QuietInv DEF IInv, TypeOK, JobEntered, Phase
<1>10. ASSUME NEW p \in Proc, NEW k \in Key, UnlockKey(p, k) PROVE IInv'
  <2>1. /\ UNCHANGED <<queue, set, proceed, phase, done>>
        /\ job' = [job EXCEPT ![p][k] = "off"] /\ phase[p] \in {"release", "undo"}
    BY <1>10 DEF UnlockKey
  <2> QED
    BY <2>1, <1>t, <1>q, QuietInv DEF IInv, TypeOK, JobEntered, Job
<1>11. ASSUME NEW p \in Proc, Return(p) PROVE IInv'
  <2>1. /\ UNCHANGED <<queue, set, proceed, done>>
        /\ phase' = [phase EXCEPT ![p] = "out"] /\ phase[p] \in {"release", "undo"}
        /\ job' = [job EXCEPT ![p] = NoJob]
    BY <1>11 DEF Return
  <2> QED
    BY <2>1, <1>t, <1>q, QuietInv DEF IInv, TypeOK, JobEntered, Job, Phase, NoJob
<1>12. CASE UNCHANGED vars
  BY <1>12 DEF vars, IInv, TypeOK, EntryOwned, JobEntered, InQueue, In, Separate,
               ArrivalOrder, NoLostProceed, Unhindered, Overlap
<1> QED
  BY <1>1, <1>2, <1>3, <1>4, <1>5, <1>6, <1>7, <1>8, <1>9, <1>10, <1>11, <1>12
     DEF Next, Step

LEMMA InvOneLocker == IInv => OneLockerPerKey
<1> SUFFICES ASSUME IInv, NEW k \in Key, NEW p \in Proc, NEW r \in Proc,
                    job[p][k] = "run", job[r][k] = "run"
             PROVE  p = r
  BY DEF OneLockerPerKey
<1>1. /\ k \in set[p] /\ InQueue(p) /\ p \in proceed
      /\ k \in set[r] /\ InQueue(r) /\ r \in proceed
  BY DEF IInv, JobEntered
<1>2. PICK i \in 1..Len(queue) : queue[i] = p
  BY <1>1 DEF InQueue, In
<1>3. PICK j \in 1..Len(queue) : queue[j] = r
  BY <1>1 DEF InQueue, In
<1>4. ~ (i < j) /\ ~ (j < i)
  BY <1>1, <1>2, <1>3 DEF IInv, Separate
<1> QED
  BY <1>2, <1>3, <1>4 DEF IInv, TypeOK

-----------------------------------------------------------------------------
(* The inductive invariant holds in every state of the acquirer. *)
THEOREM Invariance == Spec => []IInv
BY InitInv, NextInv, PTL DEF Spec

(* The controller's state stays well formed, and no entry is in the queue    *)
(* twice.                                                                    *)
THEOREM TypeCorrect == Spec => []TypeOK
<1>1. IInv => TypeOK
  BY DEF IInv
<1> QED
  BY <1>1, Invariance, PTL

(* Two goroutines never run the Lock of the same key (acquire.go:137-167).   *)
THEOREM OneLocker == Spec => []OneLockerPerKey
BY InvOneLocker, Invariance, PTL

(* Calls get the keys they share in the order of their arrival.              *)
THEOREM Order == Spec => []ArrivalOrder
<1>1. IInv => ArrivalOrder
  BY DEF IInv
<1> QED
  BY <1>1, Invariance, PTL

(* An entry that nothing holds up has been told to proceed.                  *)
THEOREM Progress == Spec => []NoLostProceed
<1>1. IInv => NoLostProceed
  BY DEF IInv
<1> QED
  BY <1>1, Invariance, PTL

=============================================================================
