-------------------------- MODULE KeyedLockProofs --------------------------
(***************************************************************************)
(* KeyedLock keeps its promises for any number of processes and names and  *)
(* for any max.                                                            *)
(***************************************************************************)
EXTENDS KeyedLock, FiniteSetTheorems, SequenceTheorems, TLAPS

\* The callers of k are those in s, c tokens are taken, and q waits.
QueueOK(s, k, q) ==
  /\ \A i \in 1..Len(q) : s[q[i]][k] \in Want
  /\ \A i, j \in 1..Len(q) : q[i] = q[j] => i = j

Sharing(s, k) == {p \in Proc : s[p][k] = "sh"}

FreeOK(s, k, c) ==
  /\ \A p \in Proc : s[p][k] # "ex"
  /\ c = Cardinality(Sharing(s, k))

HeldOK(s, k, c) ==
  /\ c = max
  /\ \E p \in Proc :
       /\ s[p][k] = "ex"
       /\ \A r \in Proc : s[r][k] \in Hold => r = p

HeadOK(s, k, q, c) == Len(q) > 0 => ~ Fits(s, k, q, c, 1)

KeyInv(s, k, q, c) ==
  /\ QueueOK(s, k, q)
  /\ FreeOK(s, k, c) \/ HeldOK(s, k, c)
  /\ HeadOK(s, k, q, c)

(* The inductive invariant: besides the exact account of tokens, the queue   *)
(* holds each waiter once, so that waking n readers adds n to the readers.   *)
IInv == TypeOK /\ \A k \in Key : KeyInv(st, k, waiters[k], cur[k])

-----------------------------------------------------------------------------
(* Facts about queues and counting. *)

(* A sequence without its i-th element: what follows it moves up by one. *)
LEMMA RemoveAtProperties ==
  ASSUME NEW S, NEW w \in Seq(S), NEW i \in 1..Len(w)
  PROVE  LET q == RemoveAt(w, i)
         IN  /\ q \in Seq(S) /\ Len(q) = Len(w) - 1
             /\ \A j \in 1..Len(q) : q[j] = IF j < i THEN w[j] ELSE w[j + 1]
<1> DEFINE a == SubSeq(w, 1, i - 1)
           b == SubSeq(w, i + 1, Len(w))
           q == a \o b
<1>1. /\ a \in Seq(S) /\ Len(a) = i - 1
      /\ \A j \in 1..(i - 1) : a[j] = w[j]
  OBVIOUS
<1>2. /\ b \in Seq(S) /\ Len(b) = Len(w) - i
      /\ \A j \in 1..(Len(w) - i) : b[j] = w[j + i]
  OBVIOUS
<1> HIDE DEF a, b
<1>3. /\ q \in Seq(S)
      /\ Len(q) = Len(a) + Len(b)
      /\ \A j \in 1..Len(a) + Len(b) :
           q[j] = IF j <= Len(a) THEN a[j] ELSE b[j - Len(a)]
  BY <1>1, <1>2, ConcatProperties, Zenon
<1> HIDE DEF q
<1>4. Len(w) \in Nat /\ Len(q) = Len(w) - 1
  BY <1>1, <1>2, <1>3
<1>5. ASSUME NEW j \in 1..Len(q)
      PROVE  q[j] = IF j < i THEN w[j] ELSE w[j + 1]
  <2>1. q[j] = IF j <= i - 1 THEN a[j] ELSE b[j - (i - 1)]
    BY <1>1, <1>2, <1>3
  <2>2. CASE j < i
    BY <1>1, <2>1, <2>2
  <2>3. CASE ~ (j < i)
    <3>1. j - (i - 1) \in 1..(Len(w) - i) /\ j - (i - 1) + i = j + 1
      BY <1>4, <2>3
    <3>2. q[j] = b[j - (i - 1)]
      BY <1>4, <2>1, <2>3
    <3> QED
      BY <1>2, <2>3, <3>1, <3>2
  <2> QED
    BY <2>2, <2>3
<1> QED
  BY <1>3, <1>4, <1>5 DEF q, a, b, RemoveAt

\* n distinct processes taken from the front of a queue are n.
LEMMA PrefixCardinality ==
  ASSUME NEW q \in Seq(Proc), NEW n \in 0..Len(q),
         \A i, j \in 1..Len(q) : q[i] = q[j] => i = j
  PROVE  /\ IsFiniteSet({q[i] : i \in 1..n})
         /\ Cardinality({q[i] : i \in 1..n}) = n
<1> DEFINE S == {q[i] : i \in 1..n}
           f == [i \in 1..n |-> q[i]]
<1>1. IsFiniteSet(1..n) /\ Cardinality(1..n) = n
  BY FS_Interval
<1>2. f \in Bijection(1..n, S)
  BY DEF Bijection, Injection, Surjection, IsInjective
<1>3. ExistsBijection(1..n, S)
  BY <1>2 DEF ExistsBijection
<1>4. IsFiniteSet(S) /\ Cardinality(S) = Cardinality(1..n)
  BY <1>1, <1>3, FS_Bijection
<1> QED
  BY <1>1, <1>4

\* Readers are finitely many, and no more than the processes.
LEMMA ReadersFinite ==
  ASSUME NEW s, NEW k
  PROVE  IsFiniteSet(Sharing(s, k)) /\ Cardinality(Sharing(s, k)) \in Nat
<1>1. Sharing(s, k) \subseteq Proc
  BY DEF Sharing
<1>2. IsFiniteSet(Sharing(s, k))
  BY <1>1, FS_Subset, ProcAssumption
<1> QED
  BY <1>2, FS_CardinalityType

\* One more reader, one reader less: the count follows.
LEMMA ReaderCount ==
  ASSUME NEW s, NEW t, NEW k, NEW p \in Proc,
         \A r \in Proc \ {p} : t[r][k] = "sh" <=> s[r][k] = "sh",
         s[p][k] # "sh", t[p][k] = "sh"
  PROVE  Cardinality(Sharing(t, k)) = Cardinality(Sharing(s, k)) + 1
<1>1. Sharing(t, k) = Sharing(s, k) \cup {p} /\ p \notin Sharing(s, k)
  BY DEF Sharing
<1> QED
  BY <1>1, ReadersFinite, FS_AddElement

-----------------------------------------------------------------------------
\* A step that touches only key k has to care for k only.
LEMMA Frame ==
  ASSUME IInv, TypeOK', NEW k \in Key,
         \A p \in Proc, j \in Key : j # k => st'[p][j] = st[p][j],
         \A j \in Key : j # k => cur'[j] = cur[j] /\ waiters'[j] = waiters[j],
         KeyInv(st', k, waiters'[k], cur'[k])
  PROVE  IInv'
<1> SUFFICES ASSUME NEW j \in Key, j # k
             PROVE  KeyInv(st', j, waiters[j], cur[j])
  BY DEF IInv
<1>1. KeyInv(st, j, waiters[j], cur[j]) /\ waiters[j] \in Seq(Proc)
  BY DEF IInv, TypeOK
<1>2. \A p \in Proc : st'[p][j] = st[p][j]
  OBVIOUS
<1>3. \A i \in 1..Len(waiters[j]) : waiters[j][i] \in Proc
  BY <1>1
<1>4. Sharing(st', j) = Sharing(st, j)
  BY <1>2 DEF Sharing
<1>5. QueueOK(st', j, waiters[j])
  BY <1>1, <1>2, <1>3 DEF KeyInv, QueueOK
<1>6. FreeOK(st', j, cur[j]) \/ HeldOK(st', j, cur[j])
  BY <1>1, <1>2, <1>4 DEF KeyInv, FreeOK, HeldOK
<1>7. HeadOK(st', j, waiters[j], cur[j])
  BY <1>1, <1>2, <1>3 DEF KeyInv, HeadOK, Fits
<1> QED
  BY <1>5, <1>6, <1>7 DEF KeyInv

(* Waking the longest prefix that fits restores the invariant of the key, if *)
(* nobody writes and the tokens taken are those of the readers.              *)
LEMMA NotifyInv ==
  ASSUME IInv,
         NEW k \in Key,
         NEW s \in [Proc -> [Key -> States]],
         \A p \in Proc, j \in Key : j # k => s[p][j] = st[p][j],
         NEW q \in Seq(Proc),
         QueueOK(s, k, q),
         NEW c \in 0..max,
         FreeOK(s, k, c),
         Notify(s, k, q, c)
  PROVE  IInv'
<1>1. PICK n \in 0..Len(q) :
        /\ n > 0 => Fits(s, k, q, c, n)
        /\ n < Len(q) => ~ Fits(s, k, q, c, n + 1)
        /\ st' = [p \in Proc |-> IF \E i \in 1..n : q[i] = p
                                 THEN [s[p] EXCEPT ![k] = Granted(s[p][k])]
                                 ELSE s[p]]
        /\ cur' = [cur EXCEPT ![k] = IF n > 0 /\ s[q[1]][k] = "wantEx"
                                     THEN max ELSE c + n]
        /\ waiters' = [waiters EXCEPT ![k] = SubSeq(q, n + 1, Len(q))]
  BY Zenon DEF Notify
<1> DEFINE rest == SubSeq(q, n + 1, Len(q))
<1>t. TypeOK /\ max \in Nat \ {0} /\ Len(q) \in Nat
  BY MaxAssumption DEF IInv
<1>2. /\ rest \in Seq(Proc) /\ Len(rest) = Len(q) - n
      /\ \A i \in 1..Len(rest) : rest[i] = q[n + i]
  OBVIOUS
<1>3. /\ \A p \in Proc, j \in Key : j # k => st'[p][j] = st[p][j]
      /\ \A p \in Proc : (\E i \in 1..n : q[i] = p)
                           => st'[p][k] = Granted(s[p][k])
      /\ \A p \in Proc : ~ (\E i \in 1..n : q[i] = p) => st'[p][k] = s[p][k]
  BY <1>1
<1>4. st' \in [Proc -> [Key -> States]]
  BY <1>1 DEF States, Hold, Want, Granted
<1>5. /\ waiters' \in [Key -> Seq(Proc)] /\ waiters'[k] = rest
      /\ \A j \in Key : j # k => cur'[j] = cur[j] /\ waiters'[j] = waiters[j]
  BY <1>1, <1>t, <1>2 DEF TypeOK
<1> HIDE DEF rest
<1>6. \A i \in 1..Len(rest) : st'[rest[i]][k] = s[rest[i]][k]
  <2> SUFFICES ASSUME NEW i \in 1..Len(rest)
               PROVE  ~ (\E j \in 1..n : q[j] = rest[i])
    BY <1>2, <1>3
  <2>1. rest[i] = q[n + i] /\ n + i \in 1..Len(q) /\ n + i \notin 1..n
    BY <1>2, <1>t
  <2> QED
    BY <2>1, <1>t DEF QueueOK
<1>7. QueueOK(st', k, rest)
  <2>1. \A i \in 1..Len(rest) : rest[i] = q[n + i] /\ n + i \in 1..Len(q)
    BY <1>2, <1>t
  <2>2. \A i \in 1..Len(rest) : st'[rest[i]][k] \in Want
    BY <1>6, <2>1 DEF QueueOK
  <2>3. \A i, j \in 1..Len(rest) : rest[i] = rest[j] => i = j
    <3> SUFFICES ASSUME NEW i \in 1..Len(rest), NEW j \in 1..Len(rest),
                        rest[i] = rest[j]
                 PROVE  i = j
      OBVIOUS
    <3>1. n + i = n + j
      BY <2>1 DEF QueueOK
    <3> QED
      BY <3>1, <1>2, <1>t
  <2> QED
    BY <2>2, <2>3 DEF QueueOK
<1>8. CASE n > 0 /\ s[q[1]][k] = "wantEx"
  <2>1. n = 1 /\ c = 0 /\ cur'[k] = max
    BY <1>1, <1>8, <1>t DEF Fits, TypeOK
  <2>2. \A p \in Proc : s[p][k] \notin Hold
    <3>1. Sharing(s, k) = {}
      BY <2>1, ReadersFinite, FS_EmptySet DEF FreeOK
    <3> QED
      BY <3>1 DEF FreeOK, Hold, Sharing
  <2>3. HeldOK(st', k, cur'[k])
    BY <1>3, <1>8, <2>1, <2>2 DEF HeldOK, Granted
  <2>4. HeadOK(st', k, rest, cur'[k])
    BY <2>1, <1>t DEF HeadOK, Fits
  <2>5. TypeOK'
    BY <1>1, <1>4, <1>5, <1>8, <1>t DEF TypeOK
  <2> QED
    BY <1>3, <1>5, <1>7, <2>3, <2>4, <2>5, Frame DEF KeyInv
<1>9. CASE ~ (n > 0 /\ s[q[1]][k] = "wantEx")
  <2> DEFINE W == {q[i] : i \in 1..n}
             R == Sharing(s, k)
  <2>1. /\ \A i \in 1..n : s[q[i]][k] = "wantSh"
        /\ c + n =< max
    <3>1. CASE n > 0
      <4>1. s[q[1]][k] # "wantEx" /\ Fits(s, k, q, c, n)
        BY <1>1, <1>9, <3>1
      <4> QED
        BY <4>1 DEF Fits
    <3>2. CASE n = 0
      BY <1>t, <3>2
    <3> QED
      BY <3>1, <3>2
  <2>2. cur'[k] = c + n /\ cur' \in [Key -> 0..max]
    BY <1>1, <1>9, <1>t, <2>1 DEF TypeOK
  <2>3. Sharing(st', k) = R \cup W /\ R \cap W = {}
    <3>1. W \subseteq Proc
      OBVIOUS
    <3>2. \A p \in Proc : p \in W <=> \E i \in 1..n : q[i] = p
      OBVIOUS
    <3>3. \A p \in W : s[p][k] = "wantSh"
      BY <2>1
    <3> HIDE DEF W
    <3> QED
      BY <1>3, <3>1, <3>2, <3>3 DEF Granted, Sharing
  <2>4. Cardinality(R \cup W) = c + n
    <3>1. IsFiniteSet(W) /\ Cardinality(W) = n
      BY PrefixCardinality DEF QueueOK
    <3>2. IsFiniteSet(R)
      BY ReadersFinite
    <3>3. Cardinality(R) = c
      BY DEF FreeOK
    <3>4. Cardinality(R \cup W)
            = Cardinality(R) + Cardinality(W) - Cardinality(R \cap W)
      BY <3>1, <3>2, FS_Union
    <3>5. Cardinality(R \cap W) = 0
      BY <2>3, FS_EmptySet
    <3> HIDE DEF R, W
    <3> QED
      BY <3>1, <3>3, <3>4, <3>5
  <2>5. FreeOK(st', k, cur'[k])
    BY <1>3, <2>1, <2>2, <2>3, <2>4 DEF FreeOK, Granted
  <2>6. HeadOK(st', k, rest, cur'[k])
    <3> SUFFICES ASSUME Len(rest) > 0, Fits(st', k, rest, c + n, 1)
                 PROVE  FALSE
      BY <2>2 DEF HeadOK
    <3>1. n < Len(q) /\ 1 \in 1..Len(rest)
      BY <1>2
    <3>2. rest[1] = q[n + 1] /\ st'[rest[1]][k] = s[q[n + 1]][k]
      BY <1>2, <1>6, <3>1
    <3>3. Fits(s, k, q, c, n + 1)
      <4>1. CASE s[q[n + 1]][k] = "wantEx"
        BY <3>1, <3>2, <4>1 DEF Fits
      <4>2. CASE s[q[n + 1]][k] # "wantEx"
        BY <3>1, <3>2, <4>2, <2>1 DEF Fits
      <4> QED
        BY <4>1, <4>2
    <3> QED
      BY <1>1, <3>1, <3>3
  <2>7. TypeOK'
    BY <1>4, <1>5, <2>2 DEF TypeOK
  <2> QED
    BY <1>3, <1>5, <1>7, <2>5, <2>6, <2>7, Frame DEF KeyInv
<1> QED
  BY <1>8, <1>9

-----------------------------------------------------------------------------
(* The operations. *)

LEMMA AcquireInv ==
  ASSUME IInv, NEW p \in Proc, NEW k \in Key, NEW want \in Want,
         Acquire(p, k, want)
  PROVE  IInv'
<1> DEFINE weight == IF want = "wantEx" THEN max ELSE 1
<1>t. /\ TypeOK /\ max \in Nat \ {0} /\ st[p][k] = "none"
      /\ KeyInv(st, k, waiters[k], cur[k])
      /\ cur[k] \in 0..max /\ waiters[k] \in Seq(Proc)
  BY MaxAssumption DEF IInv, Acquire, TypeOK
<1>1. CASE /\ max - cur[k] >= weight /\ waiters[k] = << >>
           /\ cur' = [cur EXCEPT ![k] = @ + weight]
           /\ st' = [st EXCEPT ![p][k] = Granted(want)]
           /\ UNCHANGED waiters
  <2>1. TypeOK'
    BY <1>1, <1>t DEF TypeOK, Granted, States, Want, Hold
  <2>2. QueueOK(st', k, waiters'[k]) /\ HeadOK(st', k, waiters'[k], cur'[k])
    BY <1>1, <1>t DEF QueueOK, HeadOK
  <2>3. \A r \in Proc : r # p => st'[r][k] = st[r][k]
    BY <1>1, <1>t DEF TypeOK
  <2>4. CASE want = "wantEx"
    <3>1. cur[k] = 0 /\ cur'[k] = max /\ st'[p][k] = "ex"
      BY <1>1, <1>t, <2>4 DEF TypeOK, Granted
    <3>2. FreeOK(st, k, 0)
      BY <1>t, <3>1 DEF KeyInv, HeldOK
    <3>3. Sharing(st, k) = {}
      BY <3>2, ReadersFinite, FS_EmptySet DEF FreeOK
    <3>4. HeldOK(st', k, cur'[k])
      BY <2>3, <3>1, <3>2, <3>3 DEF HeldOK, FreeOK, Sharing, Hold
    <3> QED
      BY <1>1, <1>t, <2>1, <2>2, <3>4, Frame DEF KeyInv, TypeOK
  <2>5. CASE want # "wantEx"
    <3>1. cur[k] # max /\ cur'[k] = cur[k] + 1 /\ st'[p][k] = "sh"
      BY <1>1, <1>t, <2>5 DEF TypeOK, Granted
    <3>2. FreeOK(st, k, cur[k])
      BY <1>t, <3>1 DEF KeyInv, HeldOK
    <3>3. Cardinality(Sharing(st', k)) = Cardinality(Sharing(st, k)) + 1
      BY <1>t, <2>3, <3>1, ReaderCount
    <3>4. FreeOK(st', k, cur'[k])
      BY <2>3, <3>1, <3>2, <3>3 DEF FreeOK
    <3> QED
      BY <1>1, <1>t, <2>1, <2>2, <3>4, Frame DEF KeyInv, TypeOK
  <2> QED
    BY <2>4, <2>5
<1>2. CASE /\ ~ (max - cur[k] >= weight /\ waiters[k] = << >>)
           /\ waiters' = [waiters EXCEPT ![k] = Append(@, p)]
           /\ st' = [st EXCEPT ![p][k] = want]
           /\ UNCHANGED cur
  <2> DEFINE q == waiters[k]
  <2>1. TypeOK'
    BY <1>2, <1>t DEF TypeOK, States
  <2>2. /\ waiters'[k] = Append(q, p) /\ Len(waiters'[k]) = Len(q) + 1
        /\ \A i \in 1..Len(q) : waiters'[k][i] = q[i] /\ q[i] \in Proc
        /\ waiters'[k][Len(q) + 1] = p
        /\ Len(q) \in Nat
    BY <1>2, <1>t DEF TypeOK
  <2>3. /\ \A r \in Proc : r # p => st'[r][k] = st[r][k]
        /\ st'[p][k] = want
    BY <1>2, <1>t DEF TypeOK
  <2>4. \A i \in 1..Len(q) : q[i] # p /\ st'[q[i]][k] = st[q[i]][k]
    BY <1>t, <2>2, <2>3 DEF KeyInv, QueueOK, Want
  <2>5. QueueOK(st', k, waiters'[k])
    BY <1>t, <2>2, <2>3, <2>4, SMTT(30) DEF KeyInv, QueueOK
  <2>6. Sharing(st', k) = Sharing(st, k)
    BY <1>t, <2>3 DEF Sharing, Want
  <2>7. FreeOK(st', k, cur'[k]) \/ HeldOK(st', k, cur'[k])
    <3>1. \A r \in Proc : st'[r][k] \in Hold => st'[r][k] = st[r][k]
      BY <2>3 DEF Hold, Want
    <3>2. \A r \in Proc : st[r][k] \in Hold => st'[r][k] = st[r][k]
      BY <1>t, <2>3 DEF Hold
    <3> QED
      BY <1>2, <1>t, <2>6, <3>1, <3>2 DEF KeyInv, FreeOK, HeldOK, Hold
  <2>8. HeadOK(st', k, waiters'[k], cur'[k])
    <3>1. CASE Len(q) > 0
      BY <1>2, <1>t, <2>2, <2>4, <3>1 DEF KeyInv, HeadOK, Fits
    <3>2. CASE Len(q) = 0
      <4>1. max - cur[k] < weight /\ waiters'[k][1] = p
        BY <1>2, <1>t, <2>2, <3>2
      <4> QED
        BY <1>2, <1>t, <2>3, <4>1 DEF HeadOK, Fits, Want
    <3> QED
      BY <2>2, <3>1, <3>2
  <2> QED
    BY <1>2, <1>t, <2>1, <2>5, <2>7, <2>8, Frame DEF KeyInv, TypeOK
<1> QED
  BY <1>1, <1>2 DEF Acquire

\* Unlock, Downgrade and RUnlock leave nobody writing.
LEMMA ReleaseInv ==
  ASSUME IInv, NEW p \in Proc, NEW k \in Key,
         NEW weight \in Nat, NEW to \in {"none", "sh"},
         \/ st[p][k] = "ex" /\ to = "none" /\ weight = max
         \/ st[p][k] = "ex" /\ to = "sh" /\ weight = max - 1
         \/ st[p][k] = "sh" /\ to = "none" /\ weight = 1,
         Release(p, k, weight, to)
  PROVE  IInv'
<1> DEFINE s == [st EXCEPT ![p][k] = to]
           q == waiters[k]
           c == cur[k] - weight
<1>t. /\ TypeOK /\ max \in Nat \ {0}
      /\ KeyInv(st, k, q, cur[k])
      /\ cur[k] \in 0..max /\ q \in Seq(Proc)
  BY MaxAssumption DEF IInv, TypeOK
<1>1. /\ s \in [Proc -> [Key -> States]]
      /\ \A r \in Proc, j \in Key : j # k => s[r][j] = st[r][j]
      /\ \A r \in Proc : r # p => s[r][k] = st[r][k]
      /\ s[p][k] = to
  <2>1. to \in States /\ st \in [Proc -> [Key -> States]]
    BY <1>t DEF TypeOK, States, Hold
  <2> QED
    BY <2>1
<1> HIDE DEF s
<1>2. QueueOK(s, k, q)
  <2>1. \A i \in 1..Len(q) : q[i] # p /\ q[i] \in Proc
    BY <1>t DEF KeyInv, QueueOK, Want
  <2> QED
    BY <1>t, <1>1, <2>1 DEF KeyInv, QueueOK
<1>3. c \in 0..max /\ FreeOK(s, k, c)
  <2>1. CASE st[p][k] = "ex"
    <3>1. cur[k] = max /\ \A r \in Proc : r # p => st[r][k] \notin Hold
      BY <1>t, <2>1 DEF KeyInv, FreeOK, HeldOK, Hold
    <3>2. CASE to = "none"
      <4>1. Sharing(s, k) = {} /\ c = 0
        BY <1>1, <1>t, <2>1, <3>1, <3>2 DEF Sharing, Hold
      <4> QED
        BY <1>1, <1>t, <3>1, <3>2, <4>1, FS_EmptySet DEF FreeOK, Hold
    <3>3. CASE to = "sh"
      <4>1. Sharing(s, k) = {p} /\ c = 1
        BY <1>1, <1>t, <2>1, <3>1, <3>3 DEF Sharing, Hold
      <4>2. Cardinality(Sharing(s, k)) = 1
        BY <4>1, FS_Singleton
      <4> QED
        BY <1>1, <1>t, <3>1, <3>3, <4>1, <4>2 DEF FreeOK, Hold
    <3> QED
      BY <3>2, <3>3
  <2>2. CASE st[p][k] = "sh"
    <3>1. FreeOK(st, k, cur[k])
      BY <1>t, <2>2 DEF KeyInv, HeldOK, Hold
    <3>2. Cardinality(Sharing(st, k)) = Cardinality(Sharing(s, k)) + 1
      BY <1>1, <2>2, ReaderCount
    <3>3. c = Cardinality(Sharing(s, k)) /\ c \in Nat
      BY <1>t, <2>2, <3>1, <3>2, ReadersFinite DEF FreeOK
    <3> QED
      BY <1>1, <1>t, <2>2, <3>1, <3>3 DEF FreeOK
  <2> QED
    BY <2>1, <2>2
<1>4. Notify(s, k, q, c)
  BY DEF Release, s
<1> HIDE DEF q, c
<1> QED
  BY <1>t, <1>1, <1>2, <1>3, <1>4, NotifyInv

\* A waiter that gives up leaves a queue without holes.
LEMMA CancelInv ==
  ASSUME IInv, NEW p \in Proc, NEW k \in Key, Cancel(p, k)
  PROVE  IInv'
<1>t. /\ TypeOK /\ max \in Nat \ {0}
      /\ KeyInv(st, k, waiters[k], cur[k])
      /\ cur[k] \in 0..max /\ waiters[k] \in Seq(Proc)
  BY MaxAssumption DEF IInv, TypeOK
<1> DEFINE w == waiters[k]
           s == [st EXCEPT ![p][k] = "none"]
<1>1. PICK i \in 1..Len(w) :
        /\ w[i] = p
        /\ LET q == RemoveAt(w, i)
           IN  IF i = 1 /\ max > cur[k]
               THEN Notify(s, k, q, cur[k])
               ELSE /\ waiters' = [waiters EXCEPT ![k] = q]
                    /\ st' = s
                    /\ UNCHANGED cur
  BY DEF Cancel
<1> DEFINE q == RemoveAt(w, i)
<1>2. /\ s \in [Proc -> [Key -> States]]
      /\ \A r \in Proc, j \in Key : j # k => s[r][j] = st[r][j]
      /\ \A r \in Proc : r # p => s[r][k] = st[r][k]
      /\ s[p][k] = "none" /\ st[p][k] \in Want
  <2>1. "none" \in States /\ st \in [Proc -> [Key -> States]]
    BY <1>t DEF TypeOK, States
  <2> QED
    BY <2>1 DEF Cancel
<1>3. /\ w \in Seq(Proc) /\ Len(w) \in Nat
      /\ \A j \in 1..Len(w) : w[j] \in Proc /\ (w[j] = p => j = i)
  BY <1>1, <1>t DEF KeyInv, QueueOK
<1>4. /\ q \in Seq(Proc) /\ Len(q) = Len(w) - 1
      /\ \A j \in 1..Len(q) : q[j] = IF j < i THEN w[j] ELSE w[j + 1]
  <2> HIDE DEF w
  <2> QED
    BY <1>3, RemoveAtProperties
<1> HIDE DEF q, w, s
<1>5. \A j \in 1..Len(q) : q[j] \in Proc /\ q[j] # p
  BY <1>3, <1>4
<1>6. QueueOK(s, k, q)
  <2>1. \A j \in 1..Len(w) : st[w[j]][k] \in Want
    BY <1>t DEF KeyInv, QueueOK, w
  <2>2. \A j, m \in 1..Len(w) : w[j] = w[m] => j = m
    BY <1>t DEF KeyInv, QueueOK, w
  <2>3. \A j \in 1..Len(q) : s[q[j]][k] \in Want
    <3> SUFFICES ASSUME NEW j \in 1..Len(q) PROVE st[q[j]][k] \in Want
      BY <1>2, <1>5
    <3> QED
      BY <1>3, <1>4, <2>1
  <2>4. \A j, m \in 1..Len(q) : q[j] = q[m] => j = m
    BY <1>3, <1>4, <2>2
  <2> QED
    BY <2>3, <2>4 DEF QueueOK
<1>7. Sharing(s, k) = Sharing(st, k)
  BY <1>2 DEF Sharing, Want
<1>8. /\ FreeOK(st, k, cur[k]) => FreeOK(s, k, cur[k])
      /\ HeldOK(st, k, cur[k]) => HeldOK(s, k, cur[k])
  BY <1>2, <1>7 DEF FreeOK, HeldOK, Hold, Want
<1>9. CASE i = 1 /\ max > cur[k]
  <2>1. FreeOK(s, k, cur[k])
    BY <1>t, <1>8, <1>9 DEF KeyInv, HeldOK
  <2>2. Notify(s, k, q, cur[k])
    BY <1>1, <1>9 DEF q
  <2> QED
    BY <1>t, <1>2, <1>4, <1>6, <2>1, <2>2, NotifyInv
<1>10. CASE ~ (i = 1 /\ max > cur[k])
  <2>1. waiters' = [waiters EXCEPT ![k] = q] /\ st' = s /\ UNCHANGED cur
    BY <1>1, <1>10 DEF q
  <2>2. TypeOK' /\ waiters'[k] = q
    BY <1>t, <1>2, <1>4, <2>1 DEF TypeOK
  <2>3. HeadOK(s, k, q, cur[k])
    <3>1. CASE i = 1
      BY <1>10, <1>t, <3>1 DEF HeadOK, Fits
    <3>2. CASE i # 1
      <4>1. Len(q) > 0 => q[1] = w[1] /\ s[q[1]][k] = st[w[1]][k]
        BY <1>2, <1>4, <1>5, <3>2
      <4> QED
        BY <1>t, <1>3, <1>4, <4>1 DEF KeyInv, HeadOK, Fits, w
    <3> QED
      BY <3>1, <3>2
  <2>4. KeyInv(st', k, waiters'[k], cur'[k])
    BY <1>t, <1>6, <1>8, <2>1, <2>2, <2>3 DEF KeyInv
  <2>5. \A j \in Key : j # k => cur'[j] = cur[j] /\ waiters'[j] = waiters[j]
    BY <1>t, <2>1 DEF TypeOK
  <2> QED
    BY <1>2, <2>1, <2>2, <2>4, <2>5, Frame
<1> QED
  BY <1>9, <1>10

-----------------------------------------------------------------------------
(* What a step does to its caller and to the others. *)

\* Nobody but p at k is in another state, except those who waited at k and
\* have their lock now.
OthersOnlyWoken(p, k) ==
  \A r \in Proc, j \in Key : r # p \/ j # k =>
    \/ st'[r][j] = st[r][j]
    \/ j = k /\ st[r][k] \in Want /\ st'[r][k] = Granted(st[r][k])

\* NoOvertaking, for the waiters of one name.
InTurn(k) ==
  \A r \in Proc : st[r][k] \notin Hold /\ st'[r][k] \in Hold =>
    \A i \in 1..Len(waiters[k]) :
      \/ \E j \in 1..i : waiters[k][j] = r
      \/ st'[waiters[k][i]][k] \notin Want

\* Those that are woken are the first in the queue.
LEMMA NotifyStep ==
  ASSUME NEW k \in Key, NEW s \in [Proc -> [Key -> States]], NEW q \in Seq(Proc),
         \A i \in 1..Len(q) : s[q[i]][k] \in Want,
         NEW c, Notify(s, k, q, c)
  PROVE  /\ \A r \in Proc, j \in Key :
              \/ st'[r][j] = s[r][j]
              \/ j = k /\ s[r][k] \in Want /\ st'[r][k] = Granted(s[r][k])
         /\ \E n \in 0..Len(q) :
              /\ \A i \in 1..n : st'[q[i]][k] = Granted(s[q[i]][k])
              /\ \A r \in Proc : (\A i \in 1..n : q[i] # r) => st'[r][k] = s[r][k]
<1>1. PICK n \in 0..Len(q) :
        st' = [p \in Proc |-> IF \E i \in 1..n : q[i] = p
                              THEN [s[p] EXCEPT ![k] = Granted(s[p][k])]
                              ELSE s[p]]
  BY Zenon DEF Notify
<1>2. \A i \in 1..n : q[i] \in Proc /\ s[q[i]][k] \in Want
  OBVIOUS
<1>3. ASSUME NEW r \in Proc, \E i \in 1..n : q[i] = r
      PROVE  /\ st'[r][k] = Granted(s[r][k])
             /\ \A j \in Key : j # k => st'[r][j] = s[r][j]
  BY <1>1, <1>3
<1>4. ASSUME NEW r \in Proc, ~ \E i \in 1..n : q[i] = r
      PROVE  \A j \in Key : st'[r][j] = s[r][j]
  BY <1>1, <1>4
<1>5. /\ \A i \in 1..n : st'[q[i]][k] = Granted(s[q[i]][k])
      /\ \A r \in Proc : (\A i \in 1..n : q[i] # r) => st'[r][k] = s[r][k]
  BY <1>2, <1>3, <1>4
<1>6. \A r \in Proc, j \in Key :
        \/ st'[r][j] = s[r][j]
        \/ j = k /\ s[r][k] \in Want /\ st'[r][k] = Granted(s[r][k])
  BY <1>2, <1>3, <1>4
<1> QED
  BY <1>5, <1>6

\* A newcomer that gets its lock passes nobody, for nobody waits.
LEMMA AcquireStep ==
  ASSUME IInv, NEW p \in Proc, NEW k \in Key, NEW want \in Want,
         Acquire(p, k, want)
  PROVE  /\ OthersOnlyWoken(p, k)
         /\ st[p][k] = "none" /\ st'[p][k] \in {want, Granted(want)}
         /\ \A j \in Key : InTurn(j)
<1>1. TypeOK
  BY DEF IInv
<1>2. PICK to \in {want, Granted(want)} :
        /\ st' = [st EXCEPT ![p][k] = to]
        /\ to = Granted(want) => waiters[k] = << >>
  BY DEF Acquire, Granted, Want
<1>3. /\ \A r \in Proc, j \in Key : r # p \/ j # k => st'[r][j] = st[r][j]
      /\ st'[p][k] = to
  BY <1>1, <1>2 DEF TypeOK
<1>4. ASSUME NEW j \in Key PROVE InTurn(j)
  <2>1. CASE j = k /\ to = Granted(want)
    BY <1>2, <2>1 DEF InTurn
  <2>2. CASE j # k \/ to # Granted(want)
    BY <1>2, <1>3, <2>2 DEF InTurn, Want, Hold
  <2> QED
    BY <2>1, <2>2
<1> QED
  BY <1>2, <1>3, <1>4 DEF OthersOnlyWoken, Acquire

\* Tokens that come back go to those at the front.
LEMMA ReleaseStep ==
  ASSUME IInv, NEW p \in Proc, NEW k \in Key, NEW weight, NEW to \in {"none", "sh"},
         st[p][k] \in Hold, Release(p, k, weight, to)
  PROVE  /\ OthersOnlyWoken(p, k)
         /\ st'[p][k] = to
         /\ \A j \in Key : InTurn(j)
<1> DEFINE s == [st EXCEPT ![p][k] = to]
           q == waiters[k]
<1>1. TypeOK /\ QueueOK(st, k, q) /\ q \in Seq(Proc)
  BY DEF IInv, KeyInv, TypeOK
<1>2. /\ s \in [Proc -> [Key -> States]] /\ s[p][k] = to
      /\ \A r \in Proc, j \in Key : r # p \/ j # k => s[r][j] = st[r][j]
  BY <1>1 DEF TypeOK, States, Hold
<1>3. Notify(s, k, q, cur[k] - weight)
  BY DEF Release
<1> HIDE DEF s, q
<1>4. \A i \in 1..Len(q) : q[i] \in Proc /\ s[q[i]][k] \in Want /\ q[i] # p
  <2>1. \A i \in 1..Len(q) : q[i] \in Proc /\ st[q[i]][k] \in Want
    BY <1>1 DEF QueueOK
  <2> QED
    BY <1>2, <2>1 DEF Want, Hold
<1>5. \A r \in Proc, j \in Key :
        \/ st'[r][j] = s[r][j]
        \/ j = k /\ s[r][k] \in Want /\ st'[r][k] = Granted(s[r][k])
  BY <1>1, <1>2, <1>3, <1>4, NotifyStep
<1>6. PICK n \in 0..Len(q) :
        /\ \A i \in 1..n : st'[q[i]][k] = Granted(s[q[i]][k])
        /\ \A r \in Proc : (\A i \in 1..n : q[i] # r) => st'[r][k] = s[r][k]
  BY <1>1, <1>2, <1>3, <1>4, NotifyStep, ZenonT(60)
<1>7. OthersOnlyWoken(p, k) /\ st'[p][k] = to
  BY <1>2, <1>5 DEF OthersOnlyWoken, Want
<1>8. ASSUME NEW j \in Key PROVE InTurn(j)
  <2>1. CASE j # k
    BY <1>7, <2>1 DEF OthersOnlyWoken, InTurn
  <2>2. CASE j = k
    <3> SUFFICES ASSUME NEW r \in Proc, st[r][k] \notin Hold, st'[r][k] \in Hold,
                        NEW i \in 1..Len(q)
                 PROVE  (\E m \in 1..i : q[m] = r) \/ st'[q[i]][k] \notin Want
      BY <2>2 DEF InTurn, q
    <3>1. r # p /\ st'[r][k] # s[r][k]
      BY <1>2
    <3>2. PICK m \in 1..n : q[m] = r
      BY <1>6, <3>1
    <3>3. CASE m =< i
      BY <3>2, <3>3
    <3>4. CASE i < m
      <4>1. i \in 1..n
        BY <3>4
      <4>2. st'[q[i]][k] = Granted(s[q[i]][k])
        BY <1>4, <1>6, <4>1
      <4> QED
        BY <4>2 DEF Granted, Want
    <3> QED
      BY <3>3, <3>4
  <2> QED
    BY <2>1, <2>2
<1> QED
  BY <1>7, <1>8

\* A waiter that gives up lets those behind it move up.
LEMMA CancelStep ==
  ASSUME IInv, NEW p \in Proc, NEW k \in Key, Cancel(p, k)
  PROVE  /\ OthersOnlyWoken(p, k)
         /\ st[p][k] \in Want /\ st'[p][k] = "none"
         /\ \A j \in Key : InTurn(j)
<1> DEFINE w == waiters[k]
           s == [st EXCEPT ![p][k] = "none"]
<1>1. PICK i \in 1..Len(w) :
        /\ w[i] = p
        /\ \/ i = 1 /\ Notify(s, k, RemoveAt(w, i), cur[k])
           \/ st' = s
  BY DEF Cancel
<1> DEFINE q == RemoveAt(w, i)
<1>2. TypeOK /\ QueueOK(st, k, w) /\ w \in Seq(Proc) /\ st[p][k] \in Want
  BY DEF IInv, KeyInv, TypeOK, Cancel
<1>3. /\ s \in [Proc -> [Key -> States]] /\ s[p][k] = "none"
      /\ \A r \in Proc, j \in Key : r # p \/ j # k => s[r][j] = st[r][j]
  BY <1>2 DEF TypeOK, States
<1>4. /\ q \in Seq(Proc) /\ Len(q) = Len(w) - 1
      /\ \A j \in 1..Len(q) : q[j] = IF j < i THEN w[j] ELSE w[j + 1]
  <2> HIDE DEF w
  <2> QED
    BY <1>2, RemoveAtProperties
<1> HIDE DEF s, w, q
<1>5. CASE st' = s
  BY <1>2, <1>3, <1>5 DEF OthersOnlyWoken, InTurn, Hold
<1>6. CASE i = 1 /\ Notify(s, k, q, cur[k])
  <2>1. \A m \in 1..Len(q) :
          m + 1 \in 1..Len(w) /\ q[m] = w[m + 1] /\ q[m] \in Proc /\ q[m] # p
    BY <1>1, <1>2, <1>4, <1>6 DEF QueueOK
  <2>2. \A m \in 1..Len(q) : s[q[m]][k] \in Want
    BY <1>2, <1>3, <2>1, SMTT(30) DEF QueueOK
  <2>3. \A r \in Proc, j \in Key :
          \/ st'[r][j] = s[r][j]
          \/ j = k /\ s[r][k] \in Want /\ st'[r][k] = Granted(s[r][k])
    BY <1>3, <1>4, <1>6, <2>2, NotifyStep, ZenonT(60)
  <2>4. PICK n \in 0..Len(q) :
          /\ \A m \in 1..n : st'[q[m]][k] = Granted(s[q[m]][k])
          /\ \A r \in Proc : (\A m \in 1..n : q[m] # r) => st'[r][k] = s[r][k]
    BY <1>3, <1>4, <1>6, <2>2, NotifyStep, ZenonT(60)
  <2>5. OthersOnlyWoken(p, k) /\ st'[p][k] = "none"
    BY <1>3, <2>3 DEF OthersOnlyWoken, Want
  <2>6. ASSUME NEW j \in Key PROVE InTurn(j)
    <3>1. CASE j # k
      BY <2>5, <3>1 DEF OthersOnlyWoken, InTurn
    <3>2. CASE j = k
      <4> SUFFICES ASSUME NEW r \in Proc, st[r][k] \notin Hold, st'[r][k] \in Hold,
                          NEW a \in 1..Len(w)
                   PROVE  (\E m \in 1..a : w[m] = r) \/ st'[w[a]][k] \notin Want
        BY <3>2 DEF InTurn, w
      <4>1. r # p /\ st'[r][k] # s[r][k]
        BY <1>3, <2>5 DEF Hold
      <4>2. PICK m \in 1..n : q[m] = r
        BY <2>4, <4>1
      <4>3. CASE m + 1 =< a
        <5>1. m \in 1..Len(q) /\ w[m + 1] = r /\ m + 1 \in 1..a
          BY <2>1, <4>2, <4>3
        <5> QED
          BY <5>1
      <4>4. CASE a < m + 1 /\ a > 1
        <5>1. a - 1 \in 1..n /\ q[a - 1] = w[a]
          BY <2>1, <4>4, <1>4
        <5>2. st'[w[a]][k] = Granted(s[w[a]][k])
          BY <2>4, <5>1
        <5> QED
          BY <5>2 DEF Granted, Want
      <4>5. CASE a = 1
        BY <1>1, <1>6, <2>5, <4>5 DEF Want
      <4> QED
        BY <4>3, <4>4, <4>5
    <3> QED
      BY <3>1, <3>2
  <2> QED
    BY <1>2, <2>5, <2>6
<1> QED
  BY <1>1, <1>5, <1>6 DEF q

-----------------------------------------------------------------------------
\* A new lock is free and nobody waits for it.
LEMMA InitInv == Init => IInv
<1> SUFFICES ASSUME Init PROVE IInv
  OBVIOUS
<1>1. TypeOK
  BY MaxAssumption DEF Init, TypeOK, States
<1>2. ASSUME NEW k \in Key PROVE KeyInv(st, k, waiters[k], cur[k])
  <2>1. Sharing(st, k) = {}
    BY DEF Init, Sharing
  <2>2. FreeOK(st, k, cur[k])
    BY <2>1, FS_EmptySet DEF Init, FreeOK
  <2> QED
    BY <2>2 DEF Init, KeyInv, QueueOK, HeadOK
<1> QED
  BY <1>1, <1>2 DEF IInv

\* Every operation of the lock, and every stuttering step, preserves IInv.
LEMMA NextInv == ASSUME IInv, [Next]_vars PROVE IInv'
<1>1. ASSUME NEW p \in Proc, NEW k \in Key, Lock(p, k) PROVE IInv'
  BY <1>1, AcquireInv DEF Lock, Want
<1>2. ASSUME NEW p \in Proc, NEW k \in Key, RLock(p, k) PROVE IInv'
  BY <1>2, AcquireInv DEF RLock, Want
<1>3. ASSUME NEW p \in Proc, NEW k \in Key, Cancel(p, k) PROVE IInv'
  BY <1>3, CancelInv
<1>4. ASSUME NEW p \in Proc, NEW k \in Key, Unlock(p, k) PROVE IInv'
  BY <1>4, ReleaseInv, MaxAssumption DEF Unlock
<1>5. ASSUME NEW p \in Proc, NEW k \in Key, Downgrade(p, k) PROVE IInv'
  BY <1>5, ReleaseInv, MaxAssumption DEF Downgrade
<1>6. ASSUME NEW p \in Proc, NEW k \in Key, RUnlock(p, k) PROVE IInv'
  BY <1>6, ReleaseInv, MaxAssumption DEF RUnlock
<1>7. CASE UNCHANGED vars
  BY <1>7 DEF vars, IInv, TypeOK, KeyInv, QueueOK, FreeOK, HeldOK, HeadOK,
              Fits, Sharing
<1> QED
  BY <1>1, <1>2, <1>3, <1>4, <1>5, <1>6, <1>7 DEF Next

\* What the invariant says of writers, tokens and wake-ups.
LEMMA InvImplies == IInv => Exclusion /\ TokensAccounted /\ NoLostWakeup
<1> SUFFICES ASSUME IInv PROVE Exclusion /\ TokensAccounted /\ NoLostWakeup
  OBVIOUS
<1>1. Exclusion
  BY DEF IInv, KeyInv, FreeOK, HeldOK, Exclusion, Hold
<1>2. TokensAccounted
  BY DEF IInv, KeyInv, FreeOK, HeldOK, TokensAccounted, Writers, Readers,
         Sharing
<1>3. NoLostWakeup
  BY DEF IInv, TypeOK, KeyInv, HeadOK, NoLostWakeup
<1> QED
  BY <1>1, <1>2, <1>3

(* The inductive invariant holds in every state of the lock. *)
THEOREM Invariance == Spec => []IInv
BY InitInv, NextInv, PTL DEF Spec

(* The lock's state stays well formed: in particular no Release takes the    *)
(* counter below zero and no Acquire takes it above max.                     *)
THEOREM TypeCorrect == Spec => []TypeOK
<1>1. IInv => TypeOK
  BY DEF IInv
<1> QED
  BY <1>1, Invariance, PTL

(* An exclusive lock excludes every other holder of its key (Lock, RLock and *)
(* Downgrade of keyedlock.go).                                               *)
THEOREM Safety == Spec => []Exclusion
BY InvImplies, Invariance, PTL

(* The semaphore counts exactly the tokens of the holders (Unlock, RUnlock   *)
(* and Downgrade of keyedlock.go).                                           *)
THEOREM Accounting == Spec => []TokensAccounted
BY InvImplies, Invariance, PTL

(* Nobody that could run is left waiting at the front of a queue, however    *)
(* tokens came back.                                                         *)
THEOREM Wakeup == Spec => []NoLostWakeup
BY InvImplies, Invariance, PTL

(* Weighted.notifyWaiters: nobody gets a lock before one who waits for it     *)
(* longer.                                                                   *)
THEOREM InOrder == Spec => NoOvertaking
<1>1. ASSUME IInv, [Next]_vars PROVE \A k \in Key : InTurn(k)
  <2>1. ASSUME NEW p \in Proc, NEW k \in Key, Lock(p, k) \/ RLock(p, k)
        PROVE  \A j \in Key : InTurn(j)
    BY <1>1, <2>1, AcquireStep DEF Lock, RLock, Want
  <2>2. ASSUME NEW p \in Proc, NEW k \in Key, Cancel(p, k)
        PROVE  \A j \in Key : InTurn(j)
    BY <1>1, <2>2, CancelStep
  <2>3. ASSUME NEW p \in Proc, NEW k \in Key, Unlock(p, k) \/ Downgrade(p, k) \/ RUnlock(p, k)
        PROVE  \A j \in Key : InTurn(j)
    BY <1>1, <2>3, ReleaseStep DEF Unlock, Downgrade, RUnlock, Hold
  <2>4. CASE UNCHANGED vars
    BY <2>4 DEF vars, InTurn
  <2> QED
    BY <1>1, <2>1, <2>2, <2>3, <2>4 DEF Next
<1>2. IInv /\ [Next]_vars =>
        [\A k \in Key, p \in Proc :
           st[p][k] \notin Hold /\ st'[p][k] \in Hold
             => \A i \in 1..Len(waiters[k]) :
                  \/ \E j \in 1..i : waiters[k][j] = p
                  \/ st'[waiters[k][i]][k] \notin Want]_vars
  BY <1>1 DEF InTurn
<1> QED
  BY <1>2, Invariance, PTL DEF Spec, NoOvertaking

=============================================================================
