--------------------------- MODULE CommandsProofs ---------------------------
(***************************************************************************)
(* The commands of module Commands for any number of executions of start,   *)
(* stop and test and of test processes, in any environment, whichever        *)
(* requests fail and whoever is killed.                                     *)
(***************************************************************************)
EXTENDS Commands, TLAPS

\* The places of a start once its lock file is, or was, written.
Written(s) == pc[s] \in {"wait", "ok", "failed"}

Ended(a) == srv[a] \in {"stopping", "down"}

\* A server runs only after its command has started it, and ends only when it
\* is known, or with its command.
ServerInv ==
  /\ \A a \in Server : pc[a] \in {"begin", "listen"} => srv[a] = "none"
  /\ \A s \in Start : Ended(s) => Written(s)

\* The addresses that are known are of servers whose start had the lock file
\* written, or of the `confort test` that has set the environment.
AddrInv ==
  \A x \in Stop \cup Test :
    /\ env[x] \in TestCmd =>
         IF pc[x] = "begin" THEN addr[x] = ""
         ELSE addr[x] = env[x] /\ pc[x] \notin {"read", "alone"}
    /\ env[x] \notin TestCmd => addr[x] \in Start \cup {""}
    /\ pc[x] \in {"begin", "read", "alone"} => addr[x] = ""
    /\ pc[x] \in {"check", "connected"} => addr[x] \in Server

WrittenInv ==
  /\ file \in Start => Written(file)
  /\ \A x \in Stop \cup Test : addr[x] \in Start => Written(addr[x])

\* A stop gets on only when it has ended a server.
StopInv ==
  \A x \in Stop :
    pc[x] \in {"list", "remove", "delete", "ok"} =>
      addr[x] \in Server /\ Ended(addr[x])

\* Starts that do not overlap have the lock file for themselves.
StartInv ==
  raced \/
    /\ \A r, s \in Start : Starting(r) /\ Starting(s) => r = s
    /\ \A s \in Start : pc[s] \in {"listen", "open"} => file = "none"
    /\ \A s \in Start : pc[s] = "write" =>
         file = "empty" \/ (s \in gone /\ file = "none")

\* What may have taken the lock file away from a server that runs.
Disturbed ==
  \/ raced
  \/ \E x, y \in Stop :
       x # y /\ addr[x] = addr[y] /\ pc[x] = "ok" /\ pc[y] = "ok"
  \/ \E x \in Stop : env[x] \in TestCmd /\ pc[x] = "ok"

\* An address that a stop has read is in the lock file until a stop of that
\* server has removed it.
FindInv ==
  /\ \A s \in Start : pc[s] = "wait" /\ srv[s] = "up" => file = s \/ Disturbed
  /\ gone # {} => Disturbed
  /\ \A x \in Stop : addr[x] \in Start =>
       \/ file = addr[x] \/ Disturbed
       \/ \E y \in Stop : addr[y] = addr[x] /\ pc[y] = "ok"

\* A server that is ended has a stop that did it.
StaleInv ==
  \A s \in Start : file = s /\ Ended(s) =>
    \/ pc[s] = "failed"
    \/ \E x \in Stop : addr[x] = s /\ (Stopping(x) \/ pc[x] = "failed")

\* Once the lock file has an address, it has one until a stop removes it.
ServedInv ==
  /\ \A t \in served : env[t] = "unset" /\ pc[t] # "begin"
  /\ \A t \in served : pc[t] = "read" => file \in Start \/ raced
  /\ NotAlone

\* A server that was started and does not run has been stopped, or its command
\* is over.
EndInv ==
  /\ \A a \in Server : Ended(a) =>
       \/ \E x \in Stop : addr[x] = a /\ Interrupting(x)
       \/ a \in Start /\ pc[a] = "failed"
       \/ a \in TestCmd /\ Over(a)
  /\ \A t \in Test : pc[t] = "connected" => srv[addr[t]] # "none"

\* The tests of a `confort test` run while it executes them.
ChildInv ==
  \A c \in TestCmd : pc[c] # "test" =>
    \A t \in Children(c) :
      pc[t] = "begin" \/ (Over(t) /\ pc[c] \notin {"listen", "go"})

\* The places of a test that has, or had, a Confort.
Begun(t) == pc[t] \in {"alone", "connected", "ok", "failed"}

\* The resources that a command is to remove are those with its label; those of
\* the tests that a `confort test` ran are of tests that are over.
TodoInv ==
  /\ \A t \in res : Begun(t)
  /\ \A x \in Cleaner : \A t \in todo[x] :
       pc[x] = "remove" /\ Begun(t) /\ Label(t) = LabelOf(x)
  /\ \A c \in TestCmd : pc[c] \in {"list", "remove"} =>
       \A t \in Children(c) : Over(t)

\* A command that has looked for resources, and has met no error.
Listed(x) ==
  pc[x] \in {"delete", "ok"} \/ (pc[x] \in {"remove", "deferred"} /\ x \notin bad)

\* What such a command has not found belongs to tests that were not over.
CleanInv ==
  \A x \in Cleaner \ Reusable : Listed(x) =>
    \A t \in Test : <<x, t>> \notin late =>
      /\ Over(t)
      /\ t \in res /\ Label(t) = LabelOf(x) => pc[x] = "remove" /\ t \in todo[x]

(* The inductive invariant.  ServerFindable is not inductive: what a stop     *)
(* will remove depends on the address it has read long ago, and what a start  *)
(* will overwrite on the races it has been in.  CleanedUp needs to know what   *)
(* is still to be removed, and whose tests are over.                          *)
IInv ==
  /\ TypeOK /\ ServerInv /\ AddrInv /\ WrittenInv /\ StopInv /\ StartInv
  /\ FindInv /\ StaleInv /\ ServedInv /\ EndInv /\ ChildInv /\ TodoInv /\ CleanInv

-----------------------------------------------------------------------------
(* What the actions do to each process and each server. *)

\* A step of x to one of the places W.
Moves(x, W) ==
  /\ pc'[x] \in W
  /\ \A y \in Proc \ {x} : pc'[y] = pc[y]

\* Only the server a may change.
Only(a) == \A b \in Server \ {a} : srv'[b] = srv[b]

\* A process is one of one kind, and an address is no word of the lock file or
\* the environment.
LEMMA Kinds ==
  /\ \A x \in Start : x \in Proc /\ x \in Server
                      /\ x \notin Stop \cup Test \cup TestCmd \cup Cleaner
  /\ \A x \in Stop : x \in Proc /\ x \in Cleaner
                     /\ x \notin Start \cup Test \cup TestCmd \cup Server
  /\ \A x \in TestCmd : x \in Proc /\ x \in Cleaner /\ x \in Server
                        /\ x \notin Start \cup Test \cup Stop
  /\ \A x \in Test : x \in Proc
                     /\ x \notin Start \cup Stop \cup TestCmd \cup Cleaner \cup Server
  /\ \A x \in Server : x \in Proc /\ (x \in Start \/ x \in TestCmd)
  /\ \A x \in Cleaner : x \in Proc /\ (x \in Stop \/ x \in TestCmd)
  /\ \A x \in Server : x \notin {"", "none", "empty", "unset", "disabled"}
BY ProcAssumption DEF Server, Cleaner, Proc

\* What Goto does.
LEMMA GotoType ==
  ASSUME TypeOK, NEW x \in Proc, NEW W \in SUBSET Place, NEW w \in W, Goto(x, w)
  PROVE  pc' \in [Proc -> Place] /\ pc'[x] = w /\ Moves(x, W)
BY DEF TypeOK, Goto, Moves

\* The environment of a process.
LEMMA EnvType ==
  ASSUME TypeOK, NEW x \in Stop \cup Test
  PROVE  env[x] \in TestCmd \cup {"unset", "disabled"}
BY EnvAssumption DEF TypeOK

\* confort start: the lock file is looked for.
LEMMA StatEffect ==
  ASSUME TypeOK, NEW s \in Start, StatLockFile(s)
  PROVE  /\ TypeOK'
         /\ pc[s] = "begin" /\ Moves(s, {"listen", "failed"})
         /\ pc'[s] = "listen" => file = "none"
         /\ raced' = (raced \/ \E r \in Start \ {s} : Starting(r))
         /\ UNCHANGED <<env, file, gone, srv, addr, res, todo, bad, late, served>>
<1>1. pc' \in [Proc -> Place] /\ Moves(s, {"listen", "failed"})
  BY GotoType, Kinds DEF StatLockFile, Place
<1>2. pc'[s] = "listen" => file = "none"
  BY GotoType, Kinds DEF StatLockFile, TypeOK, Goto
<1> QED
  BY <1>1, <1>2 DEF StatLockFile, TypeOK, fileVars, cleanVars

\* StartBeaconServer, of a start and of a `confort test`.
LEMMA StartServerEffect ==
  ASSUME TypeOK, NEW x \in Server, StartBeaconServer(x)
  PROVE  /\ TypeOK'
         /\ pc[x] = "listen"
         /\ Moves(x, {IF x \in Start THEN "open" ELSE "go", "failed"})
         /\ srv'[x] = IF pc'[x] = "failed" THEN srv[x] ELSE "up"
         /\ Only(x)
         /\ UNCHANGED <<env, file, gone, addr, res, todo, bad, late, raced, served>>
<1>1. CASE Goto(x, "failed") /\ UNCHANGED srv
  <2>1. /\ pc' \in [Proc -> Place] /\ pc'[x] = "failed"
        /\ Moves(x, {IF x \in Start THEN "open" ELSE "go", "failed"})
    BY <1>1, GotoType, Kinds DEF Place
  <2> QED
    BY <1>1, <2>1 DEF StartBeaconServer, TypeOK, Only, fileVars, cleanVars
<1>2. CASE /\ Goto(x, IF x \in Start THEN "open" ELSE "go")
           /\ srv' = [srv EXCEPT ![x] = "up"]
  <2> DEFINE w == IF x \in Start THEN "open" ELSE "go"
  <2>0. w \in {w, "failed"} /\ {w, "failed"} \in SUBSET Place /\ w # "failed"
    BY DEF Place
  <2>1. pc' \in [Proc -> Place] /\ pc'[x] = w /\ Moves(x, {w, "failed"})
    <3>1. Goto(x, w)
      BY <1>2
    <3> HIDE DEF w
    <3> QED
      BY <2>0, <3>1, GotoType, Kinds
  <2>2. /\ srv' \in [Server -> {"none", "up", "stopping", "down"}]
        /\ srv'[x] = "up" /\ Only(x)
    BY <1>2 DEF TypeOK, Only
  <2> QED
    BY <1>2, <2>0, <2>1, <2>2 DEF StartBeaconServer, TypeOK, fileVars, cleanVars
<1> QED
  BY <1>1, <1>2 DEF StartBeaconServer

\* Abort, and the end of a `confort test`: the server is down.
LEMMA DownType ==
  ASSUME TypeOK, NEW a \in Server, NEW w \in {"stopping", "down"},
         srv' = [srv EXCEPT ![a] = w]
  PROVE  /\ srv' \in [Server -> {"none", "up", "stopping", "down"}]
         /\ srv'[a] = w /\ Only(a)
BY DEF TypeOK, Only

\* A start that fails or is killed takes its server with it.
LEMMA AbortEffect ==
  ASSUME TypeOK, NEW s \in Start, Abort(s)
  PROVE  /\ pc' \in [Proc -> Place] /\ pc'[s] = "failed" /\ Moves(s, {"failed"})
         /\ srv' \in [Server -> {"none", "up", "stopping", "down"}]
         /\ srv'[s] = "down" /\ Only(s)
BY GotoType, DownType, Kinds DEF Abort, Place

\* The lock file is created.
LEMMA OpenEffect ==
  ASSUME TypeOK, NEW s \in Start, OpenLockFile(s)
  PROVE  /\ TypeOK'
         /\ pc[s] = "open" /\ Moves(s, {"write", "failed"}) /\ Only(s)
         /\ IF pc'[s] = "write" THEN file' = "empty" /\ srv'[s] = srv[s]
            ELSE file' = file /\ srv'[s] = "down"
         /\ UNCHANGED <<env, gone, addr, res, todo, bad, late, raced, served>>
<1>1. CASE Goto(s, "write") /\ file' = "empty" /\ UNCHANGED srv
  <2>1. pc' \in [Proc -> Place] /\ pc'[s] = "write" /\ Moves(s, {"write", "failed"})
    BY <1>1, GotoType, Kinds DEF Place
  <2> QED
    BY <1>1, <2>1 DEF OpenLockFile, TypeOK, Only, cleanVars
<1>2. CASE Abort(s) /\ UNCHANGED file
  BY <1>2, AbortEffect DEF OpenLockFile, TypeOK, Moves, cleanVars
<1> QED
  BY <1>1, <1>2 DEF OpenLockFile

\* The address is written.
LEMMA WriteEffect ==
  ASSUME TypeOK, NEW s \in Start, WriteLockFile(s)
  PROVE  /\ TypeOK'
         /\ pc[s] = "write" /\ Moves(s, {"wait", "failed"}) /\ Only(s)
         /\ file' = file \/ (file' = s /\ s \notin gone)
         /\ IF pc'[s] = "wait" THEN (s \in gone \/ file' = s) /\ srv'[s] = srv[s]
            ELSE srv'[s] = "down"
         /\ UNCHANGED <<env, gone, addr, res, todo, bad, late, raced, served>>
<1>0. file' = file \/ (file' = s /\ s \notin gone)
  BY DEF WriteLockFile
<1>1. CASE /\ Goto(s, "wait") /\ file' = (IF s \in gone THEN file ELSE s)
           /\ UNCHANGED srv
  <2>1. pc' \in [Proc -> Place] /\ pc'[s] = "wait" /\ Moves(s, {"wait", "failed"})
    BY <1>1, GotoType, Kinds DEF Place
  <2> QED
    BY <1>0, <1>1, <2>1 DEF WriteLockFile, TypeOK, Only, cleanVars
<1>2. CASE Abort(s)
  BY <1>0, <1>2, AbortEffect DEF WriteLockFile, TypeOK, Moves, cleanVars
<1> QED
  BY <1>1, <1>2 DEF WriteLockFile

\* The start returns.
LEMMA DoneEffect ==
  ASSUME TypeOK, NEW s \in Start, Done(s)
  PROVE  /\ TypeOK'
         /\ pc[s] = "wait" /\ srv[s] = "down" /\ Moves(s, {"ok"})
         /\ UNCHANGED <<env, file, gone, srv, addr, res, todo, bad, late, raced,
                        served>>
<1>1. pc' \in [Proc -> Place] /\ Moves(s, {"ok"})
  BY GotoType, Kinds DEF Done, Place
<1> QED
  BY <1>1 DEF Done, TypeOK, fileVars, cleanVars

\* The start is killed.
LEMMA KillEffect ==
  ASSUME TypeOK, NEW s \in Start, Kill(s)
  PROVE  /\ TypeOK'
         /\ pc[s] \in {"open", "write", "wait"} /\ Moves(s, {"failed"})
         /\ srv'[s] = "down" /\ Only(s)
         /\ UNCHANGED <<env, file, gone, addr, res, todo, bad, late, raced, served>>
BY AbortEffect DEF Kill, TypeOK, fileVars, cleanVars

\* The server ends.
LEMMA HaltEffect ==
  ASSUME TypeOK, NEW a \in Server, Halt(a)
  PROVE  /\ TypeOK'
         /\ srv[a] = "stopping" /\ srv'[a] = "down" /\ Only(a)
         /\ UNCHANGED <<env, file, gone, pc, addr, res, todo, bad, late, raced,
                        served>>
BY DownType DEF Halt, TypeOK, fileVars, cleanVars

\* Address and Connect.
LEMMA AddressEffect ==
  ASSUME TypeOK, NEW x \in Stop \cup Test, AddressEnv(x)
  PROVE  /\ TypeOK'
         /\ pc[x] = "begin"
         /\ Moves(x, {"read", "interrupt", "check", "alone", "failed"})
         /\ \A y \in (Stop \cup Test) \ {x} : addr'[y] = addr[y]
         /\ IF env[x] \in TestCmd
            THEN addr'[x] = env[x] /\ pc'[x] \in {"interrupt", "check"}
            ELSE addr'[x] = addr[x] /\ pc'[x] \in {"read", "alone", "failed"}
         /\ env[x] = "unset" => pc'[x] = "read"
         /\ env[x] \in TestCmd => pc[env[x]] = "test"
         /\ \/ served' = served
            \/ /\ served' = served \cup {x} /\ x \in Test
               /\ env[x] = "unset" /\ file \in Start
         /\ UNCHANGED <<env, file, gone, srv, res, todo, bad, late, raced>>
<1> USE Kinds, EnvType
<1>1. x \in Proc
  OBVIOUS
<1>2. /\ \/ served' = served
         \/ /\ served' = served \cup {x} /\ x \in Test
            /\ env[x] = "unset" /\ file \in Start
      /\ served' \subseteq Test
  BY DEF AddressEnv, TypeOK
<1>3. CASE env[x] \in TestCmd
  <2>1. Got(x, env[x]) /\ env[x] # "" /\ env[x] \in Server
    BY <1>3 DEF AddressEnv
  <2>2. /\ addr' \in [Stop \cup Test -> Server \cup {""}] /\ addr'[x] = env[x]
        /\ \A y \in (Stop \cup Test) \ {x} : addr'[y] = addr[y]
    BY <2>1 DEF Got, TypeOK
  <2>3. Goto(x, "interrupt") \/ Goto(x, "check")
    BY <2>1 DEF Got
  <2>4. /\ pc' \in [Proc -> Place] /\ pc'[x] \in {"interrupt", "check"}
        /\ Moves(x, {"read", "interrupt", "check", "alone", "failed"})
    BY <1>1, <2>3, GotoType, ZenonT(60) DEF Place
  <2> QED
    BY <1>2, <1>3, <2>2, <2>4 DEF AddressEnv, TypeOK, fileVars, cleanVars
<1>4. CASE env[x] \notin TestCmd
  <2>1. /\ UNCHANGED addr
        /\ Goto(x, "read") \/ (env[x] # "unset" /\ (Goto(x, "alone") \/ Goto(x, "failed")))
    BY <1>4 DEF AddressEnv
  <2>2. /\ pc' \in [Proc -> Place] /\ pc'[x] \in {"read", "alone", "failed"}
        /\ env[x] = "unset" => pc'[x] = "read"
        /\ Moves(x, {"read", "interrupt", "check", "alone", "failed"})
    BY <1>1, <2>1, GotoType, ZenonT(60) DEF Place
  <2> QED
    BY <1>2, <1>4, <2>1, <2>2 DEF AddressEnv, TypeOK, fileVars, cleanVars
<1> QED
  BY <1>3, <1>4

\* Address reads the lock file.
LEMMA ReadEffect ==
  ASSUME TypeOK, NEW x \in Stop \cup Test, ReadLockFile(x)
  PROVE  /\ TypeOK'
         /\ pc[x] = "read"
         /\ Moves(x, {"read", "interrupt", "check", "alone", "failed"})
         /\ \A y \in (Stop \cup Test) \ {x} : addr'[y] = addr[y]
         /\ addr'[x] = addr[x] \/ addr'[x] = "" \/ (addr'[x] = file /\ file \in Start)
         /\ pc'[x] = "read" => addr'[x] = addr[x]
         /\ pc'[x] = "alone" => addr'[x] = "" /\ file \notin Start
         /\ pc'[x] = "check" => addr'[x] \in Server
         /\ UNCHANGED <<env, file, gone, srv, res, todo, bad, late, raced, served>>
<1> USE Kinds
<1>1. x \in Proc
  OBVIOUS
<1>2. CASE UNCHANGED <<pc, addr>> /\ tries' = [tries EXCEPT ![x] = @ + 1]
           /\ tries[x] + 1 < Reads
  <2>1. tries' \in [Stop \cup Test -> 0..Reads - 1]
    <3>1. tries \in [Stop \cup Test -> 0..Reads - 1] /\ tries[x] \in 0..Reads - 1
      BY DEF TypeOK
    <3>2. tries[x] + 1 < Reads
      BY <1>2
    <3>3. tries[x] + 1 \in 0..Reads - 1
      BY ONLY <3>1, <3>2, ReadsAssumption
    <3> QED
      BY <1>2, <3>1, <3>3
  <2> QED
    BY <1>2, <2>1 DEF ReadLockFile, TypeOK, Moves, fileVars, cleanVars
<1>5. ASSUME tries' = [tries EXCEPT ![x] = 0]
      PROVE  tries' \in [Stop \cup Test -> 0..Reads - 1]
  <2>1. tries \in [Stop \cup Test -> 0..Reads - 1]
    BY DEF TypeOK
  <2>2. 0 \in 0..Reads - 1
    BY ONLY ReadsAssumption
  <2> QED
    BY <1>5, <2>1, <2>2
<1>3. CASE /\ Got(x, IF file \in {"none", "empty"} THEN "" ELSE file)
           /\ tries' = [tries EXCEPT ![x] = 0]
  <2> DEFINE a == IF file \in {"none", "empty"} THEN "" ELSE file
  <2>1. /\ a \in Server \cup {""} /\ (a = "" => file \notin Start)
        /\ a = "" \/ (a = file /\ file \in Start)
    BY DEF TypeOK
  <2>2. Got(x, a)
    BY <1>3
  <2> HIDE DEF a
  <2>3. /\ addr' \in [Stop \cup Test -> Server \cup {""}] /\ addr'[x] = a
        /\ \A y \in (Stop \cup Test) \ {x} : addr'[y] = addr[y]
    BY <2>1, <2>2 DEF Got, TypeOK
  <2>4. PICK w \in {"interrupt", "check", "alone"} :
          Goto(x, w) /\ (w = "alone" => a = "") /\ (w = "check" => a # "")
    BY <2>2 DEF Got
  <2>5. /\ pc' \in [Proc -> Place] /\ pc'[x] # "read" /\ (pc'[x] = "alone" => a = "")
        /\ pc'[x] = "check" => a \in Server
        /\ Moves(x, {"read", "interrupt", "check", "alone", "failed"})
    <3>1. /\ w \in {"read", "interrupt", "check", "alone", "failed"}
          /\ {"read", "interrupt", "check", "alone", "failed"} \in SUBSET Place
      BY DEF Place
    <3>2. pc' \in [Proc -> Place] /\ pc'[x] = w
          /\ Moves(x, {"read", "interrupt", "check", "alone", "failed"})
      BY <1>1, <2>4, <3>1, GotoType
    <3> QED
      BY <2>1, <2>4, <3>2
  <2> QED
    BY <1>3, <1>5, <2>1, <2>3, <2>5 DEF ReadLockFile, TypeOK, fileVars, cleanVars
<1>4. CASE Goto(x, "failed") /\ UNCHANGED addr /\ tries' = [tries EXCEPT ![x] = 0]
  <2>1. /\ pc' \in [Proc -> Place] /\ pc'[x] = "failed"
        /\ Moves(x, {"read", "interrupt", "check", "alone", "failed"})
    BY <1>1, <1>4, GotoType DEF Place
  <2> QED
    BY <1>4, <1>5, <2>1 DEF ReadLockFile, TypeOK, fileVars, cleanVars
<1> QED
  BY <1>2, <1>3, <1>4 DEF ReadLockFile

\* Connect.
LEMMA CheckEffect ==
  ASSUME TypeOK, NEW t \in Test, Check(t)
  PROVE  /\ TypeOK'
         /\ pc[t] = "check" /\ Moves(t, {"connected", "failed"})
         /\ pc'[t] = "connected" => Answers(addr[t])
         /\ UNCHANGED <<env, file, gone, srv, addr, res, todo, bad, late, raced,
                        served>>
<1>1. /\ pc' \in [Proc -> Place] /\ Moves(t, {"connected", "failed"})
      /\ pc'[t] = "connected" => Answers(addr[t])
  BY GotoType, Kinds DEF Check, Place
<1> QED
  BY <1>1 DEF Check, TypeOK, fileVars, cleanVars

\* A test ends, or is killed.
LEMMA EndEffect ==
  ASSUME TypeOK, NEW t \in Test, EndTest(t) \/ KillTest(t)
  PROVE  /\ TypeOK'
         /\ Testing(t) /\ Moves(t, {"ok", "failed"})
         /\ res' \subseteq res /\ res \subseteq res' \cup {t}
         /\ res' # res => pc'[t] = "ok"
         /\ UNCHANGED <<env, file, gone, srv, addr, todo, bad, late, raced, served>>
<1>1. CASE EndTest(t)
  <2>1. pc' \in [Proc -> Place] /\ pc'[t] = "ok" /\ Moves(t, {"ok", "failed"})
    BY <1>1, GotoType, Kinds DEF EndTest, Place
  <2> QED
    BY <1>1, <2>1 DEF EndTest, TypeOK, fileVars, cleanVars
<1>2. CASE KillTest(t)
  <2>1. pc' \in [Proc -> Place] /\ Moves(t, {"ok", "failed"})
    BY <1>2, GotoType, Kinds DEF KillTest, Place
  <2> QED
    BY <1>2, <2>1 DEF KillTest, TypeOK, fileVars, cleanVars
<1> QED
  BY <1>1, <1>2

\* A test creates resources.
LEMMA CreateEffect ==
  ASSUME TypeOK, NEW t \in Test, Create(t)
  PROVE  /\ TypeOK'
         /\ Testing(t) /\ res' = res \cup {t}
         /\ UNCHANGED <<env, file, gone, srv, pc, addr, todo, bad, late, raced,
                        served>>
BY DEF Create, TypeOK, fileVars

\* CleanupResources, and the stops.
LEMMA ListEffect ==
  ASSUME TypeOK, NEW x \in Cleaner, List(x)
  PROVE  /\ TypeOK'
         /\ pc[x] = "list" /\ Moves(x, {"remove", "failed", "deferred"})
         /\ x \in Stop => pc'[x] # "deferred"
         /\ IF pc'[x] = "remove" THEN todo'[x] \subseteq Labelled(x)
            ELSE todo'[x] = todo[x]
         /\ x \notin bad' => pc'[x] = "remove" /\ todo'[x] = Labelled(x)
         /\ \A y \in Cleaner \ {x} : todo'[y] = todo[y]
         /\ bad' \subseteq bad \cup {x} /\ bad \subseteq bad'
         /\ late' = late \cup {<<x, t>> : t \in {u \in Test : ~ Over(u)}}
         /\ UNCHANGED <<env, file, gone, srv, addr, res, raced, served>>
<1>1. late' \subseteq Cleaner \X Test
  <2>1. late \subseteq Cleaner \X Test
    BY DEF TypeOK
  <2> QED
    BY <2>1 DEF List
<1>0. Labelled(x) \subseteq Test
  BY DEF TypeOK, Labelled
<1>2. ASSUME NEW D \in SUBSET Labelled(x),
             Goto(x, "remove"), todo' = [todo EXCEPT ![x] = D],
             (bad' = bad /\ D = Labelled(x)) \/ bad' = bad \cup {x}
      PROVE  /\ TypeOK'
             /\ Moves(x, {"remove", "failed", "deferred"}) /\ pc'[x] = "remove"
             /\ todo'[x] = D /\ \A y \in Cleaner \ {x} : todo'[y] = todo[y]
  <2>1. /\ pc' \in [Proc -> Place] /\ pc'[x] = "remove"
        /\ Moves(x, {"remove", "failed", "deferred"})
    <3>1. Goto(x, "remove") /\ x \in Proc
      BY <1>2, Kinds
    <3>2. {"remove", "failed", "deferred"} \in SUBSET Place
      BY DEF Place
    <3> QED
      BY ONLY TypeOK, <3>1, <3>2, GotoType
  <2>2. /\ todo' \in [Cleaner -> SUBSET Test] /\ todo'[x] = D
        /\ \A y \in Cleaner \ {x} : todo'[y] = todo[y]
    BY <1>0, <1>2 DEF TypeOK
  <2> QED
    BY <1>1, <1>2, <2>1, <2>2 DEF List, TypeOK, fileVars
<1>3. CASE Fail(x) /\ bad' = bad \cup {x} /\ UNCHANGED todo
  <2>1. /\ pc' \in [Proc -> Place] /\ pc'[x] \in {"failed", "deferred"}
        /\ Moves(x, {"remove", "failed", "deferred"})
        /\ x \in Stop => pc'[x] # "deferred"
    BY <1>3, GotoType, Kinds DEF Fail, Place
  <2> QED
    BY <1>1, <1>3, <2>1 DEF List, TypeOK, fileVars
<1>4. CASE /\ Goto(x, "remove") /\ UNCHANGED bad
           /\ todo' = [todo EXCEPT ![x] = Labelled(x)]
  BY <1>2, <1>4 DEF List, fileVars
<1>5. CASE /\ Goto(x, "remove") /\ bad' = bad \cup {x}
           /\ \E D \in SUBSET Labelled(x) : todo' = [todo EXCEPT ![x] = D]
  <2>1. PICK D \in SUBSET Labelled(x) : todo' = [todo EXCEPT ![x] = D]
    BY <1>5
  <2> QED
    BY <1>2, <1>5, <2>1 DEF List, fileVars
<1> QED
  BY <1>3, <1>4, <1>5 DEF List

\* The resources are removed.
LEMMA RemoveEffect ==
  ASSUME TypeOK, NEW x \in Cleaner, Remove(x)
  PROVE  /\ TypeOK'
         /\ pc[x] = "remove" /\ Moves(x, {"delete", "failed", "deferred"})
         /\ x \in Stop => pc'[x] # "deferred"
         /\ x \in TestCmd => pc'[x] = "deferred"
         /\ res' \subseteq res /\ res \subseteq res' \cup todo[x]
         /\ \/ pc'[x] = "failed" \/ (pc'[x] = "deferred" /\ x \in bad')
            \/ res' = res \ todo[x] /\ x \notin bad
         /\ todo'[x] = {} /\ \A y \in Cleaner \ {x} : todo'[y] = todo[y]
         /\ bad' \subseteq bad \cup {x} /\ bad \subseteq bad'
         /\ UNCHANGED <<env, file, gone, srv, addr, late, raced, served>>
<1>1. /\ todo' \in [Cleaner -> SUBSET Test] /\ todo'[x] = {}
      /\ \A y \in Cleaner \ {x} : todo'[y] = todo[y]
  BY DEF Remove, TypeOK
<1>2. CASE /\ res' = res \ todo[x] /\ x \notin bad
           /\ Goto(x, IF x \in Stop THEN "delete" ELSE "deferred")
           /\ UNCHANGED bad
  <2>1. (Goto(x, "delete") /\ x \in Stop) \/ (Goto(x, "deferred") /\ x \in TestCmd)
    BY <1>2, Kinds
  <2>2. /\ pc' \in [Proc -> Place]
        /\ Moves(x, {"delete", "failed", "deferred"})
        /\ x \in Stop => pc'[x] # "deferred"
        /\ x \in TestCmd => pc'[x] = "deferred"
    BY <2>1, GotoType, Kinds DEF Place
  <2> QED
    BY <1>1, <1>2, <2>2 DEF Remove, TypeOK, fileVars
<1>3. CASE /\ \E D \in SUBSET todo[x] : res' = res \ D
           /\ Fail(x) /\ bad' = bad \cup {x}
  <2>1. (Goto(x, "failed") /\ x \in Stop) \/ (Goto(x, "deferred") /\ x \in TestCmd)
    BY <1>3, Kinds DEF Fail
  <2>2. /\ pc' \in [Proc -> Place] /\ pc'[x] \in {"failed", "deferred"}
        /\ Moves(x, {"delete", "failed", "deferred"})
        /\ x \in Stop => pc'[x] # "deferred"
        /\ x \in TestCmd => pc'[x] = "deferred"
    BY <2>1, GotoType, Kinds DEF Place
  <2> QED
    BY <1>1, <1>3, <2>2 DEF Remove, TypeOK, fileVars
<1> QED
  BY <1>2, <1>3 DEF Remove

\* The server is interrupted.
LEMMA StopServerEffect ==
  ASSUME TypeOK, NEW x \in Stop, StopBeaconServer(x)
  PROVE  /\ TypeOK'
         /\ pc[x] = "interrupt" /\ Moves(x, {"list", "failed"})
         /\ \/ srv' = srv /\ pc'[x] = "failed"
            \/ /\ addr[x] \in Server /\ srv[addr[x]] \in {"up", "stopping"}
               /\ srv'[addr[x]] = "stopping" /\ Only(addr[x])
         /\ UNCHANGED <<env, file, gone, addr, res, todo, bad, late, raced, served>>
<1>1. CASE /\ Answers(addr[x]) /\ srv' = [srv EXCEPT ![addr[x]] = "stopping"]
           /\ Goto(x, "list") \/ Goto(x, "failed")
  <2>1. pc' \in [Proc -> Place] /\ Moves(x, {"list", "failed"})
    BY <1>1, GotoType, Kinds DEF Place
  <2> QED
    BY <1>1, <2>1, DownType
    DEF StopBeaconServer, Answers, TypeOK, fileVars, cleanVars
<1>2. CASE Goto(x, "failed") /\ UNCHANGED srv
  <2>1. /\ pc' \in [Proc -> Place] /\ pc'[x] = "failed"
        /\ Moves(x, {"list", "failed"})
    BY <1>2, GotoType, Kinds DEF Place
  <2> QED
    BY <1>2, <2>1 DEF StopBeaconServer, TypeOK, fileVars, cleanVars
<1> QED
  BY <1>1, <1>2 DEF StopBeaconServer

\* The lock file is removed.
LEMMA DeleteEffect ==
  ASSUME TypeOK, NEW x \in Stop, DeleteLockFile(x)
  PROVE  /\ TypeOK'
         /\ pc[x] = "delete" /\ Moves(x, {"ok", "failed"})
         /\ IF pc'[x] = "ok"
            THEN /\ file' = "none" /\ gone' = gone \cup {s \in Start : pc[s] = "write"}
                 /\ served' = {t \in served : pc[t] # "read"}
            ELSE UNCHANGED <<file, gone, served>>
         /\ UNCHANGED <<env, srv, addr, res, todo, bad, late, raced>>
<1>1. CASE RemoveLockFile /\ Goto(x, "ok")
  <2>1. pc' \in [Proc -> Place] /\ pc'[x] = "ok" /\ Moves(x, {"ok", "failed"})
    BY <1>1, GotoType, Kinds DEF Place
  <2> QED
    BY <1>1, <2>1 DEF DeleteLockFile, RemoveLockFile, TypeOK, cleanVars
<1>2. CASE Goto(x, "failed") /\ UNCHANGED <<file, gone, served>>
  <2>1. pc' \in [Proc -> Place] /\ pc'[x] = "failed" /\ Moves(x, {"ok", "failed"})
    BY <1>2, GotoType, Kinds DEF Place
  <2> QED
    BY <1>2, <2>1 DEF DeleteLockFile, TypeOK, cleanVars
<1> QED
  BY <1>1, <1>2 DEF DeleteLockFile

\* confort test.
LEMMA GoEffect ==
  ASSUME TypeOK, NEW c \in TestCmd, GoCommand(c)
  PROVE  /\ TypeOK'
         /\ pc[c] = "go" /\ Moves(c, {"test", "deferred"})
         /\ pc'[c] = "deferred" => c \in bad'
         /\ bad' \subseteq bad \cup {c} /\ bad \subseteq bad'
         /\ UNCHANGED <<env, file, gone, srv, addr, res, todo, late, raced, served>>
<1>1. /\ pc' \in [Proc -> Place] /\ Moves(c, {"test", "deferred"})
      /\ pc'[c] = "deferred" => c \in bad'
  BY GotoType, Kinds DEF GoCommand, Place
<1>2. bad' \subseteq bad \cup {c} /\ bad \subseteq bad' /\ bad' \subseteq Cleaner
  BY Kinds, ZenonT(60) DEF GoCommand, TypeOK
<1> QED
  BY <1>1, <1>2 DEF GoCommand, TypeOK, fileVars

\* The tests are run.
LEMMA ExecuteEffect ==
  ASSUME TypeOK, NEW c \in TestCmd, ExecuteTest(c)
  PROVE  /\ TypeOK'
         /\ pc[c] = "test" /\ Moves(c, {"list", "deferred"})
         /\ pc'[c] = "list" => \A t \in Children(c) : Over(t)
         /\ \A t \in Children(c) : Over(t) \/ pc[t] = "begin"
         /\ pc'[c] = "deferred" => c \in bad' \/ c \in Reusable
         /\ bad' \subseteq bad \cup {c} /\ bad \subseteq bad'
         /\ UNCHANGED <<env, file, gone, srv, addr, res, todo, late, raced, served>>
<1>1. CASE /\ \A t \in Children(c) : Over(t)
           /\ Goto(c, IF c \in Reusable THEN "deferred" ELSE "list")
           /\ UNCHANGED bad
  <2>1. (Goto(c, "deferred") /\ c \in Reusable) \/ Goto(c, "list")
    BY <1>1
  <2>2. /\ pc' \in [Proc -> Place] /\ Moves(c, {"list", "deferred"})
        /\ pc'[c] = "deferred" => c \in Reusable
    BY <2>1, GotoType, Kinds DEF Place
  <2> QED
    BY <1>1, <2>2 DEF ExecuteTest, TypeOK, fileVars
<1>2. CASE /\ \A t \in Children(c) : pc[t] = "begin"
           /\ Goto(c, "deferred") /\ bad' = bad \cup {c}
  <2>1. /\ pc' \in [Proc -> Place] /\ pc'[c] = "deferred"
        /\ Moves(c, {"list", "deferred"})
    BY <1>2, GotoType, Kinds DEF Place
  <2>2. bad' \subseteq bad \cup {c} /\ bad \subseteq bad' /\ bad' \subseteq Cleaner
    BY <1>2, Kinds, ZenonT(60) DEF TypeOK
  <2> QED
    BY <1>2, <2>1, <2>2 DEF ExecuteTest, TypeOK, fileVars
<1> QED
  BY <1>1, <1>2 DEF ExecuteTest

\* The server is stopped, and the command ends.
LEMMA DeferredEffect ==
  ASSUME TypeOK, NEW c \in TestCmd, Deferred(c)
  PROVE  /\ TypeOK'
         /\ pc[c] = "deferred" /\ Moves(c, {"ok", "failed"})
         /\ pc'[c] = "ok" => c \notin bad
         /\ srv'[c] = "down" /\ Only(c)
         /\ UNCHANGED <<env, file, gone, addr, res, todo, bad, late, raced, served>>
<1>1. PICK w \in {"ok", "failed"} : Goto(c, w) /\ (w = "ok" => c \notin bad)
  BY DEF Deferred
<1>2. /\ pc' \in [Proc -> Place] /\ Moves(c, {"ok", "failed"})
      /\ pc'[c] = "ok" => c \notin bad
  BY <1>1, GotoType, Kinds DEF Place
<1> QED
  BY <1>2, DownType, Kinds DEF Deferred, TypeOK, fileVars, cleanVars

\* What no step undoes.
Stable ==
  /\ env' = env
  /\ raced => raced'
  /\ \A s \in Start : Written(s) => Written(s)'
  /\ \A s \in Start : pc[s] = "failed" => pc'[s] = "failed"
  /\ \A x \in Stop \cup Test :
       pc[x] \notin {"begin", "read"} => addr'[x] = addr[x]
  /\ \A x \in Stop : pc[x] = "ok" => pc'[x] = "ok"
  /\ \A x \in Stop : Interrupting(x) => Interrupting(x)'
  /\ \A t \in Test \cup TestCmd : Over(t) => pc'[t] = pc[t]

\* Who changes the lock file.
FileStep ==
  \/ UNCHANGED <<file, gone>>
  \/ /\ \E s \in Start : pc[s] = "open" /\ pc'[s] = "write"
     /\ file' = "empty" /\ gone' = gone
  \/ \E s \in Start :
       /\ pc[s] = "write" /\ Written(s)' /\ s \notin gone
       /\ file' = s /\ gone' = gone
  \/ \E x \in Stop :
       /\ pc[x] = "delete" /\ pc'[x] = "ok"
       /\ file' = "none" /\ gone' = gone \cup {s \in Start : pc[s] = "write"}

\* Who starts and ends a server.
ServerStep ==
  \A a \in Server :
    /\ Ended(a) => Ended(a)'
    /\ pc'[a] \in {"begin", "listen"} =>
         pc[a] \in {"begin", "listen"} /\ srv'[a] = srv[a]
    /\ srv'[a] = "up" => srv[a] = "up" \/ pc'[a] \in {"open", "go"}
    /\ srv[a] # "none" => srv'[a] # "none"
    /\ Ended(a)' =>
         \/ Ended(a) \/ (a \in TestCmd /\ Over(a)') \/ pc'[a] = "failed"
         \/ \E x \in Stop :
              addr[x] = a /\ pc[x] = "interrupt" /\ pc'[x] \in {"list", "failed"}

\* A start begins: it is alone, or it is in a race.
Begins(s) ==
  /\ pc[s] = "begin" /\ pc'[s] = "listen" /\ file = "none" /\ file' = file
  /\ \A r \in Start \ {s} : pc'[r] = pc[r]
  /\ raced' \/ \A r \in Start \ {s} : ~ Starting(r)

\* How a start gets on.
StartPlaces ==
  \A s \in Start :
    /\ Starting(s)' => Starting(s) \/ Begins(s)
    /\ pc'[s] \in {"listen", "open"} => pc[s] \in {"listen", "open"} \/ Begins(s)
    /\ pc'[s] = "write" => pc[s] = "write" \/ (pc[s] = "open" /\ file' = "empty")
    /\ pc'[s] = "wait" => pc[s] = "wait" \/ s \in gone \/ file' = s

\* How a stop gets on.
StopPlaces ==
  \A x \in Stop :
    /\ pc'[x] \in {"list", "remove", "delete", "ok"} =>
         \/ pc[x] \in {"list", "remove", "delete", "ok"}
         \/ pc[x] = "interrupt" /\ addr[x] \in Server /\ Ended(addr[x])'
    /\ Stopping(x) \/ pc[x] = "failed" =>
         \/ Stopping(x)' \/ pc'[x] = "failed" \/ (pc'[x] = "ok" /\ file' = "none")

\* Where the addresses come from.
AddrStep ==
  \A x \in Stop \cup Test :
    /\ pc'[x] = "begin" => pc[x] = "begin"
    /\ pc'[x] = "read" => pc[x] \in {"begin", "read"} /\ addr'[x] = addr[x]
    /\ pc'[x] = "alone" =>
         \/ pc[x] = "read" /\ addr'[x] = "" /\ file \notin Start
         \/ pc[x] = "alone"
         \/ pc[x] = "begin" /\ env[x] = "disabled"
    /\ pc[x] = "begin" =>
         IF env[x] \in TestCmd /\ pc'[x] # "begin"
         THEN addr'[x] = env[x] /\ pc'[x] \in {"interrupt", "check"}
         ELSE addr'[x] = addr[x]
    /\ pc[x] = "read" =>
         addr'[x] \in {addr[x], ""} \/ (addr'[x] = file /\ file \in Start)
    /\ pc'[x] = "check" => pc[x] = "check" \/ addr'[x] \in Server
    /\ pc'[x] = "connected" =>
         pc[x] = "connected" \/ (pc[x] = "check" /\ Answers(addr[x]))
    /\ pc[x] = "begin" /\ pc'[x] # "begin" /\ env[x] \in TestCmd =>
         pc[env[x]] = "test"

\* The tests that find a lock file with an address, until it is removed.
ServedStep ==
  \/ served' = served /\ (file' = "none" => file = "none")
  \/ \E x \in Test : served' = served \cup {x} /\ env[x] = "unset" /\ file \in Start
                     /\ file' = file /\ pc'[x] = "read"
  \/ served' = {t \in served : pc[t] # "read"}

\* A `confort test` begins and ends when its tests do not run.
ChildStep ==
  \A c \in TestCmd : pc'[c] # "test" =>
    \/ /\ pc[c] # "test"
       /\ pc'[c] \in {"listen", "go"} => pc[c] \in {"listen", "go"}
    \/ /\ pc'[c] \notin {"listen", "go"}
       /\ \A t \in Children(c) :
            pc'[t] = pc[t] /\ (Over(t) \/ pc[t] = "begin")

\* A command looks for the resources with its label.
Looks(x) ==
  /\ pc[x] = "list" /\ pc'[x] = "remove"
  /\ todo'[x] \subseteq Labelled(x) /\ res' = res
  /\ x \in bad' \/ todo'[x] = Labelled(x)
  /\ \A t \in Test : pc'[t] = pc[t]
  /\ \A t \in Test : Over(t) \/ <<x, t>> \in late'

\* How resources come and go.
CleanStep ==
  /\ late \subseteq late'
  /\ \A t \in res' : t \in res \/ Testing(t)
  /\ \A t \in res \ res' :
       pc'[t] = "ok" \/ \E x \in Cleaner : pc[x] = "remove" /\ t \in todo[x]
  /\ \A t \in Test : Begun(t) => Begun(t)'
  /\ \A c \in TestCmd : pc'[c] \in {"list", "remove"} =>
       pc[c] \in {"list", "remove"} \/ \A t \in Children(c) : Over(t)

CleanerPlaces ==
  \A x \in Cleaner :
    /\ \/ todo'[x] = {} \/ Looks(x)
       \/ todo'[x] = todo[x] /\ (pc[x] = "remove" => pc'[x] = "remove")
    /\ Listed(x)' =>
         \/ x \in Reusable \/ Looks(x)
         \/ /\ Listed(x)
            /\ \/ pc[x] # "remove" \/ res' = res \ todo[x]
               \/ pc'[x] = "remove" /\ todo'[x] = todo[x]

-----------------------------------------------------------------------------
(* What every step does, whoever makes it. *)

\* Types are kept, what is done stays done, and the lock file and the servers
\* change only by who may change them.
LEMMA StableStep ==
  ASSUME IInv, Next
  PROVE  TypeOK' /\ Stable /\ FileStep /\ ServerStep
<1>1. ASSUME NEW s \in Start,
            StatLockFile(s) \/ StartBeaconServer(s) \/ OpenLockFile(s) \/
            WriteLockFile(s) \/ Done(s) \/ Kill(s)
      PROVE  TypeOK' /\ Stable /\ FileStep /\ ServerStep
  BY <1>1, StatEffect, StartServerEffect, OpenEffect, WriteEffect, DoneEffect,
     KillEffect, Kinds, ZenonT(60)
     DEF IInv, Moves, Only, Stable, FileStep, ServerStep, Written, Over, Testing,
         Ended, Interrupting, ServerInv
<1>2. ASSUME NEW x \in Stop \cup Test, AddressEnv(x) \/ ReadLockFile(x)
      PROVE  TypeOK' /\ Stable /\ FileStep /\ ServerStep
  BY <1>2, AddressEffect, ReadEffect, Kinds
  DEF IInv, Moves, Stable, FileStep, ServerStep, Written, Over, Testing, Ended,
      Interrupting, ServerInv
<1>3. ASSUME NEW t \in Test, Check(t) \/ Create(t) \/ EndTest(t) \/ KillTest(t)
      PROVE  TypeOK' /\ Stable /\ FileStep /\ ServerStep
  BY <1>3, CheckEffect, CreateEffect, EndEffect, Kinds
  DEF IInv, Moves, Stable, FileStep, ServerStep, Written, Over, Testing, Ended,
      Interrupting, ServerInv
<1>4. ASSUME NEW x \in Cleaner, List(x) \/ Remove(x)
      PROVE  TypeOK' /\ Stable /\ FileStep /\ ServerStep
  BY <1>4, ListEffect, RemoveEffect, Kinds
  DEF IInv, Moves, Stable, FileStep, ServerStep, Written, Over, Testing, Ended,
      Interrupting, ServerInv
<1>5. ASSUME NEW x \in Stop, StopBeaconServer(x) \/ DeleteLockFile(x)
      PROVE  TypeOK' /\ Stable /\ FileStep /\ ServerStep
  BY <1>5, StopServerEffect, DeleteEffect, Kinds
  DEF IInv, Moves, Only, Stable, FileStep, ServerStep, Written, Over, Testing,
         Ended, Interrupting, ServerInv
<1>6. ASSUME NEW c \in TestCmd,
            StartBeaconServer(c) \/ GoCommand(c) \/ ExecuteTest(c) \/
            Deferred(c)
      PROVE  TypeOK' /\ Stable /\ FileStep /\ ServerStep
  BY <1>6, StartServerEffect, GoEffect, ExecuteEffect, DeferredEffect, Kinds, ZenonT(60)
     DEF IInv, Moves, Only, Stable, FileStep, ServerStep, Written, Over, Testing,
         Ended, Interrupting, ServerInv
<1>7. ASSUME NEW a \in Server, Halt(a)
      PROVE  TypeOK' /\ Stable /\ FileStep /\ ServerStep
  BY <1>7, HaltEffect, Kinds
  DEF IInv, Moves, Only, Stable, FileStep, ServerStep, Written, Over, Testing,
         Ended, Interrupting, ServerInv
<1> QED
  BY <1>1, <1>2, <1>3, <1>4, <1>5, <1>6, <1>7
  DEF Next, StartStep, StopStep, TestCmdStep, TestStep, Cleaner

\* How starts and stops get on, and which tests are served.
LEMMA PlaceStep ==
  ASSUME IInv, Next
  PROVE  StartPlaces /\ StopPlaces /\ ServedStep
<1>1. ASSUME NEW s \in Start,
            StatLockFile(s) \/ StartBeaconServer(s) \/ OpenLockFile(s) \/
            WriteLockFile(s) \/ Done(s) \/ Kill(s)
      PROVE  StartPlaces /\ StopPlaces /\ ServedStep
  BY <1>1, StatEffect, StartServerEffect, OpenEffect, WriteEffect, DoneEffect,
     KillEffect, Kinds, ZenonT(60)
     DEF IInv, Moves, Only, StartPlaces, Begins, Starting, StopPlaces, ServedStep,
         Stopping, Ended
<1>2. ASSUME NEW x \in Stop \cup Test, AddressEnv(x) \/ ReadLockFile(x)
      PROVE  StartPlaces /\ StopPlaces /\ ServedStep
  BY <1>2, AddressEffect, ReadEffect, Kinds
  DEF IInv, Moves, StartPlaces, Begins, Starting, StopPlaces, ServedStep,
         Stopping, Ended
<1>3. ASSUME NEW t \in Test, Check(t) \/ Create(t) \/ EndTest(t) \/ KillTest(t)
      PROVE  StartPlaces /\ StopPlaces /\ ServedStep
  BY <1>3, CheckEffect, CreateEffect, EndEffect, Kinds, ZenonT(60)
     DEF IInv, Moves, StartPlaces, Begins, Starting, StopPlaces, ServedStep,
         Stopping, Ended
<1>4. ASSUME NEW x \in Cleaner, List(x) \/ Remove(x)
      PROVE  StartPlaces /\ StopPlaces /\ ServedStep
  BY <1>4, ListEffect, RemoveEffect, Kinds, ZenonT(60)
     DEF IInv, Moves, StartPlaces, Begins, Starting, StopPlaces, ServedStep,
         Stopping, Ended
<1>5. ASSUME NEW x \in Stop, StopBeaconServer(x) \/ DeleteLockFile(x)
      PROVE  StartPlaces /\ StopPlaces /\ ServedStep
  BY <1>5, StopServerEffect, DeleteEffect, Kinds
  DEF IInv, Moves, Only, StartPlaces, Begins, Starting, StopPlaces, ServedStep,
         Stopping, Ended
<1>6. ASSUME NEW c \in TestCmd,
            StartBeaconServer(c) \/ GoCommand(c) \/ ExecuteTest(c) \/
            Deferred(c)
      PROVE  StartPlaces /\ StopPlaces /\ ServedStep
  <2>1. /\ \A y \in Start \cup Stop : pc'[y] = pc[y]
        /\ file' = file /\ served' = served
    BY <1>6, StartServerEffect, GoEffect, ExecuteEffect, DeferredEffect, Kinds
    DEF IInv, Moves
  <2> QED
    BY <2>1 DEF StartPlaces, Starting, StopPlaces, Stopping, ServedStep
<1>7. ASSUME NEW a \in Server, Halt(a)
      PROVE  StartPlaces /\ StopPlaces /\ ServedStep
  BY <1>7, HaltEffect, Kinds
  DEF IInv, Moves, Only, StartPlaces, Begins, Starting, StopPlaces, ServedStep,
         Stopping, Ended
<1> QED
  BY <1>1, <1>2, <1>3, <1>4, <1>5, <1>6, <1>7
  DEF Next, StartStep, StopStep, TestCmdStep, TestStep, Cleaner

\* Where addresses come from.
LEMMA AddrChanges == ASSUME IInv, Next PROVE AddrStep
<1>1. ASSUME NEW s \in Start,
            StatLockFile(s) \/ StartBeaconServer(s) \/ OpenLockFile(s) \/
            WriteLockFile(s) \/ Done(s) \/ Kill(s)
      PROVE  AddrStep
  <2>1. addr' = addr /\ \A y \in Stop \cup Test : pc'[y] = pc[y]
    BY <1>1, StatEffect, StartServerEffect, OpenEffect, WriteEffect,
       DoneEffect, KillEffect, Kinds, ZenonT(60) DEF IInv, Moves
  <2> QED
    BY <2>1 DEF AddrStep
<1>2. ASSUME NEW x \in Stop \cup Test, AddressEnv(x) \/ ReadLockFile(x)
      PROVE  AddrStep
  BY <1>2, AddressEffect, ReadEffect, Kinds, EnvType, ZenonT(60)
     DEF IInv, Moves, AddrStep, Testing, Answers
<1>3. ASSUME NEW t \in Test, Check(t) \/ Create(t) \/ EndTest(t) \/ KillTest(t)
      PROVE  AddrStep
  BY <1>3, CheckEffect, CreateEffect, EndEffect, Kinds, EnvType
  DEF IInv, Moves, AddrStep, Testing, Answers
<1>4. ASSUME NEW x \in Cleaner, List(x) \/ Remove(x)
      PROVE  AddrStep
  BY <1>4, ListEffect, RemoveEffect, Kinds, EnvType, ZenonT(60)
     DEF IInv, Moves, AddrStep, Testing, Answers
<1>5. ASSUME NEW x \in Stop, StopBeaconServer(x) \/ DeleteLockFile(x)
      PROVE  AddrStep
  BY <1>5, StopServerEffect, DeleteEffect, Kinds, EnvType, ZenonT(60)
     DEF IInv, Moves, Only, AddrStep, Testing, Answers
<1>6. ASSUME NEW c \in TestCmd,
            StartBeaconServer(c) \/ GoCommand(c) \/ ExecuteTest(c) \/
            Deferred(c)
      PROVE  AddrStep
  BY <1>6, StartServerEffect, GoEffect, ExecuteEffect, DeferredEffect, Kinds,
     EnvType, ZenonT(60) DEF IInv, Moves, Only, AddrStep, Testing, Answers
<1>7. ASSUME NEW a \in Server, Halt(a)
      PROVE  AddrStep
  BY <1>7, HaltEffect, Kinds, EnvType DEF IInv, Moves, Only, AddrStep, Testing, Answers
<1> QED
  BY <1>1, <1>2, <1>3, <1>4, <1>5, <1>6, <1>7
  DEF Next, StartStep, StopStep, TestCmdStep, TestStep, Cleaner

\* How resources come and go.
LEMMA ResourceChanges == ASSUME IInv, Next PROVE CleanStep
<1>1. ASSUME NEW s \in Start,
            StatLockFile(s) \/ StartBeaconServer(s) \/ OpenLockFile(s) \/
            WriteLockFile(s) \/ Done(s) \/ Kill(s)
      PROVE  CleanStep
  BY <1>1, StatEffect, StartServerEffect, OpenEffect, WriteEffect, DoneEffect,
     KillEffect, Kinds, ZenonT(60)
     DEF IInv, Moves, Only, CleanStep, Testing, Begun, Over
<1>2. ASSUME NEW x \in Stop \cup Test, AddressEnv(x) \/ ReadLockFile(x)
      PROVE  CleanStep
  BY <1>2, AddressEffect, ReadEffect, Kinds
  DEF IInv, Moves, CleanStep, Testing, Begun, Over
<1>3. ASSUME NEW t \in Test, Check(t) \/ Create(t) \/ EndTest(t) \/ KillTest(t)
      PROVE  CleanStep
  BY <1>3, CheckEffect, CreateEffect, EndEffect, Kinds, ZenonT(60)
     DEF IInv, Moves, CleanStep, Testing, Begun, Over
<1>4. ASSUME NEW x \in Cleaner, List(x) \/ Remove(x)
      PROVE  CleanStep
  BY <1>4, ListEffect, RemoveEffect, Kinds, ZenonT(60)
     DEF IInv, Moves, CleanStep, Testing, Begun, Over
<1>5. ASSUME NEW x \in Stop, StopBeaconServer(x) \/ DeleteLockFile(x)
      PROVE  CleanStep
  BY <1>5, StopServerEffect, DeleteEffect, Kinds, ZenonT(60)
     DEF IInv, Moves, Only, CleanStep, Testing, Begun, Over
<1>6. ASSUME NEW c \in TestCmd,
            StartBeaconServer(c) \/ GoCommand(c) \/ ExecuteTest(c) \/
            Deferred(c)
      PROVE  CleanStep
  BY <1>6, StartServerEffect, GoEffect, ExecuteEffect, DeferredEffect, Kinds
  DEF IInv, Moves, Only, CleanStep, Testing, Begun, Over
<1>7. ASSUME NEW a \in Server, Halt(a)
      PROVE  CleanStep
  BY <1>7, HaltEffect, Kinds
  DEF IInv, Moves, Only, CleanStep, Testing, Begun, Over
<1> QED
  BY <1>1, <1>2, <1>3, <1>4, <1>5, <1>6, <1>7
  DEF Next, StartStep, StopStep, TestCmdStep, TestStep, Cleaner

\* How the commands that clean up get on.
LEMMA CleanerMoves == ASSUME IInv, Next PROVE CleanerPlaces
<1>1. ASSUME NEW s \in Start,
            StatLockFile(s) \/ StartBeaconServer(s) \/ OpenLockFile(s) \/
            WriteLockFile(s) \/ Done(s) \/ Kill(s)
      PROVE  CleanerPlaces
  BY <1>1, StatEffect, StartServerEffect, OpenEffect, WriteEffect, DoneEffect,
     KillEffect, Kinds, ZenonT(60) DEF IInv, Moves, Only, CleanerPlaces, Looks, Listed
<1>2. ASSUME NEW x \in Stop \cup Test, AddressEnv(x) \/ ReadLockFile(x)
      PROVE  CleanerPlaces
  BY <1>2, AddressEffect, ReadEffect, Kinds
  DEF IInv, Moves, CleanerPlaces, Looks, Listed
<1>3. ASSUME NEW t \in Test, Check(t) \/ Create(t) \/ EndTest(t) \/ KillTest(t)
      PROVE  CleanerPlaces
  BY <1>3, CheckEffect, CreateEffect, EndEffect, Kinds, ZenonT(60)
     DEF IInv, Moves, CleanerPlaces, Looks, Listed
<1>4. ASSUME NEW x \in Cleaner, List(x) \/ Remove(x)
      PROVE  CleanerPlaces
  <2>1. CASE List(x)
    <3>1. pc'[x] = "remove" => Looks(x)
      <4>1. \A t \in Test : Over(t) \/ <<x, t>> \in late'
        BY <2>1, ListEffect DEF IInv
      <4> QED
        BY <2>1, <4>1, ListEffect, Kinds DEF IInv, Moves, Looks
    <3>2. ASSUME NEW y \in Cleaner \ {x}
          PROVE  /\ todo'[y] = todo[y] /\ pc'[y] = pc[y]
                 /\ res' = res /\ (y \in bad' <=> y \in bad)
      BY <2>1, ListEffect, Kinds DEF IInv, Moves
    <3>3. /\ pc[x] = "list" /\ pc'[x] \in {"remove", "failed", "deferred"}
          /\ pc'[x] # "remove" => todo'[x] = todo[x]
          /\ pc'[x] # "remove" => x \in bad'
      BY <2>1, ListEffect DEF IInv, Moves
    <3> QED
      BY <3>1, <3>2, <3>3 DEF CleanerPlaces, Listed
  <2>2. CASE Remove(x)
    BY <2>2, RemoveEffect, Kinds DEF IInv, Moves, CleanerPlaces, Looks, Listed
  <2> QED
    BY <1>4, <2>1, <2>2
<1>5. ASSUME NEW x \in Stop, StopBeaconServer(x) \/ DeleteLockFile(x)
      PROVE  CleanerPlaces
  BY <1>5, StopServerEffect, DeleteEffect, Kinds
  DEF IInv, Moves, Only, CleanerPlaces, Looks, Listed
<1>6. ASSUME NEW c \in TestCmd,
            StartBeaconServer(c) \/ GoCommand(c) \/ ExecuteTest(c) \/
            Deferred(c)
      PROVE  CleanerPlaces
  BY <1>6, StartServerEffect, GoEffect, ExecuteEffect, DeferredEffect, Kinds, ZenonT(60)
     DEF IInv, Moves, Only, CleanerPlaces, Looks, Listed
<1>7. ASSUME NEW a \in Server, Halt(a)
      PROVE  CleanerPlaces
  BY <1>7, HaltEffect, Kinds
  DEF IInv, Moves, Only, CleanerPlaces, Looks, Listed
<1> QED
  BY <1>1, <1>2, <1>3, <1>4, <1>5, <1>6, <1>7
  DEF Next, StartStep, StopStep, TestCmdStep, TestStep, Cleaner

\* When the tests of a `confort test` run.
LEMMA ChildChanges == ASSUME IInv, Next PROVE ChildStep
<1>1. ASSUME NEW c \in TestCmd, ExecuteTest(c)
      PROVE  ChildStep
  BY <1>1, ExecuteEffect, Kinds DEF IInv, Moves, ChildStep, Children
<1>2. CASE \A c \in TestCmd :
             /\ pc[c] = "test" => pc'[c] = "test"
             /\ pc'[c] \in {"listen", "go"} => pc[c] \in {"listen", "go"}
  BY <1>2 DEF ChildStep
<1>3. ASSUME NEW s \in Start,
            StatLockFile(s) \/ StartBeaconServer(s) \/ OpenLockFile(s) \/
            WriteLockFile(s) \/ Done(s) \/ Kill(s)
      PROVE  \A c \in TestCmd : pc'[c] = pc[c]
  BY <1>3, StatEffect, StartServerEffect, OpenEffect, WriteEffect, DoneEffect,
     KillEffect, Kinds, ZenonT(60) DEF IInv, Moves
<1>4. ASSUME NEW x \in Stop \cup Test, AddressEnv(x) \/ ReadLockFile(x)
      PROVE  \A c \in TestCmd : pc'[c] = pc[c]
  BY <1>4, AddressEffect, ReadEffect, Kinds DEF IInv, Moves
<1>5. ASSUME NEW t \in Test, Check(t) \/ Create(t) \/ EndTest(t) \/ KillTest(t)
      PROVE  \A c \in TestCmd : pc'[c] = pc[c]
  BY <1>5, CheckEffect, CreateEffect, EndEffect, Kinds DEF IInv, Moves
<1>6. ASSUME NEW x \in Stop, StopBeaconServer(x) \/ DeleteLockFile(x)
      PROVE  \A c \in TestCmd : pc'[c] = pc[c]
  BY <1>6, StopServerEffect, DeleteEffect, Kinds DEF IInv, Moves
<1>7. ASSUME NEW x \in Cleaner, List(x) \/ Remove(x)
      PROVE  \A c \in TestCmd :
               /\ pc[c] = "test" => pc'[c] = "test"
               /\ pc'[c] \in {"listen", "go"} => pc[c] \in {"listen", "go"}
  BY <1>7, ListEffect, RemoveEffect, Kinds DEF IInv, Moves
<1>8. ASSUME NEW d \in TestCmd,
             StartBeaconServer(d) \/ GoCommand(d) \/ Deferred(d)
      PROVE  \A c \in TestCmd :
               /\ pc[c] = "test" => pc'[c] = "test"
               /\ pc'[c] \in {"listen", "go"} => pc[c] \in {"listen", "go"}
  BY <1>8, StartServerEffect, GoEffect, DeferredEffect, Kinds DEF IInv, Moves
<1>9. ASSUME NEW a \in Server, Halt(a)
      PROVE  \A c \in TestCmd : pc'[c] = pc[c]
  BY <1>9, HaltEffect DEF IInv
<1> QED
  BY <1>1, <1>2, <1>3, <1>4, <1>5, <1>6, <1>7, <1>8, <1>9
  DEF Next, StartStep, StopStep, TestCmdStep, TestStep, Cleaner

-----------------------------------------------------------------------------
(* The parts of the invariant, from what every step does. *)

\* Servers start and end with their commands.
LEMMA ServerKept ==
  ASSUME IInv, Stable, ServerStep
  PROVE  ServerInv'
<1>1. \A a \in Server : pc'[a] \in {"begin", "listen"} => srv'[a] = "none"
  BY DEF IInv, ServerInv, ServerStep
<1>2. ASSUME NEW s \in Start, Ended(s)' PROVE Written(s)'
  <2>1. Ended(s) => Written(s)'
    BY DEF IInv, ServerInv, Stable
  <2>2. (\E x \in Stop : addr[x] = s) => Written(s)'
    BY DEF IInv, WrittenInv, Stable
  <2>3. pc'[s] = "failed" => Written(s)'
    BY DEF Written
  <2> QED
    BY <1>2, <2>1, <2>2, <2>3, Kinds DEF ServerStep
<1> QED
  BY <1>1, <1>2 DEF ServerInv

\* Addresses are in the environment or were in the lock file.
LEMMA AddrKept ==
  ASSUME IInv, Stable, AddrStep
  PROVE  AddrInv'
<1> SUFFICES ASSUME NEW x \in Stop \cup Test
             PROVE  /\ env'[x] \in TestCmd =>
                         IF pc'[x] = "begin" THEN addr'[x] = ""
                         ELSE addr'[x] = env'[x] /\ pc'[x] \notin {"read", "alone"}
                    /\ env'[x] \notin TestCmd => addr'[x] \in Start \cup {""}
                    /\ pc'[x] \in {"begin", "read", "alone"} => addr'[x] = ""
                    /\ pc'[x] \in {"check", "connected"} => addr'[x] \in Server
  BY DEF AddrInv
<1>1. env' = env
  BY DEF Stable
<1>2. CASE pc[x] = "begin"
  BY <1>1, <1>2, EnvType, Kinds DEF IInv, AddrInv, AddrStep
<1>3. CASE pc[x] = "read"
  <2>1. env[x] \notin TestCmd /\ addr[x] = ""
    BY <1>3 DEF IInv, AddrInv
  <2>2. addr'[x] = "" \/ addr'[x] \in Start
    <3>1. pc[x] = "read" =>
            addr'[x] \in {addr[x], ""} \/ (addr'[x] = file /\ file \in Start)
      BY DEF AddrStep
    <3> QED
      BY <1>3, <2>1, <3>1
  <2>3. /\ pc'[x] \in {"begin", "read", "alone"} => addr'[x] = ""
        /\ pc'[x] \in {"check", "connected"} => addr'[x] \in Server
    BY <1>3, <2>1 DEF AddrStep
  <2> QED
    BY <1>1, <2>1, <2>2, <2>3
<1>4. CASE pc[x] \notin {"begin", "read"}
  <2>1. addr'[x] = addr[x]
    BY <1>4 DEF Stable
  <2>2. /\ pc'[x] \notin {"begin", "read"} /\ (pc'[x] = "alone" => pc[x] = "alone")
        /\ pc'[x] \in {"check", "connected"} => addr'[x] \in Server
    BY <1>4, <2>1 DEF AddrStep, Answers, IInv, AddrInv
  <2> QED
    BY <1>1, <1>4, <2>1, <2>2 DEF IInv, AddrInv
<1> QED
  BY <1>2, <1>3, <1>4

\* Addresses that are known were written.
LEMMA WrittenKept ==
  ASSUME IInv, Stable, FileStep, AddrStep
  PROVE  WrittenInv'
<1>1. file' \in Start => Written(file)'
  BY Kinds DEF IInv, WrittenInv, Stable, FileStep
<1>2. ASSUME NEW x \in Stop \cup Test, addr'[x] \in Start
      PROVE  Written(addr[x])'
  <2>1. addr'[x] = addr[x] \/ addr'[x] = file
    BY <1>2, Kinds DEF Stable, AddrStep
  <2> QED
    BY <1>2, <2>1 DEF IInv, WrittenInv, Stable
<1> QED
  BY <1>1, <1>2 DEF WrittenInv

\* A stop that got on has ended a server.
LEMMA StopKept ==
  ASSUME IInv, Stable, ServerStep, StopPlaces
  PROVE  StopInv'
BY DEF IInv, StopInv, Stable, ServerStep, StopPlaces

\* What has taken a lock file away stays.
LEMMA DisturbedKept ==
  ASSUME Stable, Disturbed
  PROVE  Disturbed'
<1>1. CASE raced
  BY <1>1 DEF Stable, Disturbed
<1>2. CASE \E x, y \in Stop :
             x # y /\ addr[x] = addr[y] /\ pc[x] = "ok" /\ pc[y] = "ok"
  BY <1>2 DEF Stable, Disturbed
<1>3. CASE \E x \in Stop : env[x] \in TestCmd /\ pc[x] = "ok"
  BY <1>3 DEF Stable, Disturbed
<1> QED
  BY <1>1, <1>2, <1>3 DEF Disturbed

\* A stop that removes a file with another address has come after another stop
\* of the server it has stopped.
LEMMA SecondStop ==
  ASSUME IInv, Stable, NEW x \in Stop, pc[x] = "delete", pc'[x] = "ok",
         file # addr[x]
  PROVE  Disturbed'
<1>1. addr[x] \in Server /\ addr'[x] = addr[x]
  BY DEF IInv, StopInv, Stable
<1>2. CASE env[x] \in TestCmd
  BY <1>2 DEF Stable, Disturbed
<1>3. CASE env[x] \notin TestCmd
  <2>1. addr[x] \in Start
    BY <1>1, <1>3, Kinds DEF IInv, AddrInv
  <2>2. CASE Disturbed
    BY <2>2, DisturbedKept
  <2>3. CASE \E y \in Stop : addr[y] = addr[x] /\ pc[y] = "ok"
    <3>1. PICK y \in Stop : addr[y] = addr[x] /\ pc[y] = "ok"
      BY <2>3
    <3>2. y # x /\ pc'[y] = "ok" /\ addr'[y] = addr[y]
      BY <3>1 DEF Stable
    <3> QED
      BY <1>1, <3>1, <3>2 DEF Disturbed
  <2> QED
    BY <2>1, <2>2, <2>3 DEF IInv, FindInv
<1> QED
  BY <1>2, <1>3

\* Without a race, a lock file that is opened or written was empty or absent.
LEMMA OverwriteRaced ==
  ASSUME IInv, file \in Start, NEW s \in Start, pc[s] \in {"open", "write"}
  PROVE  raced
BY Kinds DEF IInv, StartInv

\* The lock file names the server that runs.
LEMMA FindKept ==
  ASSUME IInv, Stable, FileStep, ServerStep, StartPlaces, AddrStep
  PROVE  FindInv'
<1>1. gone' # {} => Disturbed'
  <2>1. CASE gone' = gone
    BY <2>1, DisturbedKept DEF IInv, FindInv
  <2>2. CASE \E x \in Stop :
               /\ pc[x] = "delete" /\ pc'[x] = "ok"
               /\ file' = "none" /\ gone' = gone \cup {s \in Start : pc[s] = "write"}
    <3>1. PICK x \in Stop :
            /\ pc[x] = "delete" /\ pc'[x] = "ok"
            /\ file' = "none" /\ gone' = gone \cup {s \in Start : pc[s] = "write"}
      BY <2>2
    <3>2. CASE gone # {} \/ raced
      BY <3>2, DisturbedKept DEF IInv, FindInv, Disturbed
    <3>3. CASE gone = {} /\ ~ raced /\ \E s \in Start : pc[s] = "write"
      <4>1. file = "empty"
        BY <3>3 DEF IInv, StartInv
      <4>2. file # addr[x]
        BY <3>1, <4>1, Kinds DEF IInv, StopInv
      <4> QED
        BY <3>1, <4>2, SecondStop
    <3> QED
      BY <3>1, <3>2, <3>3
  <2> QED
    BY <2>1, <2>2 DEF FileStep
<1>2. ASSUME NEW a \in Start, file = a, file' # a,
             \A x \in Stop : pc[x] = "delete" /\ pc'[x] = "ok" => addr[x] # a
      PROVE  Disturbed'
  <2>1. CASE \E s \in Start : pc[s] \in {"open", "write"}
    BY <1>2, <2>1, OverwriteRaced, DisturbedKept DEF Disturbed
  <2>2. CASE \E x \in Stop : pc[x] = "delete" /\ pc'[x] = "ok"
    BY <1>2, <2>2, SecondStop
  <2> QED
    BY <1>2, <2>1, <2>2 DEF FileStep
<1>3. ASSUME NEW s \in Start, pc'[s] = "wait", srv'[s] = "up"
      PROVE  file' = s \/ Disturbed'
  <2>1. srv[s] = "up"
    BY <1>3, Kinds DEF ServerStep
  <2>2. CASE s \in gone
    BY <2>2, DisturbedKept DEF IInv, FindInv
  <2>3. CASE pc[s] = "wait" /\ file = s
    <3>1. \A x \in Stop : pc[x] = "delete" => addr[x] # s
      BY <2>1 DEF IInv, StopInv, Ended
    <3> QED
      BY <1>2, <2>3, <3>1
  <2>4. CASE pc[s] = "wait" /\ file # s
    BY <2>1, <2>4, DisturbedKept DEF IInv, FindInv
  <2> QED
    BY <1>3, <2>2, <2>3, <2>4 DEF StartPlaces
<1>4. ASSUME NEW x \in Stop, addr'[x] \in Start
      PROVE  \/ file' = addr'[x] \/ Disturbed'
             \/ \E y \in Stop : addr'[y] = addr'[x] /\ pc'[y] = "ok"
  <2> DEFINE a == addr'[x]
  <2>1. CASE file = a
    <3>1. CASE \E y \in Stop : addr[y] = a /\ pc[y] = "delete" /\ pc'[y] = "ok"
      BY <3>1 DEF Stable
    <3>2. CASE ~ \E y \in Stop : addr[y] = a /\ pc[y] = "delete" /\ pc'[y] = "ok"
      BY <1>2, <1>4, <2>1, <3>2
    <3> QED
      BY <3>1, <3>2
  <2>2. CASE file # a
    <3>1. addr[x] = a
      BY <1>4, <2>2, Kinds DEF AddrStep, Stable
    <3>2. CASE Disturbed
      BY <3>2, DisturbedKept
    <3>3. CASE \E y \in Stop : addr[y] = a /\ pc[y] = "ok"
      BY <3>3 DEF Stable
    <3> QED
      BY <1>4, <2>2, <3>1, <3>2, <3>3 DEF IInv, FindInv
  <2> QED
    BY <2>1, <2>2
<1> QED
  BY <1>1, <1>3, <1>4 DEF FindInv

\* A lock file of a server that ended has its explanation.
LEMMA StaleKept ==
  ASSUME IInv, Stable, FileStep, ServerStep, StopPlaces
  PROVE  StaleInv'
<1> SUFFICES ASSUME NEW s \in Start, file' = s, Ended(s)', pc'[s] # "failed"
             PROVE  \E x \in Stop :
                      addr'[x] = s /\ (Stopping(x)' \/ pc'[x] = "failed")
  BY DEF StaleInv
<1>1. CASE Ended(s)
  <2>1. file = s
    <3>1. pc[s] # "write"
      BY <1>1 DEF IInv, ServerInv, Written
    <3> QED
      BY <3>1, Kinds DEF FileStep
  <2>2. PICK x \in Stop : addr[x] = s /\ (Stopping(x) \/ pc[x] = "failed")
    BY <1>1, <2>1 DEF IInv, StaleInv, Stable
  <2>3. addr'[x] = s
    BY <2>2 DEF Stable, Stopping
  <2>4. file' # "none"
    BY Kinds
  <2> QED
    BY <2>2, <2>3, <2>4 DEF StopPlaces
<1>2. CASE ~ Ended(s)
  <2>1. PICK x \in Stop :
          addr[x] = s /\ pc[x] = "interrupt" /\ pc'[x] \in {"list", "failed"}
    BY <1>2, Kinds DEF ServerStep
  <2>2. addr'[x] = s
    BY <2>1 DEF Stable
  <2> QED
    BY <2>1, <2>2 DEF Stopping
<1> QED
  BY <1>1, <1>2

\* The lock file has an address until a stop removes it.
LEMMA ServedKept ==
  ASSUME IInv, Stable, FileStep, AddrStep, ServedStep, served' \subseteq Test
  PROVE  ServedInv'
<1>1. ASSUME NEW t \in served' PROVE env'[t] = "unset" /\ pc'[t] # "begin"
  <2>1. env[t] = "unset" /\ (pc[t] # "begin" \/ pc'[t] = "read")
    BY DEF IInv, ServedInv, ServedStep
  <2>2. t \in Test /\ (pc'[t] = "begin" => pc[t] = "begin")
    BY DEF AddrStep
  <2> QED
    BY <2>1, <2>2 DEF Stable
<1>2. ASSUME NEW t \in served', pc'[t] = "read"
      PROVE  file' \in Start \/ raced'
  <2>1. CASE file \in Start /\ file' = file
    BY <2>1
  <2>2. CASE t \in served /\ pc[t] = "read" /\ (file' = "none" => file = "none")
    <3>1. file \in Start \/ raced
      BY <2>2 DEF IInv, ServedInv
    <3>2. CASE file \in Start
      BY <2>2, <3>2, OverwriteRaced, Kinds DEF FileStep, Stable
    <3> QED
      BY <3>1, <3>2 DEF Stable
  <2>3. CASE t \in served /\ pc[t] # "read"
    BY <1>2, <2>3 DEF IInv, ServedInv, AddrStep
  <2> QED
    BY <2>1, <2>2, <2>3 DEF ServedStep
<1>3. NotAlone'
  <2> SUFFICES ASSUME NEW t \in served', pc'[t] = "alone"
               PROVE  raced'
    BY DEF NotAlone
  <2>1. t \in served /\ env[t] = "unset" /\ t \in Test
    <3>1. t \in served
      BY DEF ServedStep
    <3> QED
      BY <3>1 DEF IInv, TypeOK, ServedInv
  <2>2. CASE pc[t] = "alone"
    BY <2>1, <2>2 DEF IInv, ServedInv, NotAlone, Stable
  <2>3. CASE pc[t] # "alone"
    <3>1. pc[t] = "read" /\ file \notin Start
      BY <2>1, <2>3 DEF AddrStep
    <3> QED
      BY <2>1, <3>1 DEF IInv, ServedInv, Stable
  <2> QED
    BY <2>2, <2>3
<1> QED
  BY <1>1, <1>2, <1>3 DEF ServedInv

\* Who has ended a server.
LEMMA EndKept ==
  ASSUME IInv, Stable, ServerStep, AddrStep
  PROVE  EndInv'
<1>1. ASSUME NEW a \in Server, Ended(a)'
      PROVE  \/ \E x \in Stop : addr'[x] = a /\ Interrupting(x)'
             \/ a \in Start /\ pc'[a] = "failed"
             \/ a \in TestCmd /\ Over(a)'
  <2>1. CASE Ended(a)
    <3>1. CASE \E x \in Stop : addr[x] = a /\ Interrupting(x)
      <4>1. PICK x \in Stop : addr[x] = a /\ Interrupting(x)
        BY <3>1
      <4>2. addr'[x] = a /\ Interrupting(x)'
        BY <4>1 DEF Stable, Interrupting
      <4> QED
        BY <4>2
    <3>2. CASE a \in Start /\ pc[a] = "failed"
      BY <3>2 DEF Stable
    <3>3. CASE a \in TestCmd /\ Over(a)
      BY <3>3 DEF Stable, Over
    <3> QED
      BY <2>1, <3>1, <3>2, <3>3 DEF IInv, EndInv
  <2>2. CASE \E x \in Stop :
               addr[x] = a /\ pc[x] = "interrupt" /\ pc'[x] \in {"list", "failed"}
    BY <2>2 DEF Stable, Interrupting
  <2>3. CASE pc'[a] = "failed" \/ (a \in TestCmd /\ Over(a)')
    BY <2>3, Kinds DEF Over
  <2> QED
    BY <1>1, <2>1, <2>2, <2>3 DEF ServerStep
<1>2. ASSUME NEW t \in Test, pc'[t] = "connected"
      PROVE  srv'[addr'[t]] # "none"
  <2>1. pc[t] \in {"check", "connected"}
    BY <1>2 DEF AddrStep
  <2>2. addr'[t] = addr[t] /\ addr[t] \in Server
    BY <2>1 DEF Stable, IInv, AddrInv
  <2>3. srv[addr[t]] # "none"
    BY <1>2 DEF AddrStep, Answers, IInv, EndInv
  <2> QED
    BY <2>2, <2>3 DEF ServerStep
<1> QED
  BY <1>1, <1>2 DEF EndInv

\* The tests of a `confort test` begin and end while it executes them.
LEMMA ChildKept ==
  ASSUME IInv, Stable, AddrStep, ChildStep
  PROVE  ChildInv'
<1> SUFFICES ASSUME NEW c \in TestCmd, pc'[c] # "test", NEW t \in Test, env[t] = c
             PROVE  pc'[t] = "begin" \/ (Over(t)' /\ pc'[c] \notin {"listen", "go"})
  BY DEF ChildInv, Children, Stable
<1>1. t \in Children(c)
  BY DEF Children
<1>2. Over(t) => Over(t)'
  BY DEF Stable, Over
<1>3. CASE /\ pc[c] # "test"
           /\ pc'[c] \in {"listen", "go"} => pc[c] \in {"listen", "go"}
  <2>1. pc[t] = "begin" \/ (Over(t) /\ pc[c] \notin {"listen", "go"})
    BY <1>1, <1>3 DEF IInv, ChildInv
  <2>2. pc[t] = "begin" => pc'[t] = "begin"
    BY <1>3 DEF AddrStep
  <2> QED
    BY <1>2, <1>3, <2>1, <2>2
<1>4. CASE /\ pc'[c] \notin {"listen", "go"}
           /\ \A u \in Children(c) :
                pc'[u] = pc[u] /\ (Over(u) \/ pc[u] = "begin")
  BY <1>1, <1>2, <1>4
<1> QED
  BY <1>3, <1>4 DEF ChildStep

\* Starts that do not overlap do not meet at the lock file.
LEMMA StartKept ==
  ASSUME IInv, Stable, FileStep, StartPlaces
  PROVE  StartInv'
<1> SUFFICES ASSUME ~ raced' PROVE StartInv'
  BY DEF StartInv
<1>1. ~ raced
  BY DEF Stable
<1>2. \A r, s \in Start : Starting(r) /\ Starting(s) => r = s
  BY <1>1 DEF IInv, StartInv
<1>3. ASSUME NEW r \in Start, NEW s \in Start, Starting(r)', Starting(s)'
      PROVE  r = s
  <2>1. CASE Starting(r) /\ Starting(s)
    BY <1>2, <2>1
  <2>2. ASSUME NEW q \in Start, NEW p \in Start, Begins(q), Starting(p)'
        PROVE  p = q
    BY <2>2 DEF Begins, Starting
  <2> QED
    BY <1>3, <2>1, <2>2 DEF StartPlaces
<1>4. ASSUME NEW s \in Start, pc'[s] \in {"listen", "open"}
      PROVE  file' = "none"
  <2>1. CASE Begins(s)
    BY <2>1 DEF Begins
  <2>2. CASE pc[s] \in {"listen", "open"}
    <3>1. file = "none"
      BY <1>1, <2>2 DEF IInv, StartInv
    <3>2. ASSUME NEW r \in Start, pc[r] \in {"open", "write"}
          PROVE  r = s
      BY <1>2, <2>2, <3>2 DEF Starting
    <3> QED
      BY <1>4, <2>2, <3>1, <3>2 DEF FileStep
  <2> QED
    BY <1>4, <2>1, <2>2 DEF StartPlaces
<1>5. ASSUME NEW s \in Start, pc'[s] = "write"
      PROVE  file' = "empty" \/ (s \in gone' /\ file' = "none")
  <2>1. CASE pc[s] = "write"
    <3>1. file = "empty" \/ (s \in gone /\ file = "none")
      BY <1>1, <2>1 DEF IInv, StartInv
    <3>2. ASSUME NEW r \in Start, pc[r] \in {"open", "write"}
          PROVE  r = s
      BY <1>2, <2>1, <3>2 DEF Starting
    <3>3. ~ Written(s)'
      BY <1>5 DEF Written
    <3> QED
      BY <2>1, <3>1, <3>2, <3>3 DEF FileStep
  <2> QED
    BY <1>5, <2>1 DEF StartPlaces
<1> QED
  BY <1>3, <1>4, <1>5 DEF StartInv

\* The label of a test that has begun, and of a command that looks for it.
LEMMA LabelKept ==
  ASSUME Stable
  PROVE  /\ \A t \in Test : Begun(t) => Label(t)' = Label(t)
         /\ \A x \in Cleaner :
              pc[x] \notin {"begin", "read"} => LabelOf(x)' = LabelOf(x)
BY Kinds DEF Stable, Begun, Label, LabelOf

\* Who removes what.
LEMMA TodoKept ==
  ASSUME IInv, Stable, CleanStep, CleanerPlaces, res' \subseteq Test
  PROVE  TodoInv'
<1>1. \A t \in res' : Begun(t)'
  BY DEF IInv, TodoInv, CleanStep, Testing, Begun
<1>2. ASSUME NEW x \in Cleaner, NEW t \in todo'[x]
      PROVE  pc'[x] = "remove" /\ Begun(t)' /\ Label(t)' = LabelOf(x)'
  <2>1. CASE Looks(x)
    <3>1. t \in res /\ t \in Test /\ Label(t) = LabelOf(x)
      BY <1>2, <2>1 DEF Looks, Labelled, IInv, TypeOK
    <3>2. Begun(t) /\ Begun(t)'
      BY <3>1 DEF IInv, TodoInv, CleanStep
    <3> QED
      BY <2>1, <3>1, <3>2, LabelKept DEF Looks
  <2>2. CASE todo'[x] = todo[x] /\ (pc[x] = "remove" => pc'[x] = "remove")
    <3>1. /\ pc[x] = "remove" /\ Begun(t) /\ Label(t) = LabelOf(x) /\ t \in Test
      BY <1>2, <2>2 DEF IInv, TodoInv, TypeOK
    <3> QED
      BY <2>2, <3>1, LabelKept DEF CleanStep
  <2> QED
    BY <1>2, <2>1, <2>2 DEF CleanerPlaces
<1>3. ASSUME NEW c \in TestCmd, pc'[c] \in {"list", "remove"},
             NEW t \in Test, env[t] = c
      PROVE  Over(t)'
  <2>1. Over(t)
    BY <1>3 DEF IInv, TodoInv, CleanStep, Children
  <2> QED
    BY <2>1 DEF Stable, Over
<1>4. \A c \in TestCmd : Children(c)' = {t \in Test : env[t] = c}
  BY DEF Children, Stable
<1> QED
  BY <1>1, <1>2, <1>3, <1>4 DEF TodoInv

\* What was not found belongs to tests that were not over.
LEMMA CleanKept ==
  ASSUME IInv, Stable, CleanStep, CleanerPlaces
  PROVE  CleanInv'
<1> SUFFICES ASSUME NEW x \in Cleaner \ Reusable, Listed(x)',
                    NEW t \in Test, <<x, t>> \notin late'
             PROVE  /\ Over(t)'
                    /\ t \in res' /\ Label(t)' = LabelOf(x)' =>
                         pc'[x] = "remove" /\ t \in todo'[x]
  BY DEF CleanInv
<1>1. Over(t) => /\ Over(t)' /\ Label(t)' = Label(t)
                 /\ t \in res' => t \in res
  BY LabelKept DEF Over, Stable, Begun, CleanStep, Testing
<1>2. CASE Looks(x)
  <2>1. Over(t) /\ LabelOf(x)' = LabelOf(x)
    BY <1>2, LabelKept DEF Looks
  <2>2. todo'[x] = Labelled(x)
    BY <1>2 DEF Looks, Listed
  <2> QED
    BY <1>1, <1>2, <2>1, <2>2 DEF Looks, Labelled
<1>3. CASE /\ Listed(x)
           /\ \/ pc[x] # "remove" \/ res' = res \ todo[x]
              \/ pc'[x] = "remove" /\ todo'[x] = todo[x]
  <2>1. LabelOf(x)' = LabelOf(x)
    BY <1>3, LabelKept DEF Listed
  <2>2. <<x, t>> \notin late
    BY DEF CleanStep
  <2>3. /\ Over(t)
        /\ t \in res /\ Label(t) = LabelOf(x) => pc[x] = "remove" /\ t \in todo[x]
    BY <1>3, <2>2 DEF IInv, CleanInv
  <2> QED
    BY <1>1, <1>3, <2>1, <2>3
<1> QED
  BY <1>2, <1>3 DEF CleanerPlaces

\* Who removes the resources of a running test.
LEMMA DisturbedBy ==
  ASSUME IInv, CleanStep, NEW t \in res \ res', Testing(t), pc'[t] # "ok"
  PROVE  \E x \in Stop :
           /\ Stopping(x) /\ addr[x] = addr[t] /\ pc[t] = "connected"
           /\ srv[addr[t]] # "up"
<1>1. PICK x \in Cleaner : pc[x] = "remove" /\ t \in todo[x]
  BY DEF CleanStep
<1>2. t \in Test /\ Label(t) = LabelOf(x) /\ ~ Over(t)
  BY <1>1 DEF IInv, TypeOK, TodoInv, Testing, Over
<1>3. x \in Stop
  <2> SUFFICES ASSUME x \in TestCmd PROVE FALSE
    BY Kinds
  <2>1. Label(t) = Ident[x]
    BY <1>2 DEF LabelOf
  <2>2. env[t] # x
    BY <1>1, <1>2 DEF IInv, TodoInv, Children
  <2>3. env[t] \notin TestCmd
    BY <2>1, <2>2, IdentAssumption DEF Label
  <2>4. addr[t] = Ident[x] /\ addr[t] \in Server \cup {""}
    BY <1>2, <2>1, <2>3 DEF Label, IInv, TypeOK
  <2> QED
    BY <2>4, IdentAssumption
<1>4. addr[x] \in Server /\ srv[addr[x]] # "up"
  BY <1>1, <1>3 DEF IInv, StopInv, Ended
<1>5. addr[x] = addr[t]
  <2>1. env[x] \in TestCmd => addr[x] = env[x]
    BY <1>1, <1>3 DEF IInv, AddrInv
  <2>2. env[t] \in TestCmd => addr[t] = env[t]
    BY <1>2 DEF IInv, AddrInv, Testing
  <2>3. addr[t] \in Server \cup {""}
    BY <1>2 DEF IInv, TypeOK
  <2>4. Label(t) = Label(x)
    BY <1>2, <1>3, Kinds DEF LabelOf
  <2> QED
    BY <1>4, <2>1, <2>2, <2>3, <2>4, IdentAssumption DEF Label
<1>6. pc[t] = "connected"
  BY <1>2, <1>4, <1>5, Kinds DEF Testing, IInv, AddrInv
<1> QED
  BY <1>1, <1>3, <1>4, <1>5, <1>6 DEF Stopping

-----------------------------------------------------------------------------
\* Nothing has happened yet.
LEMMA InitInv == Init => IInv
<1> SUFFICES ASSUME Init PROVE IInv
  OBVIOUS
<1>1. /\ file = "none" /\ gone = {} /\ srv = [a \in Server |-> "none"]
      /\ addr = [x \in Stop \cup Test |-> ""] /\ todo = [x \in Cleaner |-> {}]
      /\ res = {} /\ served = {}
      /\ pc = [x \in Proc |-> IF x \in TestCmd THEN "listen" ELSE "begin"]
  BY DEF Init
<1>2. \A x \in Proc : pc[x] = IF x \in TestCmd THEN "listen" ELSE "begin"
  BY <1>1
<1>3. TypeOK
  <2>1. pc \in [Proc -> Place]
    BY <1>1 DEF Place
  <2>2. tries \in [Stop \cup Test -> 0..Reads - 1]
    <3>1. tries = [x \in Stop \cup Test |-> 0]
      BY DEF Init
    <3>2. 0 \in 0..Reads - 1
      BY ONLY ReadsAssumption
    <3> QED
      BY ONLY <3>1, <3>2
  <2> QED
    BY <1>1, <2>1, <2>2 DEF Init, TypeOK
<1>4. ServerInv /\ StopInv /\ StartInv
  BY <1>1, <1>2, Kinds DEF ServerInv, StopInv, StartInv, Starting, Ended
<1>5. AddrInv /\ WrittenInv
  BY <1>1, <1>2, Kinds DEF AddrInv, WrittenInv
<1>6. FindInv /\ StaleInv /\ ServedInv
  BY <1>1, <1>2, Kinds DEF FindInv, StaleInv, ServedInv, NotAlone
<1>7. TodoInv /\ CleanInv
  BY <1>1, <1>2, Kinds DEF TodoInv, CleanInv, Listed
<1>8. EndInv /\ ChildInv
  BY <1>1, <1>2, Kinds DEF EndInv, Ended, ChildInv, Children
<1> QED
  BY <1>3, <1>4, <1>5, <1>6, <1>7, <1>8 DEF IInv

\* Every step keeps the invariant.
LEMMA NextInv == IInv /\ [Next]_vars => IInv'
<1> SUFFICES ASSUME IInv, [Next]_vars PROVE IInv'
  OBVIOUS
<1>1. CASE Next
  <2>1. TypeOK' /\ Stable /\ FileStep /\ ServerStep
    BY <1>1, StableStep
  <2>2. StartPlaces /\ StopPlaces /\ ServedStep /\ AddrStep
    BY <1>1, PlaceStep, AddrChanges
  <2>6. ChildStep
    BY <1>1, ChildChanges
  <2>3. CleanStep /\ CleanerPlaces
    BY <1>1, ResourceChanges, CleanerMoves
  <2>4. ServerInv' /\ AddrInv' /\ WrittenInv' /\ StopInv' /\ StartInv'
    BY <2>1, <2>2, ServerKept, AddrKept, WrittenKept, StopKept, StartKept
  <2>5. FindInv' /\ StaleInv' /\ ServedInv' /\ TodoInv' /\ CleanInv'
    BY <2>1, <2>2, <2>3, FindKept, StaleKept, ServedKept, TodoKept, CleanKept
    DEF TypeOK
  <2>7. EndInv' /\ ChildInv'
    BY <2>1, <2>2, <2>6, EndKept, ChildKept
  <2> QED
    BY <2>1, <2>4, <2>5, <2>7 DEF IInv
<1>2. CASE UNCHANGED vars
  <2> USE <1>2 DEF vars, fileVars, cleanVars
  <2>1. TypeOK' /\ ServerInv' /\ AddrInv' /\ WrittenInv' /\ StopInv' /\ StartInv'
    BY DEF IInv, TypeOK, ServerInv, AddrInv, WrittenInv, StopInv, StartInv,
           Written, Ended, Starting
  <2>2. FindInv' /\ StaleInv' /\ ServedInv'
    BY DEF IInv, FindInv, StaleInv, ServedInv, Disturbed, NotAlone, Ended,
           Stopping
  <2>3. TodoInv' /\ CleanInv'
    BY DEF IInv, TodoInv, CleanInv, Begun, Over, Listed, Label, LabelOf, Children
  <2>4. EndInv' /\ ChildInv'
    BY DEF IInv, EndInv, Ended, Interrupting, ChildInv, Children, Over
  <2> QED
    BY <2>1, <2>2, <2>3, <2>4 DEF IInv
<1> QED
  BY <1>1, <1>2

-----------------------------------------------------------------------------
(* The invariant holds always. *)
THEOREM Invariance == Spec => []IInv
BY InitInv, NextInv, PTL DEF Spec

(* The lock file, the servers and the processes keep their types: what is in  *)
(* the lock file is an address that a start has written.                      *)
THEOREM TypeCorrect == Spec => []TypeOK
<1>1. IInv => TypeOK
  BY DEF IInv
<1> QED
  BY <1>1, Invariance, PTL

(* StartCommand and StopCommand: the server of a start that waits for it is   *)
(* in the lock file, unless starts overlapped, a server was stopped twice, or  *)
(* a stop had the address of another server from its environment.             *)
THEOREM Findable == Spec => []ServerFindable
<1>1. IInv => ServerFindable
  BY DEF IInv, FindInv, Disturbed, ServerFindable
<1> QED
  BY <1>1, Invariance, PTL

(* StopCommand: a lock file of a server that is gone has a start or a stop     *)
(* that failed, or a stop that is about to remove it.                         *)
THEOREM Explained == Spec => []StaleFileExplained
<1>1. IInv => StaleFileExplained
  BY DEF IInv, StaleInv, Ended, StaleFileExplained
<1> QED
  BY <1>1, Invariance, PTL

(* CleanupResources: a stop or a `confort test` that succeeds has removed the *)
(* resources of all tests that were over when it looked for them.             *)
THEOREM Cleans == Spec => []CleanedUp
<1>1. IInv => CleanedUp
  <2> SUFFICES ASSUME IInv, NEW x \in Cleaner \ Reusable, pc[x] = "ok",
                      NEW t \in res, Label(t) = LabelOf(x)
               PROVE  <<x, t>> \in late
    BY DEF CleanedUp
  <2>1. Listed(x) /\ t \in Test
    BY DEF Listed, IInv, TypeOK
  <2> QED
    BY <2>1 DEF IInv, CleanInv
<1> QED
  BY <1>1, Invariance, PTL

(* Address and Connect: a test that began when there was an address in the     *)
(* lock file runs without a server only if a stop removed the file before the  *)
(* test read it, or starts overlapped.                                       *)
THEOREM Served == Spec => []NotAlone
<1>1. IInv => NotAlone
  BY DEF IInv, ServedInv
<1> QED
  BY <1>1, Invariance, PTL

(* StopBeaconServer, Interrupt and ExecuteTest: a test that is connected has   *)
(* its server until it is over, unless a stop was run for that server or its   *)
(* `confort start` died: a `confort test` outlives its tests.                 *)
THEOREM Throughout == Spec => []ServedThroughout
<1>1. IInv => ServedThroughout
  <2> SUFFICES ASSUME IInv, NEW t \in Test, pc[t] = "connected", srv[addr[t]] # "up"
               PROVE  \/ \E x \in Stop : addr[x] = addr[t] /\ Interrupting(x)
                      \/ addr[t] \in Start /\ pc[addr[t]] = "failed"
    BY DEF ServedThroughout
  <2>1. addr[t] \in Server
    BY DEF IInv, AddrInv
  <2>2. Ended(addr[t])
    BY <2>1 DEF IInv, TypeOK, EndInv, Ended
  <2>3. CASE addr[t] \in TestCmd /\ Over(addr[t])
    <3>1. env[t] = addr[t] /\ t \in Children(addr[t])
      BY <2>3, Kinds DEF IInv, AddrInv, Children
    <3>2. pc[addr[t]] # "test"
      BY <2>3 DEF Over
    <3> QED
      BY <2>3, <3>1, <3>2 DEF IInv, ChildInv, Over
  <2> QED
    BY <2>1, <2>2, <2>3 DEF IInv, EndInv
<1> QED
  BY <1>1, Invariance, PTL

(* CleanupResources and Close: the resources of a running test are removed by *)
(* itself, or by a stop of the server it is connected to.                     *)
THEOREM LeftAlone == Spec => Undisturbed
<1>1. IInv /\ [Next]_vars =>
        [\A t \in res \ res' : Testing(t) =>
           \/ pc'[t] = "ok"
           \/ \E x \in Stop :
                /\ Stopping(x) /\ addr[x] = addr[t] /\ pc[t] = "connected"
                /\ srv[addr[t]] # "up"]_vars
  BY ResourceChanges, DisturbedBy
<1> QED
  BY <1>1, Invariance, PTL DEF Spec, Undisturbed
=============================================================================
