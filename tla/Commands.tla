------------------------------ MODULE Commands ------------------------------
(***************************************************************************)
(* internal/cmd: `confort start`, `confort stop` and `confort test`, the    *)
(* life of the beacon server they start and stop, and the test processes    *)
(* that look for it (internal/beacon: Address, Connect).                    *)
(*                                                                         *)
(* Everybody meets in the file system (the lock file), at the server's      *)
(* port, and in Docker, where resources are found by their label.  A server *)
(* has the name of the command that started it, which also serves as its    *)
(* address: the system gives every listener a port of its own.  The Docker  *)
(* resources of a test process are one thing, with the name of the process;  *)
(* module Backend looks into them.                                         *)
(*                                                                         *)
(* Any request may fail.  Bounds: a command or a test process runs once, and *)
(* a `confort test` has tests.                                              *)
(***************************************************************************)
EXTENDS Integers, FiniteSets

CONSTANTS Start, Stop, TestCmd,  \* the commands, one element for each execution
          Test,      \* test processes
          Envs,      \* the values that env may have
          Ident,     \* the identifier of a `confort test`: directory, namespace
          Reusable,  \* the `confort test`s with -policy reusable
          Reads,     \* attempts of Address to read the lock file, 10 in the code
          Mortal     \* starts and tests that may be killed

Server == Start \cup TestCmd
Cleaner == Stop \cup TestCmd
Proc == Server \cup Stop \cup Test

\* Every execution is one of one command.
ASSUME ProcAssumption ==
  /\ Start \cap (Stop \cup TestCmd \cup Test) = {}
  /\ Stop \cap (TestCmd \cup Test) = {}
  /\ TestCmd \cap Test = {}
  /\ Server \cap {"", "none", "empty", "unset", "disabled"} = {}

\* No two `confort test` run in the same directory with the same namespace; an
\* identifier begins with the directory, and is not an address.
ASSUME IdentAssumption ==
  /\ \A c, d \in TestCmd : Ident[c] = Ident[d] => c = d
  /\ \A c \in TestCmd : Ident[c] \notin Server \cup {""}

ASSUME EnvAssumption ==
  Envs \subseteq [Stop \cup Test -> TestCmd \cup {"unset", "disabled"}]

ASSUME ReadsAssumption == Reads \in Nat \ {0}

VARIABLES env,    \* env[x]: CFT_BEACON_ADDR of a stop or a test: the address of
                  \* the server of a `confort test`, "unset" or "disabled"
          file,   \* the lock file: "none", "empty" or the address in it
          gone,   \* the starts whose lock file was removed after they opened it
          srv,    \* srv[a]: "none", "up", "stopping" or "down"
          pc,     \* pc[x]: what x does next
          addr,   \* addr[x]: the address that a stop or a test has got
          tries,  \* tries[x]: the attempts made by x while it is in Address
          res,    \* the tests whose Docker resources exist
          todo,   \* todo[x]: the resources that CleanupResources found
          bad,    \* the stops and `confort test`s that met an error
          raced,  \* history: a start was begun while another was not done
          served, \* history: tests that began when the lock file had an address
                  \* and have not had it removed before they read it
          late    \* history: who looked for resources when which test was not over

fileVars == <<env, file, gone>>
cleanVars == <<res, todo, bad, late>>
vars == <<fileVars, srv, pc, addr, tries, cleanVars, raced, served>>

Children(c) == {t \in Test : env[t] = c}

Goto(x, where) == pc' = [pc EXCEPT ![x] = where]

-----------------------------------------------------------------------------
(* The server. *)

Answers(a) == a \in Server /\ srv[a] \in {"up", "stopping"}

\* Half a second after Interrupt.
Halt(a) ==
  /\ srv[a] = "stopping"
  /\ srv' = [srv EXCEPT ![a] = "down"]
  /\ UNCHANGED <<fileVars, pc, addr, tries, cleanVars, raced, served>>

-----------------------------------------------------------------------------
(* StartBeaconServer, for start and test. *)

\* Until it returns nobody knows of the server, unless it failed the health
\* check for too long: then it is stopped.
StartBeaconServer(x) ==
  /\ pc[x] = "listen" /\ (x \in TestCmd => Children(x) # {})
  /\ \/ /\ Goto(x, IF x \in Start THEN "open" ELSE "go")
        /\ srv' = [srv EXCEPT ![x] = "up"]
     \/ Goto(x, "failed") /\ UNCHANGED srv
  /\ UNCHANGED <<fileVars, addr, tries, cleanVars, raced, served>>

-----------------------------------------------------------------------------
(* confort start. *)

Starting(s) == pc[s] \in {"listen", "open", "write"}

\* Mutant of StatLockFile: an existing lock file is overwritten.
StatLockFileNot(s) ==
  /\ pc[s] = "begin"
  /\ Goto(s, "listen")
  /\ raced' = (raced \/ \E r \in Start \ {s} : Starting(r))
  /\ UNCHANGED <<fileVars, srv, addr, tries, cleanVars, served>>

StatLockFile(s) ==
  /\ pc[s] = "begin"
  /\ \/ file = "none" /\ Goto(s, "listen")
     \/ Goto(s, "failed")
  /\ raced' = (raced \/ \E r \in Start \ {s} : Starting(r))
  /\ UNCHANGED <<fileVars, srv, addr, tries, cleanVars, served>>

\* An error: StopBeaconServer, and the process ends, and so does its server.
Abort(s) ==
  /\ Goto(s, "failed")
  /\ srv' = [srv EXCEPT ![s] = "down"]

\* os.WriteFile creates or truncates the file ...
OpenLockFile(s) ==
  /\ pc[s] = "open"
  /\ \/ Goto(s, "write") /\ file' = "empty" /\ UNCHANGED srv
     \/ Abort(s) /\ UNCHANGED file
  /\ UNCHANGED <<env, gone, addr, tries, cleanVars, raced, served>>

\* ... then writes, if the file was removed, where nobody will read it, and
\* closes the file; an error of Close comes when the address is written.
WriteLockFile(s) ==
  /\ pc[s] = "write"
  /\ \/ Goto(s, "wait") /\ file' = (IF s \in gone THEN file ELSE s)
        /\ UNCHANGED srv
     \/ Abort(s) /\ file' \in {file, IF s \in gone THEN file ELSE s}
  /\ UNCHANGED <<env, gone, addr, tries, cleanVars, raced, served>>

\* <-done
Done(s) ==
  /\ pc[s] = "wait" /\ srv[s] = "down"
  /\ Goto(s, "ok")
  /\ UNCHANGED <<fileVars, srv, addr, tries, cleanVars, raced, served>>

Kill(s) ==
  /\ s \in Mortal /\ pc[s] \in {"open", "write", "wait"}
  /\ Abort(s)
  /\ UNCHANGED <<fileVars, addr, tries, cleanVars, raced, served>>

-----------------------------------------------------------------------------
(* Address and Connect, for stops and tests. *)

\* What comes after Address; a test with no address runs without a server.
Got(x, a) ==
  /\ addr' = [addr EXCEPT ![x] = a]
  /\ Goto(x, IF x \in Stop THEN "interrupt"
             ELSE IF a = "" THEN "alone" ELSE "check")

AddressEnv(x) ==
  /\ pc[x] = "begin"
  /\ env[x] \in TestCmd => pc[env[x]] = "test"
  /\ \/ /\ env[x] = "disabled"
        /\ Goto(x, IF x \in Stop THEN "failed" ELSE "alone")
        /\ UNCHANGED addr
     \/ env[x] \in TestCmd /\ Got(x, env[x])
     \/ env[x] = "unset" /\ Goto(x, "read") /\ UNCHANGED addr
  /\ served' = IF x \in Test /\ env[x] = "unset" /\ file \in Start
               THEN served \cup {x} ELSE served
  /\ UNCHANGED <<fileVars, srv, tries, cleanVars, raced>>

ReadLockFile(x) ==
  /\ pc[x] = "read"
  /\ \/ /\ file = "none" /\ tries[x] + 1 < Reads
        /\ tries' = [tries EXCEPT ![x] = @ + 1]
        /\ UNCHANGED <<pc, addr>>
     \/ /\ file # "none" \/ tries[x] + 1 = Reads
        /\ Got(x, IF file \in {"none", "empty"} THEN "" ELSE file)
        /\ tries' = [tries EXCEPT ![x] = 0]
     \/ /\ Goto(x, "failed") /\ UNCHANGED addr
        /\ tries' = [tries EXCEPT ![x] = 0]
  /\ UNCHANGED <<fileVars, srv, cleanVars, raced, served>>

\* Mutant of Check: a server that does not answer is left out.
CheckQuietly(t) ==
  /\ pc[t] = "check"
  /\ \/ Answers(addr[t]) /\ Goto(t, "connected")
     \/ ~ Answers(addr[t]) /\ Goto(t, "alone")
  /\ UNCHANGED <<fileVars, srv, addr, tries, cleanVars, raced, served>>

\* The health check of Connect.
Check(t) ==
  /\ pc[t] = "check"
  /\ \/ Answers(addr[t]) /\ Goto(t, "connected")
     \/ Goto(t, "failed")
  /\ UNCHANGED <<fileVars, srv, addr, tries, cleanVars, raced, served>>

Testing(t) == pc[t] \in {"alone", "connected"}

Create(t) ==
  /\ Testing(t)
  /\ res' = res \cup {t}
  /\ UNCHANGED <<fileVars, srv, pc, addr, tries, todo, bad, late, raced, served>>

\* Close removes the resources, unless there is a server: skipDeletion.
EndTest(t) ==
  /\ Testing(t)
  /\ Goto(t, "ok")
  /\ res' = IF pc[t] = "connected" THEN res ELSE res \ {t}
  /\ UNCHANGED <<fileVars, srv, addr, tries, todo, bad, late, raced, served>>

KillTest(t) ==
  /\ t \in Mortal /\ Testing(t)
  /\ Goto(t, "failed")
  /\ UNCHANGED <<fileVars, srv, addr, tries, cleanVars, raced, served>>

-----------------------------------------------------------------------------
(* CleanupResources, for stop and test. *)

\* Identifier, from CFT_IDENTIFIER, which `confort test` sets with the address,
\* or from the address.
Label(t) == IF env[t] \in TestCmd THEN Ident[env[t]] ELSE addr[t]

LabelOf(x) == IF x \in TestCmd THEN Ident[x] ELSE Label(x)

\* Where an execution goes on after an error.
Fail(x) == Goto(x, IF x \in Stop THEN "failed" ELSE "deferred")

Over(t) == pc[t] \in {"ok", "failed"}

\* What the command has to remove.
Labelled(x) == {t \in res : Label(t) = LabelOf(x)}

\* The containers and the networks with the label.  An error of one list is kept
\* for the end: what the other list has is removed.  Without a client, nothing is.
List(x) ==
  /\ pc[x] = "list"
  /\ \/ /\ Goto(x, "remove") /\ UNCHANGED bad
        /\ todo' = [todo EXCEPT ![x] = Labelled(x)]
     \/ /\ Goto(x, "remove") /\ bad' = bad \cup {x}
        /\ \E D \in SUBSET Labelled(x) : todo' = [todo EXCEPT ![x] = D]
     \/ Fail(x) /\ bad' = bad \cup {x} /\ UNCHANGED todo
  /\ late' = late \cup {<<x, t>> : t \in {u \in Test : ~ Over(u)}}
  /\ UNCHANGED <<fileVars, srv, addr, tries, res, raced, served>>

\* Mutant of Remove: errors are logged, and not returned.
RemoveQuietly(x) ==
  /\ pc[x] = "remove"
  /\ res' \in {res \ D : D \in SUBSET todo[x]}
  /\ Goto(x, IF x \in Stop THEN "delete" ELSE "deferred") /\ UNCHANGED bad
  /\ todo' = [todo EXCEPT ![x] = {}]
  /\ UNCHANGED <<fileVars, srv, addr, tries, late, raced, served>>

\* One removal after the other, of which some may fail; any error is returned.
Remove(x) ==
  /\ pc[x] = "remove"
  /\ \/ /\ res' = res \ todo[x] /\ todo[x] \subseteq res /\ x \notin bad
        /\ Goto(x, IF x \in Stop THEN "delete" ELSE "deferred")
        /\ UNCHANGED bad
     \/ /\ \E D \in SUBSET todo[x] : res' = res \ D
        /\ todo[x] # {} \/ x \in bad
        /\ Fail(x) /\ bad' = bad \cup {x}
  /\ todo' = [todo EXCEPT ![x] = {}]
  /\ UNCHANGED <<fileVars, srv, addr, tries, late, raced, served>>

-----------------------------------------------------------------------------
(* confort stop. *)

Stopping(x) == pc[x] \in {"list", "remove", "delete"}

\* Mutant of StopBeaconServer: its error is logged and ignored.
StopBeaconServerAnyway(x) ==
  /\ pc[x] = "interrupt"
  /\ Goto(x, "list")
  /\ srv' = IF Answers(addr[x]) THEN [srv EXCEPT ![addr[x]] = "stopping"]
            ELSE srv
  /\ UNCHANGED <<fileVars, addr, tries, cleanVars, raced, served>>

\* The request may be lost, and so may the answer.
StopBeaconServer(x) ==
  /\ pc[x] = "interrupt"
  /\ \/ /\ Answers(addr[x])
        /\ srv' = [srv EXCEPT ![addr[x]] = "stopping"]
        /\ Goto(x, "list") \/ Goto(x, "failed")
     \/ Goto(x, "failed") /\ UNCHANGED srv
  /\ UNCHANGED <<fileVars, addr, tries, cleanVars, raced, served>>

\* The file is removed, under the hands of those who write or read it.
RemoveLockFile ==
  /\ file' = "none"
  /\ gone' = gone \cup {s \in Start : pc[s] = "write"}
  /\ served' = {t \in served : pc[t] # "read"}

\* Mutant of DeleteLockFile: an error of Remove is not returned.
DeleteLockFileQuietly(x) ==
  /\ pc[x] = "delete"
  /\ Goto(x, "ok")
  /\ RemoveLockFile \/ UNCHANGED <<file, gone, served>>
  /\ UNCHANGED <<env, srv, addr, tries, cleanVars, raced>>

\* Stat and Remove; a file that is gone when it is to be removed is an error.
DeleteLockFile(x) ==
  /\ pc[x] = "delete"
  /\ \/ RemoveLockFile /\ Goto(x, "ok")
     \/ Goto(x, "failed") /\ UNCHANGED <<file, gone, served>>
  /\ UNCHANGED <<env, srv, addr, tries, cleanVars, raced>>

-----------------------------------------------------------------------------
(* confort test. *)

\* determineGoCommand.
GoCommand(c) ==
  /\ pc[c] = "go"
  /\ \/ Goto(c, "test") /\ UNCHANGED bad
     \/ Goto(c, "deferred") /\ bad' = bad \cup {c}
  /\ UNCHANGED <<fileVars, srv, addr, tries, res, todo, late, raced, served>>

\* Mutant of ExecuteTest: signals are not trapped, and end the command.
ExecuteTestUntrapped(c) ==
  /\ pc[c] = "test"
  /\ Goto(c, "failed")
  /\ srv' = [srv EXCEPT ![c] = "down"]
  /\ UNCHANGED <<fileVars, addr, tries, cleanVars, raced, served>>

\* ExecuteTest returns when the tests are over, or could not begin; the signals
\* that end the tests are trapped.
ExecuteTest(c) ==
  /\ pc[c] = "test"
  /\ \/ /\ \A t \in Children(c) : Over(t)
        /\ Goto(c, IF c \in Reusable THEN "deferred" ELSE "list")
        /\ UNCHANGED bad
     \/ /\ \A t \in Children(c) : pc[t] = "begin"
        /\ Goto(c, "deferred") /\ bad' = bad \cup {c}
  /\ UNCHANGED <<fileVars, srv, addr, tries, res, todo, late, raced, served>>

\* The deferred StopBeaconServer, and the end of the process.
Deferred(c) ==
  /\ pc[c] = "deferred"
  /\ Goto(c, IF c \in bad THEN "failed" ELSE "ok")
  /\ srv' = [srv EXCEPT ![c] = "down"]
  /\ UNCHANGED <<fileVars, addr, tries, cleanVars, raced, served>>

-----------------------------------------------------------------------------
Init ==
  /\ env \in Envs
  /\ file = "none" /\ gone = {}
  /\ srv = [a \in Server |-> "none"]
  /\ pc = [x \in Proc |-> IF x \in TestCmd THEN "listen" ELSE "begin"]
  /\ addr = [x \in Stop \cup Test |-> ""]
  /\ tries = [x \in Stop \cup Test |-> 0]
  /\ res = {} /\ bad = {}
  /\ todo = [x \in Cleaner |-> {}]
  /\ raced = FALSE /\ served = {} /\ late = {}

\* What a command does by itself once it was entered.
StartStep(s) ==
  StartBeaconServer(s) \/ OpenLockFile(s) \/ WriteLockFile(s) \/ Done(s)

StopStep(x) ==
  \/ ReadLockFile(x) \/ StopBeaconServer(x)
  \/ List(x) \/ Remove(x) \/ DeleteLockFile(x)

TestCmdStep(c) ==
  \/ StartBeaconServer(c) \/ GoCommand(c) \/ ExecuteTest(c)
  \/ List(c) \/ Remove(c) \/ Deferred(c)

TestStep(t) == ReadLockFile(t) \/ Check(t) \/ EndTest(t)

Next ==
  \/ \E s \in Start : StatLockFile(s) \/ StartStep(s) \/ Kill(s)
  \/ \E x \in Stop : AddressEnv(x) \/ StopStep(x)
  \/ \E c \in TestCmd : TestCmdStep(c)
  \/ \E t \in Test : AddressEnv(t) \/ TestStep(t) \/ Create(t) \/ KillTest(t)
  \/ \E a \in Server : Halt(a)

Spec == Init /\ [][Next]_vars

-----------------------------------------------------------------------------
Place ==
  {"begin", "listen", "open", "write", "wait", "read", "interrupt", "check",
   "alone", "connected", "go", "test", "list", "remove", "delete", "deferred",
   "ok", "failed"}

\* Type invariant of the commands, the lock file and the servers.
TypeOK ==
  /\ env \in Envs
  /\ file \in Start \cup {"none", "empty"} /\ gone \subseteq Start
  /\ srv \in [Server -> {"none", "up", "stopping", "down"}]
  /\ pc \in [Proc -> Place]
  /\ addr \in [Stop \cup Test -> Server \cup {""}]
  /\ tries \in [Stop \cup Test -> 0..Reads - 1]
  /\ res \subseteq Test /\ bad \subseteq Cleaner
  /\ todo \in [Cleaner -> SUBSET Test]
  /\ raced \in BOOLEAN /\ served \subseteq Test /\ late \subseteq Cleaner \X Test

(* A server that `confort start` waits for can be found, and so be used and   *)
(* stopped: its address is in the lock file, whatever other starts, stops,    *)
(* failures and deaths there are (commands.go:80, addr.go:63).  It is lost    *)
(* only if a start was begun before another had written the file, if a second *)
(* stop of an earlier server, still answered, removed the file of the new one, *)
(* or if a stop was run with the address of the server of a `confort test`,    *)
(* which it stopped, and removed a file that was not of that server.          *)
ServerFindable ==
  \A s \in Start : pc[s] = "wait" /\ srv[s] = "up" =>
    \/ file = s \/ raced
    \/ \E x, y \in Stop :
         x # y /\ addr[x] = addr[y] /\ pc[x] = "ok" /\ pc[y] = "ok"
    \/ \E x \in Stop : env[x] \in TestCmd /\ pc[x] = "ok"

(* A lock file that names a server that is gone has a culprit: its start     *)
(* failed or was killed, or a stop is about to remove it or failed            *)
(* (commands.go:161-178).  When all goes well nothing blocks the next start.  *)
StaleFileExplained ==
  \A s \in Start : file = s /\ srv[s] = "down" =>
    \/ pc[s] = "failed"
    \/ \E x \in Stop : addr[x] = s /\ (Stopping(x) \/ pc[x] = "failed")

(* `confort stop` and `confort test` that report success have removed the    *)
(* Docker resources of all tests that were over by the time they looked,      *)
(* however those ended (commands.go:168, 287).                                *)
CleanedUp ==
  \A x \in Cleaner \ Reusable : pc[x] = "ok" =>
    \A t \in res : Label(t) = LabelOf(x) => <<x, t>> \in late

(* The resources of a running test are removed by the test itself, or by a   *)
(* stop that has interrupted the server the test is connected to: never by   *)
(* one that found no server (Identifier of the empty address is a label too, *)
(* the one of all tests without a server), nor by a `confort test`.           *)
Undisturbed ==
  [][\A t \in res \ res' : Testing(t) =>
       \/ pc'[t] = "ok"
       \/ \E x \in Stop :
            /\ Stopping(x) /\ addr[x] = addr[t] /\ pc[t] = "connected"
            /\ srv[addr[t]] # "up"]_vars

(* A test that began when the address of a server was in the lock file runs  *)
(* with a server, or reports an error (addr.go:44, Connect).  It runs on its   *)
(* own, without any exclusion, only if a stop removed the file between its      *)
(* beginning and its last read, or if starts overlapped.                       *)
NotAlone ==
  \A t \in served : pc[t] = "alone" => raced

(* The stops that have sent, or may have sent, an Interrupt. *)
Interrupting(x) == pc[x] \notin {"begin", "read", "interrupt"}

(* A test that is connected has its server for as long as it runs: the locks  *)
(* it holds there are not given to others, and what it creates is found by     *)
(* the clean-up.  The server is taken away only by a stop that was run for it,  *)
(* or by the death of its `confort start`; a `confort test` that is            *)
(* interrupted goes on until its tests are over (signal.Notify,                *)
(* commands.go:263), and only then stops its server (the deferred              *)
(* StopBeaconServer).                                                         *)
ServedThroughout ==
  \A t \in Test : pc[t] = "connected" /\ srv[addr[t]] # "up" =>
    \/ \E x \in Stop : addr[x] = addr[t] /\ Interrupting(x)
    \/ addr[t] \in Start /\ pc[addr[t]] = "failed"

=============================================================================
