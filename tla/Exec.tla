-------------------------------- MODULE Exec --------------------------------
(***************************************************************************)
(* exec.go: one ContainerExec, whose methods are called one after the other, *)
(* in any order.                                                            *)
(*                                                                         *)
(* Docker is external: ContainerExecCreate makes an exec that waits for its  *)
(* start, ContainerExecAttach starts it, once, and gives a stream of what is *)
(* attached, which ends with the command; ContainerExecInspect says 0 for a  *)
(* command that has not ended.  Any request may fail, and an attach may fail *)
(* after it took effect.  A command ends with its container.                 *)
(*                                                                         *)
(* Bound: MaxCalls calls of methods.                                        *)
(***************************************************************************)
EXTENDS Integers

CONSTANTS MaxCalls

Stream == {"stdout", "stderr"}
Op == {"Start", "Wait", "Run", "Output", "CombinedOutput"}

VARIABLES ctr,      \* the state of the container
          made,     \* CreateExec has returned the object
          execID,   \* ContainerExec.execID is set
          writers,  \* which of ContainerExec.Stdout and Stderr are set
          op,       \* the method that was called last, or "none"
          at,       \* where it is
          calls,    \* calls so far
          attached, \* ExecConfig.AttachStdout and AttachStderr
          cmd,      \* the exec with this execID, at Docker
          executed  \* how often the command was executed

object == <<made, execID, writers, attached>>
vars == <<ctr, object, op, at, calls, cmd, executed>>

InitExec ==
  /\ made = FALSE /\ execID = FALSE /\ writers = {} /\ attached = {}
  /\ op = "none" /\ at = "idle" /\ calls = 0
  /\ cmd = "none" /\ executed = 0

\* The user sets Stdout and Stderr before the first call, or does not.
CreateExec ==
  /\ ~ made /\ ctr # "none"
  /\ made' = TRUE
  /\ writers' \in SUBSET Stream
  /\ UNCHANGED <<ctr, execID, attached, op, at, calls, cmd, executed>>

\* The method returns, with nil or an error.
Return(how) == at' = how

-----------------------------------------------------------------------------
Idle == {"idle", "nil", "error"}

\* A call of method o begins; Output and CombinedOutput set what they need.
Begin(o) ==
  /\ made /\ at \in Idle /\ calls < MaxCalls
  /\ calls' = calls + 1 /\ op' = o
  /\ CASE o \in {"Start", "Run"} -> at' = "start" /\ UNCHANGED writers
       [] o = "Wait" -> at' = "attach" /\ UNCHANGED writers
       [] o = "Output" ->
            IF "stdout" \in writers
            THEN Return("error") /\ UNCHANGED writers
            ELSE at' = "start" /\ writers' = writers \cup {"stdout"}
       [] o = "CombinedOutput" ->
            IF writers # {}
            THEN Return("error") /\ UNCHANGED writers
            ELSE at' = "start" /\ writers' = Stream
  /\ UNCHANGED <<ctr, made, execID, attached, cmd, executed>>

\* Mutant of Start: nothing is attached if nobody wants the output.
StartDetached ==
  /\ at = "start"
  /\ \/ /\ ~ execID /\ ctr = "running"
        /\ execID' = TRUE
        /\ attached' = writers
        /\ cmd' = "created"
        /\ IF op = "Start" THEN Return("nil") ELSE at' = "attach"
     \/ Return("error") /\ UNCHANGED <<execID, attached, cmd>>
  /\ UNCHANGED <<ctr, made, writers, op, calls, executed>>

\* Start, which creates the exec; without writers stdout is attached.
Start ==
  /\ at = "start"
  /\ \/ /\ ~ execID /\ ctr = "running"
        /\ execID' = TRUE
        /\ attached' = IF writers = {} THEN {"stdout"} ELSE writers
        /\ cmd' = "created"
        /\ IF op = "Start" THEN Return("nil") ELSE at' = "attach"
     \/ Return("error") /\ UNCHANGED <<execID, attached, cmd>>
  /\ UNCHANGED <<ctr, made, writers, op, calls, executed>>

\* Wait: the command starts here, also if the answer is lost.
Attach ==
  /\ at = "attach"
  /\ \/ /\ execID /\ cmd = "created" /\ ctr = "running"
        /\ cmd' = "running"
        /\ executed' = executed + 1
        /\ at' = "copy" \/ Return("error")
     \/ Return("error") /\ UNCHANGED <<cmd, executed>>
  /\ UNCHANGED <<ctr, object, op, calls>>

\* StdCopy returns when the stream ends, or breaks.
Copy ==
  /\ at = "copy"
  /\ \/ (cmd # "running" \/ attached = {}) /\ at' = "inspect"
     \/ Return("error")
  /\ UNCHANGED <<ctr, object, op, calls, cmd, executed>>

Inspect ==
  /\ at = "inspect"
  /\ \/ cmd # "failed" /\ Return("nil")
     \/ Return("error")
  /\ UNCHANGED <<ctr, object, op, calls, cmd, executed>>

-----------------------------------------------------------------------------
CommandEnds ==
  /\ cmd = "running"
  /\ cmd' \in {"succeeded", "failed"}
  /\ UNCHANGED <<ctr, object, op, at, calls, executed>>

\* What the end of the container does to a command.
Killed == cmd' = IF cmd = "running" THEN "failed" ELSE cmd

CallStep == Start \/ Attach \/ Copy \/ Inspect

NextExec ==
  \/ CreateExec
  \/ \E o \in Op : Begin(o)
  \/ CallStep
  \/ CommandEnds

-----------------------------------------------------------------------------
TypeOKExec ==
  /\ made \in BOOLEAN /\ execID \in BOOLEAN
  /\ writers \subseteq Stream /\ attached \subseteq Stream
  /\ op \in Op \cup {"none"} /\ calls \in 0..MaxCalls
  /\ at \in Idle \cup {"start", "attach", "copy", "inspect"}
  /\ cmd \in {"none", "created", "running", "succeeded", "failed"}
  /\ executed \in 0..MaxCalls

(* "The returned error is nil if the command runs [...] and exits with a      *)
(* zero exit status" (exec.go:125): a method that waits returns nil only     *)
(* when the command has been executed and has succeeded, and what Output and *)
(* CombinedOutput return has all that it wrote.  It is executed once at most, *)
(* also if a method is tried again after an error whose request took effect   *)
(* (exec.go:90).                                                             *)
NilMeansDone ==
  /\ executed <= 1
  /\ at = "nil" /\ op # "Start" =>
       /\ executed = 1 /\ cmd = "succeeded"
       /\ op \in {"Output", "CombinedOutput"} => "stdout" \in attached
       /\ op = "CombinedOutput" => "stderr" \in attached
=============================================================================
