--------------------------- MODULE DeferredCalls ---------------------------
(***************************************************************************)
(* What Action.exec promises (src/man/japokwm-action.5.scd): a command     *)
(* runs asynchronously, and if a function is given, it is called with the  *)
(* output of its own command: once, and after the command has ended.       *)
(*                                                                         *)
(* The promise is made to scripts that wait for each result before they    *)
(* start the next command.  From the first overlap on, nothing is said of  *)
(* the calls but that the commands they belong to were started.            *)
(***************************************************************************)
EXTENDS Integers

CONSTANTS
  Jobs,          \* the calls of Action.exec
  WithFunction   \* those that are given a function

VARIABLES
  phase,      \* of each job: new, running, ended, or failed to start
  calls,      \* how many times the function of each job was called
  overlapped  \* a command was started while another result was outstanding

vars == <<phase, calls, overlapped>>

\* The result of the job is still to come.
Outstanding(j) ==
  \/ phase[j] = "running"
  \/ phase[j] = "ended" /\ j \in WithFunction /\ calls[j] = 0

Init ==
  /\ phase = [j \in Jobs |-> "new"]
  /\ calls = [j \in Jobs |-> 0]
  /\ overlapped = FALSE

Start(j) ==
  /\ phase[j] = "new"
  /\ phase' = [phase EXCEPT ![j] = "running"]
  /\ overlapped' = (overlapped \/ \E i \in Jobs : Outstanding(i))
  /\ UNCHANGED calls

\* The command ends, or it could not be run at all.
End(j, how) ==
  /\ phase[j] = "running"
  /\ phase' = [phase EXCEPT ![j] = how]
  /\ UNCHANGED <<calls, overlapped>>

Deliver(j) ==
  /\ j \in WithFunction
  /\ phase[j] = "ended"
  /\ calls[j] = 0
  /\ calls' = [calls EXCEPT ![j] = 1]
  /\ UNCHANGED <<phase, overlapped>>

\* After an overlap the function of any command may be called at any time.
Stray(j) ==
  /\ overlapped
  /\ j \in WithFunction
  /\ phase[j] # "new"
  /\ calls' = [calls EXCEPT ![j] = @ + 1]
  /\ UNCHANGED <<phase, overlapped>>

Next ==
  \E j \in Jobs :
    Start(j) \/ Deliver(j) \/ Stray(j) \/ \E how \in {"ended", "failed"} : End(j, how)

Safety == Init /\ [][Next]_vars

\* Without an overlap, every result is delivered in the end.
Spec == Safety /\ \A j \in Jobs : WF_vars(~overlapped /\ Deliver(j))

=============================================================================
