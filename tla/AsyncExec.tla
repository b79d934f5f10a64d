----------------------------- MODULE AsyncExec -----------------------------
(***************************************************************************)
(* Action.exec (src/src/lib/lib_action.c, src/src/server.c): each call     *)
(* starts a detached thread that runs the command and hands the result to  *)
(* the event loop, which calls the Lua function.                           *)
(*                                                                         *)
(* The hand-over is one pointer, server.async_handler.data, and one libuv  *)
(* async handle, whose wake-ups coalesce.  The threads take no lock.       *)
(***************************************************************************)
EXTENDS Integers, FiniteSets

CONSTANTS
  Jobs,          \* the calls of Action.exec; bound: each happens at most once
  WithFunction,  \* those that are given a function (lua_func_ref # -1)
  NoJob          \* the null pointer

ASSUME WithFunctionAssumption == WithFunction \subseteq Jobs
ASSUME NoJobAssumption == NoJob \notin Jobs

VARIABLES
  stage,    \* what the thread of each job has done
  slot,     \* server.async_handler.data
  pending,  \* the async handle is marked pending
  loop,     \* where the event loop is in serving the handle
  data,     \* the local variable of _async_handler_function
  freed,    \* the jobs whose function_data is freed
  calls,    \* how many times the function of each job was called
  overlapped  \* history: a command was started while a result was outstanding

asyncVars == <<stage, slot, pending, loop, data, freed, calls, overlapped>>

\* The result of the job is still to come.
Outstanding(j) ==
  \/ stage[j] \in {"command", "stored"}
  \/ stage[j] = "done" /\ j \in WithFunction /\ calls[j] = 0

-----------------------------------------------------------------------------
(* The threads *)

\* lib_exec, called by the event loop between two events or from a function it
\* is calling.
LibExec(j) ==
  /\ stage[j] = "new"
  /\ loop \in {"idle", "called"}
  /\ stage' = [stage EXCEPT ![j] = "command"]
  /\ overlapped' = (overlapped \/ \E i \in Jobs : Outstanding(i))
  /\ UNCHANGED <<slot, pending, loop, data, freed, calls>>

\* _call: popen fails.
PopenFails(j) ==
  /\ stage[j] = "command"
  /\ stage' = [stage EXCEPT ![j] = "failed"]
  /\ UNCHANGED <<slot, pending, loop, data, freed, calls, overlapped>>

\* _call: the command has ended; the result goes to the slot, even if no
\* function waits for it.
Store(j) ==
  /\ stage[j] = "command"
  /\ slot' = j
  /\ stage' = [stage EXCEPT ![j] = IF j \in WithFunction THEN "stored" ELSE "done"]
  /\ UNCHANGED <<pending, loop, data, freed, calls, overlapped>>

\* Mutant: the loop is not woken while it serves an earlier wake-up.
SendUnlessServing(j) ==
  /\ stage[j] = "stored"
  /\ stage' = [stage EXCEPT ![j] = "done"]
  /\ pending' = (pending \/ loop = "idle")
  /\ UNCHANGED <<slot, loop, data, freed, calls, overlapped>>

\* uv_async_send: one mark, however many threads send.
Send(j) ==
  /\ stage[j] = "stored"
  /\ stage' = [stage EXCEPT ![j] = "done"]
  /\ pending' = TRUE
  /\ UNCHANGED <<slot, loop, data, freed, calls, overlapped>>

-----------------------------------------------------------------------------
(* The event loop *)

\* Mutant: the mark stays.
WakeKeepsMark ==
  /\ pending
  /\ loop = "idle"
  /\ loop' = "woken"
  /\ UNCHANGED <<stage, slot, pending, data, freed, calls, overlapped>>

\* uv_run: the mark is cleared before the handler runs.
Wake ==
  /\ pending
  /\ loop = "idle"
  /\ pending' = FALSE
  /\ loop' = "woken"
  /\ UNCHANGED <<stage, slot, data, freed, calls, overlapped>>

\* _async_handler_function: data = arg->data
Take ==
  /\ loop = "woken"
  /\ data' = slot
  /\ loop' = "taken"
  /\ UNCHANGED <<stage, slot, pending, freed, calls, overlapped>>

\* What a call through data can reach.  If data is freed, its memory may belong
\* to any job by now, or to none.
Callees ==
  IF data \in freed THEN {j \in Jobs : stage[j] # "new"} \cup {NoJob} ELSE {data}

\* _async_handler_function: the function is called; the reference -1 of a job
\* without one only gives an error message.
CallFunction ==
  /\ loop = "taken"
  /\ loop' = "called"
  /\ \E j \in Callees :
       calls' = IF j \in WithFunction THEN [calls EXCEPT ![j] = @ + 1] ELSE calls
  /\ UNCHANGED <<stage, slot, pending, data, freed, overlapped>>

\* _async_handler_function: luaL_unref and free
Free ==
  /\ loop = "called"
  /\ loop' = "idle"
  /\ freed' = freed \cup {data}
  /\ UNCHANGED <<stage, slot, pending, data, calls, overlapped>>

-----------------------------------------------------------------------------
AsyncInit ==
  /\ stage = [j \in Jobs |-> "new"]
  /\ slot = NoJob
  /\ pending = FALSE
  /\ loop = "idle"
  /\ data = NoJob
  /\ freed = {}
  /\ calls = [j \in Jobs |-> 0]
  /\ overlapped = FALSE

Thread(j) == PopenFails(j) \/ Store(j) \/ Send(j)

EventLoop == Wake \/ Take \/ CallFunction \/ Free

AsyncNext == (\E j \in Jobs : LibExec(j) \/ Thread(j)) \/ EventLoop

AsyncSpec == AsyncInit /\ [][AsyncNext]_asyncVars

\* The event loop polls the descriptor of the handle, and a thread that has
\* stored its result goes on.  Commands need not end.
AsyncFairSpec == AsyncSpec /\ WF_asyncVars(EventLoop) /\ \A j \in Jobs : WF_asyncVars(Send(j))

-----------------------------------------------------------------------------
AsyncTypeOK ==
  /\ stage \in [Jobs -> {"new", "command", "stored", "done", "failed"}]
  /\ slot \in Jobs \cup {NoJob}
  /\ pending \in BOOLEAN
  /\ loop \in {"idle", "woken", "taken", "called"}
  /\ data \in Jobs \cup {NoJob}
  /\ freed \subseteq Jobs
  /\ calls \in [Jobs -> Nat]
  /\ overlapped \in BOOLEAN

\* The handler never finds the null pointer in the slot: whoever wakes the loop
\* has stored a result before.
HandlerHasData == pending \/ loop # "idle" => slot # NoJob

\* A result that nobody overwrites is delivered, even if its wake-up coalesces
\* with others or arrives while the loop is serving one.
LastResultDelivered ==
  \A j \in WithFunction : <>[](slot = j) => <>(calls[j] > 0)

\* The handler uses no freed result as long as scripts wait for each result.
NoUseAfterFree == ~overlapped /\ loop = "taken" => data \notin freed

\* What the handler follows, from the slot to the result, is there and not freed
\* (_async_handler_function).
HandlerSound == AsyncTypeOK /\ HandlerHasData /\ NoUseAfterFree

-----------------------------------------------------------------------------
(* Implements DeferredCalls *)

Phase(j) ==
  CASE stage[j] \in {"new", "failed"}  -> stage[j]
    [] stage[j] = "command"            -> "running"
    [] stage[j] \in {"stored", "done"} -> "ended"

Promise == INSTANCE DeferredCalls WITH phase <- [j \in Jobs |-> Phase(j)]

\* Scripts that wait for each result get what the manual promises, and later
\* overlaps do not undo it.
PromiseKept == Promise!Spec

-----------------------------------------------------------------------------
(* What the manual says and the code does not do when commands overlap *)

\* man/japokwm-action.5.scd: the function is called with the output.
EveryResultDelivered ==
  \A j \in WithFunction : stage[j] = "stored" ~> calls[j] > 0

=============================================================================
