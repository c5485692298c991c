-------------------------- MODULE MCFunctionInstance --------------------------
(* Two http requests, one invoked request, one background task and up to   *)
(* three instances: enough for a snapshot to go stale twice.               *)
EXTENDS FunctionInstance

CONSTANTS h1, h2, f1, t1

MCHttpRequests == {h1, h2}
MCInvokedRequests == {f1}
MCTasks == {t1}
=============================================================================
