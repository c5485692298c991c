--------------------------- MODULE FunctionInstance ---------------------------
(***************************************************************************)
(* One deployment of a function on one worker thread: the wasm instance    *)
(* that serves its requests, the mutex around the instance's store, the    *)
(* has_panicked flag with the re-instantiation it causes, and the          *)
(* background tasks the function leaves behind.                            *)
(*                                                                         *)
(* The worker is single-threaded: the futures of this module interleave    *)
(* only where the code awaits, so every action below runs from one await   *)
(* to the next.  A guest call awaits too: the epoch callback yields in the *)
(* middle of it, which is why a call has a beginning and an end here and   *)
(* why anything may happen in between.                                     *)
(*                                                                         *)
(* Sources: function/deployment.rs, function/instance.rs,                  *)
(* resources/future.rs, and the callers of handle_request in               *)
(* triggers/http.rs and tasks/worker/task.rs.                              *)
(***************************************************************************)
EXTENDS Integers, FiniteSets

CONSTANTS HttpRequests,     \* requests accepted by the worker's own listener
          InvokedRequests,  \* requests that come as FunctionInvoke messages
          Tasks,            \* background tasks the guest may create
          MaxInstances,     \* bound on the instances one behaviour creates
          Free              \* the store mutex has no owner

Requests == HttpRequests \cup InvokedRequests
Callers == Requests \cup Tasks

ASSUME InstanceAssumption ==
  /\ HttpRequests \cap InvokedRequests = {}
  /\ Requests \cap Tasks = {}
  /\ Free \notin Callers
  /\ MaxInstances \in Nat \ {0}

VARIABLES
  instance,          \* deployment.instance: what new requests are given
  created,           \* instances 1..created have been instantiated
  has_panicked,      \* FunctionInstance::has_panicked, per instance
  store,             \* owner of FunctionInstance::store, per instance
  tasks_background,  \* FunctionInstanceState::tasks_background, per instance
  progress,          \* where the future of each request stands
  handle,            \* the instance that future holds, 0 while it has none
  result,            \* what the future resolved to
  task,              \* where each background task stands
  home,              \* the instance whose table holds the task, 0 before
  spawned_by,        \* history: the caller that created the task
  abandoned          \* history: instances with a guest call dropped halfway

vars == <<instance, created, has_panicked, store, tasks_background, progress,
          handle, result, task, home, spawned_by, abandoned>>

Instances == 1..MaxInstances

WaitsForStore == {"InstanceReady", "HttpBodyReady", "PollStarted"}
InGuest == {"Invoking", "Polling"}
Pending == {"Init", "Instantiating", "Parked", "FunctionResponseReady"}
             \cup WaitsForStore \cup InGuest
Settled == {"Done", "Cancelled"}

Progress == {"None"} \cup Pending \cup Settled
Results == {"none", "response", "incorrect_response", "panicked", "crashed",
            "busy", "runtime_timeout", "instantiation_error"}
TaskStates == {"None", "Queued", "PollStarted", "Polling", "Parked", "Ended"}

TypeOK ==
  /\ instance \in Instances
  /\ created \in Instances
  /\ has_panicked \in [Instances -> BOOLEAN]
  /\ store \in [Instances -> Callers \cup {Free}]
  /\ tasks_background \in [Instances -> SUBSET Tasks]
  /\ progress \in [Requests -> Progress]
  /\ handle \in [Requests -> Instances \cup {0}]
  /\ result \in [Requests -> Results]
  /\ task \in [Tasks -> TaskStates]
  /\ home \in [Tasks -> Instances \cup {0}]
  /\ spawned_by \in [Tasks -> Callers \cup {Free}]
  /\ abandoned \in SUBSET Instances

(* FunctionDeployment::new has instantiated the first instance. *)
Init ==
  /\ instance = 1
  /\ created = 1
  /\ has_panicked = [i \in Instances |-> FALSE]
  /\ store = [i \in Instances |-> Free]
  /\ tasks_background = [i \in Instances |-> {}]
  /\ progress = [r \in Requests |-> "None"]
  /\ handle = [r \in Requests |-> 0]
  /\ result = [r \in Requests |-> "none"]
  /\ task = [t \in Tasks |-> "None"]
  /\ home = [t \in Tasks |-> 0]
  /\ spawned_by = [t \in Tasks |-> Free]
  /\ abandoned = {}

-----------------------------------------------------------------------------
(* Helpers *)

Goto(r, phase) == progress' = [progress EXCEPT ![r] = phase]
Resolve(r, value) == result' = [result EXCEPT ![r] = value]
Lock(c, i) == store[i] = Free /\ store' = [store EXCEPT ![i] = c]
Unlock(i) == store' = [store EXCEPT ![i] = Free]

(* a future waits for the mutex while another one owns it: only then can   *)
(* the one-second timer of store_lock win the select!                      *)
LockIsBusy(i) == store[i] # Free

taskVars == <<tasks_background, task, home, spawned_by>>

-----------------------------------------------------------------------------
(* Request handling: RequestHandleFuture *)

(* The first poll: a flagged instance is not used, a new one is awaited.   *)
LeaveInit(r, i) ==
  /\ handle' = [handle EXCEPT ![r] = i]
  /\ Goto(r, IF has_panicked[i] THEN "Instantiating" ELSE "InstanceReady")

(* HttpHandler::call: handle_request takes its snapshot of the current     *)
(* instance and the connection polls the future at once.                   *)
HttpCall(r) ==
  /\ progress[r] = "None"
  /\ LeaveInit(r, instance)
  /\ UNCHANGED <<instance, created, has_panicked, store, result, abandoned, taskVars>>

(* WorkerMessage::FunctionInvoke: the snapshot is taken by the worker loop, *)
(* the future is polled later, by the task that spawn_local queues.        *)
FunctionInvoke(r) ==
  /\ progress[r] = "None"
  /\ handle' = [handle EXCEPT ![r] = instance]
  /\ Goto(r, "Init")
  /\ UNCHANGED <<instance, created, has_panicked, store, result, abandoned, taskVars>>

FirstPoll(r) ==
  /\ progress[r] = "Init"
  /\ LeaveInit(r, handle[r])
  /\ UNCHANGED <<instance, created, has_panicked, store, result, abandoned, taskVars>>

(* Mutant: the deployment is given the id after the new one.               *)
InstantiatedOffByOne(r) ==
  /\ progress[r] = "Instantiating"
  /\ created < MaxInstances
  /\ created' = created + 1
  /\ instance' = created + 2
  /\ handle' = [handle EXCEPT ![r] = created + 1]
  /\ Goto(r, "InstanceReady")
  /\ UNCHANGED <<has_panicked, store, result, abandoned, taskVars>>

(* template.instantiate() has finished: the new instance serves r and      *)
(* replaces deployment.instance, whatever that has become meanwhile.       *)
Instantiated(r) ==
  /\ progress[r] = "Instantiating"
  /\ created < MaxInstances
  /\ created' = created + 1
  /\ instance' = created + 1
  /\ handle' = [handle EXCEPT ![r] = created + 1]
  /\ Goto(r, "InstanceReady")
  /\ UNCHANGED <<has_panicked, store, result, abandoned, taskVars>>

InstantiationFails(r) ==
  /\ progress[r] = "Instantiating"
  /\ Goto(r, "Done")
  /\ Resolve(r, "instantiation_error")
  /\ UNCHANGED <<instance, created, has_panicked, store, handle, abandoned, taskVars>>

(* The mutex is taken, header and body are inserted into the resource      *)
(* tables, the mutex is released, all within one poll.                     *)
InsertRequest(r) ==
  /\ progress[r] = "InstanceReady"
  /\ ~ LockIsBusy(handle[r])
  /\ Goto(r, "HttpBodyReady")
  /\ UNCHANGED <<instance, created, has_panicked, store, handle, result, abandoned, taskVars>>

(* invoke_http_trigger owns the mutex until the handler returns.           *)
InvokeStarts(r) ==
  /\ progress[r] = "HttpBodyReady"
  /\ Lock(r, handle[r])
  /\ Goto(r, "Invoking")
  /\ UNCHANGED <<instance, created, has_panicked, handle, result, abandoned, taskVars>>

(* The handler returns the id of a response future, which is polled next.  *)
InvokeReturns(r) ==
  /\ progress[r] = "Invoking"
  /\ Unlock(handle[r])
  /\ Goto(r, "PollStarted")
  /\ UNCHANGED <<instance, created, has_panicked, handle, result, abandoned, taskVars>>

(* A panic flags the instance; any other trap of the handler does not.     *)
(* Either way the future ends here, before background tasks are drained.   *)
InvokeTraps(r, trap) ==
  /\ progress[r] = "Invoking"
  /\ Unlock(handle[r])
  /\ has_panicked' = [has_panicked EXCEPT ![handle[r]] = @ \/ trap = "panicked"]
  /\ Goto(r, "Done")
  /\ Resolve(r, trap)
  /\ UNCHANGED <<instance, created, handle, abandoned, taskVars>>

(* The one-second timer of store_lock and of invoke_http_trigger.  In      *)
(* function_response_poll it ends the response future only: the request    *)
(* goes on to the drain, which waits for the same mutex without a timer.   *)
StoreLockTimeout(r) ==
  /\ progress[r] \in WaitsForStore
  /\ LockIsBusy(handle[r])
  /\ Goto(r, IF progress[r] = "PollStarted" THEN "FunctionResponseReady" ELSE "Done")
  /\ Resolve(r, IF progress[r] = "HttpBodyReady" THEN "busy" ELSE "runtime_timeout")
  /\ UNCHANGED <<instance, created, has_panicked, store, handle, abandoned, taskVars>>

PollStarts(r) ==
  /\ progress[r] = "PollStarted"
  /\ Lock(r, handle[r])
  /\ Goto(r, "Polling")
  /\ UNCHANGED <<instance, created, has_panicked, handle, result, abandoned, taskVars>>

PollPending(r) ==
  /\ progress[r] = "Polling"
  /\ Unlock(handle[r])
  /\ Goto(r, "Parked")
  /\ UNCHANGED <<instance, created, has_panicked, handle, result, abandoned, taskVars>>

(* The guest's waker wakes the task: a new poll call is started.           *)
Wake(r) ==
  /\ progress[r] = "Parked"
  /\ Goto(r, "PollStarted")
  /\ UNCHANGED <<instance, created, has_panicked, store, handle, result, abandoned, taskVars>>

PollReady(r, value) ==
  /\ progress[r] = "Polling"
  /\ Unlock(handle[r])
  /\ Goto(r, "FunctionResponseReady")
  /\ Resolve(r, value)
  /\ UNCHANGED <<instance, created, has_panicked, handle, abandoned, taskVars>>

(* FunctionResponseFuture flags the instance on every kind of trap.        *)
PollTraps(r, trap) ==
  /\ progress[r] = "Polling"
  /\ Unlock(handle[r])
  /\ has_panicked' = [has_panicked EXCEPT ![handle[r]] = TRUE]
  /\ Goto(r, "FunctionResponseReady")
  /\ Resolve(r, trap)
  /\ UNCHANGED <<instance, created, handle, abandoned, taskVars>>

(* Mutant: the tasks are given the deployment's instance of the moment.    *)
DrainToCurrentInstance(r) ==
  LET i == handle[r] IN
  /\ progress[r] = "FunctionResponseReady"
  /\ ~ LockIsBusy(i)
  /\ tasks_background' = [tasks_background EXCEPT ![i] = {}]
  /\ task' = [t \in Tasks |-> IF t \in tasks_background[i] THEN "PollStarted" ELSE task[t]]
  /\ home' = [t \in Tasks |-> IF t \in tasks_background[i] THEN instance ELSE home[t]]
  /\ Goto(r, "Done")
  /\ UNCHANGED <<instance, created, has_panicked, store, handle, result, spawned_by, abandoned>>

(* Mutant: the queue is that of the deployment's instance of the moment.   *)
DrainCurrentQueue(r) ==
  /\ progress[r] = "FunctionResponseReady"
  /\ ~ LockIsBusy(instance)
  /\ tasks_background' = [tasks_background EXCEPT ![instance] = {}]
  /\ task' = [t \in Tasks |->
       IF t \in tasks_background[instance] THEN "PollStarted" ELSE task[t]]
  /\ Goto(r, "Done")
  /\ UNCHANGED <<instance, created, has_panicked, store, handle, result, home,
                 spawned_by, abandoned>>

(* Whatever the response future resolved to, every task queued on the      *)
(* instance is spawned, those of other requests too.                       *)
DrainBackgroundTasks(r) ==
  LET i == handle[r] IN
  /\ progress[r] = "FunctionResponseReady"
  /\ ~ LockIsBusy(i)
  /\ tasks_background' = [tasks_background EXCEPT ![i] = {}]
  /\ task' = [t \in Tasks |-> IF t \in tasks_background[i] THEN "PollStarted" ELSE task[t]]
  /\ home' = [t \in Tasks |-> IF t \in tasks_background[i] THEN i ELSE home[t]]
  /\ Goto(r, "Done")
  /\ UNCHANGED <<instance, created, has_panicked, store, handle, result, spawned_by, abandoned>>

(* Mutant: dropping a guest call forgets the guard of the mutex.           *)
CancelKeepsStore(r) ==
  /\ progress[r] \in Pending
  /\ Goto(r, "Cancelled")
  /\ UNCHANGED <<instance, created, has_panicked, store, handle, result, abandoned, taskVars>>

(* Mutant: the timeout covers the response only, not the drain after it.   *)
CancelBeforeDrain(r) ==
  /\ progress[r] \in Pending \ {"FunctionResponseReady"}
  /\ Goto(r, "Cancelled")
  /\ IF progress[r] \in InGuest
       THEN Unlock(handle[r]) /\ abandoned' = abandoned \cup {handle[r]}
       ELSE UNCHANGED <<store, abandoned>>
  /\ UNCHANGED <<instance, created, has_panicked, handle, result, taskVars>>

(* The future is dropped: the 20-second timeout of HttpHandler::call, or   *)
(* for an invoked request response_tx.closed().  Dropping a guest call     *)
(* unwinds it and drops the guard of the mutex.                            *)
Cancel(r) ==
  /\ progress[r] \in Pending
  /\ Goto(r, "Cancelled")
  /\ IF progress[r] \in InGuest
       THEN Unlock(handle[r]) /\ abandoned' = abandoned \cup {handle[r]}
       ELSE UNCHANGED <<store, abandoned>>
  /\ UNCHANGED <<instance, created, has_panicked, handle, result, taskVars>>

-----------------------------------------------------------------------------
(* Background tasks: FunctionBackgroundTask *)

Running(c) ==
  IF c \in Requests THEN progress[c] \in InGuest ELSE task[c] = "Polling"

Where(c) == IF c \in Requests THEN handle[c] ELSE home[c]

(* fx_tasks_background_spawn, called by the guest in the middle of a call. *)
SpawnBackground(c, t) ==
  /\ Running(c)
  /\ task[t] = "None"
  /\ task' = [task EXCEPT ![t] = "Queued"]
  /\ tasks_background' = [tasks_background EXCEPT ![Where(c)] = @ \cup {t}]
  /\ home' = [home EXCEPT ![t] = Where(c)]
  /\ spawned_by' = [spawned_by EXCEPT ![t] = c]
  /\ UNCHANGED <<instance, created, has_panicked, store, progress, handle, result, abandoned>>

TaskGoto(t, phase) == task' = [task EXCEPT ![t] = phase]

requestVars == <<progress, handle, result>>

(* background_task_poll waits for the mutex without a timer.               *)
TaskPollStarts(t) ==
  /\ task[t] = "PollStarted"
  /\ Lock(t, home[t])
  /\ TaskGoto(t, "Polling")
  /\ UNCHANGED <<instance, created, has_panicked, tasks_background, home, spawned_by,
                 requestVars, abandoned>>

(* The poll is pending, or the task is over (done, or an ABI error).       *)
TaskPollReturns(t, phase) ==
  /\ task[t] = "Polling"
  /\ Unlock(home[t])
  /\ TaskGoto(t, phase)
  /\ UNCHANGED <<instance, created, has_panicked, tasks_background, home, spawned_by,
                 requestVars, abandoned>>

TaskWake(t) ==
  /\ task[t] = "Parked"
  /\ TaskGoto(t, "PollStarted")
  /\ UNCHANGED <<instance, created, has_panicked, store, tasks_background, home,
                 spawned_by, requestVars, abandoned>>

TaskTraps(t) ==
  /\ task[t] = "Polling"
  /\ Unlock(home[t])
  /\ has_panicked' = [has_panicked EXCEPT ![home[t]] = TRUE]
  /\ TaskGoto(t, "Ended")
  /\ UNCHANGED <<instance, created, tasks_background, home, spawned_by, requestVars, abandoned>>

-----------------------------------------------------------------------------
RequestStep(r) ==
  \/ FirstPoll(r)
  \/ Instantiated(r)
  \/ InstantiationFails(r)
  \/ InsertRequest(r)
  \/ InvokeStarts(r)
  \/ InvokeReturns(r)
  \/ \E trap \in {"panicked", "crashed"} : InvokeTraps(r, trap) \/ PollTraps(r, trap)
  \/ StoreLockTimeout(r)
  \/ PollStarts(r)
  \/ PollPending(r)
  \/ Wake(r)
  \/ \E value \in {"response", "incorrect_response"} : PollReady(r, value)
  \/ DrainBackgroundTasks(r)
  \/ Cancel(r)

TaskStep(t) ==
  \/ TaskPollStarts(t)
  \/ \E phase \in {"Parked", "Ended"} : TaskPollReturns(t, phase)
  \/ TaskWake(t)
  \/ TaskTraps(t)

Next ==
  \/ \E r \in HttpRequests : HttpCall(r)
  \/ \E r \in InvokedRequests : FunctionInvoke(r)
  \/ \E r \in Requests : RequestStep(r)
  \/ \E c \in Callers, t \in Tasks : SpawnBackground(c, t)
  \/ \E t \in Tasks : TaskStep(t)

Spec == Init /\ [][Next]_vars

(* The tokio timer of HttpHandler::call always fires: nothing a guest does *)
(* blocks the worker thread, since its calls yield every 10 ms.            *)
TimerFairSpec == Spec /\ \A r \in HttpRequests : WF_vars(Cancel(r))

-----------------------------------------------------------------------------
(* Properties *)

(* The store of an instance is owned exactly while one future has a guest  *)
(* call in progress there: two calls never share an instance, and no       *)
(* settled, cancelled or parked future keeps the mutex (LocalMutex in      *)
(* instance.rs, released on every return, trap and drop).                  *)
StoreOwnership ==
  /\ \A i \in Instances : store[i] # Free => Running(store[i]) /\ Where(store[i]) = i
  /\ \A c \in Callers : Running(c) => Where(c) \in Instances /\ store[Where(c)] = c

(* A background task is known by an id in the table of one guest: it sits  *)
(* in the queue of the instance whose guest created it, in no other queue  *)
(* and in none once it was spawned, and it is polled on that instance.     *)
TasksStayHome ==
  /\ \A t \in Tasks, i \in Instances :
       t \in tasks_background[i] <=> task[t] = "Queued" /\ home[t] = i
  /\ \A t \in Tasks :
       task[t] # "None" => spawned_by[t] \in Callers /\ home[t] = Where(spawned_by[t])

(* A request that is answered, and not because its guest call trapped, has *)
(* had every task it created started, by itself or by another request.     *)
(* The deployment may have another instance by then, even one that a       *)
(* second request made for the same panic, in the place of a healthy one:  *)
(* each request drains the queue of its own.                               *)
AnsweredTasksStart ==
  \A t \in Tasks :
    /\ spawned_by[t] \in Requests
    /\ progress[spawned_by[t]] = "Done"
    /\ result[spawned_by[t]] \notin {"panicked", "crashed"}
    => task[t] # "Queued"

(* Every http request is answered, and its future leaves the mutex behind, *)
(* even if guest calls never return: the timeout reaches every await of    *)
(* RequestHandleFuture, the drain without a timer included.                *)
HttpRequestSettles ==
  \A r \in HttpRequests :
    progress[r] \in Pending
      ~> progress[r] \in Settled /\ \A i \in Instances : store[i] # r

(* instance.rs:95: "each function call will be executed to completion      *)
(* before fx function does anything else".                                 *)
CallsRunToCompletion == \A i \in abandoned : store[i] = Free

(* tasks.rs:6 of the sdk: "runs a task in background after request         *)
(* processing is finished".                                                *)
TaskAfterRequest ==
  \A t \in Tasks :
    task[t] \in {"PollStarted", "Polling", "Parked"} /\ spawned_by[t] \in Requests
      => progress[spawned_by[t]] \in Settled
=============================================================================
