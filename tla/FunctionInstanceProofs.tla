------------------------ MODULE FunctionInstanceProofs ------------------------
(***************************************************************************)
(* Safety of FunctionInstance for any number of requests, tasks and        *)
(* instances.                                                              *)
(***************************************************************************)
EXTENDS FunctionInstance, TLAPS

(* Every future that holds an instance holds one that exists.              *)
HandlesExist ==
  /\ instance <= created
  /\ \A r \in Requests : progress[r] # "None" => handle[r] \in 1..created
  /\ \A t \in Tasks : task[t] # "None" => home[t] \in 1..created

(* A request that has created a task has been in the guest.                *)
CreatorsAreBound ==
  \A t \in Tasks :
    spawned_by[t] \in Requests
      => progress[spawned_by[t]] \notin {"None", "Init", "Instantiating", "InstanceReady",
                                        "HttpBodyReady"}

(* A task created by a task knows its creator as one that was born.        *)
CreatorsAreBorn ==
  \A t \in Tasks : spawned_by[t] \in Tasks => task[spawned_by[t]] # "None"

(* The inductive invariant: StoreOwnership and TasksStayHome hold by what  *)
(* a future knows of its own instance, which the other parts pin down.     *)
IInv ==
  /\ TypeOK
  /\ StoreOwnership
  /\ TasksStayHome
  /\ HandlesExist
  /\ AnsweredTasksStart
  /\ CreatorsAreBound
  /\ CreatorsAreBorn

-----------------------------------------------------------------------------
(* One healthy instance, nobody in it.                                     *)
LEMMA InitInv == Init => IInv
<1> SUFFICES ASSUME Init PROVE IInv
  OBVIOUS
<1> USE InstanceAssumption DEF Init, Instances, Requests, Callers
<1>1. TypeOK
  BY DEF TypeOK, Progress, Pending, Settled, InGuest, WaitsForStore, Results, TaskStates
<1>2. StoreOwnership
  BY DEF StoreOwnership, Running, InGuest
<1>3. TasksStayHome
  BY DEF TasksStayHome
<1>4. HandlesExist /\ AnsweredTasksStart /\ CreatorsAreBound /\ CreatorsAreBorn
  BY DEF HandlesExist, AnsweredTasksStart, CreatorsAreBound, CreatorsAreBorn
<1>5. QED
  BY <1>1, <1>2, <1>3, <1>4 DEF IInv

(* A request accepted here holds the instance of the moment.               *)
LEMMA HttpCallInv ==
  ASSUME IInv, NEW r \in HttpRequests, HttpCall(r)
  PROVE  IInv'
<1> USE InstanceAssumption DEF IInv, TypeOK, Instances, Requests, Callers, InGuest, HttpCall, LeaveInit, Goto, taskVars
<1>1. TypeOK'
  BY DEF Progress, Pending, Settled, WaitsForStore, Results, TaskStates
<1>2. StoreOwnership'
  BY DEF StoreOwnership, HandlesExist, Running, Where, Pending, WaitsForStore
<1>3. TasksStayHome'
  BY DEF TasksStayHome, CreatorsAreBound, CreatorsAreBorn, StoreOwnership, HandlesExist, Running, Where
<1>4. HandlesExist'
  BY DEF HandlesExist, StoreOwnership, TasksStayHome, Running, Where, Pending, WaitsForStore
<1>5. CreatorsAreBound' /\ CreatorsAreBorn'
  BY DEF CreatorsAreBound, CreatorsAreBorn, Running, Pending, WaitsForStore
<1>6. AnsweredTasksStart'
  BY DEF AnsweredTasksStart, CreatorsAreBound, TasksStayHome, StoreOwnership, Running, Where, Pending, WaitsForStore
<1>7. QED
  BY <1>1, <1>2, <1>3, <1>4, <1>5, <1>6

(* A snapshot names an instance that exists.                               *)
LEMMA FunctionInvokeInv ==
  ASSUME IInv, NEW r \in InvokedRequests, FunctionInvoke(r)
  PROVE  IInv'
<1> USE InstanceAssumption DEF IInv, TypeOK, Instances, Requests, Callers, InGuest, FunctionInvoke, Goto, taskVars
<1>1. TypeOK'
  BY DEF Progress, Pending, Settled, WaitsForStore, Results, TaskStates
<1>2. StoreOwnership'
  BY DEF StoreOwnership, HandlesExist, Running, Where, Pending, WaitsForStore
<1>3. TasksStayHome'
  BY DEF TasksStayHome, CreatorsAreBound, CreatorsAreBorn, StoreOwnership, HandlesExist, Running, Where
<1>4. HandlesExist'
  BY DEF HandlesExist, StoreOwnership, TasksStayHome, Running, Where, Pending, WaitsForStore
<1>5. CreatorsAreBound' /\ CreatorsAreBorn'
  BY DEF CreatorsAreBound, CreatorsAreBorn, Running, Pending, WaitsForStore
<1>6. AnsweredTasksStart'
  BY DEF AnsweredTasksStart, CreatorsAreBound, TasksStayHome, StoreOwnership, Running, Where, Pending, WaitsForStore
<1>7. QED
  BY <1>1, <1>2, <1>3, <1>4, <1>5, <1>6

(* The first poll keeps the snapshot, whatever it chooses.                 *)
LEMMA FirstPollInv ==
  ASSUME IInv, NEW r \in Requests, FirstPoll(r)
  PROVE  IInv'
<1> USE InstanceAssumption DEF IInv, TypeOK, Instances, Requests, Callers, InGuest, FirstPoll, LeaveInit, Goto, taskVars
<1>1. TypeOK'
  BY DEF Progress, Pending, Settled, WaitsForStore, Results, TaskStates
<1>2. StoreOwnership'
  BY DEF StoreOwnership, HandlesExist, Running, Where, Pending, WaitsForStore
<1>3. TasksStayHome'
  BY DEF TasksStayHome, CreatorsAreBound, CreatorsAreBorn, StoreOwnership, HandlesExist, Running, Where
<1>4. HandlesExist'
  BY DEF HandlesExist, StoreOwnership, TasksStayHome, Running, Where, Pending, WaitsForStore
<1>5. CreatorsAreBound' /\ CreatorsAreBorn'
  BY DEF CreatorsAreBound, CreatorsAreBorn, Running, Pending, WaitsForStore
<1>6. AnsweredTasksStart'
  BY DEF AnsweredTasksStart, CreatorsAreBound, TasksStayHome, StoreOwnership, Running, Where, Pending, WaitsForStore
<1>7. QED
  BY <1>1, <1>2, <1>3, <1>4, <1>5, <1>6

(* A new instance has no owner and no tasks.                               *)
LEMMA InstantiatedInv ==
  ASSUME IInv, NEW r \in Requests, Instantiated(r)
  PROVE  IInv'
<1> USE InstanceAssumption DEF IInv, TypeOK, Instances, Requests, Callers, InGuest, Instantiated, Goto, taskVars
<1>1. TypeOK'
  BY DEF Progress, Pending, Settled, WaitsForStore, Results, TaskStates
<1>2. StoreOwnership'
  BY DEF StoreOwnership, HandlesExist, Running, Where, Pending, WaitsForStore
<1>3. TasksStayHome'
  BY DEF TasksStayHome, CreatorsAreBound, CreatorsAreBorn, StoreOwnership, HandlesExist, Running, Where
<1>4. HandlesExist'
  BY DEF HandlesExist, StoreOwnership, TasksStayHome, Running, Where, Pending, WaitsForStore
<1>5. CreatorsAreBound' /\ CreatorsAreBorn'
  BY DEF CreatorsAreBound, CreatorsAreBorn, Running, Pending, WaitsForStore
<1>6. AnsweredTasksStart'
  BY DEF AnsweredTasksStart, CreatorsAreBound, TasksStayHome, StoreOwnership, Running, Where, Pending, WaitsForStore
<1>7. QED
  BY <1>1, <1>2, <1>3, <1>4, <1>5, <1>6

(* A request without an instance ends.                                     *)
LEMMA InstantiationFailsInv ==
  ASSUME IInv, NEW r \in Requests, InstantiationFails(r)
  PROVE  IInv'
<1> USE InstanceAssumption DEF IInv, TypeOK, Instances, Requests, Callers, InGuest, InstantiationFails, Goto, Resolve, taskVars
<1>1. TypeOK'
  BY DEF Progress, Pending, Settled, WaitsForStore, Results, TaskStates
<1>2. StoreOwnership'
  BY DEF StoreOwnership, HandlesExist, Running, Where, Pending, WaitsForStore
<1>3. TasksStayHome'
  BY DEF TasksStayHome, CreatorsAreBound, CreatorsAreBorn, StoreOwnership, HandlesExist, Running, Where
<1>4. HandlesExist'
  BY DEF HandlesExist, StoreOwnership, TasksStayHome, Running, Where, Pending, WaitsForStore
<1>5. CreatorsAreBound' /\ CreatorsAreBorn'
  BY DEF CreatorsAreBound, CreatorsAreBorn, Running, Pending, WaitsForStore
<1>6. AnsweredTasksStart'
  BY DEF AnsweredTasksStart, CreatorsAreBound, TasksStayHome, StoreOwnership, Running, Where, Pending, WaitsForStore
<1>7. QED
  BY <1>1, <1>2, <1>3, <1>4, <1>5, <1>6

(* Inserting the request leaves the mutex free again.                      *)
LEMMA InsertRequestInv ==
  ASSUME IInv, NEW r \in Requests, InsertRequest(r)
  PROVE  IInv'
<1> USE InstanceAssumption DEF IInv, TypeOK, Instances, Requests, Callers, InGuest, InsertRequest, LockIsBusy, Goto, taskVars
<1>1. TypeOK'
  BY DEF Progress, Pending, Settled, WaitsForStore, Results, TaskStates
<1>2. StoreOwnership'
  BY DEF StoreOwnership, HandlesExist, Running, Where, Pending, WaitsForStore
<1>3. TasksStayHome'
  BY DEF TasksStayHome, CreatorsAreBound, CreatorsAreBorn, StoreOwnership, HandlesExist, Running, Where
<1>4. HandlesExist'
  BY DEF HandlesExist, StoreOwnership, TasksStayHome, Running, Where, Pending, WaitsForStore
<1>5. CreatorsAreBound' /\ CreatorsAreBorn'
  BY DEF CreatorsAreBound, CreatorsAreBorn, Running, Pending, WaitsForStore
<1>6. AnsweredTasksStart'
  BY DEF AnsweredTasksStart, CreatorsAreBound, TasksStayHome, StoreOwnership, Running, Where, Pending, WaitsForStore
<1>7. QED
  BY <1>1, <1>2, <1>3, <1>4, <1>5, <1>6

(* A call begins only on a free instance.                                  *)
LEMMA InvokeStartsInv ==
  ASSUME IInv, NEW r \in Requests, InvokeStarts(r)
  PROVE  IInv'
<1> USE InstanceAssumption DEF IInv, TypeOK, Instances, Requests, Callers, InGuest, InvokeStarts, Lock, Goto, taskVars
<1>1. TypeOK'
  BY DEF Progress, Pending, Settled, WaitsForStore, Results, TaskStates
<1>2. StoreOwnership'
  BY DEF StoreOwnership, HandlesExist, Running, Where, Pending, WaitsForStore
<1>3. TasksStayHome'
  BY DEF TasksStayHome, CreatorsAreBound, CreatorsAreBorn, StoreOwnership, HandlesExist, Running, Where
<1>4. HandlesExist'
  BY DEF HandlesExist, StoreOwnership, TasksStayHome, Running, Where, Pending, WaitsForStore
<1>5. CreatorsAreBound' /\ CreatorsAreBorn'
  BY DEF CreatorsAreBound, CreatorsAreBorn, Running, Pending, WaitsForStore
<1>6. AnsweredTasksStart'
  BY DEF AnsweredTasksStart, CreatorsAreBound, TasksStayHome, StoreOwnership, Running, Where, Pending, WaitsForStore
<1>7. QED
  BY <1>1, <1>2, <1>3, <1>4, <1>5, <1>6

(* A returning call gives the mutex back.                                  *)
LEMMA InvokeReturnsInv ==
  ASSUME IInv, NEW r \in Requests, InvokeReturns(r)
  PROVE  IInv'
<1> USE InstanceAssumption DEF IInv, TypeOK, Instances, Requests, Callers, InGuest, InvokeReturns, Unlock, Goto, taskVars
<1>1. TypeOK'
  BY DEF Progress, Pending, Settled, WaitsForStore, Results, TaskStates
<1>2. StoreOwnership'
  BY DEF StoreOwnership, HandlesExist, Running, Where, Pending, WaitsForStore
<1>3. TasksStayHome'
  BY DEF TasksStayHome, CreatorsAreBound, CreatorsAreBorn, StoreOwnership, HandlesExist, Running, Where
<1>4. HandlesExist'
  BY DEF HandlesExist, StoreOwnership, TasksStayHome, Running, Where, Pending, WaitsForStore
<1>5. CreatorsAreBound' /\ CreatorsAreBorn'
  BY DEF CreatorsAreBound, CreatorsAreBorn, Running, Pending, WaitsForStore
<1>6. AnsweredTasksStart'
  BY DEF AnsweredTasksStart, CreatorsAreBound, TasksStayHome, StoreOwnership, Running, Where, Pending, WaitsForStore
<1>7. QED
  BY <1>1, <1>2, <1>3, <1>4, <1>5, <1>6

(* So does a trapping one, flag or no flag.                                *)
LEMMA InvokeTrapsInv ==
  ASSUME IInv, NEW r \in Requests, NEW trap \in {"panicked", "crashed"}, InvokeTraps(r, trap)
  PROVE  IInv'
<1> USE InstanceAssumption DEF IInv, TypeOK, Instances, Requests, Callers, InGuest, InvokeTraps, Unlock, Goto, Resolve, taskVars
<1>1. TypeOK'
  BY DEF Progress, Pending, Settled, WaitsForStore, Results, TaskStates
<1>2. StoreOwnership'
  BY DEF StoreOwnership, HandlesExist, Running, Where, Pending, WaitsForStore
<1>3. TasksStayHome'
  BY DEF TasksStayHome, CreatorsAreBound, CreatorsAreBorn, StoreOwnership, HandlesExist, Running, Where
<1>4. HandlesExist'
  BY DEF HandlesExist, StoreOwnership, TasksStayHome, Running, Where, Pending, WaitsForStore
<1>5. CreatorsAreBound' /\ CreatorsAreBorn'
  BY DEF CreatorsAreBound, CreatorsAreBorn, Running, Pending, WaitsForStore
<1>6. AnsweredTasksStart'
  BY DEF AnsweredTasksStart, CreatorsAreBound, TasksStayHome, StoreOwnership, Running, Where, Pending, WaitsForStore
<1>7. QED
  BY <1>1, <1>2, <1>3, <1>4, <1>5, <1>6

(* A timeout of the lock takes nothing from its owner.                     *)
LEMMA StoreLockTimeoutInv ==
  ASSUME IInv, NEW r \in Requests, StoreLockTimeout(r)
  PROVE  IInv'
<1> USE InstanceAssumption DEF IInv, TypeOK, Instances, Requests, Callers, InGuest, StoreLockTimeout, LockIsBusy, Goto, Resolve, taskVars
<1>1. TypeOK'
  BY DEF Progress, Pending, Settled, WaitsForStore, Results, TaskStates
<1>2. StoreOwnership'
  BY DEF StoreOwnership, HandlesExist, Running, Where, Pending, WaitsForStore
<1>3. TasksStayHome'
  BY DEF TasksStayHome, CreatorsAreBound, CreatorsAreBorn, StoreOwnership, HandlesExist, Running, Where
<1>4. HandlesExist'
  BY DEF HandlesExist, StoreOwnership, TasksStayHome, Running, Where, Pending, WaitsForStore
<1>5. CreatorsAreBound' /\ CreatorsAreBorn'
  BY DEF CreatorsAreBound, CreatorsAreBorn, Running, Pending, WaitsForStore
<1>6. AnsweredTasksStart'
  BY DEF AnsweredTasksStart, CreatorsAreBound, TasksStayHome, StoreOwnership, Running, Where, Pending, WaitsForStore
<1>7. QED
  BY <1>1, <1>2, <1>3, <1>4, <1>5, <1>6

(* A poll begins only on a free instance.                                  *)
LEMMA PollStartsInv ==
  ASSUME IInv, NEW r \in Requests, PollStarts(r)
  PROVE  IInv'
<1> USE InstanceAssumption DEF IInv, TypeOK, Instances, Requests, Callers, InGuest, PollStarts, Lock, Goto, taskVars
<1>1. TypeOK'
  BY DEF Progress, Pending, Settled, WaitsForStore, Results, TaskStates
<1>2. StoreOwnership'
  BY DEF StoreOwnership, HandlesExist, Running, Where, Pending, WaitsForStore
<1>3. TasksStayHome'
  BY DEF TasksStayHome, CreatorsAreBound, CreatorsAreBorn, StoreOwnership, HandlesExist, Running, Where
<1>4. HandlesExist'
  BY DEF HandlesExist, StoreOwnership, TasksStayHome, Running, Where, Pending, WaitsForStore
<1>5. CreatorsAreBound' /\ CreatorsAreBorn'
  BY DEF CreatorsAreBound, CreatorsAreBorn, Running, Pending, WaitsForStore
<1>6. AnsweredTasksStart'
  BY DEF AnsweredTasksStart, CreatorsAreBound, TasksStayHome, StoreOwnership, Running, Where, Pending, WaitsForStore
<1>7. QED
  BY <1>1, <1>2, <1>3, <1>4, <1>5, <1>6

(* A pending poll parks outside the mutex.                                 *)
LEMMA PollPendingInv ==
  ASSUME IInv, NEW r \in Requests, PollPending(r)
  PROVE  IInv'
<1> USE InstanceAssumption DEF IInv, TypeOK, Instances, Requests, Callers, InGuest, PollPending, Unlock, Goto, taskVars
<1>1. TypeOK'
  BY DEF Progress, Pending, Settled, WaitsForStore, Results, TaskStates
<1>2. StoreOwnership'
  BY DEF StoreOwnership, HandlesExist, Running, Where, Pending, WaitsForStore
<1>3. TasksStayHome'
  BY DEF TasksStayHome, CreatorsAreBound, CreatorsAreBorn, StoreOwnership, HandlesExist, Running, Where
<1>4. HandlesExist'
  BY DEF HandlesExist, StoreOwnership, TasksStayHome, Running, Where, Pending, WaitsForStore
<1>5. CreatorsAreBound' /\ CreatorsAreBorn'
  BY DEF CreatorsAreBound, CreatorsAreBorn, Running, Pending, WaitsForStore
<1>6. AnsweredTasksStart'
  BY DEF AnsweredTasksStart, CreatorsAreBound, TasksStayHome, StoreOwnership, Running, Where, Pending, WaitsForStore
<1>7. QED
  BY <1>1, <1>2, <1>3, <1>4, <1>5, <1>6

(* A woken future queues for the mutex again.                              *)
LEMMA WakeInv ==
  ASSUME IInv, NEW r \in Requests, Wake(r)
  PROVE  IInv'
<1> USE InstanceAssumption DEF IInv, TypeOK, Instances, Requests, Callers, InGuest, Wake, Goto, taskVars
<1>1. TypeOK'
  BY DEF Progress, Pending, Settled, WaitsForStore, Results, TaskStates
<1>2. StoreOwnership'
  BY DEF StoreOwnership, HandlesExist, Running, Where, Pending, WaitsForStore
<1>3. TasksStayHome'
  BY DEF TasksStayHome, CreatorsAreBound, CreatorsAreBorn, StoreOwnership, HandlesExist, Running, Where
<1>4. HandlesExist'
  BY DEF HandlesExist, StoreOwnership, TasksStayHome, Running, Where, Pending, WaitsForStore
<1>5. CreatorsAreBound' /\ CreatorsAreBorn'
  BY DEF CreatorsAreBound, CreatorsAreBorn, Running, Pending, WaitsForStore
<1>6. AnsweredTasksStart'
  BY DEF AnsweredTasksStart, CreatorsAreBound, TasksStayHome, StoreOwnership, Running, Where, Pending, WaitsForStore
<1>7. QED
  BY <1>1, <1>2, <1>3, <1>4, <1>5, <1>6

(* A response leaves the mutex behind.                                     *)
LEMMA PollReadyInv ==
  ASSUME IInv, NEW r \in Requests, NEW value \in {"response", "incorrect_response"}, PollReady(r, value)
  PROVE  IInv'
<1> USE InstanceAssumption DEF IInv, TypeOK, Instances, Requests, Callers, InGuest, PollReady, Unlock, Goto, Resolve, taskVars
<1>1. TypeOK'
  BY DEF Progress, Pending, Settled, WaitsForStore, Results, TaskStates
<1>2. StoreOwnership'
  BY DEF StoreOwnership, HandlesExist, Running, Where, Pending, WaitsForStore
<1>3. TasksStayHome'
  BY DEF TasksStayHome, CreatorsAreBound, CreatorsAreBorn, StoreOwnership, HandlesExist, Running, Where
<1>4. HandlesExist'
  BY DEF HandlesExist, StoreOwnership, TasksStayHome, Running, Where, Pending, WaitsForStore
<1>5. CreatorsAreBound' /\ CreatorsAreBorn'
  BY DEF CreatorsAreBound, CreatorsAreBorn, Running, Pending, WaitsForStore
<1>6. AnsweredTasksStart'
  BY DEF AnsweredTasksStart, CreatorsAreBound, TasksStayHome, StoreOwnership, Running, Where, Pending, WaitsForStore
<1>7. QED
  BY <1>1, <1>2, <1>3, <1>4, <1>5, <1>6

(* So does a trapping poll.                                                *)
LEMMA PollTrapsInv ==
  ASSUME IInv, NEW r \in Requests, NEW trap \in {"panicked", "crashed"}, PollTraps(r, trap)
  PROVE  IInv'
<1> USE InstanceAssumption DEF IInv, TypeOK, Instances, Requests, Callers, InGuest, PollTraps, Unlock, Goto, Resolve, taskVars
<1>1. TypeOK'
  BY DEF Progress, Pending, Settled, WaitsForStore, Results, TaskStates
<1>2. StoreOwnership'
  BY DEF StoreOwnership, HandlesExist, Running, Where, Pending, WaitsForStore
<1>3. TasksStayHome'
  BY DEF TasksStayHome, CreatorsAreBound, CreatorsAreBorn, StoreOwnership, HandlesExist, Running, Where
<1>4. HandlesExist'
  BY DEF HandlesExist, StoreOwnership, TasksStayHome, Running, Where, Pending, WaitsForStore
<1>5. CreatorsAreBound' /\ CreatorsAreBorn'
  BY DEF CreatorsAreBound, CreatorsAreBorn, Running, Pending, WaitsForStore
<1>6. AnsweredTasksStart'
  BY DEF AnsweredTasksStart, CreatorsAreBound, TasksStayHome, StoreOwnership, Running, Where, Pending, WaitsForStore
<1>7. QED
  BY <1>1, <1>2, <1>3, <1>4, <1>5, <1>6

(* Draining moves tasks out of the queue of their own instance.            *)
LEMMA DrainBackgroundTasksInv ==
  ASSUME IInv, NEW r \in Requests, DrainBackgroundTasks(r)
  PROVE  IInv'
<1> USE InstanceAssumption DEF IInv, TypeOK, Instances, Requests, Callers, InGuest, DrainBackgroundTasks, LockIsBusy, Goto
<1>1. TypeOK'
  BY DEF Progress, Pending, Settled, WaitsForStore, Results, TaskStates
<1>2. StoreOwnership'
  BY DEF StoreOwnership, HandlesExist, Running, Where, Pending, WaitsForStore, TasksStayHome
<1>3. TasksStayHome'
  BY DEF TasksStayHome, CreatorsAreBound, CreatorsAreBorn, StoreOwnership, HandlesExist, Running, Where
<1>4. HandlesExist'
  BY DEF HandlesExist, StoreOwnership, TasksStayHome, Running, Where, Pending, WaitsForStore
<1>5. CreatorsAreBound' /\ CreatorsAreBorn'
  BY DEF CreatorsAreBound, CreatorsAreBorn, Running, Pending, WaitsForStore
<1>6. AnsweredTasksStart'
  <2> SUFFICES ASSUME NEW t \in Tasks,
                      spawned_by[t] \in Requests,
                      progress'[spawned_by[t]] = "Done",
                      result[spawned_by[t]] \notin {"panicked", "crashed"},
                      task[t] = "Queued",
                      t \notin tasks_background[handle[r]]
               PROVE  FALSE
    BY DEF AnsweredTasksStart, TaskStates
  <2>1. CASE spawned_by[t] = r
    BY <2>1 DEF TasksStayHome, Where, HandlesExist, Pending
  <2>2. CASE spawned_by[t] # r
    BY <2>2 DEF AnsweredTasksStart
  <2>3. QED
    BY <2>1, <2>2
<1>7. QED
  BY <1>1, <1>2, <1>3, <1>4, <1>5, <1>6

(* A dropped request that was in a call frees its instance, and no other.  *)
LEMMA CancelInv ==
  ASSUME IInv, NEW r \in Requests, Cancel(r)
  PROVE  IInv'
<1> USE InstanceAssumption DEF IInv, TypeOK, Instances, Requests, Callers, InGuest, Cancel, Unlock, Goto, taskVars
<1>1. TypeOK'
  <2>1. handle[r] \in Instances
    BY DEF HandlesExist, Pending, WaitsForStore
  <2>2. store' \in [Instances -> Callers \cup {Free}] /\ abandoned' \in SUBSET Instances
    BY <2>1, ZenonT(30)
  <2>3. QED
    BY <2>2 DEF Progress, Pending, Settled, WaitsForStore, Results, TaskStates
<1>2. StoreOwnership'
  BY DEF StoreOwnership, HandlesExist, Running, Where, Pending, WaitsForStore
<1>3. TasksStayHome'
  BY DEF TasksStayHome, CreatorsAreBound, CreatorsAreBorn, StoreOwnership, HandlesExist, Running, Where
<1>4. HandlesExist'
  BY DEF HandlesExist, StoreOwnership, TasksStayHome, Running, Where, Pending, WaitsForStore
<1>5. CreatorsAreBound' /\ CreatorsAreBorn'
  BY DEF CreatorsAreBound, CreatorsAreBorn, Running, Pending, WaitsForStore
<1>6. AnsweredTasksStart'
  BY DEF AnsweredTasksStart, CreatorsAreBound, TasksStayHome, StoreOwnership, Running, Where, Pending, WaitsForStore
<1>7. QED
  BY <1>1, <1>2, <1>3, <1>4, <1>5, <1>6

(* A new task is queued where its creator runs.                            *)
LEMMA SpawnBackgroundInv ==
  ASSUME IInv, NEW c \in Callers, NEW t \in Tasks, SpawnBackground(c, t)
  PROVE  IInv'
<1> USE InstanceAssumption DEF IInv, TypeOK, Instances, Requests, Callers, InGuest, SpawnBackground
<1>1. TypeOK'
  BY DEF Progress, Pending, Settled, WaitsForStore, Results, TaskStates, StoreOwnership, Running, Where
<1>2. StoreOwnership'
  BY DEF StoreOwnership, HandlesExist, Running, Where, Pending, WaitsForStore
<1>3. TasksStayHome'
  BY DEF TasksStayHome, CreatorsAreBound, CreatorsAreBorn, StoreOwnership, HandlesExist, Running, Where
<1>4. HandlesExist'
  BY DEF HandlesExist, StoreOwnership, TasksStayHome, Running, Where, Pending, WaitsForStore
<1>5. CreatorsAreBound' /\ CreatorsAreBorn'
  BY DEF CreatorsAreBound, CreatorsAreBorn, Running, Pending, WaitsForStore
<1>6. AnsweredTasksStart'
  BY DEF AnsweredTasksStart, CreatorsAreBound, TasksStayHome, StoreOwnership, Running, Where, Pending, WaitsForStore
<1>7. QED
  BY <1>1, <1>2, <1>3, <1>4, <1>5, <1>6

(* A task is polled only on its free instance.                             *)
LEMMA TaskPollStartsInv ==
  ASSUME IInv, NEW t \in Tasks, TaskPollStarts(t)
  PROVE  IInv'
<1> USE InstanceAssumption DEF IInv, TypeOK, Instances, Requests, Callers, InGuest, TaskPollStarts, Lock, TaskGoto, requestVars
<1>1. TypeOK'
  BY DEF Progress, Pending, Settled, WaitsForStore, Results, TaskStates
<1>2. StoreOwnership'
  BY DEF StoreOwnership, HandlesExist, Running, Where, Pending, WaitsForStore
<1>3. TasksStayHome'
  BY DEF TasksStayHome, CreatorsAreBound, CreatorsAreBorn, StoreOwnership, HandlesExist, Running, Where
<1>4. HandlesExist'
  BY DEF HandlesExist, StoreOwnership, TasksStayHome, Running, Where, Pending, WaitsForStore
<1>5. CreatorsAreBound' /\ CreatorsAreBorn'
  BY DEF CreatorsAreBound, CreatorsAreBorn, Running, Pending, WaitsForStore
<1>6. AnsweredTasksStart'
  BY DEF AnsweredTasksStart, CreatorsAreBound, TasksStayHome, StoreOwnership, Running, Where, Pending, WaitsForStore
<1>7. QED
  BY <1>1, <1>2, <1>3, <1>4, <1>5, <1>6

(* A task that returns gives the mutex back.                               *)
LEMMA TaskPollReturnsInv ==
  ASSUME IInv, NEW t \in Tasks, NEW phase \in {"Parked", "Ended"}, TaskPollReturns(t, phase)
  PROVE  IInv'
<1> USE InstanceAssumption DEF IInv, TypeOK, Instances, Requests, Callers, InGuest, TaskPollReturns, Unlock, TaskGoto, requestVars
<1>1. TypeOK'
  BY DEF Progress, Pending, Settled, WaitsForStore, Results, TaskStates
<1>2. StoreOwnership'
  BY DEF StoreOwnership, HandlesExist, Running, Where, Pending, WaitsForStore
<1>3. TasksStayHome'
  BY DEF TasksStayHome, CreatorsAreBound, CreatorsAreBorn, StoreOwnership, HandlesExist, Running, Where
<1>4. HandlesExist'
  BY DEF HandlesExist, StoreOwnership, TasksStayHome, Running, Where, Pending, WaitsForStore
<1>5. CreatorsAreBound' /\ CreatorsAreBorn'
  BY DEF CreatorsAreBound, CreatorsAreBorn, Running, Pending, WaitsForStore
<1>6. AnsweredTasksStart'
  BY DEF AnsweredTasksStart, CreatorsAreBound, TasksStayHome, StoreOwnership, Running, Where, Pending, WaitsForStore
<1>7. QED
  BY <1>1, <1>2, <1>3, <1>4, <1>5, <1>6

(* A woken task queues for the mutex.                                      *)
LEMMA TaskWakeInv ==
  ASSUME IInv, NEW t \in Tasks, TaskWake(t)
  PROVE  IInv'
<1> USE InstanceAssumption DEF IInv, TypeOK, Instances, Requests, Callers, InGuest, TaskWake, TaskGoto, requestVars
<1>1. TypeOK'
  BY DEF Progress, Pending, Settled, WaitsForStore, Results, TaskStates
<1>2. StoreOwnership'
  BY DEF StoreOwnership, HandlesExist, Running, Where, Pending, WaitsForStore
<1>3. TasksStayHome'
  BY DEF TasksStayHome, CreatorsAreBound, CreatorsAreBorn, StoreOwnership, HandlesExist, Running, Where
<1>4. HandlesExist'
  BY DEF HandlesExist, StoreOwnership, TasksStayHome, Running, Where, Pending, WaitsForStore
<1>5. CreatorsAreBound' /\ CreatorsAreBorn'
  BY DEF CreatorsAreBound, CreatorsAreBorn, Running, Pending, WaitsForStore
<1>6. AnsweredTasksStart'
  BY DEF AnsweredTasksStart, CreatorsAreBound, TasksStayHome, StoreOwnership, Running, Where, Pending, WaitsForStore
<1>7. QED
  BY <1>1, <1>2, <1>3, <1>4, <1>5, <1>6

(* A trapping task gives the mutex back and flags its instance.            *)
LEMMA TaskTrapsInv ==
  ASSUME IInv, NEW t \in Tasks, TaskTraps(t)
  PROVE  IInv'
<1> USE InstanceAssumption DEF IInv, TypeOK, Instances, Requests, Callers, InGuest, TaskTraps, Unlock, TaskGoto, requestVars
<1>1. TypeOK'
  BY DEF Progress, Pending, Settled, WaitsForStore, Results, TaskStates
<1>2. StoreOwnership'
  BY DEF StoreOwnership, HandlesExist, Running, Where, Pending, WaitsForStore
<1>3. TasksStayHome'
  BY DEF TasksStayHome, CreatorsAreBound, CreatorsAreBorn, StoreOwnership, HandlesExist, Running, Where
<1>4. HandlesExist'
  BY DEF HandlesExist, StoreOwnership, TasksStayHome, Running, Where, Pending, WaitsForStore
<1>5. CreatorsAreBound' /\ CreatorsAreBorn'
  BY DEF CreatorsAreBound, CreatorsAreBorn, Running, Pending, WaitsForStore
<1>6. AnsweredTasksStart'
  BY DEF AnsweredTasksStart, CreatorsAreBound, TasksStayHome, StoreOwnership, Running, Where, Pending, WaitsForStore
<1>7. QED
  BY <1>1, <1>2, <1>3, <1>4, <1>5, <1>6

-----------------------------------------------------------------------------
(* Every step preserves the inductive invariant.                           *)
LEMMA StepInv == IInv /\ [Next]_vars => IInv'
<1> SUFFICES ASSUME IInv, [Next]_vars PROVE IInv'
  OBVIOUS
<1>1. CASE UNCHANGED vars
  BY <1>1 DEF vars, IInv, TypeOK, StoreOwnership, TasksStayHome, AnsweredTasksStart,
              HandlesExist, CreatorsAreBound, CreatorsAreBorn, Running, Where
<1>2. ASSUME NEW r \in HttpRequests, HttpCall(r) PROVE IInv'
  BY <1>2, HttpCallInv
<1>3. ASSUME NEW r \in InvokedRequests, FunctionInvoke(r) PROVE IInv'
  BY <1>3, FunctionInvokeInv
<1>4. ASSUME NEW r \in Requests, RequestStep(r) PROVE IInv'
  BY <1>4, FirstPollInv, InstantiatedInv, InstantiationFailsInv, InsertRequestInv,
     InvokeStartsInv, InvokeReturnsInv, InvokeTrapsInv, StoreLockTimeoutInv, PollStartsInv,
     PollPendingInv, WakeInv, PollReadyInv, PollTrapsInv, DrainBackgroundTasksInv, CancelInv
     DEF RequestStep
<1>5. ASSUME NEW c \in Callers, NEW t \in Tasks, SpawnBackground(c, t) PROVE IInv'
  BY <1>5, SpawnBackgroundInv
<1>6. ASSUME NEW t \in Tasks, TaskStep(t) PROVE IInv'
  BY <1>6, TaskPollStartsInv, TaskPollReturnsInv, TaskWakeInv, TaskTrapsInv DEF TaskStep
<1>7. QED
  BY <1>1, <1>2, <1>3, <1>4, <1>5, <1>6 DEF Next

(* Everything above together: the invariant holds in every reachable state *)
(* of one deployment (RequestHandleFuture and FunctionBackgroundTask).     *)
LEMMA Invariance == Spec => []IInv
BY InitInv, StepInv, PTL DEF Spec

(* The variables keep their types.                                         *)
THEOREM TypeCorrect == Spec => []TypeOK
<1>1. IInv => TypeOK
  BY DEF IInv
<1>2. QED
  BY <1>1, Invariance, PTL

(* For any number of requests, tasks and instances: the LocalMutex of an   *)
(* instance is owned exactly while one future has a guest call there.      *)
THEOREM StoreOwned == Spec => []StoreOwnership
<1>1. IInv => StoreOwnership
  BY DEF IInv
<1>2. QED
  BY <1>1, Invariance, PTL

(* Guest calls of two futures never share an instance: what instance.rs    *)
(* needs the LocalMutex for.                                               *)
THEOREM GuestCallsExclude ==
  ASSUME IInv, NEW c \in Callers, NEW d \in Callers,
         Running(c), Running(d), Where(c) = Where(d)
  PROVE  c = d
BY DEF IInv, StoreOwnership

(* A background task is queued, spawned and polled on the instance whose   *)
(* guest created it, and queued at most once.                              *)
THEOREM TasksAtHome == Spec => []TasksStayHome
<1>1. IInv => TasksStayHome
  BY DEF IInv
<1>2. QED
  BY <1>1, Invariance, PTL

(* A task created by a request that was answered is started, whichever     *)
(* instance the deployment has by then.                                    *)
THEOREM TasksAreStarted == Spec => []AnsweredTasksStart
<1>1. IInv => AnsweredTasksStart
  BY DEF IInv
<1>2. QED
  BY <1>1, Invariance, PTL
=============================================================================
