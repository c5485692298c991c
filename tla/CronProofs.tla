------------------------------ MODULE CronProofs ------------------------------
(***************************************************************************)
(* Proofs about the cron thread, for any triggers, definitions and bounds. *)
(*                                                                         *)
(* IInv adds two facts to the properties proved: StartedWhenDue ties the   *)
(* row of a task to the run in flight (the row has not moved since the run *)
(* was found due, because only that run may move it), and RoomForMessage   *)
(* is the bookkeeping of the bound on entries. What the page will show is  *)
(* put as Shows: the last event about a task decides.                      *)
(***************************************************************************)
EXTENDS Cron, SequenceTheorems, TLAPS

StartedWhenDue ==
  \A f \in task_futures :
    /\ f.now <= now
    /\ \/ last_run_at[TaskAt(f.entry)] = Never
       \/ \E s \in Schedule[tasks[f.entry]] :
            last_run_at[TaskAt(f.entry)] < s /\ s <= f.now

RoomForMessage ==
  msg_rx # <<>> => Len(msg_rx) = 1 /\ Len(tasks) + Len(msg_rx[1]) <= MaxEntries

IInv == TypeOK /\ OneRunPerTask /\ StartedWhenDue /\ RoomForMessage

(* An event about an entry is an event.                                    *)
LEMMA ReportedIsEvent ==
  ASSUME TypeOK, NEW kind \in {"Start", "Run"}, NEW e \in DOMAIN tasks
  PROVE  Reported(kind, e) \in Seq(Event)
<1>1. TaskAt(e) \in TaskIds
  BY CronAssumption DEF TypeOK, TaskAt
<1>2. [kind |-> kind, task |-> TaskAt(e)] \in Event
  BY <1>1 DEF Event
<1> QED BY <1>2 DEF TypeOK, Reported

(* The invariant holds of an empty thread.                                 *)
LEMMA InitInv == Init => IInv
<1> SUFFICES ASSUME Init PROVE IInv
  OBVIOUS
<1> USE CronAssumption DEF Init
<1>1. TypeOK
  BY DEF TypeOK, Times, Never
<1>2. OneRunPerTask /\ StartedWhenDue /\ RoomForMessage
  BY DEF OneRunPerTask, StartedWhenDue, RoomForMessage
<1> QED BY <1>1, <1>2 DEF IInv

(* Time does not undo that a run was due when it began.                    *)
LEMMA TickInv == IInv /\ Tick => IInv'
<1> SUFFICES ASSUME IInv, Tick PROVE IInv'
  OBVIOUS
<1> USE CronAssumption DEF IInv, Tick, TaskAt
<1>1. TypeOK'
  BY DEF TypeOK, Times
<1>2. OneRunPerTask' /\ RoomForMessage'
  BY DEF OneRunPerTask, RoomForMessage
<1>3. StartedWhenDue'
  BY DEF StartedWhenDue, TypeOK, Future, Times
<1> QED BY <1>1, <1>2, <1>3

(* A definition is sent only when its triggers fit the bound.              *)
LEMMA ApplyConfigInv ==
  ASSUME NEW c \in Configs, IInv, ApplyConfig(c) PROVE IInv'
<1> USE CronAssumption DEF IInv, ApplyConfig, TaskAt
<1>1. TypeOK'
  BY DEF TypeOK
<1>2. OneRunPerTask' /\ StartedWhenDue'
  BY DEF OneRunPerTask, StartedWhenDue
<1>3. RoomForMessage'
  BY DEF RoomForMessage
<1> QED BY <1>1, <1>2, <1>3

(* A message carries one definition, which fits the bound; new entries go  *)
(* behind the old ones, which keep their numbers.                          *)
LEMMA EntriesStay ==
  ASSUME IInv, ScheduleAdd
  PROVE  /\ Tail(msg_rx) = <<>>
         /\ tasks' \in Seq(Triggers)
         /\ Len(tasks') <= MaxEntries
         /\ \A e \in DOMAIN tasks : e \in DOMAIN tasks' /\ tasks'[e] = tasks[e]
         /\ Head(msg_rx) \in Configs
         /\ LET c == Head(msg_rx) IN
              Scheduled' = Scheduled \cup {c[i] : i \in DOMAIN c}
<1> USE CronAssumption
<1> DEFINE c == Head(msg_rx)
           new == [i \in 1..Len(c) |-> c[Len(c) + 1 - i]]
<1>1. /\ c \in Seq(Triggers)
      /\ c \in Configs
      /\ Len(tasks) + Len(c) <= MaxEntries
      /\ Tail(msg_rx) = <<>>
  <2>1. msg_rx \in Seq(Configs) /\ msg_rx # <<>> /\ Len(msg_rx) = 1
    BY DEF IInv, TypeOK, ScheduleAdd, RoomForMessage
  <2>2. c \in Configs /\ c = msg_rx[1]
    BY <2>1
  <2>3. Tail(msg_rx) \in Seq(Configs) /\ Len(Tail(msg_rx)) = 0
    BY <2>1, HeadTailProperties
  <2>4. Tail(msg_rx) = <<>>
    BY <2>3, EmptySeq
  <2> QED BY <2>1, <2>2, <2>4 DEF IInv, RoomForMessage
<1>2. new \in Seq(Triggers) /\ Len(new) = Len(c)
  <2>1. Len(c) \in Nat /\ \A i \in 1..Len(c) : c[i] \in Triggers
    BY <1>1, LenProperties, ElementOfSeq
  <2> HIDE DEF c
  <2>2. new \in [1..Len(c) -> Triggers]
    BY <2>1
  <2> QED BY <2>1, <2>2
<1>3. /\ tasks' \in Seq(Triggers)
      /\ Len(tasks') = Len(tasks) + Len(c)
      /\ \A e \in DOMAIN tasks : e \in DOMAIN tasks' /\ tasks'[e] = tasks[e]
      /\ \A e \in Len(tasks) + 1 .. Len(tasks') : tasks'[e] = new[e - Len(tasks)]
  <2>1. tasks' = tasks \o new /\ tasks \in Seq(Triggers)
    BY DEF ScheduleAdd, IInv, TypeOK
  <2> HIDE DEF new, c
  <2>2. DOMAIN tasks = 1..Len(tasks) /\ Len(tasks) \in Nat
    BY <2>1, LenProperties
  <2>3. /\ tasks \o new \in Seq(Triggers)
        /\ Len(tasks \o new) = Len(tasks) + Len(new)
        /\ \A e \in 1..Len(tasks) + Len(new) :
             (tasks \o new)[e] = IF e <= Len(tasks) THEN tasks[e]
                                                   ELSE new[e - Len(tasks)]
    BY <1>2, <2>1, ConcatProperties, Zenon
  <2>4. DOMAIN tasks' = 1..Len(tasks') /\ Len(c) \in Nat
    BY <1>1, <2>1, <2>3, LenProperties
  <2> QED BY <1>2, <2>1, <2>2, <2>3, <2>4
<1>4. Scheduled' = Scheduled \cup {c[i] : i \in DOMAIN c}
  <2>1. /\ tasks \in Seq(Triggers) /\ Len(tasks) \in Nat /\ Len(c) \in Nat
        /\ DOMAIN tasks = 1..Len(tasks) /\ DOMAIN c = 1..Len(c)
        /\ DOMAIN tasks' = 1..Len(tasks')
    BY <1>1, <1>3, LenProperties DEF IInv, TypeOK
  <2>2. \A i \in DOMAIN c : new[i] = c[Len(c) + 1 - i]
    BY <2>1
  <2> HIDE DEF new, c
  <2>3. ASSUME NEW e \in DOMAIN tasks', e \notin DOMAIN tasks
        PROVE  \E i \in DOMAIN c : tasks'[e] = c[i]
    <3> DEFINE i == Len(c) + 1 - (e - Len(tasks))
    <3>1. e - Len(tasks) \in DOMAIN c /\ i \in DOMAIN c
      BY <1>3, <2>1, <2>3
    <3> QED BY <1>3, <2>1, <2>2, <2>3, <3>1
  <2>4. ASSUME NEW i \in DOMAIN c
        PROVE  \E e \in DOMAIN tasks' : tasks'[e] = c[i]
    <3> DEFINE k == Len(c) + 1 - i
               e == Len(tasks) + k
    <3>1. k \in DOMAIN c /\ Len(c) + 1 - k = i /\ e - Len(tasks) = k
      BY <2>1
    <3>2. e \in DOMAIN tasks' /\ e \in Len(tasks) + 1 .. Len(tasks')
      BY <1>3, <2>1, <3>1
    <3> HIDE DEF k, e
    <3> QED BY <1>3, <2>2, <3>1, <3>2
  <2> QED BY <1>3, <2>3, <2>4 DEF Scheduled
<1> QED BY <1>1, <1>3, <1>4

(* The entries of the runs in flight are not disturbed.                    *)
LEMMA ScheduleAddInv == IInv /\ ScheduleAdd => IInv'
<1> SUFFICES ASSUME IInv, ScheduleAdd PROVE IInv'
  OBVIOUS
<1> USE CronAssumption
<1>1. TypeOK'
  BY EntriesStay DEF IInv, TypeOK, ScheduleAdd
<1>2. /\ task_futures' = task_futures
      /\ running_tasks' = running_tasks
      /\ now' = now
      /\ last_run_at' = last_run_at
      /\ \A f \in task_futures : tasks'[f.entry] = tasks[f.entry]
  BY EntriesStay DEF IInv, TypeOK, ScheduleAdd
<1>3. OneRunPerTask' /\ StartedWhenDue'
  BY <1>2 DEF IInv, OneRunPerTask, StartedWhenDue, TaskAt
<1>4. RoomForMessage'
  BY EntriesStay DEF ScheduleAdd, RoomForMessage
<1> QED BY <1>1, <1>3, <1>4 DEF IInv

(* A pass starts a task only if it has no run, and at one entry.           *)
LEMMA RunTasksInv ==
  ASSUME NEW unreadable \in SUBSET Entries, IInv, RunTasks(unreadable)
  PROVE  IInv'
<1> USE CronAssumption
<1> DEFINE qualifies(e) ==
             TaskAt(e) \notin running_tasks /\ e \notin unreadable /\ Due(e)
           starting ==
             {e \in DOMAIN tasks :
                /\ qualifies(e)
                /\ \A d \in DOMAIN tasks :
                     d > e /\ TaskAt(d) = TaskAt(e) => ~qualifies(d)}
           run(e) == [entry |-> e, phase |-> "Created", now |-> now]
<1>1. /\ running_tasks' = running_tasks \cup {TaskAt(e) : e \in starting}
      /\ task_futures' = task_futures \cup {run(e) : e \in starting}
      /\ UNCHANGED <<now, last_run_at, tasks, msg_rx, cron_events,
                     cron_running, cron, management, restarts>>
  BY DEF RunTasks
<1>2. \A e \in starting : /\ e \in DOMAIN tasks
                          /\ TaskAt(e) \notin running_tasks
                          /\ Due(e)
  OBVIOUS
<1>3. \A d, e \in starting : TaskAt(d) = TaskAt(e) => d = e
  BY DEF IInv, TypeOK
<1> HIDE DEF starting
<1>4. TypeOK'
  <2>1. \A e \in starting : /\ TaskAt(e) \in TaskIds
                            /\ run(e) \in Future
                            /\ run(e).entry = e
    BY <1>2 DEF IInv, TypeOK, TaskAt, Future, Entries
  <2>2. running_tasks' \subseteq TaskIds /\ task_futures' \subseteq Future
    BY <1>1, <2>1 DEF IInv, TypeOK
  <2>3. \A f \in task_futures' : f.entry \in DOMAIN tasks'
    BY <1>1, <1>2, <2>1 DEF IInv, TypeOK
  <2> QED BY <1>1, <2>2, <2>3 DEF IInv, TypeOK
<1>5. OneRunPerTask'
  <2>1. \A e \in DOMAIN tasks : TaskAt(e)' = TaskAt(e)
    BY <1>1 DEF TaskAt
  <2>2. ASSUME NEW f \in task_futures' PROVE TaskAt(f.entry)' \in running_tasks'
    BY <1>1, <1>2, <2>1 DEF IInv, TypeOK, OneRunPerTask
  <2>3. ASSUME NEW f \in task_futures', NEW g \in task_futures',
               TaskAt(f.entry)' = TaskAt(g.entry)'
        PROVE  f = g
    BY <1>1, <1>2, <1>3, <2>1, <2>3 DEF IInv, TypeOK, OneRunPerTask
  <2> QED BY <2>2, <2>3 DEF OneRunPerTask
<1>6. StartedWhenDue'
  <2>1. ASSUME NEW e \in starting
        PROVE  /\ run(e).now <= now
               /\ \/ last_run_at[TaskAt(e)] = Never
                  \/ \E s \in Schedule[tasks[e]] :
                       last_run_at[TaskAt(e)] < s /\ s <= run(e).now
    BY <1>2 DEF Due, IInv, TypeOK, Times
  <2> QED BY <1>1, <2>1 DEF IInv, StartedWhenDue, TaskAt
<1>7. RoomForMessage'
  BY <1>1 DEF IInv, RoomForMessage
<1> QED BY <1>4, <1>5, <1>6, <1>7 DEF IInv

(* An early return only takes a run away.                                  *)
LEMMA EarlyReturnInv ==
  ASSUME NEW f \in task_futures, IInv,
         NoNextRun(f) \/ NobodyToReport(f) \/ InvalidEndpoint(f)
  PROVE  IInv'
<1> USE CronAssumption
<1>1. /\ task_futures' = task_futures \ {f}
      /\ cron_events' \in Seq(Event)
      /\ UNCHANGED <<now, last_run_at, tasks, running_tasks, msg_rx,
                     cron_running, cron, management, restarts>>
  BY ReportedIsEvent
     DEF NoNextRun, NobodyToReport, InvalidEndpoint, IInv, TypeOK
<1>2. TypeOK'
  BY <1>1 DEF IInv, TypeOK
<1>3. OneRunPerTask' /\ StartedWhenDue' /\ RoomForMessage'
  BY <1>1 DEF IInv, OneRunPerTask, StartedWhenDue, RoomForMessage, TaskAt
<1> QED BY <1>2, <1>3 DEF IInv

(* Invoking a function changes the phase of the run and nothing else of it. *)
LEMMA InvokeInv ==
  ASSUME NEW f \in task_futures, IInv, Invoke(f) PROVE IInv'
<1> USE CronAssumption
<1> DEFINE g == [f EXCEPT !.phase = "Invoked"]
<1>1. /\ task_futures' = (task_futures \ {f}) \cup {g}
      /\ cron_events' \in Seq(Event)
      /\ UNCHANGED <<now, last_run_at, tasks, running_tasks, msg_rx,
                     cron_running, cron, management, restarts>>
  BY ReportedIsEvent DEF Invoke, IInv, TypeOK
<1>2. g \in Future /\ g.entry = f.entry /\ g.now = f.now
  BY DEF IInv, TypeOK, Future
<1> HIDE DEF g
<1>3. TypeOK'
  BY <1>1, <1>2 DEF IInv, TypeOK
<1>4. OneRunPerTask'
  BY <1>1, <1>2 DEF IInv, OneRunPerTask, TaskAt
<1>5. StartedWhenDue' /\ RoomForMessage'
  BY <1>1, <1>2 DEF IInv, StartedWhenDue, RoomForMessage, TaskAt
<1> QED BY <1>3, <1>4, <1>5 DEF IInv

(* The end of a run takes away the only run of its task, so that the row   *)
(* it may have moved is not one another run was started from.              *)
LEMMA FinishInv ==
  ASSUME NEW f \in task_futures, IInv, NEW row, Finish(f, row),
         \/ row = last_run_at
         \/ row = [last_run_at EXCEPT ![TaskAt(f.entry)] = now]
  PROVE  IInv'
<1> USE CronAssumption
<1>1. /\ task_futures' = task_futures \ {f}
      /\ running_tasks' = running_tasks \ {TaskAt(f.entry)}
      /\ cron_events' \in Seq(Event)
      /\ last_run_at' = row
      /\ UNCHANGED <<now, tasks, msg_rx, cron_running, cron, management,
                     restarts>>
  BY ReportedIsEvent DEF Finish, IInv, TypeOK
<1>2. TypeOK'
  <2>1. row \in [TaskIds -> Times \cup {Never}]
    BY DEF IInv, TypeOK
  <2>2. task_futures' \subseteq Future /\ running_tasks' \subseteq TaskIds
    BY <1>1 DEF IInv, TypeOK
  <2>3. \A g \in task_futures' : g.entry \in DOMAIN tasks'
    BY <1>1 DEF IInv, TypeOK
  <2> QED
    BY <1>1, <2>1, <2>2, <2>3 DEF IInv, TypeOK
<1>3. \A g \in task_futures' : TaskAt(g.entry) # TaskAt(f.entry)
  BY <1>1 DEF IInv, OneRunPerTask
<1>4. OneRunPerTask'
  BY <1>1, <1>3 DEF IInv, OneRunPerTask, TaskAt
<1>5. \A g \in task_futures' :
         last_run_at'[TaskAt(g.entry)] = last_run_at[TaskAt(g.entry)]
  BY <1>1, <1>3 DEF IInv, TypeOK, TaskAt
<1>6. StartedWhenDue' /\ RoomForMessage'
  BY <1>1, <1>5 DEF IInv, StartedWhenDue, RoomForMessage, TaskAt
<1> QED BY <1>2, <1>4, <1>6 DEF IInv

(* The management thread touches none of the cron thread's state.          *)
LEMMA HandleCronEventInv == IInv /\ HandleCronEvent => IInv'
<1> SUFFICES ASSUME IInv, HandleCronEvent PROVE IInv'
  OBVIOUS
<1> USE CronAssumption DEF IInv, HandleCronEvent
<1>1. Head(cron_events) \in Event /\ Tail(cron_events) \in Seq(Event)
  BY DEF TypeOK
<1>2. TypeOK'
  BY <1>1 DEF TypeOK, Event
<1>3. OneRunPerTask' /\ StartedWhenDue' /\ RoomForMessage'
  BY DEF OneRunPerTask, StartedWhenDue, RoomForMessage, TaskAt
<1> QED BY <1>2, <1>3

(* What ends a thread or the process leaves no run behind.                 *)
LEMMA StopInv ==
  IInv /\ (ManagementPanics \/ CronStops \/ Restart) => IInv'
<1> SUFFICES ASSUME IInv, ManagementPanics \/ CronStops \/ Restart PROVE IInv'
  OBVIOUS
<1> USE CronAssumption
<1>1. CASE ManagementPanics
  <2>1. TypeOK'
    BY <1>1 DEF IInv, TypeOK, ManagementPanics
  <2>2. OneRunPerTask' /\ StartedWhenDue' /\ RoomForMessage'
    BY <1>1 DEF IInv, OneRunPerTask, StartedWhenDue, RoomForMessage, TaskAt,
                ManagementPanics
  <2> QED BY <2>1, <2>2 DEF IInv
<1>2. CASE CronStops \/ Restart
  <2>1. /\ now' = now
        /\ last_run_at' = last_run_at
        /\ tasks' = <<>>
        /\ running_tasks' = {}
        /\ task_futures' = {}
        /\ msg_rx' = <<>>
        /\ cron_events' \in Seq(Event)
        /\ cron_running' \subseteq TaskIds
        /\ cron' \in {"up", "down"}
        /\ management' \in {"up", "down"}
        /\ restarts' \in 0..MaxRestarts
    <3>1. CASE CronStops
      BY <3>1 DEF IInv, TypeOK, CronStops
    <3>2. CASE Restart
      BY <3>2 DEF IInv, TypeOK, Restart
    <3> QED BY <1>2, <3>1, <3>2
  <2>3. TypeOK'
    BY <2>1 DEF IInv, TypeOK
  <2>2. OneRunPerTask' /\ StartedWhenDue' /\ RoomForMessage'
    BY <2>1 DEF OneRunPerTask, StartedWhenDue, RoomForMessage
  <2> QED BY <2>2, <2>3 DEF IInv
<1> QED BY <1>1, <1>2

(* Every step preserves the invariant.                                     *)
LEMMA StepInv == IInv /\ [Next]_vars => IInv'
<1> SUFFICES ASSUME IInv, [Next]_vars PROVE IInv'
  OBVIOUS
<1>1. CASE UNCHANGED vars
  BY <1>1 DEF IInv, TypeOK, OneRunPerTask, StartedWhenDue, RoomForMessage,
              TaskAt, vars
<1>2. ASSUME NEW f \in task_futures, FirstPoll(f) \/ Succeed(f) \/ Fail(f)
      PROVE  IInv'
  BY <1>2, EarlyReturnInv, InvokeInv, FinishInv DEF FirstPoll, Succeed, Fail
<1> QED BY <1>1, <1>2, TickInv, ApplyConfigInv, ScheduleAddInv, RunTasksInv,
           HandleCronEventInv, StopInv DEF Next

(* The inductive invariant holds throughout.                               *)
LEMMA Invariance == Spec => []IInv
<1> QED BY InitInv, StepInv, PTL DEF Spec

(* Type correctness of the cron thread.                                    *)
THEOREM CronTypeCorrect == Spec => []TypeOK
<1>1. IInv => TypeOK
  BY DEF IInv
<1> QED BY <1>1, Invariance, PTL

(* However many entries share a task id, the task has at most one run in   *)
(* flight (run_tasks consults and extends running_tasks entry by entry).   *)
THEOREM SingleRun == Spec => []OneRunPerTask
<1>1. IInv => OneRunPerTask
  BY DEF IInv
<1> QED BY <1>1, Invariance, PTL

(* While the management thread lives, each way out of a run of a runnable  *)
(* task takes the task out of running_tasks.                               *)
LEMMA ProgressStep ==
  IInv /\ RunningTasksProgress /\ [Next]_vars => RunningTasksProgress'
<1> SUFFICES ASSUME IInv, RunningTasksProgress, [Next]_vars,
                    management' = "up",
                    NEW t \in running_tasks', Runnable(t)
             PROVE  Live(t)' # {}
  BY DEF RunningTasksProgress, Runnable
<1> USE CronAssumption
<1>1. ASSUME management = "up", t \in running_tasks
      PROVE  \E f \in task_futures : TaskAt(f.entry) = t
  BY <1>1 DEF RunningTasksProgress, Live
<1>2. CASE \/ UNCHANGED vars \/ Tick \/ HandleCronEvent
           \/ \E c \in Configs : ApplyConfig(c)
  BY <1>1, <1>2 DEF vars, Tick, HandleCronEvent, ApplyConfig, Live, TaskAt
<1>3. CASE ScheduleAdd
  <2>1. management = "up" /\ t \in running_tasks
    BY <1>3 DEF ScheduleAdd
  <2>2. PICK f \in task_futures : TaskAt(f.entry) = t
    BY <1>1, <2>1
  <2>3. f \in task_futures' /\ tasks'[f.entry] = tasks[f.entry]
    BY <1>3, EntriesStay DEF ScheduleAdd, IInv, TypeOK
  <2> QED BY <2>2, <2>3 DEF Live, TaskAt
<1>4. ASSUME NEW unreadable \in SUBSET Entries, RunTasks(unreadable)
      PROVE  Live(t)' # {}
  <2>1. management = "up" /\ tasks' = tasks /\ task_futures \subseteq task_futures'
    BY <1>4 DEF RunTasks
  <2>2. CASE t \in running_tasks
    BY <1>1, <2>1, <2>2 DEF Live, TaskAt
  <2>3. CASE t \notin running_tasks
    <3>1. PICK e \in DOMAIN tasks :
            /\ TaskAt(e) = t
            /\ [entry |-> e, phase |-> "Created", now |-> now] \in task_futures'
      BY <1>4, <2>3 DEF RunTasks
    <3> QED BY <2>1, <3>1 DEF Live, TaskAt
  <2> QED BY <2>2, <2>3
<1>5. ASSUME NEW f \in task_futures, FirstPoll(f) \/ Succeed(f) \/ Fail(f)
      PROVE  Live(t)' # {}
  <2>1. /\ management = "up"
        /\ tasks' = tasks
        /\ running_tasks' \subseteq running_tasks
        /\ task_futures \ {f} \subseteq task_futures'
    BY <1>5 DEF FirstPoll, NoNextRun, NobodyToReport, InvalidEndpoint, Invoke,
                Succeed, Fail, Finish
  <2>2. PICK g \in task_futures : TaskAt(g.entry) = t
    BY <1>1, <2>1
  <2>3. CASE g # f
    BY <2>1, <2>2, <2>3 DEF Live, TaskAt
  <2>4. CASE g = f
    <3>1. /\ tasks[f.entry] \in Triggers
          /\ TaskOf[tasks[f.entry]] = t
          /\ f.now \in 0..MaxTime
      BY <2>2, <2>4 DEF IInv, TypeOK, TaskAt, Future, Times
    <3>2. tasks[f.entry] \notin BadEndpoint
      BY <3>1 DEF Runnable
    <3>3. PICK s \in Schedule[tasks[f.entry]] : s > MaxTime
      BY <3>1 DEF Runnable
    <3>4. HasNextRun(f.entry, f.now)
      BY <3>1, <3>3 DEF HasNextRun
    <3>5. ~Succeed(f) /\ ~Fail(f)
      BY <2>2, <2>4 DEF Succeed, Fail, Finish
    <3>6. Invoke(f)
      BY <1>5, <2>1, <3>2, <3>4, <3>5
         DEF FirstPoll, NoNextRun, NobodyToReport, InvalidEndpoint
    <3>7. [f EXCEPT !.phase = "Invoked"] \in task_futures'
      BY <3>6 DEF Invoke
    <3>8. [f EXCEPT !.phase = "Invoked"].entry = f.entry
      BY DEF IInv, TypeOK, Future
    <3> QED BY <2>1, <2>2, <2>4, <3>7, <3>8 DEF Live, TaskAt
  <2> QED BY <2>3, <2>4
<1>6. CASE ManagementPanics \/ CronStops \/ Restart
  BY <1>6 DEF ManagementPanics, CronStops, Restart
<1> QED BY <1>2, <1>3, <1>4, <1>5, <1>6 DEF Next

(* A task that can run is counted as running only while a run of it is in  *)
(* flight: no sequence of failures, timeouts and redeployments leaves it   *)
(* shut out of its own schedule.                                           *)
THEOREM RunnableTasksProgress == Spec => []RunningTasksProgress
<1>1. Init => RunningTasksProgress
  BY DEF Init, RunningTasksProgress
<1> QED BY <1>1, ProgressStep, Invariance, PTL DEF Spec

(* A row of cron_tasks moves only across an instant of the schedule.       *)
THEOREM RowsFollowSchedule == Spec => RunsFollowSchedule
<1> DEFINE Step ==
     \A t \in TaskIds :
       last_run_at[t] # Never /\ last_run_at'[t] # last_run_at[t] =>
         \E e \in DOMAIN tasks : \E s \in Schedule[tasks[e]] :
           /\ TaskAt(e) = t
           /\ last_run_at[t] < s
           /\ s <= last_run_at'[t]
<1>1. IInv /\ [Next]_vars => [Step]_vars
  <2> SUFFICES ASSUME IInv, Next, NEW t \in TaskIds,
                      last_run_at[t] # Never,
                      last_run_at'[t] # last_run_at[t]
               PROVE  \E e \in DOMAIN tasks : \E s \in Schedule[tasks[e]] :
                        /\ TaskAt(e) = t
                        /\ last_run_at[t] < s
                        /\ s <= last_run_at'[t]
    OBVIOUS
  <2>1. PICK f \in task_futures : Succeed(f)
    BY DEF Next, Tick, ApplyConfig, ScheduleAdd, RunTasks, FirstPoll,
           NoNextRun, NobodyToReport, InvalidEndpoint, Invoke, Fail, Finish,
           HandleCronEvent, ManagementPanics, CronStops, Restart
  <2>2. f.entry \in DOMAIN tasks /\ f.now \in Nat /\ now \in Nat
    BY DEF IInv, TypeOK, Future, Times
  <2>3. TaskAt(f.entry) = t /\ last_run_at'[t] = now
    BY <2>1 DEF Succeed, Finish, IInv, TypeOK
  <2>4. PICK s \in Schedule[tasks[f.entry]] :
          last_run_at[t] < s /\ s <= f.now
    BY <2>3 DEF IInv, StartedWhenDue
  <2>5. s <= now /\ s \in Nat
    BY <2>2, <2>4, CronAssumption DEF IInv, StartedWhenDue, TypeOK
  <2> QED BY <2>2, <2>3, <2>4, <2>5
<1> QED BY <1>1, Invariance, PTL DEF Spec, RunsFollowSchedule
-----------------------------------------------------------------------------
(* What the page shows.                                                    *)

(* What it will show of a task, whose events in q have still to be handled *)
(* and which is, or is not, in r.                                          *)
Shows(q, r, t) ==
  \/ t \in r /\ \A i \in 1..Len(q) : q[i].task # t
  \/ \E i \in 1..Len(q) :
       /\ q[i].task = t /\ q[i].kind = "Start"
       /\ \A j \in 1..Len(q) : q[j].task = t => j <= i

LEMMA WillShowIs ==
  ASSUME TypeOK, NEW t PROVE WillShowRunning(t) <=> Shows(cron_events, cron_running, t)
<1>1. DOMAIN cron_events = 1..Len(cron_events)
  BY LenProperties DEF TypeOK
<1> QED
  BY <1>1 DEF WillShowRunning, Shows

(* A new event has the last word about its task.                           *)
LEMMA ShowsAppend ==
  ASSUME NEW q \in Seq(Event), NEW ev \in Event, NEW r, NEW t
  PROVE  Shows(Append(q, ev), r, t)
           <=> IF ev.task = t THEN ev.kind = "Start" ELSE Shows(q, r, t)
<1> DEFINE p == Append(q, ev)
<1>1. /\ Len(q) \in Nat /\ Len(p) = Len(q) + 1
      /\ \A i \in 1..Len(q) : p[i] = q[i]
      /\ p[Len(q) + 1] = ev
  BY AppendProperties, LenProperties
<1> HIDE DEF p
<1>2. 1..Len(p) = 1..Len(q) \cup {Len(p)} /\ \A i \in 1..Len(q) : ~(Len(p) <= i) /\ i <= Len(p)
  BY <1>1
<1>3. CASE ev.task = t
  BY <1>1, <1>2, <1>3 DEF Shows, p
<1>4. CASE ev.task # t
  BY <1>1, <1>2, <1>4 DEF Shows, p
<1> QED
  BY <1>3, <1>4

(* An event that is handled changes the page, not what it will show.       *)
LEMMA ShowsTail ==
  ASSUME NEW q \in Seq(Event), q # <<>>, NEW r, NEW t
  PROVE  Shows(Tail(q), IF Head(q).kind = "Start" THEN r \cup {Head(q).task}
                                                 ELSE r \ {Head(q).task}, t)
           <=> Shows(q, r, t)
<1> DEFINE p == Tail(q)
           s == IF Head(q).kind = "Start" THEN r \cup {Head(q).task}
                                          ELSE r \ {Head(q).task}
<1>1. /\ Len(q) \in Nat \ {0} /\ Len(p) = Len(q) - 1 /\ Head(q) = q[1]
      /\ \A i \in 1..Len(p) : p[i] = q[i + 1]
  BY HeadTailProperties, LenProperties, EmptySeq
<1> HIDE DEF p
<1>2. \A i \in 1..Len(q) : i = 1 \/ (i - 1 \in 1..Len(p) /\ q[i] = p[i - 1])
  <2> SUFFICES ASSUME NEW i \in 1..Len(q), i # 1
               PROVE  i - 1 \in 1..Len(p) /\ q[i] = p[i - 1]
    OBVIOUS
  <2>1. i - 1 \in 1..Len(p) /\ (i - 1) + 1 = i
    BY <1>1
  <2> QED
    BY <1>1, <2>1
<1>3. \A i \in 1..Len(p) : i + 1 \in 1..Len(q) /\ i + 1 # 1
  BY <1>1
<1>4. CASE \A i \in 1..Len(p) : p[i].task # t
  <2>1. \A i \in 1..Len(q) : q[i].task = t => i = 1
    BY <1>2, <1>4
  <2>2. 1 \in 1..Len(q)
    BY <1>1
  <2>3. Shows(p, s, t) <=> t \in s
    BY <1>4 DEF Shows
  <2>4. CASE q[1].task = t
    <3>1. Shows(q, r, t) <=> q[1].kind = "Start"
      BY <2>1, <2>2, <2>4 DEF Shows
    <3> QED
      BY <1>1, <2>3, <2>4, <3>1 DEF p
  <2>5. CASE q[1].task # t
    <3>1. Shows(q, r, t) <=> t \in r
      BY <2>1, <2>5 DEF Shows
    <3> QED
      BY <1>1, <2>3, <2>5, <3>1 DEF p
  <2> QED
    BY <2>4, <2>5
<1>5. CASE \E i \in 1..Len(p) : p[i].task = t
  <2>1. PICK k \in 1..Len(p) : p[k].task = t
    BY <1>5
  <2>2. q[k + 1].task = t /\ k + 1 \in 1..Len(q) /\ ~(k + 1 <= 1)
    BY <1>1, <1>3, <2>1
  <2>3. ASSUME Shows(p, s, t) PROVE Shows(q, r, t)
    <3>1. PICK i \in 1..Len(p) :
            /\ p[i].task = t /\ p[i].kind = "Start"
            /\ \A j \in 1..Len(p) : p[j].task = t => j <= i
      BY <1>5, <2>3 DEF Shows
    <3>2. /\ i + 1 \in 1..Len(q) /\ q[i + 1].task = t /\ q[i + 1].kind = "Start"
      BY <1>1, <1>3, <3>1
    <3>3. \A j \in 1..Len(q) : q[j].task = t => j <= i + 1
      <4> SUFFICES ASSUME NEW j \in 1..Len(q), q[j].task = t PROVE j <= i + 1
        OBVIOUS
      <4>1. CASE j = 1
        BY <4>1
      <4>2. CASE j # 1
        <5>1. j - 1 \in 1..Len(p) /\ p[j - 1].task = t
          BY <1>2, <4>2
        <5>2. j - 1 <= i
          BY <3>1, <5>1
        <5> QED
          BY <5>2
      <4> QED
        BY <4>1, <4>2
    <3> QED
      BY <3>2, <3>3 DEF Shows
  <2>4. ASSUME Shows(q, r, t) PROVE Shows(p, s, t)
    <3>1. PICK i \in 1..Len(q) :
            /\ q[i].task = t /\ q[i].kind = "Start"
            /\ \A j \in 1..Len(q) : q[j].task = t => j <= i
      BY <2>2, <2>4 DEF Shows
    <3>2. i # 1
      BY <2>2, <3>1
    <3>3. i - 1 \in 1..Len(p) /\ q[i] = p[i - 1]
      BY <1>2, <3>2
    <3>4. \A j \in 1..Len(p) : p[j].task = t => j <= i - 1
      <4> SUFFICES ASSUME NEW j \in 1..Len(p), p[j].task = t PROVE j <= i - 1
        OBVIOUS
      <4>1. j + 1 \in 1..Len(q) /\ q[j + 1].task = t
        BY <1>1, <1>3
      <4>2. j + 1 <= i
        BY <3>1, <4>1
      <4> QED
        BY <4>2
    <3> QED
      BY <3>1, <3>3, <3>4 DEF Shows
  <2>5. Shows(p, s, t) <=> Shows(q, r, t)
    BY <2>3, <2>4, Zenon
  <2> QED
    BY <2>5 DEF p
<1>6. (\A i \in 1..Len(p) : p[i].task # t) \/ (\E i \in 1..Len(p) : p[i].task = t)
  OBVIOUS
<1> QED
  BY <1>4, <1>5, <1>6, Zenon

Invoked(t) == \E f \in Live(t) : f.phase = "Invoked"

(* What ShownRunning says of one task.                                     *)
Shown(t) ==
  /\ Invoked(t) => WillShowRunning(t)
  /\ WillShowRunning(t) => Invoked(t) \/ ~Runnable(t)

LEMMA ShownIs == ShownRunning <=> (management = "up" => \A t \in TaskIds : Shown(t))
BY DEF ShownRunning, Shown, Invoked

(* A step that neither reports nor begins or ends a call.                  *)
LEMMA NothingShown ==
  ASSUME IInv, IInv', NEW t \in TaskIds, Shown(t), Invoked(t)' <=> Invoked(t),
         cron_events' = cron_events, cron_running' = cron_running
  PROVE  Shown(t)'
<1>1. WillShowRunning(t)' <=> WillShowRunning(t)
  BY DEF WillShowRunning
<1> QED
  BY <1>1 DEF Shown, Runnable

(* A run that reports has the last word about its task.                    *)
LEMMA Reporting ==
  ASSUME IInv, IInv', NEW f \in task_futures, NEW kind \in {"Start", "Run"},
         cron_events' = Reported(kind, f.entry), cron_running' = cron_running,
         NEW t \in TaskIds
  PROVE  WillShowRunning(t)'
           <=> IF TaskAt(f.entry) = t THEN kind = "Start" ELSE WillShowRunning(t)
<1> DEFINE ev == [kind |-> kind, task |-> TaskAt(f.entry)]
<1>1. f.entry \in DOMAIN tasks
  BY DEF IInv, TypeOK
<1>2. TaskAt(f.entry) \in TaskIds
  BY <1>1, CronAssumption DEF IInv, TypeOK, TaskAt
<1>3. ev \in Event /\ cron_events' = Append(cron_events, ev)
  BY <1>2 DEF Event, Reported
<1>4. ev.task = TaskAt(f.entry) /\ ev.kind = kind
  OBVIOUS
<1> HIDE DEF ev
<1>5. Shows(Append(cron_events, ev), cron_running, t)
        <=> IF ev.task = t THEN ev.kind = "Start" ELSE Shows(cron_events, cron_running, t)
  BY <1>3, ShowsAppend DEF IInv, TypeOK
<1>6. WillShowRunning(t) <=> Shows(cron_events, cron_running, t)
  BY WillShowIs DEF IInv
<1>7. WillShowRunning(t)' <=> Shows(cron_events', cron_running', t)
  <2>1. DOMAIN cron_events' = 1..Len(cron_events')
    BY LenProperties DEF IInv, TypeOK
  <2> QED
    BY <2>1 DEF WillShowRunning, Shows
<1> QED
  BY <1>3, <1>4, <1>5, <1>6, <1>7

(* An event is handled.                                                    *)
LEMMA Handling ==
  ASSUME IInv, IInv', HandleCronEvent, NEW t \in TaskIds
  PROVE  WillShowRunning(t)' <=> WillShowRunning(t)
<1>1. /\ cron_events \in Seq(Event) /\ cron_events # <<>>
      /\ cron_events' = Tail(cron_events)
      /\ cron_running' = IF Head(cron_events).kind = "Start"
                         THEN cron_running \cup {Head(cron_events).task}
                         ELSE cron_running \ {Head(cron_events).task}
  BY DEF IInv, TypeOK, HandleCronEvent
<1>2. Shows(cron_events', cron_running', t) <=> Shows(cron_events, cron_running, t)
  BY <1>1, ShowsTail
<1>3. WillShowRunning(t) <=> Shows(cron_events, cron_running, t)
  BY WillShowIs DEF IInv
<1>4. WillShowRunning(t)' <=> Shows(cron_events', cron_running', t)
  <2>1. DOMAIN cron_events' = 1..Len(cron_events')
    BY LenProperties DEF IInv, TypeOK
  <2> QED
    BY <2>1 DEF WillShowRunning, Shows
<1> QED
  BY <1>2, <1>3, <1>4

(* A run of the task t that is polled, invoked or at its end.              *)
LEMMA RunShown ==
  ASSUME IInv, IInv', NEW f \in task_futures, FirstPoll(f) \/ Succeed(f) \/ Fail(f),
         management = "up", NEW t \in TaskIds, Shown(t)
  PROVE  Shown(t)'
<1>0. /\ tasks' = tasks /\ cron_running' = cron_running
      /\ \A e : TaskAt(e)' = TaskAt(e)
  BY DEF FirstPoll, NoNextRun, NobodyToReport, InvalidEndpoint, Invoke, Succeed,
         Fail, Finish, TaskAt
<1>1. CASE NoNextRun(f) \/ NobodyToReport(f)
  <2>1. /\ f.phase = "Created" /\ task_futures' = task_futures \ {f}
        /\ cron_events' = cron_events
    BY <1>1 DEF NoNextRun, NobodyToReport
  <2>2. Invoked(t)' <=> Invoked(t)
    BY <1>0, <2>1 DEF Invoked, Live
  <2> QED
    BY <1>0, <2>1, <2>2, NothingShown
<1>2. CASE InvalidEndpoint(f)
  <2>1. /\ f.phase = "Created" /\ task_futures' = task_futures \ {f}
        /\ cron_events' = Reported("Start", f.entry)
        /\ tasks[f.entry] \in BadEndpoint
    BY <1>2 DEF InvalidEndpoint
  <2>2. Invoked(t)' <=> Invoked(t)
    BY <1>0, <2>1 DEF Invoked, Live
  <2>3. TaskAt(f.entry) = t => ~Runnable(t)
    <3>1. tasks[f.entry] \in Triggers
      BY DEF IInv, TypeOK
    <3> QED
      BY <2>1, <3>1 DEF Runnable, TaskAt
  <2>4. WillShowRunning(t)' <=> TaskAt(f.entry) = t \/ WillShowRunning(t)
    <3>1. WillShowRunning(t)'
            <=> IF TaskAt(f.entry) = t THEN "Start" = "Start" ELSE WillShowRunning(t)
      BY <1>0, <2>1, Reporting
    <3> QED
      BY <3>1
  <2> QED
    BY <2>2, <2>3, <2>4 DEF Shown, Runnable
<1>3. CASE Invoke(f)
  <2> DEFINE g == [f EXCEPT !.phase = "Invoked"]
  <2>1. /\ f.phase = "Created" /\ task_futures' = (task_futures \ {f}) \cup {g}
        /\ cron_events' = Reported("Start", f.entry)
    BY <1>3 DEF Invoke
  <2>2. g.entry = f.entry /\ g.phase = "Invoked"
    BY DEF IInv, TypeOK, Future
  <2> HIDE DEF g
  <2>3. Invoked(t)' <=> Invoked(t) \/ TaskAt(f.entry) = t
    BY <1>0, <2>1, <2>2 DEF Invoked, Live
  <2>4. WillShowRunning(t)' <=> TaskAt(f.entry) = t \/ WillShowRunning(t)
    <3>1. WillShowRunning(t)'
            <=> IF TaskAt(f.entry) = t THEN "Start" = "Start" ELSE WillShowRunning(t)
      BY <1>0, <2>1, Reporting
    <3> QED
      BY <3>1
  <2> QED
    BY <2>3, <2>4 DEF Shown, Runnable
<1>4. CASE Succeed(f) \/ Fail(f)
  <2>1. /\ task_futures' = task_futures \ {f}
        /\ cron_events' = Reported("Run", f.entry)
    BY <1>4 DEF Succeed, Fail, Finish
  <2>2. TaskAt(f.entry) = t => ~Invoked(t)'
    BY <1>0, <2>1 DEF Invoked, Live, IInv, OneRunPerTask
  <2>3. TaskAt(f.entry) # t => (Invoked(t)' <=> Invoked(t))
    BY <1>0, <2>1 DEF Invoked, Live
  <2>4. WillShowRunning(t)' <=> TaskAt(f.entry) # t /\ WillShowRunning(t)
    <3>1. WillShowRunning(t)'
            <=> IF TaskAt(f.entry) = t THEN "Run" = "Start" ELSE WillShowRunning(t)
      BY <1>0, <2>1, Reporting
    <3> QED
      BY <3>1
  <2> QED
    BY <2>2, <2>3, <2>4 DEF Shown, Runnable
<1> QED
  BY <1>1, <1>2, <1>3, <1>4 DEF FirstPoll

LEMMA ShownStep == IInv /\ IInv' /\ ShownRunning /\ [Next]_vars => ShownRunning'
<1> SUFFICES ASSUME IInv, IInv', ShownRunning, [Next]_vars,
                    management' = "up", NEW t \in TaskIds
             PROVE  Shown(t)'
  BY DEF ShownRunning, Shown, Invoked
<1>1. management = "up" => Shown(t)
  BY ShownIs
<1>2. CASE UNCHANGED vars \/ Tick \/ \E c \in Configs : ApplyConfig(c)
  <2>1. /\ management = "up" /\ cron_events' = cron_events
        /\ cron_running' = cron_running
        /\ task_futures' = task_futures /\ tasks' = tasks
    BY <1>2 DEF vars, Tick, ApplyConfig
  <2>2. Invoked(t)' <=> Invoked(t)
    BY <2>1 DEF Invoked, Live, TaskAt
  <2> QED
    BY <1>1, <2>1, <2>2, NothingShown
<1>3. CASE ScheduleAdd
  <2>1. /\ management = "up" /\ cron_events' = cron_events
        /\ cron_running' = cron_running /\ task_futures' = task_futures
        /\ \A f \in task_futures : tasks'[f.entry] = tasks[f.entry]
    BY <1>3, EntriesStay DEF ScheduleAdd, IInv, TypeOK
  <2>2. Invoked(t)' <=> Invoked(t)
    BY <2>1 DEF Invoked, Live, TaskAt
  <2> QED
    BY <1>1, <2>1, <2>2, NothingShown
<1>4. ASSUME NEW unreadable \in SUBSET Entries, RunTasks(unreadable)
      PROVE  Shown(t)'
  <2>1. /\ management = "up" /\ tasks' = tasks /\ cron_events' = cron_events
        /\ cron_running' = cron_running /\ task_futures \subseteq task_futures'
        /\ \A f \in task_futures' : f \in task_futures \/ f.phase = "Created"
    BY <1>4 DEF RunTasks
  <2>2. Invoked(t)' <=> Invoked(t)
    BY <2>1 DEF Invoked, Live, TaskAt
  <2> QED
    BY <1>1, <2>1, <2>2, NothingShown
<1>5. ASSUME NEW f \in task_futures, FirstPoll(f) \/ Succeed(f) \/ Fail(f)
      PROVE  Shown(t)'
  <2>1. management = "up"
    BY <1>5 DEF FirstPoll, NoNextRun, NobodyToReport, InvalidEndpoint, Invoke,
                Succeed, Fail, Finish
  <2> QED
    BY <1>1, <1>5, <2>1, RunShown
<1>6. CASE HandleCronEvent
  <2>1. management = "up" /\ task_futures' = task_futures /\ tasks' = tasks
    BY <1>6 DEF HandleCronEvent
  <2>2. Invoked(t)' <=> Invoked(t)
    BY <2>1 DEF Invoked, Live, TaskAt
  <2> QED
    BY <1>1, <1>6, <2>1, <2>2, Handling DEF Shown, Runnable
<1>7. CASE Restart
  <2>1. task_futures' = {} /\ cron_events' = <<>> /\ cron_running' = {}
    BY <1>7 DEF Restart
  <2>2. ~Invoked(t)' /\ ~WillShowRunning(t)'
    BY <2>1 DEF Invoked, Live, WillShowRunning
  <2> QED
    BY <2>2 DEF Shown
<1>8. CASE ManagementPanics \/ CronStops
  BY <1>8 DEF ManagementPanics, CronStops
<1> QED
  BY <1>2, <1>3, <1>4, <1>5, <1>6, <1>7, <1>8 DEF Next

(* The page is led to the truth: once the events on their way are handled  *)
(* it shows every task that awaits its function, and no other that can     *)
(* run, whatever runs failed, timed out or overlapped.                     *)
THEOREM PageIsTrue == Spec => []ShownRunning
<1>1. Init => ShownRunning
  BY DEF Init, ShownRunning, Live, WillShowRunning
<1> QED
  BY <1>1, ShownStep, Invariance, PTL DEF Spec
-----------------------------------------------------------------------------
(* The refinement: the invoked runs are the calls of the promise.          *)

(* A run that was not, or is not yet, invoked is no call.                  *)
LEMMA SameCalls ==
  ASSUME tasks' = tasks,
         \A f \in task_futures \ task_futures' : f.phase # "Invoked",
         \A f \in task_futures' \ task_futures : f.phase # "Invoked"
  PROVE  Scheduled' = Scheduled /\ Calls' = Calls
BY DEF Scheduled, Calls

(* More entries, and the same calls.                                       *)
LEMMA ScheduleAddRefines ==
  ASSUME IInv, ScheduleAdd PROVE Promise!Next
<1> DEFINE c == Head(msg_rx)
<1>1. c \in Configs /\ Scheduled' = Scheduled \cup {c[i] : i \in DOMAIN c}
  BY EntriesStay
<1>2. /\ UNCHANGED <<now, last_run_at, task_futures>>
      /\ \A f \in task_futures : tasks'[f.entry] = tasks[f.entry]
  BY EntriesStay DEF ScheduleAdd, IInv, TypeOK
<1>3. Calls' = Calls
  BY <1>2 DEF Calls
<1>4. Promise!Add(c)
  BY <1>1, <1>2, <1>3 DEF Promise!Add
<1> QED BY <1>1, <1>4 DEF Promise!Next

(* A pass creates runs, and calls nobody.                                  *)
LEMMA RunTasksRefines ==
  ASSUME NEW unreadable, RunTasks(unreadable) PROVE UNCHANGED Promise!vars
<1>1. /\ UNCHANGED <<now, last_run_at, tasks>>
      /\ task_futures \subseteq task_futures'
      /\ \A f \in task_futures' \ task_futures : f.phase = "Created"
  BY DEF RunTasks
<1> QED BY <1>1, SameCalls DEF Promise!vars

(* A function is called while its task is due: the row has not moved since *)
(* the pass found it so, and the run is the only one of the task.          *)
LEMMA InvokeRefines ==
  ASSUME NEW f \in task_futures, IInv, Invoke(f) PROVE Promise!Next
<1> USE CronAssumption
<1> DEFINE g == [f EXCEPT !.phase = "Invoked"]
           tr == tasks[f.entry]
<1>1. /\ UNCHANGED <<now, last_run_at, tasks>>
      /\ f.phase = "Created"
      /\ task_futures' = (task_futures \ {f}) \cup {g}
      /\ tr \notin BadEndpoint
  BY DEF Invoke
<1>2. /\ f.entry \in DOMAIN tasks /\ tr \in Triggers /\ TaskAt(f.entry) = TaskOf[tr]
      /\ g.entry = f.entry /\ g.phase = "Invoked"
      /\ now \in Nat /\ f.now \in Nat
  BY DEF IInv, TypeOK, TaskAt, Future, Times
<1>3. Calls' = Calls \cup {tr} /\ Scheduled' = Scheduled
  <2> HIDE DEF g
  <2> QED BY <1>1, <1>2 DEF Calls, Scheduled
<1>4. \A other \in Calls : TaskOf[other] # TaskOf[tr]
  BY <1>1, <1>2 DEF Calls, IInv, OneRunPerTask, TaskAt
<1>5. Promise!Due(tr)
  BY <1>2 DEF Promise!Due, IInv, StartedWhenDue
<1>6. Promise!Call(tr)
  BY <1>1, <1>2, <1>3, <1>4, <1>5 DEF Promise!Call, Scheduled
<1> QED BY <1>2, <1>6 DEF Promise!Next

(* The end of a run ends the call of its task.                             *)
LEMMA FinishRefines ==
  ASSUME NEW f \in task_futures, IInv, Succeed(f) \/ Fail(f) PROVE Promise!Next
<1> DEFINE tr == tasks[f.entry]
<1>1. /\ UNCHANGED <<now, tasks>>
      /\ f.phase = "Invoked"
      /\ task_futures' = task_futures \ {f}
      /\ \/ last_run_at' = last_run_at
         \/ last_run_at' = [last_run_at EXCEPT ![TaskOf[tr]] = now]
  BY DEF Succeed, Fail, Finish, TaskAt
<1>2. \A g \in task_futures : tasks[g.entry] = tr => g = f
  BY DEF IInv, OneRunPerTask, TaskAt
<1>3. tr \in Calls /\ Calls' = Calls \ {tr} /\ Scheduled' = Scheduled
  BY <1>1, <1>2 DEF Calls, Scheduled
<1>4. Promise!Succeeds(tr) \/ Promise!Fails(tr)
  BY <1>1, <1>3 DEF Promise!Succeeds, Promise!Fails
<1> QED BY <1>3, <1>4 DEF Promise!Next

(* Every step of the thread is a step of the promise, or none.             *)
LEMMA StepRefines == IInv /\ [Next]_vars => [Promise!Next]_Promise!vars
<1> SUFFICES ASSUME IInv, [Next]_vars PROVE Promise!Next \/ UNCHANGED Promise!vars
  OBVIOUS
<1>1. CASE UNCHANGED vars
  BY <1>1, SameCalls DEF vars, Promise!vars
<1>2. CASE Tick
  <2>1. UNCHANGED <<tasks, task_futures, last_run_at>>
    BY <1>2 DEF Tick
  <2>2. Promise!Tick
    BY <1>2, <2>1, SameCalls DEF Tick, Promise!Tick
  <2> QED BY <2>2 DEF Promise!Next
<1>3. CASE (\E c \in Configs : ApplyConfig(c)) \/ HandleCronEvent \/ ManagementPanics
  <2>1. UNCHANGED <<now, tasks, task_futures, last_run_at>>
    BY <1>3 DEF ApplyConfig, HandleCronEvent, ManagementPanics
  <2> QED BY <2>1, SameCalls DEF Promise!vars
<1>4. CASE ScheduleAdd
  BY <1>4, ScheduleAddRefines
<1>5. CASE \E unreadable \in SUBSET Entries : RunTasks(unreadable)
  BY <1>5, RunTasksRefines
<1>6. ASSUME NEW f \in task_futures, FirstPoll(f) \/ Succeed(f) \/ Fail(f)
      PROVE  Promise!Next \/ UNCHANGED Promise!vars
  <2>1. CASE NoNextRun(f) \/ NobodyToReport(f) \/ InvalidEndpoint(f)
    <3>1. /\ UNCHANGED <<now, tasks, last_run_at>>
          /\ task_futures' = task_futures \ {f}
          /\ f.phase = "Created"
      BY <2>1 DEF NoNextRun, NobodyToReport, InvalidEndpoint
    <3> QED BY <3>1, SameCalls DEF Promise!vars
  <2> QED BY <1>6, <2>1, InvokeRefines, FinishRefines DEF FirstPoll
<1>7. CASE CronStops \/ Restart
  <2>1. UNCHANGED <<now, last_run_at>> /\ tasks' = <<>> /\ task_futures' = {}
    BY <1>7 DEF CronStops, Restart
  <2>2. Scheduled' = {} /\ Calls' = {}
    BY <2>1 DEF Scheduled, Calls
  <2> QED BY <2>1, <2>2 DEF Promise!Next, Promise!Stop
<1> QED BY <1>1, <1>2, <1>3, <1>4, <1>5, <1>6, <1>7 DEF Next

(* The thread with its list, its passes and the runs in flight is the      *)
(* atomic scheduler: a function is called only when its task is due by the *)
(* row, one call of a task at a time, through redeployments, timeouts,     *)
(* unreadable rows, panics and restarts.                                   *)
THEOREM CronIsAtomic == Spec => ImplementsAtomicCron
<1>1. Init => Promise!Init
  BY DEF Init, Promise!Init, Scheduled, Calls
<1> QED
  BY <1>1, StepRefines, Invariance, PTL DEF Spec, ImplementsAtomicCron, Promise!Spec
=============================================================================
