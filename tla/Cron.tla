--------------------------------- MODULE Cron ---------------------------------
(***************************************************************************)
(* The cron thread: its list of scheduled entries, the set of running      *)
(* tasks, the futures of the runs in flight, the database of last runs     *)
(* that outlives the process, and the events that tell the management      *)
(* thread which task is running.                                           *)
(*                                                                         *)
(* The thread selects between three sources (its timer, a finished run, a  *)
(* ScheduleAdd message), and runs one of them to its next await.  The      *)
(* timer is reset to at most a second ahead whatever happens, so it is     *)
(* modelled as always armed: when exactly it fires is left open.  The      *)
(* call a run makes to the workers may be answered, well or badly, or not  *)
(* at all: then the timeout of the run ends it.                            *)
(*                                                                         *)
(* Sources: tasks/cron.rs, triggers/cron.rs, and the cron events of        *)
(* tasks/management.                                                       *)
(***************************************************************************)
EXTENDS Integers, Sequences, FiniteSets

CONSTANTS TaskIds,      \* ids of cron tasks, "<function id>::<trigger id>"
          Triggers,     \* cron triggers that definitions may hold
          TaskOf,       \* the task id of a trigger
          Schedule,     \* the instants at which a trigger is scheduled
          BadEndpoint,  \* triggers whose endpoint is not a valid uri
          Configs,      \* the triggers of one definition, in order
          MaxEntries,   \* bound on the entries the thread collects
          MaxTime,      \* bound on the clock
          MaxEvents,    \* bound on the unread events when a pass begins
          MaxRestarts   \* bound on the restarts of the process

ASSUME CronAssumption ==
  /\ TaskOf \in [Triggers -> TaskIds]
  /\ Schedule \in [Triggers -> SUBSET Nat]
  /\ BadEndpoint \subseteq Triggers
  /\ Configs \subseteq Seq(Triggers)
  /\ MaxEntries \in Nat
  /\ MaxTime \in Nat
  /\ MaxEvents \in Nat
  /\ MaxRestarts \in Nat

VARIABLES
  now,            \* Utc::now(), in units of a second
  last_run_at,    \* the cron_tasks table: survives a restart
  tasks,          \* entries, oldest first: an entry keeps its number
  running_tasks,  \* ids of the tasks that must not be started again
  task_futures,   \* the runs in flight
  msg_rx,         \* ScheduleAdd messages to the cron thread
  cron_events,    \* Start and Run events to the management thread
  cron_running,   \* RuntimeState::cron_running: what introspection shows
  cron,           \* is the cron thread up
  management,     \* is the management thread up
  restarts        \* restarts so far, for the bound

vars == <<now, last_run_at, tasks, running_tasks, task_futures, msg_rx,
          cron_events, cron_running, cron, management, restarts>>

Never == -1                    \* no row for this task
Times == 0..MaxTime
Entries == 1..MaxEntries
Future == [entry : Entries, phase : {"Created", "Invoked"}, now : Times]
Event == [kind : {"Start", "Run"}, task : TaskIds]

-----------------------------------------------------------------------------
(* What an entry and a run stand for.                                      *)

TaskAt(e) == TaskOf[tasks[e]]
Live(t) == {f \in task_futures : TaskAt(f.entry) = t}

(* A mutant: the instant of the last run counts again.                     *)
DueAgain(e) ==
  LET prev == last_run_at[TaskAt(e)] IN
    \/ prev = Never
    \/ \E s \in Schedule[tasks[e]] : prev <= s /\ s <= now

(* The schedule of the entry has an instant after the last run, and it has *)
(* come; a task that never ran is due at once.                             *)
Due(e) ==
  LET prev == last_run_at[TaskAt(e)] IN
    \/ prev = Never
    \/ \E s \in Schedule[tasks[e]] : prev < s /\ s <= now

HasNextRun(e, t) == \E s \in Schedule[tasks[e]] : t < s

Reported(kind, e) == Append(cron_events, [kind |-> kind, task |-> TaskAt(e)])

-----------------------------------------------------------------------------
Init ==
  /\ now = 0
  /\ last_run_at = [t \in TaskIds |-> Never]
  /\ tasks = <<>>
  /\ running_tasks = {}
  /\ task_futures = {}
  /\ msg_rx = <<>>
  /\ cron_events = <<>>
  /\ cron_running = {}
  /\ cron = "up"
  /\ management = "up"
  /\ restarts = 0

Tick ==
  /\ now < MaxTime
  /\ now' = now + 1
  /\ UNCHANGED <<last_run_at, tasks, running_tasks, task_futures, msg_rx,
                 cron_events, cron_running, cron, management, restarts>>

(* The definitions monitor applies a definition and hands its triggers to  *)
(* the cron thread.  MaxEntries bounds the definitions applied, and one    *)
(* message at a time is enough: the thread takes them in order.            *)
ApplyConfig(c) ==
  /\ management = "up"
  /\ cron = "up"
  /\ msg_rx = <<>>
  /\ Len(tasks) + Len(c) <= MaxEntries
  /\ msg_rx' = <<c>>
  /\ UNCHANGED <<now, last_run_at, tasks, running_tasks, task_futures,
                 cron_events, cron_running, cron, management, restarts>>

(* The code puts the new triggers in front of the old ones and keeps the   *)
(* old ones, those of an earlier version of the same function included.    *)
ScheduleAdd ==
  /\ cron = "up"
  /\ msg_rx # <<>>
  /\ LET c == Head(msg_rx) IN
       tasks' = tasks \o [i \in 1..Len(c) |-> c[Len(c) + 1 - i]]
  /\ msg_rx' = Tail(msg_rx)
  /\ UNCHANGED <<now, last_run_at, running_tasks, task_futures, cron_events,
                 cron_running, cron, management, restarts>>

(* A mutant: running_tasks is read once, before the pass.                  *)
RunTasksReadOnce(unreadable) ==
  /\ cron = "up"
  /\ Len(cron_events) <= MaxEvents
  /\ LET starting == {e \in DOMAIN tasks :
                        /\ TaskAt(e) \notin running_tasks
                        /\ e \notin unreadable
                        /\ Due(e)}
     IN /\ running_tasks' = running_tasks \cup {TaskAt(e) : e \in starting}
        /\ task_futures' = task_futures \cup
             {[entry |-> e, phase |-> "Created", now |-> now] : e \in starting}
  /\ UNCHANGED <<now, last_run_at, tasks, msg_rx, cron_events, cron_running,
                 cron, management, restarts>>

(* A mutant: a pass waits until the runs of the last one are over.         *)
RunTasksOneByOne(unreadable) ==
  /\ cron = "up"
  /\ Len(cron_events) <= MaxEvents
  /\ running_tasks = {}
  /\ \E e \in DOMAIN tasks :
       /\ e \notin unreadable
       /\ Due(e)
       /\ running_tasks' = {TaskAt(e)}
       /\ task_futures' = {[entry |-> e, phase |-> "Created", now |-> now]}
  /\ UNCHANGED <<now, last_run_at, tasks, msg_rx, cron_events, cron_running,
                 cron, management, restarts>>

(* One pass over the entries, newest first: an entry is skipped when its   *)
(* task is running, one started earlier in this pass included, when its    *)
(* row cannot be read, or when it is not due.                              *)
RunTasks(unreadable) ==
  /\ cron = "up"
  /\ Len(cron_events) <= MaxEvents
  /\ LET qualifies(e) ==
           TaskAt(e) \notin running_tasks /\ e \notin unreadable /\ Due(e)
         starting ==
           {e \in DOMAIN tasks :
              /\ qualifies(e)
              /\ \A d \in DOMAIN tasks :
                   d > e /\ TaskAt(d) = TaskAt(e) => ~qualifies(d)}
     IN /\ running_tasks' = running_tasks \cup {TaskAt(e) : e \in starting}
        /\ task_futures' = task_futures \cup
             {[entry |-> e, phase |-> "Created", now |-> now] : e \in starting}
  /\ UNCHANGED <<now, last_run_at, tasks, msg_rx, cron_events, cron_running,
                 cron, management, restarts>>

(* The first poll of a run.  It returns early, and leaves its task in      *)
(* running_tasks, when the schedule has no further instant, ...            *)
NoNextRun(f) ==
  /\ f.phase = "Created"
  /\ ~HasNextRun(f.entry, f.now)
  /\ task_futures' = task_futures \ {f}
  /\ UNCHANGED <<now, last_run_at, tasks, running_tasks, msg_rx, cron_events,
                 cron_running, cron, management, restarts>>

(* ... when the Start event has no receiver, ...                           *)
NobodyToReport(f) ==
  /\ f.phase = "Created"
  /\ HasNextRun(f.entry, f.now)
  /\ management = "down"
  /\ task_futures' = task_futures \ {f}
  /\ UNCHANGED <<now, last_run_at, tasks, running_tasks, msg_rx, cron_events,
                 cron_running, cron, management, restarts>>

(* ... or, after the Start event, when the endpoint is not a uri.          *)
InvalidEndpoint(f) ==
  /\ f.phase = "Created"
  /\ HasNextRun(f.entry, f.now)
  /\ management = "up"
  /\ tasks[f.entry] \in BadEndpoint
  /\ cron_events' = Reported("Start", f.entry)
  /\ task_futures' = task_futures \ {f}
  /\ UNCHANGED <<now, last_run_at, tasks, running_tasks, msg_rx, cron_running,
                 cron, management, restarts>>

Invoke(f) ==
  /\ f.phase = "Created"
  /\ HasNextRun(f.entry, f.now)
  /\ management = "up"
  /\ tasks[f.entry] \notin BadEndpoint
  /\ cron_events' = Reported("Start", f.entry)
  /\ task_futures' = (task_futures \ {f}) \cup {[f EXCEPT !.phase = "Invoked"]}
  /\ UNCHANGED <<now, last_run_at, tasks, running_tasks, msg_rx, cron_running,
                 cron, management, restarts>>

FirstPoll(f) ==
  NoNextRun(f) \/ NobodyToReport(f) \/ InvalidEndpoint(f) \/ Invoke(f)

(* The end of a run: the row, the Run event and running_tasks change       *)
(* without an await in between.  The next deadline the run returns only    *)
(* moves the timer.                                                        *)
Finish(f, row) ==
  /\ f.phase = "Invoked"
  /\ last_run_at' = row
  /\ cron_events' = IF management = "up" THEN Reported("Run", f.entry)
                                         ELSE cron_events
  /\ running_tasks' = running_tasks \ {TaskAt(f.entry)}
  /\ task_futures' = task_futures \ {f}
  /\ UNCHANGED <<now, tasks, msg_rx, cron_running, cron, management, restarts>>

(* A mutant: the next instant of the schedule is stored for the run's.     *)
SucceedStoresNextRun(f) ==
  \E s \in Schedule[tasks[f.entry]] :
    /\ s > f.now
    /\ Finish(f, [last_run_at EXCEPT ![TaskAt(f.entry)] = s])

(* The function answered, and the time of the run was stored ...           *)
Succeed(f) ==
  Finish(f, [last_run_at EXCEPT ![TaskAt(f.entry)] = now])

(* A mutant: a failed run returns before it removes its flag.              *)
FailKeepsRunning(f) ==
  /\ f.phase = "Invoked"
  /\ cron_events' = IF management = "up" THEN Reported("Run", f.entry)
                                         ELSE cron_events
  /\ task_futures' = task_futures \ {f}
  /\ UNCHANGED <<now, last_run_at, tasks, running_tasks, msg_rx, cron_running,
                 cron, management, restarts>>

(* A mutant: a failed run sends no Run event.                              *)
FailSilently(f) ==
  /\ f.phase = "Invoked"
  /\ running_tasks' = running_tasks \ {TaskAt(f.entry)}
  /\ task_futures' = task_futures \ {f}
  /\ UNCHANGED <<now, last_run_at, tasks, msg_rx, cron_events, cron_running,
                 cron, management, restarts>>

(* ... or it could not be; or the function failed; or its timeout came.    *)
(* In all three cases the row stays and the task remains due.              *)
Fail(f) == Finish(f, last_run_at)

(* The management thread applies one event.                                *)
HandleCronEvent ==
  /\ management = "up"
  /\ cron_events # <<>>
  /\ LET event == Head(cron_events) IN
       cron_running' = IF event.kind = "Start"
                         THEN cron_running \cup {event.task}
                         ELSE cron_running \ {event.task}
  /\ cron_events' = Tail(cron_events)
  /\ UNCHANGED <<now, last_run_at, tasks, running_tasks, task_futures, msg_rx,
                 cron, management, restarts>>

(* A definition the monitor cannot parse panics the management thread: its *)
(* ends of both channels are gone, ...                                     *)
ManagementPanics ==
  /\ management = "up"
  /\ management' = "down"
  /\ cron_events' = <<>>
  /\ cron_running' = {}
  /\ UNCHANGED <<now, last_run_at, tasks, running_tasks, task_futures, msg_rx,
                 cron, restarts>>

(* ... and the cron thread leaves its loop when it next reads its channel, *)
(* dropping the runs in flight.                                            *)
CronStops ==
  /\ cron = "up"
  /\ management = "down"
  /\ msg_rx = <<>>
  /\ cron' = "down"
  /\ task_futures' = {}
  /\ running_tasks' = {}
  /\ tasks' = <<>>
  /\ UNCHANGED <<now, last_run_at, msg_rx, cron_events, cron_running,
                 management, restarts>>

(* The process dies at any point and is started again: the table is what   *)
(* is left.  MaxRestarts bounds it.                                        *)
Restart ==
  /\ restarts < MaxRestarts
  /\ restarts' = restarts + 1
  /\ tasks' = <<>>
  /\ running_tasks' = {}
  /\ task_futures' = {}
  /\ msg_rx' = <<>>
  /\ cron_events' = <<>>
  /\ cron_running' = {}
  /\ cron' = "up"
  /\ management' = "up"
  /\ UNCHANGED <<now, last_run_at>>

Next ==
  \/ Tick
  \/ \E c \in Configs : ApplyConfig(c)
  \/ ScheduleAdd
  \/ \E unreadable \in SUBSET Entries : RunTasks(unreadable)
  \/ \E f \in task_futures : FirstPoll(f) \/ Succeed(f) \/ Fail(f)
  \/ HandleCronEvent
  \/ ManagementPanics
  \/ CronStops
  \/ Restart

Spec == Init /\ [][Next]_vars

(* The thread keeps taking its branches: the timer comes within a second,  *)
(* and of the passes it begins infinitely many find the table readable;    *)
(* created runs are polled, messages and the closed channel are noticed.   *)
(* The management thread keeps reading its events.  Nothing is assumed of  *)
(* the workers or of time.                                                 *)
TimerSpec ==
  /\ Spec
  /\ SF_vars(RunTasks({}))
  /\ \A e \in Entries :
       WF_vars(\E f \in task_futures : f.entry = e /\ FirstPoll(f))
  /\ WF_vars(ScheduleAdd)
  /\ WF_vars(CronStops)
  /\ WF_vars(HandleCronEvent)

(* Every run has a timeout, of a minute unless its trigger sets one.       *)
TimeoutsFire ==
  \A e \in Entries :
    WF_vars(\E f \in task_futures : f.entry = e /\ Fail(f))

-----------------------------------------------------------------------------
(* Properties                                                              *)

TypeOK ==
  /\ now \in Times
  /\ last_run_at \in [TaskIds -> Times \cup {Never}]
  /\ tasks \in Seq(Triggers)
  /\ Len(tasks) <= MaxEntries
  /\ running_tasks \subseteq TaskIds
  /\ task_futures \subseteq Future
  /\ \A f \in task_futures : f.entry \in DOMAIN tasks
  /\ msg_rx \in Seq(Configs)
  /\ cron_events \in Seq(Event)
  /\ cron_running \subseteq TaskIds
  /\ cron \in {"up", "down"}
  /\ management \in {"up", "down"}
  /\ restarts \in 0..MaxRestarts

(* A task whose triggers all have a valid endpoint and a schedule that     *)
(* goes on.                                                                *)
Runnable(t) ==
  \A tr \in Triggers : TaskOf[tr] = t =>
    /\ tr \notin BadEndpoint
    /\ \E s \in Schedule[tr] : s > MaxTime

(* A task has one run in flight, however many entries redeployments have   *)
(* left for it, and the run holds the task's place in running_tasks.       *)
OneRunPerTask ==
  /\ \A f, g \in task_futures : TaskAt(f.entry) = TaskAt(g.entry) => f = g
  /\ \A f \in task_futures : TaskAt(f.entry) \in running_tasks

(* A task is held in running_tasks only by a run in flight, so that it can *)
(* be started again: every way out of a run of a runnable task releases it.*)
RunningTasksProgress ==
  management = "up" =>
    \A t \in running_tasks : Live(t) # {} \/ ~Runnable(t)

(* What the introspection page will show of a task once the events on      *)
(* their way are handled.                                                  *)
WillShowRunning(t) ==
  LET about == {i \in DOMAIN cron_events : cron_events[i].task = t} IN
    \/ about = {} /\ t \in cron_running
    \/ \E i \in about : /\ \A j \in about : j <= i
                         /\ cron_events[i].kind = "Start"

(* The events keep the page in step with the cron thread: when they are    *)
(* handled it shows the tasks that have called a function and await it,    *)
(* and no other task that can run.                                         *)
ShownRunning ==
  management = "up" =>
    \A t \in TaskIds :
      LET invoked == \E f \in Live(t) : f.phase = "Invoked" IN
        /\ invoked => WillShowRunning(t)
        /\ WillShowRunning(t) => invoked \/ ~Runnable(t)

(* A row replaces another only when an instant of a schedule of that task  *)
(* lies between them: no scheduled instant is counted twice, whatever      *)
(* timeouts, retries, redeployments and restarts come in between.          *)
RunsFollowSchedule ==
  [][\A t \in TaskIds :
       last_run_at[t] # Never /\ last_run_at'[t] # last_run_at[t] =>
         \E e \in DOMAIN tasks : \E s \in Schedule[tasks[e]] :
           /\ TaskAt(e) = t
           /\ last_run_at[t] < s
           /\ s <= last_run_at'[t]]_vars

(* The thread, its entries, runs and retries are an atomic scheduler: a    *)
(* function is called only when its task is due by the row, one call of a  *)
(* task at a time, and the row moves only when a call succeeds.  The calls *)
(* in flight are those of the invoked runs.                                *)
Scheduled == {tasks[e] : e \in DOMAIN tasks}
Calls == {tasks[f.entry] : f \in {g \in task_futures : g.phase = "Invoked"}}

Promise ==
  INSTANCE AtomicCron WITH rows <- last_run_at, scheduled <- Scheduled, calls <- Calls

ImplementsAtomicCron == Promise!Spec

(* A run that has begun releases its task, given only that timeouts fire:  *)
(* a function that never answers does not stop its own schedule.           *)
RunEnds ==
  TimeoutsFire =>
    \A t \in TaskIds :
      Runnable(t) => (t \in running_tasks ~> t \notin running_tasks)

(* A task that is due and stays so is invoked, though no other run may     *)
(* ever end: one slow cron job does not block the others.                  *)
DueTaskRuns ==
  \A t \in TaskIds :
    LET due == \E e \in DOMAIN tasks : TaskAt(e) = t /\ Due(e) IN
      Runnable(t) =>
        (due ~> ~due \/ \E f \in Live(t) : f.phase = "Invoked")

(* Schedules go on: no run holds its own task up, nor another one.         *)
SchedulesGoOn == RunEnds /\ DueTaskRuns

(* What the comments on the two early returns say ("retrying won't help,   *)
(* but let's schedule task one minute into future anyway"): while the      *)
(* thread works, a task it still counts as running has a run in flight.    *)
EarlyReturnsReschedule ==
  management = "up" => \A t \in running_tasks : Live(t) # {}
=============================================================================
