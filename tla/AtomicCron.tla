------------------------------- MODULE AtomicCron -------------------------------
(***************************************************************************)
(* What cron promises to the functions it calls: a task is called only     *)
(* when it is due by the row of its last run, never while another call of  *)
(* the same task is in flight, and a call that succeeds moves the row to   *)
(* the time of its answer.  There is no timer, no pass over entries, no    *)
(* duplicate of an entry and no set of running tasks here; module Cron is  *)
(* shown to implement it.                                                  *)
(*                                                                         *)
(* A call that fails leaves its task due.  The end of the process, or of   *)
(* its cron thread, forgets the schedule and the calls, and keeps the rows.*)
(***************************************************************************)
EXTENDS Integers, Sequences

CONSTANTS TaskIds, Triggers, TaskOf, Schedule, BadEndpoint, Configs,
          MaxTime,   \* bound on the clock
          Never      \* the row of a task that has not run

VARIABLES now,         \* the clock
          rows,        \* per task: when it last ran, or Never
          scheduled,   \* the triggers that were handed over
          calls        \* the triggers whose function was called and has not answered

vars == <<now, rows, scheduled, calls>>

Init ==
  /\ now = 0
  /\ rows = [t \in TaskIds |-> Never]
  /\ scheduled = {}
  /\ calls = {}

Tick ==
  /\ now < MaxTime
  /\ now' = now + 1
  /\ UNCHANGED <<rows, scheduled, calls>>

Add(c) ==
  /\ scheduled' = scheduled \cup {c[i] : i \in DOMAIN c}
  /\ UNCHANGED <<now, rows, calls>>

Due(tr) ==
  \/ rows[TaskOf[tr]] = Never
  \/ \E s \in Schedule[tr] : rows[TaskOf[tr]] < s /\ s <= now

Call(tr) ==
  /\ tr \in scheduled \ BadEndpoint
  /\ \A other \in calls : TaskOf[other] # TaskOf[tr]
  /\ Due(tr)
  /\ calls' = calls \cup {tr}
  /\ UNCHANGED <<now, rows, scheduled>>

Succeeds(tr) ==
  /\ rows' = [rows EXCEPT ![TaskOf[tr]] = now]
  /\ calls' = calls \ {tr}
  /\ UNCHANGED <<now, scheduled>>

Fails(tr) ==
  /\ calls' = calls \ {tr}
  /\ UNCHANGED <<now, rows, scheduled>>

Stop ==
  /\ scheduled' = {}
  /\ calls' = {}
  /\ UNCHANGED <<now, rows>>

Next ==
  \/ Tick
  \/ \E c \in Configs : Add(c)
  \/ \E tr \in Triggers : Call(tr)
  \/ \E tr \in calls : Succeeds(tr) \/ Fails(tr)
  \/ Stop

Spec == Init /\ [][Next]_vars
=============================================================================
