------------------------------ MODULE Deployment ------------------------------
(***************************************************************************)
(* From a definition file to a request served: the management thread       *)
(* (Definitions) and the workers (Routing) together.  What Definitions     *)
(* only records as told to the workers is here a message in the queue of   *)
(* each of them, and the messages Routing lets anybody send are here those *)
(* of the management thread: a deployment at the end of apply_config, a    *)
(* removal at the end of a pass or over the management api.                *)
(*                                                                         *)
(* A deployment says the listeners its config has.  Routing does not know  *)
(* configs: which one a message came from is kept in configs.              *)
(*                                                                         *)
(* Sources: as in Definitions and Routing.                                 *)
(***************************************************************************)
EXTENDS Routing

CONSTANTS Configs, Codes, Broken, Inline, ByPath, InlineCode, EnvFile, BadSchedule,
          Start, Written, Rebuilt, Asked, Deploys, MaxEdits,
          Nothing, Unparsable, Missing, Removed, NoJob,
          ListenersOf,  \* the listeners of each config
          MayHang       \* bound on the workers whose loop hangs

VARIABLES
  disk, code, edits, management, loop, cron, scan, watching, event, dirty, left,
  prev_state, deployed_state, job, compiler_rx, management_rx, deploy, running,
  scheduled, unseen, recoded,
  refused,   \* history: failed of Definitions
  configs,   \* history: per message sent, its config, or Removed
  hung       \* workers whose loop goes no further

D == INSTANCE Definitions WITH failed <- refused

ASSUME DeploymentAssumption ==
  /\ D!Parameters
  /\ ListenersOf \in [Configs -> Listeners]
  /\ MayHang \subseteq Workers

definitionVars ==
  <<disk, code, edits, management, loop, cron, scan, watching, event, dirty, left,
    prev_state, deployed_state, job, compiler_rx, management_rx, deploy, running,
    scheduled, unseen, recoded, refused>>
deploymentVars == <<vars, definitionVars, configs, hung>>

DeploymentInit == Init /\ D!Init /\ configs = <<>> /\ hung = {}

-----------------------------------------------------------------------------
(* The end of apply_config: one message, put into every queue.             *)
Deliver(a) ==
  /\ D!SchedulePanics(a) \/ D!CronIsGone(a) \/ D!Deployed(a)
  /\ SendDeploy(job[a].function, ListenersOf[job[a].config])
  /\ configs' = Append(configs, job[a].config)
  /\ UNCHANGED hung

(* The order in which a pass comes to what it has to remove is that of a   *)
(* map: any.                                                               *)
Orders(S) ==
  {o \in [1..Cardinality(S) -> S] : \A f \in S : \E k \in DOMAIN o : o[k] = f}

SendRemovals(order) ==
  /\ Len(sent) + Len(order) <= MaxMessages
  /\ sent' = sent \o [k \in 1..Len(order) |-> [kind |-> "remove", function |-> order[k]]]
  /\ messages_rx' = [w \in Workers |->
       messages_rx[w] \o [k \in 1..Len(order) |-> Len(sent) + k]]
  /\ configs' = configs \o [k \in 1..Len(order) |-> Removed]
  /\ UNCHANGED <<deploying, tableVars, failed, apiVars>>

Reconciled ==
  /\ D!EndPass
  /\ \E order \in Orders(D!Forgotten) : SendRemovals(order)
  /\ UNCHANGED hung

RemovedOverApi(f) ==
  /\ D!RemoveOverApi(f)
  /\ SendRemove(f)
  /\ configs' = Append(configs, Removed)
  /\ UNCHANGED hung

(* What the management thread does without telling the workers, and what   *)
(* goes on around it.                                                      *)
Prepares ==
  /\ \/ D!Edit
     \/ D!Ask
     \/ D!CronStops
     \/ D!Notify
     \/ D!StartPass
     \/ \E f \in Functions : D!Visit(f)
     \/ D!Watch
     \/ D!TakeRequest \/ D!LoopStops
     \/ \E a \in D!Tasks :
          D!ReadCode(a) \/ D!SendToCompiler(a) \/ D!CompileFails(a) \/ D!EnvPanics(a)
     \/ D!Compile
  /\ UNCHANGED <<vars, configs, hung>>

CaughtUp(w) == Idle(w) /\ messages_rx[w] = <<>>

Serves(w) ==
  /\ w \notin hung
  /\ WorkerStep(w)
  /\ UNCHANGED <<definitionVars, configs, hung>>

(* The loop of a worker awaits what may never end: an instantiation, whose *)
(* start function has no timeout, or a resource to be dropped, for the     *)
(* mutex of an instance that is in a call (Streams).  Or it has ended,     *)
(* having found the management thread gone.  This counts from the first    *)
(* message that is left waiting.                                           *)
Hangs(w) ==
  /\ w \notin hung
  /\ ~CaughtUp(w)
  /\ hung' = hung \cup {w}
  /\ UNCHANGED <<vars, definitionVars, configs>>

AnswersRemoval(i) ==
  /\ management = "up"
  /\ RemovalReturns(i)
  /\ UNCHANGED <<definitionVars, configs, hung>>

DeploymentNext ==
  \/ Prepares
  \/ \E a \in D!Tasks : Deliver(a)
  \/ Reconciled
  \/ \E f \in Functions : RemovedOverApi(f)
  \/ \E w \in Workers : Serves(w)
  \/ \E w \in MayHang : Hangs(w)
  \/ \E i \in Ids : AnswersRemoval(i)

DeploymentSpec == DeploymentInit /\ [][DeploymentNext]_deploymentVars

(* Workers take their messages, an instantiation ends one way or another   *)
(* unless its worker hangs in it, and the api call is resumed.             *)
DeploymentFairSpec ==
  /\ DeploymentSpec
  /\ \A w \in Workers : WF_deploymentVars(Serves(w))
  /\ WF_deploymentVars(\E i \in Ids : AnswersRemoval(i))

-----------------------------------------------------------------------------
Told(f) == {i \in DOMAIN sent : sent[i].function = f}
Route(w, l) == IF l = AnyHost THEN http_default[w] ELSE http_hosts[w][l]
ClaimedAfter(i, l) ==
  \E j \in DOMAIN sent : j > i /\ sent[j].kind = "deploy" /\ l \in sent[j].listeners

(* Worker w serves config c of f since message i: it is the current        *)
(* deployment, no host leads to f that c does not ask for, and every       *)
(* listener c asks for leads to f, unless claimed by a later deployment.   *)
ServesSince(w, f, c, i) ==
  /\ functions[w][f] = i
  /\ \A h \in Hosts : http_hosts[w][h] = f => h \in ListenersOf[c]
  /\ \A l \in ListenersOf[c] : ~ClaimedAfter(i, l) => Route(w, l) = f

(* What the management thread last said of a function is what a worker     *)
(* that has caught up does: it serves the config that was sent last, and   *)
(* nothing of what was removed or never sent, in whatever order the scan,  *)
(* the requests and the removals came (apply_config and remove_function,   *)
(* monitor.rs, with worker_handle_message, task.rs).                       *)
WorkersFollowManagement ==
  \A f \in Functions :
    IF D!Sent(f)
      THEN \E i \in DOMAIN sent :
             /\ IsLast(i, Told(f))
             /\ configs[i] = running[f].config
             /\ \A w \in Workers :
                  CaughtUp(w) /\ i \notin failed[w]
                    => ServesSince(w, f, running[f].config, i)
      ELSE \A w \in Workers :
             CaughtUp(w) => /\ functions[w][f] = 0
                            /\ \A l \in Hosts \cup {AnyHost} : Route(w, l) # f

(* From file to route: when the scan has nothing left to do, what a        *)
(* definition says now, if it was not refused, nor replaced or removed     *)
(* over the api, is what cron schedules, what the workers were told last,  *)
(* and what each worker that has caught up serves, if it could instantiate *)
(* it.  (scan_definitions and apply_config, monitor.rs, with               *)
(* run_worker_task, task.rs: no interleaving of edits, requests, passes    *)
(* and workers leaves an older version of a definition in place.  Its code *)
(* may be older than the file: QuietMeansApplied of Definitions.)          *)
EditsAreServed ==
  D!AllUp /\ scan = "Idle" /\ ~dirty /\ ~event =>
    \A f \in Functions :
      /\ disk[f] \in Configs \ {refused[f]} /\ f \notin unseen
      /\ running[f] # Removed /\ (D!Sent(f) => running[f].by = "scan")
      => /\ scheduled[f] = disk[f]
         /\ \E i \in DOMAIN sent :
              /\ IsLast(i, Told(f))
              /\ configs[i] = disk[f]
              /\ \A w \in Workers :
                   CaughtUp(w) /\ i \notin failed[w] => ServesSince(w, f, disk[f], i)

(* A removal returns, however many deployments are queued before it,       *)
(* unless the management thread is gone, or a worker that has yet to       *)
(* acknowledge it hangs: it is waited for without a timeout.               *)
RemovalCompletes ==
  \A i \in Ids :
    (i \in DOMAIN sent /\ sent[i].kind = "remove")
      ~> \/ i \in removed
         \/ management = "down"
         \/ \E w \in hung : w \notin on_ready[i]
=============================================================================
