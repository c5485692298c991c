------------------------------- MODULE Routing --------------------------------
(***************************************************************************)
(* How a deployment or a removal decided by the management thread becomes  *)
(* routes on every worker.  The management thread puts each message into   *)
(* the queue of every worker without yielding in between; a worker takes   *)
(* its messages in order, waits for the instantiation a deployment needs   *)
(* (its loop takes nothing else meanwhile, its open connections go on),    *)
(* and rewrites its tables.  A removal that came over the management api   *)
(* returns when all workers have acknowledged it.                          *)
(*                                                                         *)
(* The deployment id the monitor assigns only has to be unique: here it is *)
(* the position of the message among all messages sent.                    *)
(*                                                                         *)
(* Sources: tasks/worker/task.rs, tasks/worker/controller.rs, the end of   *)
(* apply_config and remove_function in definitions/monitor.rs, and the     *)
(* lookup in triggers/http.rs.                                             *)
(***************************************************************************)
EXTENDS Integers, Sequences, FiniteSets

CONSTANTS Workers,
          Functions,    \* function ids
          Hosts,        \* host names, lower-cased
          AnyHost,      \* a listener without a host
          Listeners,    \* the sets of listeners a configuration may have
          NoFunction,
          MaxMessages   \* bound on the messages sent

ASSUME RoutingAssumption ==
  /\ Listeners \subseteq SUBSET (Hosts \cup {AnyHost})
  /\ AnyHost \notin Hosts
  /\ NoFunction \notin Functions
  /\ MaxMessages \in Nat

VARIABLES
  sent,                  \* history: every message, in the order of sending
  messages_rx,           \* each worker's queue, of positions in sent
  deploying,             \* the deployment whose instance a worker creates, or 0
  function_deployments,  \* per worker
  functions,             \* per worker: the current deployment, or 0
  http_hosts,            \* per worker
  http_default,          \* per worker
  failed,                \* history: deployments a worker could not instantiate
  on_ready,              \* workers that acknowledged a removal
  removed                \* removals that returned to their caller

channelVars == <<sent, messages_rx>>
tableVars == <<function_deployments, functions, http_hosts, http_default>>
apiVars == <<on_ready, removed>>
vars == <<channelVars, deploying, tableVars, failed, apiVars>>

Ids == 1..MaxMessages
Message ==
  [kind : {"deploy"}, function : Functions, listeners : Listeners]
    \cup [kind : {"remove"}, function : Functions]

Idle(w) == deploying[w] = 0
NextIs(w, kind) == messages_rx[w] # <<>> /\ sent[Head(messages_rx[w])].kind = kind
Received(w) == messages_rx' = [messages_rx EXCEPT ![w] = Tail(@)]

-----------------------------------------------------------------------------
Init ==
  /\ sent = <<>>
  /\ messages_rx = [w \in Workers |-> <<>>]
  /\ deploying = [w \in Workers |-> 0]
  /\ function_deployments = [w \in Workers |-> {}]
  /\ functions = [w \in Workers |-> [f \in Functions |-> 0]]
  /\ http_hosts = [w \in Workers |-> [h \in Hosts |-> NoFunction]]
  /\ http_default = [w \in Workers |-> NoFunction]
  /\ failed = [w \in Workers |-> {}]
  /\ on_ready = [i \in Ids |-> {}]
  /\ removed = {}

(* A mutant: the position is that of the message before.                   *)
SendOffByOne(m) ==
  /\ Len(sent) < MaxMessages
  /\ sent' = Append(sent, m)
  /\ messages_rx' = [w \in Workers |-> Append(messages_rx[w], Len(sent))]
  /\ UNCHANGED <<deploying, tableVars, failed, apiVars>>

(* A mutant: a worker in the middle of a deployment is passed over.        *)
SendToIdle(m) ==
  /\ Len(sent) < MaxMessages
  /\ sent' = Append(sent, m)
  /\ messages_rx' = [w \in Workers |->
       IF Idle(w) THEN Append(messages_rx[w], Len(sent) + 1) ELSE messages_rx[w]]
  /\ UNCHANGED <<deploying, tableVars, failed, apiVars>>

Send(m) ==
  /\ Len(sent) < MaxMessages
  /\ sent' = Append(sent, m)
  /\ messages_rx' = [w \in Workers |-> Append(messages_rx[w], Len(sent) + 1)]
  /\ UNCHANGED <<deploying, tableVars, failed, apiVars>>

SendDeploy(f, listeners) ==
  Send([kind |-> "deploy", function |-> f, listeners |-> listeners])

SendRemove(f) == Send([kind |-> "remove", function |-> f])

(* A mutant: the old deployment makes room before the new one exists.      *)
DeployStartsDroppingOld(w) ==
  /\ Idle(w)
  /\ NextIs(w, "deploy")
  /\ Received(w)
  /\ deploying' = [deploying EXCEPT ![w] = Head(messages_rx[w])]
  /\ function_deployments' =
       [function_deployments EXCEPT ![w] =
          @ \ {functions[w][sent[Head(messages_rx[w])].function]}]
  /\ UNCHANGED <<sent, functions, http_hosts, http_default, failed, apiVars>>

(* The worker takes a deployment and awaits its instance.                  *)
DeployStarts(w) ==
  /\ Idle(w)
  /\ NextIs(w, "deploy")
  /\ Received(w)
  /\ deploying' = [deploying EXCEPT ![w] = Head(messages_rx[w])]
  /\ UNCHANGED <<sent, tableVars, failed, apiVars>>

(* The module cannot be instantiated: a warning, and the tables stay.      *)
DeployFails(w) ==
  /\ ~Idle(w)
  /\ failed' = [failed EXCEPT ![w] = @ \cup {deploying[w]}]
  /\ deploying' = [deploying EXCEPT ![w] = 0]
  /\ UNCHANGED <<channelVars, tableVars, apiVars>>

(* A mutant: the hosts of the previous deployment are not taken out.       *)
DeployEndsKeepingHosts(w) ==
  /\ ~Idle(w)
  /\ LET id == deploying[w]
         f == sent[id].function
         listeners == sent[id].listeners
     IN /\ function_deployments' = [function_deployments EXCEPT ![w] = @ \cup {id}]
        /\ functions' = [functions EXCEPT ![w][f] = id]
        /\ http_hosts' = [http_hosts EXCEPT ![w] =
             [h \in Hosts |-> IF h \in listeners THEN f ELSE @[h]]]
        /\ http_default' = IF AnyHost \in listeners
                             THEN [http_default EXCEPT ![w] = f]
                             ELSE http_default
  /\ deploying' = [deploying EXCEPT ![w] = 0]
  /\ UNCHANGED <<channelVars, failed, apiVars>>

(* The instance exists: the deployment becomes current, the hosts of the   *)
(* function are replaced, and a listener without a host claims the default *)
(* route.  Earlier deployments stay in function_deployments, and an        *)
(* earlier claim to the default route stays with the function.             *)
DeployEnds(w) ==
  /\ ~Idle(w)
  /\ LET id == deploying[w]
         f == sent[id].function
         listeners == sent[id].listeners
     IN /\ function_deployments' = [function_deployments EXCEPT ![w] = @ \cup {id}]
        /\ functions' = [functions EXCEPT ![w][f] = id]
        /\ http_hosts' = [http_hosts EXCEPT ![w] =
             [h \in Hosts |-> IF h \in listeners THEN f
                              ELSE IF @[h] = f THEN NoFunction ELSE @[h]]]
        /\ http_default' = IF AnyHost \in listeners
                             THEN [http_default EXCEPT ![w] = f]
                             ELSE http_default
  /\ deploying' = [deploying EXCEPT ![w] = 0]
  /\ UNCHANGED <<channelVars, failed, apiVars>>

(* A mutant: a removal leaves the default route alone.                     *)
RemoveFunctionNotDefault(w) ==
  /\ Idle(w)
  /\ NextIs(w, "remove")
  /\ Received(w)
  /\ LET id == Head(messages_rx[w])
         f == sent[id].function
     IN /\ http_hosts' = [http_hosts EXCEPT ![w] =
             [h \in Hosts |-> IF @[h] = f THEN NoFunction ELSE @[h]]]
        /\ functions' = [functions EXCEPT ![w][f] = 0]
        /\ function_deployments' =
             [function_deployments EXCEPT ![w] = @ \ {functions[w][f]}]
        /\ on_ready' = [on_ready EXCEPT ![id] = @ \cup {w}]
  /\ UNCHANGED <<sent, deploying, http_default, failed, removed>>

(* A mutant: a worker that does not have the function does not answer.     *)
RemoveFunctionIfPresent(w) ==
  /\ Idle(w)
  /\ NextIs(w, "remove")
  /\ Received(w)
  /\ LET id == Head(messages_rx[w])
         f == sent[id].function
     IN /\ http_hosts' = [http_hosts EXCEPT ![w] =
             [h \in Hosts |-> IF @[h] = f THEN NoFunction ELSE @[h]]]
        /\ http_default' = IF http_default[w] = f
                             THEN [http_default EXCEPT ![w] = NoFunction]
                             ELSE http_default
        /\ functions' = [functions EXCEPT ![w][f] = 0]
        /\ function_deployments' =
             [function_deployments EXCEPT ![w] = @ \ {functions[w][f]}]
        /\ on_ready' = IF functions[w][f] # 0
                         THEN [on_ready EXCEPT ![id] = @ \cup {w}]
                         ELSE on_ready
  /\ UNCHANGED <<sent, deploying, failed, removed>>

(* All routes to the function go, then its current deployment.  Removing   *)
(* what is not there is no error.                                          *)
RemoveFunction(w) ==
  /\ Idle(w)
  /\ NextIs(w, "remove")
  /\ Received(w)
  /\ LET id == Head(messages_rx[w])
         f == sent[id].function
     IN /\ http_hosts' = [http_hosts EXCEPT ![w] =
             [h \in Hosts |-> IF @[h] = f THEN NoFunction ELSE @[h]]]
        /\ http_default' = IF http_default[w] = f
                             THEN [http_default EXCEPT ![w] = NoFunction]
                             ELSE http_default
        /\ functions' = [functions EXCEPT ![w][f] = 0]
        /\ function_deployments' =
             [function_deployments EXCEPT ![w] = @ \ {functions[w][f]}]
        /\ on_ready' = [on_ready EXCEPT ![id] = @ \cup {w}]
  /\ UNCHANGED <<sent, deploying, failed, removed>>

(* A mutant: one acknowledgement is taken for all.                         *)
RemovalReturnsEarly(i) ==
  /\ i \in DOMAIN sent
  /\ i \notin removed
  /\ on_ready[i] # {}
  /\ removed' = removed \cup {i}
  /\ UNCHANGED <<channelVars, deploying, tableVars, failed, on_ready>>

(* The api answers when every worker has acknowledged.                     *)
RemovalReturns(i) ==
  /\ i \in DOMAIN sent
  /\ sent[i].kind = "remove"
  /\ i \notin removed
  /\ on_ready[i] = Workers
  /\ removed' = removed \cup {i}
  /\ UNCHANGED <<channelVars, deploying, tableVars, failed, on_ready>>

WorkerStep(w) ==
  DeployStarts(w) \/ DeployFails(w) \/ DeployEnds(w) \/ RemoveFunction(w)

Next ==
  \/ \E f \in Functions : \E l \in Listeners : SendDeploy(f, l)
  \/ \E f \in Functions : SendRemove(f)
  \/ \E w \in Workers : WorkerStep(w)
  \/ \E i \in Ids : RemovalReturns(i)

Spec == Init /\ [][Next]_vars

-----------------------------------------------------------------------------
(* The lookups of a request.                                               *)

(* HttpHandler::call: the function of the host, or else the default one.   *)
TargetFunction(w, h) ==
  IF h \in Hosts /\ http_hosts[w][h] # NoFunction THEN http_hosts[w][h]
                                                  ELSE http_default[w]

(* A function with a current deployment that is there to be called.        *)
Callable(w, f) == functions[w][f] \in function_deployments[w]

IsServed(w, h) ==
  TargetFunction(w, h) # NoFunction /\ Callable(w, TargetFunction(w, h))

-----------------------------------------------------------------------------
(* Properties                                                              *)

TypeOK ==
  /\ sent \in Seq(Message)
  /\ Len(sent) <= MaxMessages
  /\ messages_rx \in [Workers -> Seq(Ids)]
  /\ deploying \in [Workers -> Ids \cup {0}]
  /\ function_deployments \in [Workers -> SUBSET Ids]
  /\ functions \in [Workers -> [Functions -> Ids \cup {0}]]
  /\ http_hosts \in [Workers -> [Hosts -> Functions \cup {NoFunction}]]
  /\ http_default \in [Workers -> Functions \cup {NoFunction}]
  /\ failed \in [Workers -> SUBSET Ids]
  /\ on_ready \in [Ids -> SUBSET Workers]
  /\ removed \subseteq Ids

(* A route never leads nowhere: whatever function the tables name, by host *)
(* or by default, has a current deployment, and that deployment is kept.   *)
(* (The code would answer 502 or NotFound where this failed.)              *)
RoutesResolve ==
  \A w \in Workers :
    /\ \A f \in Functions : functions[w][f] # 0 => Callable(w, f)
    /\ \A h \in Hosts \cup {AnyHost} :
         TargetFunction(w, h) # NoFunction => Callable(w, TargetFunction(w, h))

(* When a removal has returned, no worker routes to the function, unless   *)
(* through a deployment sent after the removal.                            *)
RemovedMeansGone ==
  \A i \in removed : \A w \in Workers :
    LET f == sent[i].function IN
      /\ functions[w][f] # 0 => functions[w][f] > i
      /\ (\E h \in Hosts \cup {AnyHost} : TargetFunction(w, h) = f)
           => functions[w][f] > i

(* What a worker has handled, and what of it had an effect.                *)
Handled(w) ==
  1 .. Len(sent) - Len(messages_rx[w]) - (IF Idle(w) THEN 0 ELSE 1)
Effective(w) == Handled(w) \ failed[w]
About(w, f) == {i \in Effective(w) : sent[i].function = f}
Claims(w, l) ==
  {i \in Effective(w) : sent[i].kind = "deploy" /\ l \in sent[i].listeners}
IsLast(i, S) == i \in S /\ \A j \in S : j <= i

(* The tables of a worker are a function of the messages it has handled,   *)
(* whatever the pace of the others: the current deployment is the last one *)
(* that worked, unless the function was removed since; a host belongs to   *)
(* the last function to claim it, while that claim is the function's last  *)
(* word; the default route to the last to claim it, while not removed.     *)
TablesFollowMessages ==
  \A w \in Workers :
    /\ \A f \in Functions : \A i \in Ids :
         functions[w][f] = i
           <=> IsLast(i, About(w, f)) /\ sent[i].kind = "deploy"
    /\ \A h \in Hosts : \A f \in Functions :
         http_hosts[w][h] = f
           <=> \E i \in About(w, f) : IsLast(i, Claims(w, h))
                                      /\ IsLast(i, About(w, f))
    /\ \A f \in Functions :
         http_default[w] = f
           <=> \E i \in About(w, f) :
                 /\ IsLast(i, Claims(w, AnyHost))
                 /\ \A j \in About(w, f) : j > i => sent[j].kind = "deploy"

(* A redeployment, of whatever function, takes no host away: what a worker *)
(* serves a host with stays there to be called, or another function claims *)
(* the host, until the worker handles a removal of the function, or a new  *)
(* deployment of it that has no such listener.  This is about the tables,  *)
(* which the requests on open connections are looked up in: while a        *)
(* deployment is awaited no connection is accepted (docs/todo.md:4).       *)
HostsStayServed ==
  [][\A w \in Workers : \A h \in Hosts \cup {AnyHost} :
       LET f == TargetFunction(w, h)
           id == deploying[w]
       IN f # NoFunction /\ ~IsServed(w, h)'
            => \/ /\ NextIs(w, "remove") /\ sent[Head(messages_rx[w])].function = f
                  /\ messages_rx'[w] = Tail(messages_rx[w])
               \/ id # 0 /\ functions'[w][f] = id /\ h \notin sent[id].listeners]_vars
=============================================================================
