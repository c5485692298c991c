--------------------------- MODULE DeploymentProofs ---------------------------
(***************************************************************************)
(* Proofs about routing and about whole deployments, for any number of     *)
(* workers, functions, hosts, configs, edits and messages.                 *)
(*                                                                         *)
(* The invariant of the workers says that a worker's queue is the tail of  *)
(* what was sent (QueueIsTail), that the deployment in hand is the message *)
(* just before that tail (InHand), that a current deployment is one of the *)
(* function it stands for (CurrentIsOwn), so that a removal cannot take    *)
(* the deployment of another function, that the routes name functions with *)
(* a current deployment (RoutesNameCurrent), and that what a worker        *)
(* acknowledged is behind it (AcknowledgedIsPast).  FollowInv says on top  *)
(* of it that the tables are what the last messages about them left there. *)
(*                                                                         *)
(* A deployment is shown to behave as Definitions says on one side and as  *)
(* Routing says on the other, so that what is proved of each holds of the  *)
(* two together.  Coupled ties them: the messages sent are the configs     *)
(* applied, and the last of them about a function is what running says.    *)
(***************************************************************************)
EXTENDS Deployment, SequenceTheorems, FiniteSetTheorems, TLAPS

-----------------------------------------------------------------------------
(* The workers.                                                            *)

Position(w) == Len(sent) - Len(messages_rx[w])

QueueIsTail ==
  \A w \in Workers :
    /\ Len(messages_rx[w]) <= Len(sent)
    /\ \A k \in 1..Len(messages_rx[w]) : messages_rx[w][k] = Position(w) + k

InHand ==
  \A w \in Workers :
    deploying[w] # 0 => /\ deploying[w] = Position(w)
                        /\ sent[deploying[w]].kind = "deploy"

CurrentIsOwn ==
  \A w \in Workers : \A f \in Functions :
    functions[w][f] # 0 => /\ functions[w][f] <= Len(sent)
                           /\ sent[functions[w][f]].function = f
                           /\ functions[w][f] \in function_deployments[w]

RoutesNameCurrent ==
  \A w \in Workers :
    /\ \A h \in Hosts : http_hosts[w][h] # NoFunction
                          => functions[w][http_hosts[w][h]] # 0
    /\ http_default[w] # NoFunction => functions[w][http_default[w]] # 0

AcknowledgedIsPast ==
  \A i \in Ids : \A w \in on_ready[i] :
    /\ i <= Position(w)
    /\ sent[i].kind = "remove"
    /\ functions[w][sent[i].function] # 0
         => functions[w][sent[i].function] > i

ReturnedIsAcknowledged == \A i \in removed : on_ready[i] = Workers

IInv ==
  /\ TypeOK
  /\ QueueIsTail
  /\ InHand
  /\ CurrentIsOwn
  /\ RoutesNameCurrent
  /\ AcknowledgedIsPast
  /\ ReturnedIsAcknowledged

(* Nothing is sent, nothing is routed.                                     *)
LEMMA InitInv == Init => IInv
<1> SUFFICES ASSUME Init PROVE IInv
  OBVIOUS
<1> USE RoutingAssumption DEF Init
<1>1. TypeOK
  BY DEF TypeOK, Ids
<1>2. QueueIsTail /\ InHand
  BY DEF QueueIsTail, InHand, Position
<1>3. CurrentIsOwn /\ RoutesNameCurrent
  BY DEF CurrentIsOwn, RoutesNameCurrent
<1>4. AcknowledgedIsPast /\ ReturnedIsAcknowledged
  BY DEF AcknowledgedIsPast, ReturnedIsAcknowledged
<1> QED BY <1>1, <1>2, <1>3, <1>4 DEF IInv

(* What the head of a queue is, and what is left when it is taken.         *)
LEMMA HeadOfQueue ==
  ASSUME IInv, NEW w \in Workers, messages_rx[w] # <<>>, Received(w)
  PROVE  /\ Head(messages_rx[w]) = Position(w) + 1
         /\ Position(w) \in Nat
         /\ Position(w) + 1 \in DOMAIN sent
         /\ messages_rx' \in [Workers -> Seq(Ids)]
         /\ Len(messages_rx'[w]) = Len(messages_rx[w]) - 1
         /\ \A k \in 1..Len(messages_rx'[w]) :
              messages_rx'[w][k] = Position(w) + 1 + k
         /\ \A v \in Workers \ {w} : messages_rx'[v] = messages_rx[v]
<1> USE DEF IInv, TypeOK
<1> DEFINE q == messages_rx[w]
<1>1. q \in Seq(Ids) /\ Len(q) \in Nat /\ Len(q) >= 1 /\ Head(q) = q[1]
  BY EmptySeq
<1>2. /\ Tail(q) \in Seq(Ids)
      /\ Len(Tail(q)) = Len(q) - 1
      /\ \A k \in 1..Len(Tail(q)) : Tail(q)[k] = q[k + 1]
  BY <1>1, HeadTailProperties
<1>3. /\ Len(q) <= Len(sent)
      /\ \A k \in 1..Len(q) : q[k] = Position(w) + k
      /\ Len(sent) \in Nat
      /\ DOMAIN sent = 1..Len(sent)
  BY LenProperties DEF QueueIsTail
<1>4. Position(w) \in Nat /\ Position(w) + 1 \in DOMAIN sent
  BY <1>1, <1>3 DEF Position
<1>5. messages_rx' = [messages_rx EXCEPT ![w] = Tail(q)]
  BY DEF Received
<1>6. \A k \in 1..Len(Tail(q)) : Tail(q)[k] = Position(w) + 1 + k
  <2> SUFFICES ASSUME NEW k \in 1..Len(Tail(q))
               PROVE  Tail(q)[k] = Position(w) + 1 + k
    OBVIOUS
  <2>1. k \in Nat /\ k + 1 \in 1..Len(q)
    BY <1>1, <1>2
  <2> QED BY <1>2, <1>3, <1>4, <2>1
<1> QED BY <1>1, <1>2, <1>3, <1>4, <1>5, <1>6

(* A message joins the end of every queue.                                 *)
LEMMA SendInv == ASSUME IInv, NEW m \in Message, Send(m) PROVE IInv'
<1> USE RoutingAssumption
<1> DEFINE n == Len(sent) + 1
<1>1. /\ sent \in Seq(Message)
      /\ Len(sent) \in Nat
      /\ n \in Ids
      /\ sent' \in Seq(Message)
      /\ Len(sent') = n
      /\ \A i \in 1..Len(sent) : sent'[i] = sent[i]
      /\ UNCHANGED <<deploying, tableVars, failed, apiVars>>
  BY DEF IInv, TypeOK, Send, Ids
<1>2. ASSUME NEW w \in Workers
      PROVE  /\ messages_rx'[w] \in Seq(Ids)
             /\ Len(messages_rx'[w]) = Len(messages_rx[w]) + 1
             /\ Len(messages_rx[w]) \in Nat
             /\ \A k \in 1..Len(messages_rx[w]) :
                  messages_rx'[w][k] = messages_rx[w][k]
             /\ messages_rx'[w][Len(messages_rx[w]) + 1] = n
  <2>1. messages_rx[w] \in Seq(Ids) /\ messages_rx'[w] = Append(messages_rx[w], n)
    BY DEF IInv, TypeOK, Send
  <2> HIDE DEF n
  <2> QED BY <1>1, <2>1
<1>3. TypeOK'
  <2>1. messages_rx' = [w \in Workers |-> messages_rx'[w]]
    BY DEF Send
  <2>2. messages_rx' \in [Workers -> Seq(Ids)]
    BY <1>2, <2>1
  <2> QED BY <1>1, <2>2 DEF IInv, TypeOK, tableVars, apiVars, Ids
<1>4. \A w \in Workers : Position(w)' = Position(w)
  <2> SUFFICES ASSUME NEW w \in Workers PROVE Position(w)' = Position(w)
    OBVIOUS
  <2>1. Len(sent') = Len(sent) + 1
    BY <1>1
  <2>2. /\ Len(messages_rx'[w]) = Len(messages_rx[w]) + 1
        /\ Len(messages_rx[w]) \in Nat
    BY <1>2
  <2>3. Len(sent) \in Nat
    BY <1>1
  <2> QED BY <2>1, <2>2, <2>3 DEF Position
<1>5. QueueIsTail'
  <2> SUFFICES ASSUME NEW w \in Workers
               PROVE  /\ Len(messages_rx[w])' <= Len(sent)'
                      /\ \A k \in 1..Len(messages_rx[w])' :
                           messages_rx'[w][k] = Position(w) + k
    BY <1>4 DEF QueueIsTail
  <2>1. /\ Len(messages_rx[w]) <= Len(sent)
        /\ \A k \in 1..Len(messages_rx[w]) :
             messages_rx[w][k] = Position(w) + k
    BY DEF IInv, QueueIsTail
  <2>2. Len(messages_rx[w]) \in Nat /\ Len(sent) \in Nat /\ Len(sent') = n
    BY <1>1, <1>2
  <2>3. Len(messages_rx'[w]) = Len(messages_rx[w]) + 1
    BY <1>2
  <2>4. Position(w) + Len(messages_rx[w]) + 1 = n
    BY <2>2 DEF Position
  <2>5. ASSUME NEW k \in 1..Len(messages_rx'[w])
        PROVE  messages_rx'[w][k] = Position(w) + k
    <3>1. CASE k \in 1..Len(messages_rx[w])
      BY <1>2, <2>1, <3>1
    <3>2. CASE k = Len(messages_rx[w]) + 1
      <4>1. messages_rx'[w][Len(messages_rx[w]) + 1] = n
        BY <1>2
      <4>2. messages_rx'[w][k] = n
        BY <3>2, <4>1
      <4>3. Position(w) \in Int
        BY <2>2 DEF Position
      <4>4. n = Position(w) + k
        BY <2>2, <2>4, <3>2, <4>3
      <4> QED BY <4>2, <4>4
    <3> QED BY <2>2, <2>3, <3>1, <3>2
  <2> QED BY <2>1, <2>2, <2>3, <2>5
<1>6. InHand'
  <2> SUFFICES ASSUME NEW w \in Workers, deploying[w] # 0
               PROVE  /\ deploying[w] = Position(w)
                      /\ sent'[deploying[w]].kind = "deploy"
    BY <1>1, <1>4 DEF InHand
  <2>1. deploying[w] = Position(w) /\ sent[deploying[w]].kind = "deploy"
    BY DEF IInv, InHand
  <2>2. deploying[w] \in 1..Len(sent)
    <3>1. deploying[w] \in Nat \ {0} /\ Len(sent) \in Nat
      BY <1>1 DEF IInv, TypeOK, Ids
    <3>2. Len(messages_rx[w]) \in Nat
      BY <1>2
    <3> QED BY <2>1, <3>1, <3>2 DEF Position
  <2> QED BY <1>1, <2>1, <2>2
<1>7. CurrentIsOwn'
  <2> SUFFICES ASSUME NEW w \in Workers, NEW f \in Functions, functions[w][f] # 0
               PROVE  /\ functions[w][f] <= Len(sent')
                      /\ sent'[functions[w][f]].function = f
                      /\ functions[w][f] \in function_deployments[w]
    BY <1>1 DEF CurrentIsOwn, tableVars
  <2>1. /\ functions[w][f] <= Len(sent)
        /\ sent[functions[w][f]].function = f
        /\ functions[w][f] \in function_deployments[w]
    BY DEF IInv, CurrentIsOwn
  <2>2. functions[w][f] \in Nat \ {0} /\ Len(sent) \in Nat
    BY <1>1 DEF IInv, TypeOK, Ids
  <2>3. functions[w][f] \in 1..Len(sent)
    BY <2>1, <2>2
  <2> QED BY <1>1, <2>1, <2>2, <2>3
<1>8. RoutesNameCurrent' /\ ReturnedIsAcknowledged'
  BY <1>1 DEF IInv, RoutesNameCurrent, ReturnedIsAcknowledged, tableVars,
              apiVars
<1>9. AcknowledgedIsPast'
  <2> SUFFICES ASSUME NEW i \in Ids, NEW w \in on_ready[i]
               PROVE  /\ i <= Position(w)
                      /\ sent'[i] = sent[i]
                      /\ sent[i].kind = "remove"
                      /\ functions[w][sent[i].function] # 0
                           => functions[w][sent[i].function] > i
    BY <1>1, <1>4 DEF AcknowledgedIsPast, IInv, TypeOK, tableVars, apiVars
  <2>1. w \in Workers /\ i <= Position(w)
    BY DEF IInv, TypeOK, AcknowledgedIsPast
  <2>2. i \in 1..Len(sent)
    BY <1>1, <1>2, <2>1 DEF Position, Ids
  <2> QED BY <1>1, <2>1, <2>2 DEF IInv, AcknowledgedIsPast
<1> QED BY <1>3, <1>5, <1>6, <1>7, <1>8, <1>9 DEF IInv

(* The deployment taken is the one at the new position.                    *)
LEMMA DeployStartsInv ==
  ASSUME IInv, NEW w \in Workers, DeployStarts(w) PROVE IInv'
<1> USE RoutingAssumption
<1> DEFINE p == Position(w) + 1
<1>1. /\ Head(messages_rx[w]) = p
      /\ Position(w) \in Nat
      /\ p \in DOMAIN sent
      /\ messages_rx' \in [Workers -> Seq(Ids)]
      /\ Len(messages_rx'[w]) = Len(messages_rx[w]) - 1
      /\ \A k \in 1..Len(messages_rx'[w]) : messages_rx'[w][k] = p + k
      /\ \A v \in Workers \ {w} : messages_rx'[v] = messages_rx[v]
  BY HeadOfQueue DEF DeployStarts, NextIs
<1>2. /\ deploying' = [deploying EXCEPT ![w] = p]
      /\ sent[p].kind = "deploy"
      /\ UNCHANGED <<sent, tableVars, failed, apiVars>>
  BY <1>1 DEF DeployStarts, NextIs
<1>3. p \in Ids /\ Len(sent) \in Nat
  BY <1>1, LenProperties DEF IInv, TypeOK, Ids
<1>4. \A v \in Workers : Len(messages_rx[v]) \in Nat
  BY LenProperties DEF IInv, TypeOK
<1>5. Position(w)' = p /\ \A v \in Workers \ {w} : Position(v)' = Position(v)
  <2>1. Len(sent') = Len(sent) /\ Len(messages_rx[w]) \in Nat
    BY <1>2, <1>4
  <2> QED BY <1>1, <1>3, <2>1, SMTT(30) DEF Position
<1>6. TypeOK'
  BY <1>1, <1>2, <1>3 DEF IInv, TypeOK, tableVars, apiVars
<1>7. QueueIsTail'
  <2>1. sent' = sent
    BY <1>2
  <2>2. Len(messages_rx'[w]) <= Len(sent)
    BY <1>1, <1>3, <1>4 DEF IInv, QueueIsTail
  <2>3. ASSUME NEW v \in Workers
        PROVE  /\ Len(messages_rx'[v]) <= Len(sent)
               /\ \A k \in 1..Len(messages_rx'[v]) :
                    messages_rx'[v][k] = Position(v)' + k
    <3>1. CASE v = w
      BY <1>1, <1>5, <2>2, <3>1
    <3>2. CASE v # w
      <4>1. messages_rx'[v] = messages_rx[v] /\ Position(v)' = Position(v)
        BY <1>1, <1>5, <3>2
      <4> QED BY <4>1 DEF IInv, QueueIsTail
    <3> QED BY <3>1, <3>2
  <2> QED BY <2>1, <2>3 DEF QueueIsTail
<1>8. InHand'
  BY <1>2, <1>3, <1>5 DEF IInv, InHand, TypeOK
<1>9. CurrentIsOwn' /\ RoutesNameCurrent' /\ ReturnedIsAcknowledged'
  BY <1>2 DEF IInv, CurrentIsOwn, RoutesNameCurrent, ReturnedIsAcknowledged,
              tableVars, apiVars
<1>10. AcknowledgedIsPast'
  <2> SUFFICES ASSUME NEW i \in Ids, NEW v \in on_ready[i]
               PROVE  i <= Position(v)'
    BY <1>2 DEF IInv, AcknowledgedIsPast, tableVars, apiVars
  <2>1. v \in Workers /\ i <= Position(v) /\ i \in Nat
    BY DEF IInv, TypeOK, AcknowledgedIsPast, Ids
  <2>2. CASE v = w
    BY <1>1, <1>5, <2>1, <2>2
  <2>3. CASE v # w
    BY <1>5, <2>1, <2>3
  <2> QED BY <2>2, <2>3
<1> QED BY <1>6, <1>7, <1>8, <1>9, <1>10 DEF IInv

(* A failed instantiation changes no table.                                *)
LEMMA DeployFailsInv ==
  ASSUME IInv, NEW w \in Workers, DeployFails(w) PROVE IInv'
<1> USE RoutingAssumption DEF DeployFails, channelVars, tableVars, apiVars
<1>1. TypeOK'
  BY DEF IInv, TypeOK, Idle
<1>2. QueueIsTail' /\ InHand'
  BY DEF IInv, TypeOK, QueueIsTail, InHand, Position
<1>3. CurrentIsOwn' /\ RoutesNameCurrent' /\ ReturnedIsAcknowledged'
  BY DEF IInv, CurrentIsOwn, RoutesNameCurrent, ReturnedIsAcknowledged
<1>4. AcknowledgedIsPast'
  BY DEF IInv, AcknowledgedIsPast, Position
<1> QED BY <1>1, <1>2, <1>3, <1>4 DEF IInv

(* The deployment in hand is a message about a function there is.          *)
LEMMA DeploymentInHand ==
  ASSUME IInv, NEW w \in Workers, ~Idle(w)
  PROVE  /\ deploying[w] \in Ids /\ deploying[w] # 0
         /\ deploying[w] = Position(w)
         /\ deploying[w] \in DOMAIN sent
         /\ sent[deploying[w]].kind = "deploy"
         /\ sent[deploying[w]].function \in Functions
<1> DEFINE id == deploying[w]
<1>1. id # 0 /\ id \in Ids /\ id = Position(w) /\ sent[id].kind = "deploy"
  BY DEF IInv, TypeOK, InHand, Idle
<1>2. Len(sent) \in Nat /\ Len(messages_rx[w]) \in Nat /\ DOMAIN sent = 1..Len(sent)
  BY LenProperties DEF IInv, TypeOK
<1>3. id \in DOMAIN sent
  BY <1>1, <1>2 DEF Position, Ids
<1>4. sent[id] \in Message
  BY <1>2, <1>3, ElementOfSeq DEF IInv, TypeOK
<1> QED
  BY <1>1, <1>3, <1>4 DEF Message

(* The new deployment is later than any removal the worker acknowledged.   *)
LEMMA DeployEndsInv ==
  ASSUME IInv, NEW w \in Workers, DeployEnds(w) PROVE IInv'
<1> USE RoutingAssumption
<1> DEFINE id == deploying[w]
           f == sent[id].function
           listeners == sent[id].listeners
<1>1. /\ id \in Ids
      /\ id = Position(w)
      /\ id \in DOMAIN sent
      /\ sent[id].kind = "deploy"
      /\ f \in Functions
  BY DeploymentInHand DEF DeployEnds
<1>2. /\ function_deployments' =
           [function_deployments EXCEPT ![w] = @ \cup {id}]
      /\ functions' = [functions EXCEPT ![w][f] = id]
      /\ http_hosts' = [http_hosts EXCEPT ![w] =
           [h \in Hosts |-> IF h \in listeners THEN f
                            ELSE IF @[h] = f THEN NoFunction ELSE @[h]]]
      /\ http_default' = IF AnyHost \in listeners
                           THEN [http_default EXCEPT ![w] = f]
                           ELSE http_default
      /\ deploying' = [deploying EXCEPT ![w] = 0]
      /\ UNCHANGED <<channelVars, failed, apiVars>>
  BY DEF DeployEnds
<1>3. /\ functions'[w][f] = id
      /\ \A g \in Functions \ {f} : functions'[w][g] = functions[w][g]
      /\ \A v \in Workers \ {w} : functions'[v] = functions[v]
  BY <1>1, <1>2 DEF IInv, TypeOK
<1> HIDE DEF id, f, listeners
<1>4. TypeOK'
  <2>1. functions' \in [Workers -> [Functions -> Ids \cup {0}]]
    BY <1>1, <1>2 DEF IInv, TypeOK
  <2>2. http_hosts' \in [Workers -> [Hosts -> Functions \cup {NoFunction}]]
    BY <1>1, <1>2 DEF IInv, TypeOK
  <2>3. /\ function_deployments' \in [Workers -> SUBSET Ids]
        /\ http_default' \in [Workers -> Functions \cup {NoFunction}]
        /\ deploying' \in [Workers -> Ids \cup {0}]
    BY <1>1, <1>2 DEF IInv, TypeOK
  <2> QED BY <1>2, <2>1, <2>2, <2>3 DEF IInv, TypeOK, channelVars, apiVars
<1>5. QueueIsTail' /\ InHand'
  BY <1>2 DEF IInv, TypeOK, QueueIsTail, InHand, Position, channelVars
<1>6. CurrentIsOwn'
  <2> SUFFICES ASSUME NEW v \in Workers, NEW g \in Functions,
                      functions'[v][g] # 0
               PROVE  /\ functions'[v][g] <= Len(sent)
                      /\ sent[functions'[v][g]].function = g
                      /\ functions'[v][g] \in function_deployments'[v]
    BY <1>2 DEF CurrentIsOwn, channelVars
  <2>1. function_deployments[v] \subseteq function_deployments'[v]
    BY <1>2 DEF IInv, TypeOK
  <2>2. CASE v = w /\ g = f
    <3>1. id <= Len(sent)
      BY <1>1, LenProperties DEF IInv, TypeOK
    <3>2. id \in function_deployments'[w]
      BY <1>2 DEF IInv, TypeOK
    <3> QED BY <1>3, <2>2, <3>1, <3>2 DEF f
  <2>3. CASE v # w \/ g # f
    BY <1>3, <2>1, <2>3 DEF IInv, CurrentIsOwn
  <2> QED BY <2>2, <2>3
<1>7. RoutesNameCurrent'
  <2>1. \A v \in Workers, g \in Functions :
           functions[v][g] # 0 => functions'[v][g] # 0
    BY <1>1, <1>3 DEF Ids
  <2>2. ASSUME NEW v \in Workers, NEW h \in Hosts, http_hosts'[v][h] # NoFunction
        PROVE  functions'[v][http_hosts'[v][h]] # 0
    <3>1. CASE http_hosts'[v][h] = http_hosts[v][h]
      BY <2>1, <2>2, <3>1 DEF IInv, TypeOK, RoutesNameCurrent
    <3>2. CASE http_hosts'[v][h] # http_hosts[v][h]
      <4>1. v = w /\ http_hosts'[v][h] = f
        BY <1>2, <2>2, <3>2 DEF IInv, TypeOK
      <4> QED BY <1>1, <1>3, <4>1 DEF Ids
    <3> QED BY <3>1, <3>2
  <2>3. ASSUME NEW v \in Workers, http_default'[v] # NoFunction
        PROVE  functions'[v][http_default'[v]] # 0
    <3>1. CASE http_default'[v] = http_default[v]
      BY <2>1, <2>3, <3>1 DEF IInv, TypeOK, RoutesNameCurrent
    <3>2. CASE http_default'[v] # http_default[v]
      <4>1. v = w /\ http_default'[v] = f
        BY <1>2, <2>3, <3>2 DEF IInv, TypeOK
      <4> QED BY <1>1, <1>3, <4>1 DEF Ids
    <3> QED BY <3>1, <3>2
  <2> QED BY <2>2, <2>3 DEF RoutesNameCurrent
<1>8. AcknowledgedIsPast'
  <2> SUFFICES ASSUME NEW i \in Ids, NEW v \in on_ready[i],
                      functions'[v][sent[i].function] # 0
               PROVE  functions'[v][sent[i].function] > i
    BY <1>2 DEF IInv, AcknowledgedIsPast, Position, channelVars, apiVars
  <2>1. /\ v \in Workers
        /\ i <= Position(v)
        /\ sent[i].kind = "remove"
        /\ functions[v][sent[i].function] # 0
             => functions[v][sent[i].function] > i
        /\ i \in Nat
    <3>1. v \in Workers /\ i \in Nat
      BY DEF IInv, TypeOK, Ids
    <3> QED BY <3>1 DEF IInv, AcknowledgedIsPast
  <2>2. i \in DOMAIN sent
    <3>1. Len(sent) \in Nat /\ Len(messages_rx[v]) \in Nat /\ DOMAIN sent = 1..Len(sent)
      BY <2>1, LenProperties DEF IInv, TypeOK
    <3> QED BY <2>1, <3>1 DEF Position, Ids
  <2>3. sent[i].function \in Functions
    BY <2>2, ElementOfSeq, LenProperties DEF IInv, TypeOK, Message
  <2>4. CASE v = w /\ sent[i].function = f
    BY <1>1, <1>3, <2>1, <2>4 DEF Ids
  <2>5. CASE v # w \/ sent[i].function # f
    BY <1>3, <2>1, <2>3, <2>5
  <2> QED BY <2>4, <2>5
<1>9. ReturnedIsAcknowledged'
  BY <1>2 DEF IInv, ReturnedIsAcknowledged, apiVars
<1> QED BY <1>4, <1>5, <1>6, <1>7, <1>8, <1>9 DEF IInv

(* A removal takes every route to its function and nothing of another.     *)
LEMMA RemoveFunctionInv ==
  ASSUME IInv, NEW w \in Workers, RemoveFunction(w) PROVE IInv'
<1> USE RoutingAssumption
<1> DEFINE p == Position(w) + 1
           f == sent[p].function
<1>1. /\ Head(messages_rx[w]) = p
      /\ Position(w) \in Nat
      /\ p \in DOMAIN sent
      /\ messages_rx' \in [Workers -> Seq(Ids)]
      /\ Len(messages_rx'[w]) = Len(messages_rx[w]) - 1
      /\ \A k \in 1..Len(messages_rx'[w]) : messages_rx'[w][k] = p + k
      /\ \A v \in Workers \ {w} : messages_rx'[v] = messages_rx[v]
  BY HeadOfQueue DEF RemoveFunction, NextIs
<1>2. /\ sent[p].kind = "remove"
      /\ deploying[w] = 0
      /\ http_hosts' = [http_hosts EXCEPT ![w] =
           [h \in Hosts |-> IF @[h] = f THEN NoFunction ELSE @[h]]]
      /\ http_default' = IF http_default[w] = f
                           THEN [http_default EXCEPT ![w] = NoFunction]
                           ELSE http_default
      /\ functions' = [functions EXCEPT ![w][f] = 0]
      /\ function_deployments' =
           [function_deployments EXCEPT ![w] = @ \ {functions[w][f]}]
      /\ on_ready' = [on_ready EXCEPT ![p] = @ \cup {w}]
      /\ UNCHANGED <<sent, deploying, failed, removed>>
  <2>1. /\ sent[Head(messages_rx[w])].kind = "remove"
        /\ deploying[w] = 0
        /\ UNCHANGED <<sent, deploying, failed, removed>>
    BY DEF RemoveFunction, NextIs, Idle
  <2> DEFINE id == Head(messages_rx[w])
             g == sent[id].function
  <2>2. /\ http_hosts' = [http_hosts EXCEPT ![w] =
             [h \in Hosts |-> IF @[h] = g THEN NoFunction ELSE @[h]]]
        /\ http_default' = IF http_default[w] = g
                             THEN [http_default EXCEPT ![w] = NoFunction]
                             ELSE http_default
        /\ functions' = [functions EXCEPT ![w][g] = 0]
        /\ function_deployments' =
             [function_deployments EXCEPT ![w] = @ \ {functions[w][g]}]
        /\ on_ready' = [on_ready EXCEPT ![id] = @ \cup {w}]
    BY DEF RemoveFunction
  <2>3. id = p /\ g = f
    BY <1>1
  <2> HIDE DEF id, g
  <2> QED BY <2>1, <2>2, <2>3, Zenon DEF id
<1>3. /\ p \in Ids
      /\ Len(sent) \in Nat
      /\ f \in Functions
      /\ \A v \in Workers : Len(messages_rx[v]) \in Nat
  <2>1. Len(sent) \in Nat /\ DOMAIN sent = 1..Len(sent)
    BY LenProperties DEF IInv, TypeOK
  <2>2. sent[p] \in Message
    BY <1>1, <2>1, ElementOfSeq DEF IInv, TypeOK
  <2>3. \A v \in Workers : Len(messages_rx[v]) \in Nat
    BY LenProperties DEF IInv, TypeOK
  <2> QED BY <1>1, <2>1, <2>2, <2>3 DEF Message, IInv, TypeOK, Ids
<1>4. /\ functions'[w][f] = 0
      /\ \A g \in Functions \ {f} : functions'[w][g] = functions[w][g]
      /\ \A v \in Workers \ {w} : functions'[v] = functions[v]
  BY <1>2, <1>3 DEF IInv, TypeOK
<1>5. Position(w)' = p /\ \A v \in Workers \ {w} : Position(v)' = Position(v)
  <2>1. Len(sent') = Len(sent) /\ Len(messages_rx[w]) \in Nat
    BY <1>2, <1>3
  <2>2. Len(messages_rx'[w]) = Len(messages_rx[w]) - 1 /\ Len(sent) \in Nat
    BY <1>1, <1>3
  <2>3. Position(w)' = p
    BY <2>1, <2>2 DEF Position
  <2>4. \A v \in Workers \ {w} : Position(v)' = Position(v)
    BY <1>1, <2>1 DEF Position
  <2> QED BY <2>3, <2>4
<1> HIDE DEF p, f
<1>6. TypeOK'
  <2>1. functions' \in [Workers -> [Functions -> Ids \cup {0}]]
    BY <1>2, <1>3 DEF IInv, TypeOK
  <2>2. http_hosts' \in [Workers -> [Hosts -> Functions \cup {NoFunction}]]
    BY <1>2, <1>3 DEF IInv, TypeOK
  <2>3. /\ function_deployments' \in [Workers -> SUBSET Ids]
        /\ http_default' \in [Workers -> Functions \cup {NoFunction}]
        /\ on_ready' \in [Ids -> SUBSET Workers]
    BY <1>2, <1>3 DEF IInv, TypeOK
  <2> QED BY <1>1, <1>2, <2>1, <2>2, <2>3 DEF IInv, TypeOK
<1>7. QueueIsTail'
  <2>1. sent' = sent
    BY <1>2
  <2>2. Len(messages_rx'[w]) <= Len(sent)
    BY <1>1, <1>3 DEF IInv, QueueIsTail
  <2>3. ASSUME NEW v \in Workers
        PROVE  /\ Len(messages_rx'[v]) <= Len(sent)
               /\ \A k \in 1..Len(messages_rx'[v]) :
                    messages_rx'[v][k] = Position(v)' + k
    <3>1. CASE v = w
      BY <1>1, <1>5, <2>2, <3>1
    <3>2. CASE v # w
      <4>1. messages_rx'[v] = messages_rx[v] /\ Position(v)' = Position(v)
        BY <1>1, <1>5, <3>2
      <4> QED BY <4>1 DEF IInv, QueueIsTail
    <3> QED BY <3>1, <3>2
  <2> QED BY <2>1, <2>3 DEF QueueIsTail
<1>8. InHand'
  BY <1>2, <1>5 DEF IInv, InHand
<1>9. CurrentIsOwn'
  <2> SUFFICES ASSUME NEW v \in Workers, NEW g \in Functions,
                      functions'[v][g] # 0
               PROVE  /\ functions'[v][g] = functions[v][g]
                      /\ functions[v][g] <= Len(sent)
                      /\ sent[functions[v][g]].function = g
                      /\ functions[v][g] \in function_deployments'[v]
    BY <1>2 DEF CurrentIsOwn
  <2>1. functions'[v][g] = functions[v][g] /\ (v # w \/ g # f)
    BY <1>4
  <2>2. /\ functions[v][g] <= Len(sent)
        /\ sent[functions[v][g]].function = g
        /\ functions[v][g] \in function_deployments[v]
    BY <2>1 DEF IInv, CurrentIsOwn
  <2>3. v = w => functions[v][g] # functions[w][f]
    BY <1>3, <2>1, <2>2 DEF IInv, CurrentIsOwn
  <2>4. functions[v][g] \in function_deployments'[v]
    BY <1>2, <2>2, <2>3 DEF IInv, TypeOK
  <2> QED BY <2>1, <2>2, <2>4
<1>10. RoutesNameCurrent'
  <2>1. ASSUME NEW v \in Workers, NEW h \in Hosts, http_hosts'[v][h] # NoFunction
        PROVE  functions'[v][http_hosts'[v][h]] # 0
    <3>1. http_hosts'[v][h] = http_hosts[v][h] /\ (v # w \/ http_hosts[v][h] # f)
      BY <1>2, <1>3, <2>1 DEF IInv, TypeOK
    <3>2. http_hosts[v][h] \in Functions
      BY <2>1, <3>1 DEF IInv, TypeOK
    <3> QED BY <1>4, <2>1, <3>1, <3>2 DEF IInv, RoutesNameCurrent
  <2>2. ASSUME NEW v \in Workers, http_default'[v] # NoFunction
        PROVE  functions'[v][http_default'[v]] # 0
    <3>1. http_default'[v] = http_default[v] /\ (v # w \/ http_default[v] # f)
      BY <1>2, <2>2 DEF IInv, TypeOK
    <3>2. http_default[v] \in Functions
      BY <2>2, <3>1 DEF IInv, TypeOK
    <3> QED BY <1>4, <2>2, <3>1, <3>2 DEF IInv, RoutesNameCurrent
  <2> QED BY <2>1, <2>2 DEF RoutesNameCurrent
<1>11. AcknowledgedIsPast'
  <2> SUFFICES ASSUME NEW i \in Ids, NEW v \in on_ready'[i]
               PROVE  /\ i <= Position(v)'
                      /\ sent[i].kind = "remove"
                      /\ functions'[v][sent[i].function] # 0
                           => functions'[v][sent[i].function] > i
    BY <1>2 DEF AcknowledgedIsPast
  <2>1. CASE i = p /\ v = w
    BY <1>1, <1>2, <1>3, <1>4, <1>5, <2>1 DEF Ids, f
  <2>2. CASE v \in on_ready[i]
    <3>1. /\ v \in Workers
          /\ i <= Position(v)
          /\ sent[i].kind = "remove"
          /\ functions[v][sent[i].function] # 0
               => functions[v][sent[i].function] > i
          /\ i \in Nat
      BY <2>2 DEF IInv, TypeOK, AcknowledgedIsPast, Ids
    <3>2. i <= Position(v)'
      BY <1>1, <1>5, <3>1 DEF p
    <3>3. functions'[v][sent[i].function] # 0
            => functions'[v][sent[i].function] = functions[v][sent[i].function]
      <4>1. i \in DOMAIN sent
        BY <1>3, <3>1, LenProperties DEF Position, Ids, IInv, TypeOK
      <4>2. sent[i].function \in Functions
        BY <4>1, ElementOfSeq, LenProperties DEF IInv, TypeOK, Message
      <4> QED BY <1>4, <3>1, <4>2
    <3> QED BY <3>1, <3>2, <3>3
  <2>3. (i = p /\ v = w) \/ v \in on_ready[i]
    BY <1>2, <1>3 DEF IInv, TypeOK
  <2> QED BY <2>1, <2>2, <2>3
<1>12. ReturnedIsAcknowledged'
  BY <1>2 DEF IInv, TypeOK, ReturnedIsAcknowledged
<1> QED BY <1>6, <1>7, <1>8, <1>9, <1>10, <1>11, <1>12 DEF IInv

(* A removal returns only with all acknowledgements.                       *)
LEMMA RemovalReturnsInv ==
  ASSUME IInv, NEW i \in Ids, RemovalReturns(i) PROVE IInv'
<1> USE RoutingAssumption DEF RemovalReturns, channelVars, tableVars
<1>1. TypeOK'
  BY DEF IInv, TypeOK
<1>2. QueueIsTail' /\ InHand' /\ CurrentIsOwn'
  BY ZenonT(30) DEF IInv, QueueIsTail, InHand, CurrentIsOwn, Position
<1>3. RoutesNameCurrent' /\ AcknowledgedIsPast' /\ ReturnedIsAcknowledged'
  BY DEF IInv, RoutesNameCurrent, AcknowledgedIsPast, ReturnedIsAcknowledged,
         Position
<1> QED BY <1>1, <1>2, <1>3 DEF IInv

(* Every step preserves the invariant.                                     *)
LEMMA StepInv == IInv /\ [Next]_vars => IInv'
<1> SUFFICES ASSUME IInv, [Next]_vars PROVE IInv'
  OBVIOUS
<1>1. CASE UNCHANGED vars
  BY <1>1 DEF IInv, TypeOK, QueueIsTail, InHand, CurrentIsOwn,
              RoutesNameCurrent, AcknowledgedIsPast, ReturnedIsAcknowledged,
              Position, vars, channelVars, tableVars, apiVars
<1>2. ASSUME NEW f \in Functions, NEW l \in Listeners, SendDeploy(f, l)
      PROVE  IInv'
  BY <1>2, SendInv DEF SendDeploy, Message
<1>3. ASSUME NEW f \in Functions, SendRemove(f) PROVE IInv'
  BY <1>3, SendInv DEF SendRemove, Message
<1>4. ASSUME NEW w \in Workers, WorkerStep(w) PROVE IInv'
  BY <1>4, DeployStartsInv, DeployFailsInv, DeployEndsInv, RemoveFunctionInv
     DEF WorkerStep
<1> QED BY <1>1, <1>2, <1>3, <1>4, RemovalReturnsInv DEF Next

(* The inductive invariant holds throughout.                               *)
LEMMA Invariance == Spec => []IInv
<1> QED BY InitInv, StepInv, PTL DEF Spec

(* Type correctness of the queues, the tables and the pending removals.    *)
THEOREM RoutingTypeCorrect == Spec => []TypeOK
<1>1. IInv => TypeOK
  BY DEF IInv
<1> QED BY <1>1, Invariance, PTL

(* On every worker, a route leads to a deployment that is there.           *)
THEOREM RoutesAlwaysResolve == Spec => []RoutesResolve
<1>1. IInv => RoutesResolve
  <2> SUFFICES ASSUME IInv, NEW w \in Workers
               PROVE  /\ \A f \in Functions : functions[w][f] # 0 => Callable(w, f)
                      /\ \A h \in Hosts \cup {AnyHost} :
                           TargetFunction(w, h) # NoFunction
                             => Callable(w, TargetFunction(w, h))
    BY DEF RoutesResolve
  <2>1. \A f \in Functions : functions[w][f] # 0 => Callable(w, f)
    BY DEF IInv, CurrentIsOwn, Callable
  <2>2. ASSUME NEW h \in Hosts \cup {AnyHost}, TargetFunction(w, h) # NoFunction
        PROVE  /\ TargetFunction(w, h) \in Functions
               /\ functions[w][TargetFunction(w, h)] # 0
    BY <2>2, RoutingAssumption
       DEF TargetFunction, IInv, TypeOK, RoutesNameCurrent
  <2> QED BY <2>1, <2>2
<1> QED BY <1>1, Invariance, PTL

(* A removal that returned has reached every worker, and nothing sent      *)
(* before it comes back.                                                   *)
THEOREM RemovalsHold == Spec => []RemovedMeansGone
<1>1. IInv => RemovedMeansGone
  <2> SUFFICES ASSUME IInv, NEW i \in removed, NEW w \in Workers
               PROVE  LET f == sent[i].function IN
                        /\ functions[w][f] # 0 => functions[w][f] > i
                        /\ (\E h \in Hosts \cup {AnyHost} :
                              TargetFunction(w, h) = f) => functions[w][f] > i
    BY DEF RemovedMeansGone
  <2> DEFINE f == sent[i].function
  <2>1. i \in Ids /\ w \in on_ready[i]
    BY DEF IInv, TypeOK, ReturnedIsAcknowledged
  <2>2. /\ i <= Position(w)
        /\ functions[w][f] # 0 => functions[w][f] > i
    BY <2>1 DEF IInv, AcknowledgedIsPast
  <2>3. f \in Functions
    <3>1. Len(sent) \in Nat /\ Len(messages_rx[w]) \in Nat
      BY LenProperties DEF IInv, TypeOK
    <3>2. i \in 1..Len(sent)
      BY <2>1, <2>2, <3>1 DEF Position, Ids
    <3>3. sent[i] \in Message
      BY <3>2, ElementOfSeq DEF IInv, TypeOK
    <3> QED BY <3>3 DEF Message
  <2>4. ASSUME NEW h \in Hosts \cup {AnyHost}, TargetFunction(w, h) = f
        PROVE  functions[w][f] # 0
    BY <2>3, <2>4, RoutingAssumption
       DEF TargetFunction, IInv, TypeOK, RoutesNameCurrent
  <2> QED BY <2>2, <2>4
<1> QED BY <1>1, Invariance, PTL

(* What HostsStayServed allows a step to do to host h of worker w.         *)
Unserves(w, h, f) ==
  \/ /\ NextIs(w, "remove") /\ sent[Head(messages_rx[w])].function = f
     /\ messages_rx'[w] = Tail(messages_rx[w])
  \/ /\ deploying[w] # 0
     /\ functions'[w][f] = deploying[w] /\ h \notin sent[deploying[w]].listeners

LEMMA DeployEndsUnserves ==
  ASSUME IInv, NEW v \in Workers, DeployEnds(v), NEW w \in Workers,
         NEW h \in Hosts \cup {AnyHost},
         TargetFunction(w, h) # NoFunction, TargetFunction(w, h)' = NoFunction
  PROVE  Unserves(w, h, TargetFunction(w, h))
<1> DEFINE id == deploying[v]
           g == sent[id].function
           listeners == sent[id].listeners
<1>1. /\ functions \in [Workers -> [Functions -> Ids \cup {0}]]
      /\ http_hosts \in [Workers -> [Hosts -> Functions \cup {NoFunction}]]
      /\ http_default \in [Workers -> Functions \cup {NoFunction}]
  BY DEF IInv, TypeOK
<1>2. g \in Functions /\ id # 0
  BY DeploymentInHand DEF DeployEnds
<1>3. /\ functions' = [functions EXCEPT ![v][g] = id]
      /\ http_hosts' = [http_hosts EXCEPT ![v] =
           [x \in Hosts |-> IF x \in listeners THEN g
                            ELSE IF @[x] = g THEN NoFunction ELSE @[x]]]
      /\ http_default' = IF AnyHost \in listeners
                           THEN [http_default EXCEPT ![v] = g] ELSE http_default
  BY DEF DeployEnds
<1> HIDE DEF g, listeners, id
<1>4. http_default[w] # NoFunction => http_default'[w] # NoFunction
  BY <1>1, <1>2, <1>3, RoutingAssumption
<1>5. http_default[w] = NoFunction /\ h \in Hosts /\ http_hosts[w][h] # NoFunction
  BY <1>4 DEF TargetFunction
<1>6. http_hosts'[w][h] = NoFunction
  BY <1>5 DEF TargetFunction
<1>7. w = v /\ h \notin listeners /\ http_hosts[w][h] = g
  BY <1>1, <1>2, <1>3, <1>5, <1>6, RoutingAssumption
<1>8. functions'[w][g] = id /\ TargetFunction(w, h) = g
  BY <1>1, <1>2, <1>3, <1>5, <1>7 DEF TargetFunction
<1> QED
  BY <1>2, <1>7, <1>8 DEF Unserves, id, listeners

LEMMA RemoveUnserves ==
  ASSUME IInv, NEW v \in Workers, RemoveFunction(v), NEW w \in Workers,
         NEW h \in Hosts \cup {AnyHost},
         TargetFunction(w, h) # NoFunction, TargetFunction(w, h)' = NoFunction
  PROVE  Unserves(w, h, TargetFunction(w, h))
<1> DEFINE g == sent[Head(messages_rx[v])].function
<1>1. /\ messages_rx \in [Workers -> Seq(Ids)]
      /\ http_hosts \in [Workers -> [Hosts -> Functions \cup {NoFunction}]]
      /\ http_default \in [Workers -> Functions \cup {NoFunction}]
  BY DEF IInv, TypeOK
<1>2. /\ messages_rx' = [messages_rx EXCEPT ![v] = Tail(@)]
      /\ NextIs(v, "remove")
      /\ http_hosts' = [http_hosts EXCEPT ![v] =
           [x \in Hosts |-> IF @[x] = g THEN NoFunction ELSE @[x]]]
      /\ http_default' = IF http_default[v] = g
                           THEN [http_default EXCEPT ![v] = NoFunction] ELSE http_default
  BY DEF RemoveFunction, Received
<1> HIDE DEF g
<1>3. w = v
  BY <1>1, <1>2 DEF TargetFunction
<1>4. TargetFunction(w, h) = g
  BY <1>1, <1>2, <1>3, RoutingAssumption DEF TargetFunction
<1>5. messages_rx'[w] = Tail(messages_rx[w])
  BY <1>1, <1>2, <1>3
<1> QED
  BY <1>2, <1>3, <1>4, <1>5 DEF Unserves, g

(* Only a removal of the function, or a deployment of it without the host, *)
(* leaves a host without a function; and routes resolve before and after   *)
(* (worker_handle_message, task.rs).                                       *)
THEOREM HostsKept == Spec => HostsStayServed
<1>1. IInv /\ RoutesResolve' /\ [Next]_vars
        => [\A w \in Workers : \A h \in Hosts \cup {AnyHost} :
              LET f == TargetFunction(w, h)
                  id == deploying[w]
              IN f # NoFunction /\ ~IsServed(w, h)'
                   => \/ /\ NextIs(w, "remove") /\ sent[Head(messages_rx[w])].function = f
                         /\ messages_rx'[w] = Tail(messages_rx[w])
                      \/ id # 0 /\ functions'[w][f] = id /\ h \notin sent[id].listeners]_vars
  <2> SUFFICES ASSUME IInv, RoutesResolve', Next,
                      NEW w \in Workers, NEW h \in Hosts \cup {AnyHost},
                      TargetFunction(w, h) # NoFunction, ~IsServed(w, h)'
               PROVE  Unserves(w, h, TargetFunction(w, h))
    BY DEF Unserves
  <2>1. TargetFunction(w, h)' = NoFunction
    BY DEF RoutesResolve, IsServed
  <2>2. CASE UNCHANGED tableVars
    BY <2>1, <2>2 DEF TargetFunction, tableVars
  <2>3. CASE \E v \in Workers : DeployEnds(v)
    BY <2>1, <2>3, DeployEndsUnserves
  <2>4. CASE \E v \in Workers : RemoveFunction(v)
    BY <2>1, <2>4, RemoveUnserves
  <2> QED
    BY <2>2, <2>3, <2>4
       DEF Next, WorkerStep, vars, SendDeploy, SendRemove, Send, DeployStarts,
           DeployFails, RemovalReturns
<1> QED
  BY <1>1, Invariance, RoutesAlwaysResolve, PTL DEF Spec, HostsStayServed
-----------------------------------------------------------------------------
(* The tables of a worker as a function of the messages it has handled.    *)

(* What a worker could not instantiate is among what it has handled.       *)
FailedIsHandled == \A w \in Workers : failed[w] \subseteq Handled(w)

(* What TablesFollowMessages says of one worker.                           *)
CurrentFollows(w) ==
  \A f \in Functions : \A i \in Ids :
    functions[w][f] = i <=> IsLast(i, About(w, f)) /\ sent[i].kind = "deploy"

HostsFollow(w) ==
  \A h \in Hosts : \A f \in Functions :
    http_hosts[w][h] = f
      <=> \E i \in About(w, f) : IsLast(i, Claims(w, h)) /\ IsLast(i, About(w, f))

DefaultFollows(w) ==
  \A f \in Functions :
    http_default[w] = f
      <=> \E i \in About(w, f) :
            /\ IsLast(i, Claims(w, AnyHost))
            /\ \A j \in About(w, f) : j > i => sent[j].kind = "deploy"

Follows(w) == CurrentFollows(w) /\ HostsFollow(w) /\ DefaultFollows(w)

LEMMA TablesFollow == TablesFollowMessages <=> \A w \in Workers : Follows(w)
BY DEF TablesFollowMessages, Follows, CurrentFollows, HostsFollow, DefaultFollows

FollowInv == FailedIsHandled /\ \A w \in Workers : Follows(w)

(* A worker has handled what lies before its queue, but for the deployment *)
(* in its hand.                                                            *)
LEMMA HandledIs ==
  ASSUME IInv, NEW w \in Workers
  PROVE  /\ Position(w) \in Nat /\ Position(w) <= Len(sent) /\ Len(sent) \in Nat
         /\ Idle(w) => Handled(w) = 1..Position(w)
         /\ ~Idle(w) => /\ deploying[w] = Position(w) /\ Position(w) # 0
                        /\ Handled(w) = 1..Position(w) - 1
         /\ Handled(w) \subseteq DOMAIN sent
<1>1. Len(sent) \in Nat /\ DOMAIN sent = 1..Len(sent) /\ Len(messages_rx[w]) \in Nat
  BY LenProperties DEF IInv, TypeOK
<1>2. Len(messages_rx[w]) <= Len(sent)
  BY DEF IInv, QueueIsTail
<1>3. Position(w) \in Nat /\ Position(w) <= Len(sent)
  BY <1>1, <1>2 DEF Position
<1>4. Handled(w) = 1..(Position(w) - (IF Idle(w) THEN 0 ELSE 1))
  BY DEF Handled, Position
<1>5. ~Idle(w) => deploying[w] = Position(w) /\ Position(w) # 0
  BY DEF IInv, InHand, Idle
<1> QED
  BY <1>1, <1>3, <1>4, <1>5

(* What is about a function, or claims a route, depends on the messages    *)
(* that had an effect alone.                                               *)
LEMMA SameMessages ==
  ASSUME IInv, NEW w \in Workers, Effective(w)' = Effective(w),
         \A i \in Handled(w) : sent'[i] = sent[i],
         functions'[w] = functions[w], http_hosts'[w] = http_hosts[w],
         http_default'[w] = http_default[w], Follows(w)
  PROVE  Follows(w)'
<1>1. \A i \in Effective(w) : sent'[i] = sent[i]
  BY DEF Effective
<1>2. /\ \A f \in Functions : About(w, f)' = About(w, f)
      /\ \A l \in Hosts \cup {AnyHost} : Claims(w, l)' = Claims(w, l)
  BY <1>1 DEF About, Claims
<1>3. \A f \in Functions : \A i \in About(w, f) : sent'[i] = sent[i]
  BY <1>1 DEF About
<1>4. CurrentFollows(w)'
  BY <1>2, <1>3 DEF Follows, CurrentFollows, IsLast
<1>5. HostsFollow(w)'
  BY <1>2 DEF Follows, HostsFollow, IsLast
<1>6. DefaultFollows(w)'
  BY <1>2, <1>3 DEF Follows, DefaultFollows, IsLast
<1> QED
  BY <1>4, <1>5, <1>6 DEF Follows

(* A step that handles nothing and changes no table.                       *)
LEMMA NothingHandled ==
  ASSUME IInv, NEW w \in Workers, Handled(w)' = Handled(w),
         failed'[w] = failed[w], \A i \in Handled(w) : sent'[i] = sent[i],
         functions'[w] = functions[w], http_hosts'[w] = http_hosts[w],
         http_default'[w] = http_default[w], Follows(w)
  PROVE  Follows(w)'
<1>1. Effective(w)' = Effective(w)
  BY DEF Effective
<1> QED
  BY <1>1, SameMessages

LEMMA SendFollows ==
  ASSUME IInv, IInv', FollowInv, NEW m \in Message, Send(m)
  PROVE  FollowInv'
<1>1. /\ sent \in Seq(Message) /\ Len(sent) \in Nat /\ DOMAIN sent = 1..Len(sent)
      /\ Len(sent') = Len(sent) + 1
      /\ \A i \in 1..Len(sent) : sent'[i] = sent[i]
      /\ UNCHANGED <<deploying, tableVars, failed>>
  BY LenProperties DEF IInv, TypeOK, Send
<1>2. ASSUME NEW w \in Workers
      PROVE  Handled(w)' = Handled(w)
  <2>1. messages_rx[w] \in Seq(Ids) /\ messages_rx'[w] = Append(messages_rx[w], Len(sent) + 1)
    BY DEF IInv, TypeOK, Send
  <2>2. Len(sent) + 1 \in Ids
    BY <1>1, RoutingAssumption DEF Send, Ids
  <2> DEFINE n == Len(sent) + 1
  <2> HIDE DEF n
  <2>3. Len(messages_rx'[w]) = Len(messages_rx[w]) + 1 /\ Len(messages_rx[w]) \in Nat
    BY <2>1, <2>2, LenProperties DEF n
  <2>4. Len(sent') - Len(messages_rx'[w]) = Len(sent) - Len(messages_rx[w])
    BY <1>1, <2>3
  <2> QED
    BY <1>1, <2>4 DEF Handled, Idle
<1>3. FailedIsHandled'
  BY <1>1, <1>2 DEF FollowInv, FailedIsHandled
<1>4. ASSUME NEW w \in Workers PROVE Follows(w)'
  <2>1. \A i \in Handled(w) : sent'[i] = sent[i]
    BY <1>1, HandledIs
  <2> QED
    BY <1>1, <1>2, <2>1, NothingHandled DEF FollowInv, tableVars
<1> QED
  BY <1>3, <1>4 DEF FollowInv

(* A deployment in hand is not handled yet.                                *)
LEMMA DeployStartsFollows ==
  ASSUME IInv, IInv', FollowInv, NEW w \in Workers, DeployStarts(w)
  PROVE  FollowInv'
<1>1. /\ Head(messages_rx[w]) = Position(w) + 1 /\ Position(w) \in Nat
      /\ Len(messages_rx'[w]) = Len(messages_rx[w]) - 1
      /\ \A v \in Workers \ {w} : messages_rx'[v] = messages_rx[v]
  BY HeadOfQueue DEF DeployStarts, NextIs
<1>2. /\ deploying' = [deploying EXCEPT ![w] = Position(w) + 1]
      /\ deploying[w] = 0
      /\ UNCHANGED <<sent, tableVars, failed>>
  BY <1>1 DEF DeployStarts, Idle
<1>3. ASSUME NEW v \in Workers PROVE Handled(v)' = Handled(v)
  <2>1. CASE v = w
    <3>1. deploying'[w] # 0 /\ deploying'[w] = Position(w) + 1
      BY <1>1, <1>2 DEF IInv, TypeOK
    <3>2. Handled(w)' = 1..Position(w)' - 1 /\ Position(w)' = Position(w) + 1
      <4>1. ~Idle(w)'
        BY <3>1 DEF Idle
      <4>2. Len(sent) \in Nat /\ Len(messages_rx[w]) \in Nat
        BY LenProperties DEF IInv, TypeOK
      <4>3. Position(w)' = Position(w) + 1
        BY <1>1, <1>2, <4>2 DEF Position
      <4>4. Handled(w)' = 1..(Len(sent) - Len(messages_rx'[w]) - 1)
        BY <1>2, <4>1 DEF Handled
      <4> QED
        BY <1>1, <1>2, <4>2, <4>3, <4>4 DEF Position
    <3>3. Handled(w) = 1..Position(w)
      BY <1>2, HandledIs DEF Idle
    <3> QED
      BY <1>1, <2>1, <3>2, <3>3
  <2>2. CASE v # w
    <3>1. deploying'[v] = deploying[v] /\ messages_rx'[v] = messages_rx[v]
      BY <1>1, <1>2, <2>2 DEF IInv, TypeOK
    <3> QED
      BY <1>2, <3>1 DEF Handled, Idle
  <2> QED
    BY <2>1, <2>2
<1>4. FailedIsHandled'
  BY <1>2, <1>3 DEF FollowInv, FailedIsHandled
<1>5. \A v \in Workers : Follows(v)'
  BY <1>2, <1>3, NothingHandled DEF FollowInv, tableVars
<1> QED
  BY <1>4, <1>5 DEF FollowInv

(* The end of a deployment makes it the last one that a worker handled.    *)
LEMMA HandsFree ==
  ASSUME IInv, FollowInv, NEW w \in Workers, ~Idle(w),
         deploying' = [deploying EXCEPT ![w] = 0],
         UNCHANGED channelVars
  PROVE  /\ deploying[w] = Position(w) /\ Position(w) \in Nat \ {0}
         /\ Handled(w) = 1..Position(w) - 1
         /\ Handled(w)' = Handled(w) \cup {deploying[w]}
         /\ \A v \in Workers \ {w} : Handled(v)' = Handled(v)
<1>1. /\ deploying[w] = Position(w) /\ Position(w) \in Nat \ {0}
      /\ Handled(w) = 1..Position(w) - 1
  BY HandledIs
<1>2. Idle(w)' /\ \A v \in Workers \ {w} : Idle(v)' = Idle(v)
  BY DEF IInv, TypeOK, Idle
<1>3. Len(sent) \in Nat /\ Len(messages_rx[w]) \in Nat
  BY LenProperties DEF IInv, TypeOK
<1>4. Handled(w)' = 1..(Len(sent) - Len(messages_rx[w]) - 0)
  BY <1>2 DEF Handled, channelVars
<1>5. Len(sent) - Len(messages_rx[w]) - 0 = Position(w)
  BY <1>3 DEF Position
<1>6. Handled(w)' = 1..Position(w)
  BY <1>4, <1>5
<1>7. 1..Position(w) = (1..Position(w) - 1) \cup {Position(w)}
  BY <1>1
<1>8. \A v \in Workers \ {w} : Handled(v)' = Handled(v)
  BY <1>2 DEF Handled, channelVars
<1> QED
  BY <1>1, <1>6, <1>7, <1>8

(* A failed deployment is handled without effect.                          *)
LEMMA DeployFailsFollows ==
  ASSUME IInv, IInv', FollowInv, NEW w \in Workers, DeployFails(w)
  PROVE  FollowInv'
<1> DEFINE id == deploying[w]
<1>1. /\ id = Position(w) /\ Position(w) \in Nat \ {0}
      /\ Handled(w) = 1..Position(w) - 1
      /\ Handled(w)' = Handled(w) \cup {id}
      /\ \A v \in Workers \ {w} : Handled(v)' = Handled(v)
  BY HandsFree DEF DeployFails
<1>2. /\ failed'[w] = failed[w] \cup {id}
      /\ \A v \in Workers \ {w} : failed'[v] = failed[v]
      /\ UNCHANGED <<sent, tableVars>>
  BY DEF IInv, TypeOK, DeployFails, channelVars
<1> HIDE DEF id
<1>3. id \notin Handled(w)
  BY <1>1
<1>4. FailedIsHandled'
  BY <1>1, <1>2 DEF FollowInv, FailedIsHandled
<1>5. Effective(w)' = Effective(w)
  BY <1>1, <1>2, <1>3 DEF Effective
<1>6. Follows(w)'
  BY <1>2, <1>5, SameMessages DEF FollowInv, tableVars
<1>7. \A v \in Workers \ {w} : Follows(v)'
  BY <1>1, <1>2, NothingHandled DEF FollowInv, tableVars
<1> QED
  BY <1>4, <1>6, <1>7 DEF FollowInv

(* The message that a worker comes to handle with effect is its latest.    *)
Latest(w, id) ==
  /\ id \in Nat \ {0} /\ id \notin Effective(w)
  /\ \A i \in Effective(w) : i \in Nat /\ i < id
  /\ Effective(w)' = Effective(w) \cup {id}
  /\ sent' = sent

(* So it is the last about its function, and of the routes it claims.      *)
LEMMA LatestIsLast ==
  ASSUME NEW w \in Workers, NEW id, Latest(w, id)
  PROVE  /\ \A f \in Functions :
              /\ sent[id].function # f => About(w, f)' = About(w, f)
              /\ sent[id].function = f =>
                   /\ About(w, f)' = About(w, f) \cup {id}
                   /\ \A i : IsLast(i, About(w, f)') <=> i = id
         /\ \A l \in Hosts \cup {AnyHost} :
              LET claims == sent[id].kind = "deploy" /\ l \in sent[id].listeners IN
              /\ ~claims => Claims(w, l)' = Claims(w, l)
              /\ claims => \A i : IsLast(i, Claims(w, l)') <=> i = id
         /\ \A f \in Functions : id \notin About(w, f)
         /\ \A l \in Hosts \cup {AnyHost} : id \notin Claims(w, l)
<1> USE DEF Latest
<1>1. ASSUME NEW f \in Functions
      PROVE  /\ sent[id].function # f => About(w, f)' = About(w, f)
             /\ sent[id].function = f => About(w, f)' = About(w, f) \cup {id}
             /\ id \notin About(w, f) /\ About(w, f) \subseteq Effective(w)
  BY DEF About
<1>2. ASSUME NEW l \in Hosts \cup {AnyHost}
      PROVE  LET claims == sent[id].kind = "deploy" /\ l \in sent[id].listeners IN
             /\ ~claims => Claims(w, l)' = Claims(w, l)
             /\ claims => Claims(w, l)' = Claims(w, l) \cup {id}
             /\ id \notin Claims(w, l) /\ Claims(w, l) \subseteq Effective(w)
  BY DEF Claims
<1>3. ASSUME NEW S, S \subseteq Effective(w)
      PROVE  \A i : IsLast(i, S \cup {id}) <=> i = id
  <2>1. \A i \in S : i < id /\ ~(id <= i) /\ i <= id
    BY <1>3
  <2>2. id <= id /\ id \notin S
    BY <1>3
  <2> QED
    BY <2>1, <2>2 DEF IsLast
<1>4. \A f \in Functions : \A i : IsLast(i, About(w, f) \cup {id}) <=> i = id
  BY <1>1, <1>3
<1>5. \A l \in Hosts \cup {AnyHost} : \A i : IsLast(i, Claims(w, l) \cup {id}) <=> i = id
  BY <1>2, <1>3
<1> QED
  BY <1>1, <1>2, <1>4, <1>5

(* The deployment that ends is the last word about its function: it claims *)
(* the routes of its listeners, and its other hosts are given up.          *)
LEMMA DeployEndsFollows ==
  ASSUME IInv, IInv', FollowInv, NEW w \in Workers, DeployEnds(w)
  PROVE  FollowInv'
<1> DEFINE id == deploying[w]
           f == sent[id].function
           listeners == sent[id].listeners
<1>1. /\ id = Position(w) /\ Position(w) \in Nat \ {0}
      /\ Handled(w) = 1..Position(w) - 1
      /\ Handled(w)' = Handled(w) \cup {id}
      /\ \A v \in Workers \ {w} : Handled(v)' = Handled(v)
  BY HandsFree DEF DeployEnds
<1>2. /\ functions' = [functions EXCEPT ![w][f] = id]
      /\ http_hosts' = [http_hosts EXCEPT ![w] =
           [h \in Hosts |-> IF h \in listeners THEN f
                            ELSE IF @[h] = f THEN NoFunction ELSE @[h]]]
      /\ http_default' = IF AnyHost \in listeners
                           THEN [http_default EXCEPT ![w] = f]
                           ELSE http_default
      /\ UNCHANGED <<channelVars, failed>>
  BY DEF DeployEnds
<1>3. id \in Ids /\ sent[id].kind = "deploy" /\ f \in Functions
  <2>1. id \in Ids /\ sent[id].kind = "deploy" /\ id # 0
    BY <1>1 DEF IInv, TypeOK, InHand
  <2>2. Len(sent) \in Nat /\ Position(w) <= Len(sent)
    BY HandledIs
  <2>3. sent[id] \in Message
    BY <1>1, <2>2, ElementOfSeq DEF IInv, TypeOK
  <2> QED
    BY <2>1, <2>3 DEF Message
<1> HIDE DEF id, f, listeners
<1>4. FailedIsHandled'
  BY <1>1, <1>2 DEF FollowInv, FailedIsHandled
<1>5. Latest(w, id)
  <2>1. id \notin Handled(w) /\ \A i \in Handled(w) : i \in Nat /\ i < id
    BY <1>1
  <2>2. failed[w] \subseteq Handled(w)
    BY DEF FollowInv, FailedIsHandled
  <2> QED
    BY <1>1, <1>2, <1>3, <2>1, <2>2 DEF Latest, Effective, Ids, channelVars
<1>6. /\ \A g \in Functions :
           /\ f # g => About(w, g)' = About(w, g)
           /\ f = g => /\ About(w, g)' = About(w, g) \cup {id}
                       /\ \A i : IsLast(i, About(w, g)') <=> i = id
      /\ \A l \in Hosts \cup {AnyHost} :
           /\ l \notin listeners => Claims(w, l)' = Claims(w, l)
           /\ l \in listeners => \A i : IsLast(i, Claims(w, l)') <=> i = id
      /\ \A g \in Functions : id \notin About(w, g)
      /\ \A l \in Hosts \cup {AnyHost} : id \notin Claims(w, l)
  BY <1>3, <1>5, LatestIsLast DEF f, listeners
<1>7. sent' = sent /\ Follows(w)
  BY <1>2 DEF channelVars, FollowInv
<1>8. CurrentFollows(w)'
  <2> SUFFICES ASSUME NEW g \in Functions, NEW i \in Ids
               PROVE  functions'[w][g] = i
                        <=> IsLast(i, About(w, g)') /\ sent[i].kind = "deploy"
    BY <1>7 DEF CurrentFollows, IsLast
  <2>1. functions'[w][g] = IF g = f THEN id ELSE functions[w][g]
    BY <1>2, <1>3 DEF IInv, TypeOK
  <2>2. CASE g = f
    BY <1>3, <1>6, <2>1, <2>2
  <2>3. CASE g # f
    BY <1>6, <1>7, <2>1, <2>3 DEF Follows, CurrentFollows
  <2> QED
    BY <2>2, <2>3
<1>9. HostsFollow(w)'
  <2> SUFFICES ASSUME NEW h \in Hosts, NEW g \in Functions
               PROVE  http_hosts'[w][h] = g
                        <=> \E i \in About(w, g)' : /\ IsLast(i, Claims(w, h)')
                                                    /\ IsLast(i, About(w, g)')
    BY DEF HostsFollow, IsLast
  <2>1. http_hosts'[w][h] = IF h \in listeners THEN f
                            ELSE IF http_hosts[w][h] = f THEN NoFunction
                            ELSE http_hosts[w][h]
    BY <1>2 DEF IInv, TypeOK
  <2>2. NoFunction # g
    BY RoutingAssumption
  <2>3. CASE h \in listeners
    BY <1>6, <2>1, <2>3
  <2>4. CASE h \notin listeners /\ g = f
    BY <1>6, <2>1, <2>2, <2>4 DEF IsLast
  <2>5. CASE h \notin listeners /\ g # f
    BY <1>6, <1>7, <2>1, <2>2, <2>5 DEF Follows, HostsFollow
  <2> QED
    BY <2>3, <2>4, <2>5
<1>10. DefaultFollows(w)'
  <2> SUFFICES ASSUME NEW g \in Functions
               PROVE  http_default'[w] = g
                        <=> \E i \in About(w, g)' :
                              /\ IsLast(i, Claims(w, AnyHost)')
                              /\ \A j \in About(w, g)' : j > i => sent[j].kind = "deploy"
    BY <1>7 DEF DefaultFollows, IsLast
  <2>1. http_default'[w] = IF AnyHost \in listeners THEN f ELSE http_default[w]
    BY <1>2 DEF IInv, TypeOK
  <2>2. CASE AnyHost \in listeners
    <3>1. \A j \in About(w, g)' : j \in Effective(w) \cup {id}
      BY <1>5, <1>7 DEF About, Latest
    <3>2. \A j \in About(w, g)' : ~(j > id)
      BY <1>5, <3>1 DEF Latest
    <3> QED
      BY <1>6, <2>1, <2>2, <3>2
  <2>3. CASE AnyHost \notin listeners
    <3>1. http_default[w] = g
            <=> \E i \in About(w, g) :
                  /\ IsLast(i, Claims(w, AnyHost))
                  /\ \A j \in About(w, g) : j > i => sent[j].kind = "deploy"
      BY <1>7 DEF Follows, DefaultFollows
    <3>2. Claims(w, AnyHost)' = Claims(w, AnyHost) /\ id \notin Claims(w, AnyHost)
      BY <1>6, <2>3
    <3>3. About(w, g)' \in {About(w, g), About(w, g) \cup {id}}
      BY <1>6
    <3>4. \A i : IsLast(i, Claims(w, AnyHost)) => i # id
      BY <3>2 DEF IsLast
    <3> QED
      BY <1>3, <2>1, <2>3, <3>1, <3>2, <3>3, <3>4
  <2> QED
    BY <2>2, <2>3
<1>11. \A v \in Workers \ {w} : Follows(v)'
  <2> SUFFICES ASSUME NEW v \in Workers \ {w} PROVE Follows(v)'
    OBVIOUS
  <2>1. /\ functions'[v] = functions[v] /\ http_hosts'[v] = http_hosts[v]
        /\ http_default'[v] = http_default[v]
    BY <1>2 DEF IInv, TypeOK
  <2> QED
    BY <1>1, <1>2, <1>7, <2>1, NothingHandled DEF FollowInv
<1> QED
  BY <1>4, <1>8, <1>9, <1>10, <1>11 DEF FollowInv, Follows

(* A removal is the last word about its function, and claims nothing.      *)
LEMMA RemoveFunctionFollows ==
  ASSUME IInv, IInv', FollowInv, NEW w \in Workers, RemoveFunction(w)
  PROVE  FollowInv'
<1> DEFINE p == Position(w) + 1
           f == sent[p].function
<1>1. /\ Head(messages_rx[w]) = p
      /\ Position(w) \in Nat
      /\ p \in DOMAIN sent
      /\ Len(messages_rx'[w]) = Len(messages_rx[w]) - 1
      /\ \A v \in Workers \ {w} : messages_rx'[v] = messages_rx[v]
  BY HeadOfQueue DEF RemoveFunction, NextIs
<1>2. /\ sent[p].kind = "remove" /\ Idle(w)
      /\ UNCHANGED <<sent, deploying, failed>>
  BY <1>1 DEF RemoveFunction, NextIs
<1>3. /\ http_hosts' = [http_hosts EXCEPT ![w] =
           [h \in Hosts |-> IF @[h] = f THEN NoFunction ELSE @[h]]]
      /\ http_default' = IF http_default[w] = f
                           THEN [http_default EXCEPT ![w] = NoFunction]
                           ELSE http_default
      /\ functions' = [functions EXCEPT ![w][f] = 0]
  <2> DEFINE id == Head(messages_rx[w])
             g == sent[id].function
  <2>1. /\ http_hosts' = [http_hosts EXCEPT ![w] =
             [h \in Hosts |-> IF @[h] = g THEN NoFunction ELSE @[h]]]
        /\ http_default' = IF http_default[w] = g
                             THEN [http_default EXCEPT ![w] = NoFunction]
                             ELSE http_default
        /\ functions' = [functions EXCEPT ![w][g] = 0]
    BY DEF RemoveFunction
  <2>2. id = p /\ g = f
    BY <1>1
  <2> HIDE DEF id, g
  <2> QED
    BY <2>1, <2>2, Zenon
<1>4. p \in Nat \ {0} /\ f \in Functions
  <2>1. sent[p] \in Message
    BY <1>1, ElementOfSeq, LenProperties DEF IInv, TypeOK
  <2> QED
    BY <1>1, <2>1 DEF Message
<1>5. /\ Handled(w) = 1..Position(w) /\ Handled(w)' = 1..p
      /\ \A v \in Workers \ {w} : Handled(v)' = Handled(v)
  <2>1. Handled(w) = 1..Position(w)
    BY <1>2, HandledIs
  <2>2. Len(sent) \in Nat /\ Len(messages_rx[w]) \in Nat
    BY LenProperties DEF IInv, TypeOK
  <2>3. Idle(w)' /\ Handled(w)' = 1..(Len(sent) - Len(messages_rx'[w]) - 0)
    BY <1>2 DEF Handled, Idle
  <2>4. Len(sent) - Len(messages_rx'[w]) - 0 = p
    BY <1>1, <2>2 DEF Position
  <2>5. \A v \in Workers \ {w} : Handled(v)' = Handled(v)
    BY <1>1, <1>2 DEF Handled, Idle
  <2> QED
    BY <2>1, <2>3, <2>4, <2>5
<1>6. 1..p = 1..Position(w) \cup {p} /\ p \notin 1..Position(w)
  BY <1>1
<1>7. FailedIsHandled'
  <2>1. \A v \in Workers : failed[v] \subseteq Handled(v)
    BY DEF FollowInv, FailedIsHandled
  <2>2. Handled(w) \subseteq Handled(w)'
    BY <1>5, <1>6
  <2>3. \A v \in Workers : failed'[v] \subseteq Handled(v)'
    BY <1>2, <1>5, <2>1, <2>2
  <2> QED
    BY <2>3 DEF FailedIsHandled
<1>8. Latest(w, p)
  <2>1. \A i \in Handled(w) : i \in Nat /\ i < p
    BY <1>1, <1>5
  <2>2. failed[w] \subseteq Handled(w)
    BY DEF FollowInv, FailedIsHandled
  <2> QED
    BY <1>2, <1>4, <1>5, <1>6, <2>1, <2>2 DEF Latest, Effective
<1> HIDE DEF p, f
<1>9. /\ \A g \in Functions :
           /\ f # g => About(w, g)' = About(w, g)
           /\ f = g => /\ About(w, g)' = About(w, g) \cup {p}
                       /\ \A i : IsLast(i, About(w, g)') <=> i = p
      /\ \A l \in Hosts \cup {AnyHost} : Claims(w, l)' = Claims(w, l)
      /\ \A l \in Hosts \cup {AnyHost} : p \notin Claims(w, l)
  <2>1. sent[p].kind # "deploy"
    BY <1>2
  <2> QED
    BY <1>8, <2>1, LatestIsLast DEF f
<1>10. sent' = sent /\ Follows(w)
  BY <1>2 DEF FollowInv
<1>11. CurrentFollows(w)'
  <2> SUFFICES ASSUME NEW g \in Functions, NEW i \in Ids
               PROVE  functions'[w][g] = i
                        <=> IsLast(i, About(w, g)') /\ sent[i].kind = "deploy"
    BY <1>10 DEF CurrentFollows, IsLast
  <2>1. functions'[w][g] = IF g = f THEN 0 ELSE functions[w][g]
    BY <1>3, <1>4 DEF IInv, TypeOK
  <2>2. CASE g = f
    BY <1>2, <1>9, <2>1, <2>2, RoutingAssumption DEF Ids
  <2>3. CASE g # f
    BY <1>9, <1>10, <2>1, <2>3 DEF Follows, CurrentFollows
  <2> QED
    BY <2>2, <2>3
<1>12. HostsFollow(w)'
  <2> SUFFICES ASSUME NEW h \in Hosts, NEW g \in Functions
               PROVE  http_hosts'[w][h] = g
                        <=> \E i \in About(w, g)' : /\ IsLast(i, Claims(w, h)')
                                                    /\ IsLast(i, About(w, g)')
    BY DEF HostsFollow, IsLast
  <2>1. http_hosts'[w][h] = IF http_hosts[w][h] = f THEN NoFunction
                            ELSE http_hosts[w][h]
    BY <1>3 DEF IInv, TypeOK
  <2>2. NoFunction # g
    BY RoutingAssumption
  <2>3. CASE g = f
    BY <1>9, <2>1, <2>2, <2>3 DEF IsLast
  <2>4. CASE g # f
    BY <1>9, <1>10, <2>1, <2>2, <2>4 DEF Follows, HostsFollow
  <2> QED
    BY <2>3, <2>4
<1>13. DefaultFollows(w)'
  <2> SUFFICES ASSUME NEW g \in Functions
               PROVE  http_default'[w] = g
                        <=> \E i \in About(w, g)' :
                              /\ IsLast(i, Claims(w, AnyHost)')
                              /\ \A j \in About(w, g)' : j > i => sent[j].kind = "deploy"
    BY <1>10 DEF DefaultFollows, IsLast
  <2>1. http_default'[w] = IF http_default[w] = f THEN NoFunction ELSE http_default[w]
    BY <1>3 DEF IInv, TypeOK
  <2>2. NoFunction # g
    BY RoutingAssumption
  <2>3. CASE g = f
    <3>1. ASSUME NEW i \in About(w, g)', IsLast(i, Claims(w, AnyHost)')
          PROVE  \E j \in About(w, g)' : j > i /\ sent[j].kind # "deploy"
      <4>1. i \in Claims(w, AnyHost) /\ i # p
        BY <1>9, <3>1 DEF IsLast
      <4>2. p > i
        BY <1>8, <4>1 DEF Claims, Latest
      <4> QED
        BY <1>2, <1>9, <2>3, <4>2
    <3> QED
      BY <2>1, <2>2, <2>3, <3>1
  <2>4. CASE g # f
    BY <1>9, <1>10, <2>1, <2>2, <2>4 DEF Follows, DefaultFollows
  <2> QED
    BY <2>3, <2>4
<1>14. \A v \in Workers \ {w} : Follows(v)'
  <2> SUFFICES ASSUME NEW v \in Workers \ {w} PROVE Follows(v)'
    OBVIOUS
  <2>1. /\ functions'[v] = functions[v] /\ http_hosts'[v] = http_hosts[v]
        /\ http_default'[v] = http_default[v]
    BY <1>3 DEF IInv, TypeOK
  <2> QED
    BY <1>2, <1>5, <1>10, <2>1, NothingHandled DEF FollowInv
<1> QED
  BY <1>7, <1>11, <1>12, <1>13, <1>14 DEF FollowInv, Follows

LEMMA InitFollows == Init => FollowInv
<1> SUFFICES ASSUME Init PROVE FollowInv
  OBVIOUS
<1>1. FailedIsHandled
  BY DEF Init, FailedIsHandled
<1>2. ASSUME NEW w \in Workers PROVE Effective(w) = {}
  <2>1. Len(sent) = 0 /\ Len(messages_rx[w]) = 0 /\ Idle(w)
    BY <1>2 DEF Init, Idle
  <2> QED
    BY <2>1 DEF Effective, Handled
<1>3. ASSUME NEW w \in Workers PROVE Follows(w)
  <2>1. /\ \A f \in Functions : About(w, f) = {}
        /\ \A l \in Hosts \cup {AnyHost} : Claims(w, l) = {}
    BY <1>2 DEF About, Claims
  <2>2. CurrentFollows(w)
    BY <2>1, RoutingAssumption DEF Init, CurrentFollows, IsLast, Ids
  <2>3. HostsFollow(w) /\ DefaultFollows(w)
    BY <2>1, RoutingAssumption DEF Init, HostsFollow, DefaultFollows
  <2> QED
    BY <2>2, <2>3 DEF Follows
<1> QED
  BY <1>1, <1>3 DEF FollowInv

(* The other steps handle nothing.                                         *)
LEMMA StutterFollows ==
  ASSUME IInv, FollowInv, UNCHANGED <<channelVars, deploying, tableVars, failed>>
  PROVE  FollowInv'
<1>1. \A w \in Workers : Handled(w)' = Handled(w)
  BY DEF Handled, Idle, channelVars
<1>2. FailedIsHandled'
  BY <1>1 DEF FollowInv, FailedIsHandled
<1>3. \A w \in Workers : Follows(w)'
  BY <1>1, NothingHandled DEF FollowInv, channelVars, tableVars
<1> QED
  BY <1>2, <1>3 DEF FollowInv

LEMMA StepFollows == IInv /\ IInv' /\ FollowInv /\ [Next]_vars => FollowInv'
<1> SUFFICES ASSUME IInv, IInv', FollowInv, [Next]_vars PROVE FollowInv'
  OBVIOUS
<1>1. CASE UNCHANGED vars
  BY <1>1, StutterFollows DEF vars
<1>2. ASSUME NEW f \in Functions, NEW l \in Listeners, SendDeploy(f, l)
      PROVE  FollowInv'
  BY <1>2, SendFollows DEF SendDeploy, Message
<1>3. ASSUME NEW f \in Functions, SendRemove(f) PROVE FollowInv'
  BY <1>3, SendFollows DEF SendRemove, Message
<1>4. ASSUME NEW w \in Workers, WorkerStep(w) PROVE FollowInv'
  BY <1>4, DeployStartsFollows, DeployFailsFollows, DeployEndsFollows,
     RemoveFunctionFollows DEF WorkerStep
<1>5. ASSUME NEW i \in Ids, RemovalReturns(i) PROVE FollowInv'
  BY <1>5, StutterFollows DEF RemovalReturns
<1> QED
  BY <1>1, <1>2, <1>3, <1>4, <1>5 DEF Next

(* The tables of a worker are a function of the messages it has handled:   *)
(* no order in which the others take theirs, no failed instantiation and   *)
(* no earlier claim of a route leaves a trace in them.                     *)
THEOREM TablesFollowTheMessages == Spec => []TablesFollowMessages
<1>1. FollowInv => TablesFollowMessages
  BY TablesFollow DEF FollowInv
<1> QED
  BY <1>1, InitFollows, StepFollows, Invariance, PTL DEF Spec

-----------------------------------------------------------------------------
(* The management thread and the workers together.                         *)

DP == INSTANCE DefinitionsProofs WITH failed <- refused

(* Whatever the workers do, the management thread does what Definitions    *)
(* says, and nothing a worker does is a step of it.                        *)
THEOREM DeploymentDefines == DeploymentSpec => D!Spec
<1>1. DeploymentInit => D!Init
  BY DEF DeploymentInit
<1>2. [DeploymentNext]_deploymentVars => [D!Next]_(D!vars)
  <2> SUFFICES ASSUME [DeploymentNext]_deploymentVars PROVE [D!Next]_(D!vars)
    OBVIOUS
  <2>1. UNCHANGED definitionVars => UNCHANGED D!vars
    BY DEF definitionVars, D!vars, D!fileVars, D!threadVars, D!scanVars, D!watchVars,
       D!apiVars, D!sent, D!historyVars
  <2>2. CASE Prepares
    BY <2>2 DEF Prepares, D!Next, D!Environment, D!Scan, D!Applies
  <2>3. ASSUME NEW a \in D!Tasks, Deliver(a) PROVE D!Next
    BY <2>3 DEF Deliver, D!Next, D!Applies
  <2>4. CASE Reconciled
    BY <2>4 DEF Reconciled, D!Next, D!Scan
  <2>5. ASSUME NEW f \in Functions, RemovedOverApi(f) PROVE D!Next
    BY <2>5 DEF RemovedOverApi, D!Next, D!Environment
  <2>6. ASSUME NEW w \in Workers, Serves(w) PROVE UNCHANGED D!vars
    BY <2>1, <2>6 DEF Serves
  <2>7. ASSUME NEW i \in Ids, AnswersRemoval(i) PROVE UNCHANGED D!vars
    BY <2>1, <2>7 DEF AnswersRemoval
  <2>8. ASSUME NEW w \in MayHang, Hangs(w) PROVE UNCHANGED D!vars
    BY <2>1, <2>8 DEF Hangs
  <2>9. CASE UNCHANGED deploymentVars
    BY <2>1, <2>9 DEF deploymentVars
  <2> QED
    BY <2>2, <2>3, <2>4, <2>5, <2>6, <2>7, <2>8, <2>9 DEF DeploymentNext
<1> QED
  BY <1>1, <1>2, PTL DEF DeploymentSpec, D!Spec

LEMMA SameSpec == DP!Spec <=> D!Spec
<1>1. DP!Init <=> D!Init
  BY DEF D!Init, DP!Init, D!Found, DP!Found, D!Walks, DP!Walks, D!Tasks,
         DP!Tasks
<1>2. [DP!Next]_(DP!vars) <=> [D!Next]_(D!vars)
  BY DEF D!vars, DP!vars, D!fileVars, DP!fileVars, D!threadVars,
         DP!threadVars, D!scanVars, DP!scanVars, D!watchVars, DP!watchVars,
         D!apiVars, DP!apiVars, D!sent, DP!sent, D!historyVars, DP!historyVars, D!Tasks, DP!Tasks, D!Request,
         DP!Request, D!Job, DP!Job, D!Message, DP!Message, D!InPhase,
         DP!InPhase, D!Found, DP!Found, D!Walks, DP!Walks, D!Begins,
         DP!Begins, D!Forgotten, DP!Forgotten, D!Ends, DP!Ends, D!Answer,
         DP!Answer, D!Fails, DP!Fails, D!Panics, DP!Panics, D!CodeOf,
         DP!CodeOf, D!Goes, DP!Goes, D!Sends, DP!Sends, D!CodeFor, DP!CodeFor,
         D!EditDefinition, DP!EditDefinition, D!EditCode, DP!EditCode,
         D!CronStops, DP!CronStops, D!Notify, DP!Notify, D!StartPass,
         DP!StartPass, D!Visit, DP!Visit, D!EndPass, DP!EndPass,
         D!StartWatching, DP!StartWatching, D!WatchFails, DP!WatchFails,
         D!DeployFunction, DP!DeployFunction, D!TakeRequest, DP!TakeRequest,
         D!LoopStops, DP!LoopStops,
         D!RemoveOverApi, DP!RemoveOverApi, D!ReadCode, DP!ReadCode,
         D!SendToCompiler, DP!SendToCompiler, D!Compile, DP!Compile,
         D!CompileFails, DP!CompileFails, D!EnvPanics, DP!EnvPanics,
         D!SchedulePanics, DP!SchedulePanics, D!CronIsGone, DP!CronIsGone,
         D!Deployed, DP!Deployed, D!Edit, DP!Edit, D!Ask, DP!Ask,
         D!Environment, DP!Environment, D!Watch, DP!Watch, D!Applies,
         DP!Applies, D!Scan, DP!Scan, D!Next, DP!Next
<1> QED
  BY <1>1, <1>2, PTL DEF D!Spec, DP!Spec

(* What is proved of Definitions holds of its part in a deployment.        *)
ManagementInv ==
  /\ D!TypeOK
  /\ D!QuietMeansApplied
  /\ D!CronFollowsWorkers
  /\ D!RecordedIsRunning
  /\ D!Forgotten = {}

LEMMA ManagementInvariance == DeploymentSpec => []ManagementInv
<1> DEFINE DPInv == /\ DP!TypeOK
                    /\ DP!QuietMeansApplied
                    /\ DP!CronFollowsWorkers
                    /\ DP!RecordedIsRunning
                    /\ DP!Forgotten = {}
<1>1. D!Parameters
  BY DeploymentAssumption
<1>2. DP!Parameters
  BY <1>1 DEF D!Parameters, DP!Parameters, D!Job, DP!Job, D!Message, DP!Message,
         D!Tasks, DP!Tasks
<1>3. DP!Spec => []DP!TypeOK
  BY <1>2, DP!DefinitionsTypeCorrect
<1>4. DP!Spec => []DP!QuietMeansApplied
  BY <1>2, DP!NoDefinitionIsMissed
<1>5. DP!Spec => []DP!CronFollowsWorkers
  BY <1>2, DP!WorkersAndCronAgree
<1>6. DP!Spec => []DP!RecordedIsRunning
  BY <1>2, DP!RecordedWasSent
<1>7. DP!Spec => [](DP!Forgotten = {})
  BY <1>2, DP!NothingIsForgotten
<1>8. DPInv => ManagementInv
  BY DEF ManagementInv, D!TypeOK, DP!TypeOK, D!QuietMeansApplied, DP!QuietMeansApplied,
         D!CronFollowsWorkers, DP!CronFollowsWorkers, D!RecordedIsRunning,
         DP!RecordedIsRunning, D!Forgotten, DP!Forgotten, D!Job, DP!Job,
         D!Message, DP!Message, D!Tasks, DP!Tasks, D!Request, DP!Request,
         D!Sent, DP!Sent, D!AllUp, DP!AllUp, D!Settled, DP!Settled,
         D!CodeIsCurrent, DP!CodeIsCurrent, D!CodeFor, DP!CodeFor
<1> HIDE DEF DPInv
<1>9. DP!Spec => []DPInv
  BY <1>3, <1>4, <1>5, <1>6, <1>7, PTL DEF DPInv
<1> QED
  BY <1>8, <1>9, SameSpec, DeploymentDefines, PTL

(* The end of an application names a function, a config and a code there   *)
(* are.                                                                    *)
LEMMA JobInHand ==
  ASSUME ManagementInv, NEW a \in D!Tasks, Deliver(a)
  PROVE  /\ job[a].function \in Functions /\ job[a].config \in Configs
         /\ job[a].code \in Codes
<1>1. job[a] \in D!Job /\ job[a].phase = "Compiled"
  BY DEF Deliver, D!SchedulePanics, D!CronIsGone, D!Deployed, D!InPhase, ManagementInv,
     D!TypeOK
<1> QED
  BY <1>1 DEF D!Job

(* A pass has nothing to remove, and sends nothing.                        *)
LEMMA NothingRemoved ==
  ASSUME ManagementInv, TypeOK, configs \in Seq(Configs \cup {Removed}), Reconciled
  PROVE  D!EndPass /\ UNCHANGED <<vars, configs, running>>
<1>1. PICK order \in Orders({}) : SendRemovals(order)
  BY DEF Reconciled, ManagementInv
<1>2. Len(order) = 0
  BY FS_EmptySet DEF Orders
<1>3. \A k \in 1..Len(order) : FALSE
  BY <1>2
<1>4. sent' = sent
  <2>1. [k \in 1..Len(order) |-> [kind |-> "remove", function |-> order[k]]] = <<>>
    BY <1>2, <1>3
  <2> QED
    BY <1>1, <2>1, ConcatEmptySeq DEF SendRemovals, TypeOK
<1>5. messages_rx' = messages_rx
  <2>1. [k \in 1..Len(order) |-> Len(sent) + k] = <<>>
    BY <1>2, <1>3
  <2>2. messages_rx' = [w \in Workers |-> messages_rx[w] \o <<>>]
    BY <1>1, <2>1 DEF SendRemovals
  <2>3. \A w \in Workers : messages_rx[w] \o <<>> = messages_rx[w]
    BY ConcatEmptySeq DEF TypeOK
  <2> QED
    BY <2>2, <2>3 DEF TypeOK
<1>6. configs' = configs
  <2>1. [k \in 1..Len(order) |-> Removed] = <<>>
    BY <1>2, <1>3
  <2> QED
    BY <1>1, <2>1, ConcatEmptySeq DEF SendRemovals
<1>7. running' = running
  BY DEF Reconciled, D!EndPass, ManagementInv, D!TypeOK
<1> QED
  BY <1>1, <1>4, <1>5, <1>6, <1>7 DEF Reconciled, SendRemovals, vars, channelVars

(* Whatever the management thread does, the workers see messages they      *)
(* might be sent: a deployment of listeners that some config has, or a     *)
(* removal.                                                                *)
LEMMA DeploymentStep ==
  ASSUME ManagementInv, TypeOK, configs \in Seq(Configs \cup {Removed}),
         [DeploymentNext]_deploymentVars
  PROVE  [Next]_vars
<1>1. CASE Prepares
  BY <1>1 DEF Prepares
<1>2. ASSUME NEW a \in D!Tasks, Deliver(a) PROVE Next
  BY <1>2, JobInHand, DeploymentAssumption DEF Deliver, Next
<1>3. CASE Reconciled
  BY <1>3, NothingRemoved
<1>4. ASSUME NEW f \in Functions, RemovedOverApi(f) PROVE Next
  BY <1>4 DEF RemovedOverApi, Next
<1>5. ASSUME NEW w \in Workers, Serves(w) PROVE Next
  BY <1>5 DEF Serves, Next
<1>6. ASSUME NEW i \in Ids, AnswersRemoval(i) PROVE Next
  BY <1>6 DEF AnswersRemoval, Next
<1>7. ASSUME NEW w \in MayHang, Hangs(w) PROVE UNCHANGED vars
  BY <1>7 DEF Hangs
<1>8. CASE UNCHANGED deploymentVars
  BY <1>8 DEF deploymentVars
<1> QED
  BY <1>1, <1>2, <1>3, <1>4, <1>5, <1>6, <1>7, <1>8 DEF DeploymentNext

(* The message at position i is the last one about f, and the workers were *)
(* told by it what running says.                                           *)
LastWord(f, i) ==
  /\ i \in DOMAIN sent
  /\ IsLast(i, Told(f))
  /\ IF running[f] = Removed
       THEN sent[i].kind = "remove"
       ELSE sent[i].kind = "deploy" /\ configs[i] = running[f].config

(* Each message tells of one config, and running of the last message.      *)
Coupled ==
  /\ configs \in Seq(Configs \cup {Removed})
  /\ Len(configs) = Len(sent)
  /\ \A i \in DOMAIN sent :
       sent[i].kind = "deploy" => /\ configs[i] \in Configs
                                  /\ sent[i].listeners = ListenersOf[configs[i]]
  /\ \A f \in Functions :
       IF running[f] = Nothing THEN Told(f) = {} ELSE \E i \in DOMAIN sent : LastWord(f, i)

LEMMA InitCoupled == DeploymentInit => Coupled
BY DEF DeploymentInit, D!Init, Init, Coupled, Told

(* A message about f becomes the last word about f, and changes nothing    *)
(* that was said of the others.                                            *)
LEMMA SendCoupled ==
  ASSUME Coupled, TypeOK,
         NEW f \in Functions, NEW m \in Message, m.function = f, Send(m),
         NEW c \in Configs \cup {Removed}, configs' = Append(configs, c),
         m.kind = "deploy" => c \in Configs /\ m.listeners = ListenersOf[c],
         \A g \in Functions \ {f} : running'[g] = running[g],
         running'[f] # Nothing,
         IF running'[f] = Removed
           THEN m.kind = "remove"
           ELSE m.kind = "deploy" /\ running'[f].config = c
  PROVE  Coupled'
<1> DEFINE n == Len(sent) + 1
<1>1. /\ sent' = Append(sent, m)
      /\ sent \in Seq(Message) /\ Len(sent) \in Nat
      /\ Len(sent') = n
      /\ DOMAIN sent = 1..Len(sent) /\ DOMAIN sent' = 1..n
      /\ sent'[n] = m
      /\ \A i \in 1..Len(sent) : sent'[i] = sent[i]
  BY DEF Send, TypeOK
<1>2. /\ configs \in Seq(Configs \cup {Removed}) /\ Len(configs) = Len(sent)
      /\ configs' \in Seq(Configs \cup {Removed})
      /\ Len(configs') = n
      /\ configs'[n] = c
      /\ \A i \in 1..Len(sent) : configs'[i] = configs[i]
  BY <1>1 DEF Coupled
<1>3. /\ n \in Nat /\ n \in 1..n /\ n \notin 1..Len(sent)
      /\ 1..n = 1..Len(sent) \cup {n}
      /\ \A i \in 1..n : i <= n
  BY <1>1
<1> HIDE DEF n
<1>4. ASSUME NEW i \in DOMAIN sent', sent'[i].kind = "deploy"
      PROVE  configs'[i] \in Configs /\ sent'[i].listeners = ListenersOf[configs'[i]]
  <2>1. CASE i = n
    BY <1>1, <1>2, <1>4, <2>1
  <2>2. CASE i \in 1..Len(sent)
    BY <1>1, <1>2, <1>4, <2>2 DEF Coupled
  <2> QED
    BY <1>1, <1>3, <2>1, <2>2
<1>5. ASSUME NEW k \in DOMAIN sent', k = n PROVE LastWord(f, k)'
  <2>1. k \in Told(f)' /\ \A j \in Told(f)' : j <= k
    BY <1>1, <1>3, <1>5 DEF Told
  <2> QED
    BY <1>1, <1>2, <1>5, <2>1 DEF LastWord, IsLast
<1>6. ASSUME NEW g \in Functions \ {f}, running'[g] # Nothing
      PROVE  \E i \in DOMAIN sent' : LastWord(g, i)'
  <2>1. running[g] # Nothing /\ running'[g] = running[g]
    BY <1>6
  <2>2. PICK i \in DOMAIN sent : LastWord(g, i)
    BY <2>1 DEF Coupled
  <2>3. Told(g)' = Told(g)
    BY <1>1, <1>3 DEF Told
  <2>4. i \in 1..Len(sent) /\ i \in DOMAIN sent'
    BY <1>1, <1>3
  <2>5. LastWord(g, i)'
    BY <1>1, <1>2, <2>1, <2>2, <2>3, <2>4 DEF LastWord, IsLast
  <2> QED
    BY <2>4, <2>5
<1>7. ASSUME NEW g \in Functions, running'[g] = Nothing
      PROVE  Told(g)' = {}
  <2>1. g # f /\ Told(g) = {}
    BY <1>7 DEF Coupled
  <2> QED
    BY <1>1, <1>3, <2>1 DEF Told
<1>8. \A g \in Functions : running'[g] # Nothing => \E i \in DOMAIN sent' : LastWord(g, i)'
  BY <1>1, <1>3, <1>5, <1>6
<1> QED
  BY <1>1, <1>2, <1>4, <1>7, <1>8 DEF Coupled

LEMMA StutterCoupled ==
  ASSUME Coupled, UNCHANGED <<sent, configs, running>>
  PROVE  Coupled'
BY DEF Coupled, LastWord, Told, IsLast

LEMMA StepCoupled ==
  ASSUME ManagementInv, TypeOK, Coupled, [DeploymentNext]_deploymentVars
  PROVE  Coupled'
<1>1. CASE Prepares
  <2>1. UNCHANGED running
    BY <1>1
       DEF Prepares, D!Edit, D!Ask, D!CronStops, D!EditDefinition, D!EditCode,
           D!DeployFunction, D!Notify, D!StartPass, D!Visit, D!Watch, D!StartWatching,
           D!WatchFails, D!TakeRequest, D!LoopStops, D!ReadCode, D!SendToCompiler, D!CompileFails,
           D!EnvPanics, D!Compile, D!sent
  <2> QED
    BY <1>1, <2>1, StutterCoupled DEF Prepares, vars, channelVars
<1>2. ASSUME NEW a \in D!Tasks, Deliver(a) PROVE Coupled'
  <2> DEFINE f == job[a].function
             c == job[a].config
             m == [kind |-> "deploy", function |-> f, listeners |-> ListenersOf[c]]
  <2>1. f \in Functions /\ c \in Configs
    BY <1>2, JobInHand
  <2>2. m \in Message /\ m.kind = "deploy" /\ m.function = f /\ m.listeners = ListenersOf[c]
    BY <2>1, DeploymentAssumption DEF Message
  <2>3. /\ running' = [running EXCEPT ![f] =
             [config |-> c, code |-> job[a].code, by |-> a]]
        /\ running \in [Functions -> D!Message \cup {Nothing, Removed}]
    BY <1>2 DEF Deliver, D!SchedulePanics, D!CronIsGone, D!Deployed, D!Sends, ManagementInv,
       D!TypeOK
  <2>4. Send(m) /\ configs' = Append(configs, c)
    BY <1>2 DEF Deliver, SendDeploy
  <2>5. /\ running'[f].config = c /\ running'[f] \notin {Nothing, Removed}
        /\ \A g \in Functions \ {f} : running'[g] = running[g]
    <3>1. [config |-> c, code |-> job[a].code, by |-> a] \in D!Message
      BY <1>2, <2>1, JobInHand DEF D!Message
    <3> QED
      BY <2>1, <2>3, <3>1, DeploymentAssumption DEF D!Parameters
  <2> HIDE DEF f, c, m
  <2> QED
    BY <2>1, <2>2, <2>4, <2>5, SendCoupled
<1>3. CASE Reconciled
  BY <1>3, NothingRemoved, StutterCoupled DEF Coupled, vars, channelVars
<1>4. ASSUME NEW f \in Functions, RemovedOverApi(f) PROVE Coupled'
  <2> DEFINE m == [kind |-> "remove", function |-> f]
  <2>1. m \in Message /\ m.kind = "remove" /\ m.function = f
    BY DEF Message
  <2>2. /\ running'[f] = Removed /\ Removed # Nothing
        /\ \A g \in Functions \ {f} : running'[g] = running[g]
    BY <1>4, DeploymentAssumption
       DEF RemovedOverApi, D!RemoveOverApi, ManagementInv, D!TypeOK, D!Parameters
  <2>3. Send(m) /\ configs' = Append(configs, Removed)
    BY <1>4 DEF RemovedOverApi, SendRemove
  <2> HIDE DEF m
  <2> QED
    BY <2>1, <2>2, <2>3, SendCoupled
<1>5. ASSUME NEW w \in Workers, Serves(w) PROVE Coupled'
  <2>1. UNCHANGED <<sent, configs, running>>
    BY <1>5 DEF Serves, definitionVars, WorkerStep, DeployStarts, DeployFails, DeployEnds,
       RemoveFunction, channelVars
  <2> QED
    BY <2>1, StutterCoupled
<1>6. ASSUME NEW i \in Ids, AnswersRemoval(i) PROVE Coupled'
  BY <1>6, StutterCoupled DEF AnswersRemoval, definitionVars, RemovalReturns, channelVars
<1>7. ASSUME NEW w \in MayHang, Hangs(w) PROVE Coupled'
  BY <1>7, StutterCoupled DEF Hangs, definitionVars, vars, channelVars
<1>8. CASE UNCHANGED deploymentVars
  BY <1>8, StutterCoupled DEF deploymentVars, definitionVars, vars, channelVars
<1> QED
  BY <1>1, <1>2, <1>3, <1>4, <1>5, <1>6, <1>7, <1>8 DEF DeploymentNext

(* The workers of a deployment behave as Routing says: what is proved of   *)
(* any sequence of messages holds of those the management thread sends.    *)
(* That they are such messages depends on what Definitions keeps: an       *)
(* application has a function and a config, and a pass forgets nothing.    *)
THEOREM DeploymentRoutes == DeploymentSpec => Spec
<1>1. DeploymentInit => Init /\ IInv /\ Coupled
  BY InitInv, InitCoupled DEF DeploymentInit
<1>2. /\ ManagementInv /\ IInv /\ Coupled
      /\ [DeploymentNext]_deploymentVars
      => [Next]_vars /\ IInv' /\ Coupled'
  BY DeploymentStep, StepInv, StepCoupled DEF IInv, Coupled
<1> QED
  BY <1>1, <1>2, ManagementInvariance, PTL DEF DeploymentSpec, Spec

LEMMA CoupledInvariance == DeploymentSpec => []Coupled
<1>1. DeploymentInit => Coupled
  BY InitCoupled
<1>2. /\ ManagementInv /\ TypeOK /\ Coupled
      /\ [DeploymentNext]_deploymentVars
      => Coupled'
  BY StepCoupled
<1> QED
  BY <1>1, <1>2, ManagementInvariance, DeploymentRoutes, RoutingTypeCorrect, PTL
     DEF DeploymentSpec

(* What a worker that has caught up serves of the last message about f.    *)
LEMMA CaughtUpServes ==
  ASSUME TypeOK, Coupled, TablesFollowMessages,
         NEW f \in Functions, NEW i \in DOMAIN sent, IsLast(i, Told(f)),
         sent[i].kind = "deploy",
         NEW w \in Workers, CaughtUp(w), i \notin failed[w]
  PROVE  ServesSince(w, f, configs[i], i)
<1>1. /\ Len(sent) \in Nat /\ DOMAIN sent = 1..Len(sent) /\ Len(sent) <= MaxMessages
      /\ i \in Ids /\ i \in Int
  BY RoutingAssumption DEF TypeOK, Ids
<1>2. Handled(w) = DOMAIN sent
  BY <1>1 DEF Handled, CaughtUp
<1>3. Effective(w) = DOMAIN sent \ failed[w]
  BY <1>2 DEF Effective
<1>4. i \in About(w, f) /\ \A j \in About(w, f) : j <= i /\ j \in Int
  BY <1>1, <1>3 DEF About, Told, IsLast
<1>5. functions[w][f] = i
  BY <1>1, <1>4 DEF TablesFollowMessages, IsLast
<1>6. sent[i].listeners = ListenersOf[configs[i]] /\ configs[i] \in Configs
  BY DEF Coupled
<1>7. ASSUME NEW h \in Hosts, http_hosts[w][h] = f PROVE h \in ListenersOf[configs[i]]
  <2>1. PICK k \in About(w, f) : IsLast(k, Claims(w, h)) /\ IsLast(k, About(w, f))
    BY <1>7 DEF TablesFollowMessages
  <2>2. k = i
    BY <1>1, <1>4, <2>1 DEF IsLast
  <2> QED
    BY <1>6, <2>1, <2>2 DEF IsLast, Claims
<1>8. ASSUME NEW l \in ListenersOf[configs[i]], ~ClaimedAfter(i, l) PROVE Route(w, l) = f
  <2>1. l \in Hosts \cup {AnyHost}
    BY <1>6, DeploymentAssumption, RoutingAssumption
  <2>2. IsLast(i, Claims(w, l))
    BY <1>1, <1>3, <1>4, <1>6, <1>8 DEF IsLast, Claims, ClaimedAfter, About
  <2>3. CASE l = AnyHost
    <3>1. \A j \in About(w, f) : j > i => sent[j].kind = "deploy"
      BY <1>1, <1>4
    <3> QED
      BY <1>4, <2>2, <2>3, <3>1 DEF TablesFollowMessages, Route
  <2>4. CASE l # AnyHost
    <3>1. IsLast(i, About(w, f))
      BY <1>4 DEF IsLast
    <3> QED
      BY <1>4, <2>1, <2>2, <2>4, <3>1 DEF TablesFollowMessages, Route
  <2> QED
    BY <2>3, <2>4
<1> QED
  BY <1>5, <1>7, <1>8 DEF ServesSince

(* What a worker could not instantiate is a deployment it has handled.     *)
FailedAreDeployments ==
  \A w \in Workers : \A i \in failed[w] : i \in DOMAIN sent /\ sent[i].kind = "deploy"

LEMMA FailedInvariance == Spec => []FailedAreDeployments
<1>1. Init => FailedAreDeployments
  BY DEF Init, FailedAreDeployments
<1>2. IInv /\ FailedAreDeployments /\ [Next]_vars => FailedAreDeployments'
  <2> SUFFICES ASSUME IInv, FailedAreDeployments, [Next]_vars PROVE FailedAreDeployments'
    OBVIOUS
  <2>1. CASE UNCHANGED <<sent, failed>>
    BY <2>1 DEF FailedAreDeployments
  <2>2. ASSUME NEW m, Send(m) PROVE FailedAreDeployments'
    <3>1. \A i \in DOMAIN sent : i \in DOMAIN sent' /\ sent'[i] = sent[i]
      BY <2>2 DEF Send, IInv, TypeOK
    <3> QED
      BY <2>2, <3>1 DEF Send, FailedAreDeployments
  <2>3. ASSUME NEW w \in Workers, DeployFails(w) PROVE FailedAreDeployments'
    <3>1. /\ failed \in [Workers -> SUBSET Ids]
          /\ failed' = [failed EXCEPT ![w] = @ \cup {deploying[w]}]
          /\ sent' = sent
      BY <2>3 DEF DeployFails, channelVars, IInv, TypeOK
    <3>2. deploying[w] \in DOMAIN sent /\ sent[deploying[w]].kind = "deploy"
      <4>1. deploying[w] # 0 /\ deploying[w] = Position(w)
        BY <2>3 DEF DeployFails, Idle, IInv, InHand
      <4>2. sent[deploying[w]].kind = "deploy"
        BY <4>1 DEF IInv, InHand
      <4> QED
        BY <4>1, <4>2, HandledIs DEF IInv, TypeOK
    <3> QED
      BY <3>1, <3>2 DEF FailedAreDeployments
  <2> QED
    BY <2>1, <2>2, <2>3
       DEF Next, WorkerStep, vars, SendDeploy, SendRemove, DeployStarts, DeployEnds,
           RemoveFunction, RemovalReturns, channelVars
<1> QED
  BY <1>1, <1>2, Invariance, PTL DEF Spec

(* What a worker that has caught up serves of a function whose last        *)
(* message was a removal, or that was never heard of: nothing.             *)
LEMMA CaughtUpForgets ==
  ASSUME TypeOK, TablesFollowMessages, FailedAreDeployments, NEW f \in Functions,
         \/ Told(f) = {}
         \/ \E i \in DOMAIN sent : IsLast(i, Told(f)) /\ sent[i].kind = "remove",
         NEW w \in Workers, CaughtUp(w)
  PROVE  /\ functions[w][f] = 0
         /\ \A l \in Hosts \cup {AnyHost} : Route(w, l) # f
<1>1. Len(sent) \in Nat /\ DOMAIN sent = 1..Len(sent)
  BY DEF TypeOK
<1>2. About(w, f) = Told(f) \ failed[w]
  BY <1>1 DEF About, Effective, Handled, CaughtUp, Told
<1>3. ASSUME NEW k \in About(w, f), sent[k].kind = "deploy"
      PROVE  \E i \in About(w, f) : i > k /\ sent[i].kind = "remove"
  <2>1. PICK i \in DOMAIN sent : IsLast(i, Told(f)) /\ sent[i].kind = "remove"
    BY <1>2
  <2>2. i \in About(w, f)
    BY <1>2, <2>1 DEF IsLast, FailedAreDeployments
  <2>3. k <= i /\ k # i /\ k \in Int /\ i \in Int
    BY <1>1, <1>2, <1>3, <2>1 DEF IsLast, Told
  <2> QED
    BY <2>1, <2>2, <2>3
<1>4. \A k \in About(w, f) : k \in Int
  BY <1>1, <1>2 DEF Told
<1>5. ASSUME NEW k, IsLast(k, About(w, f)), sent[k].kind = "deploy" PROVE FALSE
  BY <1>3, <1>4, <1>5 DEF IsLast
<1>6. functions[w][f] = 0
  BY <1>5 DEF TablesFollowMessages, TypeOK
<1>7. ASSUME NEW h \in Hosts, http_hosts[w][h] = f PROVE FALSE
  BY <1>5, <1>7 DEF TablesFollowMessages, IsLast, Claims
<1>8. ASSUME http_default[w] = f PROVE FALSE
  <2>1. PICK k \in About(w, f) :
          /\ IsLast(k, Claims(w, AnyHost))
          /\ \A j \in About(w, f) : j > k => sent[j].kind = "deploy"
    BY <1>8 DEF TablesFollowMessages
  <2> QED
    BY <1>3, <2>1 DEF IsLast, Claims
<1> QED
  BY <1>6, <1>7, <1>8, RoutingAssumption DEF Route

(* Whatever was applied over whatever else, a worker that has caught up    *)
(* does what it was told last (monitor.rs and task.rs).                    *)
THEOREM WorkersDoAsTold == DeploymentSpec => []WorkersFollowManagement
<1>1. TypeOK /\ Coupled /\ FailedAreDeployments /\ TablesFollowMessages
        => WorkersFollowManagement
  <2> SUFFICES ASSUME TypeOK, Coupled, FailedAreDeployments, TablesFollowMessages,
                      NEW f \in Functions
               PROVE  IF D!Sent(f)
                        THEN \E i \in DOMAIN sent :
                               /\ IsLast(i, Told(f))
                               /\ configs[i] = running[f].config
                               /\ \A w \in Workers :
                                    CaughtUp(w) /\ i \notin failed[w]
                                      => ServesSince(w, f, running[f].config, i)
                        ELSE \A w \in Workers :
                               CaughtUp(w)
                                 => /\ functions[w][f] = 0
                                    /\ \A l \in Hosts \cup {AnyHost} : Route(w, l) # f
    BY DEF WorkersFollowManagement
  <2>1. CASE D!Sent(f)
    <3>1. PICK i \in DOMAIN sent : LastWord(f, i)
      BY <2>1 DEF Coupled, D!Sent
    <3>2. IsLast(i, Told(f)) /\ sent[i].kind = "deploy" /\ configs[i] = running[f].config
      BY <2>1, <3>1 DEF LastWord, D!Sent
    <3> QED
      BY <2>1, <3>2, CaughtUpServes
  <2>2. CASE ~D!Sent(f)
    <3>1. \/ Told(f) = {}
          \/ \E i \in DOMAIN sent : IsLast(i, Told(f)) /\ sent[i].kind = "remove"
      BY <2>2 DEF Coupled, LastWord, D!Sent
    <3> QED
      BY <2>2, <3>1, CaughtUpForgets
  <2> QED
    BY <2>1, <2>2
<1> QED
  BY <1>1, DeploymentRoutes, RoutingTypeCorrect, CoupledInvariance, FailedInvariance,
     TablesFollowTheMessages, PTL

(* From a definition file to the routes of the workers: the scan's         *)
(* promise, through messages and queues (monitor.rs and task.rs).          *)
THEOREM DefinitionsAreServed == DeploymentSpec => []EditsAreServed
<1>1. ManagementInv /\ WorkersFollowManagement => EditsAreServed
  <2> SUFFICES ASSUME ManagementInv, WorkersFollowManagement,
                      D!AllUp /\ scan = "Idle" /\ ~dirty /\ ~event,
                      NEW f \in Functions,
                      disk[f] \in Configs \ {refused[f]} /\ f \notin unseen,
                      running[f] # Removed /\ (D!Sent(f) => running[f].by = "scan")
               PROVE  /\ scheduled[f] = disk[f]
                      /\ \E i \in DOMAIN sent :
                           /\ IsLast(i, Told(f))
                           /\ configs[i] = disk[f]
                           /\ \A w \in Workers :
                                CaughtUp(w) /\ i \notin failed[w]
                                  => ServesSince(w, f, disk[f], i)
    BY DEF EditsAreServed
  <2>1. deployed_state[f] = disk[f]
    BY DEF ManagementInv, D!QuietMeansApplied, D!Settled
  <2>2. Nothing \notin Configs
    BY DeploymentAssumption DEF D!Parameters
  <2>3. D!Sent(f)
    BY <2>1, <2>2 DEF ManagementInv, D!RecordedIsRunning, D!Sent
  <2>4. running[f].config = disk[f] /\ scheduled[f] = disk[f]
    BY <2>1, <2>3 DEF ManagementInv, D!RecordedIsRunning, D!CronFollowsWorkers
  <2> QED
    BY <2>3, <2>4 DEF WorkersFollowManagement
<1> QED
  BY <1>1, ManagementInvariance, WorkersDoAsTold, PTL
=============================================================================
