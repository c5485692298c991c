------------------------------- MODULE KvProofs -------------------------------
(***************************************************************************)
(* What holds of the key-value thread for any clients, keys, channels and  *)
(* leases.  IInv adds to the properties what a message in the queue says   *)
(* of its client: it is the one call of that client, it is a call the      *)
(* client may make, a client that releases a lock no longer claims it, and *)
(* a client that subscribes has no sender in a channel yet.                *)
(***************************************************************************)
EXTENDS Kv, SequenceTheorems, TLAPS

(* The messages of the queue are calls under way, one per client.          *)
OneMessagePerCall ==
  /\ \A i \in 1..Len(kv_rx) : call[kv_rx[i]] # NoCall
  /\ \A i, j \in 1..Len(kv_rx) : kv_rx[i] = kv_rx[j] => i = j

CallsAreSent == \A c \in Clients : call[c] # NoCall => call[c] \in Sendable[c]

ReleaseGivesUpClaim ==
  \A c \in Clients : \A k \in LockKeys :
    call[c] # NoCall /\ call[c].op = "delex" /\ call[c].key = k => lease[c][k] = 0

NewSubscribers ==
  \A c \in Clients : \A ch \in Channels :
    call[c] # NoCall /\ call[c].op = "subscribe" => c \notin channels[ch]

(* A receiver is behind its channel, never ahead; no receiver, no message. *)
ReceiversLag ==
  \A c \in Clients :
    IF receiver[c] = NoChannel THEN unread[c] = <<>>
                               ELSE seen[c] <= published[receiver[c]]

IInv ==
  /\ TypeOK
  /\ OneMessagePerCall
  /\ CallsAreSent
  /\ HolderKeepsLock
  /\ ReleaseGivesUpClaim
  /\ NewSubscribers
  /\ SubscribersMissNothing
  /\ ReceiversLag

-----------------------------------------------------------------------------
(* What the wire makes of a request is a request, of the same operation,   *)
(* key and value, and a lock is still used properly.                       *)
LEMMA SentIsRequest ==
  ASSUME NEW c \in Clients, NEW r \in Requests[c]
  PROVE  /\ Sent(r) \in Request
         /\ Sent(r).op = r.op
         /\ UsesLocksProperly(c, Sent(r))
         /\ r.op # "set" => Sent(r) = r
<1>1. r \in Request /\ UsesLocksProperly(c, r)
  BY KvAssumption
<1>2. CASE r.op = "set"
  <2>1. r \in [op : {"set"}, key : Keys, value : Values, nx : BOOLEAN, px : Nat]
    BY <1>1, <1>2 DEF Request
  <2>2. WholeMs(r.px) \in Nat
    <3>1. r.px \in Nat /\ TicksPerMs \in Nat \ {0}
      BY <2>1, KvAssumption
    <3>2. r.px \div TicksPerMs \in Nat
      BY <3>1
    <3> QED
      BY <3>1, <3>2 DEF WholeMs
  <2>3. Sent(r) = [r EXCEPT !.px = WholeMs(r.px)]
    BY <1>2 DEF Sent
  <2>4. Sent(r) = [op |-> r.op, key |-> r.key, value |-> r.value, nx |-> r.nx, px |-> WholeMs(r.px)]
    BY <2>1, <2>3
  <2> QED
    BY <1>1, <1>2, <2>1, <2>2, <2>4 DEF Request, UsesLocksProperly
<1>3. CASE r.op # "set"
  BY <1>1, <1>3 DEF Sent
<1> QED
  BY <1>2, <1>3

(* A call the thread takes is one its client may make.                     *)
LEMMA SendableIsRequest ==
  ASSUME NEW c \in Clients, NEW op \in Sendable[c]
  PROVE  op \in Request /\ UsesLocksProperly(c, op)
<1>1. PICK r \in Requests[c] : op = Sent(r)
  BY DEF Sendable
<1> QED
  BY <1>1, SentIsRequest

(* The thread takes the call of the client at the head of the queue, and   *)
(* what is left is still one message per call.                             *)
LEMMA TakenCall ==
  ASSUME IInv, NEW c \in Clients, NEW reply, Takes(c), Answers(c, reply)
  PROVE  /\ call[c] # NoCall
         /\ call[c] \in Request
         /\ call[c] \in Sendable[c]
         /\ UsesLocksProperly(c, call[c])
         /\ kv_rx' \in Seq(Clients)
         /\ OneMessagePerCall'
         /\ call' \in [Clients -> Request \cup {NoCall}]
         /\ CallsAreSent'
<1>0. kv_rx \in Seq(Clients) /\ call \in [Clients -> Request \cup {NoCall}] /\ OneMessagePerCall /\ CallsAreSent
  BY DEF IInv, TypeOK
<1>1. /\ kv_rx \in Seq(Clients) /\ kv_rx # <<>>
      /\ kv_rx' = Tail(kv_rx) /\ c = kv_rx[1]
      /\ call' = [call EXCEPT ![c] = NoCall]
  BY <1>0, HeadTailProperties DEF Takes, Answers
<1>2. /\ Len(kv_rx') \in Nat
      /\ Len(kv_rx') = Len(kv_rx) - 1
      /\ \A i \in 1..Len(kv_rx') : kv_rx'[i] = kv_rx[i + 1]
      /\ kv_rx' \in Seq(Clients)
  BY <1>0, <1>1, HeadTailProperties, LenProperties
<1>3. Len(kv_rx) \in Nat /\ Len(kv_rx) > 0
  BY <1>0, <1>1, LenProperties, EmptySeq
<1>4. call[c] # NoCall
  BY <1>0, <1>1, <1>3 DEF OneMessagePerCall
<1>5. call[c] \in Sendable[c]
  BY <1>0, <1>4 DEF CallsAreSent
<1>6. OneMessagePerCall'
  <2>1. ASSUME NEW i \in 1..Len(kv_rx') PROVE call'[kv_rx'[i]] # NoCall
    <3>1. /\ i + 1 \in 1..Len(kv_rx) /\ i + 1 # 1
          /\ 1 \in 1..Len(kv_rx)
      BY <1>2, <1>3
    <3>2. kv_rx'[i] = kv_rx[i + 1] /\ kv_rx[i + 1] # c /\ call[kv_rx[i + 1]] # NoCall
      BY <1>0, <1>1, <1>2, <3>1 DEF OneMessagePerCall
    <3>3. kv_rx[i + 1] \in Clients
      BY <1>1, <3>1, ElementOfSeq
    <3> QED
      BY <1>0, <1>1, <3>2, <3>3
  <2>2. ASSUME NEW i \in 1..Len(kv_rx'), NEW j \in 1..Len(kv_rx'), kv_rx'[i] = kv_rx'[j]
        PROVE  i = j
    <3>1. i + 1 \in 1..Len(kv_rx) /\ j + 1 \in 1..Len(kv_rx)
      BY <1>2, <1>3
    <3>2. i + 1 = j + 1
      BY <1>0, <1>2, <2>2, <3>1 DEF OneMessagePerCall
    <3> QED
      BY <3>2
  <2> QED
    BY <2>1, <2>2 DEF OneMessagePerCall
<1>7. call' \in [Clients -> Request \cup {NoCall}]
  BY <1>0, <1>1
<1>8. CallsAreSent'
  BY <1>0, <1>1 DEF CallsAreSent, Sendable
<1> QED
  BY <1>0, <1>2, <1>4, <1>5, <1>6, <1>7, <1>8, SendableIsRequest

-----------------------------------------------------------------------------
(* The invariant, one lemma for each action that changes more than a flag. *)

LEMMA InitIInv == Init => IInv
<1> SUFFICES ASSUME Init PROVE IInv
  OBVIOUS
<1>1. TypeOK
  BY KvAssumption DEF Init, TypeOK
<1>2. OneMessagePerCall /\ CallsAreSent /\ ReleaseGivesUpClaim
  BY DEF Init, OneMessagePerCall, CallsAreSent, ReleaseGivesUpClaim
<1>3. HolderKeepsLock
  BY <1>1, KvAssumption DEF Init, HolderKeepsLock, TypeOK
<1>4. NewSubscribers /\ SubscribersMissNothing /\ ReceiversLag
  BY DEF Init, NewSubscribers, SubscribersMissNothing, ReceiversLag
<1> QED
  BY <1>1, <1>2, <1>3, <1>4 DEF IInv

(* A new call joins the end of the queue; a release gives up the claim.    *)
LEMMA CallStep ==
  ASSUME IInv, NEW c \in Clients, NEW r \in Requests[c], Call(c, r)
  PROVE  IInv'
<1>1. /\ TypeOK /\ OneMessagePerCall /\ CallsAreSent
      /\ HolderKeepsLock /\ ReleaseGivesUpClaim
  BY DEF IInv
<1>2. /\ call[c] = NoCall
      /\ call' = [call EXCEPT ![c] = Sent(r)]
      /\ kv_rx' = Append(kv_rx, c)
      /\ UNCHANGED <<now, kv, channels, receiver, unread, published, seen, gone>>
  BY DEF Call, channelVars
<1>3. Sent(r) \in Request /\ Sent(r) \in Sendable[c] /\ Sent(r) # NoCall
  BY SentIsRequest, KvAssumption DEF Sendable
<1>4. /\ kv_rx \in Seq(Clients) /\ call \in [Clients -> Request \cup {NoCall}]
      /\ lease \in [Clients -> [LockKeys -> Nat]]
  BY <1>1 DEF TypeOK
<1>5. /\ lease' \in [Clients -> [LockKeys -> Nat]]
      /\ \A d \in Clients : \A k \in LockKeys : lease'[d][k] \in {lease[d][k], 0}
      /\ r.op = "delex" /\ r.key \in LockKeys => lease'[c][r.key] = 0
      /\ \A d \in Clients : \A k \in LockKeys : lease[d][k] = 0 => lease'[d][k] = 0
  BY <1>4 DEF Call
<1>6. TypeOK'
  <2>1. kv_rx' \in Seq(Clients)
    BY <1>2, <1>4, AppendProperties
  <2>2. answer' \in [Clients -> Values \cup {"ok", "already_exists", Absent}]
    BY <1>1 DEF TypeOK, Call
  <2> QED
    BY <1>1, <1>2, <1>3, <1>5, <2>1, <2>2 DEF TypeOK
<1>7. OneMessagePerCall'
  <2>1. /\ Len(kv_rx) \in Nat /\ Len(kv_rx') = Len(kv_rx) + 1
        /\ \A i \in 1..Len(kv_rx) : kv_rx'[i] = kv_rx[i]
        /\ kv_rx'[Len(kv_rx) + 1] = c
    BY <1>2, <1>4, AppendProperties, LenProperties
  <2>2. \A i \in 1..Len(kv_rx) : kv_rx[i] \in Clients /\ kv_rx[i] # c
    BY <1>1, <1>2, <1>4, ElementOfSeq DEF OneMessagePerCall
  <2>3. \A i \in 1..Len(kv_rx') : i \in 1..Len(kv_rx) \/ i = Len(kv_rx) + 1
    BY <2>1
  <2>4. \A i \in 1..Len(kv_rx') : call'[kv_rx'[i]] # NoCall
    BY <1>1, <1>2, <1>3, <1>4, <2>1, <2>2, <2>3 DEF OneMessagePerCall
  <2>5. \A i, j \in 1..Len(kv_rx') : kv_rx'[i] = kv_rx'[j] => i = j
    BY <1>1, <2>1, <2>2, <2>3 DEF OneMessagePerCall
  <2> QED
    BY <2>4, <2>5 DEF OneMessagePerCall
<1>8. CallsAreSent'
  BY <1>1, <1>2, <1>3, <1>4 DEF CallsAreSent, Sendable
<1>9. HolderKeepsLock'
  <2>1. now \in Nat
    BY <1>1, KvAssumption DEF TypeOK
  <2> QED
    BY <1>1, <1>2, <1>4, <1>5, <2>1 DEF HolderKeepsLock
<1>10. ReleaseGivesUpClaim'
  <2>1. ASSUME NEW d \in Clients, NEW k \in LockKeys,
               call'[d] # NoCall, call'[d].op = "delex", call'[d].key = k
        PROVE  lease'[d][k] = 0
    <3>1. CASE d = c
      <4>1. call'[d] = Sent(r)
        BY <1>2, <1>4, <3>1
      <4>2. Sent(r) = r
        BY <2>1, <4>1, SentIsRequest
      <4> QED
        BY <1>5, <2>1, <3>1, <4>1, <4>2
    <3>2. CASE d # c
      BY <1>1, <1>2, <1>4, <1>5, <2>1, <3>2 DEF ReleaseGivesUpClaim
    <3> QED
      BY <3>1, <3>2
  <2> QED
    BY <2>1 DEF ReleaseGivesUpClaim
<1>11. NewSubscribers'
  <2>1. ASSUME NEW d \in Clients, NEW ch \in Channels,
               call'[d] # NoCall, call'[d].op = "subscribe"
        PROVE  d \notin channels'[ch]
    <3>1. CASE d = c
      <4>1. r.op = "subscribe"
        BY <1>2, <1>4, <2>1, <3>1, SentIsRequest
      <4> QED
        BY <1>2, <3>1, <4>1 DEF Call
    <3>2. CASE d # c
      BY <1>2, <1>4, <2>1, <3>2 DEF IInv, NewSubscribers
    <3> QED
      BY <3>1, <3>2
  <2> QED
    BY <2>1 DEF NewSubscribers
<1>12. SubscribersMissNothing' /\ ReceiversLag'
  BY <1>2 DEF IInv, SubscribersMissNothing, ReceiversLag
<1> QED
  BY <1>6, <1>7, <1>8, <1>9, <1>10, <1>11, <1>12 DEF IInv

(* What every step of the thread does to the calls and to the channels it  *)
(* leaves alone.                                                           *)
LEMMA HandledCall ==
  ASSUME IInv, NEW c \in Clients, NEW reply \in Values \cup {"ok", "already_exists", Absent},
         Takes(c), Answers(c, reply)
  PROVE  /\ now' = now /\ gone' = gone
         /\ answer' \in [Clients -> Values \cup {"ok", "already_exists", Absent}]
         /\ call' = [call EXCEPT ![c] = NoCall]
         /\ UNCHANGED channelVars => NewSubscribers' /\ SubscribersMissNothing' /\ ReceiversLag'
         /\ UNCHANGED lease => ReleaseGivesUpClaim'
<1>1. /\ now' = now /\ gone' = gone
      /\ answer' \in [Clients -> Values \cup {"ok", "already_exists", Absent}]
      /\ call' = [call EXCEPT ![c] = NoCall]
  BY DEF IInv, TypeOK, Answers
<1>2. call \in [Clients -> Request \cup {NoCall}]
  BY DEF IInv, TypeOK
<1>3. ASSUME UNCHANGED channelVars
      PROVE  NewSubscribers' /\ SubscribersMissNothing' /\ ReceiversLag'
  <2>1. NewSubscribers'
    BY <1>1, <1>2, <1>3 DEF IInv, NewSubscribers, channelVars
  <2>2. SubscribersMissNothing' /\ ReceiversLag'
    BY <1>3 DEF IInv, SubscribersMissNothing, ReceiversLag, channelVars
  <2> QED
    BY <2>1, <2>2
<1>4. ASSUME UNCHANGED lease PROVE ReleaseGivesUpClaim'
  BY <1>1, <1>2, <1>4 DEF IInv, ReleaseGivesUpClaim
<1> QED
  BY <1>1, <1>3, <1>4

(* A lock granted to one client is claimed by nobody else: nx finds the    *)
(* entry of a holder, and a holder's entry is present.                     *)
LEMMA SetStep ==
  ASSUME IInv, NEW c \in Clients, Set(c)
  PROVE  IInv'
<1> DEFINE op == call[c]
<1>1. /\ Takes(c) /\ op.op = "set" /\ UNCHANGED channelVars
      /\ \/ Answers(c, "already_exists") /\ UNCHANGED storeVars
         \/ /\ ~(op.nx /\ Present(op.key))
            /\ kv' = [kv EXCEPT ![op.key] = [value |-> op.value, until |-> ExpiresAt(op.px)]]
            /\ lease' = Granted(c, op)
            /\ Answers(c, "ok")
  BY DEF Set
<1>2. PICK reply \in {"ok", "already_exists"} : Answers(c, reply)
  BY <1>1
<1>3. /\ call[c] # NoCall /\ op \in Request /\ UsesLocksProperly(c, op)
      /\ kv_rx' \in Seq(Clients) /\ OneMessagePerCall'
      /\ call' \in [Clients -> Request \cup {NoCall}] /\ CallsAreSent'
  BY <1>1, <1>2, TakenCall
<1>4. /\ now' = now /\ gone' = gone
      /\ answer' \in [Clients -> Values \cup {"ok", "already_exists", Absent}]
      /\ call' = [call EXCEPT ![c] = NoCall]
      /\ NewSubscribers' /\ SubscribersMissNothing' /\ ReceiversLag'
      /\ UNCHANGED lease => ReleaseGivesUpClaim'
  BY <1>1, <1>2, HandledCall
<1>5. /\ op.key \in Keys /\ op.value \in Values /\ op.nx \in BOOLEAN /\ op.px \in Nat
      /\ op.key \in LockKeys => op.nx /\ op.value = c
  BY <1>1, <1>3 DEF Request, UsesLocksProperly
<1>6. /\ now \in Nat /\ kv \in [Keys -> Entry \cup {Absent}]
      /\ lease \in [Clients -> [LockKeys -> Nat]]
      /\ call \in [Clients -> Request \cup {NoCall}]
      /\ LockKeys \subseteq Keys
  BY KvAssumption DEF IInv, TypeOK
<1>7. ExpiresAt(op.px) \in Nat
  BY <1>5, <1>6, KvAssumption DEF ExpiresAt
<1> HIDE DEF op
<1>8. TypeOK'
  <2>1. kv' \in [Keys -> Entry \cup {Absent}] /\ lease' \in [Clients -> [LockKeys -> Nat]]
    BY <1>1, <1>5, <1>6, <1>7, SMTT(30) DEF Entry, Granted, storeVars
  <2> QED
    BY <1>1, <1>3, <1>4, <2>1 DEF IInv, TypeOK, channelVars
<1>9. CASE UNCHANGED storeVars
  <2>1. HolderKeepsLock' /\ ReleaseGivesUpClaim'
    BY <1>4, <1>9 DEF IInv, HolderKeepsLock, storeVars
  <2> QED
    BY <1>3, <1>4, <1>8, <2>1 DEF IInv
<1>10. CASE /\ ~(op.nx /\ Present(op.key))
            /\ kv' = [kv EXCEPT ![op.key] = [value |-> op.value, until |-> ExpiresAt(op.px)]]
            /\ lease' = Granted(c, op)
  <2>1. HolderKeepsLock'
    <3>1. ASSUME NEW d \in Clients, NEW k \in LockKeys, lease'[d][k] > now'
          PROVE  kv'[k] # Absent /\ kv'[k] = [value |-> d, until |-> lease'[d][k]]
      <4>1. CASE k # op.key
        <5>1. lease'[d][k] = lease[d][k] /\ kv'[k] = kv[k]
          BY <1>5, <1>6, <1>10, <4>1 DEF Granted
        <5> QED
          BY <1>4, <3>1, <5>1 DEF IInv, HolderKeepsLock
      <4>2. CASE k = op.key /\ d = c
        <5>1. lease'[d][k] = ExpiresAt(op.px)
          BY <1>6, <1>10, <4>2 DEF Granted
        <5>2. kv'[k] = [value |-> d, until |-> lease'[d][k]]
          BY <1>5, <1>6, <1>10, <4>2, <5>1
        <5>3. kv'[k] # Absent
          BY <1>5, <1>7, <4>2, <5>1, <5>2, KvAssumption
        <5> QED
          BY <5>2, <5>3
      <4>3. CASE k = op.key /\ d # c
        <5>1. lease[d][k] > now
          BY <1>4, <1>6, <1>10, <3>1, <4>3 DEF Granted
        <5>2. kv[k] # Absent /\ kv[k] = [value |-> d, until |-> lease[d][k]]
          BY <5>1 DEF IInv, HolderKeepsLock
        <5>3. kv[k].until = lease[d][k]
          BY <5>2
        <5> QED
          BY <1>5, <1>10, <4>3, <5>1, <5>2, <5>3 DEF Present
      <4> QED
        BY <4>1, <4>2, <4>3
    <3> QED
      BY <3>1 DEF HolderKeepsLock
  <2>2. ReleaseGivesUpClaim'
    <3>1. ASSUME NEW d \in Clients, NEW k \in LockKeys,
                 call'[d] # NoCall, call'[d].op = "delex", call'[d].key = k
          PROVE  lease'[d][k] = 0
      <4>1. d # c /\ call'[d] = call[d]
        BY <1>4, <1>6, <3>1
      <4>2. lease'[d][k] = lease[d][k]
        BY <1>6, <1>10, <4>1 DEF Granted
      <4> QED
        BY <3>1, <4>1, <4>2 DEF IInv, ReleaseGivesUpClaim
    <3> QED
      BY <3>1 DEF ReleaseGivesUpClaim
  <2> QED
    BY <1>3, <1>4, <1>8, <2>1, <2>2 DEF IInv
<1> QED
  BY <1>1, <1>9, <1>10

(* Only the claim of the releasing client could end, and it has none left. *)
LEMMA DelexStep ==
  ASSUME IInv, NEW c \in Clients, Delex(c)
  PROVE  IInv'
<1> DEFINE k0 == call[c].key
<1>1. /\ Takes(c) /\ call[c].op = "delex" /\ Answers(c, "ok")
      /\ UNCHANGED lease /\ UNCHANGED channelVars
      /\ kv' = IF kv[k0] # Absent /\ kv[k0].value = call[c].ifeq
                 THEN [kv EXCEPT ![k0] = Absent] ELSE kv
  BY DEF Delex
<1>2. /\ call[c] # NoCall /\ call[c] \in Request /\ UsesLocksProperly(c, call[c])
      /\ kv_rx' \in Seq(Clients) /\ OneMessagePerCall'
      /\ call' \in [Clients -> Request \cup {NoCall}] /\ CallsAreSent'
  BY <1>1, TakenCall
<1>3. /\ now' = now /\ gone' = gone
      /\ answer' \in [Clients -> Values \cup {"ok", "already_exists", Absent}]
      /\ NewSubscribers' /\ SubscribersMissNothing' /\ ReceiversLag' /\ ReleaseGivesUpClaim'
  BY <1>1, HandledCall
<1>4. k0 \in Keys /\ (k0 \in LockKeys => call[c].ifeq = c)
  BY <1>1, <1>2 DEF Request, UsesLocksProperly
<1>5. /\ kv \in [Keys -> Entry \cup {Absent}] /\ now \in Nat
      /\ LockKeys \subseteq Keys
  BY KvAssumption DEF IInv, TypeOK
<1>6. TypeOK'
  <2>1. kv' \in [Keys -> Entry \cup {Absent}]
    BY <1>1, <1>4, <1>5
  <2> QED
    BY <1>1, <1>2, <1>3, <2>1 DEF IInv, TypeOK, channelVars
<1>7. HolderKeepsLock'
  <2>1. ASSUME NEW d \in Clients, NEW k \in LockKeys, lease'[d][k] > now'
        PROVE  kv'[k] # Absent /\ kv'[k] = [value |-> d, until |-> lease'[d][k]]
    <3>1. lease[d][k] > now /\ lease'[d][k] = lease[d][k]
      BY <1>1, <1>3, <2>1
    <3>2. kv[k] # Absent /\ kv[k] = [value |-> d, until |-> lease[d][k]]
      BY <3>1 DEF IInv, HolderKeepsLock
    <3>3. kv'[k] = kv[k]
      <4>1. CASE k # k0
        BY <1>1, <1>4, <1>5, <4>1
      <4>2. CASE k = k0
        <5>1. lease[c][k] = 0
          BY <1>1, <1>2, <4>2 DEF IInv, ReleaseGivesUpClaim
        <5>2. d # c
          BY <1>5, <3>1, <5>1
        <5>3. kv[k0].value # call[c].ifeq
          BY <1>4, <3>2, <4>2, <5>2
        <5> QED
          BY <1>1, <5>3
      <4> QED
        BY <4>1, <4>2
    <3> QED
      BY <3>1, <3>2, <3>3
  <2> QED
    BY <2>1 DEF HolderKeepsLock
<1> QED
  BY <1>2, <1>3, <1>6, <1>7 DEF IInv

LEMMA GetStep ==
  ASSUME IInv, NEW c \in Clients, Get(c)
  PROVE  IInv'
<1> DEFINE reply == IF Present(call[c].key) THEN kv[call[c].key].value ELSE Absent
<1>1. /\ Takes(c) /\ call[c].op = "get" /\ Answers(c, reply)
      /\ UNCHANGED <<kv, lease>> /\ UNCHANGED channelVars
  BY DEF Get, storeVars
<1>2. /\ call[c] \in Request
      /\ kv_rx' \in Seq(Clients) /\ OneMessagePerCall'
      /\ call' \in [Clients -> Request \cup {NoCall}] /\ CallsAreSent'
  BY <1>1, TakenCall
<1>3. call[c].key \in Keys
  BY <1>1, <1>2 DEF Request
<1>4. reply \in Values \cup {"ok", "already_exists", Absent}
  BY <1>3 DEF IInv, TypeOK, Present, Entry
<1> HIDE DEF reply
<1>5. /\ now' = now /\ gone' = gone
      /\ answer' \in [Clients -> Values \cup {"ok", "already_exists", Absent}]
      /\ NewSubscribers' /\ SubscribersMissNothing' /\ ReceiversLag' /\ ReleaseGivesUpClaim'
  BY <1>1, <1>4, HandledCall
<1>6. TypeOK' /\ HolderKeepsLock'
  BY <1>1, <1>2, <1>5 DEF IInv, TypeOK, HolderKeepsLock, channelVars
<1> QED
  BY <1>2, <1>5, <1>6 DEF IInv

-----------------------------------------------------------------------------
(* Nothing is behind the last message.                                     *)
LEMMA NoMessagesAfter ==
  ASSUME NEW n \in Nat
  PROVE  MessagesAfter(n, n) = <<>>
<1>1. 1..(n - n) = {}
  OBVIOUS
<1> QED
  BY <1>1 DEF MessagesAfter

(* A new receiver starts empty, at the last message of its channel.        *)
LEMMA SubscribeStep ==
  ASSUME IInv, NEW c \in Clients, Subscribe(c)
  PROVE  IInv'
<1> DEFINE ch0 == call[c].channel
<1>1. /\ Takes(c) /\ call[c].op = "subscribe" /\ Answers(c, "ok")
      /\ UNCHANGED <<kv, lease, unread, published>>
      /\ channels' = [channels EXCEPT ![ch0] = @ \cup {c}]
      /\ receiver' = [receiver EXCEPT ![c] = ch0]
      /\ seen' = [seen EXCEPT ![c] = published[ch0]]
  BY DEF Subscribe, storeVars
<1>2. /\ call[c] # NoCall /\ call[c] \in Request
      /\ kv_rx' \in Seq(Clients) /\ OneMessagePerCall'
      /\ call' \in [Clients -> Request \cup {NoCall}] /\ CallsAreSent'
  BY <1>1, TakenCall
<1>3. /\ now' = now /\ gone' = gone
      /\ answer' \in [Clients -> Values \cup {"ok", "already_exists", Absent}]
      /\ call' = [call EXCEPT ![c] = NoCall] /\ ReleaseGivesUpClaim'
  BY <1>1, HandledCall
<1>4. ch0 \in Channels /\ ch0 # NoChannel
  BY <1>1, <1>2, KvAssumption DEF Request
<1>5. /\ channels \in [Channels -> SUBSET Clients]
      /\ receiver \in [Clients -> Channels \cup {NoChannel}]
      /\ unread \in [Clients -> Seq(Nat)] /\ seen \in [Clients -> Nat]
      /\ published \in [Channels -> Nat] /\ call \in [Clients -> Request \cup {NoCall}]
  BY DEF IInv, TypeOK
<1> HIDE DEF ch0
<1>6. TypeOK'
  <2>1. /\ channels' \in [Channels -> SUBSET Clients]
        /\ receiver' \in [Clients -> Channels \cup {NoChannel}]
        /\ seen' \in [Clients -> Nat]
    BY <1>1, <1>4, <1>5
  <2> QED
    BY <1>1, <1>2, <1>3, <2>1 DEF IInv, TypeOK
<1>7. HolderKeepsLock'
  BY <1>1, <1>3 DEF IInv, HolderKeepsLock
<1>8. receiver[c] = NoChannel /\ unread[c] = <<>>
  <2>1. \A ch \in Channels : c \notin channels[ch]
    BY <1>1, <1>2 DEF IInv, NewSubscribers
  <2>2. receiver[c] = NoChannel
    BY <1>5, <2>1 DEF IInv, SubscribersMissNothing
  <2> QED
    BY <2>2 DEF IInv, ReceiversLag
<1>9. NewSubscribers'
  BY <1>1, <1>3, <1>4, <1>5 DEF IInv, NewSubscribers
<1>10. ASSUME NEW d \in Clients, receiver'[d] # NoChannel
       PROVE  /\ d \in channels'[receiver'[d]]
              /\ seen'[d] <= published'[receiver'[d]]
              /\ unread'[d] = MessagesAfter(seen'[d], published'[receiver'[d]])
  <2>1. CASE d = c
    <3>1. receiver'[d] = ch0 /\ seen'[d] = published[ch0] /\ published[ch0] \in Nat
      BY <1>1, <1>4, <1>5, <2>1
    <3>2. d \in channels'[ch0]
      BY <1>1, <1>4, <1>5, <2>1
    <3>3. unread'[d] = <<>> /\ published' = published
      BY <1>1, <1>8, <2>1
    <3>4. MessagesAfter(published[ch0], published[ch0]) = <<>>
      BY <3>1, NoMessagesAfter
    <3> QED
      BY <3>1, <3>2, <3>3, <3>4
  <2>2. CASE d # c
    <3>1. receiver'[d] = receiver[d] /\ seen'[d] = seen[d] /\ receiver[d] \in Channels
      BY <1>1, <1>5, <1>10, <2>2
    <3>2. channels[receiver[d]] \subseteq channels'[receiver[d]]
      BY <1>1, <1>4, <1>5, <3>1
    <3> QED
      BY <1>1, <1>10, <3>1, <3>2 DEF IInv, SubscribersMissNothing, ReceiversLag
  <2> QED
    BY <2>1, <2>2
<1>11. ASSUME NEW d \in Clients, receiver'[d] = NoChannel PROVE unread'[d] = <<>>
  BY <1>1, <1>4, <1>5, <1>11 DEF IInv, ReceiversLag
<1>12. SubscribersMissNothing'
  BY <1>10 DEF SubscribersMissNothing
<1>13. ReceiversLag'
  BY <1>10, <1>11 DEF ReceiversLag
<1> QED
  BY <1>2, <1>3, <1>6, <1>7, <1>9, <1>12, <1>13 DEF IInv

(* The messages behind a position, with one more.                          *)
LEMMA AppendToRange ==
  ASSUME NEW a \in Nat, NEW n \in Nat, a <= n
  PROVE  Append(MessagesAfter(a, n), n + 1) = MessagesAfter(a, n + 1)
<1> DEFINE s == [i \in 1..(n - a) |-> a + i]
           t == [i \in 1..(n + 1 - a) |-> a + i]
<1>1. n - a \in Nat /\ n + 1 - a = (n - a) + 1
  OBVIOUS
<1>2. s \in Seq(Nat) /\ Len(s) = n - a
  BY <1>1
<1>3. t \in Seq(Nat) /\ Len(t) = (n - a) + 1
  BY <1>1
<1>4. /\ Append(s, n + 1) \in Seq(Nat) /\ Len(Append(s, n + 1)) = (n - a) + 1
      /\ \A i \in 1..(n - a) : Append(s, n + 1)[i] = s[i]
      /\ Append(s, n + 1)[(n - a) + 1] = n + 1
  BY <1>2, AppendProperties
<1>5. ASSUME NEW i \in 1..((n - a) + 1) PROVE Append(s, n + 1)[i] = t[i]
  <2>1. CASE i \in 1..(n - a)
    BY <1>1, <1>4, <2>1
  <2>2. CASE i = (n - a) + 1
    BY <1>1, <1>4, <2>2
  <2> QED
    BY <1>1, <2>1, <2>2
<1> HIDE DEF s, t
<1>6. Append(s, n + 1) = t
  BY <1>3, <1>4, <1>5, SeqEqual
<1> QED
  BY <1>6 DEF s, t, MessagesAfter

(* The messages behind a position, without the first.                      *)
LEMMA TailOfRange ==
  ASSUME NEW a \in Nat, NEW n \in Nat, a < n
  PROVE  /\ Head(MessagesAfter(a, n)) = a + 1
         /\ Tail(MessagesAfter(a, n)) = MessagesAfter(a + 1, n)
<1> DEFINE s == [i \in 1..(n - a) |-> a + i]
           t == [i \in 1..(n - (a + 1)) |-> (a + 1) + i]
<1>1. n - a \in Nat /\ n - a > 0 /\ n - (a + 1) = (n - a) - 1 /\ (n - a) - 1 \in Nat
  OBVIOUS
<1>2. s \in Seq(Nat) /\ Len(s) = n - a
  BY <1>1
<1>3. t \in Seq(Nat) /\ Len(t) = (n - a) - 1
  BY <1>1
<1>4. s # <<>> /\ s[1] = a + 1
  <2>1. 1 \in 1..(n - a)
    BY <1>1
  <2>2. s # <<>>
    BY <1>1, <1>2, EmptySeq, LenProperties
  <2> QED
    BY <2>1, <2>2
<1>0. /\ \A i \in 1..(n - a) : s[i] = a + i
      /\ \A i \in 1..((n - a) - 1) : t[i] = (a + 1) + i
  BY <1>1
<1> HIDE DEF s, t
<1>5. /\ Head(s) = s[1] /\ Tail(s) \in Seq(Nat) /\ Len(Tail(s)) = (n - a) - 1
      /\ \A i \in 1..((n - a) - 1) : Tail(s)[i] = s[i + 1]
  BY <1>2, <1>4, HeadTailProperties
<1>6. ASSUME NEW i \in 1..((n - a) - 1) PROVE Tail(s)[i] = t[i]
  <2>1. i + 1 \in 1..(n - a)
    BY <1>1
  <2>2. s[i + 1] = a + (i + 1) /\ t[i] = (a + 1) + i
    BY <1>0, <2>1
  <2> QED
    BY <1>5, <2>2
<1>7. Tail(s) = t
  BY <1>3, <1>5, <1>6, SeqEqual
<1> QED
  BY <1>4, <1>5, <1>7 DEF s, t, MessagesAfter

(* A publish appends the message to every open receiver of the channel, and *)
(* forgets only senders whose receiver is closed.                          *)
LEMMA PublishStep ==
  ASSUME IInv, NEW c \in Clients, Publish(c)
  PROVE  IInv'
<1> DEFINE ch0 == call[c].channel
<1>1. /\ Takes(c) /\ call[c].op = "publish" /\ Answers(c, "ok")
      /\ UNCHANGED <<kv, lease, receiver, seen>>
      /\ published' = [published EXCEPT ![ch0] = @ + 1]
      /\ unread' = [d \in Clients |-> IF d \in Open(ch0)
                      THEN Append(unread[d], published[ch0] + 1) ELSE unread[d]]
      /\ channels' = [channels EXCEPT ![ch0] = Open(ch0)]
  BY DEF Publish, storeVars
<1>2. /\ call[c] # NoCall /\ call[c] \in Request
      /\ kv_rx' \in Seq(Clients) /\ OneMessagePerCall'
      /\ call' \in [Clients -> Request \cup {NoCall}] /\ CallsAreSent'
  BY <1>1, TakenCall
<1>3. /\ now' = now /\ gone' = gone
      /\ answer' \in [Clients -> Values \cup {"ok", "already_exists", Absent}]
      /\ call' = [call EXCEPT ![c] = NoCall] /\ ReleaseGivesUpClaim'
  BY <1>1, HandledCall
<1>4. ch0 \in Channels /\ ch0 # NoChannel
  BY <1>1, <1>2, KvAssumption DEF Request
<1>5. /\ channels \in [Channels -> SUBSET Clients]
      /\ receiver \in [Clients -> Channels \cup {NoChannel}]
      /\ unread \in [Clients -> Seq(Nat)] /\ seen \in [Clients -> Nat]
      /\ published \in [Channels -> Nat] /\ call \in [Clients -> Request \cup {NoCall}]
  BY DEF IInv, TypeOK
<1> HIDE DEF ch0
<1>6. Open(ch0) \subseteq channels[ch0] /\ channels[ch0] \subseteq Clients
  BY <1>4, <1>5 DEF Open
<1>7. TypeOK'
  <2>1. /\ channels' \in [Channels -> SUBSET Clients]
        /\ published' \in [Channels -> Nat]
    BY <1>1, <1>4, <1>5, <1>6
  <2>2. ASSUME NEW d \in Clients PROVE Append(unread[d], published[ch0] + 1) \in Seq(Nat)
    <3>1. unread[d] \in Seq(Nat) /\ published[ch0] + 1 \in Nat
      BY <1>4, <1>5
    <3> QED
      BY <3>1, AppendProperties
  <2>3. unread' \in [Clients -> Seq(Nat)]
    BY <1>1, <1>5, <2>2
  <2> QED
    BY <1>1, <1>2, <1>3, <2>1, <2>3 DEF IInv, TypeOK
<1>8. HolderKeepsLock'
  BY <1>1, <1>3 DEF IInv, HolderKeepsLock
<1>9. NewSubscribers'
  BY <1>1, <1>3, <1>4, <1>5, <1>6 DEF IInv, NewSubscribers
<1>10. ASSUME NEW d \in Clients, receiver[d] # NoChannel
       PROVE  /\ d \in channels'[receiver[d]]
              /\ seen[d] <= published'[receiver[d]]
              /\ unread'[d] = MessagesAfter(seen[d], published'[receiver[d]])
  <2>1. /\ receiver[d] \in Channels /\ d \in channels[receiver[d]]
        /\ seen[d] \in Nat /\ published[receiver[d]] \in Nat
        /\ seen[d] <= published[receiver[d]]
        /\ unread[d] = MessagesAfter(seen[d], published[receiver[d]])
    BY <1>5, <1>10 DEF IInv, SubscribersMissNothing, ReceiversLag
  <2>2. CASE receiver[d] = ch0
    <3>1. d \in Open(ch0)
      BY <2>1, <2>2 DEF Open
    <3>2. published'[ch0] = published[ch0] + 1 /\ channels'[ch0] = Open(ch0)
      BY <1>1, <1>4, <1>5
    <3>3. unread'[d] = Append(unread[d], published[ch0] + 1)
      BY <1>1, <3>1
    <3>4. unread'[d] = MessagesAfter(seen[d], published[ch0] + 1)
      <4>1. /\ seen[d] \in Nat /\ published[ch0] \in Nat /\ seen[d] <= published[ch0]
            /\ unread[d] = MessagesAfter(seen[d], published[ch0])
        BY <2>1, <2>2
      <4>2. Append(MessagesAfter(seen[d], published[ch0]), published[ch0] + 1)
              = MessagesAfter(seen[d], published[ch0] + 1)
        BY <4>1, AppendToRange
      <4> QED
        BY <3>3, <4>1, <4>2
    <3>5. seen[d] <= published[ch0] + 1
      <4>1. seen[d] \in Nat /\ published[ch0] \in Nat /\ seen[d] <= published[ch0]
        BY <2>1, <2>2
      <4> QED
        BY <4>1
    <3>6. published'[receiver[d]] = published[ch0] + 1 /\ channels'[receiver[d]] = Open(ch0)
      BY <2>2, <3>2
    <3> QED
      BY <3>1, <3>4, <3>5, <3>6
  <2>3. CASE receiver[d] # ch0
    <3>1. d \notin Open(ch0)
      BY <2>3 DEF Open
    <3>2. unread'[d] = unread[d]
      BY <1>1, <3>1
    <3>3. published'[receiver[d]] = published[receiver[d]] /\ channels'[receiver[d]] = channels[receiver[d]]
      BY <1>1, <1>5, <2>1, <2>3
    <3> QED
      BY <2>1, <3>2, <3>3
  <2> QED
    BY <2>2, <2>3
<1>11. ASSUME NEW d \in Clients, receiver[d] = NoChannel PROVE unread'[d] = <<>>
  <2>1. d \notin Open(ch0)
    BY <1>4, <1>11 DEF Open
  <2> QED
    BY <1>1, <1>11, <2>1 DEF IInv, ReceiversLag
<1>12. receiver' = receiver /\ seen' = seen
  BY <1>1
<1>13. SubscribersMissNothing'
  BY <1>10, <1>12 DEF SubscribersMissNothing
<1>14. ReceiversLag'
  BY <1>10, <1>11, <1>12 DEF ReceiversLag
<1> QED
  BY <1>2, <1>3, <1>7, <1>8, <1>9, <1>13, <1>14 DEF IInv

(* The position of a receiver moves to the message it takes.               *)
LEMMA ReceiveStep ==
  ASSUME IInv, NEW c \in Clients, Receive(c)
  PROVE  IInv'
<1>1. /\ unread[c] # <<>>
      /\ seen' = [seen EXCEPT ![c] = Head(unread[c])]
      /\ unread' = [unread EXCEPT ![c] = Tail(@)]
      /\ UNCHANGED <<now, kv, lease, kv_rx, call, answer, gone, channels, receiver, published>>
  BY DEF Receive, storeVars, callVars
<1>2. /\ receiver \in [Clients -> Channels \cup {NoChannel}]
      /\ unread \in [Clients -> Seq(Nat)] /\ seen \in [Clients -> Nat]
      /\ published \in [Channels -> Nat]
  BY DEF IInv, TypeOK
<1>3. receiver[c] # NoChannel
  BY <1>1 DEF IInv, ReceiversLag
<1> DEFINE n == published[receiver[c]]
<1>4. /\ n \in Nat /\ seen[c] \in Nat /\ seen[c] <= n
      /\ unread[c] = MessagesAfter(seen[c], n)
  BY <1>2, <1>3 DEF IInv, SubscribersMissNothing, ReceiversLag
<1>5. seen[c] < n
  <2>1. CASE seen[c] = n
    <3>1. unread[c] = <<>>
      BY <1>4, <2>1, NoMessagesAfter
    <3> QED
      BY <1>1, <3>1
  <2> QED
    BY <1>4, <2>1
<1> HIDE DEF n
<1>6. /\ Head(unread[c]) = seen[c] + 1
      /\ Tail(unread[c]) = MessagesAfter(seen[c] + 1, n)
  BY <1>4, <1>5, TailOfRange
<1>7. /\ seen'[c] = seen[c] + 1
      /\ unread'[c] = MessagesAfter(seen[c] + 1, n)
      /\ \A d \in Clients : d # c => seen'[d] = seen[d] /\ unread'[d] = unread[d]
  BY <1>1, <1>2, <1>6
<1>8. TypeOK'
  <2>1. seen' \in [Clients -> Nat]
    BY <1>1, <1>2, <1>4, <1>6
  <2>2. Tail(unread[c]) \in Seq(Nat)
    BY <1>1, <1>2, HeadTailProperties
  <2>3. unread' \in [Clients -> Seq(Nat)]
    BY <1>1, <1>2, <2>2
  <2> QED
    BY <1>1, <2>1, <2>3 DEF IInv, TypeOK
<1>9. /\ OneMessagePerCall' /\ CallsAreSent' /\ HolderKeepsLock'
      /\ ReleaseGivesUpClaim' /\ NewSubscribers'
  BY <1>1 DEF IInv, OneMessagePerCall, CallsAreSent, Sendable, HolderKeepsLock,
              ReleaseGivesUpClaim, NewSubscribers
<1>10. SubscribersMissNothing'
  <2>1. ASSUME NEW d \in Clients, receiver'[d] # NoChannel
        PROVE  /\ d \in channels'[receiver'[d]]
               /\ unread'[d] = MessagesAfter(seen'[d], published'[receiver'[d]])
    <3>1. /\ receiver' = receiver /\ channels' = channels /\ published' = published
          /\ d \in channels[receiver[d]]
      BY <1>1, <2>1 DEF IInv, SubscribersMissNothing
    <3>2. CASE d = c
      BY <1>7, <3>1, <3>2 DEF n
    <3>3. CASE d # c
      BY <1>7, <2>1, <3>1, <3>3 DEF IInv, SubscribersMissNothing
    <3> QED
      BY <3>2, <3>3
  <2> QED
    BY <2>1 DEF SubscribersMissNothing
<1>11. ReceiversLag'
  <2>1. seen[c] + 1 <= n
    BY <1>4, <1>5
  <2> QED
    BY <1>1, <1>3, <1>7, <2>1 DEF IInv, ReceiversLag, n
<1> QED
  BY <1>8, <1>9, <1>10, <1>11 DEF IInv

LEMMA CloseStep ==
  ASSUME IInv, NEW c \in Clients, Close(c)
  PROVE  IInv'
<1>1. /\ receiver' = [receiver EXCEPT ![c] = NoChannel]
      /\ unread' = [unread EXCEPT ![c] = <<>>]
      /\ UNCHANGED <<now, kv, lease, kv_rx, call, answer, gone, channels, published, seen>>
  BY DEF Close, storeVars, callVars
<1>2. /\ receiver \in [Clients -> Channels \cup {NoChannel}]
      /\ unread \in [Clients -> Seq(Nat)]
  BY DEF IInv, TypeOK
<1>3. TypeOK'
  <2>1. /\ receiver' \in [Clients -> Channels \cup {NoChannel}]
        /\ unread' \in [Clients -> Seq(Nat)]
    BY <1>1, <1>2
  <2> QED
    BY <1>1, <2>1 DEF IInv, TypeOK
<1>4. /\ OneMessagePerCall' /\ CallsAreSent' /\ HolderKeepsLock'
      /\ ReleaseGivesUpClaim' /\ NewSubscribers'
  BY <1>1 DEF IInv, OneMessagePerCall, CallsAreSent, Sendable, HolderKeepsLock,
              ReleaseGivesUpClaim, NewSubscribers
<1>5. SubscribersMissNothing' /\ ReceiversLag'
  BY <1>1, <1>2 DEF IInv, SubscribersMissNothing, ReceiversLag
<1> QED
  BY <1>3, <1>4, <1>5 DEF IInv

-----------------------------------------------------------------------------
LEMMA Invariance == IInv /\ [Next]_vars => IInv'
<1> SUFFICES ASSUME IInv, [Next]_vars PROVE IInv'
  OBVIOUS
<1>1. CASE Tick
  <2>1. /\ now \in Nat /\ now' = now + 1 /\ now' \in 0..MaxTime
        /\ UNCHANGED <<kv, lease, channels, receiver, unread, published, seen,
                      kv_rx, call, answer, gone>>
    BY <1>1, KvAssumption DEF IInv, TypeOK, Tick, storeVars, channelVars, callVars
  <2>2. TypeOK'
    BY <2>1 DEF IInv, TypeOK
  <2>3. HolderKeepsLock'
    <3>1. lease \in [Clients -> [LockKeys -> Nat]]
      BY DEF IInv, TypeOK
    <3>2. \A c \in Clients : \A k \in LockKeys : lease[c][k] > now' => lease[c][k] > now
      BY <2>1, <3>1
    <3> QED
      BY <2>1, <3>2 DEF IInv, HolderKeepsLock
  <2>4. /\ OneMessagePerCall' /\ CallsAreSent' /\ ReleaseGivesUpClaim'
        /\ NewSubscribers' /\ SubscribersMissNothing' /\ ReceiversLag'
    BY <2>1 DEF IInv, OneMessagePerCall, CallsAreSent, Sendable, ReleaseGivesUpClaim,
                NewSubscribers, SubscribersMissNothing, ReceiversLag
  <2> QED
    BY <2>2, <2>3, <2>4 DEF IInv
<1>2. CASE \E c \in Clients : \E r \in Requests[c] : Call(c, r)
  BY <1>2, CallStep
<1>3. CASE (\E c \in Clients : GiveUp(c)) \/ UNCHANGED vars
  <2>1. /\ UNCHANGED <<now, kv, lease, channels, receiver, unread, published, seen,
                      kv_rx, call, answer>>
        /\ gone' \subseteq Clients
    BY <1>3 DEF IInv, TypeOK, GiveUp, vars, storeVars, channelVars, callVars
  <2>2. TypeOK' /\ HolderKeepsLock'
    BY <2>1 DEF IInv, TypeOK, HolderKeepsLock
  <2>3. /\ OneMessagePerCall' /\ CallsAreSent' /\ ReleaseGivesUpClaim'
        /\ NewSubscribers' /\ SubscribersMissNothing' /\ ReceiversLag'
    BY <2>1 DEF IInv, OneMessagePerCall, CallsAreSent, Sendable, ReleaseGivesUpClaim,
                NewSubscribers, SubscribersMissNothing, ReceiversLag
  <2> QED
    BY <2>2, <2>3 DEF IInv
<1>4. CASE \E c \in Clients : Handle(c)
  BY <1>4, SetStep, GetStep, DelexStep, SubscribeStep, PublishStep DEF Handle
<1>5. CASE \E c \in Clients : Receive(c) \/ Close(c)
  BY <1>5, ReceiveStep, CloseStep
<1> QED
  BY <1>1, <1>2, <1>3, <1>4, <1>5 DEF Next

THEOREM KvInvariant == Spec => []IInv
<1>1. Init => IInv
  BY InitIInv
<1>2. IInv /\ [Next]_vars => IInv'
  BY Invariance
<1> QED
  BY <1>1, <1>2, PTL DEF Spec

(* The state of the thread and of its clients is well typed.               *)
THEOREM KvTypeCorrect == Spec => []TypeOK
<1>1. IInv => TypeOK
  BY DEF IInv
<1> QED
  BY <1>1, KvInvariant, PTL

(* Whatever the clients do and however late a release arrives, a client    *)
(* that was granted a lock (set nx px) keeps it until its lease is over.   *)
THEOREM LockIsHeld == Spec => []HolderKeepsLock
<1>1. IInv => HolderKeepsLock
  BY DEF IInv
<1> QED
  BY <1>1, KvInvariant, PTL

(* So a lock has one holder at a time.                                     *)
THEOREM OneHolder ==
  Spec => [](\A c, d \in Clients : \A k \in LockKeys :
               lease[c][k] > now /\ lease[d][k] > now => c = d)
<1>1. IInv => \A c, d \in Clients : \A k \in LockKeys :
                lease[c][k] > now /\ lease[d][k] > now => c = d
  <2>1. ASSUME IInv, NEW c \in Clients, NEW k \in LockKeys, lease[c][k] > now
        PROVE  kv[k].value = c
    <3>1. kv[k] = [value |-> c, until |-> lease[c][k]]
      BY <2>1 DEF IInv, HolderKeepsLock
    <3> QED
      BY <3>1
  <2> QED
    BY <2>1
<1> QED
  BY <1>1, KvInvariant, PTL

(* A receiver holds every message published since its subscription, once   *)
(* and in order (Channel::subscribe, Channel::publish).                    *)
THEOREM NothingMissed == Spec => []SubscribersMissNothing
<1>1. IInv => SubscribersMissNothing
  BY DEF IInv
<1> QED
  BY <1>1, KvInvariant, PTL

-----------------------------------------------------------------------------
(* The refinement.                                                         *)

LEMMA InitRefines == Init => Atomic!Init
BY KvAssumption DEF Init, Atomic!Init, Store, Present

(* A step that leaves the map, the clock and the calls alone is a stutter. *)
LEMMA StoreUnchanged ==
  ASSUME UNCHANGED <<now, kv>>
  PROVE  Store' = Store
BY DEF Store, Present

(* A call handled by the thread takes effect on the store at that step.    *)
LEMMA HandleRefines ==
  ASSUME IInv, NEW c \in Clients, Handle(c)
  PROVE  Atomic!TakesEffect(c)
<1>1. /\ now \in Nat /\ kv \in [Keys -> Entry \cup {Absent}]
      /\ \A v, u : [value |-> v, until |-> u] \in Entry => [value |-> v, until |-> u] # Absent
  BY KvAssumption DEF IInv, TypeOK, Entry
<1>2. ASSUME NEW reply, Takes(c), Answers(c, reply)
      PROVE  /\ call[c] # NoCall /\ call[c] \in Request
             /\ Atomic!Answered(c, reply)
  BY <1>2, TakenCall DEF Answers, Atomic!Answered
<1>3. CASE Set(c)
  <2> DEFINE op == call[c]
  <2>1. op \in Request /\ call[c] # NoCall /\ op.op = "set" /\ now' = now
    BY <1>2, <1>3 DEF Set, Answers
  <2>2. /\ op.key \in Keys /\ op.value \in Values /\ op.px \in Nat
    BY <2>1 DEF Request
  <2>3. Present(op.key) <=> Store[op.key] # Absent
    BY <1>1, <2>2 DEF Store, Present
  <2>4. CASE op.nx /\ Present(op.key)
    <3>1. UNCHANGED <<now, kv>> /\ Atomic!Answered(c, "already_exists")
      BY <1>2, <1>3, <2>1, <2>4 DEF Set, storeVars
    <3> QED
      BY <2>1, <2>3, <2>4, <3>1, StoreUnchanged DEF Atomic!TakesEffect, Atomic!Set
  <2>5. CASE ~(op.nx /\ Present(op.key))
    <3> DEFINE e == [value |-> op.value, until |-> ExpiresAt(op.px)]
    <3>1. Atomic!Answered(c, "ok") /\ kv' = [kv EXCEPT ![op.key] = e]
      BY <1>2, <1>3, <2>1, <2>5 DEF Set
    <3>2. e \in Entry /\ e # Absent
      BY <1>1, <2>2, KvAssumption DEF ExpiresAt, Entry
    <3>3. e = [value |-> op.value, until |-> IF op.px = 0 THEN Forever ELSE now + op.px]
      BY DEF ExpiresAt
    <3>4. e.until > now
      BY <1>1, <2>2, KvAssumption DEF ExpiresAt, IInv, TypeOK
    <3> HIDE DEF e
    <3>5. Store' = [Store EXCEPT ![op.key] = e]
      <4>1. ASSUME NEW k \in Keys PROVE Store'[k] = [Store EXCEPT ![op.key] = e][k]
        <5>1. CASE k = op.key
          BY <1>1, <2>1, <2>2, <3>1, <3>2, <3>4, <5>1 DEF Store, Present
        <5>2. CASE k # op.key
          BY <1>1, <2>1, <2>2, <3>1, <5>2 DEF Store, Present
        <5> QED
          BY <5>1, <5>2
      <4> QED
        BY <4>1 DEF Store
    <3>6. ~(op.nx /\ Store[op.key] # Absent)
      BY <2>3, <2>5
    <3> QED
      BY <2>1, <3>1, <3>3, <3>5, <3>6 DEF Atomic!TakesEffect, Atomic!Set
  <2> QED
    BY <2>4, <2>5
<1>4. CASE Get(c)
  <2>1. UNCHANGED <<now, kv>> /\ call[c].op = "get" /\ call[c] \in Request /\ call[c] # NoCall
    BY <1>2, <1>4 DEF Get, storeVars, Answers
  <2>2. call[c].key \in Keys
    BY <2>1 DEF Request
  <2>3. IF Present(call[c].key) THEN Store[call[c].key] = kv[call[c].key] /\ kv[call[c].key] # Absent
                                ELSE Store[call[c].key] = Absent
    BY <2>2 DEF Store, Present
  <2>4. Atomic!Answered(c, IF Store[call[c].key] = Absent THEN Absent ELSE Store[call[c].key].value)
    BY <1>2, <1>4, <2>3 DEF Get
  <2> QED
    BY <2>1, <2>4, StoreUnchanged DEF Atomic!TakesEffect, Atomic!Get
<1>5. CASE Delex(c)
  <2> DEFINE k0 == call[c].key
  <2>1. call[c] # NoCall /\ call[c] \in Request /\ call[c].op = "delex" /\ now' = now
    BY <1>2, <1>5 DEF Delex, Answers
  <2>2. k0 \in Keys
    BY <2>1 DEF Request
  <2>3. kv' = IF kv[k0] # Absent /\ kv[k0].value = call[c].ifeq
               THEN [kv EXCEPT ![k0] = Absent] ELSE kv
    BY <1>5 DEF Delex
  <2>4. Store' = [k \in Keys |->
          IF k = k0 /\ Store[k] # Absent /\ Store[k].value = call[c].ifeq
            THEN Absent ELSE Store[k]]
    <3>1. ASSUME NEW k \in Keys
          PROVE  Store'[k] = IF k = k0 /\ Store[k] # Absent /\ Store[k].value = call[c].ifeq
                               THEN Absent ELSE Store[k]
      <4>1. CASE k = k0
        BY <1>1, <2>1, <2>2, <2>3, <4>1 DEF Store, Present
      <4>2. CASE k # k0
        BY <1>1, <2>1, <2>2, <2>3, <4>2 DEF Store, Present
      <4> QED
        BY <4>1, <4>2
    <3> QED
      BY <3>1 DEF Store
  <2>5. Atomic!Answered(c, "ok")
    BY <1>2, <1>5 DEF Delex
  <2> QED
    BY <2>1, <2>4, <2>5 DEF Atomic!TakesEffect, Atomic!Delex
<1>6. CASE Subscribe(c) \/ Publish(c)
  <2>1. /\ UNCHANGED <<now, kv>> /\ call[c].op \in {"subscribe", "publish"} /\ call[c] # NoCall
        /\ Atomic!Answered(c, "ok")
    BY <1>2, <1>6 DEF Subscribe, Publish, storeVars, Answers
  <2> QED
    BY <2>1, StoreUnchanged DEF Atomic!TakesEffect, Atomic!Other
<1> QED
  BY <1>3, <1>4, <1>5, <1>6 DEF Handle

LEMMA StepRefines == IInv /\ [Next]_vars => [Atomic!Next]_(Atomic!vars)
<1> SUFFICES ASSUME IInv, [Next]_vars PROVE [Atomic!Next]_(Atomic!vars)
  OBVIOUS
<1>1. CASE Tick
  <2>1. /\ now < MaxTime /\ now' = now + 1 /\ now \in Nat
        /\ UNCHANGED <<kv, call, answer, gone>> /\ kv \in [Keys -> Entry \cup {Absent}]
    BY <1>1, KvAssumption DEF IInv, TypeOK, Tick, storeVars, callVars
  <2>2. Store' = [k \in Keys |->
          IF Store[k] # Absent /\ Store[k].until <= now + 1 THEN Absent ELSE Store[k]]
    <3>1. ASSUME NEW k \in Keys
          PROVE  Store'[k] = IF Store[k] # Absent /\ Store[k].until <= now + 1
                               THEN Absent ELSE Store[k]
      <4>1. CASE kv[k] = Absent
        BY <2>1, <4>1 DEF Store, Present
      <4>2. CASE kv[k] # Absent
        <5>1. kv[k].until \in Nat
          BY <2>1, <4>2 DEF Entry
        <5> QED
          BY <2>1, <4>2, <5>1 DEF Store, Present
      <4> QED
        BY <4>1, <4>2
    <3> QED
      BY <3>1 DEF Store
  <2> QED
    BY <2>1, <2>2 DEF Atomic!Next, Atomic!Tick
<1>2. CASE \E c \in Clients : \E r \in Requests[c] : Call(c, r)
  <2>1. PICK c \in Clients : \E r \in Requests[c] : Call(c, r)
    BY <1>2
  <2>2. PICK r \in Requests[c] : Call(c, r)
    BY <2>1
  <2>3. UNCHANGED <<now, kv, gone>> /\ Sent(r) \in Sendable[c]
    BY <2>2 DEF Call, Sendable
  <2>4. Atomic!Call(c)
    BY <2>2, <2>3, StoreUnchanged DEF Call, Atomic!Call
  <2> QED
    BY <2>4 DEF Atomic!Next
<1>3. CASE \E c \in Clients : GiveUp(c)
  <2>1. PICK c \in Clients : GiveUp(c)
    BY <1>3
  <2>2. UNCHANGED <<now, kv>> /\ Atomic!GiveUp(c)
    BY <2>1, StoreUnchanged DEF GiveUp, Atomic!GiveUp, storeVars
  <2> QED
    BY <2>2 DEF Atomic!Next
<1>4. CASE \E c \in Clients : Handle(c)
  BY <1>4, HandleRefines DEF Atomic!Next
<1>5. CASE (\E c \in Clients : Receive(c) \/ Close(c)) \/ UNCHANGED vars
  <2>1. UNCHANGED <<now, kv, call, answer, gone>>
    BY <1>5 DEF Receive, Close, vars, storeVars, callVars
  <2> QED
    BY <2>1, StoreUnchanged DEF Atomic!vars
<1> QED
  BY <1>1, <1>2, <1>3, <1>4, <1>5 DEF Next

(* The thread, its queue and the expired entries it keeps behave as the    *)
(* atomic store: every call takes effect at one instant before its answer. *)
THEOREM KvIsAtomic == Spec => ImplementsAtomicKv
<1>1. Init => Atomic!Init
  BY InitRefines
<1>2. IInv /\ [Next]_vars => [Atomic!Next]_(Atomic!vars)
  BY StepRefines
<1> QED
  BY <1>1, <1>2, KvInvariant, PTL DEF Spec, ImplementsAtomicKv, Atomic!Spec
=============================================================================
