---------------------------------- MODULE Kv ----------------------------------
(***************************************************************************)
(* The key-value thread and the functions that call it.  A call becomes a  *)
(* message in one unbounded queue; the thread takes the messages one at a  *)
(* time, applies each to its map or to its channels, and answers through a *)
(* oneshot channel.  An entry whose lease is over stays in the map and is  *)
(* read as if it were not there.                                           *)
(*                                                                         *)
(* A client stands for one request of a function: it makes one call at a   *)
(* time, subscribes at most once, and may be given up at any point (its    *)
(* timeout, a disconnect), with a call under way or not.  A key stands for *)
(* a namespace and a key of it, a channel likewise: each namespace has its *)
(* own map, and the thread is shared.  The clock never goes back; the code *)
(* reads SystemTime, which an administrator may set back.                  *)
(*                                                                         *)
(* Sources: tasks/kv.rs, effects/kv.rs and fx-sdk api/kv.rs.               *)
(***************************************************************************)
EXTENDS Integers, Sequences, FiniteSets

CONSTANTS Clients, Keys, Channels, Values,
          Requests,     \* per client, the requests it may make of the sdk
          Casts,        \* the clients that take part together, and from when
          LockKeys,     \* keys that are used as locks
          TicksPerMs,   \* units of time in a millisecond
          MaxTime,      \* bound on the clock
          MaxPublished, \* bound on the messages published on a channel
          Forever,      \* the end of a lease that has none
          Absent, NoCall, NoChannel

(* What the sdk accepts: a px is a duration, or 0 for none.                *)
Request ==
  [op : {"set"}, key : Keys, value : Values, nx : BOOLEAN, px : Nat]
    \cup [op : {"get"}, key : Keys]
    \cup [op : {"delex"}, key : Keys, ifeq : Values]
    \cup [op : {"subscribe", "publish"}, channel : Channels]

(* A lock is taken with set nx, of a value nobody else uses, and released  *)
(* with delex of that value: the idiom of the distributed lock of the test *)
(* application.                                                            *)
UsesLocksProperly(c, r) ==
  r.op \in {"set", "delex"} /\ r.key \in LockKeys =>
    IF r.op = "set" THEN r.nx /\ r.value = c ELSE r.ifeq = c

ASSUME KvAssumption ==
  /\ Requests \in [Clients -> SUBSET Request]
  /\ \A c \in Clients : \A r \in Requests[c] : UsesLocksProperly(c, r)
  /\ Casts \subseteq [clients : SUBSET Clients, from : 0..MaxTime]
  /\ LockKeys \subseteq Keys
  /\ TicksPerMs \in Nat \ {0}
  /\ MaxTime \in Nat
  /\ MaxPublished \in Nat
  /\ Forever \in Nat /\ Forever > MaxTime
  /\ NoCall \notin Request
  /\ Absent \notin [value : Values, until : Nat]
  /\ Absent \notin Values
  /\ NoChannel \notin Channels

VARIABLES
  now,        \* SystemTime::now()
  kv,         \* the map, expired entries included
  channels,   \* per channel: the clients whose sender it holds
  kv_rx,      \* the queue of the thread: whose message comes next
  call,       \* the operation each client awaits, or NoCall
  answer,     \* what its last oneshot held
  gone,       \* clients that were given up
  receiver,   \* the channel a client's receiver is on, or NoChannel
  unread,     \* the messages in that receiver, by number
  published,  \* history: how many messages each channel had
  seen,       \* history: the last message of its channel a client is past
  lease       \* history: the end of the lease of a lock a client was granted

storeVars == <<kv, lease>>
channelVars == <<channels, receiver, unread, published, seen>>
callVars == <<kv_rx, call, answer, gone>>
vars == <<now, storeVars, channelVars, callVars>>

Entry == [value : Values, until : Nat]

-----------------------------------------------------------------------------
(* Which functions are deployed: the clients outside the cast never come.  *)
Init ==
  /\ \E cast \in Casts : now = cast.from /\ gone = Clients \ cast.clients
  /\ kv = [k \in Keys |-> Absent]
  /\ channels = [ch \in Channels |-> {}]
  /\ kv_rx = <<>>
  /\ call = [c \in Clients |-> NoCall]
  /\ answer = [c \in Clients |-> Absent]
  /\ receiver = [c \in Clients |-> NoChannel]
  /\ unread = [c \in Clients |-> <<>>]
  /\ published = [ch \in Channels |-> 0]
  /\ seen = [c \in Clients |-> 0]
  /\ lease = [c \in Clients |-> [k \in LockKeys |-> 0]]

Tick ==
  /\ now < MaxTime
  /\ now' = now + 1
  /\ UNCHANGED <<storeVars, channelVars, callVars>>

(* A duration crosses the wire in whole milliseconds; none, and a duration *)
(* below a millisecond, are both 0, and 0 is read as no lease.             *)
WholeMs(px) == (px \div TicksPerMs) * TicksPerMs

Sent(r) == IF r.op = "set" THEN [r EXCEPT !.px = WholeMs(@)] ELSE r

(* The bound on published messages, those under way included.              *)
MayPublish(ch) ==
  published[ch] + Cardinality({c \in Clients :
    call[c] # NoCall /\ call[c].op = "publish" /\ call[c].channel = ch}) < MaxPublished

(* A client asks the sdk for r.  Asking to release a lock ends its claim.  *)
Call(c, r) ==
  /\ c \notin gone
  /\ call[c] = NoCall
  /\ r.op = "subscribe" => \A ch \in Channels : c \notin channels[ch]
  /\ r.op = "publish" => MayPublish(r.channel)
  /\ call' = [call EXCEPT ![c] = Sent(r)]
  /\ kv_rx' = Append(kv_rx, c)
  /\ answer' = [answer EXCEPT ![c] = Absent]
  /\ lease' = IF r.op = "delex" /\ r.key \in LockKeys
                THEN [lease EXCEPT ![c][r.key] = 0] ELSE lease
  /\ UNCHANGED <<now, kv, channelVars, gone>>

(* The client is given up.  Its message stays in the queue.                *)
GiveUp(c) ==
  /\ c \notin gone
  /\ gone' = gone \cup {c}
  /\ UNCHANGED <<now, storeVars, channelVars, kv_rx, call, answer>>

-----------------------------------------------------------------------------
(* The thread: one message.                                                *)

Takes(c) == kv_rx # <<>> /\ c = Head(kv_rx) /\ kv_rx' = Tail(kv_rx)

Answers(c, reply) ==
  /\ call' = [call EXCEPT ![c] = NoCall]
  /\ answer' = [answer EXCEPT ![c] = reply]
  /\ UNCHANGED <<now, gone>>

(* Kv::get: an entry whose lease is over is not there.                     *)
Present(k) == kv[k] # Absent /\ kv[k].until > now

(* A mutant: what is left of a lease is stored where its end belongs.      *)
ExpiresAtRemaining(px) == IF px = 0 THEN Forever ELSE px - now

ExpiresAt(px) == IF px = 0 THEN Forever ELSE now + px

Granted(c, op) ==
  IF op.key \in LockKeys
    THEN [lease EXCEPT ![c][op.key] = ExpiresAt(op.px)] ELSE lease

(* A mutant: nx looks for an entry, expired or not.                        *)
SetSeesExpired(c) ==
  LET op == call[c] IN
  /\ Takes(c)
  /\ op.op = "set"
  /\ IF op.nx /\ kv[op.key] # Absent
       THEN /\ Answers(c, "already_exists")
            /\ UNCHANGED storeVars
       ELSE /\ kv' = [kv EXCEPT ![op.key] =
                 [value |-> op.value, until |-> ExpiresAt(op.px)]]
            /\ lease' = Granted(c, op)
            /\ Answers(c, "ok")
  /\ UNCHANGED channelVars

Set(c) ==
  LET op == call[c] IN
  /\ Takes(c)
  /\ op.op = "set"
  /\ IF op.nx /\ Present(op.key)
       THEN /\ Answers(c, "already_exists")
            /\ UNCHANGED storeVars
       ELSE /\ kv' = [kv EXCEPT ![op.key] =
                 [value |-> op.value, until |-> ExpiresAt(op.px)]]
            /\ lease' = Granted(c, op)
            /\ Answers(c, "ok")
  /\ UNCHANGED channelVars

Get(c) ==
  LET k == call[c].key IN
  /\ Takes(c)
  /\ call[c].op = "get"
  /\ Answers(c, IF Present(k) THEN kv[k].value ELSE Absent)
  /\ UNCHANGED <<storeVars, channelVars>>

(* A mutant: the value is not compared.                                    *)
DelexAnyValue(c) ==
  /\ Takes(c)
  /\ call[c].op = "delex"
  /\ kv' = [kv EXCEPT ![call[c].key] = Absent]
  /\ Answers(c, "ok")
  /\ UNCHANGED <<lease, channelVars>>

(* Kv::delex compares the value, whether or not it has expired.            *)
Delex(c) ==
  LET k == call[c].key IN
  /\ Takes(c)
  /\ call[c].op = "delex"
  /\ kv' = IF kv[k] # Absent /\ kv[k].value = call[c].ifeq
             THEN [kv EXCEPT ![k] = Absent] ELSE kv
  /\ Answers(c, "ok")
  /\ UNCHANGED <<lease, channelVars>>

(* A mutant: the channel is created anew for every subscriber.             *)
SubscribeReplacing(c) ==
  LET ch == call[c].channel IN
  /\ Takes(c)
  /\ call[c].op = "subscribe"
  /\ channels' = [channels EXCEPT ![ch] = {c}]
  /\ receiver' = [receiver EXCEPT ![c] = ch]
  /\ seen' = [seen EXCEPT ![c] = published[ch]]
  /\ Answers(c, "ok")
  /\ UNCHANGED <<storeVars, unread, published>>

(* Channel::subscribe.  The receiver of a client that is gone is dropped   *)
(* with its oneshot, or kept and never read.                               *)
Subscribe(c) ==
  LET ch == call[c].channel IN
  /\ Takes(c)
  /\ call[c].op = "subscribe"
  /\ channels' = [channels EXCEPT ![ch] = @ \cup {c}]
  /\ receiver' = [receiver EXCEPT ![c] = ch]
  /\ seen' = [seen EXCEPT ![c] = published[ch]]
  /\ Answers(c, "ok")
  /\ UNCHANGED <<storeVars, unread, published>>

Open(ch) == {c \in channels[ch] : receiver[c] = ch}

(* A mutant: a channel nobody listens to holds the message back.           *)
PublishToSomebody(c) ==
  LET ch == call[c].channel IN
  /\ Takes(c)
  /\ call[c].op = "publish"
  /\ Open(ch) # {}
  /\ published' = [published EXCEPT ![ch] = @ + 1]
  /\ unread' = [d \in Clients |-> IF d \in Open(ch)
                  THEN Append(unread[d], published[ch] + 1) ELSE unread[d]]
  /\ channels' = [channels EXCEPT ![ch] = Open(ch)]
  /\ Answers(c, "ok")
  /\ UNCHANGED <<storeVars, receiver, seen>>

(* Channel::publish sends to every subscriber and forgets the closed ones; *)
(* a channel without subscribers is removed.                               *)
Publish(c) ==
  LET ch == call[c].channel IN
  /\ Takes(c)
  /\ call[c].op = "publish"
  /\ published' = [published EXCEPT ![ch] = @ + 1]
  /\ unread' = [d \in Clients |-> IF d \in Open(ch)
                  THEN Append(unread[d], published[ch] + 1) ELSE unread[d]]
  /\ channels' = [channels EXCEPT ![ch] = Open(ch)]
  /\ Answers(c, "ok")
  /\ UNCHANGED <<storeVars, receiver, seen>>

Handle(c) == Set(c) \/ Get(c) \/ Delex(c) \/ Subscribe(c) \/ Publish(c)

-----------------------------------------------------------------------------
(* The stream of a subscription.                                           *)

Receive(c) ==
  /\ c \notin gone
  /\ unread[c] # <<>>
  /\ seen' = [seen EXCEPT ![c] = Head(unread[c])]
  /\ unread' = [unread EXCEPT ![c] = Tail(@)]
  /\ UNCHANGED <<now, storeVars, callVars, channels, receiver, published>>

(* The receiver is dropped; the channel learns of it at its next publish.  *)
Close(c) ==
  /\ receiver[c] # NoChannel
  /\ receiver' = [receiver EXCEPT ![c] = NoChannel]
  /\ unread' = [unread EXCEPT ![c] = <<>>]
  /\ UNCHANGED <<now, storeVars, callVars, channels, published, seen>>

Next ==
  \/ Tick
  \/ \E c \in Clients : \E r \in Requests[c] : Call(c, r)
  \/ \E c \in Clients : GiveUp(c) \/ Handle(c) \/ Receive(c) \/ Close(c)

Spec == Init /\ [][Next]_vars

(* The thread goes on taking messages; nothing is assumed of the clients.  *)
FairSpec == Spec /\ WF_vars(\E c \in Clients : Handle(c))

-----------------------------------------------------------------------------
(* Properties                                                              *)

TypeOK ==
  /\ now \in 0..MaxTime
  /\ kv \in [Keys -> Entry \cup {Absent}]
  /\ channels \in [Channels -> SUBSET Clients]
  /\ kv_rx \in Seq(Clients)
  /\ call \in [Clients -> Request \cup {NoCall}]
  /\ answer \in [Clients -> Values \cup {"ok", "already_exists", Absent}]
  /\ gone \subseteq Clients
  /\ receiver \in [Clients -> Channels \cup {NoChannel}]
  /\ unread \in [Clients -> Seq(Nat)]
  /\ published \in [Channels -> Nat]
  /\ seen \in [Clients -> Nat]
  /\ lease \in [Clients -> [LockKeys -> Nat]]

(* A client that was granted a lock has it until its lease is over or it   *)
(* asks for the release: the key holds its value, so nobody else is        *)
(* granted the lock meanwhile, whatever late releases, abandoned calls and *)
(* expired leases of other clients are still in the queue.                 *)
HolderKeepsLock ==
  \A c \in Clients : \A k \in LockKeys :
    lease[c][k] > now => kv[k] # Absent /\ kv[k] = [value |-> c, until |-> lease[c][k]]

(* The numbers of the messages a+1 to n, in order.                         *)
MessagesAfter(a, n) == [i \in 1..(n - a) |-> a + i]

(* A subscriber has every message published since its subscription took    *)
(* effect, once and in order: what it has not seen is in its receiver.     *)
SubscribersMissNothing ==
  \A c \in Clients : receiver[c] # NoChannel =>
    LET ch == receiver[c] IN
      /\ c \in channels[ch]
      /\ unread[c] = MessagesAfter(seen[c], published[ch])

(* Every call is answered, the calls of clients that are gone included.    *)
CallsAreAnswered ==
  \A c \in Clients : call[c] # NoCall ~> call[c] = NoCall

(* The thread, with its queue and the expired entries it keeps, implements *)
(* the atomic store.                                                       *)
Sendable == [c \in Clients |-> {Sent(r) : r \in Requests[c]}]
Store == [k \in Keys |-> IF Present(k) THEN kv[k] ELSE Absent]

Atomic == INSTANCE AtomicKv WITH store <- Store, Calls <- Sendable

ImplementsAtomicKv == Atomic!Spec
=============================================================================
