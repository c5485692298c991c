------------------------------- MODULE AtomicKv -------------------------------
(***************************************************************************)
(* What the key-value store promises to the functions that call it: every  *)
(* call takes effect at one instant between the call and its answer, on a  *)
(* store in which a key whose lease is over does not exist.  There is no   *)
(* queue, no thread and no expired entry here; module Kv is shown to       *)
(* implement it.                                                           *)
(*                                                                         *)
(* A call that is not about a key (subscribe, publish) leaves the store    *)
(* alone.  The call of a client that gave up may still take effect.        *)
(***************************************************************************)
EXTENDS Integers

CONSTANTS Clients, Keys,
          Calls,     \* the operations each client may ask for
          MaxTime,   \* bound on the clock
          Forever,   \* the end of a lease that has none
          Absent, NoCall

VARIABLES now,       \* the clock of the host
          store,     \* per key: its value and the end of its lease, or Absent
          call,      \* per client: the call it awaits, or NoCall
          answer,    \* per client: the answer to its last call
          gone       \* the clients that gave up, or never come

vars == <<now, store, call, answer, gone>>

Init ==
  /\ now \in 0..MaxTime
  /\ store = [k \in Keys |-> Absent]
  /\ call = [c \in Clients |-> NoCall]
  /\ answer = [c \in Clients |-> Absent]
  /\ gone \in SUBSET Clients

(* Time passes, and a key is gone the moment its lease is over.            *)
Tick ==
  /\ now < MaxTime
  /\ now' = now + 1
  /\ store' = [k \in Keys |->
       IF store[k] # Absent /\ store[k].until <= now + 1 THEN Absent ELSE store[k]]
  /\ UNCHANGED <<call, answer, gone>>

Call(c) ==
  /\ c \notin gone
  /\ call[c] = NoCall
  /\ \E op \in Calls[c] : call' = [call EXCEPT ![c] = op]
  /\ answer' = [answer EXCEPT ![c] = Absent]
  /\ UNCHANGED <<now, store, gone>>

GiveUp(c) ==
  /\ gone' = gone \cup {c}
  /\ UNCHANGED <<now, store, call, answer>>

Answered(c, reply) ==
  /\ call' = [call EXCEPT ![c] = NoCall]
  /\ answer' = [answer EXCEPT ![c] = reply]
  /\ UNCHANGED <<now, gone>>

Set(c) ==
  /\ call[c].op = "set"
  /\ IF call[c].nx /\ store[call[c].key] # Absent
       THEN UNCHANGED store /\ Answered(c, "already_exists")
       ELSE /\ store' = [store EXCEPT ![call[c].key] =
                 [value |-> call[c].value,
                  until |-> IF call[c].px = 0 THEN Forever ELSE now + call[c].px]]
            /\ Answered(c, "ok")

Get(c) ==
  /\ call[c].op = "get"
  /\ UNCHANGED store
  /\ Answered(c, IF store[call[c].key] = Absent THEN Absent
                                                ELSE store[call[c].key].value)

Delex(c) ==
  /\ call[c].op = "delex"
  /\ store' = [k \in Keys |->
       IF k = call[c].key /\ store[k] # Absent /\ store[k].value = call[c].ifeq
         THEN Absent ELSE store[k]]
  /\ Answered(c, "ok")

Other(c) ==
  /\ call[c].op \in {"subscribe", "publish"}
  /\ UNCHANGED store
  /\ Answered(c, "ok")

TakesEffect(c) ==
  /\ call[c] # NoCall
  /\ Set(c) \/ Get(c) \/ Delex(c) \/ Other(c)

Next ==
  \/ Tick
  \/ \E c \in Clients : Call(c) \/ GiveUp(c) \/ TakesEffect(c)

Spec == Init /\ [][Next]_vars
=============================================================================
