--------------------------------- MODULE MCKv ---------------------------------
(* Two casts.  Locks: two clients contend for a lock, one of them with a   *)
(* lease of three ticks (one millisecond of two ticks on the wire), one    *)
(* with a lease of one tick (none on the wire); the third writes and reads *)
(* a plain key.  Channels: a subscriber, a publisher and a client that     *)
(* does both, on two channels.                                             *)
EXTENDS Kv

CONSTANTS c1, c2, c3, s1, s2, p1, lock, data, chan, side

MCClients == {c1, c2, c3, s1, s2, p1}
MCCasts == {[clients |-> {c1, c2, c3}, from |-> 0],
            [clients |-> {s1, s2, p1}, from |-> MaxTime]}
MCKeys == {lock, data}
MCChannels == {chan, side}

Take(c, px) == [op |-> "set", key |-> lock, value |-> c, nx |-> TRUE, px |-> px]
Release(c) == [op |-> "delex", key |-> lock, ifeq |-> c]
Subscription(ch) == [op |-> "subscribe", channel |-> ch]
Message(ch) == [op |-> "publish", channel |-> ch]

MCRequests == [c \in MCClients |->
  CASE c = c1 -> {Take(c1, 3), Release(c1)}
    [] c = c2 -> {Take(c2, 1), Release(c2)}
    [] c = c3 -> {[op |-> "get", key |-> data],
                  [op |-> "set", key |-> data, value |-> c3, nx |-> FALSE, px |-> 2]}
    [] c = s1 -> {Subscription(chan)}
    [] c = s2 -> {Subscription(chan), Subscription(side), Message(chan)}
    [] c = p1 -> {Message(chan), Message(side)}]
=============================================================================
