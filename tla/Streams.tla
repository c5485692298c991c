------------------------------- MODULE Streams -------------------------------
(***************************************************************************)
(* Bodies that one instance produces while others read them.  A reader is  *)
(* an http connection, or a guest that fetched the function.  Each frame   *)
(* is polled for by a guest call of the producer, under its mutex, and is  *)
(* handed out as a pointer into the producer's memory; when the reader is  *)
(* done with it, a message to the worker loop makes the producer free it.  *)
(*                                                                         *)
(* A connection polls its body itself.  A guest's body lies in the host's  *)
(* table of that guest's instance, together with the poll under way, which *)
(* moves only while the guest polls it.  The mutex of the producer is not  *)
(* fair: whoever finds it free takes it, and when it is freed one of those *)
(* who wait is woken, to find it free or to wait again.  The producer's    *)
(* other requests are modelled in FunctionInstance; here they hold the     *)
(* mutex, MaxVisits times.  While they wait they are left out: whichever   *)
(* of them is woken takes the mutex, or is dropped and wakes another.      *)
(*                                                                         *)
(* Sources: function/instance.rs, triggers/http.rs, function/abi/mod.rs,   *)
(* tasks/worker, fx-sdk sys/mod.rs, sys/resource.rs and api/http.rs.       *)
(***************************************************************************)
EXTENDS Naturals, Sequences

CONSTANTS Clients, Guests,  \* the readers: connections and guests
          Frames,           \* how many frames the body of each reader has
          Casts,            \* sets of readers that may read together
          MaxVisits,        \* bound on other uses of the mutex
          Loop, Other, Nobody, NoFrame

Readers == Clients \cup Guests

(* A frame of a reader's body; number 0 stands for its invocation, which   *)
(* travels in the same queue.                                              *)
Messages == [reader : Readers, index : Nat]

ASSUME StreamsAssumption ==
  /\ Clients \cap Guests = {}
  /\ Frames \in [Readers -> Nat]
  /\ Casts \subseteq SUBSET Readers /\ MaxVisits \in Nat
  /\ Loop \notin Readers /\ Other \notin Readers /\ Nobody \notin Readers
  /\ Loop # Other /\ Loop # Nobody /\ Other # Nobody
  /\ NoFrame \notin Messages

VARIABLES
  reader,    \* how far each reader has come
  poll,      \* its poll for a frame
  produced,  \* frames its stream has yielded
  held,      \* frames the host holds for it, in order
  got,       \* history: frames it has read, in order
  lock,      \* who has the producer's mutex
  waiters,   \* who sleeps until it is freed
  bytes,     \* frames in the table of the producer's guest
  borrowed,  \* whether a call was cut off while it borrowed that table
  messages,  \* the local queue of the worker
  dropping,  \* the frame that the worker loop is freeing
  visits

readerVars == <<reader, poll, produced, held, got>>
mutexVars == <<lock, waiters>>
guestVars == <<mutexVars, bytes, borrowed>>
vars == <<readerVars, guestVars, messages, dropping, visits>>

(* Which readers there are: the others are done before they begin.         *)
Init ==
  /\ \E cast \in Casts : reader = [r \in Readers |-> IF r \in cast THEN "new" ELSE "done"]
  /\ poll = [r \in Readers |-> "none"]
  /\ produced = [r \in Readers |-> 0]
  /\ held = [r \in Readers |-> <<>>] /\ got = [r \in Readers |-> <<>>]
  /\ lock = Nobody /\ waiters = {} /\ bytes = {} /\ borrowed = FALSE
  /\ messages = <<>> /\ dropping = NoFrame /\ visits = 0

Frame(r, i) == [reader |-> r, index |-> i]

Moves(r, from, to) == reader[r] = from /\ reader' = [reader EXCEPT ![r] = to]

-----------------------------------------------------------------------------
(* The mutex of the producer.                                              *)

(* One of those who sleep is woken; the queue need not be modelled.        *)
WakesOne ==
  IF waiters = {} THEN UNCHANGED waiters
                  ELSE \E w \in waiters : waiters' = waiters \ {w}

Unlock == lock' = Nobody /\ WakesOne

(* Who finds it free takes it, woken or not; who does not goes to sleep.   *)
Locks(w) == lock = Nobody /\ lock' = w /\ waiters' = waiters \ {w}
Sleeps(w) == lock # Nobody /\ waiters' = waiters \cup {w} /\ UNCHANGED lock

(* A lock that is no longer wanted: who was woken for it wakes another.    *)
StopsWaiting(w) ==
  /\ IF w \in waiters THEN waiters' = waiters \ {w} ELSE WakesOne
  /\ UNCHANGED lock

-----------------------------------------------------------------------------
(* How a reader comes by its body.                                         *)

Fetch(r) ==
  /\ r \in Guests /\ Moves(r, "new", "asked")
  /\ messages' = Append(messages, Frame(r, 0))
  /\ UNCHANGED <<poll, produced, held, got, guestVars, dropping, visits>>

(* The handler runs in one step; a body is all it makes.  A guest finds it *)
(* as the result of its fetch.                                             *)
Respond(r) ==
  /\ lock = Nobody /\ Unlock /\ ~borrowed
  /\ \/ r \in Clients /\ Moves(r, "new", "reads")
     \/ r \in Guests /\ Moves(r, "invoked", "answered")
  /\ UNCHANGED <<poll, produced, held, got, bytes, borrowed, messages, dropping, visits>>

(* There is no such function, it is busy, or it panics.                    *)
RespondFails(r) ==
  /\ \/ r \in Clients /\ Moves(r, "new", "done")
     \/ r \in Guests /\ Moves(r, "invoked", "done")
  /\ UNCHANGED <<poll, produced, held, got, guestVars, messages, dropping, visits>>

(* The result of the fetch is moved to the guest, its body to the table.   *)
Receive(r) ==
  /\ Moves(r, "answered", "reads")
  /\ UNCHANGED <<poll, produced, held, got, guestVars, messages, dropping, visits>>

(* The request that the guest reads for is dropped: the guest is not told, *)
(* and what the host keeps for it stays where it is.                       *)
GivesUp(r) ==
  /\ r \in Guests
  /\ \E from \in {"asked", "invoked", "answered", "reads"} : Moves(r, from, "abandoned")
  /\ UNCHANGED <<poll, produced, held, got, guestVars, messages, dropping, visits>>

-----------------------------------------------------------------------------
(* Polling for a frame.                                                    *)

(* The frames of a body that is dropped are freed one by one.              *)
Freed(r) == [i \in 1..Len(held[r]) |-> Frame(r, held[r][i])]

(* The reader lets go of its body.  A frame that its guest has yielded in  *)
(* a call that never returns is nobody's.                                  *)
Leaves(r) ==
  /\ Moves(r, "reads", "done")
  /\ held' = [held EXCEPT ![r] = <<>>]
  /\ messages' = messages \o Freed(r)
  /\ poll' = [poll EXCEPT ![r] = IF @ = "frame" THEN "cut" ELSE "none"]
  /\ UNCHANGED <<produced, got, dropping, visits>>

(* A connection may read ahead; a guest has one frame at a time.           *)
PollFrame(r) ==
  /\ reader[r] = "reads" /\ poll[r] = "none"
  /\ r \in Guests => held[r] = <<>>
  /\ \/ Locks(r) /\ poll' = [poll EXCEPT ![r] = "calls"]
     \/ Sleeps(r) /\ poll' = [poll EXCEPT ![r] = "waits"]
  /\ UNCHANGED <<reader, produced, held, got, bytes, borrowed, messages, dropping, visits>>

Waits(r) == reader[r] = "reads" /\ poll[r] = "waits"

(* A second without the mutex: the error ends a connection, while a guest  *)
(* may poll again.                                                         *)
FunctionBusy(r) ==
  /\ Waits(r) /\ StopsWaiting(r)
  /\ \/ r \in Clients /\ Leaves(r)
     \/ /\ r \in Guests /\ poll' = [poll EXCEPT ![r] = "none"]
        /\ UNCHANGED <<reader, produced, held, got, messages, dropping, visits>>
  /\ UNCHANGED <<bytes, borrowed>>

(* The poll for the mutex is polled again.                                 *)
TakesLock(r) ==
  /\ Waits(r) /\ Locks(r)
  /\ poll' = [poll EXCEPT ![r] = "calls"]
  /\ UNCHANGED <<reader, produced, held, got, bytes, borrowed, messages, dropping, visits>>

WaitsAgain(r) ==
  /\ Waits(r) /\ r \notin waiters /\ Sleeps(r)
  /\ UNCHANGED <<readerVars, bytes, borrowed, messages, dropping, visits>>

InCall(r) == reader[r] = "reads" /\ poll[r] = "calls"

(* Mutant: a stream that is over is polled as if it were not.              *)
YieldsPastEnd(r) ==
  /\ InCall(r) /\ ~borrowed /\ produced[r] <= Frames[r]
  /\ produced' = [produced EXCEPT ![r] = @ + 1]
  /\ bytes' = bytes \cup {Frame(r, produced[r] + 1)}
  /\ poll' = [poll EXCEPT ![r] = "frame"]
  /\ UNCHANGED <<reader, held, got, mutexVars, borrowed, messages, dropping, visits>>

(* The stream of the guest is ready: the frame goes to the guest's table.  *)
Yields(r) ==
  /\ InCall(r) /\ ~borrowed /\ produced[r] < Frames[r]
  /\ produced' = [produced EXCEPT ![r] = @ + 1]
  /\ bytes' = bytes \cup {Frame(r, produced[r] + 1)}
  /\ poll' = [poll EXCEPT ![r] = "frame"]
  /\ UNCHANGED <<reader, held, got, mutexVars, borrowed, messages, dropping, visits>>

(* Mutant: the frame is dropped with the result of the call.               *)
ReturnsFreeing(r) ==
  /\ reader[r] = "reads" /\ poll[r] = "frame"
  /\ held' = [held EXCEPT ![r] = Append(@, produced[r])]
  /\ Unlock /\ poll' = [poll EXCEPT ![r] = "none"]
  /\ messages' = Append(messages, Frame(r, produced[r]))
  /\ UNCHANGED <<reader, produced, got, bytes, borrowed, dropping, visits>>

(* The call ends, and the host holds a pointer to the frame.               *)
Returns(r) ==
  /\ reader[r] = "reads" /\ poll[r] = "frame"
  /\ held' = [held EXCEPT ![r] = Append(@, produced[r])]
  /\ Unlock /\ poll' = [poll EXCEPT ![r] = "none"]
  /\ UNCHANGED <<reader, produced, got, bytes, borrowed, messages, dropping, visits>>

(* The stream is not ready.                                                *)
Pends(r) ==
  /\ InCall(r) /\ ~borrowed /\ visits < MaxVisits
  /\ Unlock /\ poll' = [poll EXCEPT ![r] = "none"]
  /\ visits' = visits + 1
  /\ UNCHANGED <<reader, produced, held, got, bytes, borrowed, messages, dropping>>

(* The stream is over.  What a connection holds it can still write.        *)
Ends(r) ==
  /\ InCall(r) /\ ~borrowed /\ produced[r] = Frames[r]
  /\ Moves(r, "reads", "done")
  /\ Unlock /\ poll' = [poll EXCEPT ![r] = "none"]
  /\ UNCHANGED <<produced, held, got, bytes, borrowed, messages, dropping, visits>>

(* The stream yields an error, which the host takes for one of the abi.    *)
StreamFails(r) ==
  /\ InCall(r) /\ ~borrowed
  /\ Leaves(r) /\ Unlock
  /\ UNCHANGED <<bytes, borrowed>>

(* The stream panics inside the borrow, as does whatever is called later.  *)
Traps(r) ==
  /\ InCall(r)
  /\ Leaves(r) /\ Unlock /\ borrowed' = TRUE
  /\ UNCHANGED bytes

(* The connection is closed, or the guest drops the body.  A poll that is  *)
(* under way is dropped, its call cut off, in the borrow of the table or   *)
(* outside it, and the mutex released.                                     *)
Closes(r) ==
  /\ r \in Guests => held[r] = <<>>
  /\ Leaves(r)
  /\ CASE lock = r -> Unlock /\ borrowed' \in {borrowed, TRUE}
       [] poll[r] = "waits" -> StopsWaiting(r) /\ UNCHANGED borrowed
       [] OTHER -> UNCHANGED <<mutexVars, borrowed>>
  /\ UNCHANGED bytes

(* A frame is written to the connection, or copied to the memory of the    *)
(* guest, and let go of.                                                   *)
Consume(r) ==
  /\ reader[r] \in {"reads", "done"} /\ held[r] # <<>>
  /\ got' = [got EXCEPT ![r] = Append(@, Head(held[r]))]
  /\ held' = [held EXCEPT ![r] = Tail(@)]
  /\ messages' = Append(messages, Frame(r, Head(held[r])))
  /\ UNCHANGED <<reader, poll, produced, guestVars, dropping, visits>>

-----------------------------------------------------------------------------
(* The worker loop, which handles one message to its end.                  *)

LoopInvokes ==
  LET r == Head(messages).reader IN
  /\ dropping = NoFrame /\ messages # <<>> /\ Head(messages).index = 0
  /\ messages' = Tail(messages)
  /\ reader' = [reader EXCEPT ![r] = IF @ = "asked" THEN "invoked" ELSE @]
  /\ UNCHANGED <<poll, produced, held, got, guestVars, dropping, visits>>

(* Unlike the other callers it awaits the mutex without a timer.           *)
LoopTakes ==
  /\ dropping = NoFrame /\ messages # <<>> /\ Head(messages).index > 0
  /\ messages' = Tail(messages) /\ dropping' = Head(messages)
  /\ Locks(Loop) \/ Sleeps(Loop)
  /\ UNCHANGED <<readerVars, bytes, borrowed, visits>>

(* It is polled again when it is woken, and may be when another task is.   *)
LoopLocks ==
  /\ dropping # NoFrame /\ Locks(Loop)
  /\ UNCHANGED <<readerVars, bytes, borrowed, messages, dropping, visits>>

LoopSleeps ==
  /\ dropping # NoFrame /\ lock # Loop /\ Loop \notin waiters /\ Sleeps(Loop)
  /\ UNCHANGED <<readerVars, bytes, borrowed, messages, dropping, visits>>

(* Mutant: the loop ends with the error of a guest that traps.             *)
LoopFreesOrEnds ==
  /\ lock = Loop /\ ~borrowed
  /\ bytes' = bytes \ {dropping}
  /\ Unlock /\ dropping' = NoFrame
  /\ UNCHANGED <<readerVars, borrowed, messages, visits>>

(* A trap is logged: the frame stays in the guest.                         *)
LoopFrees ==
  /\ lock = Loop
  /\ bytes' = IF borrowed THEN bytes ELSE bytes \ {dropping}
  /\ Unlock /\ dropping' = NoFrame
  /\ UNCHANGED <<readerVars, borrowed, messages, visits>>

-----------------------------------------------------------------------------
(* Other requests of the producer.                                         *)

Visit ==
  /\ lock = Nobody /\ visits < MaxVisits
  /\ lock' = Other /\ visits' = visits + 1
  /\ UNCHANGED <<readerVars, waiters, bytes, borrowed, messages, dropping>>

(* A request whose call is cut off may leave the table borrowed.           *)
VisitEnds ==
  /\ lock = Other /\ Unlock
  /\ borrowed' \in {borrowed, TRUE}
  /\ UNCHANGED <<readerVars, bytes, messages, dropping, visits>>

(* What is done for a reader whose call runs, or whose frames are written. *)
Reads(r) ==
  \/ Yields(r) \/ Returns(r) \/ Pends(r) \/ Ends(r)
  \/ StreamFails(r) \/ Traps(r) \/ Consume(r)

Worker == LoopInvokes \/ LoopTakes \/ LoopLocks \/ LoopSleeps \/ LoopFrees

Next ==
  \/ \E r \in Readers : \/ Fetch(r) \/ Respond(r) \/ RespondFails(r) \/ Receive(r)
                        \/ GivesUp(r) \/ PollFrame(r) \/ FunctionBusy(r)
                        \/ TakesLock(r) \/ WaitsAgain(r) \/ Closes(r) \/ Reads(r)
  \/ Worker \/ Visit \/ VisitEnds

Spec == Init /\ [][Next]_vars

(* The worker's tasks are all scheduled, and one that waits for the mutex  *)
(* only when it is woken.  A guest call ends, and a guest goes on polling  *)
(* a body it has begun to poll, unless its request ends.                   *)
FairSpec ==
  /\ Spec
  /\ \A r \in Readers :
       /\ WF_vars(Reads(r))
       /\ WF_vars(r \notin waiters /\ (TakesLock(r) \/ WaitsAgain(r)))
  /\ WF_vars(Loop \notin waiters /\ Worker) /\ WF_vars(VisitEnds)

-----------------------------------------------------------------------------
TypeOK ==
  /\ reader \in [Readers -> {"new", "asked", "invoked", "answered", "reads",
                             "done", "abandoned"}]
  /\ poll \in [Readers -> {"none", "waits", "calls", "frame", "cut"}]
  /\ produced \in [Readers -> Nat]
  /\ \A r \in Readers : produced[r] <= Frames[r]
  /\ held \in [Readers -> Seq(Nat \ {0})] /\ got \in [Readers -> Seq(Nat \ {0})]
  /\ lock \in Readers \cup {Loop, Other, Nobody}
  /\ waiters \subseteq Readers \cup {Loop}
  /\ bytes \subseteq [reader : Readers, index : Nat \ {0}]
  /\ borrowed \in BOOLEAN
  /\ messages \in Seq(Messages)
  /\ dropping \in [reader : Readers, index : Nat \ {0}] \cup {NoFrame}
  /\ visits \in 0..MaxVisits

BeingFreed(f) == dropping = f \/ (\E k \in DOMAIN messages : messages[k] = f)
Held(f) == \E k \in DOMAIN held[f.reader] : held[f.reader][k] = f.index
Yielded(f) == poll[f.reader] \in {"frame", "cut"} /\ f.index = produced[f.reader]

(* A reader reads the frames of its body in order, none lost or repeated,  *)
(* though a poll may time out, be repeated, or wait in a table.            *)
ReadInOrder ==
  \A r \in Readers :
    /\ \A k \in DOMAIN got[r] : got[r][k] = k
    /\ \A k \in DOMAIN held[r] : held[r][k] = Len(got[r]) + k
    /\ reader[r] = "reads" =>
         produced[r] = Len(got[r]) + Len(held[r]) + (IF poll[r] = "frame" THEN 1 ELSE 0)

(* A pointer into the memory of the producer is to a frame that nobody has *)
(* freed or asked to free; a frame is freed once; and every frame left in  *)
(* the guest is still on its way, unless a call was cut off: in a borrow   *)
(* of the table, or at the end, when that frame alone is left.             *)
FreedWhenRead ==
  /\ \A r \in Readers : \A k \in DOMAIN held[r] :
       Frame(r, held[r][k]) \in bytes /\ ~BeingFreed(Frame(r, held[r][k]))
  /\ \A k, l \in DOMAIN messages : messages[k] = messages[l] => k = l
  /\ \A k \in DOMAIN messages : messages[k] # dropping
  /\ ~borrowed => \A f \in bytes : Held(f) \/ BeingFreed(f) \/ Yielded(f)

(* What the host does with a body at every point where a reader waits,     *)
(* times out, closes, gives up or is cut off keeps its frames whole.       *)
FramesAreWhole == ReadInOrder /\ FreedWhenRead

(* The guest that has the mutex for a reader whose request is gone is not  *)
(* polled again: nobody lets go of the mutex.                              *)
Stuck == \E r \in Readers : reader[r] = "abandoned" /\ lock = r

(* Nor does it take the mutex that it was woken for, or let another be     *)
(* woken: the loop sleeps although the mutex is free.                      *)
WakeUpLost ==
  /\ lock = Nobody /\ Loop \in waiters
  /\ \E r \in Readers : reader[r] = "abandoned" /\ poll[r] = "waits" /\ r \notin waiters

(* Invocations and frames to free are handled, although the loop that      *)
(* handles them awaits the mutex of a guest - unless that, or the wake-up  *)
(* that it was freed, is lost for ever in the table of another instance.   *)
MessagesAreServed ==
  \A r \in Readers : \A i \in 0..Frames[r] :
    BeingFreed(Frame(r, i)) ~> (~BeingFreed(Frame(r, i)) \/ [](Stuck \/ WakeUpLost))
=============================================================================
