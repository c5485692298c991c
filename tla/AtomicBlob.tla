----------------------------- MODULE AtomicBlob -----------------------------
(***************************************************************************)
(* What the blob store promises to its callers: every call that is served  *)
(* takes effect in one step between the call and its answer.  A put or a   *)
(* removal that fails halfway, or that a crash cuts off, leaves its object *)
(* Unsure: reads of it may return anything until the next put or delete    *)
(* that succeeds.  Every other object keeps what was last stored in it.    *)
(***************************************************************************)

CONSTANTS Calls,      \* calls of the guests
          Objects,    \* pairs of a bucket and a key
          Values,     \* what a put may store
          Request,    \* what each call asks for
          Absent,     \* no object is stored
          Unsure,     \* a put or a removal did not finish
          NoAnswer    \* the call has no answer yet

VARIABLES store,      \* what each object holds
          call,       \* how far each call has come
          answer      \* what its caller was told

vars == <<store, call, answer>>

Init ==
    /\ store = [o \in Objects |-> Absent]
    /\ call = [c \in Calls |-> "new"]
    /\ answer = [c \in Calls |-> NoAnswer]

Pending(c) == call[c] \in {"waits", "dropped"}

\* The caller may be gone: the call takes effect without an answer.
Answers(c, a) ==
    /\ call' = [call EXCEPT ![c] = IF @ = "dropped" THEN "lost" ELSE "answered"]
    /\ answer' = [answer EXCEPT ![c] = IF call[c] = "dropped" THEN NoAnswer ELSE a]

Send(c) ==
    /\ call[c] = "new"
    /\ call' = [call EXCEPT ![c] = "waits"]
    /\ UNCHANGED <<store, answer>>

\* The call never reaches the store.
Refuse(c) ==
    /\ call[c] = "new"
    /\ \E a \in {"binding_not_exists", "panic"} : Answers(c, a)
    /\ UNCHANGED store

Drop(c) ==
    /\ call[c] = "waits"
    /\ call' = [call EXCEPT ![c] = "dropped"]
    /\ UNCHANGED <<store, answer>>

ServePut(c) ==
    LET o == Request[c].object IN
    /\ Request[c].op = "put" /\ Pending(c)
    /\ \/ Answers(c, "ok") /\ store' = [store EXCEPT ![o] = Request[c].value]
       \/ Answers(c, "storage_error") /\ store' \in {store, [store EXCEPT ![o] = Unsure]}

ServeGet(c) ==
    /\ Request[c].op = "get" /\ Pending(c)
    /\ \/ Answers(c, store[Request[c].object])
       \/ store[Request[c].object] = Unsure /\ \E a \in Values \cup {Absent, Unsure} : Answers(c, a)
       \/ Answers(c, "storage_error")
    /\ UNCHANGED store

\* A removal that fails may have hidden the object all the same.
ServeDelete(c) ==
    LET gone == [store EXCEPT ![Request[c].object] = Absent] IN
    /\ Request[c].op = "delete" /\ Pending(c)
    /\ \/ Answers(c, "ok") /\ store' = gone
       \/ Answers(c, "storage_error") /\ store' \in {store, gone}

\* The process dies: no call under way is answered, and the one that was being
\* served leaves its object unsure, or gone when it is a removal.
Crash ==
    /\ call' = [c \in Calls |-> IF Pending(c) THEN "lost" ELSE call[c]]
    /\ \/ UNCHANGED store
       \/ \E c \in Calls :
             /\ Pending(c) /\ Request[c].op # "get"
             /\ store' = [store EXCEPT ![Request[c].object] =
                              IF Request[c].op = "put" THEN Unsure ELSE Absent]
    /\ UNCHANGED answer

Next ==
    \/ \E c \in Calls : \/ Send(c) \/ Refuse(c) \/ Drop(c)
                        \/ ServePut(c) \/ ServeGet(c) \/ ServeDelete(c)
    \/ Crash

Spec == Init /\ [][Next]_vars
=============================================================================
