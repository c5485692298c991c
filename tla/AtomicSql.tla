------------------------------- MODULE AtomicSql -------------------------------
(***************************************************************************)
(* What a database promises to the functions that share it: a statement, a *)
(* batch or a migration is applied as a whole, at the instant of its       *)
(* answer, or not at all, and then the answer is an error.  There is no    *)
(* thread, no queue, no lock and no transaction here; module Sql is shown  *)
(* to implement it.                                                        *)
(*                                                                         *)
(* There is one exception.  A statement that wrote, and whose row cannot   *)
(* be decoded, is answered first and applied afterwards.  Nothing comes    *)
(* in between: it is open, and no other call is applied meanwhile; if the  *)
(* process dies it is not applied at all.                                  *)
(***************************************************************************)
EXTENDS Naturals, Sequences

CONSTANTS Calls,
          Request,       \* what each call asks for
          OneMigrator,   \* whether one thread applies all migrations
          NoAnswer

VARIABLES log,       \* the statements that were applied, in order
          version,   \* how many migrations were
          open,      \* calls that are answered and yet to be applied
          call, answer

vars == <<log, version, open, call, answer>>

Body(c) == Request[c].body
Is(c, kind) == Request[c].kind = kind
Pending(c) == call[c] \in {"waits", "dropped"}

Init ==
  /\ log = <<>> /\ version = 0 /\ open = {}
  /\ call \in [Calls -> {"new", "lost"}]
  /\ answer = [c \in Calls |-> NoAnswer]

Send(c) ==
  /\ call[c] = "new"
  /\ call' = [call EXCEPT ![c] = "waits"]
  /\ UNCHANGED <<log, version, open, answer>>

Drop(c) ==
  /\ call[c] = "waits"
  /\ call' = [call EXCEPT ![c] = "dropped"]
  /\ UNCHANGED <<log, version, open, answer>>

(* A caller that is gone is not told.                                      *)
Answers(c, a) ==
  /\ call' = [call EXCEPT ![c] = IF @ = "dropped" THEN "lost" ELSE "answered"]
  /\ answer' = [answer EXCEPT ![c] = IF call[c] = "dropped" THEN NoAnswer ELSE a]

Fails(c) ==
  /\ call[c] = "new" \/ Pending(c)
  /\ Answers(c, "error")
  /\ UNCHANGED <<log, version, open>>

(* Nothing to write: a read, an empty batch, migrations that were applied. *)
Passes(c) ==
  /\ Pending(c)
  /\ \/ Is(c, "exec") /\ Body(c) = <<"read">>
     \/ Is(c, "batch") /\ Body(c) = <<>>
     \/ Is(c, "migrate") /\ Body(c) # <<>> /\ version = Len(Body(c))
  /\ Answers(c, "ok")
  /\ UNCHANGED <<log, version, open>>

(* The statements of c from the one after n on.                            *)
Applied(c, n) == log \o [i \in 1 .. Len(Body(c)) - n |-> [call |-> c, index |-> n + i]]
Writes(c, n) == \A i \in n + 1 .. Len(Body(c)) : Body(c)[i] = "write"

Apply(c) ==
  /\ open = {}
  /\ Pending(c)
  /\ Is(c, "exec") \/ Is(c, "batch")
  /\ Writes(c, 0)
  /\ log' = Applied(c, 0)
  /\ Answers(c, "ok")
  /\ UNCHANGED <<version, open>>

(* Migrations go on from the version of the database, if no other thread   *)
(* applies any.                                                            *)
Migrate(c) ==
  /\ open = {}
  /\ Pending(c)
  /\ Is(c, "migrate")
  /\ \E n \in 0 .. Len(Body(c)) - 1 :
       /\ OneMigrator => n = version
       /\ Writes(c, n)
       /\ log' = Applied(c, n)
  /\ version' = Len(Body(c))
  /\ Answers(c, "ok")
  /\ UNCHANGED open

Undecodable(c) ==
  /\ open = {}
  /\ Pending(c)
  /\ Is(c, "exec") /\ Body(c) = <<"text">>
  /\ open' = {c}
  /\ Answers(c, "text_value_decode_error")
  /\ UNCHANGED <<log, version>>

Close(c) ==
  /\ open = {c}
  /\ open' = {}
  /\ log' = Applied(c, 0)
  /\ UNCHANGED <<version, call, answer>>

Crash ==
  /\ open' = {}
  /\ call' = [c \in Calls |-> IF Pending(c) THEN "lost" ELSE call[c]]
  /\ UNCHANGED <<log, version, answer>>

Next ==
  \/ \E c \in Calls : \/ Send(c) \/ Drop(c) \/ Fails(c) \/ Passes(c)
                      \/ Apply(c) \/ Migrate(c) \/ Undecodable(c) \/ Close(c)
  \/ Crash

Spec == Init /\ [][Next]_vars
=============================================================================
