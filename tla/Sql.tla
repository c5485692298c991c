--------------------------------- MODULE Sql ---------------------------------
(***************************************************************************)
(* The sql threads and one database file.  Statements and batches go to a  *)
(* queue that all threads share; migrations go to the thread that the id   *)
(* of their connection is hashed to, one thread per id.  Each thread keeps *)
(* a connection of its own per id and serves one message at a time.  The   *)
(* connections exclude one another by the write lock of the database,      *)
(* which a thread awaits until its busy timeout, whatever that is.         *)
(*                                                                         *)
(* The database is a log of the statements that were committed.  SQLite is *)
(* in WAL mode: a read takes no lock and a transaction is deferred, so it  *)
(* takes the lock with its first write.  In-memory databases, which lock   *)
(* as a whole, are left out, as are the values of rows and parameters, and *)
(* transactions that a guest begins by an exec and leaves open: no exec or *)
(* batch here is a BEGIN, a COMMIT or a ROLLBACK of its own.               *)
(*                                                                         *)
(* Sources: tasks/sql/mod.rs, tasks/sql/controller.rs, effects/sql.rs and  *)
(* fx-sdk lib.rs, sql.rs, utils/migrations.rs.                             *)
(***************************************************************************)
EXTENDS Naturals, Sequences

CONSTANTS Threads, Calls,
          Connections,   \* ids: a new one for each deployment of a binding
          Shard,         \* the thread that serves the migrations of an id
          Request,       \* what each call asks for
          Casts,         \* sets of calls that may be made together
          MaxCrashes,    \* bound on the crashes of a behaviour
          NoCall, NoAnswer, Nobody

Kinds == {"exec", "batch", "migrate"}

(* "text" writes and returns a text that is not utf-8; "invalid" cannot be *)
(* prepared.  A statement that writes may also fail when it is run.        *)
Statements == {"read", "write", "text", "invalid"}
Writes == {"write", "text"}

(* What a caller can tell apart here: an error by its name says no more of *)
(* the database than that the call had no effect, but for one.             *)
Answer == {"ok", "error", "text_value_decode_error"}

ASSUME SqlAssumption ==
  /\ Shard \in [Connections -> Threads]
  /\ Request \in [Calls -> [kind : Kinds, connection : Connections,
                            body : Seq(Statements), bound : BOOLEAN]]
  /\ \A c \in Calls :
       /\ Request[c].kind = "exec" => Len(Request[c].body) = 1
       /\ Request[c].kind = "migrate" =>
            \A i \in DOMAIN Request[c].body : Request[c].body[i] \in {"write", "invalid"}
  /\ Casts \subseteq SUBSET Calls
  /\ MaxCrashes \in Nat
  /\ NoCall \notin Calls /\ NoAnswer \notin Answer /\ Nobody \notin Threads

VARIABLES
  sql_rx,       \* the queue the threads share
  thread_rx,    \* per thread: its own queue
  connections,  \* per thread: the ids it has a connection for
  at,           \* per thread: where in its loop it is
  current,      \* per thread: the call it serves
  first,        \* per thread: the version its migration started from
  done,         \* per thread: statements run and not committed
  writer,       \* the thread with the write lock
  log,          \* the statements that were committed, in order
  version,      \* user_version of the database
  call,         \* how far each call has come
  answer,       \* what its caller was told
  before,       \* history: the calls that had an answer when this was sent
  crashes

queues == <<sql_rx, thread_rx>>
threadVars == <<connections, at, current, first, done>>
database == <<writer, log, version>>
callVars == <<call, answer, before>>
vars == <<queues, threadVars, database, callVars, crashes>>

Kind(c) == Request[c].kind
Connection(c) == Request[c].connection
Body(c) == Request[c].body

(* Which calls will be made: the others are lost before they begin.        *)
Init ==
  /\ sql_rx = <<>> /\ thread_rx = [t \in Threads |-> <<>>]
  /\ connections = [t \in Threads |-> {}]
  /\ at = [t \in Threads |-> "starts"] /\ current = [t \in Threads |-> NoCall]
  /\ first = [t \in Threads |-> 0] /\ done = [t \in Threads |-> 0]
  /\ writer = Nobody /\ log = <<>> /\ version = 0
  /\ \E cast \in Casts : call = [c \in Calls |-> IF c \in cast THEN "new" ELSE "lost"]
  /\ answer = [c \in Calls |-> NoAnswer]
  /\ before = [c \in Calls |-> {}]
  /\ crashes = 0

-----------------------------------------------------------------------------
(* The callers.                                                            *)

(* Nobody takes the answer for a caller that is gone.                      *)
Answers(c, a) ==
  /\ call' = [call EXCEPT ![c] = IF @ = "dropped" THEN "lost" ELSE "answered"]
  /\ answer' = [answer EXCEPT ![c] = IF call[c] = "dropped" THEN NoAnswer ELSE a]
  /\ UNCHANGED before

Stopped(t) == at[t] = "stopped"
AllStopped == \A t \in Threads : Stopped(t)

Sends(c, kind) ==
  /\ Kind(c) = kind /\ Request[c].bound /\ call[c] = "new"
  /\ call' = [call EXCEPT ![c] = "waits"]
  /\ before' = [before EXCEPT ![c] = {d \in Calls : call[d] = "answered"}]
  /\ UNCHANGED <<threadVars, database, answer, crashes>>

(* SqlController: to whichever thread is free, or to the one of the id.    *)
SendMessage(c) ==
  /\ ~AllStopped
  /\ sql_rx' = Append(sql_rx, c) /\ UNCHANGED thread_rx

SendMessageMigrate(c) ==
  LET t == Shard[Connection(c)] IN
  /\ ~Stopped(t)
  /\ thread_rx' = [thread_rx EXCEPT ![t] = Append(@, c)] /\ UNCHANGED sql_rx

Exec(c) == Sends(c, "exec") /\ SendMessage(c)

Batch(c) == Sends(c, "batch") /\ SendMessage(c)

(* Mutant: migrations share the queue of the other messages.               *)
MigrateAnywhere(c) == Sends(c, "migrate") /\ SendMessage(c)

Migrate(c) == Sends(c, "migrate") /\ SendMessageMigrate(c)

BindingNotFound(c) ==
  /\ call[c] = "new" /\ ~Request[c].bound
  /\ Answers(c, "error")
  /\ UNCHANGED <<queues, threadVars, database, crashes>>

(* The queue has no receiver.  A caller whose message is in a queue is not *)
(* told when its receivers go: the senders keep the queue and its oneshot. *)
RuntimeShutdown(c) ==
  /\ call[c] = "new" /\ Request[c].bound
  /\ IF Kind(c) = "migrate" THEN Stopped(Shard[Connection(c)]) ELSE AllStopped
  /\ Answers(c, "error")
  /\ UNCHANGED <<queues, threadVars, database, crashes>>

(* The request that made the call ends or times out; its message stays.    *)
Drop(c) ==
  /\ call[c] = "waits"
  /\ call' = [call EXCEPT ![c] = "dropped"]
  /\ UNCHANGED <<queues, threadVars, database, answer, before, crashes>>

-----------------------------------------------------------------------------
(* The loop of a thread.                                                   *)

Start(t) ==
  /\ at[t] = "starts"
  /\ at' = [at EXCEPT ![t] = "idle"]
  /\ UNCHANGED <<queues, connections, current, first, done, database, callVars, crashes>>

(* The directory cannot be made.  The messages in its queue stay there.    *)
StartFails(t) ==
  /\ at[t] = "starts"
  /\ at' = [at EXCEPT ![t] = "stopped"]
  /\ UNCHANGED <<queues, connections, current, first, done, database, callVars, crashes>>

(* flume::Selector: either queue.                                          *)
Receives(t, c) ==
  \/ /\ sql_rx # <<>> /\ c = Head(sql_rx)
     /\ sql_rx' = Tail(sql_rx) /\ UNCHANGED thread_rx
  \/ /\ thread_rx[t] # <<>> /\ c = Head(thread_rx[t])
     /\ thread_rx' = [thread_rx EXCEPT ![t] = Tail(@)] /\ UNCHANGED sql_rx

(* A connection is kept for good once its pragmas have been set.           *)
Take(t, c) ==
  /\ at[t] = "idle"
  /\ Receives(t, c)
  /\ at' = [at EXCEPT ![t] = "runs"] /\ current' = [current EXCEPT ![t] = c]
  /\ connections' = [connections EXCEPT ![t] = @ \cup {Connection(c)}]
  /\ UNCHANGED <<first, done, database, callVars, crashes>>

(* Mutant: the error ends the thread.                                      *)
ConnectFailsAndEnds(t, c) ==
  /\ at[t] = "idle"
  /\ Receives(t, c)
  /\ Connection(c) \notin connections[t]
  /\ Answers(c, "error")
  /\ at' = [at EXCEPT ![t] = "stopped"]
  /\ UNCHANGED <<connections, current, first, done, database, crashes>>

(* The file cannot be opened, or switched to WAL while others use it.      *)
ConnectFails(t, c) ==
  /\ at[t] = "idle"
  /\ Receives(t, c)
  /\ Connection(c) \notin connections[t]
  /\ Answers(c, "error")
  /\ UNCHANGED <<threadVars, database, crashes>>

Serves(t, kind, phase) == at[t] = phase /\ current[t] # NoCall /\ Kind(current[t]) = kind

(* The message is done with and its answer sent; what is not committed is  *)
(* rolled back when the transaction is dropped.                            *)
Ends(t, a) ==
  /\ Answers(current[t], a)
  /\ at' = [at EXCEPT ![t] = "idle"] /\ current' = [current EXCEPT ![t] = NoCall]
  /\ first' = [first EXCEPT ![t] = 0] /\ done' = [done EXCEPT ![t] = 0]
  /\ writer' = IF writer = t THEN Nobody ELSE writer
  /\ UNCHANGED <<queues, crashes>>

Fails(t, a) == Ends(t, a) /\ UNCHANGED <<connections, log, version>>

Statement(t) == Body(current[t])[first[t] + done[t] + 1]
MoreToRun(t) == first[t] + done[t] < Len(Body(current[t]))
Free(t) == writer \in {Nobody, t}

(* A statement that writes runs under the lock; an exec is then committed  *)
(* by its last step, a transaction by its commit.                          *)
RunsWrite(t, phase) ==
  /\ Statement(t) \in Writes /\ Free(t)
  /\ writer' = t
  /\ done' = [done EXCEPT ![t] = @ + 1]
  /\ at' = [at EXCEPT ![t] = phase]
  /\ UNCHANGED <<queues, connections, current, first, log, version, callVars, crashes>>

Committed(t) ==
  log \o [i \in 1..done[t] |-> [call |-> current[t], index |-> first[t] + i]]

-----------------------------------------------------------------------------
(* SqlMessage::Exec                                                        *)

ExecReads(t) ==
  /\ Serves(t, "exec", "runs") /\ Statement(t) = "read"
  /\ Fails(t, "ok")

(* It cannot be prepared, fails when it runs, or finds the database busy.  *)
ExecFails(t) == Serves(t, "exec", "runs") /\ Fails(t, "error")

ExecWrites(t) == Serves(t, "exec", "runs") /\ RunsWrite(t, "steps")

ExecCommits(t) ==
  /\ Serves(t, "exec", "steps") /\ Body(current[t]) = <<"write">>
  /\ log' = Committed(t)
  /\ Ends(t, "ok")
  /\ UNCHANGED <<connections, version>>

(* Mutant: the statement is dropped before its error is sent.              *)
UndecodableReleasing(t) ==
  /\ Serves(t, "exec", "steps") /\ Body(current[t]) = <<"text">>
  /\ Answers(current[t], "text_value_decode_error")
  /\ at' = [at EXCEPT ![t] = "resets"]
  /\ writer' = Nobody
  /\ UNCHANGED <<queues, connections, current, first, done, log, version, crashes>>

(* A row that cannot be decoded ends the loop over the rows: the error is  *)
(* sent while the statement that wrote is still open.                      *)
Undecodable(t) ==
  /\ Serves(t, "exec", "steps") /\ Body(current[t]) = <<"text">>
  /\ Answers(current[t], "text_value_decode_error")
  /\ at' = [at EXCEPT ![t] = "resets"]
  /\ UNCHANGED <<queues, connections, current, first, done, database, crashes>>

(* Then the statement is dropped, which commits what it wrote.             *)
Reset(t) ==
  /\ at[t] = "resets"
  /\ log' = Committed(t)
  /\ writer' = IF writer = t THEN Nobody ELSE writer
  /\ at' = [at EXCEPT ![t] = "idle"] /\ current' = [current EXCEPT ![t] = NoCall]
  /\ done' = [done EXCEPT ![t] = 0]
  /\ UNCHANGED <<queues, connections, first, version, callVars, crashes>>

-----------------------------------------------------------------------------
(* SqlMessage::Batch                                                       *)

BatchRuns(t) ==
  /\ Serves(t, "batch", "runs") /\ MoreToRun(t)
  /\ Statement(t) = "write" /\ RunsWrite(t, "runs")

(* A statement fails, returns rows or finds the database busy (which is    *)
(* reported as a failed statement), or the commit fails.                   *)
BatchFails(t) == Serves(t, "batch", "runs") /\ Fails(t, "error")

BatchCommits(t) ==
  /\ Serves(t, "batch", "runs") /\ ~MoreToRun(t)
  /\ log' = Committed(t)
  /\ Ends(t, "ok")
  /\ UNCHANGED <<connections, version>>

-----------------------------------------------------------------------------
(* SqlMessage::Migrate: rusqlite_migration reads user_version, and applies *)
(* what is beyond it in one transaction.                                   *)

(* Mutant: the version is taken for the index of the last migration.       *)
ReadVersionAsIndex(t) ==
  /\ Serves(t, "migrate", "runs") /\ version < Len(Body(current[t]))
  /\ first' = [first EXCEPT ![t] = version - 1]
  /\ at' = [at EXCEPT ![t] = "migrates"]
  /\ UNCHANGED <<queues, connections, current, done, database, callVars, crashes>>

ReadVersion(t) ==
  LET goal == Len(Body(current[t])) IN
  /\ Serves(t, "migrate", "runs")
  /\ \/ (goal = 0 \/ version > goal) /\ Fails(t, "error")
     \/ goal > 0 /\ version = goal /\ Fails(t, "ok")
     \/ /\ version < goal
        /\ first' = [first EXCEPT ![t] = version]
        /\ at' = [at EXCEPT ![t] = "migrates"]
        /\ UNCHANGED <<queues, connections, current, done, database, callVars, crashes>>

MigrateRuns(t) ==
  /\ Serves(t, "migrate", "migrates") /\ MoreToRun(t) /\ RunsWrite(t, "migrates")

MigrateFails(t) == Serves(t, "migrate", "migrates") /\ Fails(t, "error")

MigrateCommits(t) ==
  /\ Serves(t, "migrate", "migrates") /\ ~MoreToRun(t)
  /\ log' = Committed(t)
  /\ version' = Len(Body(current[t]))
  /\ Ends(t, "ok")
  /\ UNCHANGED connections

-----------------------------------------------------------------------------
(* The process dies and comes back: the file keeps what was committed.     *)
Crash ==
  /\ crashes < MaxCrashes
  /\ crashes' = crashes + 1
  /\ sql_rx' = <<>> /\ thread_rx' = [t \in Threads |-> <<>>]
  /\ connections' = [t \in Threads |-> {}]
  /\ at' = [t \in Threads |-> "starts"] /\ current' = [t \in Threads |-> NoCall]
  /\ first' = [t \in Threads |-> 0] /\ done' = [t \in Threads |-> 0]
  /\ writer' = Nobody
  /\ call' = [c \in Calls |-> IF call[c] \in {"waits", "dropped"} THEN "lost" ELSE call[c]]
  /\ UNCHANGED <<log, version, answer, before>>

Thread(t) ==
  \/ Start(t) \/ StartFails(t)
  \/ \E c \in Calls : Take(t, c) \/ ConnectFails(t, c)
  \/ ExecReads(t) \/ ExecFails(t) \/ ExecWrites(t) \/ ExecCommits(t)
  \/ Undecodable(t) \/ Reset(t)
  \/ BatchRuns(t) \/ BatchFails(t) \/ BatchCommits(t)
  \/ ReadVersion(t) \/ MigrateRuns(t) \/ MigrateFails(t) \/ MigrateCommits(t)

Next ==
  \/ \E c \in Calls : \/ Exec(c) \/ Batch(c) \/ Migrate(c)
                      \/ BindingNotFound(c) \/ RuntimeShutdown(c) \/ Drop(c)
  \/ \E t \in Threads : Thread(t)
  \/ Crash

Spec == Init /\ [][Next]_vars

(* Every thread is scheduled, and SQLite returns, at the latest when the   *)
(* busy timeout is over.                                                   *)
FairSpec == Spec /\ \A t \in Threads : WF_vars(Thread(t))

-----------------------------------------------------------------------------
TypeOK ==
  /\ sql_rx \in Seq(Calls) /\ thread_rx \in [Threads -> Seq(Calls)]
  /\ connections \in [Threads -> SUBSET Connections]
  /\ at \in [Threads -> {"starts", "idle", "runs", "steps", "resets",
                         "migrates", "stopped"}]
  /\ current \in [Threads -> Calls \cup {NoCall}]
  /\ first \in [Threads -> Nat] /\ done \in [Threads -> Nat]
  /\ writer \in Threads \cup {Nobody}
  /\ log \in Seq([call : Calls, index : Nat \ {0}]) /\ version \in Nat
  /\ call \in [Calls -> {"new", "waits", "dropped", "answered", "lost"}]
  /\ answer \in [Calls -> Answer \cup {NoAnswer}]
  /\ before \in [Calls -> SUBSET Calls]
  /\ crashes \in 0..MaxCrashes

Logged(c) == \E i \in DOMAIN log : log[i].call = c

(* Of a batch or a migration the database has every statement, next to one *)
(* another and once, or none; all of them when the caller was told ok, and *)
(* none when it was told of an error, busy databases, broken statements    *)
(* and crashes included.  The exception is a row that cannot be decoded.   *)
TransactionsAreWhole ==
  /\ \A i, j \in DOMAIN log : log[i] = log[j] => i = j
  /\ \A i \in DOMAIN log :
       LET c == log[i].call IN
       /\ log[i].index < Len(Body(c)) =>
            i + 1 \in DOMAIN log /\ log[i + 1] = [call |-> c, index |-> log[i].index + 1]
       /\ log[i].index > 1 /\ Kind(c) = "batch" =>
            i > 1 /\ log[i - 1] = [call |-> c, index |-> log[i].index - 1]
  /\ \A c \in Calls :
       /\ answer[c] = "ok" /\ Kind(c) # "migrate" /\ Body(c) # <<>> => 
            Logged(c) \/ Body(c) = <<"read">>
       /\ answer[c] = "error" => ~Logged(c)

Migration(i) == i \in DOMAIN log /\ Kind(log[i].call) = "migrate"

OneShard ==
  \A i, j \in DOMAIN log : Migration(i) /\ Migration(j) =>
    Shard[Connection(log[i].call)] = Shard[Connection(log[j].call)]

(* Guests on all workers ask for the same migrations at once.  Those of    *)
(* one connection id are served by one thread, so each is applied once and *)
(* in order, and a caller who is told ok finds its version.  (Two ids, of  *)
(* an old and a new deployment, are not protected from each other.)        *)
MigrationsRunOnce ==
  OneShard =>
    /\ \A i, j \in DOMAIN log :
         Migration(i) /\ Migration(j) /\ i < j => log[i].index < log[j].index
    /\ \A c \in Calls :
         Kind(c) = "migrate" /\ answer[c] = "ok" => Len(Body(c)) <= version

(* Whichever threads serve them, a call takes effect after every call that *)
(* was answered before it was sent, the answer being an error or not.      *)
OrderedAsAnswered ==
  \A i, j \in DOMAIN log : log[i].call \in before[log[j].call] => i < j

(* A call ends once one of the threads that take it from its queue serves: *)
(* any thread, or that of its connection for a migration.  Locks, broken   *)
(* statements and threads that could not start do not keep it waiting.     *)
(* When no such thread ever starts, the calls that were queued before wait *)
(* until their guests are dropped.                                         *)
Takes(t, c) ==
  /\ at[t] \notin {"starts", "stopped"}
  /\ Kind(c) = "migrate" => t = Shard[Connection(c)]

EveryCallEnds ==
  \A c \in Calls :
    call[c] = "waits" /\ (\E t \in Threads : Takes(t, c)) ~> call[c] # "waits"

(* The threads, with their queues, connections and transactions, implement *)
(* the atomic database: a call that was answered but for its text is open  *)
(* until its statement is reset.                                           *)
Open == {current[t] : t \in {u \in Threads : at[u] = "resets"}}
OneMigrator ==
  \E t \in Threads : \A c \in Calls : Kind(c) = "migrate" => Shard[Connection(c)] = t

Atomic == INSTANCE AtomicSql WITH open <- Open

ImplementsAtomicSql == Atomic!Spec
=============================================================================
