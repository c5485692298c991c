# fx runtime: specifications and proofs

fx runs wasm functions: a server loads them from definition files, serves http
requests and cron triggers with them, and gives them a key-value store, blobs,
SQLite databases, http and metrics. This directory holds TLA+ models of the
runtime (`fx-runtime/`) and of the part of the SDK that talks to it
(`fx-sdk/`), the TLC configurations that check them on small instances, and
TLAPS proofs of the most important results for every value of the constants.

`PROJECT.json` is the index: components, runs, the lines each definition
models, the hazards of the code with the properties that cover them, and the
theorems. Run `tlc -config X.cfg M.tla` and `tlapm M.tla` in this directory.


## 1. The system

### Threads and queues

`server/fx_server.rs` starts the threads once; they share no memory beyond a
logger and the wasmtime engine, and talk over unbounded `flume` channels.

| part | thread(s) | state it keeps | operations |
| --- | --- | --- | --- |
| worker loop (`tasks/worker/task.rs`) | N (4) | `functions`, `function_deployments`, `http_hosts`, `http_default` | deploy, remove, invoke, open connections, flush metrics |
| function instance (`function/deployment.rs`, `function/instance.rs`, `resources/future.rs`) | on its worker | the store and its mutex, `has_panicked`, resource table, queue of background tasks | invoke, poll, drain background tasks, re-instantiate, drop |
| http trigger (`triggers/http.rs`) | on its worker | nothing | host lookup, 20-second timeout |
| definitions monitor (`definitions/monitor.rs`) | management | `deployed_state`, watcher | scan, watch, apply_config, remove_function |
| management (`tasks/management`) | 1 | `RuntimeState`, metrics registry | deploy over the api, worker metrics, cron events, invocations |
| compiler | 1 | none | compile, in order of arrival |
| cron (`tasks/cron.rs`, `triggers/cron.rs`) | 1 | entries, `running_tasks`, runs in flight, SQLite table of last runs | add a schedule, a pass over the entries, a finished run |
| key-value store (`tasks/kv.rs`) | 1 | map per namespace, channels | set (nx, px), get, delex, subscribe, publish |
| blobs (`tasks/blob.rs`) | 1 | SQLite index, files | put, get, delete |
| SQL (`tasks/sql`) | N | connections of each thread, the database files | exec, batch, migrate |
| bodies (`function/instance.rs`, `function/abi`, `triggers/http.rs`) | on their workers | stream and frames in the producer's guest, polls in the tables of its readers, the local queue of the worker | fetch, poll a frame, copy it, free it |
| logger, timer | 1 each | none | write a line; increment the epoch every millisecond |
| introspection (`introspection/server.rs`) | 1 | none | pages, `function_remove` |
| SDK (`fx-sdk`) | in the guest | futures, tasks and resources of the guest | handlers, `fetch`, kv, blob, sql, `background` |

How they interact: the monitor compiles a module through the compiler, sends
`FunctionDeploy` to every worker, and sends schedules to cron. A connection is
accepted by whichever worker takes it; the worker finds the function of the host
and hands the request to its deployment. Cron and functions that call functions
send `FunctionInvoke` to a queue that any worker takes from. Cron and the workers
report to management, which owns what the introspection pages show. The effects
(kv, blob, sql) are a message with a oneshot channel for the answer.

### What is hard in it

* **Guest calls are preempted.** A worker is single-threaded, but wasm code
  yields to it in the middle of a call every 10 ms. Everything else of the
  worker may happen meanwhile, other requests of the same instance included; a
  mutex around the store is what keeps two calls apart.
* **Futures are dropped.** A timeout or a disconnect drops a request in any
  state: holding the mutex, in an instantiation, in the drain after its answer.
* **Panics replace the instance** under requests that hold a snapshot of it.
* **Workers take messages at their own pace**, so two versions of a function
  serve for a while, and a removal is complete only when all have taken it.
* **Cron** has to neither lose nor double a run across redeployments, failures,
  timeouts and restarts; one path forgets to release a task.
* **Leases** expire by the clock while late releases are still in a queue.
* **Two stores with no transaction over them** hold a blob: a row of an index and
  a file, which fail, and are cut off by a crash, one without the other.
* **SQL calls race for one file** from several threads. Migrations are kept apart
  by the shard of a connection id only, and one path answers before it commits.
* **A body is shared memory.** The instance that produces it, the readers that
  hold pointers into it and the worker loop that frees it take one mutex, two of
  the three with a timer.
* **Definitions** arrive from a file scan and over an api, both await in the
  middle, and there is no transaction over workers, cron and the recorded state.
* **Waits without a timer.** The loop of a worker awaits instantiations and the
  mutex of a guest, a removal awaits all workers, a call awaits a thread that may
  have ended, the queue of which outlives it.

`PROJECT.json` lists every such hazard at its line with the properties that
cover it, or a note that says why none does.

### What makes each component correct

* instance: one guest call in a store at a time; a background task is polled
  where it was created, and is started once its request is answered, though the
  instance was replaced meanwhile; every http request settles;
* cron: at most one run per task; a failing run does not wedge its task; a
  scheduled instant is not counted twice, nor across a restart; a due task runs
  whatever the others do; the page does not show a run for ever;
* routing: routes lead to deployments that exist; tables are a function of the
  messages taken; a removal that returned holds; a redeployment takes no host
  from service that it does not mean to (but its worker takes no request while
  it instantiates);
* key-value store: calls are atomic; a lock has one holder until its lease is
  over; subscribers miss nothing; every call is answered;
* definitions: no edit of a definition that was seen is forgotten, nor of its
  code before it is read; `deployed_state` says what was deployed; workers and
  cron have the same version; a request is answered while the loop runs;
* blobs: what was answered is what is stored; a failed or interrupted call
  spoils its own object only, until the next call that succeeds;
* SQL: a transaction is there whole or not at all; a migration runs once; a call
  is after those that were answered before it was sent;
* bodies: each frame is read once, in order, and freed once, after it was read;
  the loop that frees them goes on.


## 2. Modules

| module | extends / uses | what it is |
| --- | --- | --- |
| `FunctionInstance` | | a deployment on one worker |
| `FunctionInstanceProofs` | `FunctionInstance` | its theorems |
| `AtomicCron` | | what cron promises to the functions it calls |
| `Cron` | instantiates `AtomicCron` | the cron thread, its table, its events |
| `CronProofs` | `Cron` | its theorems, the refinement included |
| `Routing` | | deployments and removals on all workers |
| `Deployment` | `Routing`, instantiates `Definitions` | from a definition file to a request served |
| `DeploymentProofs` | `Deployment`, instantiates `DefinitionsProofs` | the theorems of `Routing` and of the composition |
| `AtomicKv` | | what the key-value store promises |
| `Kv` | instantiates `AtomicKv` | the key-value thread and its clients |
| `KvProofs` | `Kv` | its theorems, the refinement included |
| `Definitions` | | files and api requests become deployments |
| `DefinitionsProofs` | `Definitions` | its theorems |
| `AtomicBlob` | | what the blob store promises |
| `Blob` | instantiates `AtomicBlob` | the blob thread, its index and files, crashes |
| `BlobProofs` | `Blob` | its theorems, the refinement included |
| `AtomicSql` | | what a database promises |
| `Sql` | instantiates `AtomicSql` | the sql threads, their queues, one database file |
| `SqlProofs` | `Sql` | its theorems, the refinement included |
| `Streams` | | bodies, their readers and the worker loop |
| `StreamsProofs` | `Streams` | its theorems |
| `MCFunctionInstance`, `MCCron`, `MCDeployment`, `MCKv`, `MCDefinitions`, `MCBlob`, `MCSql`, `MCStreams` | the modules above | small instances for TLC |

A comment that begins "Mutant" or "A mutant" marks a definition that is not part of the
model: a plausible bug, defined before the operation it distorts, and used to
confirm that a property can fail.

### FunctionInstance

One action runs from one await of the code to the next. `progress[r]` is the
state of `RequestHandleFuture`: created with a snapshot of `deployment.instance`
(`HttpCall`, `FunctionInvoke`); at its first poll it goes on with the snapshot
or instantiates (`FirstPoll`, `Instantiated`, `InstantiationFails`); it inserts
the request, waits for the mutex, invokes (`InvokeStarts` to `InvokeReturns` or
`InvokeTraps`), polls the response (`PollStarts`, `PollPending`, `Wake`,
`PollReady`, `PollTraps`), and drains the background tasks. `store[i]` is the
owner of the mutex of instance i. A call has a beginning and an end because
the epoch callback yields inside it; between the two anything may happen.
`Cancel` is the drop of the future (timeout or disconnect). Background tasks
have the same life in `task[t]`.

What the reading turned up, and the model keeps:

* the second acquisition of the mutex directly follows the release of the first,
  so it practically never finds it busy; `StoreLockTimeout` needs an owner;
* the drain after the answer waits for the mutex without a timer of its own;
* a trap that is not a panic does not flag the instance;
* a request that already waits for the mutex when the holder panics still enters
  the flagged instance: the flag is read once, at the first poll;
* two requests with a flagged snapshot both instantiate, and the later one
  replaces an instance that may already serve;
* the tasks of a request that panicked or was dropped stay queued until another
  request of that instance drains them.

### Cron and AtomicCron

`RunTasks` is one pass over the entries, `FirstPoll` a run up to its call
(with the four branches: no next run, nobody to report to, an endpoint that is
no uri, the call), `Succeed` and `Fail` its end, `HandleCronEvent` the
management thread. `ApplyConfig` with `ScheduleAdd` is a redeployment, which
keeps the old entries; `ManagementPanics` and `CronStops` are the ends of those
threads, `Restart` the process with its table. The instants of a schedule are a
set of numbers.

Abstracted: the timer is reset to at most a second ahead in every branch, so it
is modelled as always armed; the call is answered well, badly or not at all.
The "last run" list shown on a page is left out. The time of a run is taken
when it ends, so instants that pass during a run are skipped: the code's choice,
kept by the model.

`AtomicCron` has no timer, passes, duplicate entries or set of running tasks: a
task is called when it is due by the row of its last run and no other call of it is
in flight, the answer moves the row to its own time, a failure leaves the task due,
and the end of the thread or the process keeps the rows only.
`Cron!ImplementsAtomicCron` is its specification with the triggers of the entries
read as what is scheduled and the invoked runs as the calls. A run that is created,
or returns before its call, is nothing there.

### Routing

`sent` is the history of messages, a deployment id is a position in it, and
`messages_rx[w]` what worker w has still to take. The management thread sends to
all workers without yielding (`send_async` on an unbounded channel is ready at
once), so `Send` is one step. A deployment is two steps on a worker
(`DeployStarts`, then `DeployEnds` or `DeployFails`), as its loop takes nothing
else while it instantiates; a removal is one. `RemovalReturns` is the answer of
the management api. Old deployments stay in `function_deployments`: the code
has a TODO to clean them up.

### Deployment

`Definitions` and `Routing` meet here, with their own variables and two more:
`configs`, the config of each message, and `hung`, the workers whose loop goes no
further (`Hangs`): in an instantiation, as a start function has no timeout, or in
`bytes_drop`, for the reasons `Streams` gives, or because it has ended. The management thread is what sends: the
end of an application (`Deliver`) puts one deployment in every queue, the end of
a pass (`Reconciled`) a removal for each function that is gone, a call of the
management api (`RemovedOverApi`) one removal whose answer it awaits
(`AnswersRemoval`). Everything else the management thread does (`Prepares`)
leaves the workers alone, and a worker (`Serves`) leaves the management thread
alone. `ListenersOf` reads the listeners off a config. A removal over the api
names any function, known or not, as the code asks nothing before it sends.

An api call that waits for its removal is resumed by the management thread's
executor: after a panic of that thread it is not. It waits for every worker, with no
timeout, so one that hangs keeps it waiting. `RemovalCompletes` names both.

While a worker instantiates, its loop accepts no connection and takes no invocation:
that is what `docs/todo.md:4` means by a function that is not available during a
redeploy. `HostsStayServed` does not contradict it. It speaks of the tables, which
the requests of connections that are already open are looked up in.

### Kv and AtomicKv

A client is one request of a function: one call at a time, at most one
subscription, given up at any moment (`GiveUp`), in which case its message stays
in the queue and takes effect. `Handle` is one iteration of `run_kv_task`. The
host reads a clock; a lease is a number of clock units that crosses the wire in
whole milliseconds (`WholeMs`), so that one below a millisecond becomes 0, and 0
means no lease. An entry whose lease is over stays in the map, and `nx`,
`get` and `delex` deal with it. `lease` is a history variable: the end of the
lease a client was granted, 0 from the moment it asks for the release.

The proper use of a lock (`UsesLocksProperly`) is the idiom of the repository's
test application: take it with `nx`, under a value nobody else uses, release it
with `delex_ifeq` of that value. It is an assumption on the requests, and the
lock properties are about clients that follow it.

`AtomicKv` has no queue and no expired entries: a call takes effect at one
instant between the call and the answer. `Kv!ImplementsAtomicKv` is its
specification with `store` read as the entries that have not expired.

Assumed: the clock does not go back. The code reads `SystemTime`, which an
administrator may set back; expired entries then come to life again.

### Definitions

Two tasks of the management thread apply configs: `"scan"` and `"api"`. `job[a]`
is the application task a is in, and its phases are the awaits of
`apply_config`: the code is to be read (`ReadCode`), has been read
(`SendToCompiler`), is with the compiler (`Compile`), has come back. The rest,
from the first worker to the cron thread, has no await that waits, so the end of
an application is one step: `Deployed`, `CompileFails`, `CronIsGone`, or one of
the panics. The one exception is the env files, read before anything is sent; a
file that cannot be read ends in a `todo!()` (`EnvPanics`).

A pass is `StartPass` (the snapshot `prev_state`, the walk), `Visit` per file and
`EndPass`. `event` is an edit the watcher has still to tell of, `dirty` the
unseen value of the watch channel. A walk surely finds what was there when it
began and may find what came later. `running[f]` is the last message about f to
the workers, with its config and code, `scheduled[f]` the config cron has. `unseen`,
`failed` and `recoded` are history variables: edits nobody watched, the last refusal,
and the functions whose code was edited since it was last read for the scan.

`LoopStops` is the end of the management loop: when the cron thread is gone its
event channel closes, and the loop breaks at its next select, with requests still
queued that nobody will take.

What the reading turned up, and the model keeps:

* an entry of `deployed_state` never goes, so the removal loop at the end of a
  pass has nothing to remove (`Forgotten` is always empty);
* a deployment over the api, or a removal, is not recorded in `deployed_state`:
  the file is not applied again until it changes;
* a schedule is parsed after the workers were sent the deployment, and a bad one
  panics the thread: workers run the new version, cron the old one;
* a code file that is missing is an error if the config does not name it, and a
  panic if it does;
* an edit of the wasm file alone makes for a pass that compares the configs, finds
  them equal and does nothing (`docs/todo.md:10`): the new code is deployed with the
  next edit of the definition;
* when cron is gone a pass ends, though the log says that the monitor does, and
  the management loop ends without its thread: what is queued stays unanswered.

Parts of a config that cannot make a difference to these steps (bindings,
limits, listeners) are left out, and so are the lists for introspection.


### Blob and AtomicBlob

The thread serves one message at a time, in two steps: `phase` says whether it is
at the statement of the index (`"index"`) or at the file (`"file"`). `rows` is
the index, `files` what is at the path of each object: a value, `Torn` (a part of
one), or nothing. Every step may fail on its own (`IndexFails`, `PutFileFails`,
`GetFileFails`, `RemoveFileFails`), the thread may fail to start, a caller may be
dropped while it waits, and `Crash` may come between any two steps. A call is
answered with a value, with the guest's error, or by a panic: a put or a delete
unwraps its binding, and every call unwraps the channel of a thread that is gone.

`settled` is a history variable: what the answers given so far say of an object,
or `Unsure` when the last call that changed it failed or was cut off.
`AtomicBlob` is the store a caller may imagine: every call takes effect in one
step, a failed put leaves its object unsure, a failed delete may have hidden it.
`Blob!AtomicSpec` is its specification with `store` read as `settled`.

What the reading turned up, and the model keeps:

* a put writes its row first: when the file then fails, a read finds the row and
  a missing, old or torn file, and a torn one is returned as if it were whole;
* a delete removes its row first: when the file then fails, the guest is told of
  an error though the object is gone, and the file stays until the next put;
* a put that fails before it opens the file makes such a forgotten file readable
  again, so `Unsure` includes values that were deleted;
* when the index cannot be opened the thread ends, but `flume` keeps what is queued
  while the workers have senders: a call that was queued before waits until its guest
  is dropped, one that comes later panics. `EveryCallEnds` promises the former
  nothing.

Left out: the loss of power. The files are never synced, so an acknowledged put
may be lost with the page cache; a crash is that of the process.

### Sql

`sql_rx` is the queue all threads share, `thread_rx[t]` the one of thread t:
statements and batches go to the first, migrations to the second, by the hash of
their connection id (`Shard`). `at[t]` is where a thread is in its loop. The
database is one file in WAL mode: `log` holds the statements that were committed,
`writer` the thread with the write lock, which a deferred transaction takes with
its first write. A thread that waits for the lock is one whose step is not
enabled, or whose `ExecFails`, `BatchFails` or `MigrateFails` is the busy error
after its timeout. `Crash` keeps `log` and `version` and nothing else.

`Casts` are the sets of calls that may be made together; TLC explores one cast at
a time and the theorems hold for any. `before[c]` is a history variable: the calls
that had their answer when c was sent.

What the reading turned up, and the model keeps:

* `rusqlite_migration` reads the version outside the transaction that applies the
  migrations. One id is served by one thread, so nothing comes between the two;
  two ids of one file, of an old and a new deployment, are not kept apart, and
  `MigrationsRunOnce` is about one shard (`OneShard`);
* a text that cannot be decoded ends the loop over the rows and sends the error
  while the statement is open; dropping the statement then commits what it wrote
  (`Undecodable`, `Reset`). `TransactionsAreWhole` names this answer as its
  exception, and `OrderedAsAnswered` says that the late commit still comes before
  any call sent after the answer, as the write lock is kept;
* the write lock that orders everything else also hides that late commit: no call
  can be applied between such an answer and its commit, and a crash in between
  loses what the caller, told of an error, cannot count on;
* a batch reports a busy database as a failed statement;
* a thread that cannot make its directory leaves its queue behind, as in `Blob`:
  who waits in it, or in the shared queue when no thread has started, is not told
  `RuntimeShutdown`, which only later calls are.

`AtomicSql` has no threads, queues, locks or transactions: a call is applied as a
whole at the instant of its answer, or fails and leaves nothing; a migration goes
on from the version of the database, if one thread applies them all
(`OneMigrator`). Its one concession is `open`, a call that was answered with the
decoding error and is yet to be applied, with nothing applied in between.
`Sql!ImplementsAtomicSql` is its specification with `open` read as the calls
whose thread is about to reset its statement (`Open`).

Left out: in-memory databases, which lock as a whole, the values of rows and
parameters, and transaction control sent as a statement. A `BEGIN` through `exec`
would leave a transaction open on the connection of whichever thread took it, across
the messages of others; the statements of the model are reads and writes.

### Streams

A reader is an http connection (`Clients`) or a guest that fetched the function
(`Guests`). `reader[r]` is how far it has come, `poll[r]` its poll for a frame:
none, waiting for the producer's mutex, in the guest call, or with a frame that
the call has yielded. `bytes` are the frames in the producer's table, `held[r]`
the pointers the host has to them. A reader that is done with a frame drops it,
which sends a message to its worker (`messages`), whose loop takes the mutex and
calls `bytes_drop` (`LoopTakes`, `LoopLocks`, `LoopFrees`). `got` is a history
variable. The other uses of the mutex are `Visit` and `VisitEnds`. `waiters` are
those who sleep until the mutex is unlocked: an unlock wakes one of them, who takes
the mutex if it is still free and sleeps again if it is not, and a wait that is
dropped after it was woken wakes another (`futures_intrusive::sync::LocalMutex`).

What the reading turned up, and the model keeps:

* the mutex of the store is made an unfair one (`LocalMutex::new(store, false)`):
  whoever finds it free takes it;
* the loop awaits the mutex with no timer, so connections, deployments and
  removals wait with it;
* the poll of a guest's body lies in the host's table of that guest and moves only
  while the guest polls. When the guest's request is dropped the poll stays, and
  may hold the producer's mutex for ever (`Stuck`). Or it waits for the mutex and is
  the one that an unlock wakes: it is not polled, the mutex stays free, and the loop
  sleeps until somebody else takes and releases it (`WakeUpLost`). These are the
  exceptions of `MessagesAreServed`;
* the guest borrows its tables while it polls a stream. A call that is cut off, or
  panics, there leaves them borrowed (`borrowed`), and every later call of that
  guest traps; frames then stay in it, and the loop logs the error and goes on.

Left out: bodies that a host stream produces (an upload, a fetch of another host),
which have no producer to share, and the response future and stream handle, which
stay in the guest's table after use.


## 3. Runs

| run | what it shows | states |
| --- | --- | --- |
| `instance` | two http requests, one invoked request, one background task, three instances: type, exclusive store, tasks at home and started once their request is answered, and that http requests settle | 483,703 |
| `instance_cancelled_call` | **violation**: a dropped call is not executed to completion before the instance does something else | |
| `instance_early_task` | **violation**: a background task may run before its request has its answer | |
| `cron` | three entries, two tasks, failing and hanging runs, an unreadable table, a restart; refinement of the atomic scheduler | 61,617 |
| `cron_early_return` | **violation**: an early return of a run leaves its task unscheduled for ever | |
| `deployment` | two workers, two functions, one host and the default route, three messages: a definition that is edited, a deployment over the api, removals, a schedule that panics the management thread, failing instantiations, a worker that hangs | 331,386 |
| `kv` | two casts: a lock with expiring leases, late releases and abandoned calls beside a plain key with a lease; two channels with subscribers and publishers that may be gone at any point; refinement of the atomic store | 129,727 |
| `definitions` | two files and their code, edited twice at any point of the passes, a request over the api for one of them, every way an application can end, a cron thread that stops | 267,859 |
| `definitions_deleted_file` | **violation**: a function whose definition was deleted is not removed | |
| `blob` | two puts, a get and a delete of one object in any order beside a call without a binding, each step failing on its own, dropped callers, one crash; refinement of the atomic store | 126,832 |
| `sql` | two threads, five casts: migrations through one id beside a failing batch, statements that cannot be decoded beside a migration, a batch or a write, a read and an unbound call; one crash, threads that cannot start; refinement of the atomic database | 36,202 |
| `streams` | a connection and a guest, or two guests, that read bodies of one or two frames of one producer, closing, giving up, timing out and trapping at any point | 104,874 |

The four violations are the `findings` of `PROJECT.json`, each with the comment
or the document of the repository it disagrees with.

### Properties

* `FunctionInstance`: `StoreOwnership`, `TasksStayHome`, `AnsweredTasksStart`
  (the tasks of a request that was answered, and not because it trapped, have been
  started, whichever instance the deployment has by then), `HttpRequestSettles`.
* `Cron`: `OneRunPerTask`, `RunningTasksProgress` (a runnable task is reserved
  only while it runs), `ShownRunning` (the events under way lead the page to
  what is true), `ImplementsAtomicCron`, `SchedulesGoOn` (a run ends, and a due task runs whatever the others
  do). The proofs state one consequence as well: `RunsFollowSchedule` (a row is
  replaced only across an instant of the schedule).
* `Routing`: `RoutesResolve`, `RemovedMeansGone`, `TablesFollowMessages` (the
  tables are a function of the messages a worker has taken, its failed
  deployments left out: the last claim of a route has it until its function is
  removed), `HostsStayServed` (an action property: what a worker serves a host with
  stays there, or another function claims the host, until the worker handles a
  removal of the function or a deployment of it without that listener).
* `Deployment`: `EditsAreServed` (from file to route: with the scan quiet, what a
  definition says is what cron has, what was sent last, and what each worker that
  has caught up serves, on the listeners the config asks for), `RemovalCompletes`,
  and `WorkersFollowManagement` (the same from what was sent last on, removals
  included, whatever the scan is at), which is proved and not part of a run.
* `Kv`: `HolderKeepsLock`, `SubscribersMissNothing`, `CallsAreAnswered`,
  `ImplementsAtomicKv`.
* `Definitions`: `QuietMeansApplied` (when the scan has nothing to do, each
  definition it could know of is deployed or was refused, and runs the code its
  file holds unless that was edited after it was read), `EditsAreApplied` (the same
  of definitions as progress), `CronFollowsWorkers`, `RecordedIsRunning`,
  `DeploysAreAnswered`.
* `Blob`: `SettledIsStored` (what the answers say is what index and files hold
  together), `EveryCallEnds` (once the thread serves), `AtomicSpec`.
* `Sql`: `ImplementsAtomicSql`, `MigrationsRunOnce`, `EveryCallEnds` (once a thread
  that may take the call serves). The proofs
  state two consequences a caller sees as well: `TransactionsAreWhole` and
  `OrderedAsAnswered`.
* `Streams`: `FramesAreWhole` (`ReadInOrder`: no frame lost, repeated or out of
  order; `FreedWhenRead`: no pointer to a freed frame, no frame freed twice, none
  left behind), `MessagesAreServed`.

### Bounds, and why they are enough

* `instance`: three requests are the smallest number in which one panics, one
  holds an old snapshot and one re-instantiates; three instances allow two
  re-instantiations, so a replaced instance is replaced again; one background
  task suffices, because a property of tasks is about one task and its guest.
* `cron`: three entries of two tasks give two entries with one id and another
  task that must not be held up; two instants give a run before, at and after a
  scheduled time; one restart is enough to lose everything but the table.
  `MaxEvents` bounds the unread events only when a pass begins, so a run always
  can report.
* `deployment`: two workers give all orders; three messages give deploy, redeploy
  or remove, and a second claim of the same route; one edit makes the two versions
  of a definition, and the config with a bad schedule panics the management thread
  between the workers and cron. The other ends of an application send nothing, and
  are in `definitions`. One worker may hang (`MayHang`), which is enough to keep a
  removal waiting while the other serves. `MaxMessages` bounds what is sent, `Written`
  what a definition is edited to; code is not edited (`Rebuilt` is empty), as that
  sends nothing. The theorems hold for any.
* `kv`: two ticks to the millisecond and three ticks of the clock give a lock that is
  taken, expires and is taken by another while the first release is in the
  queue. `MaxPublished` bounds the messages on a channel, `MaxTime` the clock;
  `Forever` stands for no lease and lies beyond `MaxTime`.
* `definitions`: with two files one can fail while the other is ahead, and two
  edits fall before, in and after one application. A pass and one request of the
  api for the same function put two applications in progress. Four configs give
  every end of an application: one that deploys, one whose code does not compile,
  one with an unreadable env file, one with a bad schedule. `MaxEdits` bounds
  edits and removals, `Written` and `Rebuilt` what definitions and wasm files are
  edited to.
  `Start` is what the files may be at start-up; the theorems hold for any.
* `blob`: two puts, a get and a delete of one object give every order of the three
  operations around a failure; a second object shows what is left alone; one crash,
  as its effect is on one call and the files. `Values` are two, so that an old
  value is not the new one.
* `sql`: two threads are the smallest number that race for the write lock; three
  calls in one cast put two migrations and a batch in progress, which is where
  versions could be read twice. Bodies of two statements can fail halfway, and one
  crash cuts each of them. All eight calls at once would add interleavings of calls
  that meet at the lock in pairs only.
* `streams`: two frames give one that is held while the next is produced; two
  readers compete for the mutex with the loop and with `MaxVisits` other uses. The
  second cast is two guests, whose polls lie in tables of two instances.

Deadlock is not checked, as the instances may come to their bounds and stop.

### Fairness, and why the code justifies it

* `TimerFairSpec` (instance): weak fairness of `Cancel` for http requests only.
  tokio's 20-second timer fires, and a guest that never returns still yields
  every 10 ms, so the timer is polled. Nothing is assumed of guests, nor of
  requests that came as `FunctionInvoke`, which have no timeout of their own.
* `TimerSpec` (cron): weak fairness of the steps of the thread, and strong
  fairness of a pass in which the table can be read: it is readable infinitely
  often. `TimeoutsFire` is assumed for the properties that need it and not for
  the rest: each run has a timeout (one minute if its trigger sets none).
* `DeploymentFairSpec`: each worker takes its messages and each instantiation
  ends, well or badly, unless the worker hangs, which `Hangs` may make it do at any
  point with messages left: the code has no timeout there. An api call is resumed
  while its thread is there. Nothing is assumed of the scan.
* `FairSpec` (kv): the thread goes on taking messages. Nothing is assumed of the
  clients: they need not read their answers.
* `FairSpec` (definitions): the watcher tells of what it saw, either task goes on
  when it can (they are joined on one executor, which polls both), the management
  loop takes a request or, when cron is gone, ends; the compiler
  takes what is queued. A compilation ends: `wasmtime::Module::new` is assumed to.
* `FairSpec` (blob, sql): each thread is scheduled and its disk or SQLite answers,
  with success or an error (SQLite at the latest when its busy timeout is over); a
  worker polls a call whose channel was closed. Nothing is assumed of a thread that
  did not start. A thread waiting for the lock is
  enabled all the while, as a busy error is one of its steps, so nothing is assumed
  of the order in which the lock is given.
* `FairSpec` (streams): weak fairness of the worker loop, of each reader's polls
  and of the other uses of the mutex, per reader; of who waits for the mutex only
  when it was woken. A guest that polls a body goes on
  unless its request ends (`GivesUp`), which needs no fairness. The loop's wait for
  an unfair mutex ends because the frames, and the other uses, are bounded: a
  producer with an endless body and a reader that polls at once each time could
  keep it from the loop, which no code there excludes.


## 4. Proofs

The theorems hold for any number of requests, tasks, instances, entries,
workers, functions, hosts, clients, keys, channels, definition files, configs, blobs,
threads, statements, readers and frames. They assume only the named assumptions of
each module (`InstanceAssumption`, `CronAssumption`, `RoutingAssumption`,
`KvAssumption`, `DefinitionsAssumption`, `DeploymentAssumption`, `SqlAssumption`, `StreamsAssumption`, and
the three of `Blob`), which TLC evaluates in every run. Each
file proves one invariant `IInv` inductive, one step per action, and derives the
theorems from it with one temporal step each.

| theorem | says |
| --- | --- |
| `CronTypeCorrect`, `RoutingTypeCorrect`, `KvTypeCorrect`, `DefinitionsTypeCorrect`, `TypeCorrect` (instance, blob, sql, streams) | the type invariants |
| `StoreOwned`, `GuestCallsExclude` | the mutex is owned exactly by the future with a guest call there; two calls are on different instances |
| `TasksAtHome`, `TasksAreStarted` | tasks are polled where created; those of an answered request have been started |
| `SingleRun`, `RunnableTasksProgress` | one run per task; a runnable task is reserved only while it runs |
| `RowsFollowSchedule` | an action property: a row is replaced across an instant of the schedule, restarts included |
| `CronIsAtomic` | `Cron` implements `AtomicCron` |
| `PageIsTrue` | the events under way lead the page to the tasks that are awaited |
| `RoutesAlwaysResolve`, `RemovalsHold` | routes lead to deployments; what was removed stays removed |
| `HostsKept` | an action property: a host that is served stays served, but for a removal, or a deployment without it, of the function that served it |
| `TablesFollowTheMessages` | the tables of a worker are those its messages leave behind |
| `LockIsHeld`, `OneHolder` | a lock belongs to one client until its lease is over |
| `NothingMissed` | receivers hold what was published, once, in order |
| `KvIsAtomic` | `Kv` implements `AtomicKv` |
| `NoDefinitionIsMissed` | a quiet scan has applied or refused what it could know of, with the code of the files unless that was edited later |
| `NothingIsForgotten` | no pass ever finds a function to remove: the cause of the finding about deleted files |
| `DeploymentDefines`, `DeploymentRoutes` | every behaviour of `Deployment` is one of `Definitions` and one of `Routing`, so what is proved of each holds of both together |
| `WorkersDoAsTold` | a worker that has caught up serves what the management thread said last, and nothing it removed |
| `DefinitionsAreServed` | a quiet scan, and workers that have caught up: each definition is scheduled, was sent last and is served |
| `WorkersAndCronAgree`, `RecordedWasSent` | cron has the version of the workers; what is recorded was sent |
| `Settled` | index and files hold what the blob answers said |
| `Implements` | `Blob` implements `AtomicBlob` |
| `Sql`: `Whole`, `Once`, `Ordered` | transactions are whole, migrations of one shard run once, calls are ordered as answered |
| `SqlIsAtomic` | `Sql` implements `AtomicSql` |
| `Streams`: `Whole` | frames are read in order, once, and freed once, after that |

Why the invariants need strengthening:

* `FunctionInstanceProofs`: `TasksStayHome` speaks of the instance of the
  creator, so `HandlesExist`, `CreatorsAreBound` and `CreatorsAreBorn` say that
  a future holds an existing instance, that a request which created a task is
  past the choice of its instance, and that a task which created another was
  itself created. `AnsweredTasksStart` is inductive with these: a request ends its
  drain by taking the whole queue of its own instance, where `TasksStayHome` says
  its tasks are.
* `CronProofs`: `StartedWhenDue` says that an instant of the schedule lies
  between the row of a task and the pass that started its run in flight: the row
  has not moved since, because only that run moves it (`OneRunPerTask`).
  `RoomForMessage` is the bookkeeping of the bound on entries. The same fact makes
  `CronIsAtomic` go through: when a run at last calls its function, the task is
  still due by the row, and `OneRunPerTask` makes the call the only one. A
  redeployment that doubles an entry adds nothing to the set of triggers
  (`EntriesStay`). For `PageIsTrue`
  the fold over the events is first turned into what it comes to (`Shows`: the last
  event about a task decides, and what is shown now if there is none), which an
  event appended or handled changes in one way each (`ShowsAppend`, `ShowsTail`).
* `DeploymentProofs`, of `Routing`: `QueueIsTail` (a queue is the end of `sent`), `InHand` (what
  a worker instantiates comes just before it), `CurrentIsOwn`,
  `RoutesNameCurrent` (a route names a function that has a deployment),
  `AcknowledgedIsPast` and `ReturnedIsAcknowledged` (a removal that returned is
  behind every worker). `TablesFollowTheMessages` adds `FailedIsHandled`, and turns
  the choice of a latest message into `IsLast`: the message a worker has just
  handled comes after all the others (`Latest`), so it is the last about its function
  and of every host it claims, and of no other. `HostsKept` finds the two steps that
  leave a host without a function (`DeployEndsUnserves`, `RemoveUnserves`); a host
  that has one is served, by `RoutesAlwaysResolve`.
  Of the composition: `DeploymentDefines` and `DeploymentRoutes` map each of its
  steps to a step of either module or to a stutter, so the invariants of both come
  for free, those of `Definitions` through `DP`, its proofs instantiated with the
  variables of `Deployment`. `ManagementInvariance` adds what the two share: the
  last message about a function in `sent` is what `running` records of it, with the
  config in `configs` and its listeners in the message. A worker that has caught up
  has handled every message (`QueueIsTail`), so `TablesFollowMessages` turns that
  into what it serves (`CaughtUpServes`), and `NoDefinitionIsMissed` and
  `WorkersAndCronAgree` lead from the file to it.
* `KvProofs`: `OneMessagePerCall` (a message in the queue is the one call of its
  client), `CallsAreSent` (it is a call the client may make),
  `ReleaseGivesUpClaim` (a client that releases claims nothing, so a late release
  cannot end the claim of another), `NewSubscribers`, `ReceiversLag`.
  `KvIsAtomic` maps every step of the thread to `TakesEffect` of its client, a
  clock tick to one in which leases end, and the rest to a call, to giving up or
  to a stutter.
* `DefinitionsProofs`: `NothingMissed` says at any moment what
  `QuietMeansApplied` says of a quiet scan: a definition is settled, or unheard
  of yet (an edit unseen, an event or a dirty bit on its way), or ahead in the
  pass. It needs `SnapshotHolds` (what `prev_state` says of the files ahead is
  still so: only the scan writes `deployed_state`, for the file in hand, which is
  behind: `JobOfPass`) and `JobIsCurrent` (if the file in hand was edited since
  it was read, that is unheard of). `CodeInv` is the part about code: what the
  workers have of a function, or the scan has read for them, is what its file holds,
  but for the functions in `recoded`. `CompilerQueue` and `RequestInHand` tie the
  queues to the applications.
* `BlobProofs`: `QueueInv` and `CurrentInv` (each pending call is in one place),
  `StepInv` (between the two steps of a call its row is already what it will be,
  which is why the object in hand is exempt in `SettledIsStored`). `Implements`
  maps the last step of a call to `ServePut`, `ServeGet` or `ServeDelete`, a crash
  to one in which the call at its file is unsure or gone, and the rest to a call,
  a refusal, a drop or a stutter.
* `SqlProofs`: `QueueInv` and `OnePlace` (a call is in one queue, or with one
  thread), `ServingInv` (what a thread has run and not committed belongs to its
  call, and it has the write lock if that is anything), `AnswerInv` and `BeforeInv`
  (a call in the log is settled, and once it is there nobody serves the calls
  before it), `VersionHeld` (the version a migration started from is still that of
  the database, as long as no other thread migrates). For `SqlIsAtomic`, `RanWrites`
  (a transaction has run nothing but writes) makes what is committed the body of
  its call from where it began, and `NoneOpen` says that whoever has the write
  lock, or could take it, knows that no call is open. The last step of a thread
  that commits maps to `Apply` or `Migrate`, the late commit to `Close`, and a
  start, a message taken or a statement run to a stutter.
* `StreamsProofs`: `ReaderInv` counts the frames of a body: read, held by the host,
  in the call; their sum is what the stream has yielded. `FrameInv` says that a
  frame its reader still counts on is in the guest and nobody frees it, and that
  no message is there twice.

Model-checked only: everything with liveness (`HttpRequestSettles`, `SchedulesGoOn`,
`RemovalCompletes`, `CallsAreAnswered`, `EditsAreApplied`, `DeploysAreAnswered`,
`EveryCallEnds`, `MessagesAreServed`), as temporal reasoning under fairness is
beyond the prover. Every safety property of the runs is proved.


## 5. What is not modelled, and why

Nothing is said of wasm code itself, http parsing, capnp encoding, formatting and
logs. SQLite, `rusqlite_migration`, wasmtime and tokio are modelled by what the
code needs of them. Left out of the runtime:

* **Metrics.** A flush drains the counters of every instance whose mutex is free and
  management adds them up. What can be lost or overwritten (the counters of an
  instance that is always busy or was replaced after a panic, and the resource
  gauges, which all workers store under one key) is lost in the single step that
  skips, replaces or stores: a property would restate it.
* **Table leaks.** The response future, the serialised response and the stream of a
  body stay in a guest's tables after use; connections of SQL threads are kept per
  id for ever. No document bounds either.
* **Uploads and fetches of other hosts**: bodies that a host stream produces.
* **In-memory databases**, transactions begun or ended by a statement of a guest, and
  the loss of power for files and databases.
* **The queue any worker takes an invocation from**: it leads to the lookup and the
  request that `Routing` and `FunctionInstance` begin with.
* **Start-up and shutdown**: channels and threads are made once and end with the
  channels.

Next, the most important first:

1. **Worker**: the loop that composes `Routing`, `FunctionInstance` and `Streams`:
   what waits while it awaits `bytes_drop` or an instantiation.
2. **Deployment** with `Cron`: its `ApplyConfig` is where `scheduled` of `Definitions`
   goes.
3. **Sql** with two ids on two shards and one file.
