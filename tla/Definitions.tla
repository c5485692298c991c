------------------------------ MODULE Definitions ------------------------------
(***************************************************************************)
(* How a definition file, or a deployment over the api, becomes messages   *)
(* to the workers.  Two tasks of the management thread apply configs: the  *)
(* scan of the functions directory, one pass for each time it was found    *)
(* dirty, and the management loop, one request after another.  Each awaits *)
(* in the middle of an application (the code is read, then compiled in     *)
(* another thread), so the two interleave; the end of an application runs  *)
(* without an await, from the first worker to the cron thread.             *)
(*                                                                         *)
(* A panic of either task takes the whole thread down.  The files are      *)
(* edited by somebody else at any time; the watcher tells of an edit a     *)
(* while later, if it has been started.  What the workers and the cron     *)
(* thread do with their messages is in Routing and Cron.                   *)
(*                                                                         *)
(* Left out: the list of functions and schedules that introspection shows, *)
(* and the deployment id, which only has to be unique.                     *)
(*                                                                         *)
(* Sources: definitions/monitor.rs, tasks/management/mod.rs, and the       *)
(* compiler thread and deploy_function in server/fx_server.rs.             *)
(***************************************************************************)
EXTENDS Integers, Sequences

CONSTANTS Functions,
          Configs,       \* what a definition may say
          Codes,         \* what a wasm file may hold
          Broken,        \* codes that do not compile
          Inline,        \* configs that hold their code
          ByPath,        \* configs that name the file of their code
          InlineCode,    \* the code of a config that holds it
          EnvFile,       \* configs with an env variable read from a file
          BadSchedule,   \* configs with a cron schedule that does not parse
          Start,         \* what the files may be when the server starts
          Written,       \* pairs of a function and what its file may be given
          Rebuilt,       \* pairs of a function and what its wasm file may be given
          Asked,         \* pairs of a function and a config the api may be sent
          Deploys,       \* requests to deploy over the api
          MaxEdits,      \* bound on edits of files and on removals
          Nothing, Unparsable, Missing, Removed, NoJob

(* The two tasks, a request to one, an application under way in either,    *)
(* and what the workers are told at its end.                               *)
Tasks == {"scan", "api"}
Request == [id : Deploys, function : Functions, config : Configs]
Job ==
  [function : Functions, config : Configs, phase : {"Code"}]
    \cup [function : Functions, config : Configs, code : Codes,
          phase : {"Read", "Compiling", "Compiled", "Failed"}]
Message == [config : Configs, code : Codes, by : Tasks]

Parameters ==
  /\ Broken \subseteq Codes
  /\ Inline \subseteq Configs /\ ByPath \subseteq Configs
  /\ Inline \cap ByPath = {}
  /\ EnvFile \subseteq Configs /\ BadSchedule \subseteq Configs
  /\ InlineCode \in [Inline -> Codes]
  /\ Start \subseteq [disk : [Functions -> Configs \cup {Nothing, Unparsable}],
                      code : [Functions -> Codes \cup {Missing}]]
  /\ Written \subseteq Functions \X (Configs \cup {Nothing, Unparsable})
  /\ Rebuilt \subseteq Functions \X (Codes \cup {Missing})
  /\ Asked \subseteq Functions \X Configs
  /\ MaxEdits \in Nat
  /\ {Nothing, Unparsable} \cap Configs = {} /\ Nothing # Unparsable
  /\ Missing \notin Codes /\ NoJob \notin Job
  /\ {Nothing, Removed} \cap Message = {} /\ Nothing # Removed

ASSUME DefinitionsAssumption == Parameters

VARIABLES
  disk,            \* per function: its definition file
  code,            \* per function: the wasm file its definition refers to
  edits,           \* edits so far, for the bound
  management,      \* is the management thread up
  loop,            \* is the management loop running
  cron,            \* is the cron thread up
  scan,            \* "Pass", "Ended", "Idle" or "Stopped"
  watching,        \* has the watcher been started
  event,           \* the watcher has an event to tell
  dirty,           \* the directory changed since the last pass began
  left,            \* functions whose files the pass has yet to come to
  prev_state,      \* deployed_state as it was when the pass began
  deployed_state,  \* per function: the config the scan applied last
  job,             \* the application each of the two tasks is in
  compiler_rx,     \* the queue of the compiler: whose code comes next
  management_rx,   \* requests to deploy, in order of arrival
  deploy,          \* per request: where it stands
  running,         \* per function: the last message sent to the workers
  scheduled,       \* per function: the config last sent to the cron thread
  unseen,          \* history: files edited unwatched and not read since
  recoded,         \* history: code edited since the scan read it for the workers
  failed           \* history: per function, the config that failed last

fileVars == <<disk, code, edits>>
threadVars == <<management, loop, cron>>
scanVars == <<scan, watching, left, prev_state, deployed_state, failed>>
watchVars == <<event, dirty>>
apiVars == <<management_rx, deploy>>
sent == <<running, scheduled>>
historyVars == <<unseen, recoded>>
vars == <<fileVars, threadVars, scanVars, watchVars, job, compiler_rx, apiVars,
          sent, historyVars>>

InPhase(a, phase) == job[a] # NoJob /\ job[a].phase = phase

(* A file is found by WalkDir if it was there when its directory was read; *)
(* one that came later may be found or not.                                *)
Found(files) == {f \in Functions : files[f] # Nothing}
Walks(files) == {S \in SUBSET Functions : Found(files) \subseteq S}

-----------------------------------------------------------------------------
(* The first pass begins with the thread.                                  *)
Init ==
  /\ \E files \in Start : disk = files.disk /\ code = files.code
  /\ edits = 0
  /\ management = "up" /\ loop = "up" /\ cron = "up"
  /\ scan = "Pass" /\ left \in Walks(disk)
  /\ watching = FALSE /\ event = FALSE /\ dirty = FALSE
  /\ prev_state = [f \in Functions |-> Nothing]
  /\ deployed_state = [f \in Functions |-> Nothing]
  /\ job = [a \in Tasks |-> NoJob]
  /\ compiler_rx = <<>> /\ management_rx = <<>>
  /\ deploy = [d \in Deploys |-> "none"]
  /\ running = [f \in Functions |-> Nothing]
  /\ scheduled = [f \in Functions |-> Nothing]
  /\ unseen = {} /\ recoded = {}
  /\ failed = [f \in Functions |-> Nothing]

(* Somebody edits, creates or deletes a definition, or its wasm file.      *)
EditDefinition(f, c) ==
  /\ edits < MaxEdits
  /\ disk[f] # c
  /\ disk' = [disk EXCEPT ![f] = c]
  /\ edits' = edits + 1
  /\ event' = watching
  /\ unseen' = IF watching THEN unseen ELSE unseen \cup {f}
  /\ UNCHANGED <<code, threadVars, scanVars, dirty, job, compiler_rx, apiVars, sent, recoded>>

EditCode(f, k) ==
  /\ edits < MaxEdits
  /\ code[f] # k
  /\ code' = [code EXCEPT ![f] = k]
  /\ edits' = edits + 1
  /\ event' = watching
  /\ recoded' = recoded \cup {f}
  /\ UNCHANGED <<disk, threadVars, scanVars, dirty, job, compiler_rx, apiVars,
                 sent, unseen>>

CronStops ==
  /\ cron = "up"
  /\ cron' = "down"
  /\ UNCHANGED <<fileVars, management, loop, scanVars, watchVars, job, compiler_rx,
                 apiVars, sent, historyVars>>

-----------------------------------------------------------------------------
(* The scan.                                                               *)

(* The callback of the watcher.                                            *)
Notify ==
  /\ event
  /\ dirty' = TRUE
  /\ event' = FALSE
  /\ UNCHANGED <<fileVars, threadVars, scanVars, job, compiler_rx, apiVars, sent, historyVars>>

(* A pass compares every file with what was deployed when it began.        *)
StartPass ==
  /\ management = "up"
  /\ scan = "Idle"
  /\ dirty
  /\ dirty' = FALSE
  /\ scan' = "Pass"
  /\ left' \in Walks(disk)
  /\ prev_state' = deployed_state
  /\ UNCHANGED <<fileVars, threadVars, watching, deployed_state, failed, event, job,
                 compiler_rx, apiVars, sent, historyVars>>

Begins(a, f, c) == job' = [job EXCEPT ![a] = [function |-> f, config |-> c, phase |-> "Code"]]

(* A mutant: the config is recorded as deployed before it is applied.      *)
VisitRecording(f) ==
  /\ management = "up"
  /\ scan = "Pass"
  /\ job["scan"] = NoJob
  /\ f \in left
  /\ left' = left \ {f}
  /\ unseen' = unseen \ {f}
  /\ IF disk[f] \in Configs /\ prev_state[f] # disk[f]
       THEN /\ Begins("scan", f, disk[f])
            /\ deployed_state' = [deployed_state EXCEPT ![f] = disk[f]]
       ELSE UNCHANGED <<job, deployed_state>>
  /\ UNCHANGED <<fileVars, threadVars, scan, watching, prev_state, failed,
                 watchVars, compiler_rx, apiVars, sent, recoded>>

(* The next file: gone or unparsable, identical to what is deployed, or to *)
(* be applied.                                                             *)
Visit(f) ==
  /\ management = "up"
  /\ scan = "Pass"
  /\ job["scan"] = NoJob
  /\ f \in left
  /\ left' = left \ {f}
  /\ unseen' = unseen \ {f}
  /\ IF disk[f] \in Configs /\ prev_state[f] # disk[f]
       THEN Begins("scan", f, disk[f]) ELSE UNCHANGED job
  /\ UNCHANGED <<fileVars, threadVars, scan, watching, prev_state, deployed_state, failed,
                 watchVars, compiler_rx, apiVars, sent, recoded>>

(* What was deployed when the pass began and is no longer is removed.  (An *)
(* entry of deployed_state never goes: there is nothing to remove.)        *)
Forgotten == {f \in Functions : prev_state[f] # Nothing /\ deployed_state[f] = Nothing}

(* A mutant: the edits that came during the pass count as seen.            *)
EndPassClean ==
  /\ management = "up"
  /\ scan = "Pass"
  /\ job["scan"] = NoJob
  /\ left = {}
  /\ scan' = IF watching THEN "Idle" ELSE "Ended"
  /\ dirty' = FALSE
  /\ running' = [f \in Functions |-> IF f \in Forgotten THEN Removed ELSE running[f]]
  /\ UNCHANGED <<fileVars, threadVars, watching, left, prev_state, deployed_state, failed,
                 event, job, compiler_rx, apiVars, scheduled, historyVars>>

EndPass ==
  /\ management = "up"
  /\ scan = "Pass"
  /\ job["scan"] = NoJob
  /\ left = {}
  /\ scan' = IF watching THEN "Idle" ELSE "Ended"
  /\ running' = [f \in Functions |-> IF f \in Forgotten THEN Removed ELSE running[f]]
  /\ UNCHANGED <<fileVars, threadVars, watching, left, prev_state, deployed_state, failed,
                 watchVars, job, compiler_rx, apiVars, scheduled, historyVars>>

StartWatching ==
  /\ management = "up"
  /\ scan = "Ended"
  /\ scan' = "Idle"
  /\ watching' = TRUE
  /\ UNCHANGED <<fileVars, threadVars, left, prev_state, deployed_state, failed,
                 watchVars, job, compiler_rx, apiVars, sent, historyVars>>

(* The directory cannot be watched: an error is logged, and the scan ends. *)
WatchFails ==
  /\ management = "up"
  /\ scan = "Ended"
  /\ scan' = "Stopped"
  /\ UNCHANGED <<fileVars, threadVars, watching, left, prev_state, deployed_state, failed,
                 watchVars, job, compiler_rx, apiVars, sent, historyVars>>

-----------------------------------------------------------------------------
(* The api.                                                                *)

(* The queue is closed when the management thread is gone.                 *)
DeployFunction(d, f, c) ==
  /\ deploy[d] = "none"
  /\ IF management = "up"
       THEN /\ deploy' = [deploy EXCEPT ![d] = "queued"]
            /\ management_rx' =
                 Append(management_rx, [id |-> d, function |-> f, config |-> c])
       ELSE /\ deploy' = [deploy EXCEPT ![d] = "shutdown"]
            /\ UNCHANGED management_rx
  /\ UNCHANGED <<fileVars, threadVars, scanVars, watchVars, job, compiler_rx, sent, historyVars>>

(* The loop takes a request, and nothing else until it is applied: the     *)
(* request stays the head of management_rx meanwhile.                      *)
TakeRequest ==
  /\ management = "up" /\ loop = "up"
  /\ management_rx # <<>>
  /\ job["api"] = NoJob
  /\ Begins("api", Head(management_rx).function, Head(management_rx).config)
  /\ UNCHANGED <<fileVars, threadVars, scanVars, watchVars, compiler_rx, apiVars, sent, historyVars>>

(* The channel of cron's events is closed when the cron thread is gone: as *)
(* soon as the loop hears of it, it ends.  Until then it may go on taking  *)
(* requests; those that it leaves stay in the queue, which is not dropped. *)
LoopStops ==
  /\ management = "up" /\ loop = "up"
  /\ cron = "down"
  /\ job["api"] = NoJob
  /\ loop' = "down"
  /\ UNCHANGED <<fileVars, management, cron, scanVars, watchVars, job, compiler_rx, apiVars,
                 sent, historyVars>>

(* A function is removed over the management api, whether or not there is  *)
(* one: the workers are told, deployed_state is not.                       *)
RemoveOverApi(f) ==
  /\ management = "up"
  /\ edits < MaxEdits
  /\ running' = [running EXCEPT ![f] = Removed]
  /\ edits' = edits + 1
  /\ UNCHANGED <<disk, code, threadVars, scanVars, watchVars, job, compiler_rx, apiVars,
                 scheduled, historyVars>>

-----------------------------------------------------------------------------
(* apply_config, in either task.                                           *)

Ends(a) == job' = [job EXCEPT ![a] = NoJob]

Answer(result) ==
  /\ deploy' = [deploy EXCEPT ![Head(management_rx).id] = result]
  /\ management_rx' = Tail(management_rx)

(* An application ends with an error: a warning, or the answer.            *)
Fails(a) ==
  /\ Ends(a)
  /\ IF a = "scan"
       THEN /\ failed' = [failed EXCEPT ![job[a].function] = job[a].config]
            /\ recoded' = recoded \cup {job[a].function}
            /\ UNCHANGED apiVars
       ELSE Answer("error") /\ UNCHANGED <<failed, recoded>>

(* The request in progress is answered by its oneshot being dropped; those *)
(* behind it stay in the queue, which the callers keep alive.              *)
Panics ==
  /\ management' = "down"
  /\ IF job["api"] # NoJob THEN Answer("shutdown") ELSE UNCHANGED apiVars
  /\ UNCHANGED <<loop, cron, scanVars, job>>

CodeFor(f, c) == IF c \in Inline THEN InlineCode[c] ELSE code[f]
CodeOf(j) == CodeFor(j.function, j.config)

(* A mutant: where there is no code, what is not there is compiled.        *)
ReadNothing(a) ==
  /\ management = "up"
  /\ InPhase(a, "Code")
  /\ job' = [job EXCEPT ![a] =
       [function |-> job[a].function, config |-> job[a].config,
        code |-> CodeOf(job[a]), phase |-> "Read"]]
  /\ UNCHANGED <<fileVars, threadVars, scanVars, watchVars, compiler_rx, apiVars, sent, historyVars>>

(* The code is read.  Where there is none, a config that names the file    *)
(* panics, the others fail.                                                *)
ReadCode(a) ==
  /\ management = "up"
  /\ InPhase(a, "Code")
  /\ IF CodeOf(job[a]) # Missing
       THEN /\ job' = [job EXCEPT ![a] =
                 [function |-> job[a].function, config |-> job[a].config,
                  code |-> CodeOf(job[a]), phase |-> "Read"]]
            /\ recoded' = IF a = "scan" THEN recoded \ {job[a].function} ELSE recoded
            /\ UNCHANGED <<threadVars, scanVars, apiVars>>
       ELSE IF job[a].config \in ByPath
         THEN Panics /\ UNCHANGED recoded
         ELSE /\ Fails(a)
              /\ UNCHANGED <<threadVars, scan, watching, left, prev_state, deployed_state>>
  /\ UNCHANGED <<fileVars, watchVars, compiler_rx, sent, unseen>>

Goes(a, phase) == job' = [job EXCEPT ![a].phase = phase]

(* A mutant: the compiler's queue has room for one application.            *)
SendToFreeCompiler(a) ==
  /\ management = "up"
  /\ InPhase(a, "Read")
  /\ Goes(a, "Compiling")
  /\ compiler_rx' = IF compiler_rx = <<>> THEN <<a>> ELSE compiler_rx
  /\ UNCHANGED <<fileVars, threadVars, scanVars, watchVars, apiVars, sent, historyVars>>

SendToCompiler(a) ==
  /\ management = "up"
  /\ InPhase(a, "Read")
  /\ Goes(a, "Compiling")
  /\ compiler_rx' = Append(compiler_rx, a)
  /\ UNCHANGED <<fileVars, threadVars, scanVars, watchVars, apiVars, sent, historyVars>>

(* The compiler thread.                                                    *)
Compile ==
  /\ compiler_rx # <<>>
  /\ compiler_rx' = Tail(compiler_rx)
  /\ LET a == Head(compiler_rx) IN
       Goes(a, IF job[a].code \in Broken THEN "Failed" ELSE "Compiled")
  /\ UNCHANGED <<fileVars, threadVars, scanVars, watchVars, apiVars, sent, historyVars>>

(* A mutant: a pass ends with the first config that fails.                 *)
CompileFailsEndingPass(a) ==
  /\ management = "up"
  /\ InPhase(a, "Failed")
  /\ Fails(a)
  /\ left' = IF a = "scan" THEN {} ELSE left
  /\ UNCHANGED <<fileVars, threadVars, scan, watching, prev_state, deployed_state,
                 watchVars, compiler_rx, sent, unseen>>

CompileFails(a) ==
  /\ management = "up"
  /\ InPhase(a, "Failed")
  /\ Fails(a)
  /\ UNCHANGED <<fileVars, threadVars, scan, watching, left, prev_state, deployed_state,
                 watchVars, compiler_rx, sent, unseen>>

(* An env file that is there and cannot be read is left to a todo!().      *)
EnvPanics(a) ==
  /\ management = "up"
  /\ InPhase(a, "Compiled")
  /\ job[a].config \in EnvFile
  /\ Panics
  /\ UNCHANGED <<fileVars, watchVars, compiler_rx, sent, historyVars>>

Sends(a) == running' = [running EXCEPT ![job[a].function] =
                          [config |-> job[a].config, code |-> job[a].code, by |-> a]]

(* A mutant: a schedule that does not parse is an error like any other.    *)
ScheduleFails(a) ==
  /\ management = "up"
  /\ InPhase(a, "Compiled")
  /\ job[a].config \in BadSchedule
  /\ Sends(a)
  /\ Fails(a)
  /\ UNCHANGED <<fileVars, threadVars, scan, watching, left, prev_state, deployed_state,
                 watchVars, compiler_rx, scheduled, unseen>>

(* The workers have the deployment when the schedule is parsed.            *)
SchedulePanics(a) ==
  /\ management = "up"
  /\ InPhase(a, "Compiled")
  /\ job[a].config \in BadSchedule
  /\ Sends(a)
  /\ Panics
  /\ UNCHANGED <<fileVars, watchVars, compiler_rx, scheduled, historyVars>>

(* The cron thread is gone: the pass ends without its removals, the loop   *)
(* ends without an answer.                                                 *)
CronIsGone(a) ==
  /\ management = "up"
  /\ InPhase(a, "Compiled")
  /\ job[a].config \notin BadSchedule
  /\ cron = "down"
  /\ Sends(a)
  /\ Ends(a)
  /\ IF a = "scan"
       THEN /\ scan' = IF watching THEN "Idle" ELSE "Ended"
            /\ left' = {}
            /\ UNCHANGED <<loop, apiVars>>
       ELSE loop' = "down" /\ Answer("shutdown") /\ UNCHANGED <<scan, left>>
  /\ UNCHANGED <<fileVars, management, cron, watching, prev_state, deployed_state, failed,
                 watchVars, compiler_rx, scheduled, historyVars>>

(* Workers, then cron; the scan records the config, the loop answers.      *)
Deployed(a) ==
  /\ management = "up"
  /\ InPhase(a, "Compiled")
  /\ job[a].config \notin BadSchedule
  /\ cron = "up"
  /\ Sends(a)
  /\ scheduled' = [scheduled EXCEPT ![job[a].function] = job[a].config]
  /\ Ends(a)
  /\ IF a = "scan"
       THEN /\ deployed_state' = [deployed_state EXCEPT ![job[a].function] = job[a].config]
            /\ failed' = [failed EXCEPT ![job[a].function] = Nothing]
            /\ UNCHANGED apiVars
       ELSE Answer("ok") /\ UNCHANGED <<deployed_state, failed>>
  /\ UNCHANGED <<fileVars, threadVars, scan, watching, left, prev_state,
                 watchVars, compiler_rx, historyVars>>

-----------------------------------------------------------------------------
Edit ==
  \/ \E edit \in Written : EditDefinition(edit[1], edit[2])
  \/ \E edit \in Rebuilt : EditCode(edit[1], edit[2])

Ask == \E d \in Deploys : \E asked \in Asked : DeployFunction(d, asked[1], asked[2])

Environment == Edit \/ Ask \/ (\E f \in Functions : RemoveOverApi(f)) \/ CronStops

Watch == StartWatching \/ WatchFails

Applies(a) ==
  \/ ReadCode(a)
  \/ SendToCompiler(a)
  \/ CompileFails(a)
  \/ EnvPanics(a)
  \/ SchedulePanics(a)
  \/ CronIsGone(a)
  \/ Deployed(a)

Scan == StartPass \/ (\E f \in Functions : Visit(f)) \/ EndPass \/ Watch

Next ==
  \/ Environment
  \/ Notify
  \/ Scan
  \/ TakeRequest \/ LoopStops
  \/ \E a \in Tasks : Applies(a)
  \/ Compile

Spec == Init /\ [][Next]_vars

(* The watcher tells of what it saw; the executor polls either task when   *)
(* it can go on; the compiler takes what is in its queue.                  *)
FairSpec ==
  /\ Spec
  /\ WF_vars(Notify) /\ WF_vars(Scan) /\ WF_vars(TakeRequest \/ LoopStops)
  /\ WF_vars(Compile)
  /\ \A a \in Tasks : WF_vars(Applies(a))

-----------------------------------------------------------------------------
TypeOK ==
  /\ disk \in [Functions -> Configs \cup {Nothing, Unparsable}]
  /\ code \in [Functions -> Codes \cup {Missing}]
  /\ edits \in 0..MaxEdits
  /\ management \in {"up", "down"} /\ loop \in {"up", "down"} /\ cron \in {"up", "down"}
  /\ scan \in {"Pass", "Ended", "Idle", "Stopped"}
  /\ watching \in BOOLEAN /\ event \in BOOLEAN /\ dirty \in BOOLEAN
  /\ left \subseteq Functions /\ unseen \subseteq Functions /\ recoded \subseteq Functions
  /\ prev_state \in [Functions -> Configs \cup {Nothing}]
  /\ deployed_state \in [Functions -> Configs \cup {Nothing}]
  /\ failed \in [Functions -> Configs \cup {Nothing}]
  /\ job \in [Tasks -> Job \cup {NoJob}]
  /\ compiler_rx \in Seq(Tasks)
  /\ management_rx \in Seq(Request)
  /\ deploy \in [Deploys -> {"none", "queued", "ok", "error", "shutdown"}]
  /\ running \in [Functions -> Message \cup {Nothing, Removed}]
  /\ scheduled \in [Functions -> Configs \cup {Nothing}]

Sent(f) == running[f] \notin {Nothing, Removed}
AllUp == management = "up" /\ cron = "up"

(* The definition in the file of f has been applied, or tried and refused. *)
Settled(f) == disk[f] \in {deployed_state[f], failed[f]}

(* The workers have the code that is there for the definition they have.   *)
CodeIsCurrent(f) ==
  Sent(f) /\ running[f].by = "scan" => running[f].code = CodeFor(f, running[f].config)

(* When the scan has nothing left to do, every definition it could know of *)
(* has been deployed, or was tried and refused: an edit of a definition    *)
(* that comes in the middle of a pass, or of an application, is not lost   *)
(* (scan_definitions, monitor.rs).  Edits made before the watcher runs may *)
(* be.  Of the code only this much holds: the workers have what its file   *)
(* holds, unless that was edited after it had been read for them, or after *)
(* a later version of the definition was refused.  Such an edit makes for  *)
(* a pass that finds nothing changed (docs/todo.md:10).                    *)
QuietMeansApplied ==
  AllUp /\ scan = "Idle" /\ ~dirty /\ ~event =>
    \A f \in Functions : disk[f] \in Configs /\ f \notin unseen =>
      Settled(f) /\ (CodeIsCurrent(f) \/ f \in recoded)

(* Two applications of one function may interleave and fail halfway: while *)
(* the threads are up the cron thread schedules the version of the         *)
(* function the workers have (apply_config, monitor.rs).  An application   *)
(* that ends between the two, with a panic or without a cron thread,       *)
(* leaves them apart for good.                                             *)
CronFollowsWorkers ==
  AllUp => \A f \in Functions : Sent(f) => scheduled[f] = running[f].config

(* What reconcile_definitions takes for deployed is what it has sent: a    *)
(* file is skipped only if the workers got it, from the scan.  (The api    *)
(* may have sent another version since, or removed it.)                    *)
RecordedIsRunning ==
  AllUp =>
    \A f \in Functions :
      /\ deployed_state[f] # Nothing => running[f] # Nothing
      /\ Sent(f) /\ running[f].by = "scan" => running[f].config = deployed_state[f]

(* deploy_function returns, unless the task that answers is gone, and with *)
(* it the answers to what is queued: the thread panicked, or the loop      *)
(* ended because the cron thread did.  A scan of the directory, however    *)
(* busy, does not hold up a request.                                       *)
DeploysAreAnswered ==
  \A d \in Deploys :
    deploy[d] = "queued" ~> deploy[d] # "queued" \/ management = "down" \/ loop = "down"

(* Under the watcher an edited definition is deployed, or tried and        *)
(* refused, unless it is edited again or a thread goes down.  (An edit of  *)
(* the code alone is not: see QuietMeansApplied.)                          *)
EditsAreApplied ==
  \A f \in Functions :
    watching /\ f \notin unseen /\ disk[f] \in Configs
      ~> Settled(f) \/ disk[f] \notin Configs \/ ~AllUp

(* What readme.md says ("livereload functions") and the last loop of       *)
(* reconcile_definitions is written for: a function whose definition was   *)
(* deleted is removed.                                                     *)
DeletedIsRemoved ==
  AllUp /\ scan = "Idle" /\ ~dirty /\ ~event =>
    \A f \in Functions :
      disk[f] = Nothing /\ f \notin unseen /\ Sent(f) => running[f].by = "api"
=============================================================================
