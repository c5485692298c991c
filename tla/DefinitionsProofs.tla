--------------------------- MODULE DefinitionsProofs ---------------------------
(***************************************************************************)
(* Proofs about definitions, for any functions, configs, codes, requests   *)
(* and edits.                                                              *)
(*                                                                         *)
(* What the scan promises when it is quiet (QuietMeansApplied) is an       *)
(* instance of what it owes at any moment (NothingMissed): a definition    *)
(* that was seen is settled, or the pass has yet to come to its file, or   *)
(* is applying just that version.  This is inductive with three facts      *)
(* about a pass: the snapshot it compares with is still right for the      *)
(* files ahead (SnapshotHolds), the file in hand is behind (JobOfPass),    *)
(* and if it was edited meanwhile somebody will say so (JobIsCurrent).     *)
(***************************************************************************)
EXTENDS Definitions, SequenceTheorems, TLAPS

RequestInHand ==
  management = "up" /\ job["api"] # NoJob => management_rx # <<>>

CompilerQueue ==
  \A i \in 1..Len(compiler_rx) :
    /\ InPhase(compiler_rx[i], "Compiling")
    /\ \A j \in 1..Len(compiler_rx) : compiler_rx[i] = compiler_rx[j] => i = j

EventWatched == event => watching

SnapshotHolds ==
  AllUp /\ scan = "Pass" => \A f \in left : prev_state[f] = deployed_state[f]

JobOfPass ==
  AllUp /\ job["scan"] # NoJob => scan = "Pass" /\ job["scan"].function \notin left

Unheard(f) == f \in unseen \/ event \/ dirty

JobIsCurrent ==
  AllUp /\ job["scan"] # NoJob =>
    \/ disk[job["scan"].function] = job["scan"].config
    \/ Unheard(job["scan"].function)

Ahead(f) ==
  scan = "Pass" /\ (f \in left \/ (job["scan"] # NoJob /\ job["scan"].function = f))

NothingMissed ==
  AllUp => \A f \in Functions :
    disk[f] \in Configs => Unheard(f) \/ Settled(f) \/ Ahead(f)

PassInv == SnapshotHolds /\ JobOfPass /\ JobIsCurrent /\ NothingMissed

IInv ==
  /\ TypeOK
  /\ RequestInHand
  /\ CompilerQueue
  /\ CronFollowsWorkers
  /\ RecordedIsRunning
  /\ EventWatched
  /\ PassInv

USE DEF Parameters, fileVars, threadVars, scanVars, watchVars, apiVars, sent, historyVars, vars

(* What an application holds, whatever phase it is in.                     *)
LEMMA JobParts ==
  ASSUME NEW j \in Job
  PROVE  /\ j.function \in Functions /\ j.config \in Configs
         /\ j.phase \in {"Code", "Read", "Compiling", "Compiled", "Failed"}
         /\ j.phase # "Code" => j.code \in Codes
BY DEF Job

(* An application that has its code goes from phase to phase.              *)
LEMMA JobGoes ==
  ASSUME NEW j \in Job, j.phase # "Code",
         NEW p \in {"Read", "Compiling", "Compiled", "Failed"}
  PROVE  /\ [j EXCEPT !.phase = p] \in Job
         /\ [j EXCEPT !.phase = p].phase = p
         /\ [j EXCEPT !.phase = p].function = j.function
         /\ [j EXCEPT !.phase = p].config = j.config
         /\ [j EXCEPT !.phase = p].code = j.code
<1>1. j \in [function : Functions, config : Configs, code : Codes,
             phase : {"Read", "Compiling", "Compiled", "Failed"}]
  BY DEF Job
<1>2. [j EXCEPT !.phase = p] \in
        [function : Functions, config : Configs, code : Codes,
         phase : {"Read", "Compiling", "Compiled", "Failed"}]
  BY <1>1
<1> QED
  BY <1>1, <1>2 DEF Job

LEMMA NewJobs ==
  ASSUME NEW f \in Functions, NEW c \in Configs
  PROVE  /\ [function |-> f, config |-> c, phase |-> "Code"] \in Job
         /\ \A k \in Codes :
              [function |-> f, config |-> c, code |-> k, phase |-> "Read"] \in Job
BY DEF Job

(* A step of an application that is not with the compiler leaves those     *)
(* that are where they were.                                               *)
LEMMA QueueKept ==
  ASSUME TypeOK, CompilerQueue, compiler_rx' = compiler_rx, NEW a \in Tasks,
         ~InPhase(a, "Compiling"), \A b \in Tasks : b # a => job'[b] = job[b]
  PROVE  CompilerQueue'
<1>1. \A i \in 1..Len(compiler_rx) : compiler_rx[i] \in Tasks
  BY ElementOfSeq DEF TypeOK
<1> QED
  BY <1>1 DEF CompilerQueue, InPhase

(* Nothing has been read or sent.                                          *)
LEMMA InitInv == Init => IInv
<1> SUFFICES ASSUME Init PROVE IInv
  OBVIOUS
<1>1. PICK files \in Start : disk = files.disk /\ code = files.code
  BY DEF Init
<1>2. TypeOK
  <2>1. /\ disk \in [Functions -> Configs \cup {Nothing, Unparsable}]
        /\ code \in [Functions -> Codes \cup {Missing}]
    BY <1>1, DefinitionsAssumption, files \in
         [disk : [Functions -> Configs \cup {Nothing, Unparsable}],
          code : [Functions -> Codes \cup {Missing}]]
  <2>2. /\ edits \in 0..MaxEdits
        /\ left \subseteq Functions /\ unseen \subseteq Functions /\ recoded \subseteq Functions
    BY DefinitionsAssumption DEF Init, Walks
  <2>3. /\ compiler_rx \in Seq(Tasks) /\ management_rx \in Seq(Request)
        /\ job \in [Tasks -> Job \cup {NoJob}]
    BY EmptySeq DEF Init
  <2> QED
    BY <2>1, <2>2, <2>3 DEF Init, TypeOK
<1>3. RequestInHand /\ CompilerQueue /\ EventWatched
  BY DEF Init, RequestInHand, CompilerQueue, EventWatched, Tasks
<1>4. CronFollowsWorkers /\ RecordedIsRunning
  BY DEF Init, CronFollowsWorkers, RecordedIsRunning, Sent
<1>5. PassInv
  <2>1. \A f \in Functions : disk[f] \in Configs => f \in left
    BY DefinitionsAssumption DEF Init, Walks, Found
  <2> QED
    BY <2>1 DEF Init, PassInv, SnapshotHolds, JobOfPass, JobIsCurrent, NothingMissed, Ahead, Tasks
<1> QED
  BY <1>2, <1>3, <1>4, <1>5 DEF IInv

-----------------------------------------------------------------------------
(* The environment.                                                        *)

LEMMA EditDefinitionInv ==
  ASSUME IInv, NEW f \in Functions, NEW c \in Configs \cup {Nothing, Unparsable},
         EditDefinition(f, c)
  PROVE  IInv'
<1> USE DEF IInv, EditDefinition
<1>1. TypeOK'
  BY DefinitionsAssumption DEF TypeOK
<1>2. RequestInHand' /\ CompilerQueue' /\ EventWatched'
  BY DEF RequestInHand, CompilerQueue, InPhase, EventWatched
<1>3. CronFollowsWorkers' /\ RecordedIsRunning'
  BY DEF CronFollowsWorkers, RecordedIsRunning, Sent, AllUp
<1>4. SnapshotHolds' /\ JobOfPass'
  BY DEF PassInv, SnapshotHolds, JobOfPass, AllUp
<1>5. \A x \in Functions : (disk'[x] # disk[x] => Unheard(x)') /\ (Unheard(x) => Unheard(x)')
  BY DEF TypeOK, Unheard, EventWatched
<1>6. job["scan"] # NoJob => job["scan"].function \in Functions
  BY JobParts DEF TypeOK, Tasks
<1>7. JobIsCurrent' /\ NothingMissed'
  BY <1>5, <1>6 DEF PassInv, JobIsCurrent, NothingMissed, AllUp, Settled, Ahead
<1> QED
  BY <1>1, <1>2, <1>3, <1>4, <1>7 DEF PassInv

LEMMA EditCodeInv ==
  ASSUME IInv, NEW f \in Functions, NEW k \in Codes \cup {Missing}, EditCode(f, k)
  PROVE  IInv'
<1> USE DEF IInv, EditCode
<1>1. TypeOK'
  BY DefinitionsAssumption DEF TypeOK
<1>2. RequestInHand' /\ CompilerQueue' /\ EventWatched'
  BY DEF RequestInHand, CompilerQueue, InPhase, EventWatched
<1>3. CronFollowsWorkers' /\ RecordedIsRunning'
  BY DEF CronFollowsWorkers, RecordedIsRunning, Sent, AllUp
<1>4. \A x \in Functions : Unheard(x) => Unheard(x)'
  BY DEF Unheard, EventWatched
<1>5. job["scan"] # NoJob => job["scan"].function \in Functions
  BY JobParts DEF TypeOK, Tasks
<1>6. PassInv'
  BY <1>4, <1>5 DEF PassInv, SnapshotHolds, JobOfPass, JobIsCurrent, NothingMissed,
                    AllUp, Settled, Ahead
<1> QED
  BY <1>1, <1>2, <1>3, <1>6

LEMMA RemoveOverApiInv ==
  ASSUME IInv, NEW f \in Functions, RemoveOverApi(f)
  PROVE  IInv'
<1> USE DEF IInv, RemoveOverApi
<1>1. TypeOK'
  BY DefinitionsAssumption DEF TypeOK
<1>2. RequestInHand' /\ CompilerQueue' /\ EventWatched'
  BY DEF RequestInHand, CompilerQueue, InPhase, EventWatched
<1>3. CronFollowsWorkers' /\ RecordedIsRunning'
  BY DefinitionsAssumption
     DEF CronFollowsWorkers, RecordedIsRunning, Sent, AllUp, TypeOK
<1>4. PassInv'
  BY DEF PassInv, SnapshotHolds, JobOfPass, JobIsCurrent, NothingMissed, AllUp, Settled,
         Ahead, Unheard
<1> QED
  BY <1>1, <1>2, <1>3, <1>4

LEMMA DeployFunctionInv ==
  ASSUME IInv, NEW d \in Deploys, NEW f \in Functions, NEW c \in Configs,
         DeployFunction(d, f, c)
  PROVE  IInv'
<1> USE DEF DeployFunction
<1>0. TypeOK /\ RequestInHand /\ CompilerQueue /\ EventWatched /\ CronFollowsWorkers
        /\ RecordedIsRunning /\ PassInv
  BY DEF IInv
<1> DEFINE request == [id |-> d, function |-> f, config |-> c]
<1>1. request \in Request
  BY DEF Request
<1> HIDE DEF request
<1>2. /\ Append(management_rx, request) \in Seq(Request)
      /\ Append(management_rx, request) # <<>>
  BY <1>0, <1>1, AppendProperties DEF TypeOK
<1>3. management_rx' \in Seq(Request) /\ RequestInHand'
  BY <1>0, <1>2 DEF TypeOK, RequestInHand, request
<1>4. TypeOK'
  BY <1>0, <1>3 DEF TypeOK
<1>5. CompilerQueue' /\ EventWatched'
  BY <1>0 DEF CompilerQueue, InPhase, EventWatched
<1>6. CronFollowsWorkers' /\ RecordedIsRunning'
  BY <1>0 DEF CronFollowsWorkers, RecordedIsRunning, Sent, AllUp
<1>7. PassInv'
  BY <1>0 DEF PassInv, SnapshotHolds, JobOfPass, JobIsCurrent, NothingMissed, AllUp, Settled,
         Ahead, Unheard
<1> QED
  BY <1>3, <1>4, <1>5, <1>6, <1>7 DEF IInv

(* The cron thread stops, or the watcher tells of an event.                *)
LEMMA CronStopsInv == IInv /\ CronStops => IInv'
BY DEF IInv, CronStops, TypeOK, RequestInHand, CompilerQueue, InPhase, EventWatched,
       CronFollowsWorkers, RecordedIsRunning, AllUp, PassInv, SnapshotHolds, JobOfPass,
       JobIsCurrent, NothingMissed

LEMMA NotifyInv == IInv /\ Notify => IInv'
<1> SUFFICES ASSUME IInv, Notify PROVE IInv'
  OBVIOUS
<1> USE DEF IInv, Notify
<1>1. TypeOK'
  BY DEF TypeOK
<1>2. RequestInHand' /\ CompilerQueue' /\ EventWatched'
  BY DEF RequestInHand, CompilerQueue, InPhase, EventWatched
<1>3. CronFollowsWorkers' /\ RecordedIsRunning'
  BY DEF CronFollowsWorkers, RecordedIsRunning, Sent, AllUp
<1>4. PassInv'
  BY DEF PassInv, SnapshotHolds, JobOfPass, JobIsCurrent, NothingMissed, AllUp, Unheard
<1> QED
  BY <1>1, <1>2, <1>3, <1>4

-----------------------------------------------------------------------------
(* The scan.                                                               *)

(* The snapshot is fresh, and the walk finds what is there.                *)
LEMMA StartPassInv == IInv /\ StartPass => IInv'
<1> SUFFICES ASSUME IInv, StartPass PROVE IInv'
  OBVIOUS
<1> USE DEF IInv, StartPass
<1>1. left' \subseteq Functions /\ Found(disk) \subseteq left'
  BY DEF Walks
<1>2. TypeOK'
  BY <1>1 DEF TypeOK
<1>3. RequestInHand' /\ CompilerQueue' /\ EventWatched'
  BY DEF RequestInHand, CompilerQueue, InPhase, EventWatched
<1>4. CronFollowsWorkers' /\ RecordedIsRunning'
  BY DEF CronFollowsWorkers, RecordedIsRunning, Sent, AllUp
<1>5. AllUp => job["scan"] = NoJob
  BY DEF PassInv, JobOfPass
<1>6. \A f \in Functions : disk[f] \in Configs => f \in left'
  BY <1>1, DefinitionsAssumption DEF Found
<1>7. PassInv'
  BY <1>5, <1>6 DEF PassInv, SnapshotHolds, JobOfPass, JobIsCurrent, NothingMissed, Ahead, AllUp
<1> QED
  BY <1>2, <1>3, <1>4, <1>7

(* A file that is skipped is settled: the snapshot still holds for it.     *)
LEMMA VisitInv ==
  ASSUME IInv, NEW f \in Functions, Visit(f)
  PROVE  IInv'
<1> USE DEF IInv, Visit
<1> DEFINE new == [function |-> f, config |-> disk[f], phase |-> "Code"]
<1>1. disk[f] \in Configs => new \in Job
  BY NewJobs
<1>2. /\ new.function = f /\ new.config = disk[f] /\ new.phase = "Code"
      /\ disk[f] \in Configs => new # NoJob
  BY <1>1, DefinitionsAssumption
<1> HIDE DEF new
<1>3. \/ disk[f] \in Configs /\ prev_state[f] # disk[f] /\ job' = [job EXCEPT !["scan"] = new]
      \/ ~(disk[f] \in Configs /\ prev_state[f] # disk[f]) /\ job' = job
  BY DEF Begins, new
<1>4. TypeOK'
  BY <1>1, <1>3 DEF TypeOK
<1>5. job \in [Tasks -> Job \cup {NoJob}] /\ "scan" \in Tasks /\ "api" \in Tasks
  BY DEF TypeOK, Tasks
<1>6. job'["api"] = job["api"]
  BY <1>3, <1>5
<1>7. RequestInHand' /\ EventWatched'
  BY <1>6 DEF RequestInHand, EventWatched
<1>8. CompilerQueue'
  BY <1>3, <1>5, QueueKept DEF InPhase
<1>9. CronFollowsWorkers' /\ RecordedIsRunning'
  BY DEF CronFollowsWorkers, RecordedIsRunning, Sent, AllUp
<1>10. SnapshotHolds' /\ JobOfPass' /\ JobIsCurrent'
  BY <1>2, <1>3, <1>5 DEF PassInv, SnapshotHolds, JobOfPass, JobIsCurrent, AllUp
<1>11. ASSUME AllUp, disk[f] \in Configs
       PROVE  Settled(f)' \/ Ahead(f)'
  <2>1. CASE prev_state[f] = disk[f]
    BY <1>11, <2>1 DEF PassInv, SnapshotHolds, Settled, AllUp
  <2>2. CASE prev_state[f] # disk[f]
    BY <1>2, <1>3, <1>5, <1>11, <2>2 DEF Ahead
  <2> QED
    BY <2>1, <2>2
<1>12. ASSUME NEW g \in Functions, g # f
       PROVE  /\ Unheard(g) => Unheard(g)'
              /\ Settled(g) => Settled(g)'
              /\ Ahead(g) => Ahead(g)'
  BY <1>12 DEF Unheard, Settled, Ahead
<1>13. NothingMissed'
  BY <1>11, <1>12 DEF PassInv, NothingMissed, AllUp
<1> QED
  BY <1>4, <1>7, <1>8, <1>9, <1>10, <1>13 DEF PassInv

(* Nothing is ahead when a pass ends.                                      *)
LEMMA EndPassInv == IInv /\ EndPass => IInv'
<1> SUFFICES ASSUME IInv, EndPass PROVE IInv'
  OBVIOUS
<1> USE DEF IInv, EndPass
<1>1. TypeOK'
  BY DEF TypeOK
<1>2. RequestInHand' /\ CompilerQueue' /\ EventWatched'
  BY DEF RequestInHand, CompilerQueue, InPhase, EventWatched
<1>3. CronFollowsWorkers' /\ RecordedIsRunning'
  BY DefinitionsAssumption
     DEF CronFollowsWorkers, RecordedIsRunning, Sent, AllUp, TypeOK, Forgotten
<1>4. PassInv'
  BY DEF PassInv, SnapshotHolds, JobOfPass, JobIsCurrent, NothingMissed, AllUp, Settled,
         Ahead, Unheard
<1> QED
  BY <1>1, <1>2, <1>3, <1>4

LEMMA WatchInv == IInv /\ Watch => IInv'
<1> SUFFICES ASSUME IInv, Watch PROVE IInv'
  OBVIOUS
<1> USE DEF IInv, Watch, StartWatching, WatchFails
<1>1. TypeOK'
  BY DEF TypeOK
<1>2. RequestInHand' /\ CompilerQueue' /\ EventWatched'
  BY DEF RequestInHand, CompilerQueue, InPhase, EventWatched
<1>3. CronFollowsWorkers' /\ RecordedIsRunning'
  BY DEF CronFollowsWorkers, RecordedIsRunning, Sent, AllUp
<1>4. PassInv'
  BY DEF PassInv, SnapshotHolds, JobOfPass, JobIsCurrent, NothingMissed, AllUp, Settled,
         Ahead, Unheard
<1> QED
  BY <1>1, <1>2, <1>3, <1>4

-----------------------------------------------------------------------------
(* The api and the compiler.                                               *)

LEMMA TakeRequestInv == IInv /\ TakeRequest => IInv'
<1> SUFFICES ASSUME IInv, TakeRequest PROVE IInv'
  OBVIOUS
<1> DEFINE first == Head(management_rx)
           new == [function |-> first.function, config |-> first.config, phase |-> "Code"]
<1>1. first \in Request
  BY HeadTailProperties DEF IInv, TypeOK, TakeRequest
<1>2. new \in Job
  BY <1>1, NewJobs DEF Request
<1> HIDE DEF new
<1> USE DEF IInv, TakeRequest
<1>3. job' = [job EXCEPT !["api"] = new]
  BY DEF Begins, new
<1>4. TypeOK'
  BY <1>2, <1>3 DEF TypeOK
<1>5. job \in [Tasks -> Job \cup {NoJob}] /\ "scan" \in Tasks /\ "api" \in Tasks
  BY DEF TypeOK, Tasks
<1>6. job'["scan"] = job["scan"]
  BY <1>3, <1>5
<1>7. RequestInHand' /\ EventWatched'
  BY DEF RequestInHand, EventWatched
<1>8. CompilerQueue'
  BY <1>3, <1>5, QueueKept DEF InPhase
<1>9. CronFollowsWorkers' /\ RecordedIsRunning'
  BY DEF CronFollowsWorkers, RecordedIsRunning, Sent, AllUp
<1>10. PassInv'
  BY <1>6 DEF PassInv, SnapshotHolds, JobOfPass, JobIsCurrent, NothingMissed, AllUp, Settled,
              Ahead, Unheard
<1> QED
  BY <1>4, <1>7, <1>8, <1>9, <1>10

(* The loop ends between two requests.                                     *)
LEMMA LoopStopsInv == IInv /\ LoopStops => IInv'
BY DEF IInv, LoopStops, TypeOK, RequestInHand, CompilerQueue, InPhase, EventWatched,
       CronFollowsWorkers, RecordedIsRunning, AllUp, PassInv, SnapshotHolds, JobOfPass,
       JobIsCurrent, NothingMissed

(* The compiler answers the application at the head of its queue.          *)
LEMMA CompileInv == IInv /\ Compile => IInv'
<1> SUFFICES ASSUME IInv, Compile PROVE IInv'
  OBVIOUS
<1> DEFINE a == Head(compiler_rx)
           p == IF job[a].code \in Broken THEN "Failed" ELSE "Compiled"
           new == [job[a] EXCEPT !.phase = p]
<1>0. TypeOK /\ RequestInHand /\ CompilerQueue /\ EventWatched /\ CronFollowsWorkers
        /\ RecordedIsRunning /\ PassInv
  BY DEF IInv
<1>1. /\ a \in Tasks /\ a = compiler_rx[1] /\ compiler_rx' \in Seq(Tasks)
      /\ Len(compiler_rx') = Len(compiler_rx) - 1 /\ Len(compiler_rx) \in Nat
      /\ Len(compiler_rx) > 0
      /\ \A i \in 1..Len(compiler_rx') : compiler_rx'[i] = compiler_rx[i + 1]
  BY <1>0, HeadTailProperties, LenProperties, EmptySeq DEF TypeOK, Compile
<1>2. InPhase(a, "Compiling") /\ job[a] \in Job
  BY <1>0, <1>1 DEF CompilerQueue, TypeOK, InPhase
<1>3. /\ new \in Job /\ new.phase = p
      /\ new.function = job[a].function /\ new.config = job[a].config
  <2>1. p \in {"Read", "Compiling", "Compiled", "Failed"} /\ job[a].phase # "Code"
    BY <1>2 DEF InPhase
  <2> HIDE DEF p
  <2> QED
    BY <1>2, <2>1, JobGoes
<1>4. job' = [job EXCEPT ![a] = new]
  BY DEF Compile, Goes
<1> HIDE DEF new, p, a
<1>5. job \in [Tasks -> Job \cup {NoJob}] /\ "scan" \in Tasks /\ "api" \in Tasks
  BY <1>0 DEF TypeOK, Tasks
<1>6. job' \in [Tasks -> Job \cup {NoJob}]
  BY <1>1, <1>3, <1>4, <1>5
<1>7. TypeOK'
  BY <1>0, <1>1, <1>6 DEF TypeOK, Compile
<1>8. new # NoJob /\ job[a] # NoJob
  BY <1>2, <1>3, DefinitionsAssumption
<1>9. CompilerQueue'
  <2>1. ASSUME NEW i \in 1..Len(compiler_rx')
        PROVE  /\ i + 1 \in 1..Len(compiler_rx) /\ i + 1 # 1 /\ 1 \in 1..Len(compiler_rx)
               /\ compiler_rx'[i] = compiler_rx[i + 1] /\ compiler_rx[i + 1] \in Tasks
    BY <1>0, <1>1, ElementOfSeq DEF TypeOK
  <2>2. ASSUME NEW i \in 1..Len(compiler_rx')
        PROVE  compiler_rx'[i] # a /\ InPhase(compiler_rx'[i], "Compiling")
    BY <1>0, <1>1, <2>1 DEF CompilerQueue
  <2>3. ASSUME NEW i \in 1..Len(compiler_rx')
        PROVE  /\ job'[compiler_rx'[i]] # NoJob
               /\ job'[compiler_rx'[i]].phase = "Compiling"
    BY <1>4, <1>5, <2>1, <2>2 DEF InPhase
  <2>4. ASSUME NEW i \in 1..Len(compiler_rx'), NEW j \in 1..Len(compiler_rx'),
               compiler_rx'[i] = compiler_rx'[j]
        PROVE  i = j
    <3>1. i + 1 = j + 1
      BY <1>0, <2>1, <2>4 DEF CompilerQueue
    <3> QED
      BY <3>1
  <2> QED
    BY <2>3, <2>4 DEF CompilerQueue, InPhase
<1>10. \A b \in Tasks :
         /\ job'[b] # NoJob <=> job[b] # NoJob
         /\ job[b] # NoJob => /\ job'[b].function = job[b].function
                              /\ job'[b].config = job[b].config
  BY <1>1, <1>3, <1>4, <1>5, <1>8
<1>11. RequestInHand' /\ EventWatched'
  BY <1>0, <1>5, <1>10 DEF RequestInHand, EventWatched, Compile
<1>12. CronFollowsWorkers' /\ RecordedIsRunning'
  BY <1>0 DEF CronFollowsWorkers, RecordedIsRunning, Sent, AllUp, Compile
<1>13. PassInv'
  BY <1>0, <1>5, <1>10
     DEF PassInv, SnapshotHolds, JobOfPass, JobIsCurrent, NothingMissed, AllUp, Settled,
         Ahead, Unheard, Compile
<1> QED
  BY <1>7, <1>9, <1>11, <1>12, <1>13 DEF IInv

-----------------------------------------------------------------------------
(* An application.                                                         *)

(* The request at the head of the queue is answered.                       *)
LEMMA AnswerType ==
  ASSUME TypeOK, management_rx # <<>>, NEW r \in {"ok", "error", "shutdown"}, Answer(r)
  PROVE  /\ management_rx' \in Seq(Request)
         /\ deploy' \in [Deploys -> {"none", "queued", "ok", "error", "shutdown"}]
<1>1. /\ Head(management_rx) \in Request
      /\ Tail(management_rx) \in Seq(Request)
  BY HeadTailProperties DEF TypeOK
<1> QED
  BY <1>1 DEF Answer, TypeOK, Request

(* An application that fails leaves its config refused.                    *)
LEMMA FailsInv ==
  ASSUME IInv, NEW a \in Tasks, management = "up", job[a] # NoJob,
         ~InPhase(a, "Compiling"), Fails(a),
         UNCHANGED <<fileVars, threadVars, scan, watching, left, prev_state,
                     deployed_state, watchVars, compiler_rx, sent, unseen>>
  PROVE  IInv'
<1>0. TypeOK /\ RequestInHand /\ CompilerQueue /\ EventWatched /\ CronFollowsWorkers
        /\ RecordedIsRunning /\ PassInv
  BY DEF IInv
<1>1. /\ job \in [Tasks -> Job \cup {NoJob}] /\ "scan" \in Tasks /\ "api" \in Tasks
      /\ a = "scan" \/ a = "api"
  BY <1>0 DEF TypeOK, Tasks
<1>2. job[a].function \in Functions /\ job[a].config \in Configs
  BY <1>1, JobParts
<1>3. job' = [job EXCEPT ![a] = NoJob]
  BY DEF Fails, Ends
<1>4. /\ management_rx' \in Seq(Request)
      /\ deploy' \in [Deploys -> {"none", "queued", "ok", "error", "shutdown"}]
  <2>1. CASE a = "scan"
    BY <1>0, <2>1 DEF Fails, TypeOK
  <2>2. CASE a = "api"
    BY <1>0, <2>2, AnswerType DEF Fails, RequestInHand
  <2> QED
    BY <1>1, <2>1, <2>2
<1>5. failed' \in [Functions -> Configs \cup {Nothing}] /\ recoded' \subseteq Functions
  BY <1>0, <1>2 DEF Fails, TypeOK
<1>6. TypeOK'
  BY <1>0, <1>1, <1>3, <1>4, <1>5 DEF TypeOK
<1>7. CompilerQueue'
  BY <1>0, <1>1, <1>3, QueueKept
<1>8. RequestInHand' /\ EventWatched'
  BY <1>0, <1>1, <1>3 DEF RequestInHand, EventWatched, Fails
<1>9. CronFollowsWorkers' /\ RecordedIsRunning'
  BY <1>0 DEF CronFollowsWorkers, RecordedIsRunning, Sent, AllUp
<1>10. SnapshotHolds' /\ JobOfPass' /\ JobIsCurrent'
  BY <1>0, <1>1, <1>3
     DEF PassInv, SnapshotHolds, JobOfPass, JobIsCurrent, AllUp, Unheard
<1>11. NothingMissed'
  <2>1. CASE a = "api"
    BY <1>0, <1>1, <1>3, <2>1
       DEF PassInv, NothingMissed, AllUp, Unheard, Settled, Ahead, Fails
  <2>2. CASE a = "scan"
    <3>0. PICK f \in Functions : f = job["scan"].function
      BY <1>2, <2>2
    <3>1. failed' = [failed EXCEPT ![f] = job["scan"].config]
      BY <2>2, <3>0 DEF Fails
    <3>2. AllUp => Unheard(f) \/ disk[f] = job["scan"].config
      BY <1>0, <2>2, <3>0 DEF PassInv, JobIsCurrent
    <3>4. ASSUME AllUp, disk[f] \in Configs PROVE Unheard(f)' \/ Settled(f)'
      BY <1>0, <3>1, <3>2, <3>4 DEF Unheard, Settled, TypeOK
    <3>5. ASSUME NEW g \in Functions, g # f
          PROVE  /\ Unheard(g) => Unheard(g)'
                 /\ Settled(g) => Settled(g)'
                 /\ Ahead(g) => Ahead(g)'
      BY <1>0, <3>1, <3>0, <3>5 DEF Unheard, Settled, Ahead, TypeOK
    <3> QED
      BY <1>0, <3>4, <3>5 DEF PassInv, NothingMissed, AllUp
  <2> QED
    BY <1>1, <2>1, <2>2
<1> QED
  BY <1>6, <1>7, <1>8, <1>9, <1>10, <1>11 DEF IInv, PassInv

(* When the thread is down nothing is promised.                            *)
LEMMA PanicsInv ==
  ASSUME IInv, management = "up", Panics,
         running' \in [Functions -> Message \cup {Nothing, Removed}],
         UNCHANGED <<fileVars, watchVars, compiler_rx, scheduled, historyVars>>
  PROVE  IInv'
<1>0. TypeOK /\ RequestInHand /\ CompilerQueue /\ EventWatched
  BY DEF IInv
<1>1. /\ management_rx' \in Seq(Request)
      /\ deploy' \in [Deploys -> {"none", "queued", "ok", "error", "shutdown"}]
  BY <1>0, AnswerType DEF Panics, RequestInHand, TypeOK
<1>2. TypeOK'
  BY <1>0, <1>1 DEF TypeOK, Panics
<1>3. CompilerQueue' /\ EventWatched' /\ RequestInHand'
  BY <1>0 DEF CompilerQueue, InPhase, EventWatched, RequestInHand, Panics
<1>4. ~AllUp'
  BY DEF AllUp, Panics
<1> QED
  BY <1>2, <1>3, <1>4
     DEF IInv, CronFollowsWorkers, RecordedIsRunning, PassInv, SnapshotHolds, JobOfPass,
         JobIsCurrent, NothingMissed

(* A task goes on with an application, in any phase but the compiler's.    *)
LEMMA GoesOnInv ==
  ASSUME IInv, NEW a \in Tasks, job[a] # NoJob, ~InPhase(a, "Compiling"),
         NEW new \in Job, new.function = job[a].function, new.config = job[a].config,
         job' = [job EXCEPT ![a] = new],
         \/ compiler_rx' = compiler_rx
         \/ compiler_rx' = Append(compiler_rx, a) /\ new.phase = "Compiling",
         recoded' \subseteq Functions,
         UNCHANGED <<fileVars, threadVars, scanVars, watchVars, apiVars, sent, unseen>>
  PROVE  IInv'
<1>0. TypeOK /\ RequestInHand /\ CompilerQueue /\ EventWatched /\ CronFollowsWorkers
        /\ RecordedIsRunning /\ PassInv
  BY DEF IInv
<1>1. /\ job \in [Tasks -> Job \cup {NoJob}] /\ "scan" \in Tasks /\ "api" \in Tasks
      /\ compiler_rx \in Seq(Tasks) /\ new # NoJob
  BY <1>0, DefinitionsAssumption DEF TypeOK, Tasks
<1>2. job' \in [Tasks -> Job \cup {NoJob}]
  BY <1>1
<1>3. compiler_rx' \in Seq(Tasks)
  BY <1>1, AppendProperties
<1>4. TypeOK'
  BY <1>0, <1>2, <1>3 DEF TypeOK
<1>5. CompilerQueue'
  <2>1. CASE compiler_rx' = compiler_rx
    BY <1>0, <1>1, <2>1, QueueKept
  <2>2. CASE compiler_rx' = Append(compiler_rx, a) /\ new.phase = "Compiling"
    <3>1. /\ Len(compiler_rx) \in Nat /\ Len(compiler_rx') = Len(compiler_rx) + 1
          /\ \A i \in 1..Len(compiler_rx) : compiler_rx'[i] = compiler_rx[i]
          /\ compiler_rx'[Len(compiler_rx) + 1] = a
      BY <1>1, <2>2, AppendProperties, LenProperties
    <3>2. \A i \in 1..Len(compiler_rx) : compiler_rx[i] \in Tasks /\ compiler_rx[i] # a
      BY <1>0, <1>1, ElementOfSeq DEF CompilerQueue
    <3>3. ASSUME NEW i \in 1..Len(compiler_rx')
          PROVE  /\ job'[compiler_rx'[i]] # NoJob
                 /\ job'[compiler_rx'[i]].phase = "Compiling"
      <4>1. CASE i \in 1..Len(compiler_rx)
        BY <1>0, <1>1, <3>1, <3>2, <4>1 DEF CompilerQueue, InPhase
      <4>2. CASE i = Len(compiler_rx) + 1
        BY <1>1, <2>2, <3>1, <4>2
      <4> QED
        BY <3>1, <4>1, <4>2
    <3>4. ASSUME NEW i \in 1..Len(compiler_rx'), NEW j \in 1..Len(compiler_rx'),
                 compiler_rx'[i] = compiler_rx'[j]
          PROVE  i = j
      <4>1. /\ i \in 1..Len(compiler_rx) \/ i = Len(compiler_rx) + 1
            /\ j \in 1..Len(compiler_rx) \/ j = Len(compiler_rx) + 1
        BY <3>1
      <4> QED
        BY <1>0, <3>1, <3>2, <3>4, <4>1 DEF CompilerQueue
    <3> QED
      BY <3>3, <3>4 DEF CompilerQueue, InPhase
  <2> QED
    BY <2>1, <2>2
<1>6. \A b \in Tasks :
         /\ job'[b] # NoJob <=> job[b] # NoJob
         /\ job[b] # NoJob => /\ job'[b].function = job[b].function
                              /\ job'[b].config = job[b].config
  BY <1>1
<1>7. RequestInHand' /\ EventWatched'
  BY <1>0, <1>1, <1>6 DEF RequestInHand, EventWatched
<1>8. CronFollowsWorkers' /\ RecordedIsRunning'
  BY <1>0 DEF CronFollowsWorkers, RecordedIsRunning, Sent, AllUp
<1>9. PassInv'
  BY <1>0, <1>1, <1>6
     DEF PassInv, SnapshotHolds, JobOfPass, JobIsCurrent, NothingMissed, AllUp, Settled,
         Ahead, Unheard
<1> QED
  BY <1>4, <1>5, <1>7, <1>8, <1>9 DEF IInv

LEMMA ReadCodeInv ==
  ASSUME IInv, NEW a \in Tasks, ReadCode(a)
  PROVE  IInv'
<1>1. /\ TypeOK /\ job[a] \in Job /\ job[a] # NoJob /\ ~InPhase(a, "Compiling")
      /\ job[a].function \in Functions /\ job[a].config \in Configs
  BY JobParts DEF IInv, TypeOK, ReadCode, InPhase
<1>2. CodeOf(job[a]) \in Codes \cup {Missing}
  BY <1>1, DefinitionsAssumption DEF CodeOf, CodeFor, TypeOK
<1>3. CASE CodeOf(job[a]) # Missing
  <2> DEFINE k == CodeOf(job[a])
             new == [function |-> job[a].function, config |-> job[a].config,
                     code |-> k, phase |-> "Read"]
  <2>1. new \in Job /\ new.function = job[a].function /\ new.config = job[a].config
    BY <1>1, <1>2, <1>3, NewJobs
  <2>2. job' = [job EXCEPT ![a] = new]
    BY <1>3 DEF ReadCode
  <2>3. recoded' \subseteq Functions
    BY <1>1, <1>3 DEF ReadCode, TypeOK
  <2> HIDE DEF new
  <2> QED
    BY <1>1, <1>3, <2>1, <2>2, <2>3, GoesOnInv DEF ReadCode
<1>4. CASE CodeOf(job[a]) = Missing /\ job[a].config \in ByPath
  BY <1>1, <1>4, PanicsInv DEF ReadCode, TypeOK
<1>5. CASE CodeOf(job[a]) = Missing /\ job[a].config \notin ByPath
  BY <1>1, <1>5, FailsInv DEF ReadCode
<1> QED
  BY <1>3, <1>4, <1>5

LEMMA SendToCompilerInv ==
  ASSUME IInv, NEW a \in Tasks, SendToCompiler(a)
  PROVE  IInv'
<1> DEFINE new == [job[a] EXCEPT !.phase = "Compiling"]
<1>1. /\ job[a] \in Job /\ job[a] # NoJob /\ job[a].phase = "Read"
      /\ recoded' \subseteq Functions
  BY DEF IInv, TypeOK, SendToCompiler, InPhase
<1>2. /\ new \in Job /\ new.phase = "Compiling"
      /\ new.function = job[a].function /\ new.config = job[a].config
  BY <1>1, JobGoes
<1>3. job' = [job EXCEPT ![a] = new] /\ ~InPhase(a, "Compiling")
  BY <1>1 DEF SendToCompiler, Goes, InPhase
<1> HIDE DEF new
<1> QED
  BY <1>1, <1>2, <1>3, GoesOnInv DEF SendToCompiler

LEMMA CompileFailsInv ==
  ASSUME IInv, NEW a \in Tasks, CompileFails(a)
  PROVE  IInv'
<1>1. ~InPhase(a, "Compiling") /\ job[a] # NoJob
  BY DEF CompileFails, InPhase
<1> QED
  BY <1>1, FailsInv DEF CompileFails

(* What the workers are sent at the end of an application.                 *)
LEMMA SendsType ==
  ASSUME TypeOK, NEW a \in Tasks, InPhase(a, "Compiled"), Sends(a)
  PROVE  /\ job[a].function \in Functions /\ job[a].config \in Configs
         /\ [config |-> job[a].config, code |-> job[a].code, by |-> a] \in Message
         /\ running' \in [Functions -> Message \cup {Nothing, Removed}]
<1>1. /\ job[a].function \in Functions /\ job[a].config \in Configs
      /\ job[a].code \in Codes
  BY JobParts DEF TypeOK, InPhase
<1>2. [config |-> job[a].config, code |-> job[a].code, by |-> a] \in Message
  BY <1>1 DEF Message
<1> QED
  BY <1>1, <1>2 DEF TypeOK, Sends

LEMMA ApplyPanicsInv ==
  ASSUME IInv, NEW a \in Tasks, EnvPanics(a) \/ SchedulePanics(a)
  PROVE  IInv'
<1>1. CASE EnvPanics(a)
  BY <1>1, PanicsInv DEF EnvPanics, IInv, TypeOK
<1>2. CASE SchedulePanics(a)
  <2>1. running' \in [Functions -> Message \cup {Nothing, Removed}]
    BY <1>2, SendsType DEF SchedulePanics, IInv
  <2> QED
    BY <1>2, <2>1, PanicsInv DEF SchedulePanics
<1> QED
  BY <1>1, <1>2

(* The version in hand reached workers and cron, and is recorded: that is  *)
(* the version on disk, or an edit since is about to be heard of.          *)
LEMMA DeployedInv ==
  ASSUME IInv, NEW a \in Tasks, Deployed(a)
  PROVE  IInv'
<1> USE DEF Deployed
<1>0. TypeOK /\ RequestInHand /\ CompilerQueue /\ EventWatched /\ CronFollowsWorkers
        /\ RecordedIsRunning /\ PassInv
  BY DEF IInv
<1>1. /\ job \in [Tasks -> Job \cup {NoJob}] /\ "scan" \in Tasks /\ "api" \in Tasks
      /\ a = "scan" \/ a = "api"
      /\ job[a] # NoJob /\ ~InPhase(a, "Compiling")
  BY <1>0 DEF TypeOK, Tasks, InPhase
<1>2. PICK f \in Functions : f = job[a].function
  BY <1>0, SendsType
<1>3. PICK c \in Configs : c = job[a].config
  BY <1>0, SendsType
<1> DEFINE message == [config |-> c, code |-> job[a].code, by |-> a]
<1>4. /\ message \in Message /\ message.config = c /\ message.by = a
      /\ running' \in [Functions -> Message \cup {Nothing, Removed}]
      /\ running' = [running EXCEPT ![f] = message]
  BY <1>0, <1>2, <1>3, SendsType DEF Sends
<1> HIDE DEF message
<1>5. job' = [job EXCEPT ![a] = NoJob]
  BY DEF Ends
<1>6. /\ management_rx' \in Seq(Request)
      /\ deploy' \in [Deploys -> {"none", "queued", "ok", "error", "shutdown"}]
  <2>1. CASE a = "scan"
    BY <1>0, <2>1 DEF TypeOK
  <2>2. CASE a = "api"
    BY <1>0, <1>1, <2>2, AnswerType DEF RequestInHand
  <2> QED
    BY <1>1, <2>1, <2>2
<1>7. /\ deployed_state' \in [Functions -> Configs \cup {Nothing}]
      /\ failed' \in [Functions -> Configs \cup {Nothing}]
      /\ scheduled' \in [Functions -> Configs \cup {Nothing}]
  BY <1>0, <1>2, <1>3 DEF TypeOK
<1>8. TypeOK'
  BY <1>0, <1>1, <1>4, <1>5, <1>6, <1>7 DEF TypeOK
<1>9. CompilerQueue'
  BY <1>0, <1>1, <1>5, QueueKept
<1>10. RequestInHand' /\ EventWatched'
  BY <1>0, <1>1, <1>5 DEF RequestInHand, EventWatched
<1>11. CronFollowsWorkers'
  BY <1>0, <1>2, <1>3, <1>4 DEF CronFollowsWorkers, Sent, AllUp, TypeOK
<1>12. /\ \A g \in Functions : g # f => deployed_state'[g] = deployed_state[g]
       /\ \A g \in Functions : g # f => failed'[g] = failed[g]
       /\ a = "scan" => deployed_state'[f] = c
       /\ a # "scan" => deployed_state' = deployed_state /\ failed' = failed
  BY <1>0, <1>2, <1>3 DEF TypeOK
<1>13. RecordedIsRunning'
  BY <1>0, <1>1, <1>4, <1>12, DefinitionsAssumption
     DEF RecordedIsRunning, Sent, AllUp, TypeOK
<1>14. SnapshotHolds' /\ JobOfPass' /\ JobIsCurrent'
  BY <1>0, <1>1, <1>2, <1>5, <1>12
     DEF PassInv, SnapshotHolds, JobOfPass, JobIsCurrent, AllUp, Unheard, TypeOK
<1>15. NothingMissed'
  <2>1. CASE a = "api"
    BY <1>0, <1>1, <1>5, <1>12, <2>1
       DEF PassInv, NothingMissed, AllUp, Unheard, Settled, Ahead
  <2>2. CASE a = "scan"
    <3>1. Unheard(f)' \/ Settled(f)'
      BY <1>0, <1>1, <1>2, <1>3, <1>12, <2>2
         DEF PassInv, JobIsCurrent, AllUp, Unheard, Settled
    <3>2. ASSUME NEW g \in Functions, g # f
          PROVE  /\ Unheard(g) => Unheard(g)'
                 /\ Settled(g) => Settled(g)'
                 /\ Ahead(g) => Ahead(g)'
      BY <1>2, <1>12, <2>2, <3>2 DEF Unheard, Settled, Ahead
    <3> QED
      BY <1>0, <3>1, <3>2 DEF PassInv, NothingMissed, AllUp
  <2> QED
    BY <1>1, <2>1, <2>2
<1> QED
  BY <1>8, <1>9, <1>10, <1>11, <1>13, <1>14, <1>15 DEF IInv, PassInv

LEMMA CronIsGoneInv ==
  ASSUME IInv, NEW a \in Tasks, CronIsGone(a)
  PROVE  IInv'
<1> USE DEF CronIsGone
<1>0. TypeOK /\ RequestInHand /\ CompilerQueue /\ EventWatched
  BY DEF IInv
<1>1. /\ job \in [Tasks -> Job \cup {NoJob}] /\ "scan" \in Tasks /\ "api" \in Tasks
      /\ a = "scan" \/ a = "api"
      /\ job[a] # NoJob /\ ~InPhase(a, "Compiling")
  BY <1>0 DEF TypeOK, Tasks, InPhase
<1>2. running' \in [Functions -> Message \cup {Nothing, Removed}]
  BY <1>0, SendsType
<1>3. job' = [job EXCEPT ![a] = NoJob]
  BY DEF Ends
<1>4. /\ management_rx' \in Seq(Request)
      /\ deploy' \in [Deploys -> {"none", "queued", "ok", "error", "shutdown"}]
  <2>1. CASE a = "scan"
    BY <1>0, <2>1 DEF TypeOK
  <2>2. CASE a = "api"
    BY <1>0, <1>1, <2>2, AnswerType DEF RequestInHand
  <2> QED
    BY <1>1, <2>1, <2>2
<1>5. TypeOK'
  BY <1>0, <1>1, <1>2, <1>3, <1>4 DEF TypeOK
<1>6. CompilerQueue'
  BY <1>0, <1>1, <1>3, QueueKept
<1>7. RequestInHand' /\ EventWatched'
  BY <1>0, <1>1, <1>3 DEF RequestInHand, EventWatched
<1>8. ~AllUp'
  BY DEF AllUp
<1> QED
  BY <1>5, <1>6, <1>7, <1>8
     DEF IInv, CronFollowsWorkers, RecordedIsRunning, PassInv, SnapshotHolds, JobOfPass,
         JobIsCurrent, NothingMissed

-----------------------------------------------------------------------------
LEMMA NextInv == IInv /\ [Next]_vars => IInv'
<1> SUFFICES ASSUME IInv, [Next]_vars PROVE IInv'
  OBVIOUS
<1>1. CASE Environment
  <2>1. \A edit \in Written : EditDefinition(edit[1], edit[2]) => IInv'
    BY EditDefinitionInv, DefinitionsAssumption
  <2>2. \A edit \in Rebuilt : EditCode(edit[1], edit[2]) => IInv'
    BY EditCodeInv, DefinitionsAssumption
  <2>3. \A d \in Deploys, asked \in Asked : DeployFunction(d, asked[1], asked[2]) => IInv'
    BY DeployFunctionInv, DefinitionsAssumption
  <2> QED
    BY <1>1, <2>1, <2>2, <2>3, RemoveOverApiInv, CronStopsInv DEF Environment, Edit, Ask
<1>2. CASE Notify \/ Scan
  BY <1>2, NotifyInv, StartPassInv, VisitInv, EndPassInv, WatchInv DEF Scan
<1>3. CASE TakeRequest \/ LoopStops \/ Compile
  BY <1>3, TakeRequestInv, LoopStopsInv, CompileInv
<1>4. ASSUME NEW a \in Tasks, Applies(a) PROVE IInv'
  BY <1>4, ReadCodeInv, SendToCompilerInv, CompileFailsInv, ApplyPanicsInv, CronIsGoneInv,
     DeployedInv DEF Applies
<1>5. CASE UNCHANGED vars
  BY <1>5 DEF IInv, TypeOK, RequestInHand, CompilerQueue, InPhase, CronFollowsWorkers,
     RecordedIsRunning, Sent, EventWatched, PassInv, SnapshotHolds, JobOfPass, JobIsCurrent,
     NothingMissed, AllUp, Unheard, Settled, Ahead
<1> QED
  BY <1>1, <1>2, <1>3, <1>4, <1>5 DEF Next

THEOREM DefinitionsInvariant == Spec => []IInv
BY InitInv, NextInv, PTL DEF Spec

(* The state of the two tasks, of their queues and of the compiler is well *)
(* typed, for any functions, configs, codes and requests.                  *)
THEOREM DefinitionsTypeCorrect == Spec => []TypeOK
<1>1. IInv => TypeOK
  BY DEF IInv
<1> QED
  BY <1>1, DefinitionsInvariant, PTL

-----------------------------------------------------------------------------
(* The code.  From when the scan has read it until the application ends,   *)
(* what it holds is what is there; before and after, what the workers have *)
(* is, if they have it from the scan.                                      *)
HoldsCode(f) ==
  job["scan"] # NoJob /\ job["scan"].function = f /\ job["scan"].phase # "Code"

CodeInv ==
  AllUp => \A f \in Functions \ recoded :
    IF HoldsCode(f) THEN job["scan"].code = CodeOf(job["scan"]) ELSE CodeIsCurrent(f)

(* A step that neither edits code nor sends anything, and leaves what the  *)
(* scan holds.                                                             *)
LEMMA CodeKept ==
  ASSUME CodeInv, UNCHANGED <<code, sent, recoded>>, AllUp' => AllUp,
         \/ job'["scan"] = job["scan"]
         \/ /\ job["scan"] = NoJob \/ job["scan"].phase = "Code"
            /\ job'["scan"] = NoJob \/ job'["scan"].phase = "Code"
         \/ /\ job["scan"] # NoJob /\ job["scan"].phase # "Code"
            /\ job'["scan"] # NoJob /\ job'["scan"].phase # "Code"
            /\ job'["scan"].function = job["scan"].function
            /\ job'["scan"].config = job["scan"].config
            /\ job'["scan"].code = job["scan"].code
  PROVE  CodeInv'
BY DEF CodeInv, HoldsCode, CodeIsCurrent, CodeOf, CodeFor, Sent

LEMMA EditCodeKeeps ==
  ASSUME IInv, CodeInv, NEW f \in Functions, NEW k \in Codes \cup {Missing}, EditCode(f, k)
  PROVE  CodeInv'
<1>1. \A g \in Functions : g # f => code'[g] = code[g]
  BY DEF EditCode, IInv, TypeOK
<1> QED
  BY <1>1 DEF EditCode, CodeInv, HoldsCode, CodeIsCurrent, CodeOf, CodeFor, Sent, AllUp

(* What is removed is not compared any longer.                             *)
LEMMA RemovalKeeps ==
  ASSUME IInv, CodeInv, NEW S \in SUBSET Functions,
         running' = [f \in Functions |-> IF f \in S THEN Removed ELSE running[f]],
         UNCHANGED <<code, job, recoded, management, cron>>
  PROVE  CodeInv'
BY DEF CodeInv, HoldsCode, CodeIsCurrent, CodeOf, CodeFor, Sent, AllUp

LEMMA CompileKeeps == IInv /\ CodeInv /\ Compile => CodeInv'
<1> SUFFICES ASSUME IInv, CodeInv, Compile PROVE CodeInv'
  OBVIOUS
<1> DEFINE a == Head(compiler_rx)
           p == IF job[a].code \in Broken THEN "Failed" ELSE "Compiled"
           new == [job[a] EXCEPT !.phase = p]
<1>1. job \in [Tasks -> Job \cup {NoJob}] /\ "scan" \in Tasks
  BY DEF IInv, TypeOK, Tasks
<1>2. a \in Tasks /\ InPhase(a, "Compiling") /\ job[a] \in Job
  BY HeadTailProperties, LenProperties, EmptySeq
     DEF IInv, TypeOK, Compile, CompilerQueue, InPhase
<1>3. /\ new \in Job /\ new.phase = p /\ p # "Code" /\ new # NoJob
      /\ new.function = job[a].function /\ new.config = job[a].config
      /\ new.code = job[a].code
  <2>1. p \in {"Read", "Compiling", "Compiled", "Failed"} /\ job[a].phase # "Code"
    BY <1>2 DEF InPhase
  <2>2. p # "Code"
    BY <2>1
  <2> HIDE DEF p, a
  <2>3. /\ new \in Job /\ new.phase = p
        /\ new.function = job[a].function /\ new.config = job[a].config
        /\ new.code = job[a].code
    BY <1>2, <2>1, JobGoes
  <2>4. new # NoJob
    BY <2>3, DefinitionsAssumption
  <2> QED
    BY <2>2, <2>3, <2>4
<1>4. job' = [job EXCEPT ![a] = new]
  BY DEF Compile, Goes
<1>5. job[a] # NoJob /\ job[a].phase # "Code"
  BY <1>2 DEF InPhase
<1> HIDE DEF new, p, a
<1>6. CASE a = "scan"
  BY <1>1, <1>3, <1>4, <1>5, <1>6, CodeKept DEF Compile, AllUp
<1>7. CASE a # "scan"
  BY <1>1, <1>4, <1>7, CodeKept DEF Compile, AllUp
<1> QED
  BY <1>6, <1>7

(* An application that fails leaves its function to recoded.               *)
LEMMA FailsKeeps ==
  ASSUME IInv, CodeInv, NEW a \in Tasks, job[a] # NoJob, Fails(a),
         UNCHANGED <<code, management, cron, sent>>
  PROVE  CodeInv'
<1>1. job \in [Tasks -> Job \cup {NoJob}] /\ "scan" \in Tasks /\ "api" \in Tasks
  BY DEF IInv, TypeOK, Tasks
<1>2. CASE a = "scan"
  BY <1>1, <1>2 DEF Fails, Ends, CodeInv, HoldsCode, CodeIsCurrent, CodeOf, CodeFor, Sent, AllUp
<1>3. CASE a # "scan"
  BY <1>1, <1>3, CodeKept DEF Fails, Ends, AllUp
<1> QED
  BY <1>2, <1>3

LEMMA ReadCodeKeeps ==
  ASSUME IInv, CodeInv, NEW a \in Tasks, ReadCode(a)
  PROVE  CodeInv'
<1>1. job \in [Tasks -> Job \cup {NoJob}] /\ "scan" \in Tasks /\ "api" \in Tasks
  BY DEF IInv, TypeOK, Tasks
<1>2. job[a] # NoJob /\ job[a].phase = "Code"
  BY DEF ReadCode, InPhase
<1>3. CASE CodeOf(job[a]) # Missing /\ a = "scan"
  <2> DEFINE new == [function |-> job[a].function, config |-> job[a].config,
                     code |-> CodeOf(job[a]), phase |-> "Read"]
  <2>1. /\ job'["scan"] = new /\ recoded' = recoded \ {job["scan"].function}
        /\ UNCHANGED <<code, running, management, cron>>
    BY <1>1, <1>3 DEF ReadCode
  <2>2. /\ new.function = job["scan"].function /\ new.phase # "Code"
        /\ new.code = CodeOf(job["scan"]) /\ new.config = job["scan"].config
        /\ new # NoJob
    <3>1. new \in Job
      <4>1. job[a] \in Job
        BY <1>1, <1>2
      <4>2. CodeOf(job[a]) \in Codes
        BY <1>3, <4>1, JobParts, DefinitionsAssumption DEF IInv, TypeOK, CodeOf, CodeFor
      <4> QED
        BY <4>1, <4>2, JobParts, NewJobs
    <3> QED
      BY <1>3, <3>1, DefinitionsAssumption
  <2> HIDE DEF new
  <2>3. CodeOf(job["scan"])' = new.code
    <3>1. /\ job'["scan"].function = job["scan"].function
          /\ job'["scan"].config = job["scan"].config
      BY <2>1, <2>2
    <3> QED
      BY <2>1, <2>2, <3>1 DEF CodeOf, CodeFor
  <2>4. ASSUME NEW f \in Functions, f # job["scan"].function
        PROVE  ~HoldsCode(f) /\ ~HoldsCode(f)' /\ (CodeIsCurrent(f) => CodeIsCurrent(f)')
    BY <2>1, <2>2, <2>4 DEF HoldsCode, CodeIsCurrent, CodeFor, Sent
  <2>5. ASSUME NEW f \in Functions, f = job["scan"].function
        PROVE  HoldsCode(f)' /\ (job["scan"].code = CodeOf(job["scan"]))'
    BY <2>1, <2>2, <2>3, <2>5 DEF HoldsCode, CodeOf, CodeFor
  <2> QED
    BY <2>1, <2>4, <2>5 DEF CodeInv, AllUp
<1>4. CASE CodeOf(job[a]) # Missing /\ a # "scan"
  BY <1>1, <1>4, CodeKept DEF ReadCode, AllUp
<1>5. CASE CodeOf(job[a]) = Missing /\ job[a].config \in ByPath
  BY <1>5 DEF ReadCode, Panics, CodeInv, AllUp
<1>6. CASE CodeOf(job[a]) = Missing /\ job[a].config \notin ByPath
  BY <1>2, <1>6, FailsKeeps DEF ReadCode
<1> QED
  BY <1>3, <1>4, <1>5, <1>6

LEMMA SendToCompilerKeeps ==
  ASSUME IInv, CodeInv, NEW a \in Tasks, SendToCompiler(a)
  PROVE  CodeInv'
<1> DEFINE new == [job[a] EXCEPT !.phase = "Compiling"]
<1>1. job \in [Tasks -> Job \cup {NoJob}] /\ "scan" \in Tasks
  BY DEF IInv, TypeOK, Tasks
<1>2. job[a] \in Job /\ job[a] # NoJob /\ job[a].phase = "Read"
  BY DEF IInv, TypeOK, SendToCompiler, InPhase
<1>3. /\ new \in Job /\ new.phase = "Compiling" /\ new # NoJob
      /\ new.function = job[a].function /\ new.config = job[a].config
      /\ new.code = job[a].code
  BY <1>2, JobGoes, DefinitionsAssumption
<1>4. job' = [job EXCEPT ![a] = new]
  BY DEF SendToCompiler, Goes
<1> HIDE DEF new
<1>5. CASE a = "scan"
  BY <1>1, <1>2, <1>3, <1>4, <1>5, CodeKept DEF SendToCompiler, AllUp
<1>6. CASE a # "scan"
  BY <1>1, <1>4, <1>6, CodeKept DEF SendToCompiler, AllUp
<1> QED
  BY <1>5, <1>6

(* What the scan held is what the workers now have; what the api sends is  *)
(* not compared.                                                           *)
LEMMA DeployedKeeps ==
  ASSUME IInv, CodeInv, NEW a \in Tasks, Deployed(a)
  PROVE  CodeInv'
<1>0. /\ TypeOK /\ InPhase(a, "Compiled") /\ Sends(a) /\ Ends(a) /\ AllUp
      /\ UNCHANGED <<code, recoded, management, cron>>
  BY DEF IInv, Deployed, AllUp
<1>1. /\ job \in [Tasks -> Job \cup {NoJob}] /\ "scan" \in Tasks
      /\ job[a] # NoJob /\ job[a].phase = "Compiled"
      /\ running \in [Functions -> Message \cup {Nothing, Removed}]
  BY <1>0 DEF TypeOK, Tasks, InPhase
<1>2. PICK f \in Functions : f = job[a].function
  BY <1>0, SendsType
<1> DEFINE message == [config |-> job[a].config, code |-> job[a].code, by |-> a]
<1>3. /\ running'[f] = message
      /\ \A g \in Functions : g # f => running'[g] = running[g]
  BY <1>0, <1>1, <1>2 DEF Sends
<1>4. message.by = a /\ message.code = job[a].code /\ message.config = job[a].config
  OBVIOUS
<1> HIDE DEF message
<1>5. job' = [job EXCEPT ![a] = NoJob]
  BY <1>0 DEF Ends
<1>6. CASE a = "scan"
  <2>1. ~HoldsCode(f)' /\ HoldsCode(f)
    BY <1>1, <1>2, <1>5, <1>6 DEF HoldsCode
  <2>2. f \notin recoded => message.code = CodeFor(f, message.config)
    BY <1>0, <1>2, <1>4, <1>6, <2>1 DEF CodeInv, CodeOf
  <2>3. f \notin recoded => CodeIsCurrent(f)'
    BY <1>0, <1>3, <2>2 DEF CodeIsCurrent, CodeFor
  <2>4. ASSUME NEW g \in Functions, g # f
        PROVE  ~HoldsCode(g) /\ ~HoldsCode(g)' /\ (CodeIsCurrent(g) => CodeIsCurrent(g)')
    BY <1>0, <1>1, <1>2, <1>3, <1>5, <1>6, <2>4 DEF HoldsCode, CodeIsCurrent, CodeFor, Sent
  <2> QED
    BY <1>0, <2>1, <2>3, <2>4 DEF CodeInv
<1>7. CASE a # "scan"
  <2>1. job'["scan"] = job["scan"] /\ CodeIsCurrent(f)'
    BY <1>1, <1>3, <1>4, <1>5, <1>7 DEF CodeIsCurrent
  <2>2. ASSUME NEW g \in Functions
        PROVE  CodeIsCurrent(g) => CodeIsCurrent(g)'
    BY <1>0, <1>3, <2>1 DEF CodeIsCurrent, CodeFor, Sent
  <2> QED
    BY <1>0, <2>1, <2>2 DEF CodeInv, HoldsCode, CodeOf, CodeFor
<1> QED
  BY <1>6, <1>7

LEMMA NextKeepsCode == IInv /\ CodeInv /\ [Next]_vars => CodeInv'
<1> SUFFICES ASSUME IInv, CodeInv, [Next]_vars PROVE CodeInv'
  OBVIOUS
<1>0. job \in [Tasks -> Job \cup {NoJob}] /\ "scan" \in Tasks /\ "api" \in Tasks
  BY DEF IInv, TypeOK, Tasks
<1>1. CASE Environment
  <2>1. ASSUME NEW f \in Functions, RemoveOverApi(f) PROVE CodeInv'
    <3>1. running' = [g \in Functions |-> IF g \in {f} THEN Removed ELSE running[g]]
      BY <2>1 DEF RemoveOverApi, IInv, TypeOK
    <3>2. {f} \in SUBSET Functions
      OBVIOUS
    <3> QED
      BY <2>1, <3>1, <3>2, RemovalKeeps DEF RemoveOverApi
  <2>2. \A edit \in Rebuilt : EditCode(edit[1], edit[2]) => CodeInv'
    BY EditCodeKeeps, DefinitionsAssumption
  <2>3. ASSUME NEW f, NEW c, EditDefinition(f, c) PROVE CodeInv'
    BY <2>3, CodeKept DEF EditDefinition, AllUp
  <2>4. CASE Ask \/ CronStops
    BY <2>4, CodeKept DEF Ask, DeployFunction, CronStops, AllUp
  <2> QED
    BY <1>1, <2>1, <2>2, <2>3, <2>4 DEF Environment, Edit
<1>2. CASE Scan
  <2>1. CASE EndPass
    <3>1. Forgotten \in SUBSET Functions
      BY DEF Forgotten
    <3> QED
      BY <2>1, <3>1, RemovalKeeps DEF EndPass
  <2>2. ASSUME NEW f \in Functions, Visit(f) PROVE CodeInv'
    <3>1. job'["scan"] = job["scan"] \/ job'["scan"].phase = "Code"
      BY <1>0, <2>2 DEF Visit, Begins
    <3>2. job["scan"] = NoJob /\ UNCHANGED <<code, sent, recoded, management, cron>>
      BY <2>2 DEF Visit
    <3> QED
      BY <3>1, <3>2, CodeKept DEF AllUp
  <2>3. CASE StartPass \/ Watch
    BY <2>3, CodeKept DEF StartPass, Watch, StartWatching, WatchFails, AllUp
  <2> QED
    BY <1>2, <2>1, <2>2, <2>3 DEF Scan
<1>3. CASE Notify \/ TakeRequest \/ LoopStops
  BY <1>0, <1>3, CodeKept DEF Notify, TakeRequest, LoopStops, Begins, AllUp
<1>4. CASE Compile
  BY <1>4, CompileKeeps
<1>5. ASSUME NEW a \in Tasks, Applies(a) PROVE CodeInv'
  <2>1. CASE CompileFails(a)
    BY <2>1, FailsKeeps DEF CompileFails, InPhase
  <2>2. CASE EnvPanics(a) \/ SchedulePanics(a) \/ CronIsGone(a)
    BY <2>2 DEF EnvPanics, SchedulePanics, CronIsGone, Panics, CodeInv, AllUp
  <2> QED
    BY <1>5, <2>1, <2>2, ReadCodeKeeps, SendToCompilerKeeps, DeployedKeeps DEF Applies
<1>6. CASE UNCHANGED vars
  BY <1>6, CodeKept DEF AllUp
<1> QED
  BY <1>1, <1>2, <1>3, <1>4, <1>5, <1>6 DEF Next

(* When the scan is quiet every definition it could know of is deployed or *)
(* refused, whatever was edited while it worked, and the workers have the  *)
(* code that was there when it was last read for them (monitor.rs,         *)
(* 64-158).                                                                *)
THEOREM NoDefinitionIsMissed == Spec => []QuietMeansApplied
<1>1. Init => CodeInv
  BY DEF Init, CodeInv, HoldsCode, CodeIsCurrent, Sent, Tasks
<1>2. IInv /\ CodeInv => QuietMeansApplied
  BY DEF IInv, PassInv, JobOfPass, NothingMissed, CodeInv, HoldsCode, QuietMeansApplied,
         Unheard, Ahead
<1> QED
  BY <1>1, <1>2, NextKeepsCode, DefinitionsInvariant, PTL DEF Spec

(* Workers and cron agree on the version of a function, however the two    *)
(* tasks interleave (apply_config, monitor.rs).                            *)
THEOREM WorkersAndCronAgree == Spec => []CronFollowsWorkers
<1>1. IInv => CronFollowsWorkers
  BY DEF IInv
<1> QED
  BY <1>1, DefinitionsInvariant, PTL

(* deployed_state is what the workers were sent by the scan                *)
(* (reconcile_definitions, monitor.rs).                                    *)
THEOREM RecordedWasSent == Spec => []RecordedIsRunning
<1>1. IInv => RecordedIsRunning
  BY DEF IInv
<1> QED
  BY <1>1, DefinitionsInvariant, PTL

(* A pass never finds anything to remove: what was deployed when it began  *)
(* still is when it ends, whatever became of the files                     *)
(* (reconcile_definitions, monitor.rs, 160-169).                           *)
THEOREM NothingIsForgotten == Spec => [](Forgotten = {})
<1>1. Init => Forgotten = {}
  BY DEF Init, Forgotten
<1>2. IInv /\ Forgotten = {} /\ [Next]_vars => (Forgotten = {})'
  <2> SUFFICES ASSUME IInv, Forgotten = {}, [Next]_vars PROVE (Forgotten = {})'
    OBVIOUS
  <2>1. CASE UNCHANGED <<prev_state, deployed_state>>
    BY <2>1 DEF Forgotten
  <2>2. CASE StartPass
    BY <2>2 DEF StartPass, Forgotten
  <2>3. ASSUME NEW a \in Tasks, Deployed(a) PROVE (Forgotten = {})'
    <3>1. /\ prev_state' = prev_state
          /\ \/ deployed_state' = deployed_state
             \/ deployed_state' = [deployed_state EXCEPT ![job[a].function] = job[a].config]
      BY <2>3 DEF Deployed
    <3>2. job[a].config \in Configs
      <4>1. job[a] \in Job
        BY <2>3 DEF Deployed, InPhase, IInv, TypeOK
      <4> QED BY <4>1, JobParts
    <3> QED
      BY <3>1, <3>2, DefinitionsAssumption DEF Forgotten, IInv, TypeOK
  <2>4. Next \/ UNCHANGED vars
    OBVIOUS
  <2>5. CASE Environment
    BY <2>1, <2>5 DEF Environment, Edit, Ask, EditDefinition, EditCode, RemoveOverApi,
       DeployFunction, CronStops
  <2>6. CASE Notify \/ TakeRequest \/ LoopStops \/ Compile \/ UNCHANGED vars
    BY <2>1, <2>6 DEF Notify, TakeRequest, LoopStops, Compile
  <2>7. CASE Scan
    BY <2>1, <2>2, <2>7 DEF Scan, Visit, EndPass, Watch, StartWatching, WatchFails
  <2>8. ASSUME NEW a \in Tasks, Applies(a) PROVE (Forgotten = {})'
    BY <2>1, <2>3, <2>8
       DEF Applies, ReadCode, SendToCompiler, CompileFails, EnvPanics, SchedulePanics,
           CronIsGone, Panics, Fails
  <2> QED
    BY <2>4, <2>5, <2>6, <2>7, <2>8 DEF Next
<1> QED
  BY <1>1, <1>2, DefinitionsInvariant, PTL DEF Spec
=============================================================================
