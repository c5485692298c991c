----------------------------- MODULE BlobProofs -----------------------------
(***************************************************************************)
(* Proofs about Blob: its types, that what was acknowledged is stored, and *)
(* that the thread implements AtomicBlob, for any calls, objects, values   *)
(* and number of crashes.                                                  *)
(***************************************************************************)
EXTENDS Blob, SequenceTheorems, TLAPS

Pending(c) == call[c] \in {"waits", "dropped"}

\* What waits in the queue has no answer, and is there once.
QueueInv ==
    /\ \A i \in 1..Len(queue) : Pending(queue[i]) /\ queue[i] # current
    /\ \A i, j \in 1..Len(queue) : i # j => queue[i] # queue[j]

CurrentInv == current # NoCall => Pending(current)

\* Between the two steps of a call the index is ahead of the files.
StepInv ==
    phase = "file" => (Object(current) \in rows <=> Request[current].op # "delete")

IInv ==
    TypeOK /\ QueueInv /\ CurrentInv /\ StepInv /\ SettledIsStored

LEMMA RequestType ==
    ASSUME NEW c \in Calls
    PROVE  /\ Request[c].op \in Ops /\ Request[c].object \in Objects
           /\ Request[c].value \in Values /\ Request[c].bound \in BOOLEAN
           /\ Object(c) \in Objects
BY RequestAssumption DEF Object

LEMMA AnswersType ==
    ASSUME TypeOK, NEW c \in Calls, NEW a \in Answered, Answers(c, a)
    PROVE  /\ call' \in [Calls -> {"new", "waits", "dropped", "answered", "lost"}]
           /\ answer' \in [Calls -> Answered \cup {NoAnswer}]
BY DEF TypeOK, Answers

\* An answer to a call that is not queued leaves the queue as it was.
LEMMA AnswersCalling ==
    ASSUME TypeOK, QueueInv, CurrentInv, NEW c \in Calls, NEW a, Answers(c, a),
           \A i \in 1..Len(queue) : queue[i] # c,
           UNCHANGED queue,
           \/ UNCHANGED current /\ current # c
           \/ current' = NoCall
    PROVE  QueueInv' /\ CurrentInv'
<1>1. \A i \in 1..Len(queue) : queue[i] \in Calls
  BY ElementOfSeq DEF TypeOK
<1>2. \A d \in Calls : d # c => call'[d] = call[d]
  BY DEF Answers, TypeOK
<1>3. NoCall \notin Calls
  BY ValuesAssumption
<1>4. QueueInv'
  BY <1>1, <1>2, <1>3 DEF QueueInv, Pending
<1>5. CurrentInv'
  BY <1>2, <1>3 DEF CurrentInv, Pending, TypeOK
<1>6. QED
  BY <1>4, <1>5

\* The end of a call: its answer, and a thread that is idle again.
LEMMA DoneStep ==
    ASSUME IInv, current \in Calls, NEW a \in Answered, Done(a),
           rows' \subseteq Objects, files' \in [Objects -> Contents],
           settled' \in [Objects -> Values \cup {Absent, Unsure}]
    PROVE  TypeOK' /\ QueueInv' /\ CurrentInv' /\ StepInv'
<1>1. TypeOK'
  <2>1. /\ call' \in [Calls -> {"new", "waits", "dropped", "answered", "lost"}]
        /\ answer' \in [Calls -> Answered \cup {NoAnswer}]
    BY AnswersType DEF IInv, Done
  <2>2. QED
    BY <2>1 DEF IInv, TypeOK, Done, Phases
<1>2. QueueInv' /\ CurrentInv'
  BY AnswersCalling DEF IInv, Done, QueueInv
<1>3. StepInv'
  BY DEF StepInv, Done
<1>4. QED
  BY <1>1, <1>2, <1>3

\* A step that changes no object, no answer and no phase.
LEMMA SettledUnchanged ==
    ASSUME SettledIsStored, UNCHANGED <<rows, files, settled>>,
           phase' = phase \/ phase # "file",
           phase = "file" => current' = current
    PROVE  SettledIsStored'
BY DEF SettledIsStored, View, Object

-----------------------------------------------------------------------------
(* Guests *)

LEMMA RefuseStep ==
    ASSUME IInv, NEW c \in Calls, Refuse(c) \/ ThreadIsGone(c)
    PROVE  IInv'
<1>1. PICK a \in Errors : Answers(c, a)
  BY DEF Refuse, ThreadIsGone, Errors
<1>2. /\ UNCHANGED <<phase, current, queue, rows, files, settled, crashes>>
      /\ call[c] = "new"
  BY DEF Refuse, ThreadIsGone
<1>3. /\ call' \in [Calls -> {"new", "waits", "dropped", "answered", "lost"}]
      /\ answer' \in [Calls -> Answered \cup {NoAnswer}]
  BY <1>1, AnswersType DEF IInv, Answered
<1>4. TypeOK'
  BY <1>2, <1>3 DEF IInv, TypeOK
<1>5. /\ \A i \in 1..Len(queue) : queue[i] # c
      /\ current # c
  BY <1>2, ValuesAssumption DEF IInv, QueueInv, CurrentInv, Pending, TypeOK
<1>6. QueueInv' /\ CurrentInv'
  BY <1>1, <1>2, <1>5, AnswersCalling DEF IInv
<1>7. StepInv'
  BY <1>2 DEF IInv, StepInv, Object
<1>8. SettledIsStored'
  BY <1>2, SettledUnchanged DEF IInv
<1>9. QED
  BY <1>4, <1>6, <1>7, <1>8 DEF IInv

LEMMA SendStep ==
    ASSUME IInv, NEW c \in Calls, Put(c) \/ Get(c) \/ Delete(c)
    PROVE  IInv'
<1>1. /\ call[c] = "new" /\ phase # "stopped"
      /\ call' = [call EXCEPT ![c] = "waits"]
      /\ queue' = Append(queue, c)
      /\ UNCHANGED <<phase, current, rows, files, answer, settled, crashes>>
  BY DEF Put, Get, Delete, SendTo
<1>2. queue \in Seq(Calls) /\ call \in [Calls -> {"new", "waits", "dropped", "answered", "lost"}]
  BY DEF IInv, TypeOK
<1>3. queue' \in Seq(Calls) /\ call' \in [Calls -> {"new", "waits", "dropped", "answered", "lost"}]
  BY <1>1, <1>2, AppendProperties
<1>4. TypeOK'
  BY <1>1, <1>3 DEF IInv, TypeOK
<1>5. /\ Len(queue') = Len(queue) + 1 /\ queue'[Len(queue) + 1] = c
      /\ \A i \in 1..Len(queue) : queue'[i] = queue[i]
      /\ Len(queue) \in Nat
  BY <1>1, <1>2, AppendProperties, LenProperties
<1>6. /\ \A i \in 1..Len(queue) : queue[i] \in Calls /\ queue[i] # c /\ call'[queue[i]] = call[queue[i]]
      /\ current # c
  BY <1>1, <1>2, ElementOfSeq, ValuesAssumption DEF IInv, QueueInv, CurrentInv, Pending, TypeOK
<1>7. QueueInv'
  <2>1. \A i \in 1..Len(queue') : i \in 1..Len(queue) \/ i = Len(queue) + 1
    BY <1>5
  <2>2. call'[c] = "waits"
    BY <1>1, <1>2
  <2>3. QED
    BY <1>1, <1>2, <1>5, <1>6, <2>1, <2>2 DEF IInv, QueueInv, Pending
<1>8. CurrentInv'
  BY <1>1, <1>2, <1>6 DEF IInv, CurrentInv, Pending, TypeOK
<1>9. StepInv'
  BY <1>1 DEF IInv, StepInv, Object
<1>10. SettledIsStored'
  BY <1>1, SettledUnchanged DEF IInv
<1>11. QED
  BY <1>4, <1>7, <1>8, <1>9, <1>10 DEF IInv

LEMMA DropStep ==
    ASSUME IInv, NEW c \in Calls, Drop(c)
    PROVE  IInv'
<1>1. TypeOK'
  BY DEF IInv, TypeOK, Drop
<1>2. \A d \in Calls : Pending(d) => Pending(d)'
  BY DEF IInv, TypeOK, Drop, Pending
<1>3. \A i \in 1..Len(queue) : queue[i] \in Calls
  BY ElementOfSeq DEF IInv, TypeOK
<1>4. QueueInv' /\ CurrentInv'
  BY <1>2, <1>3 DEF IInv, QueueInv, CurrentInv, TypeOK, Drop, Pending
<1>5. StepInv'
  BY DEF IInv, StepInv, Object, Drop
<1>6. SettledIsStored'
  BY SettledUnchanged DEF IInv, Drop
<1>7. QED
  BY <1>1, <1>4, <1>5, <1>6 DEF IInv

-----------------------------------------------------------------------------
(* The thread *)

LEMMA StartStep ==
    ASSUME IInv, Start \/ StartFails
    PROVE  IInv'
<1>1. /\ phase = "starts" /\ phase' \in {"idle", "stopped"}
      /\ UNCHANGED <<current, queue, rows, files, call, answer, settled, crashes>>
  BY DEF Start, StartFails
<1>2. TypeOK'
  BY <1>1 DEF IInv, TypeOK, Phases
<1>3. QueueInv' /\ CurrentInv'
  BY <1>1 DEF IInv, QueueInv, CurrentInv, Pending
<1>4. StepInv'
  BY <1>1 DEF IInv, StepInv
<1>5. SettledIsStored'
  BY <1>1, SettledUnchanged DEF IInv
<1>6. QED
  BY <1>2, <1>3, <1>4, <1>5 DEF IInv

LEMMA TakeStep ==
    ASSUME IInv, Take
    PROVE  IInv'
<1>1. queue \in Seq(Calls) /\ queue # <<>> /\ phase = "idle" /\ current = NoCall
  BY DEF IInv, TypeOK, Take
<1>2. /\ Head(queue) \in Calls /\ Tail(queue) \in Seq(Calls)
      /\ Len(Tail(queue)) = Len(queue) - 1 /\ Len(queue) \in Nat /\ Len(queue) # 0
      /\ Head(queue) = queue[1]
      /\ \A i \in 1..Len(Tail(queue)) : Tail(queue)[i] = queue[i + 1]
  BY <1>1, HeadTailProperties, LenProperties, EmptySeq, ElementOfSeq
<1>3. TypeOK'
  BY <1>1, <1>2, ValuesAssumption DEF IInv, TypeOK, Take, Phases
<1>4. QueueInv'
  <2>1. \A i \in 1..Len(queue') : i + 1 \in 1..Len(queue) /\ queue'[i] = queue[i + 1]
    BY <1>2 DEF Take
  <2>2. 1 \in 1..Len(queue) /\ \A i \in 1..Len(queue') : i + 1 # 1
    BY <1>2 DEF Take
  <2>3. current' = queue[1] /\ call' = call
    BY <1>2 DEF Take
  <2>4. \A i, j \in 1..Len(queue') : i # j => i + 1 # j + 1
    BY <2>1
  <2>5. QED
    BY <2>1, <2>2, <2>3, <2>4 DEF IInv, QueueInv, Pending
<1>5. CurrentInv'
  <2>1. 1 \in 1..Len(queue) /\ current' = queue[1] /\ call' = call
    BY <1>2 DEF Take
  <2>2. QED
    BY <2>1 DEF IInv, QueueInv, CurrentInv, Pending
<1>6. StepInv'
  BY DEF StepInv, Take
<1>7. SettledIsStored'
  BY <1>1, SettledUnchanged DEF IInv, Take
<1>8. QED
  BY <1>3, <1>4, <1>5, <1>6, <1>7 DEF IInv

\* The first steps of a call: only the index changes, for the object at hand.
LEMMA IndexStep ==
    ASSUME IInv, PutRow \/ GetRow \/ DeleteRow
    PROVE  IInv'
<1>1. /\ phase = "index" /\ phase' = "file" /\ current # NoCall
      /\ UNCHANGED <<current, queue, files, call, answer, settled, crashes>>
      /\ rows' \in {rows, rows \cup {Object(current)}, rows \ {Object(current)}}
      /\ Request[current].op = "get" => rows' = rows
      /\ Object(current) \in rows' <=> Request[current].op # "delete"
  BY DEF PutRow, GetRow, DeleteRow, Serves
<1>2. current \in Calls /\ Object(current) \in Objects
  BY <1>1, RequestType DEF IInv, TypeOK
<1>3. TypeOK'
  BY <1>1, <1>2 DEF IInv, TypeOK, Phases
<1>4. QueueInv' /\ CurrentInv'
  BY <1>1 DEF IInv, QueueInv, CurrentInv, Pending
<1>5. StepInv'
  BY <1>1 DEF StepInv, Object
<1>6. SettledIsStored'
  <2> SUFFICES ASSUME NEW o \in Objects
               PROVE  \/ settled'[o] \in {View(o)', Unsure}
                      \/ phase' = "file" /\ Object(current)' = o /\ Request[current'].op # "get"
    BY DEF SettledIsStored
  <2>1. CASE Object(current) = o /\ Request[current].op # "get"
    BY <1>1, <2>1 DEF Object
  <2>2. CASE ~(Object(current) = o /\ Request[current].op # "get")
    <3>1. View(o)' = View(o)
      BY <1>1, <2>2 DEF View
    <3>2. settled[o] \in {View(o), Unsure}
      BY <1>1 DEF IInv, SettledIsStored
    <3>3. QED
      BY <1>1, <3>1, <3>2
  <2>3. QED
    BY <2>1, <2>2
<1>7. QED
  BY <1>3, <1>4, <1>5, <1>6 DEF IInv

\* A call that ends without having touched its object.
LEMMA ReadStep ==
    ASSUME IInv, IndexFails \/ GetNoRow \/ GetFile \/ GetFileFails
    PROVE  IInv'
<1>1. /\ current \in Calls /\ Object(current) \in Objects
      /\ phase = "file" => Request[current].op = "get"
      /\ UNCHANGED <<rows, files, settled>>
  BY RequestType DEF IInv, TypeOK, IndexFails, GetNoRow, GetFile, GetFileFails, Serves
<1>2. PICK a \in Answered : Done(a)
  <2>1. files[Object(current)] # Missing => Bytes(Object(current)) \in Answered
    BY <1>1 DEF IInv, TypeOK, Bytes, Answered, Contents
  <2>2. QED
    BY <2>1 DEF IndexFails, GetNoRow, GetFile, GetFileFails, Answered, Errors
<1>3. TypeOK' /\ QueueInv' /\ CurrentInv' /\ StepInv'
  BY <1>1, <1>2, DoneStep DEF IInv, TypeOK
<1>4. SettledIsStored'
  BY <1>1, <1>2 DEF IInv, SettledIsStored, View, Done
<1>5. QED
  BY <1>3, <1>4 DEF IInv

\* A call that ends with its object settled, whatever the object holds.
LEMMA SettleStep ==
    ASSUME IInv, PutFile \/ PutFileFails \/ DeleteNoRow \/ RemoveFile \/ RemoveFileFails
    PROVE  IInv'
<1>0. PICK o : o = Object(current)
  OBVIOUS
<1>1. /\ current \in Calls /\ o \in Objects /\ Request[current].value \in Values
      /\ UNCHANGED rows
      /\ \A p \in Objects \ {o} : files'[p] = files[p] /\ settled'[p] = settled[p]
  BY <1>0, RequestType
  DEF IInv, TypeOK, PutFile, PutFileFails, DeleteNoRow, RemoveFile, RemoveFileFails, Serves, Settles
<1>2. PICK a \in Answered : Done(a)
  BY DEF PutFile, PutFileFails, DeleteNoRow, RemoveFile, RemoveFileFails, Answered, Errors
<1>3. /\ files' \in [Objects -> Contents]
      /\ settled' \in [Objects -> Values \cup {Absent, Unsure}]
  BY <1>0, <1>1
  DEF IInv, TypeOK, PutFile, PutFileFails, DeleteNoRow, RemoveFile, RemoveFileFails, Settles, Contents
<1>4. TypeOK' /\ QueueInv' /\ CurrentInv' /\ StepInv'
  BY <1>1, <1>2, <1>3, DoneStep DEF IInv, TypeOK
<1>5. settled'[o] \in {View(o)', Unsure}
  <2>1. CASE PutFile
    <3>1. /\ o \in rows' /\ files'[o] = Request[current].value
          /\ settled'[o] = Request[current].value
      BY <1>0, <1>1, <2>1 DEF IInv, StepInv, TypeOK, PutFile, Serves, Settles
    <3>2. QED
      BY <1>1, <3>1, ValuesAssumption DEF View
  <2>2. CASE PutFileFails
    BY <1>0, <1>1, <2>2 DEF IInv, TypeOK, PutFileFails, Settles
  <2>3. CASE DeleteNoRow \/ RemoveFile \/ RemoveFileFails
    BY <1>0, <1>1, <2>3
    DEF IInv, StepInv, TypeOK, DeleteNoRow, RemoveFile, RemoveFileFails, Serves, Settles, View
  <2>4. QED
    BY <2>1, <2>2, <2>3
<1>6. SettledIsStored'
  <2> SUFFICES ASSUME NEW p \in Objects PROVE settled'[p] \in {View(p)', Unsure}
    BY DEF SettledIsStored
  <2>1. CASE p = o
    BY <1>5, <2>1
  <2>2. CASE p # o
    BY <1>0, <1>1, <2>2 DEF IInv, SettledIsStored, View, StepInv
  <2>3. QED
    BY <2>1, <2>2
<1>7. QED
  BY <1>4, <1>6 DEF IInv

LEMMA CrashStep ==
    ASSUME IInv, Crash
    PROVE  IInv'
<1> DEFINE o == Object(current)
<1>1. <<>> \in Seq(Calls) /\ Len(<<>>) = 0
  BY EmptySeq
<1>2. phase = "file" => current \in Calls /\ o \in Objects /\ Request[current].value \in Values
  BY RequestType DEF IInv, TypeOK
<1>3. /\ files' \in [Objects -> Contents]
      /\ settled' \in [Objects -> Values \cup {Absent, Unsure}]
  BY <1>2 DEF IInv, TypeOK, Crash, Serves, Contents
<1>4. /\ call' \in [Calls -> {"new", "waits", "dropped", "answered", "lost"}]
      /\ crashes' \in 0..MaxCrashes
  BY MaxCrashesAssumption DEF IInv, TypeOK, Crash
<1>5. TypeOK'
  BY <1>1, <1>3, <1>4 DEF IInv, TypeOK, Crash, Phases
<1>6. QueueInv' /\ CurrentInv' /\ StepInv'
  BY <1>1 DEF Crash, QueueInv, CurrentInv, StepInv
<1>7. SettledIsStored'
  <2> SUFFICES ASSUME NEW p \in Objects PROVE settled'[p] \in {View(p)', Unsure}
    BY DEF SettledIsStored
  <2>1. CASE phase = "file" /\ p = o /\ Request[current].op = "put"
    BY <1>2, <2>1 DEF IInv, TypeOK, Crash, Serves
  <2>2. CASE phase = "file" /\ p = o /\ Request[current].op = "delete"
    <3>1. p \notin rows'
      BY <2>2 DEF IInv, StepInv, Crash
    <3>2. settled'[p] = Absent
      BY <1>2, <2>2 DEF IInv, TypeOK, Crash, Serves
    <3>3. QED
      BY <3>1, <3>2 DEF View
  <2>3. CASE ~(phase = "file" /\ p = o /\ Request[current].op # "get")
    <3>1. files'[p] = files[p] /\ settled'[p] = settled[p] /\ rows' = rows
      BY <1>2, <2>3 DEF IInv, TypeOK, Crash, Serves
    <3>2. settled[p] \in {View(p), Unsure}
      BY <2>3 DEF IInv, SettledIsStored
    <3>3. QED
      BY <3>1, <3>2 DEF View
  <2>4. QED
    BY <1>2, <2>1, <2>2, <2>3, RequestType DEF Ops
<1>8. QED
  BY <1>5, <1>6, <1>7 DEF IInv

-----------------------------------------------------------------------------

LEMMA InitIInv == Init => IInv
<1> SUFFICES ASSUME Init PROVE IInv
  OBVIOUS
<1>1. <<>> \in Seq(Calls) /\ Len(<<>>) = 0
  BY EmptySeq
<1>2. TypeOK
  BY <1>1, MaxCrashesAssumption DEF Init, TypeOK, Phases, Contents
<1>3. QueueInv /\ CurrentInv /\ StepInv
  BY <1>1 DEF Init, QueueInv, CurrentInv, StepInv
<1>4. SettledIsStored
  BY DEF Init, SettledIsStored, View
<1>5. QED
  BY <1>2, <1>3, <1>4 DEF IInv

LEMMA Invariance == IInv /\ [Next]_vars => IInv'
<1> SUFFICES ASSUME IInv, [Next]_vars PROVE IInv'
  OBVIOUS
<1>1. ASSUME NEW c \in Calls, Put(c) \/ Get(c) \/ Delete(c) PROVE IInv'
  BY <1>1, SendStep
<1>2. ASSUME NEW c \in Calls, Refuse(c) \/ ThreadIsGone(c) PROVE IInv'
  BY <1>2, RefuseStep
<1>3. ASSUME NEW c \in Calls, Drop(c) PROVE IInv'
  BY <1>3, DropStep
<1>4. CASE Start \/ StartFails
  BY <1>4, StartStep
<1>5. CASE Take
  BY <1>5, TakeStep
<1>6. CASE Serve
  BY <1>6, IndexStep, ReadStep, SettleStep DEF Serve
<1>7. CASE Crash
  BY <1>7, CrashStep
<1>8. CASE UNCHANGED vars
  BY <1>8 DEF vars, IInv, TypeOK, QueueInv, CurrentInv, StepInv,
              SettledIsStored, View, Object, Pending
<1>9. QED
  BY <1>1, <1>2, <1>3, <1>4, <1>5, <1>6, <1>7, <1>8 DEF Next, Thread

LEMMA Invariant == Spec => []IInv
BY InitIInv, Invariance, PTL DEF Spec

\* Blob!TypeOK holds in every reachable state.
THEOREM TypeCorrect == Spec => []TypeOK
<1>1. IInv => TypeOK
  BY DEF IInv
<1>2. QED
  BY <1>1, Invariant, PTL

\* What was acknowledged is what a reader will find, for any number of calls,
\* failures and crashes.
THEOREM Settled == Spec => []SettledIsStored
<1>1. IInv => SettledIsStored
  BY DEF IInv
<1>2. QED
  BY <1>1, Invariant, PTL

-----------------------------------------------------------------------------
(* Refinement: settled, call and answer behave as AtomicBlob. *)

LEMMA InitRefines == Init => Atomic!Init
BY DEF Init, Atomic!Init

\* The steps of the guests.
LEMMA GuestRefines ==
    ASSUME NEW c \in Calls,
           Put(c) \/ Get(c) \/ Delete(c) \/ Refuse(c) \/ ThreadIsGone(c) \/ Drop(c)
    PROVE  Atomic!Next
<1>1. CASE Put(c) \/ Get(c) \/ Delete(c)
  BY <1>1 DEF Put, Get, Delete, SendTo, Atomic!Send, Atomic!Next
<1>2. CASE Refuse(c) \/ ThreadIsGone(c)
  <2>1. call[c] = "new" /\ UNCHANGED settled
    BY <1>2 DEF Refuse, ThreadIsGone
  <2>2. PICK a \in {"binding_not_exists", "panic"} : Answers(c, a)
    BY <1>2 DEF Refuse, ThreadIsGone
  <2>3. Atomic!Refuse(c)
    BY <2>1, <2>2 DEF Answers, Atomic!Refuse, Atomic!Answers
  <2>4. QED
    BY <2>3 DEF Atomic!Next
<1>3. CASE Drop(c)
  BY <1>3 DEF Drop, Atomic!Drop, Atomic!Next
<1>4. QED
  BY <1>1, <1>2, <1>3

\* The step that answers a call is the step at which it takes effect.
LEMMA ServeRefines ==
    ASSUME IInv, Serve
    PROVE  Atomic!Next \/ UNCHANGED <<settled, call, answer>>
<1> USE DEF Object
<1>1. CASE PutRow \/ GetRow \/ DeleteRow
  BY <1>1 DEF PutRow, GetRow, DeleteRow
<1>2. CASE IndexFails \/ GetNoRow \/ GetFile \/ GetFileFails \/ PutFile \/ PutFileFails
           \/ DeleteNoRow \/ RemoveFile \/ RemoveFileFails
  <2>1. /\ current \in Calls /\ Atomic!Pending(current)
        /\ Object(current) \in Objects /\ Request[current].value \in Values
    BY <1>2, RequestType
    DEF IInv, TypeOK, CurrentInv, Pending, Atomic!Pending, Serves, IndexFails, GetNoRow, GetFile,
        GetFileFails, PutFile, PutFileFails, DeleteNoRow, RemoveFile, RemoveFileFails
  <2>2. \A a : Done(a) => Atomic!Answers(current, a)
    BY DEF Done, Answers, Atomic!Answers
  <2>3. CASE IndexFails
    <3>1. Atomic!Answers(current, "storage_error") /\ UNCHANGED settled
      BY <2>2, <2>3 DEF IndexFails
    <3>2. Request[current].op \in Ops
      BY <2>1, RequestType
    <3>3. Atomic!ServePut(current) \/ Atomic!ServeGet(current) \/ Atomic!ServeDelete(current)
      BY <2>1, <3>1, <3>2 DEF Ops, Atomic!ServePut, Atomic!ServeGet, Atomic!ServeDelete
    <3>4. QED
      BY <2>1, <3>3 DEF Atomic!Next
  <2>4. CASE PutFile \/ PutFileFails
    <3>1. Atomic!ServePut(current)
      BY <2>1, <2>2, <2>4 DEF PutFile, PutFileFails, Serves, Settles, Atomic!ServePut
    <3>2. QED
      BY <2>1, <3>1 DEF Atomic!Next
  <2>5. CASE DeleteNoRow \/ RemoveFile \/ RemoveFileFails
    <3>1. Atomic!ServeDelete(current)
      BY <2>1, <2>2, <2>5
      DEF DeleteNoRow, RemoveFile, RemoveFileFails, Serves, Settles, Atomic!ServeDelete
    <3>2. QED
      BY <2>1, <3>1 DEF Atomic!Next
  <2>6. CASE GetNoRow \/ GetFile \/ GetFileFails
    <3>1. PICK o \in Objects : o = Request[current].object
      BY <2>1
    <3>2. Request[current].op = "get" /\ UNCHANGED settled
      BY <2>6 DEF GetNoRow, GetFile, GetFileFails, Serves
    <3>3. settled[o] \in {View(o), Unsure}
      BY <3>1, <3>2 DEF IInv, SettledIsStored
    <3>4. CASE GetFileFails
      BY <2>1, <2>2, <3>2, <3>4 DEF GetFileFails, Atomic!ServeGet, Atomic!Next
    <3>5. CASE GetNoRow \/ GetFile
      <4>1. PICK a \in Values \cup {Absent, Unsure} :
               Done(a) /\ (settled[o] = a \/ settled[o] = Unsure)
        <5>1. CASE GetNoRow
          BY <3>1, <3>3, <5>1 DEF GetNoRow, View
        <5>2. CASE GetFile
          <6>1. o \in rows /\ files[o] \in Contents /\ files[o] # Missing
            BY <3>1, <3>2, <5>2 DEF IInv, TypeOK, StepInv, GetFile, Serves
          <6>2. Bytes(o) \in Values \cup {Unsure} /\ View(o) = Bytes(o)
            BY <6>1, ValuesAssumption DEF Bytes, View, Contents
          <6>3. Done(Bytes(o))
            BY <3>1, <5>2 DEF GetFile
          <6>4. QED
            BY <3>3, <6>2, <6>3
        <5>3. QED
          BY <3>5, <5>1, <5>2
      <4>2. Atomic!ServeGet(current)
        BY <2>1, <2>2, <3>1, <3>2, <4>1 DEF Atomic!ServeGet
      <4>3. QED
        BY <2>1, <4>2 DEF Atomic!Next
    <3>6. QED
      BY <2>6, <3>4, <3>5
  <2>7. QED
    BY <1>2, <2>3, <2>4, <2>5, <2>6
<1>3. QED
  BY <1>1, <1>2 DEF Serve

LEMMA CrashRefines ==
    ASSUME IInv, Crash
    PROVE  Atomic!Next
<1>1. /\ call' = [c \in Calls |-> IF Atomic!Pending(c) THEN "lost" ELSE call[c]]
      /\ UNCHANGED answer
  BY DEF Crash, Atomic!Pending
<1>2. CASE Serves("file", "put") \/ Serves("file", "delete")
  <2>1. current \in Calls /\ Atomic!Pending(current) /\ Request[current].op # "get"
    BY <1>2 DEF IInv, TypeOK, CurrentInv, Pending, Atomic!Pending, Serves
  <2>2. settled' = [settled EXCEPT ![Request[current].object] =
                       IF Request[current].op = "put" THEN Unsure ELSE Absent]
    BY <1>2 DEF Crash, Serves, Object
  <2>3. Atomic!Crash
    BY <1>1, <2>1, <2>2 DEF Atomic!Crash
  <2>4. QED
    BY <2>3 DEF Atomic!Next
<1>3. CASE ~(Serves("file", "put") \/ Serves("file", "delete"))
  BY <1>1, <1>3 DEF Crash, Atomic!Crash, Atomic!Next
<1>4. QED
  BY <1>2, <1>3

LEMMA StepRefines == IInv /\ [Next]_vars => [Atomic!Next]_(Atomic!vars)
<1> SUFFICES ASSUME IInv, [Next]_vars PROVE Atomic!Next \/ UNCHANGED <<settled, call, answer>>
  BY DEF Atomic!vars
<1>1. ASSUME NEW c \in Calls,
             Put(c) \/ Get(c) \/ Delete(c) \/ Refuse(c) \/ ThreadIsGone(c) \/ Drop(c)
      PROVE  Atomic!Next
  BY <1>1, GuestRefines
<1>2. CASE Serve
  BY <1>2, ServeRefines
<1>3. CASE Crash
  BY <1>3, CrashRefines
<1>4. CASE Start \/ StartFails \/ Take
  BY <1>4 DEF Start, StartFails, Take
<1>5. CASE UNCHANGED vars
  BY <1>5 DEF vars
<1>6. QED
  BY <1>1, <1>2, <1>3, <1>4, <1>5 DEF Next, Thread

\* The thread, its index and its files implement the abstract store.
THEOREM Implements == Spec => AtomicSpec
<1>1. Init => Atomic!Init
  BY InitRefines
<1>2. IInv /\ [Next]_vars => [Atomic!Next]_(Atomic!vars)
  BY StepRefines
<1>3. QED
  BY <1>1, <1>2, Invariant, PTL DEF Spec, AtomicSpec, Atomic!Spec
=============================================================================
