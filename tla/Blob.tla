-------------------------------- MODULE Blob --------------------------------
(***************************************************************************)
(* Blob storage: one thread serves put, get and delete one message at a    *)
(* time, each in two steps that fail on their own: the row of the index    *)
(* (SQLite) and the file that holds the bytes.  The row comes first, the   *)
(* file is neither written to a temporary place nor checked against the    *)
(* size of its row.  Callers are guests on any worker; they may be dropped *)
(* while they wait, and the process may die at any step.                   *)
(***************************************************************************)
EXTENDS Naturals, Sequences

CONSTANTS Calls, Objects, Values, Request, Absent, Unsure, NoAnswer, NoCall,
          Missing,     \* no file at the path of an object
          Torn,        \* a file that holds a part of what was written
          MaxCrashes   \* bound on the crashes of a behaviour

Ops == {"put", "get", "delete"}
Contents == Values \cup {Torn, Missing}
Errors == {"storage_error", "binding_not_exists", "panic"}
Answered == Values \cup {Absent, Unsure, "ok"} \cup Errors

ASSUME RequestAssumption ==
    Request \in [Calls -> [op : Ops, object : Objects, value : Values, bound : BOOLEAN]]
ASSUME ValuesAssumption ==
    /\ {Absent, Unsure, Torn, Missing, "ok"} \cap Values = {}
    /\ Errors \cap (Values \cup {Absent, Unsure, Torn, Missing, "ok"}) = {}
    /\ Absent # Unsure /\ Torn # Missing /\ NoAnswer \notin Answered /\ NoCall \notin Calls
ASSUME MaxCrashesAssumption == MaxCrashes \in Nat

VARIABLES phase,     \* what the thread is doing
          current,   \* the call it serves
          queue,     \* blob_rx
          rows,      \* objects that have a row in the index
          files,     \* what is at the path of each object
          call,      \* how far each call has come
          answer,    \* what its caller was told
          settled,   \* history: what the answers given say of each object
          crashes

vars == <<phase, current, queue, rows, files, call, answer, settled, crashes>>

Phases == {"starts", "idle", "index", "file", "stopped"}

TypeOK ==
    /\ phase \in Phases
    /\ current \in Calls \cup {NoCall}
    /\ (current = NoCall) <=> phase \in {"starts", "idle", "stopped"}
    /\ queue \in Seq(Calls)
    /\ rows \subseteq Objects
    /\ files \in [Objects -> Contents]
    /\ call \in [Calls -> {"new", "waits", "dropped", "answered", "lost"}]
    /\ answer \in [Calls -> Answered \cup {NoAnswer}]
    /\ settled \in [Objects -> Values \cup {Absent, Unsure}]
    /\ crashes \in 0..MaxCrashes

Init ==
    /\ phase = "starts" /\ current = NoCall /\ queue = <<>>
    /\ rows = {} /\ files = [o \in Objects |-> Missing]
    /\ call = [c \in Calls |-> "new"] /\ answer = [c \in Calls |-> NoAnswer]
    /\ settled = [o \in Objects |-> Absent]
    /\ crashes = 0

-----------------------------------------------------------------------------
(* Guests *)

\* An object is found by the bucket of the caller's binding and its key.
Object(c) == Request[c].object

\* The oneshot of a caller that is gone is closed: the answer is thrown away.
Answers(c, a) ==
    /\ call' = [call EXCEPT ![c] = IF @ = "dropped" THEN "lost" ELSE "answered"]
    /\ answer' = [answer EXCEPT ![c] = IF call[c] = "dropped" THEN NoAnswer ELSE a]

\* A get with an unknown binding is an error to the guest; a put or a delete
\* unwraps the binding.
Refuse(c) ==
    /\ call[c] = "new" /\ ~Request[c].bound
    /\ Answers(c, IF Request[c].op = "get" THEN "binding_not_exists" ELSE "panic")
    /\ UNCHANGED <<phase, current, queue, rows, files, settled, crashes>>

\* The thread ended: its callers unwrap the send.
ThreadIsGone(c) ==
    /\ phase = "stopped"
    /\ call[c] = "new" /\ Request[c].bound
    /\ Answers(c, "panic")
    /\ UNCHANGED <<phase, current, queue, rows, files, settled, crashes>>

SendTo(c, op) ==
    /\ Request[c].op = op /\ Request[c].bound
    /\ call[c] = "new" /\ phase # "stopped"
    /\ call' = [call EXCEPT ![c] = "waits"]
    /\ queue' = Append(queue, c)
    /\ UNCHANGED <<phase, current, rows, files, answer, settled, crashes>>

Put(c) == SendTo(c, "put")
Get(c) == SendTo(c, "get")
Delete(c) == SendTo(c, "delete")

\* The request that made the call ends or times out; its message stays.
Drop(c) ==
    /\ call[c] = "waits"
    /\ call' = [call EXCEPT ![c] = "dropped"]
    /\ UNCHANGED <<phase, current, queue, rows, files, answer, settled, crashes>>

-----------------------------------------------------------------------------
(* The thread *)

\* A data directory that cannot be made is only logged.
Start ==
    /\ phase = "starts"
    /\ phase' = "idle"
    /\ UNCHANGED <<current, queue, rows, files, call, answer, settled, crashes>>

\* The index cannot be opened, switched to WAL or migrated: the thread ends.
\* What was sent before stays in the channel, which its senders keep alive, and
\* so do the oneshots of the callers: nobody tells them.
StartFails ==
    /\ phase = "starts"
    /\ phase' = "stopped"
    /\ UNCHANGED <<current, queue, rows, files, call, answer, settled, crashes>>

Take ==
    /\ phase = "idle" /\ queue # <<>>
    /\ current' = Head(queue) /\ queue' = Tail(queue)
    /\ phase' = "index"
    /\ UNCHANGED <<rows, files, call, answer, settled, crashes>>

Serves(at, op) == phase = at /\ current # NoCall /\ Request[current].op = op

Done(a) ==
    /\ Answers(current, a)
    /\ phase' = "idle" /\ current' = NoCall
    /\ UNCHANGED <<queue, crashes>>

Settles(x) == settled' = [settled EXCEPT ![Object(current)] = x]

\* Mutant: the error ends the thread, and the oneshot of its call with it.
IndexFailsAndEnds ==
    /\ phase = "index"
    /\ Answers(current, "panic")
    /\ phase' = "stopped" /\ current' = NoCall
    /\ UNCHANGED <<queue, rows, files, settled, crashes>>

\* A statement of the index fails before it changed anything.
IndexFails ==
    /\ phase = "index"
    /\ Done("storage_error")
    /\ UNCHANGED <<rows, files, settled>>

PutRow ==
    /\ Serves("index", "put")
    /\ rows' = rows \cup {Object(current)}
    /\ phase' = "file"
    /\ UNCHANGED <<current, queue, files, call, answer, settled, crashes>>

PutFile ==
    /\ Serves("file", "put")
    /\ files' = [files EXCEPT ![Object(current)] = Request[current].value]
    /\ Settles(Request[current].value)
    /\ Done("ok")
    /\ UNCHANGED rows

\* The file cannot be opened and stays as it is, or is cut and not written whole.
PutFileFails ==
    /\ Serves("file", "put")
    /\ files' \in {files, [files EXCEPT ![Object(current)] = Torn]}
    /\ Settles(Unsure)
    /\ Done("storage_error")
    /\ UNCHANGED rows

\* Mutant: the path is computed from the key without asking the index.
GetAnyRow ==
    /\ Serves("index", "get")
    /\ phase' = "file"
    /\ UNCHANGED <<current, queue, rows, files, call, answer, settled, crashes>>

GetRow ==
    /\ Serves("index", "get") /\ Object(current) \in rows
    /\ phase' = "file"
    /\ UNCHANGED <<current, queue, rows, files, call, answer, settled, crashes>>

\* Mutant: an answer without the continue.
GetNoRowGoesOn ==
    /\ Serves("index", "get") /\ Object(current) \notin rows
    /\ Answers(current, Absent)
    /\ phase' = "file" /\ current' = NoCall
    /\ UNCHANGED <<queue, rows, files, settled, crashes>>

GetNoRow ==
    /\ Serves("index", "get") /\ Object(current) \notin rows
    /\ Done(Absent)
    /\ UNCHANGED <<rows, files, settled>>

\* What a reader is given: the bytes of the file, whole or not.
Bytes(o) == IF files[o] = Torn THEN Unsure ELSE files[o]

GetFile ==
    /\ Serves("file", "get") /\ files[Object(current)] # Missing
    /\ Done(Bytes(Object(current)))
    /\ UNCHANGED <<rows, files, settled>>

GetFileFails ==
    /\ Serves("file", "get")
    /\ Done("storage_error")
    /\ UNCHANGED <<rows, files, settled>>

DeleteNoRow ==
    /\ Serves("index", "delete") /\ Object(current) \notin rows
    /\ Settles(Absent)
    /\ Done("ok")
    /\ UNCHANGED <<rows, files>>

\* Mutant: the row is left for later.
DeleteKeepsRow ==
    /\ Serves("index", "delete") /\ Object(current) \in rows
    /\ phase' = "file"
    /\ UNCHANGED <<current, queue, rows, files, call, answer, settled, crashes>>

DeleteRow ==
    /\ Serves("index", "delete") /\ Object(current) \in rows
    /\ rows' = rows \ {Object(current)}
    /\ phase' = "file"
    /\ UNCHANGED <<current, queue, files, call, answer, settled, crashes>>

RemoveFile ==
    /\ Serves("file", "delete") /\ files[Object(current)] # Missing
    /\ files' = [files EXCEPT ![Object(current)] = Missing]
    /\ Settles(Absent)
    /\ Done("ok")
    /\ UNCHANGED rows

\* An error although the row is gone: the file, if there is one, stays for ever
\* or until the next put of this object.
RemoveFileFails ==
    /\ Serves("file", "delete")
    /\ Settles(Absent)
    /\ Done("storage_error")
    /\ UNCHANGED <<rows, files>>

-----------------------------------------------------------------------------
\* The process dies and comes back: its queue and its callers are gone, a file
\* that was being written may hold any part of the value.
Crash ==
    LET pending == {c \in Calls : call[c] \in {"waits", "dropped"}}
        writing == Serves("file", "put")
        removing == Serves("file", "delete")
    IN
    /\ crashes < MaxCrashes
    /\ crashes' = crashes + 1
    /\ phase' = "starts" /\ current' = NoCall /\ queue' = <<>>
    /\ call' = [c \in Calls |-> IF c \in pending THEN "lost" ELSE call[c]]
    /\ files' \in {files} \cup IF writing
                               THEN {[files EXCEPT ![Object(current)] = x] :
                                        x \in {Torn, Request[current].value}}
                               ELSE {}
    /\ settled' = IF writing \/ removing
                  THEN [settled EXCEPT ![Object(current)] = IF writing THEN Unsure ELSE Absent]
                  ELSE settled
    /\ UNCHANGED <<rows, answer>>

Serve ==
    \/ IndexFails
    \/ PutRow \/ PutFile \/ PutFileFails
    \/ GetRow \/ GetNoRow \/ GetFile \/ GetFileFails
    \/ DeleteNoRow \/ DeleteRow \/ RemoveFile \/ RemoveFileFails

Thread == Start \/ StartFails \/ Take \/ Serve

Next ==
    \/ \E c \in Calls : \/ Put(c) \/ Get(c) \/ Delete(c)
                        \/ Refuse(c) \/ ThreadIsGone(c) \/ Drop(c)
    \/ Thread
    \/ Crash

Spec == Init /\ [][Next]_vars

\* The thread is scheduled and its disk answers, with success or an error.
FairSpec == Spec /\ WF_vars(Thread)

-----------------------------------------------------------------------------
(* Properties *)

View(o) ==
    IF o \notin rows THEN Absent
    ELSE IF files[o] \in {Torn, Missing} THEN Unsure ELSE files[o]

\* What the answers say is what the index and the files hold together: a put
\* that was acknowledged can be read whole, a delete hides the object even when
\* its file could not be removed, a failed call on one object leaves the others
\* alone, and a later success makes an object whole again after a failure or a
\* crash.  Only the object in the middle of its two steps is exempt.
SettledIsStored ==
    \A o \in Objects :
        \/ settled[o] \in {View(o), Unsure}
        \/ phase = "file" /\ Object(current) = o /\ Request[current].op # "get"

\* Once the thread serves, every call in its queue ends, whatever fails on the
\* disk.  A call that was queued for a thread which then could not open its
\* index is not promised anything: it waits until its guest is dropped.
EveryCallEnds ==
    \A c \in Calls :
        call[c] = "waits" /\ phase \notin {"starts", "stopped"} ~> call[c] # "waits"

\* The thread implements the abstract store.
Atomic == INSTANCE AtomicBlob WITH store <- settled
AtomicSpec == Atomic!Spec
=============================================================================
