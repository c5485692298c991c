------------------------------ MODULE SqlProofs ------------------------------
(***************************************************************************)
(* Proofs about Sql: its types, that transactions are whole, that calls    *)
(* take effect in the order of their answers, that the migrations of a     *)
(* shard run once, and that the threads implement the atomic database, for *)
(* any threads, calls, connections and crashes.                            *)
(***************************************************************************)
EXTENDS Sql, SequenceTheorems, TLAPS

Entries == [call : Calls, index : Nat \ {0}]
Pending(c) == call[c] \in {"waits", "dropped"}
Settled(c) == call[c] \in {"answered", "lost"}

\* A queued call waits for its answer, once, and in the queue of its kind.
QueueInv ==
    /\ \A i \in 1..Len(sql_rx) : Pending(sql_rx[i]) /\ Kind(sql_rx[i]) # "migrate"
    /\ \A i, j \in 1..Len(sql_rx) : sql_rx[i] = sql_rx[j] => i = j
    /\ \A t \in Threads :
         /\ \A i \in 1..Len(thread_rx[t]) :
              LET c == thread_rx[t][i] IN
              Pending(c) /\ Kind(c) = "migrate" /\ Shard[Connection(c)] = t
         /\ \A i, j \in 1..Len(thread_rx[t]) : thread_rx[t][i] = thread_rx[t][j] => i = j

\* The call that a thread serves is nowhere else.
OnePlace ==
    \A t \in Threads :
      /\ \A i \in 1..Len(sql_rx) : sql_rx[i] # current[t]
      /\ \A u \in Threads :
           /\ \A i \in 1..Len(thread_rx[u]) : thread_rx[u][i] # current[t]
           /\ current[t] # NoCall /\ u # t => current[u] # current[t]

\* What a thread has done so far, and for whom.
ServingInv(t) ==
    /\ current[t] # NoCall <=> at[t] \in {"runs", "steps", "resets", "migrates"}
    /\ current[t] # NoCall =>
         /\ Kind(current[t]) = "migrate" => Shard[Connection(current[t])] = t
         /\ at[t] # "resets" => Pending(current[t])
         /\ at[t] = "resets" => Settled(current[t]) /\ answer[current[t]] # "error"
         /\ ~Logged(current[t])
         /\ first[t] + done[t] <= Len(Body(current[t]))
    /\ current[t] = NoCall => done[t] = 0
    /\ at[t] # "migrates" => first[t] = 0
    /\ at[t] = "migrates" =>
         Kind(current[t]) = "migrate" /\ first[t] < Len(Body(current[t]))
    /\ at[t] = "runs" /\ done[t] > 0 => Kind(current[t]) = "batch"
    /\ at[t] \in {"steps", "resets"} => Kind(current[t]) = "exec" /\ done[t] = 1
    /\ done[t] > 0 => writer = t

AnswerInv ==
    \A c \in Calls : /\ answer[c] # NoAnswer => call[c] = "answered"
                     /\ Logged(c) => Settled(c)

\* Once a later call is in the log, the calls before it are done with.
BeforeInv ==
    \A c \in Calls : \A d \in before[c] :
      /\ call[d] = "answered" /\ d # c
      /\ Logged(c) => \A t \in Threads : current[t] # d

\* The version that a migration started from is the one it will find, as
\* long as no thread but its own has migrated.
VersionHeld ==
    /\ \A t \in Threads :
         at[t] = "migrates"
         /\ (\A i \in DOMAIN log : Migration(i) => Shard[Connection(log[i].call)] = t)
         => first[t] = version
    /\ OneShard => \A i \in DOMAIN log : Migration(i) => log[i].index <= version

IInv ==
    /\ TypeOK /\ QueueInv /\ OnePlace /\ \A t \in Threads : ServingInv(t)
    /\ AnswerInv /\ BeforeInv /\ VersionHeld
    /\ TransactionsAreWhole /\ MigrationsRunOnce /\ OrderedAsAnswered

-----------------------------------------------------------------------------
(* Facts about requests, the log and answers *)

LEMMA RequestType ==
    ASSUME NEW c \in Calls
    PROVE  /\ Kind(c) \in Kinds /\ Connection(c) \in Connections
           /\ Shard[Connection(c)] \in Threads
           /\ Body(c) \in Seq(Statements) /\ Len(Body(c)) \in Nat
           /\ Kind(c) = "exec" => Len(Body(c)) = 1
           /\ c # NoCall
<1>1. /\ Request[c].kind \in Kinds /\ Request[c].connection \in Connections
      /\ Request[c].body \in Seq(Statements)
      /\ Request[c].kind = "exec" => Len(Request[c].body) = 1
  BY SqlAssumption
<1>2. Len(Request[c].body) \in Nat
  BY <1>1, LenProperties
<1>3. QED
  BY <1>1, <1>2, SqlAssumption DEF Kind, Connection, Body

LEMMA LogDomain ==
    ASSUME TypeOK
    PROVE  /\ Len(log) \in Nat /\ DOMAIN log = 1..Len(log)
           /\ \A i \in 1..Len(log) :
                /\ log[i].call \in Calls /\ log[i].index \in Nat \ {0}
                /\ log[i] = [call |-> log[i].call, index |-> log[i].index]
<1>1. log \in Seq(Entries)
  BY DEF TypeOK, Entries
<1>2. Len(log) \in Nat /\ DOMAIN log = 1..Len(log) /\ \A i \in 1..Len(log) : log[i] \in Entries
  BY <1>1, LenProperties, ElementOfSeq
<1>3. \A e \in Entries : /\ e.call \in Calls /\ e.index \in Nat \ {0}
                         /\ e = [call |-> e.call, index |-> e.index]
  BY DEF Entries
<1>4. QED
  BY <1>2, <1>3

LEMMA Extended ==
    ASSUME NEW S, NEW s \in Seq(S), NEW n \in Nat, NEW e \in [1..n -> S]
    PROVE  /\ s \o e \in Seq(S)
           /\ Len(s \o e) = Len(s) + n /\ DOMAIN (s \o e) = 1..(Len(s) + n)
           /\ \A i \in 1..(Len(s) + n) :
                (s \o e)[i] = IF i <= Len(s) THEN s[i] ELSE e[i - Len(s)]
<1>1. [1..n -> S] \subseteq Seq(S)
  BY SeqDef
<1>2. e \in Seq(S) /\ DOMAIN e = 1..n
  BY <1>1
<1>3. Len(e) = n
  <2>1. Len(e) \in Nat /\ 1..Len(e) = 1..n
    BY <1>2, LenProperties
  <2>2. QED
    BY <2>1
<1>4. /\ s \o e \in Seq(S) /\ Len(s \o e) = Len(s) + n
      /\ \A i \in 1..Len(s) + n :
           (s \o e)[i] = IF i <= Len(s) THEN s[i] ELSE e[i - Len(s)]
  BY <1>2, <1>3, ConcatProperties
<1>5. DOMAIN (s \o e) = 1..Len(s \o e)
  BY <1>4, LenProperties
<1>6. QED
  BY <1>4, <1>5

LEMMA LogGrows ==
    ASSUME TypeOK, NEW t \in Threads, current[t] \in Calls, log' = Committed(t)
    PROVE  /\ log' \in Seq(Entries)
           /\ DOMAIN log' = 1..(Len(log) + done[t])
           /\ \A i \in 1..Len(log) : i \in DOMAIN log' /\ log'[i] = log[i]
           /\ \A i \in DOMAIN log' \ (1..Len(log)) :
                /\ i - Len(log) \in 1..done[t]
                /\ log'[i] = [call |-> current[t], index |-> first[t] + i - Len(log)]
<1>1. first[t] \in Nat /\ done[t] \in Nat /\ log \in Seq(Entries) /\ Len(log) \in Nat
  BY LogDomain DEF TypeOK, Entries
<1>2. PICK e : e = [i \in 1..done[t] |-> [call |-> current[t], index |-> first[t] + i]]
  OBVIOUS
<1>3. e \in [1..done[t] -> Entries]
  BY <1>1, <1>2 DEF Entries
<1>4. log' = log \o e
  BY <1>2 DEF Committed
<1>5. /\ log' \in Seq(Entries) /\ DOMAIN log' = 1..(Len(log) + done[t])
      /\ \A i \in 1..(Len(log) + done[t]) :
           log'[i] = IF i <= Len(log) THEN log[i] ELSE e[i - Len(log)]
  <2>1. PICK n, s : n = done[t] /\ s = log
    OBVIOUS
  <2>2. n \in Nat /\ s \in Seq(Entries) /\ e \in [1..n -> Entries]
    BY <1>1, <1>3, <2>1
  <2>3. /\ s \o e \in Seq(Entries) /\ DOMAIN (s \o e) = 1..(Len(s) + n)
        /\ \A i \in 1..(Len(s) + n) :
             (s \o e)[i] = IF i <= Len(s) THEN s[i] ELSE e[i - Len(s)]
    BY <2>2, Extended
  <2>4. log' = s \o e
    BY <1>4, <2>1
  <2>5. QED
    BY <2>1, <2>3, <2>4
<1>6. ASSUME NEW i \in DOMAIN log' \ (1..Len(log))
      PROVE  /\ i - Len(log) \in 1..done[t]
             /\ log'[i] = [call |-> current[t], index |-> first[t] + i - Len(log)]
  <2>1. i - Len(log) \in 1..done[t] /\ log'[i] = e[i - Len(log)]
    BY <1>1, <1>5, <1>6
  <2>2. e[i - Len(log)] = [call |-> current[t], index |-> first[t] + (i - Len(log))]
    BY <1>2, <2>1
  <2>3. first[t] + (i - Len(log)) = first[t] + i - Len(log)
    BY <1>1, <1>5
  <2>4. QED
    BY <2>1, <2>2, <2>3
<1>7. \A i \in 1..Len(log) : i \in DOMAIN log' /\ log'[i] = log[i]
  BY <1>1, <1>5
<1>8. QED
  BY <1>5, <1>6, <1>7

LEMMA AnswersType ==
    ASSUME TypeOK, NEW c \in Calls, NEW a \in Answer, Answers(c, a)
    PROVE  /\ call' \in [Calls -> {"new", "waits", "dropped", "answered", "lost"}]
           /\ answer' \in [Calls -> Answer \cup {NoAnswer}]
           /\ before' = before
           /\ Settled(c)' /\ answer'[c] \in {a, NoAnswer}
           /\ answer'[c] # NoAnswer => call'[c] = "answered"
           /\ \A d \in Calls \ {c} : call'[d] = call[d] /\ answer'[d] = answer[d]
BY SqlAssumption DEF TypeOK, Answers, Settled

LEMMA QueueTypes ==
    ASSUME TypeOK
    PROVE  /\ Len(sql_rx) \in Nat /\ DOMAIN sql_rx = 1..Len(sql_rx)
           /\ \A i \in 1..Len(sql_rx) : sql_rx[i] \in Calls
           /\ \A t \in Threads :
                /\ Len(thread_rx[t]) \in Nat /\ DOMAIN thread_rx[t] = 1..Len(thread_rx[t])
                /\ \A i \in 1..Len(thread_rx[t]) : thread_rx[t][i] \in Calls
<1>1. sql_rx \in Seq(Calls) /\ \A t \in Threads : thread_rx[t] \in Seq(Calls)
  BY DEF TypeOK
<1>2. QED
  BY <1>1, LenProperties, ElementOfSeq

-----------------------------------------------------------------------------
(* What a step keeps that leaves the log alone *)

LEMMA OrderKept ==
    ASSUME IInv, UNCHANGED log,
           \A c \in Calls : before'[c] = before[c] \/ ~Logged(c)
    PROVE  OrderedAsAnswered'
<1>1. \A j \in DOMAIN log : log[j].call \in Calls /\ Logged(log[j].call)
  BY LogDomain DEF IInv, Logged
<1>2. QED
  BY <1>1 DEF IInv, OrderedAsAnswered

LEMMA VersionKept ==
    ASSUME IInv, UNCHANGED <<log, version>>,
           \A t \in Threads : at'[t] = "migrates" =>
             \/ at[t] = "migrates" /\ first'[t] = first[t]
             \/ first'[t] = version
    PROVE  VersionHeld'
BY DEF IInv, VersionHeld, OneShard, Migration

LEMMA MigrationsKept ==
    ASSUME IInv, UNCHANGED <<log, version>>,
           \A c \in Calls : \/ answer'[c] = answer[c] \/ answer'[c] # "ok"
                            \/ Kind(c) # "migrate" \/ Len(Body(c)) <= version
    PROVE  MigrationsRunOnce'
BY DEF IInv, MigrationsRunOnce, OneShard, Migration

LEMMA WholeKept ==
    ASSUME IInv, UNCHANGED log,
           \A c \in Calls :
             \/ answer'[c] = answer[c]
             \/ answer'[c] \notin {"ok", "error"}
             \/ answer'[c] = "error" /\ ~Logged(c)
             \/ answer'[c] = "ok" /\ (Kind(c) = "migrate" \/ Body(c) = <<"read">>)
    PROVE  TransactionsAreWhole'
BY DEF IInv, TransactionsAreWhole, Logged

LEMMA LogKept ==
    ASSUME UNCHANGED log
    PROVE  \A c : Logged(c)' <=> Logged(c)
BY DEF Logged

-----------------------------------------------------------------------------
(* Callers *)

\* A call that no thread and no queue knows of, and that is not in the log.
Unknown(c) ==
    /\ ~Settled(c)
    /\ \A t \in Threads : current[t] # c
    /\ \A i \in 1..Len(sql_rx) : sql_rx[i] # c
    /\ \A t \in Threads : \A i \in 1..Len(thread_rx[t]) : thread_rx[t][i] # c

LEMMA NewIsUnknown ==
    ASSUME IInv, NEW c \in Calls, call[c] = "new"
    PROVE  Unknown(c)
<1>1. ~Settled(c) /\ ~Pending(c)
  BY DEF Settled, Pending
<1>2. ASSUME NEW t \in Threads, current[t] = c PROVE FALSE
  <2>1. ServingInv(t) /\ c # NoCall
    BY RequestType DEF IInv
  <2>2. Pending(c) \/ Settled(c)
    BY <1>2, <2>1 DEF ServingInv
  <2>3. QED
    BY <1>1, <2>2
<1>3. QED
  BY <1>1, <1>2 DEF IInv, QueueInv, Unknown

\* The queues that a step leaves, without a call.
SharedRest(c, q) ==
    /\ \A i \in 1..Len(q) : /\ q[i] \in Calls \ {c} /\ Pending(q[i])
                           /\ Kind(q[i]) # "migrate"
                           /\ \A t \in Threads : current[t] # q[i]
    /\ \A i, j \in 1..Len(q) : q[i] = q[j] => i = j

ThreadRest(c, u, q) ==
    /\ \A i \in 1..Len(q) : /\ q[i] \in Calls \ {c} /\ Pending(q[i])
                           /\ Kind(q[i]) = "migrate" /\ Shard[Connection(q[i])] = u
                           /\ \A t \in Threads : current[t] # q[i]
    /\ \A i, j \in 1..Len(q) : q[i] = q[j] => i = j

RestOfQueues(c) ==
    /\ sql_rx' \in Seq(Calls) /\ thread_rx' \in [Threads -> Seq(Calls)]
    /\ SharedRest(c, sql_rx')
    /\ \A u \in Threads : ThreadRest(c, u, thread_rx'[u])

\* Of a call that no thread serves and the queues do not hold.
LEMMA SharedWithout ==
    ASSUME IInv, NEW c \in Calls, \A i \in 1..Len(sql_rx) : sql_rx[i] # c
    PROVE  SharedRest(c, sql_rx)
<1>1. \A i \in 1..Len(sql_rx) : /\ sql_rx[i] \in Calls \ {c} /\ Pending(sql_rx[i])
                                /\ Kind(sql_rx[i]) # "migrate"
  BY QueueTypes DEF IInv, QueueInv
<1>2. \A i \in 1..Len(sql_rx) : \A t \in Threads : current[t] # sql_rx[i]
  BY DEF IInv, OnePlace
<1>3. \A i, j \in 1..Len(sql_rx) : sql_rx[i] = sql_rx[j] => i = j
  BY DEF IInv, QueueInv
<1>4. QED
  BY <1>1, <1>2, <1>3 DEF SharedRest

LEMMA ThreadWithout ==
    ASSUME IInv, NEW c \in Calls, NEW u \in Threads,
           \A i \in 1..Len(thread_rx[u]) : thread_rx[u][i] # c
    PROVE  ThreadRest(c, u, thread_rx[u])
<1>1. PICK q : q = thread_rx[u]
  OBVIOUS
<1>2. \A i \in 1..Len(q) : /\ q[i] \in Calls \ {c} /\ Pending(q[i])
                           /\ Kind(q[i]) = "migrate" /\ Shard[Connection(q[i])] = u
  BY <1>1, QueueTypes DEF IInv, QueueInv
<1>3. \A i \in 1..Len(q) : \A t \in Threads : current[t] # q[i]
  BY <1>1 DEF IInv, OnePlace
<1>4. \A i, j \in 1..Len(q) : q[i] = q[j] => i = j
  BY <1>1 DEF IInv, QueueInv
<1>5. ThreadRest(c, u, q)
  BY <1>2, <1>3, <1>4 DEF ThreadRest
<1>6. QED
  BY <1>1, <1>5

LEMMA RestIsAll ==
    ASSUME IInv, NEW c \in Calls, Unknown(c), UNCHANGED queues
    PROVE  RestOfQueues(c)
<1>1. sql_rx' = sql_rx /\ thread_rx' = thread_rx
  BY DEF queues
<1>2. sql_rx' \in Seq(Calls) /\ thread_rx' \in [Threads -> Seq(Calls)]
  BY <1>1 DEF IInv, TypeOK
<1>3. SharedRest(c, sql_rx)
  BY SharedWithout DEF Unknown
<1>4. \A u \in Threads : ThreadRest(c, u, thread_rx[u])
  BY ThreadWithout DEF Unknown
<1>5. QED
  BY <1>1, <1>2, <1>3, <1>4 DEF RestOfQueues

LEMMA TailOf ==
    ASSUME NEW S, NEW s \in Seq(S), s # <<>>
    PROVE  /\ Head(s) = s[1] /\ 1 \in 1..Len(s) /\ Tail(s) \in Seq(S)
           /\ \A i \in 1..Len(Tail(s)) :
                i + 1 \in 1..Len(s) /\ i + 1 # 1 /\ Tail(s)[i] = s[i + 1]
<1>1. /\ Tail(s) \in Seq(S) /\ Len(Tail(s)) = Len(s) - 1 /\ Len(s) \in Nat /\ Len(s) # 0
      /\ \A i \in 1..Len(Tail(s)) : Tail(s)[i] = s[i + 1]
  BY HeadTailProperties, LenProperties, EmptySeq
<1>2. QED
  BY <1>1

\* The head of a queue, and what stays behind it.
LEMMA DistinctTail ==
    ASSUME NEW s \in Seq(Calls), s # <<>>,
           \A i, j \in 1..Len(s) : s[i] = s[j] => i = j
    PROVE  /\ Tail(s) \in Seq(Calls) /\ 1 \in 1..Len(s) /\ Head(s) = s[1]
           /\ \A i \in 1..Len(Tail(s)) :
                /\ Tail(s)[i] # Head(s)
                /\ \E k \in 1..Len(s) : Tail(s)[i] = s[k]
           /\ \A i, j \in 1..Len(Tail(s)) : Tail(s)[i] = Tail(s)[j] => i = j
<1>1. /\ Head(s) = s[1] /\ 1 \in 1..Len(s) /\ Tail(s) \in Seq(Calls)
      /\ \A i \in 1..Len(Tail(s)) :
           i + 1 \in 1..Len(s) /\ i + 1 # 1 /\ Tail(s)[i] = s[i + 1]
  BY TailOf
<1>2. ASSUME NEW i \in 1..Len(Tail(s)), NEW j \in 1..Len(Tail(s)), Tail(s)[i] = Tail(s)[j]
      PROVE  i = j
  <2>1. i + 1 = j + 1
    BY <1>1, <1>2
  <2>2. QED
    BY <2>1
<1>3. QED
  BY <1>1, <1>2

\* The call at hand, and what stays in the queues.
LEMMA ReceivesRest ==
    ASSUME IInv, NEW t \in Threads, NEW c \in Calls, Receives(t, c)
    PROVE  /\ Pending(c) /\ (Kind(c) = "migrate" => Shard[Connection(c)] = t)
           /\ \A u \in Threads : current[u] # c
           /\ RestOfQueues(c)
<1>1. sql_rx \in Seq(Calls) /\ thread_rx \in [Threads -> Seq(Calls)]
  BY DEF IInv, TypeOK
<1>2. CASE sql_rx # <<>> /\ c = Head(sql_rx) /\ sql_rx' = Tail(sql_rx) /\ UNCHANGED thread_rx
  <2>1. \A i, j \in 1..Len(sql_rx) : sql_rx[i] = sql_rx[j] => i = j
    BY DEF IInv, QueueInv
  <2>2. /\ Tail(sql_rx) \in Seq(Calls) /\ 1 \in 1..Len(sql_rx) /\ c = sql_rx[1]
        /\ \A i \in 1..Len(Tail(sql_rx)) :
             /\ Tail(sql_rx)[i] # c
             /\ \E k \in 1..Len(sql_rx) : Tail(sql_rx)[i] = sql_rx[k]
        /\ \A i, j \in 1..Len(Tail(sql_rx)) : Tail(sql_rx)[i] = Tail(sql_rx)[j] => i = j
    BY <1>1, <1>2, <2>1, DistinctTail
  <2>3. \A k \in 1..Len(sql_rx) :
          /\ sql_rx[k] \in Calls /\ Pending(sql_rx[k]) /\ Kind(sql_rx[k]) # "migrate"
          /\ \A u \in Threads : current[u] # sql_rx[k]
    BY QueueTypes DEF IInv, QueueInv, OnePlace
  <2>4. Pending(c) /\ Kind(c) # "migrate" /\ \A u \in Threads : current[u] # c
    BY <2>2, <2>3
  <2>5. SharedRest(c, Tail(sql_rx))
    BY <2>2, <2>3 DEF SharedRest
  <2>6. ASSUME NEW u \in Threads PROVE ThreadRest(c, u, thread_rx[u])
    <3>1. \A i \in 1..Len(thread_rx[u]) : thread_rx[u][i] # c
      BY <2>4 DEF IInv, QueueInv
    <3>2. QED
      BY <3>1, ThreadWithout
  <2>7. RestOfQueues(c)
    BY <1>1, <1>2, <2>2, <2>5, <2>6 DEF RestOfQueues
  <2>8. QED
    BY <2>4, <2>7
<1>3. CASE /\ thread_rx[t] # <<>> /\ c = Head(thread_rx[t])
           /\ thread_rx' = [thread_rx EXCEPT ![t] = Tail(@)] /\ UNCHANGED sql_rx
  <2>1. PICK s \in Seq(Calls) : s = thread_rx[t]
    BY <1>1
  <2>2. \A i, j \in 1..Len(s) : s[i] = s[j] => i = j
    BY <2>1 DEF IInv, QueueInv
  <2>3. /\ Tail(s) \in Seq(Calls) /\ 1 \in 1..Len(s) /\ c = s[1]
        /\ \A i \in 1..Len(Tail(s)) :
             Tail(s)[i] # c /\ \E k \in 1..Len(s) : Tail(s)[i] = s[k]
        /\ \A i, j \in 1..Len(Tail(s)) : Tail(s)[i] = Tail(s)[j] => i = j
    BY <1>3, <2>1, <2>2, DistinctTail
  <2>4. \A k \in 1..Len(s) :
          /\ s[k] \in Calls /\ Pending(s[k])
          /\ Kind(s[k]) = "migrate" /\ Shard[Connection(s[k])] = t
          /\ \A u \in Threads : current[u] # s[k]
    <3>1. \A k \in 1..Len(s) : /\ s[k] \in Calls /\ Pending(s[k])
                               /\ Kind(s[k]) = "migrate" /\ Shard[Connection(s[k])] = t
      BY <2>1, QueueTypes DEF IInv, QueueInv
    <3>2. \A k \in 1..Len(s) : \A u \in Threads : current[u] # s[k]
      BY <2>1 DEF IInv, OnePlace
    <3>3. QED
      BY <3>1, <3>2
  <2>5. /\ Pending(c) /\ Kind(c) = "migrate" /\ Shard[Connection(c)] = t
        /\ \A u \in Threads : current[u] # c
    BY <2>3, <2>4
  <2>6. /\ thread_rx' \in [Threads -> Seq(Calls)] /\ thread_rx'[t] = Tail(s)
        /\ \A u \in Threads \ {t} : thread_rx'[u] = thread_rx[u]
    BY <1>1, <1>3, <2>1, <2>3
  <2>7. SharedRest(c, sql_rx)
    <3>1. \A i \in 1..Len(sql_rx) : sql_rx[i] # c
      BY <2>5 DEF IInv, QueueInv
    <3>2. QED
      BY <3>1, SharedWithout
  <2>8. ThreadRest(c, t, Tail(s))
    BY <2>3, <2>4 DEF ThreadRest
  <2>9. ASSUME NEW u \in Threads, u # t PROVE ThreadRest(c, u, thread_rx[u])
    <3>1. \A i \in 1..Len(thread_rx[u]) : thread_rx[u][i] # c
      BY <2>5, <2>9 DEF IInv, QueueInv
    <3>2. QED
      BY <3>1, ThreadWithout
  <2>10. \A u \in Threads : ThreadRest(c, u, thread_rx'[u])
    BY <2>6, <2>8, <2>9
  <2>11. RestOfQueues(c)
    BY <1>1, <1>3, <2>6, <2>7, <2>10 DEF RestOfQueues
  <2>12. QED
    BY <2>5, <2>11
<1>4. QED
  BY <1>2, <1>3 DEF Receives

\* The same threads, and a call that is neither queued nor served is answered.
LEMMA RefuseStep ==
    ASSUME IInv, NEW c \in Calls, NEW a \in {"error"}, Answers(c, a),
           ~Settled(c), \A t \in Threads : current[t] # c, RestOfQueues(c),
           UNCHANGED <<threadVars, database, crashes>>
    PROVE  IInv'
<1>1. /\ call' \in [Calls -> {"new", "waits", "dropped", "answered", "lost"}]
      /\ answer' \in [Calls -> Answer \cup {NoAnswer}]
      /\ before' = before
      /\ Settled(c)' /\ answer'[c] \in {a, NoAnswer}
      /\ answer'[c] # NoAnswer => call'[c] = "answered"
      /\ \A d \in Calls \ {c} : call'[d] = call[d] /\ answer'[d] = answer[d]
  BY AnswersType DEF IInv, Answer
<1>2. UNCHANGED <<connections, at, current, first, done, writer, log, version, crashes>>
  BY DEF threadVars, database
<1>3. ~Logged(c) /\ \A d : Logged(d)' <=> Logged(d)
  BY <1>2, LogKept DEF IInv, AnswerInv
<1>4. TypeOK'
  BY <1>1, <1>2 DEF IInv, TypeOK, RestOfQueues, SharedRest, ThreadRest
<1>5. \A d \in Calls \ {c} : (Pending(d)' <=> Pending(d)) /\ (Settled(d)' <=> Settled(d))
  BY <1>1 DEF Pending, Settled
<1>6. QueueInv'
  <2>1. \A i \in 1..Len(sql_rx') : Pending(sql_rx[i])' /\ Kind(sql_rx'[i]) # "migrate"
    BY <1>1 DEF RestOfQueues, SharedRest, ThreadRest, Pending
  <2>2. \A u \in Threads : \A i \in 1..Len(thread_rx'[u]) :
          LET d == thread_rx'[u][i] IN
          call'[d] \in {"waits", "dropped"} /\ Kind(d) = "migrate" /\ Shard[Connection(d)] = u
    BY <1>1 DEF RestOfQueues, SharedRest, ThreadRest, Pending
  <2>3. QED
    BY <2>1, <2>2 DEF QueueInv, RestOfQueues, SharedRest, ThreadRest, Pending
<1>7. OnePlace'
  <2>1. \A t \in Threads : \A i \in 1..Len(sql_rx') : sql_rx'[i] # current[t]
    BY DEF RestOfQueues, SharedRest, ThreadRest
  <2>2. \A t, u \in Threads : \A i \in 1..Len(thread_rx'[u]) : thread_rx'[u][i] # current[t]
    BY DEF RestOfQueues, SharedRest, ThreadRest
  <2>3. \A t, u \in Threads : current[t] # NoCall /\ u # t => current[u] # current[t]
    BY DEF IInv, OnePlace
  <2>4. QED
    BY <1>2, <2>1, <2>2, <2>3 DEF OnePlace
<1>8. ASSUME NEW t \in Threads PROVE ServingInv(t)'
  <2>1. current[t] # NoCall => current[t] \in Calls \ {c}
    BY DEF IInv, TypeOK
  <2>2. ServingInv(t)
    BY DEF IInv
  <2>3. current[t] # NoCall =>
          /\ call'[current[t]] = call[current[t]] /\ answer'[current[t]] = answer[current[t]]
          /\ Logged(current[t])' <=> Logged(current[t])
    BY <1>1, <1>2, <1>3, <2>1 DEF Logged
  <2>4. QED
    BY <1>2, <2>2, <2>3 DEF ServingInv, Pending, Settled
<1>9. AnswerInv'
  BY <1>1, <1>3, <1>5 DEF IInv, AnswerInv
<1>10. BeforeInv'
  <2>1. \A d \in Calls : \A e \in before[d] : e \in Calls /\ e # c
    BY DEF IInv, TypeOK, BeforeInv, Settled
  <2>2. QED
    BY <1>1, <1>2, <1>3, <2>1 DEF IInv, BeforeInv
<1>11. VersionHeld'
  BY <1>2, VersionKept DEF IInv
<1>12. TransactionsAreWhole'
  BY <1>1, <1>2, <1>3, WholeKept, SqlAssumption DEF Answer
<1>13. MigrationsRunOnce'
  BY <1>1, <1>2, MigrationsKept, SqlAssumption DEF Answer
<1>14. OrderedAsAnswered'
  BY <1>1, <1>2, OrderKept
<1>15. QED
  BY <1>4, <1>6, <1>7, <1>8, <1>9, <1>10, <1>11, <1>12, <1>13, <1>14 DEF IInv

LEMMA RefusalsStep ==
    ASSUME IInv, NEW c \in Calls, BindingNotFound(c) \/ RuntimeShutdown(c)
    PROVE  IInv'
<1>1. Answers(c, "error") /\ UNCHANGED <<queues, threadVars, database, crashes>>
  BY DEF BindingNotFound, RuntimeShutdown
<1>2. Unknown(c)
  BY NewIsUnknown DEF BindingNotFound, RuntimeShutdown
<1>3. RestOfQueues(c)
  BY <1>1, <1>2, RestIsAll
<1>4. QED
  BY <1>1, <1>2, <1>3, RefuseStep DEF Unknown

LEMMA ConnectFailsStep ==
    ASSUME IInv, NEW t \in Threads, NEW c \in Calls, ConnectFails(t, c)
    PROVE  IInv'
<1>1. Receives(t, c) /\ Answers(c, "error") /\ UNCHANGED <<threadVars, database, crashes>>
  BY DEF ConnectFails
<1>2. Pending(c) /\ (\A u \in Threads : current[u] # c) /\ RestOfQueues(c)
  BY <1>1, ReceivesRest
<1>3. ~Settled(c)
  BY <1>2 DEF Pending, Settled
<1>4. QED
  BY <1>1, <1>2, <1>3, RefuseStep

LEMMA DropStep ==
    ASSUME IInv, NEW c \in Calls, Drop(c)
    PROVE  IInv'
<1>1. /\ call[c] = "waits" /\ call' = [call EXCEPT ![c] = "dropped"]
      /\ UNCHANGED <<sql_rx, thread_rx, connections, at, current, first, done, writer, log,
                     version, answer, before, crashes>>
  BY DEF Drop, queues, threadVars, database
<1>2. TypeOK'
  BY <1>1 DEF IInv, TypeOK
<1>3. \A d \in Calls : (Pending(d)' <=> Pending(d)) /\ (Settled(d)' <=> Settled(d))
  BY <1>1 DEF IInv, TypeOK, Pending, Settled
<1>4. \A d : Logged(d)' <=> Logged(d)
  BY <1>1, LogKept
<1>5. QueueInv'
  <2>1. \A i \in 1..Len(sql_rx) : Pending(sql_rx[i])'
    BY <1>1, <1>3, QueueTypes DEF IInv, QueueInv, Pending
  <2>2. \A t \in Threads : \A i \in 1..Len(thread_rx[t]) : Pending(thread_rx[t][i])'
    BY <1>1, <1>3, QueueTypes DEF IInv, QueueInv, Pending
  <2>3. QED
    BY <1>1, <2>1, <2>2 DEF IInv, QueueInv, Pending
<1>6. OnePlace'
  BY <1>1 DEF IInv, OnePlace
<1>7. ASSUME NEW t \in Threads PROVE ServingInv(t)'
  <2>1. ServingInv(t) /\ current[t] \in Calls \cup {NoCall}
    BY DEF IInv, TypeOK
  <2>2. /\ current[t] # NoCall => (Pending(current[t])' <=> Pending(current[t]))
        /\ current[t] # NoCall => (Settled(current[t])' <=> Settled(current[t]))
        /\ Logged(current[t])' <=> Logged(current[t])
    BY <1>1, <1>3, <2>1 DEF Pending, Settled, Logged
  <2>3. QED
    BY <1>1, <2>1, <2>2 DEF ServingInv
<1>8. AnswerInv'
  BY <1>1, <1>3, <1>4 DEF IInv, AnswerInv, TypeOK
<1>9. BeforeInv'
  BY <1>1, <1>4 DEF IInv, BeforeInv, TypeOK
<1>10. VersionHeld' /\ TransactionsAreWhole' /\ MigrationsRunOnce' /\ OrderedAsAnswered'
  BY <1>1, VersionKept, WholeKept, MigrationsKept, OrderKept
<1>11. QED
  BY <1>2, <1>5, <1>6, <1>7, <1>8, <1>9, <1>10 DEF IInv

LEMMA AppendOf ==
    ASSUME NEW S, NEW s \in Seq(S), NEW c \in S
    PROVE  /\ Append(s, c) \in Seq(S)
           /\ \A i \in 1..Len(Append(s, c)) :
                \/ i \in 1..Len(s) /\ Append(s, c)[i] = s[i]
                \/ i = Len(s) + 1 /\ Append(s, c)[i] = c
BY AppendProperties, LenProperties

\* A call is sent to the queue of its kind.
LEMMA SendsStep ==
    ASSUME IInv, NEW c \in Calls, Exec(c) \/ Batch(c) \/ Migrate(c)
    PROVE  IInv'
<1>1. /\ call[c] = "new" /\ call' = [call EXCEPT ![c] = "waits"]
      /\ before' = [before EXCEPT ![c] = {d \in Calls : call[d] = "answered"}]
      /\ UNCHANGED <<connections, at, current, first, done, writer, log, version, answer,
                     crashes>>
  BY DEF Exec, Batch, Migrate, SendMessage, SendMessageMigrate, Sends, threadVars, database
<1>2. Unknown(c) /\ ~Logged(c)
  BY <1>1, NewIsUnknown DEF IInv, AnswerInv, Unknown
<1>3. \A d : Logged(d)' <=> Logged(d)
  BY <1>1, LogKept
<1>4. \A d \in Calls : /\ Pending(d) => Pending(d)' /\ d # c
                       /\ d # c => call'[d] = call[d]
  BY <1>1 DEF IInv, TypeOK, Pending
<1>5. Pending(c)'
  BY <1>1 DEF IInv, TypeOK, Pending
<1>6. sql_rx' \in Seq(Calls) /\ thread_rx' \in [Threads -> Seq(Calls)] /\ QueueInv' /\ OnePlace'
  <2>1. \/ Kind(c) # "migrate" /\ sql_rx' = Append(sql_rx, c) /\ UNCHANGED thread_rx
        \/ /\ Kind(c) = "migrate" /\ UNCHANGED sql_rx
           /\ thread_rx' = [thread_rx EXCEPT ![Shard[Connection(c)]] = Append(@, c)]
    BY DEF Exec, Batch, Migrate, SendMessage, SendMessageMigrate, Sends
  <2>2. sql_rx \in Seq(Calls) /\ thread_rx \in [Threads -> Seq(Calls)]
    BY DEF IInv, TypeOK
  <2>3. \A i \in 1..Len(sql_rx) :
          LET d == sql_rx[i] IN
          /\ d \in Calls \ {c} /\ call'[d] \in {"waits", "dropped"} /\ Kind(d) # "migrate"
          /\ \A t \in Threads : current[t] # d
    BY <1>2, <1>4, QueueTypes DEF IInv, QueueInv, OnePlace, Unknown, Pending
  <2>4. \A u \in Threads : \A i \in 1..Len(thread_rx[u]) :
          LET d == thread_rx[u][i] IN
          /\ d \in Calls \ {c} /\ call'[d] \in {"waits", "dropped"}
          /\ Kind(d) = "migrate" /\ Shard[Connection(d)] = u
          /\ \A t \in Threads : current[t] # d
    BY <1>2, <1>4, QueueTypes DEF IInv, QueueInv, OnePlace, Unknown, Pending
  <2>5. call'[c] \in {"waits", "dropped"} /\ \A t \in Threads : current[t] # c
    BY <1>2, <1>5 DEF Unknown, Pending
  <2>6. \A t, u \in Threads : current[t] # NoCall /\ u # t => current[u] # current[t]
    BY DEF IInv, OnePlace
  <2>7. /\ \A i, j \in 1..Len(sql_rx) : sql_rx[i] = sql_rx[j] => i = j
        /\ \A u \in Threads :
             \A i, j \in 1..Len(thread_rx[u]) : thread_rx[u][i] = thread_rx[u][j] => i = j
    BY DEF IInv, QueueInv
  <2>8. CASE Kind(c) # "migrate" /\ sql_rx' = Append(sql_rx, c) /\ UNCHANGED thread_rx
    <3>1. /\ sql_rx' \in Seq(Calls)
          /\ \A i \in 1..Len(sql_rx') :
               \/ i \in 1..Len(sql_rx) /\ sql_rx'[i] = sql_rx[i]
               \/ i = Len(sql_rx) + 1 /\ sql_rx'[i] = c
      BY <2>2, <2>8, AppendOf
    <3>2. \A i \in 1..Len(sql_rx') :
            LET d == sql_rx'[i] IN
            /\ call'[d] \in {"waits", "dropped"} /\ Kind(d) # "migrate"
            /\ \A t \in Threads : current[t] # d
      BY <2>3, <2>5, <2>8, <3>1
    <3>3. \A i, j \in 1..Len(sql_rx') : sql_rx'[i] = sql_rx'[j] => i = j
      BY <2>3, <2>7, <3>1
    <3>4. QueueInv'
      BY <2>4, <2>7, <2>8, <3>2, <3>3 DEF QueueInv, Pending
    <3>5. OnePlace'
      BY <1>1, <2>4, <2>6, <2>8, <3>2 DEF OnePlace
    <3>6. QED
      BY <2>2, <2>8, <3>1, <3>4, <3>5
  <2>9. CASE /\ Kind(c) = "migrate" /\ UNCHANGED sql_rx
             /\ thread_rx' = [thread_rx EXCEPT ![Shard[Connection(c)]] = Append(@, c)]
    <3>1. PICK t \in Threads : t = Shard[Connection(c)]
      BY RequestType
    <3>2. PICK s \in Seq(Calls) : s = thread_rx[t]
      BY <2>2
    <3>3. /\ Append(s, c) \in Seq(Calls)
          /\ \A i \in 1..Len(Append(s, c)) :
               \/ i \in 1..Len(s) /\ Append(s, c)[i] = s[i]
               \/ i = Len(s) + 1 /\ Append(s, c)[i] = c
      BY AppendOf
    <3>4. /\ thread_rx' \in [Threads -> Seq(Calls)] /\ thread_rx'[t] = Append(s, c)
          /\ \A u \in Threads \ {t} : thread_rx'[u] = thread_rx[u]
      BY <2>2, <2>9, <3>1, <3>2, <3>3
    <3>5. \A i \in 1..Len(Append(s, c)) :
            LET d == Append(s, c)[i] IN
            /\ call'[d] \in {"waits", "dropped"} /\ Kind(d) = "migrate"
            /\ Shard[Connection(d)] = t /\ \A u \in Threads : current[u] # d
      BY <2>4, <2>5, <2>9, <3>1, <3>2, <3>3
    <3>6. \A i, j \in 1..Len(Append(s, c)) : Append(s, c)[i] = Append(s, c)[j] => i = j
      BY <2>4, <2>7, <3>2, <3>3
    <3>7. ASSUME NEW u \in Threads
          PROVE  /\ \A i \in 1..Len(thread_rx'[u]) :
                      LET d == thread_rx'[u][i] IN
                      /\ call'[d] \in {"waits", "dropped"} /\ Kind(d) = "migrate"
                      /\ Shard[Connection(d)] = u /\ \A v \in Threads : current[v] # d
                 /\ \A i, j \in 1..Len(thread_rx'[u]) :
                      thread_rx'[u][i] = thread_rx'[u][j] => i = j
      <4>1. CASE u = t
        <5>1. thread_rx'[u] = Append(s, c)
          BY <3>4, <4>1
        <5>2. QED
          BY <3>5, <3>6, <4>1, <5>1
      <4>2. CASE u # t
        <5>1. thread_rx'[u] = thread_rx[u]
          BY <3>4, <4>2
        <5>2. QED
          BY <2>4, <2>7, <5>1
      <4>3. QED
        BY <4>1, <4>2
    <3>8. QueueInv'
      BY <2>3, <2>7, <2>9, <3>7 DEF QueueInv, Pending
    <3>9. OnePlace'
      BY <1>1, <2>3, <2>6, <2>9, <3>7 DEF OnePlace
    <3>10. QED
      BY <2>2, <2>9, <3>4, <3>8, <3>9
  <2>10. QED
    BY <2>1, <2>8, <2>9
<1>7. TypeOK'
  BY <1>1, <1>6 DEF IInv, TypeOK
<1>8. ASSUME NEW t \in Threads PROVE ServingInv(t)'
  <2>1. ServingInv(t) /\ current[t] \in (Calls \ {c}) \cup {NoCall}
    BY <1>2 DEF IInv, TypeOK, Unknown
  <2>2. /\ current[t] # NoCall => call'[current[t]] = call[current[t]]
        /\ Logged(current[t])' <=> Logged(current[t])
    BY <1>1, <1>3, <1>4, <2>1 DEF Logged
  <2>3. QED
    BY <1>1, <2>1, <2>2 DEF ServingInv, Pending, Settled
<1>9. AnswerInv'
  BY <1>1, <1>3, <1>4 DEF IInv, AnswerInv, TypeOK, Settled
<1>10. BeforeInv'
  <2> SUFFICES ASSUME NEW e \in Calls, NEW d \in before'[e]
               PROVE  /\ call'[d] = "answered" /\ d # e
                      /\ Logged(e)' => \A t \in Threads : current[t] # d
    BY <1>1 DEF BeforeInv
  <2>1. CASE e = c
    BY <1>1, <1>2, <1>3, <1>4, <2>1 DEF IInv, TypeOK
  <2>2. CASE e # c
    <3>1. before'[e] = before[e] /\ d \in Calls
      BY <1>1, <2>2 DEF IInv, TypeOK
    <3>2. call[d] = "answered" /\ d # e /\ (Logged(e) => \A t \in Threads : current[t] # d)
      BY <3>1 DEF IInv, BeforeInv
    <3>3. QED
      BY <1>1, <1>3, <1>4, <3>1, <3>2
  <2>3. QED
    BY <2>1, <2>2
<1>11. VersionHeld' /\ TransactionsAreWhole' /\ MigrationsRunOnce'
  BY <1>1, VersionKept, WholeKept, MigrationsKept
<1>12. OrderedAsAnswered'
  <2>1. \A d \in Calls : before'[d] = before[d] \/ ~Logged(d)
    BY <1>1, <1>2 DEF IInv, TypeOK
  <2>2. QED
    BY <1>1, <2>1, OrderKept
<1>13. QED
  BY <1>6, <1>7, <1>8, <1>9, <1>10, <1>11, <1>12 DEF IInv

-----------------------------------------------------------------------------
(* Threads *)

LEMMA StartStep ==
    ASSUME IInv, NEW t \in Threads, Start(t) \/ StartFails(t)
    PROVE  IInv'
<1>1. /\ at[t] = "starts" /\ \E p \in {"idle", "stopped"} : at' = [at EXCEPT ![t] = p]
      /\ UNCHANGED <<sql_rx, thread_rx, connections, current, first, done, writer, log,
                     version, call, answer, before, crashes>>
  BY DEF Start, StartFails, queues, database, callVars
<1>2. TypeOK'
  BY <1>1, ZenonT(30) DEF IInv, TypeOK
<1>3. QueueInv'
  BY <1>1 DEF IInv, QueueInv, Pending
<1>4. OnePlace'
  BY <1>1 DEF IInv, OnePlace
<1>5. ASSUME NEW u \in Threads PROVE ServingInv(u)'
  <2>1. ServingInv(u) /\ (u # t => at'[u] = at[u])
    BY <1>1 DEF IInv, TypeOK
  <2>2. u = t => at'[u] \in {"idle", "stopped"}
    BY <1>1 DEF IInv, TypeOK
  <2>3. Logged(current[u])' <=> Logged(current[u])
    BY <1>1 DEF Logged
  <2>4. QED
    BY <1>1, <2>1, <2>2, <2>3 DEF ServingInv, Pending, Settled
<1>6. AnswerInv' /\ BeforeInv'
  BY <1>1 DEF IInv, AnswerInv, BeforeInv, Logged, Settled
<1>7. VersionHeld'
  BY <1>1, VersionKept DEF IInv, TypeOK
<1>8. TransactionsAreWhole' /\ MigrationsRunOnce' /\ OrderedAsAnswered'
  BY <1>1, WholeKept, MigrationsKept, OrderKept
<1>9. QED
  BY <1>2, <1>3, <1>4, <1>5, <1>6, <1>7, <1>8 DEF IInv

LEMMA TakeStep ==
    ASSUME IInv, NEW t \in Threads, NEW c \in Calls, Take(t, c)
    PROVE  IInv'
<1>1. /\ at[t] = "idle" /\ at' = [at EXCEPT ![t] = "runs"]
      /\ current' = [current EXCEPT ![t] = c]
      /\ connections' = [connections EXCEPT ![t] = @ \cup {Connection(c)}]
      /\ UNCHANGED <<first, done, writer, log, version, call, answer, before, crashes>>
  BY DEF Take, database, callVars
<1>2. /\ Pending(c) /\ (Kind(c) = "migrate" => Shard[Connection(c)] = t)
      /\ \A u \in Threads : current[u] # c
      /\ RestOfQueues(c)
  BY ReceivesRest DEF Take
<1>3. TypeOK'
  <2>1. Connection(c) \in Connections /\ connections \in [Threads -> SUBSET Connections]
    BY RequestType DEF IInv, TypeOK
  <2>2. connections' \in [Threads -> SUBSET Connections]
    BY <1>1, <2>1
  <2>3. QED
    BY <1>1, <1>2, <2>2 DEF IInv, TypeOK, RestOfQueues, SharedRest, ThreadRest
<1>4. /\ \A u \in Threads \ {t} : current'[u] = current[u] /\ at'[u] = at[u]
      /\ current'[t] = c /\ at'[t] = "runs"
  BY <1>1 DEF IInv, TypeOK
<1>5. ~Settled(c) /\ ~Logged(c) /\ c # NoCall
  BY <1>2, RequestType DEF IInv, AnswerInv, Settled, Pending
<1>6. QueueInv'
  BY <1>1, <1>2 DEF QueueInv, RestOfQueues, SharedRest, ThreadRest, Pending
<1>7. OnePlace'
  <2>1. \A u \in Threads : \A i \in 1..Len(sql_rx') : sql_rx'[i] # current'[u]
    BY <1>2, <1>4 DEF RestOfQueues, SharedRest, ThreadRest
  <2>2. \A u, v \in Threads : \A i \in 1..Len(thread_rx'[v]) : thread_rx'[v][i] # current'[u]
    BY <1>2, <1>4 DEF RestOfQueues, SharedRest, ThreadRest
  <2>3. \A u, v \in Threads : current'[u] # NoCall /\ v # u => current'[v] # current'[u]
    BY <1>2, <1>4 DEF IInv, OnePlace
  <2>4. QED
    BY <2>1, <2>2, <2>3 DEF OnePlace
<1>8. ASSUME NEW u \in Threads PROVE ServingInv(u)'
  <2>1. ServingInv(u)
    BY DEF IInv
  <2>2. CASE u # t
    <3>1. Logged(current[u])' <=> Logged(current[u])
      BY <1>1, <1>4, <2>2 DEF Logged
    <3>2. QED
      BY <1>1, <1>4, <2>1, <2>2, <3>1 DEF ServingInv, Pending, Settled
  <2>3. CASE u = t
    <3>1. done[t] = 0 /\ first[t] = 0
      BY <1>1, <2>1, <2>3 DEF ServingInv
    <3>2. ~Logged(current[t])'
      BY <1>1, <1>4, <1>5 DEF Logged
    <3>3. Len(Body(c)) \in Nat
      BY RequestType
    <3>4. QED
      BY <1>1, <1>2, <1>4, <1>5, <2>3, <3>1, <3>2, <3>3 DEF ServingInv, Pending
  <2>4. QED
    BY <2>2, <2>3
<1>9. AnswerInv'
  BY <1>1 DEF IInv, AnswerInv, Logged, Settled
<1>10. BeforeInv'
  <2>1. \A e \in Calls : \A d \in before[e] : d # c
    BY <1>2 DEF IInv, BeforeInv, Pending
  <2>2. QED
    BY <1>1, <1>4, <2>1 DEF IInv, BeforeInv, Logged
<1>11. VersionHeld'
  BY <1>1, <1>4, VersionKept
<1>12. TransactionsAreWhole' /\ MigrationsRunOnce' /\ OrderedAsAnswered'
  BY <1>1, WholeKept, MigrationsKept, OrderKept
<1>13. QED
  BY <1>3, <1>6, <1>7, <1>8, <1>9, <1>10, <1>11, <1>12 DEF IInv

\* The lock has one owner: a thread that can write finds no other writing.
LEMMA OneWriter ==
    ASSUME IInv, NEW t \in Threads, NEW u \in Threads, u # t,
           Free(t) \/ done[t] > 0
    PROVE  done[u] = 0
<1>1. ServingInv(t) /\ ServingInv(u) /\ done[u] \in Nat
  BY DEF IInv, TypeOK
<1>2. QED
  BY <1>1, SqlAssumption DEF ServingInv, Free

\* A statement runs under the lock.
LEMMA WritesStep ==
    ASSUME IInv, NEW t \in Threads, ExecWrites(t) \/ BatchRuns(t) \/ MigrateRuns(t)
    PROVE  IInv'
<1>1. PICK phase \in {"runs", "steps", "migrates"} :
        /\ RunsWrite(t, phase)
        /\ \/ phase = "steps" /\ Serves(t, "exec", "runs")
           \/ phase = "runs" /\ Serves(t, "batch", "runs") /\ MoreToRun(t)
           \/ phase = "migrates" /\ Serves(t, "migrate", "migrates") /\ MoreToRun(t)
  BY DEF ExecWrites, BatchRuns, MigrateRuns
<1>2. /\ Free(t) /\ writer' = t
      /\ done' = [done EXCEPT ![t] = @ + 1] /\ at' = [at EXCEPT ![t] = phase]
      /\ UNCHANGED <<sql_rx, thread_rx, connections, current, first, log, version, call,
                     answer, before, crashes>>
  BY <1>1 DEF RunsWrite, queues, callVars
<1>3. /\ \A u \in Threads \ {t} : done'[u] = done[u] /\ at'[u] = at[u]
      /\ done'[t] = done[t] + 1 /\ at'[t] = phase
      /\ done[t] \in Nat /\ first[t] \in Nat
  BY <1>2 DEF IInv, TypeOK
<1>4. TypeOK'
  BY <1>2, <1>3 DEF IInv, TypeOK
<1>5. \A c : Logged(c)' <=> Logged(c)
  BY <1>2, LogKept
<1>6. QueueInv' /\ OnePlace' /\ AnswerInv' /\ BeforeInv'
  BY <1>2 DEF IInv, QueueInv, OnePlace, AnswerInv, BeforeInv, Logged, Pending, Settled
<1>7. ASSUME NEW u \in Threads PROVE ServingInv(u)'
  <2>1. ServingInv(u) /\ (Logged(current[u])' <=> Logged(current[u]))
    BY <1>2 DEF IInv, Logged
  <2>2. CASE u # t
    <3>1. done[u] = 0
      BY <1>2, <2>2, OneWriter
    <3>2. QED
      BY <1>2, <1>3, <2>1, <2>2, <3>1 DEF ServingInv, Pending, Settled
  <2>3. CASE u = t
    <3>1. current[t] \in Calls /\ ServingInv(t) /\ Len(Body(current[t])) \in Nat
      BY <1>1, RequestType DEF IInv, TypeOK, Serves
    <3>2. CASE phase = "steps"
      <4>1. Serves(t, "exec", "runs") /\ Len(Body(current[t])) = 1 /\ done[t] = 0
        BY <1>1, <1>3, <3>1, <3>2, RequestType DEF ServingInv, Serves
      <4>2. QED
        BY <1>2, <1>3, <2>1, <2>3, <3>1, <3>2, <4>1 DEF ServingInv, Serves, Pending
    <3>3. CASE phase = "runs"
      <4>1. Serves(t, "batch", "runs") /\ MoreToRun(t)
        BY <1>1, <3>3
      <4>2. QED
        BY <1>2, <1>3, <2>1, <2>3, <3>1, <3>3, <4>1 DEF ServingInv, Serves, MoreToRun, Pending
    <3>4. CASE phase = "migrates"
      <4>1. Serves(t, "migrate", "migrates") /\ MoreToRun(t)
        BY <1>1, <3>4
      <4>2. QED
        BY <1>2, <1>3, <2>1, <2>3, <3>1, <3>4, <4>1 DEF ServingInv, Serves, MoreToRun, Pending
    <3>5. QED
      BY <3>2, <3>3, <3>4
  <2>4. QED
    BY <2>2, <2>3
<1>8. VersionHeld'
  <2>1. at'[t] = "migrates" => at[t] = "migrates"
    BY <1>1, <1>3 DEF Serves
  <2>2. QED
    BY <1>2, <1>3, <2>1, VersionKept
<1>9. TransactionsAreWhole' /\ MigrationsRunOnce' /\ OrderedAsAnswered'
  BY <1>2, WholeKept, MigrationsKept, OrderKept
<1>10. QED
  BY <1>4, <1>6, <1>7, <1>8, <1>9 DEF IInv

\* A migration has read the version it starts from.
LEMMA MigrationStarts ==
    ASSUME IInv, NEW t \in Threads, Serves(t, "migrate", "runs"),
           version < Len(Body(current[t])),
           first' = [first EXCEPT ![t] = version],
           at' = [at EXCEPT ![t] = "migrates"],
           UNCHANGED <<queues, connections, current, done, database, callVars, crashes>>
    PROVE  IInv'
<1>1. UNCHANGED <<sql_rx, thread_rx, connections, current, done, writer, log, version, call,
                  answer, before, crashes>>
  BY DEF queues, database, callVars
<1>2. /\ \A u \in Threads \ {t} : first'[u] = first[u] /\ at'[u] = at[u]
      /\ first'[t] = version /\ at'[t] = "migrates" /\ version \in Nat
  BY DEF IInv, TypeOK
<1>3. TypeOK'
  BY <1>1, <1>2 DEF IInv, TypeOK
<1>4. QueueInv' /\ OnePlace' /\ AnswerInv' /\ BeforeInv'
  BY <1>1 DEF IInv, QueueInv, OnePlace, AnswerInv, BeforeInv, Logged, Pending, Settled
<1>5. ASSUME NEW u \in Threads PROVE ServingInv(u)'
  <2>1. ServingInv(u) /\ (Logged(current[u])' <=> Logged(current[u])) /\ done[u] \in Nat
    BY <1>1 DEF IInv, TypeOK, Logged
  <2>2. CASE u # t
    BY <1>1, <1>2, <2>1, <2>2 DEF ServingInv, Pending, Settled
  <2>3. CASE u = t
    <3>1. done[t] = 0 /\ at[t] = "runs" /\ current[t] # NoCall /\ Kind(current[t]) = "migrate"
      BY <2>1, <2>3 DEF ServingInv, Serves
    <3>2. QED
      BY <1>1, <1>2, <2>1, <2>3, <3>1 DEF ServingInv, Pending
  <2>4. QED
    BY <2>2, <2>3
<1>6. VersionHeld'
  BY <1>1, <1>2, VersionKept
<1>7. TransactionsAreWhole' /\ MigrationsRunOnce' /\ OrderedAsAnswered'
  BY <1>1, WholeKept, MigrationsKept, OrderKept
<1>8. QED
  BY <1>3, <1>4, <1>5, <1>6, <1>7 DEF IInv

\* The queues do not notice that the call of a thread is answered.
LEMMA QueueKept ==
    ASSUME IInv, NEW t \in Threads, current[t] \in Calls, UNCHANGED <<sql_rx, thread_rx>>,
           \A d \in Calls \ {current[t]} : call'[d] = call[d]
    PROVE  QueueInv'
<1>1. \A i \in 1..Len(sql_rx) :
        call'[sql_rx[i]] \in {"waits", "dropped"} /\ Kind(sql_rx[i]) # "migrate"
  BY QueueTypes DEF IInv, QueueInv, OnePlace, Pending
<1>2. \A u \in Threads : \A i \in 1..Len(thread_rx[u]) :
        LET d == thread_rx[u][i] IN
        /\ call'[d] \in {"waits", "dropped"} /\ Kind(d) = "migrate"
        /\ Shard[Connection(d)] = u
  BY QueueTypes DEF IInv, QueueInv, OnePlace, Pending
<1>3. QED
  BY <1>1, <1>2 DEF IInv, QueueInv, Pending

LEMMA UndecodableStep ==
    ASSUME IInv, NEW t \in Threads, Undecodable(t)
    PROVE  IInv'
<1>1. PICK c \in Calls : c = current[t]
  BY DEF IInv, TypeOK, Undecodable, Serves
<1>2. PICK a \in {"text_value_decode_error"} : Answers(c, a)
  BY <1>1 DEF Undecodable
<1>3. /\ at[t] = "steps" /\ at' = [at EXCEPT ![t] = "resets"]
      /\ UNCHANGED <<sql_rx, thread_rx, connections, current, first, done, writer, log,
                     version, crashes>>
  BY DEF Undecodable, Serves, queues, database
<1>4. /\ call' \in [Calls -> {"new", "waits", "dropped", "answered", "lost"}]
      /\ answer' \in [Calls -> Answer \cup {NoAnswer}]
      /\ before' = before
      /\ Settled(c)' /\ answer'[c] \in {a, NoAnswer}
      /\ answer'[c] # NoAnswer => call'[c] = "answered"
      /\ \A d \in Calls \ {c} : call'[d] = call[d] /\ answer'[d] = answer[d]
  BY <1>2, AnswersType DEF IInv, Answer
<1>5. /\ \A u \in Threads \ {t} : at'[u] = at[u] /\ at'[t] = "resets"
      /\ answer'[c] \notin {"ok", "error"}
  BY <1>3, <1>4, SqlAssumption DEF IInv, TypeOK, Answer
<1>6. ~Logged(c) /\ Pending(c) /\ \A d : Logged(d)' <=> Logged(d)
  BY <1>1, <1>3, LogKept, RequestType DEF IInv, ServingInv
<1>7. TypeOK'
  BY <1>3, <1>4 DEF IInv, TypeOK
<1>8. QueueInv' /\ OnePlace'
  BY <1>1, <1>3, <1>4, QueueKept DEF IInv, OnePlace
<1>9. ASSUME NEW u \in Threads PROVE ServingInv(u)'
  <2>1. ServingInv(u) /\ (Logged(current[u])' <=> Logged(current[u]))
    BY <1>3 DEF IInv, Logged
  <2>2. CASE u # t
    <3>1. current[u] # NoCall => current[u] \in Calls \ {c}
      BY <1>1, <2>2, RequestType DEF IInv, TypeOK, OnePlace
    <3>2. current[u] # NoCall =>
            call'[current[u]] = call[current[u]] /\ answer'[current[u]] = answer[current[u]]
      BY <1>4, <3>1
    <3>3. QED
      BY <1>3, <1>5, <2>1, <2>2, <3>2 DEF ServingInv, Pending, Settled
  <2>3. CASE u = t
    <3>1. ServingInv(t) /\ c # NoCall /\ Settled(c)' /\ answer'[c] # "error"
      BY <1>4, <1>5, <2>1, <2>3, RequestType
    <3>2. at'[t] = "resets"
      BY <1>3 DEF IInv, TypeOK
    <3>3. QED
      BY <1>1, <1>3, <2>1, <2>3, <3>1, <3>2 DEF ServingInv, Settled
  <2>4. QED
    BY <2>2, <2>3
<1>10. AnswerInv'
  BY <1>4, <1>6 DEF IInv, AnswerInv, Settled
<1>11. BeforeInv'
  <2>1. \A e \in Calls : \A d \in before[e] : d \in Calls \ {c}
    BY <1>6 DEF IInv, TypeOK, BeforeInv, Pending
  <2>2. QED
    BY <1>3, <1>4, <1>6, <2>1 DEF IInv, BeforeInv
<1>12. VersionHeld'
  <2>1. \A u \in Threads : at'[u] = "migrates" => at[u] = "migrates" /\ first'[u] = first[u]
    BY <1>3 DEF IInv, TypeOK
  <2>2. QED
    BY <1>3, <2>1, VersionKept
<1>13. TransactionsAreWhole' /\ MigrationsRunOnce' /\ OrderedAsAnswered'
  BY <1>3, <1>4, <1>5, WholeKept, MigrationsKept, OrderKept
<1>14. QED
  BY <1>7, <1>8, <1>9, <1>10, <1>11, <1>12, <1>13 DEF IInv

-----------------------------------------------------------------------------
(* The end of a call *)

\* A thread lets go of its call, whether that was answered now or before.
LEMMA LetsGo ==
    ASSUME IInv, NEW t \in Threads, NEW c \in Calls, c = current[t],
           at' = [at EXCEPT ![t] = "idle"], current' = [current EXCEPT ![t] = NoCall],
           first' = [first EXCEPT ![t] = 0], done' = [done EXCEPT ![t] = 0],
           writer' = IF writer = t THEN Nobody ELSE writer,
           UNCHANGED <<sql_rx, thread_rx, connections, before, crashes>>,
           log' \in Seq(Entries), version' \in Nat,
           call' \in [Calls -> {"new", "waits", "dropped", "answered", "lost"}],
           answer' \in [Calls -> Answer \cup {NoAnswer}],
           Settled(c)', answer'[c] # NoAnswer => call'[c] = "answered",
           Pending(c) \/ call'[c] = call[c],
           \A d \in Calls \ {c} : call'[d] = call[d] /\ answer'[d] = answer[d],
           \A d \in Calls : Logged(d)' => Logged(d) \/ (d = c /\ done[t] > 0)
    PROVE  /\ TypeOK' /\ QueueInv' /\ OnePlace' /\ \A u \in Threads : ServingInv(u)'
           /\ AnswerInv' /\ BeforeInv'
<1>1. TypeOK'
  BY DEF IInv, TypeOK, Entries
<1>2. /\ \A u \in Threads \ {t} : /\ at'[u] = at[u] /\ current'[u] = current[u]
                               /\ first'[u] = first[u] /\ done'[u] = done[u]
      /\ at'[t] = "idle" /\ current'[t] = NoCall /\ first'[t] = 0 /\ done'[t] = 0
  BY DEF IInv, TypeOK
<1>3. QueueInv'
  BY QueueKept
<1>4. NoCall \notin Calls /\ c # NoCall
  BY SqlAssumption
<1>5. OnePlace'
  <2>1. \A u \in Threads : \A i \in 1..Len(sql_rx) : sql_rx[i] # current'[u]
    BY <1>2, <1>4, QueueTypes DEF IInv, OnePlace
  <2>2. \A u, v \in Threads : \A i \in 1..Len(thread_rx[v]) : thread_rx[v][i] # current'[u]
    BY <1>2, <1>4, QueueTypes DEF IInv, OnePlace
  <2>3. \A u, v \in Threads : current'[u] # NoCall /\ v # u => current'[v] # current'[u]
    BY <1>2 DEF IInv, OnePlace
  <2>4. QED
    BY <2>1, <2>2, <2>3 DEF OnePlace
<1>6. ASSUME NEW u \in Threads PROVE ServingInv(u)'
  <2>1. CASE u = t
    BY <1>2, <2>1 DEF ServingInv
  <2>2. CASE u # t
    <3>1. ServingInv(u) /\ (done[u] > 0 => writer' = u)
      BY <2>2 DEF IInv, ServingInv
    <3>2. current[u] # NoCall => current[u] \in Calls \ {c}
      BY <1>4, <2>2 DEF IInv, TypeOK, OnePlace
    <3>3. current[u] # NoCall =>
            /\ call'[current[u]] = call[current[u]] /\ answer'[current[u]] = answer[current[u]]
            /\ ~Logged(current[u])'
      <4>1. current[u] # NoCall => ~Logged(current[u]) /\ current[u] \in Calls \ {c}
        BY <3>1, <3>2 DEF ServingInv
      <4>2. ASSUME NEW d \in Calls \ {c}, ~Logged(d) PROVE ~Logged(d)'
        BY <4>2
      <4>3. QED
        <5>1. current'[u] = current[u]
          BY <1>2, <2>2
        <5>2. PICK d : d = current[u]
          OBVIOUS
        <5>3. d # NoCall => ~Logged(d)'
          BY <4>1, <4>2, <5>2
        <5>4. Logged(current[u])' <=> Logged(d)'
          BY <5>1, <5>2 DEF Logged
        <5>5. QED
          BY <4>1, <5>2, <5>3, <5>4
    <3>4. QED
      BY <1>2, <2>2, <3>1, <3>3 DEF ServingInv, Pending, Settled
  <2>3. QED
    BY <2>1, <2>2
<1>7. AnswerInv'
  BY DEF IInv, AnswerInv, Settled
<1>8. BeforeInv'
  <2> SUFFICES ASSUME NEW e \in Calls, NEW d \in before[e]
               PROVE  /\ call'[d] = "answered" /\ d # e
                      /\ Logged(e)' => \A u \in Threads : current'[u] # d
    BY DEF BeforeInv
  <2>1. /\ d \in Calls /\ call[d] = "answered" /\ d # e /\ ~Pending(d)
        /\ Logged(e) => \A u \in Threads : current[u] # d
    BY DEF IInv, TypeOK, BeforeInv, Pending
  <2>2. call'[d] = "answered"
    BY <2>1
  <2>3. ASSUME Logged(e)', NEW u \in Threads, current'[u] = d PROVE FALSE
    <3>1. u # t /\ current[u] = d
      BY <1>2, <1>4, <2>1, <2>3
    <3>2. e = c /\ done[t] > 0
      BY <2>1, <2>3, <3>1
    <3>3. done[u] = 0
      BY <3>1, <3>2, OneWriter
    <3>4. ServingInv(u) /\ d # NoCall
      BY <1>4, <2>1 DEF IInv
    <3>5. at[u] = "resets"
      BY <2>1, <3>1, <3>4 DEF ServingInv
    <3>6. QED
      BY <3>3, <3>4, <3>5 DEF ServingInv
  <2>4. QED
    BY <2>1, <2>2, <2>3
<1>9. QED
  BY <1>1, <1>3, <1>5, <1>6, <1>7, <1>8

\* A call that fails, or only reads, leaves the log alone.
LEMMA FailsStep ==
    ASSUME IInv, NEW t \in Threads, NEW c \in Calls, c = current[t],
           NEW a \in {"ok", "error"}, Fails(t, a),
           at[t] # "resets",
           a = "ok" => \/ Body(c) = <<"read">>
                       \/ Kind(c) = "migrate" /\ Len(Body(c)) <= version
    PROVE  IInv'
<1>1. /\ Answers(c, a)
      /\ at' = [at EXCEPT ![t] = "idle"] /\ current' = [current EXCEPT ![t] = NoCall]
      /\ first' = [first EXCEPT ![t] = 0] /\ done' = [done EXCEPT ![t] = 0]
      /\ writer' = IF writer = t THEN Nobody ELSE writer
      /\ UNCHANGED <<sql_rx, thread_rx, connections, log, version, crashes>>
  BY DEF Fails, Ends, queues
<1>2. /\ call' \in [Calls -> {"new", "waits", "dropped", "answered", "lost"}]
      /\ answer' \in [Calls -> Answer \cup {NoAnswer}]
      /\ before' = before
      /\ Settled(c)' /\ answer'[c] \in {a, NoAnswer}
      /\ answer'[c] # NoAnswer => call'[c] = "answered"
      /\ \A d \in Calls \ {c} : call'[d] = call[d] /\ answer'[d] = answer[d]
  BY <1>1, AnswersType DEF IInv, Answer
<1>3. Pending(c) /\ ~Logged(c) /\ \A d : Logged(d)' <=> Logged(d)
  BY <1>1, LogKept, RequestType DEF IInv, ServingInv
<1>4. log' \in Seq(Entries) /\ version' \in Nat
  BY <1>1 DEF IInv, TypeOK, Entries
<1>5. /\ TypeOK' /\ QueueInv' /\ OnePlace' /\ \A u \in Threads : ServingInv(u)'
      /\ AnswerInv' /\ BeforeInv'
  BY <1>1, <1>2, <1>3, <1>4, LetsGo
<1>6. VersionHeld'
  <2>1. \A u \in Threads : at'[u] = "migrates" => at[u] = "migrates" /\ first'[u] = first[u]
    BY <1>1 DEF IInv, TypeOK
  <2>2. QED
    BY <1>1, <2>1, VersionKept
<1>7. \A d \in Calls : \/ answer'[d] = answer[d]
                       \/ answer'[d] \notin {"ok", "error"}
                       \/ d = c /\ answer'[d] = a
  <2>1. NoAnswer \notin {"ok", "error"}
    BY SqlAssumption DEF Answer
  <2>2. \A d \in Calls : answer'[d] = answer[d] \/ (d = c /\ answer'[d] \in {a, NoAnswer})
    BY <1>2
  <2>3. QED
    BY <2>1, <2>2
<1>8. TransactionsAreWhole'
  BY <1>1, <1>3, <1>7, WholeKept
<1>9. MigrationsRunOnce'
  <2>1. Body(c) = <<"read">> => Kind(c) # "migrate"
    <3>1. Kind(c) = "migrate" => \A i \in DOMAIN Body(c) : Body(c)[i] \in {"write", "invalid"}
      BY SqlAssumption DEF Kind, Body
    <3>2. Body(c) = <<"read">> => 1 \in DOMAIN Body(c) /\ Body(c)[1] = "read"
      OBVIOUS
    <3>3. QED
      BY <3>1, <3>2
  <2>2. QED
    BY <1>1, <1>7, <2>1, MigrationsKept
<1>10. OrderedAsAnswered'
  BY <1>1, <1>2, OrderKept
<1>11. QED
  BY <1>5, <1>6, <1>8, <1>9, <1>10 DEF IInv

LEMMA FailuresStep ==
    ASSUME IInv, NEW t \in Threads,
           \/ ExecReads(t) \/ ExecFails(t) \/ BatchFails(t) \/ MigrateFails(t)
           \/ ReadVersion(t)
    PROVE  IInv'
<1>1. PICK c \in Calls : c = current[t]
  BY DEF IInv, TypeOK, ExecReads, ExecFails, BatchFails, MigrateFails, ReadVersion, Serves
<1>2. at[t] # "resets" /\ ServingInv(t) /\ Len(Body(c)) \in Nat /\ version \in Nat
  BY RequestType
  DEF IInv, TypeOK, ExecReads, ExecFails, BatchFails, MigrateFails, ReadVersion, Serves
<1>3. CASE ExecReads(t)
  <2>1. /\ Kind(c) = "exec" /\ at[t] = "runs" /\ c # NoCall
        /\ Body(c)[first[t] + done[t] + 1] = "read" /\ done[t] \in Nat
    BY <1>1, <1>3, RequestType DEF ExecReads, Serves, Statement, IInv, TypeOK
  <2>2. first[t] = 0 /\ done[t] = 0 /\ Len(Body(c)) = 1 /\ Body(c) \in Seq(Statements)
    BY <1>1, <1>2, <2>1, RequestType DEF ServingInv
  <2>3. Body(c)[1] = "read"
    BY <2>1, <2>2
  <2>4. Body(c) = <<"read">>
    BY <2>2, <2>3
  <2>5. QED
    BY <1>1, <1>2, <1>3, <2>4, FailsStep DEF ExecReads
<1>4. CASE ExecFails(t) \/ BatchFails(t) \/ MigrateFails(t)
  BY <1>1, <1>2, <1>4, FailsStep DEF ExecFails, BatchFails, MigrateFails
<1>5. CASE ReadVersion(t)
  <2>1. Serves(t, "migrate", "runs") /\ Kind(c) = "migrate"
    BY <1>1, <1>5 DEF ReadVersion, Serves
  <2>2. CASE Fails(t, "error")
    BY <1>1, <1>2, <2>2, FailsStep
  <2>3. CASE version = Len(Body(c)) /\ Fails(t, "ok")
    BY <1>1, <1>2, <2>1, <2>3, FailsStep
  <2>4. CASE /\ version < Len(Body(c)) /\ first' = [first EXCEPT ![t] = version]
             /\ at' = [at EXCEPT ![t] = "migrates"]
             /\ UNCHANGED <<queues, connections, current, done, database, callVars, crashes>>
    BY <1>1, <2>1, <2>4, MigrationStarts
  <2>5. QED
    BY <1>1, <1>5, <2>2, <2>3, <2>4 DEF ReadVersion
<1>6. QED
  BY <1>3, <1>4, <1>5

\* A whole call is in the log at once, in order, after what was there.
LEMMA CommitKeeps ==
    ASSUME IInv, NEW t \in Threads, NEW c \in Calls, c = current[t],
           log' = Committed(t), UNCHANGED before,
           first[t] + done[t] = Len(Body(c)),
           Kind(c) = "batch" => first[t] = 0
    PROVE  /\ log' \in Seq(Entries)
           /\ \A d \in Calls : Logged(d)' <=> (Logged(d) \/ (d = c /\ done[t] > 0))
           /\ OrderedAsAnswered'
           /\ \A i, j \in DOMAIN log' : log'[i] = log'[j] => i = j
           /\ \A i \in DOMAIN log' :
                LET d == log'[i].call IN
                /\ log'[i].index < Len(Body(d)) =>
                     /\ i + 1 \in DOMAIN log'
                     /\ log'[i + 1] = [call |-> d, index |-> log'[i].index + 1]
                /\ log'[i].index > 1 /\ Kind(d) = "batch" =>
                     i > 1 /\ log'[i - 1] = [call |-> d, index |-> log'[i].index - 1]
<1>1. /\ Len(log) \in Nat /\ DOMAIN log = 1..Len(log)
      /\ \A i \in 1..Len(log) : log[i].call \in Calls /\ log[i].index \in Nat \ {0}
  BY LogDomain DEF IInv
<1>2. PICK L, n, f : L = Len(log) /\ n = done[t] /\ f = first[t]
  OBVIOUS
<1>3. L \in Nat /\ n \in Nat /\ f \in Nat
  BY <1>1, <1>2 DEF IInv, TypeOK
<1>4. /\ log' \in Seq(Entries)
      /\ DOMAIN log' = 1..(L + n)
      /\ \A i \in 1..L : i \in DOMAIN log' /\ log'[i] = log[i]
      /\ \A i \in DOMAIN log' \ (1..L) :
           i - L \in 1..n /\ log'[i] = [call |-> c, index |-> f + i - L]
  BY <1>2, LogGrows DEF IInv
<1>5. \A i \in 1..L : log[i].call # c
  <2>1. ServingInv(t) /\ c # NoCall
    BY RequestType DEF IInv
  <2>2. ~Logged(c)
    BY <2>1 DEF ServingInv
  <2>3. QED
    BY <1>1, <1>2, <2>2 DEF Logged
<1>6. \A i \in DOMAIN log' \ (1..L) : log'[i].call = c /\ log'[i].index = f + i - L
  BY <1>4
<1>7. \A d \in Calls : Logged(d)' <=> (Logged(d) \/ (d = c /\ done[t] > 0))
  <2> SUFFICES ASSUME NEW d \in Calls
               PROVE  Logged(d)' <=> (Logged(d) \/ (d = c /\ n > 0))
    BY <1>2
  <2>1. Logged(d) => Logged(d)'
    BY <1>1, <1>2, <1>4 DEF Logged
  <2>2. n > 0 => Logged(c)'
    <3>1. n > 0 => L + 1 \in DOMAIN log' \ (1..L)
      BY <1>3, <1>4
    <3>2. QED
      BY <1>6, <3>1 DEF Logged
  <2>3. ASSUME NEW i \in DOMAIN log', log'[i].call = d
        PROVE  Logged(d) \/ (d = c /\ n > 0)
    <3>1. CASE i \in 1..L
      BY <1>1, <1>2, <1>4, <2>3, <3>1 DEF Logged
    <3>2. CASE i \notin 1..L
      BY <1>3, <1>4, <1>6, <2>3, <3>2
    <3>3. QED
      BY <3>1, <3>2
  <2>4. QED
    BY <2>1, <2>2, <2>3 DEF Logged
<1>8. OrderedAsAnswered'
  <2> SUFFICES ASSUME NEW i \in DOMAIN log', NEW j \in DOMAIN log',
                      log'[i].call \in before[log'[j].call]
               PROVE  i < j
    BY DEF OrderedAsAnswered
  <2>1. CASE i \in 1..L /\ j \in 1..L
    BY <1>1, <1>2, <1>4, <2>1 DEF IInv, OrderedAsAnswered
  <2>2. CASE i \in 1..L /\ j \notin 1..L
    BY <1>3, <1>4, <2>2
  <2>3. CASE i \notin 1..L /\ j \in 1..L
    <3>1. /\ log[j].call \in Calls /\ Logged(log[j].call)
          /\ c \in before[log[j].call]
      BY <1>1, <1>2, <1>4, <1>6, <2>3 DEF Logged
    <3>2. QED
      BY <3>1 DEF IInv, BeforeInv
  <2>4. CASE i \notin 1..L /\ j \notin 1..L
    <3>1. c \in before[c]
      BY <1>6, <2>4
    <3>2. QED
      BY <3>1 DEF IInv, BeforeInv
  <2>5. QED
    BY <2>1, <2>2, <2>3, <2>4
<1>9. ASSUME NEW i \in DOMAIN log', NEW j \in DOMAIN log', log'[i] = log'[j]
      PROVE  i = j
  <2>1. CASE i \in 1..L /\ j \in 1..L
    BY <1>1, <1>2, <1>4, <1>9, <2>1 DEF IInv, TransactionsAreWhole
  <2>2. CASE i \in 1..L /\ j \notin 1..L
    BY <1>4, <1>5, <1>6, <1>9, <2>2
  <2>3. CASE i \notin 1..L /\ j \in 1..L
    BY <1>4, <1>5, <1>6, <1>9, <2>3
  <2>4. CASE i \notin 1..L /\ j \notin 1..L
    <3>1. f + i - L = f + j - L
      BY <1>6, <1>9, <2>4
    <3>2. QED
      BY <1>3, <1>4, <3>1
  <2>5. QED
    BY <2>1, <2>2, <2>3, <2>4
<1>10. ASSUME NEW i \in DOMAIN log', NEW d, d = log'[i].call
       PROVE  /\ log'[i].index < Len(Body(d)) =>
                   /\ i + 1 \in DOMAIN log'
                   /\ log'[i + 1] = [call |-> d, index |-> log'[i].index + 1]
              /\ log'[i].index > 1 /\ Kind(d) = "batch" =>
                   i > 1 /\ log'[i - 1] = [call |-> d, index |-> log'[i].index - 1]
  <2>1. CASE i \in 1..L
    <3>1. log'[i] = log[i] /\ i \in DOMAIN log /\ d = log[i].call
      BY <1>1, <1>2, <1>4, <1>10, <2>1
    <3>2. /\ log[i].index < Len(Body(d)) =>
               i + 1 \in DOMAIN log /\ log[i + 1] = [call |-> d, index |-> log[i].index + 1]
          /\ log[i].index > 1 /\ Kind(d) = "batch" =>
               i > 1 /\ log[i - 1] = [call |-> d, index |-> log[i].index - 1]
      BY <3>1 DEF IInv, TransactionsAreWhole
    <3>3. i > 1 => i - 1 \in 1..L
      BY <1>3, <2>1
    <3>4. QED
      BY <1>1, <1>2, <1>4, <3>1, <3>2, <3>3
  <2>2. CASE i \notin 1..L
    <3>1. /\ d = c /\ log'[i].index = f + i - L /\ i \in 1..(L + n)
          /\ i - L \in 1..n /\ i \in Nat
      BY <1>3, <1>4, <1>6, <1>10, <2>2
    <3>2. ASSUME log'[i].index < Len(Body(d))
          PROVE  /\ i + 1 \in DOMAIN log'
                 /\ log'[i + 1] = [call |-> d, index |-> log'[i].index + 1]
      <4>1. f + i - L < f + n
        BY <1>2, <3>1, <3>2
      <4>2. i + 1 \in DOMAIN log' \ (1..L)
        BY <1>3, <1>4, <2>2, <3>1, <4>1
      <4>3. log'[i + 1] = [call |-> c, index |-> f + (i + 1) - L]
        BY <1>4, <4>2
      <4>4. f + (i + 1) - L = (f + i - L) + 1
        BY <1>3, <3>1
      <4>5. QED
        BY <3>1, <4>2, <4>3, <4>4
    <3>3. ASSUME log'[i].index > 1, Kind(d) = "batch"
          PROVE  i > 1 /\ log'[i - 1] = [call |-> d, index |-> log'[i].index - 1]
      <4>1. f = 0 /\ i - L > 1
        BY <1>2, <1>3, <3>1, <3>3
      <4>2. i - 1 \in DOMAIN log' \ (1..L)
        BY <1>3, <1>4, <3>1, <4>1
      <4>3. log'[i - 1] = [call |-> c, index |-> f + (i - 1) - L]
        BY <1>4, <4>2
      <4>4. f + (i - 1) - L = (f + i - L) - 1 /\ i > 1
        BY <1>3, <3>1, <4>1
      <4>5. QED
        BY <3>1, <4>3, <4>4
    <3>4. QED
      BY <3>2, <3>3
  <2>3. QED
    BY <2>1, <2>2
<1>11. QED
  BY <1>4, <1>7, <1>8, <1>9, <1>10

LEMMA CommitIsWhole ==
    ASSUME IInv, NEW t \in Threads, NEW c \in Calls, c = current[t],
           log' = Committed(t), UNCHANGED before,
           first[t] + done[t] = Len(Body(c)),
           Kind(c) # "migrate" => first[t] = 0,
           answer'[c] # "error",
           \A d \in Calls \ {c} : answer'[d] = answer[d]
    PROVE  TransactionsAreWhole'
<1>1. /\ \A d \in Calls : Logged(d)' <=> (Logged(d) \/ (d = c /\ done[t] > 0))
      /\ \A i, j \in DOMAIN log' : log'[i] = log'[j] => i = j
      /\ \A i \in DOMAIN log' :
           LET d == log'[i].call IN
           /\ log'[i].index < Len(Body(d)) =>
                /\ i + 1 \in DOMAIN log'
                /\ log'[i + 1] = [call |-> d, index |-> log'[i].index + 1]
           /\ log'[i].index > 1 /\ Kind(d) = "batch" =>
                i > 1 /\ log'[i - 1] = [call |-> d, index |-> log'[i].index - 1]
  BY CommitKeeps
<1>2. ASSUME NEW d \in Calls
      PROVE  /\ answer'[d] = "ok" /\ Kind(d) # "migrate" /\ Body(d) # <<>> =>
                  Logged(d)' \/ Body(d) = <<"read">>
             /\ answer'[d] = "error" => ~Logged(d)'
  <2>1. CASE d = c
    <3>1. Kind(d) # "migrate" /\ Body(d) # <<>> => done[t] > 0
      <4>1. Body(d) \in Seq(Statements) /\ first[t] \in Nat /\ done[t] \in Nat
        BY RequestType DEF IInv, TypeOK
      <4>2. Body(d) # <<>> => Len(Body(d)) \in Nat \ {0}
        BY <4>1, EmptySeq
      <4>3. QED
        BY <2>1, <4>1, <4>2
    <3>2. QED
      BY <1>1, <2>1, <3>1
  <2>2. CASE d # c
    <3>1. answer'[d] = answer[d] /\ (Logged(d)' <=> Logged(d))
      BY <1>1, <2>2
    <3>2. /\ answer[d] = "ok" /\ Kind(d) # "migrate" /\ Body(d) # <<>> =>
               Logged(d) \/ Body(d) = <<"read">>
          /\ answer[d] = "error" => ~Logged(d)
      BY DEF IInv, TransactionsAreWhole
    <3>3. QED
      BY <3>1, <3>2
  <2>3. QED
    BY <2>1, <2>2
<1>3. QED
  BY <1>1, <1>2 DEF TransactionsAreWhole

\* A commit of statements leaves the migrations as they were.
LEMMA StatementsKeepVersion ==
    ASSUME IInv, NEW t \in Threads, NEW c \in Calls, c = current[t],
           Kind(c) # "migrate", log' = Committed(t), UNCHANGED version,
           \A d \in Calls \ {c} : answer'[d] = answer[d],
           \A u \in Threads : at'[u] = "migrates" =>
             at[u] = "migrates" /\ first'[u] = first[u]
    PROVE  VersionHeld' /\ MigrationsRunOnce'
<1>1. DOMAIN log = 1..Len(log)
  BY LogDomain DEF IInv
<1>2. /\ \A i \in 1..Len(log) : i \in DOMAIN log' /\ log'[i] = log[i]
      /\ \A i \in DOMAIN log' \ (1..Len(log)) : log'[i].call = c
  <2>1. /\ \A i \in 1..Len(log) : i \in DOMAIN log' /\ log'[i] = log[i]
        /\ \A i \in DOMAIN log' \ (1..Len(log)) :
             /\ i - Len(log) \in 1..done[t]
             /\ log'[i] = [call |-> current[t], index |-> first[t] + i - Len(log)]
    BY LogGrows DEF IInv
  <2>2. QED
    BY <2>1
<1>3. /\ \A i \in DOMAIN log' :
           Migration(i)' => i \in DOMAIN log /\ Migration(i) /\ log'[i] = log[i]
      /\ \A i \in DOMAIN log :
           Migration(i) => i \in DOMAIN log' /\ Migration(i)' /\ log'[i] = log[i]
  BY <1>1, <1>2 DEF Migration
<1>4. OneShard' => OneShard
  BY <1>3 DEF OneShard, Migration
<1>5. VersionHeld'
  <2>1. ASSUME NEW u \in Threads, at'[u] = "migrates",
               \A i \in DOMAIN log' : Migration(i)' => Shard[Connection(log'[i].call)] = u
        PROVE  first'[u] = version
    <3>1. \A i \in DOMAIN log : Migration(i) => Shard[Connection(log[i].call)] = u
      BY <1>3, <2>1
    <3>2. QED
      BY <2>1, <3>1 DEF IInv, VersionHeld
  <2>2. ASSUME OneShard', NEW i \in DOMAIN log', Migration(i)'
        PROVE  log'[i].index <= version
    BY <1>3, <1>4, <2>2 DEF IInv, VersionHeld
  <2>3. QED
    BY <2>1, <2>2 DEF VersionHeld
<1>6. MigrationsRunOnce'
  <2>1. ASSUME OneShard', NEW i \in DOMAIN log', NEW j \in DOMAIN log',
               Migration(i)', Migration(j)', i < j
        PROVE  log'[i].index < log'[j].index
    BY <1>3, <1>4, <2>1 DEF IInv, MigrationsRunOnce
  <2>2. ASSUME OneShard', NEW d \in Calls, Kind(d) = "migrate", answer'[d] = "ok"
        PROVE  Len(Body(d)) <= version
    BY <1>4, <2>2 DEF IInv, MigrationsRunOnce
  <2>3. QED
    BY <2>1, <2>2 DEF MigrationsRunOnce
<1>7. QED
  BY <1>5, <1>6

\* A migration that commits has found the version it started from, or
\* another shard has migrated meanwhile.
LEMMA MigrationCommits ==
    ASSUME IInv, NEW t \in Threads, NEW c \in Calls, c = current[t],
           Kind(c) = "migrate", at[t] = "migrates", at'[t] # "migrates",
           log' = Committed(t), version' = Len(Body(c)),
           first[t] + done[t] = Len(Body(c)),
           \A d \in Calls \ {c} : answer'[d] = answer[d],
           \A u \in Threads : at'[u] = "migrates" =>
             at[u] = "migrates" /\ first'[u] = first[u]
    PROVE  VersionHeld' /\ MigrationsRunOnce'
<1>1. PICK L, n, f : L = Len(log) /\ n = done[t] /\ f = first[t]
  OBVIOUS
<1>2. /\ DOMAIN log = 1..L /\ L \in Nat /\ n \in Nat /\ f \in Nat /\ f < Len(Body(c))
      /\ Len(Body(c)) \in Nat /\ version \in Nat
      /\ \A i \in 1..L : log[i].index \in Nat
  <2>1. TypeOK /\ ServingInv(t)
    BY DEF IInv
  <2>2. n \in Nat /\ f \in Nat /\ version \in Nat
    BY <1>1, <2>1 DEF TypeOK
  <2>3. f < Len(Body(c))
    BY <1>1, <2>1 DEF ServingInv
  <2>4. Len(Body(c)) \in Nat
    BY RequestType
  <2>5. /\ DOMAIN log = 1..L /\ L \in Nat
        /\ \A i \in 1..L : log[i].index \in Nat
    BY <1>1, <2>1, LogDomain
  <2>6. QED
    BY <2>2, <2>3, <2>4, <2>5
<1>3. n > 0 /\ version' = f + n /\ f + n \in Nat
  BY <1>1, <1>2
<1>4. /\ DOMAIN log' = 1..(L + n)
      /\ \A i \in 1..L : i \in DOMAIN log' /\ log'[i] = log[i]
      /\ \A i \in DOMAIN log' \ (1..L) :
           i - L \in 1..n /\ log'[i] = [call |-> c, index |-> f + i - L]
  BY <1>1, LogGrows DEF IInv
<1>5. /\ \A i \in 1..L : Migration(i)' <=> Migration(i)
      /\ \A i \in DOMAIN log' \ (1..L) :
           /\ Migration(i)' /\ log'[i].call = c /\ log'[i].index = f + i - L
           /\ i \in Int /\ i > L
  <2>1. \A i \in DOMAIN log' \ (1..L) :
          log'[i].call = c /\ log'[i].index = f + i - L /\ i \in Int /\ i > L
    BY <1>2, <1>4
  <2>2. QED
    BY <1>2, <1>4, <2>1 DEF Migration
<1>6. L + 1 \in DOMAIN log' \ (1..L)
  BY <1>2, <1>3, <1>4
<1>7. Shard[Connection(c)] = t
  BY RequestType DEF IInv, ServingInv
<1>8. ASSUME NEW u \in Threads, at'[u] = "migrates"
      PROVE  ~\A i \in DOMAIN log' : Migration(i)' => Shard[Connection(log'[i].call)] = u
  BY <1>5, <1>6, <1>7, <1>8
<1>9. ASSUME OneShard'
      PROVE  /\ OneShard /\ first[t] = version /\ version < version'
             /\ \A i \in 1..L : Migration(i) => log[i].index <= version
  <2>1. \A i \in 1..L : Migration(i) => Shard[Connection(log[i].call)] = t
    BY <1>4, <1>5, <1>6, <1>7, <1>9 DEF OneShard, Migration
  <2>2. OneShard
    BY <1>2, <2>1 DEF OneShard, Migration
  <2>3. first[t] = version
    BY <1>2, <2>1 DEF IInv, VersionHeld
  <2>4. QED
    BY <1>1, <1>2, <1>3, <2>2, <2>3 DEF IInv, VersionHeld
<1>10. VersionHeld'
  <2>1. ASSUME OneShard', NEW i \in DOMAIN log', Migration(i)'
        PROVE  log'[i].index <= version'
    <3>1. CASE i \in 1..L
      BY <1>2, <1>3, <1>4, <1>5, <1>9, <2>1, <3>1
    <3>2. CASE i \notin 1..L
      BY <1>2, <1>3, <1>4, <1>5, <3>2
    <3>3. QED
      BY <3>1, <3>2
  <2>2. QED
    BY <1>8, <2>1 DEF VersionHeld
<1>11. MigrationsRunOnce'
  <2> SUFFICES ASSUME OneShard'
               PROVE  /\ \A i, j \in DOMAIN log' :
                           Migration(i)' /\ Migration(j)' /\ i < j =>
                             log'[i].index < log'[j].index
                      /\ \A d \in Calls :
                           Kind(d) = "migrate" /\ answer'[d] = "ok" =>
                             Len(Body(d)) <= version'
    BY DEF MigrationsRunOnce
  <2>1. ASSUME NEW i \in DOMAIN log', NEW j \in DOMAIN log',
               Migration(i)', Migration(j)', i < j
        PROVE  log'[i].index < log'[j].index
    <3>1. CASE i \in 1..L /\ j \in 1..L
      <4>1. /\ Migration(i) /\ Migration(j) /\ log'[i] = log[i] /\ log'[j] = log[j]
            /\ i \in DOMAIN log /\ j \in DOMAIN log
        BY <1>2, <1>4, <1>5, <2>1, <3>1
      <4>2. QED
        BY <1>9, <2>1, <4>1 DEF IInv, MigrationsRunOnce
    <3>2. CASE i \in 1..L /\ j \notin 1..L
      <4>1. log'[i].index <= version /\ log'[i].index \in Nat
        BY <1>2, <1>4, <1>5, <1>9, <2>1, <3>2
      <4>2. log'[j].index = f + j - L /\ j \in Int /\ j > L /\ f = version
        BY <1>1, <1>5, <1>9, <3>2
      <4>3. QED
        BY <1>2, <4>1, <4>2
    <3>3. CASE i \notin 1..L /\ j \in 1..L
      BY <1>2, <1>5, <2>1, <3>3
    <3>4. CASE i \notin 1..L /\ j \notin 1..L
      BY <1>2, <1>5, <2>1, <3>4
    <3>5. QED
      BY <3>1, <3>2, <3>3, <3>4
  <2>2. ASSUME NEW d \in Calls, Kind(d) = "migrate", answer'[d] = "ok"
        PROVE  Len(Body(d)) <= version'
    <3>1. CASE d = c
      <4>1. Len(Body(d)) = version'
        BY <3>1
      <4>2. QED
        BY <1>3, <4>1
    <3>2. CASE d # c
      <4>1. Len(Body(d)) <= version /\ Len(Body(d)) \in Nat
        BY <1>9, <2>2, <3>2, RequestType DEF IInv, MigrationsRunOnce
      <4>2. QED
        BY <1>2, <1>3, <1>9, <4>1
    <3>3. QED
      BY <3>1, <3>2
  <2>3. QED
    BY <2>1, <2>2
<1>12. QED
  BY <1>10, <1>11

LEMMA CommitsStep ==
    ASSUME IInv, NEW t \in Threads, ExecCommits(t) \/ BatchCommits(t) \/ MigrateCommits(t)
    PROVE  IInv'
<1>1. PICK c \in Calls : c = current[t]
  BY DEF IInv, TypeOK, ExecCommits, BatchCommits, MigrateCommits, Serves
<1>2. /\ Ends(t, "ok") /\ log' = Committed(t) /\ UNCHANGED connections
      /\ at[t] \in {"runs", "steps", "migrates"}
  BY DEF ExecCommits, BatchCommits, MigrateCommits, Serves
<1>3. /\ at' = [at EXCEPT ![t] = "idle"] /\ current' = [current EXCEPT ![t] = NoCall]
      /\ first' = [first EXCEPT ![t] = 0] /\ done' = [done EXCEPT ![t] = 0]
      /\ writer' = IF writer = t THEN Nobody ELSE writer
      /\ UNCHANGED <<sql_rx, thread_rx, connections, crashes>>
  BY <1>1, <1>2 DEF Ends, queues
<1>4. PICK a \in {"ok"} : Answers(c, a)
  BY <1>1, <1>2 DEF Ends
<1>5. /\ call' \in [Calls -> {"new", "waits", "dropped", "answered", "lost"}]
      /\ answer' \in [Calls -> Answer \cup {NoAnswer}]
      /\ before' = before
      /\ Settled(c)' /\ answer'[c] \in {a, NoAnswer}
      /\ answer'[c] # NoAnswer => call'[c] = "answered"
      /\ \A d \in Calls \ {c} : call'[d] = call[d] /\ answer'[d] = answer[d]
  BY <1>4, AnswersType DEF IInv, Answer
<1>6. /\ ServingInv(t) /\ c # NoCall /\ Len(Body(c)) \in Nat /\ version \in Nat
      /\ first[t] \in Nat /\ done[t] \in Nat
  BY RequestType DEF IInv, TypeOK
<1>7. Pending(c) /\ answer'[c] # "error"
  BY <1>1, <1>2, <1>5, <1>6, SqlAssumption DEF ServingInv, Answer
<1>8. /\ first[t] + done[t] = Len(Body(c))
      /\ Kind(c) = "migrate" <=> at[t] = "migrates"
      /\ Kind(c) # "migrate" => first[t] = 0
  <2>1. CASE ExecCommits(t)
    BY <1>1, <1>6, <2>1, RequestType DEF ServingInv, ExecCommits, Serves
  <2>2. CASE BatchCommits(t)
    BY <1>1, <1>6, <2>2 DEF ServingInv, BatchCommits, Serves, MoreToRun
  <2>3. CASE MigrateCommits(t)
    BY <1>1, <1>6, <2>3 DEF ServingInv, MigrateCommits, Serves, MoreToRun
  <2>4. QED
    BY <2>1, <2>2, <2>3
<1>9. version' = IF Kind(c) = "migrate" THEN Len(Body(c)) ELSE version
  BY <1>1, <1>8 DEF ExecCommits, BatchCommits, MigrateCommits, Serves
<1>10. Kind(c) = "batch" => first[t] = 0
  BY <1>8
<1>11. /\ log' \in Seq(Entries)
       /\ \A d \in Calls : Logged(d)' <=> (Logged(d) \/ (d = c /\ done[t] > 0))
       /\ OrderedAsAnswered'
  BY <1>1, <1>2, <1>5, <1>8, <1>10, CommitKeeps
<1>12. /\ TypeOK' /\ QueueInv' /\ OnePlace' /\ \A u \in Threads : ServingInv(u)'
       /\ AnswerInv' /\ BeforeInv'
  BY <1>1, <1>3, <1>5, <1>6, <1>7, <1>9, <1>11, LetsGo
<1>13. TransactionsAreWhole'
  BY <1>1, <1>2, <1>5, <1>7, <1>8, CommitIsWhole
<1>14. /\ at'[t] # "migrates"
       /\ \A u \in Threads : at'[u] = "migrates" =>
            at[u] = "migrates" /\ first'[u] = first[u]
  BY <1>3 DEF IInv, TypeOK
<1>15. VersionHeld' /\ MigrationsRunOnce'
  <2>1. CASE Kind(c) = "migrate"
    BY <1>1, <1>2, <1>5, <1>8, <1>9, <1>14, <2>1, MigrationCommits
  <2>2. CASE Kind(c) # "migrate"
    BY <1>1, <1>2, <1>5, <1>9, <1>14, <2>2, StatementsKeepVersion
  <2>3. QED
    BY <2>1, <2>2
<1>16. QED
  BY <1>11, <1>12, <1>13, <1>15 DEF IInv

\* The commit that comes after an error of its own call.
LEMMA ResetStep ==
    ASSUME IInv, NEW t \in Threads, Reset(t)
    PROVE  IInv'
<1>1. /\ at[t] = "resets" /\ log' = Committed(t)
      /\ writer' = IF writer = t THEN Nobody ELSE writer
      /\ at' = [at EXCEPT ![t] = "idle"] /\ current' = [current EXCEPT ![t] = NoCall]
      /\ done' = [done EXCEPT ![t] = 0]
      /\ UNCHANGED <<sql_rx, thread_rx, connections, first, version, call, answer, before,
                     crashes>>
  BY DEF Reset, queues, callVars
<1>2. ServingInv(t) /\ current[t] \in Calls
  BY <1>1 DEF IInv, TypeOK, ServingInv
<1>3. PICK c \in Calls : c = current[t]
  BY <1>2
<1>4. /\ Settled(c) /\ answer[c] # "error" /\ Kind(c) = "exec"
      /\ first[t] = 0 /\ done[t] = 1 /\ Len(Body(c)) = 1 /\ c # NoCall
      /\ first[t] + done[t] = Len(Body(c))
  <2>1. Settled(c) /\ answer[c] # "error" /\ Kind(c) = "exec" /\ c # NoCall
    BY <1>1, <1>2, <1>3, RequestType DEF ServingInv
  <2>2. first[t] = 0 /\ done[t] = 1
    BY <1>1, <1>2 DEF ServingInv
  <2>3. QED
    BY <2>1, <2>2, RequestType
<1>5. first' = [first EXCEPT ![t] = 0]
  BY <1>1, <1>4 DEF IInv, TypeOK
<1>6. /\ log' \in Seq(Entries)
      /\ \A d \in Calls : Logged(d)' <=> (Logged(d) \/ (d = c /\ done[t] > 0))
      /\ OrderedAsAnswered'
  <2>1. UNCHANGED before /\ (Kind(c) = "batch" => first[t] = 0)
    BY <1>1, <1>4
  <2>2. QED
    BY <1>1, <1>3, <1>4, <2>1, CommitKeeps
<1>7. /\ call' \in [Calls -> {"new", "waits", "dropped", "answered", "lost"}]
      /\ answer' \in [Calls -> Answer \cup {NoAnswer}] /\ version' \in Nat
      /\ Settled(c)' /\ (answer'[c] # NoAnswer => call'[c] = "answered")
  BY <1>1, <1>4 DEF IInv, TypeOK, AnswerInv, Settled
<1>8. /\ TypeOK' /\ QueueInv' /\ OnePlace' /\ \A u \in Threads : ServingInv(u)'
      /\ AnswerInv' /\ BeforeInv'
  BY <1>1, <1>3, <1>5, <1>6, <1>7, LetsGo
<1>9. TransactionsAreWhole'
  <2>1. /\ UNCHANGED before /\ (Kind(c) # "migrate" => first[t] = 0)
        /\ answer'[c] # "error" /\ \A d \in Calls \ {c} : answer'[d] = answer[d]
    BY <1>1, <1>4
  <2>2. QED
    BY <1>1, <1>3, <1>4, <2>1, CommitIsWhole
<1>10. VersionHeld' /\ MigrationsRunOnce'
  <2>1. \A u \in Threads : at'[u] = "migrates" => at[u] = "migrates" /\ first'[u] = first[u]
    BY <1>1 DEF IInv, TypeOK
  <2>2. QED
    BY <1>1, <1>3, <1>4, <2>1, StatementsKeepVersion
<1>11. QED
  BY <1>6, <1>8, <1>9, <1>10 DEF IInv

-----------------------------------------------------------------------------
LEMMA CrashStep ==
    ASSUME IInv, Crash
    PROVE  IInv'
<1>1. /\ sql_rx' = <<>> /\ thread_rx' = [t \in Threads |-> <<>>]
      /\ connections' = [t \in Threads |-> {}]
      /\ at' = [t \in Threads |-> "starts"] /\ current' = [t \in Threads |-> NoCall]
      /\ first' = [t \in Threads |-> 0] /\ done' = [t \in Threads |-> 0]
      /\ writer' = Nobody /\ crashes' = crashes + 1 /\ crashes < MaxCrashes
      /\ call' = [c \in Calls |-> IF call[c] \in {"waits", "dropped"} THEN "lost" ELSE call[c]]
      /\ UNCHANGED <<log, version, answer, before>>
  BY DEF Crash
<1>2. <<>> \in Seq(Calls) /\ Len(<<>>) = 0
  BY EmptySeq
<1>3. TypeOK'
  <2>1. sql_rx' \in Seq(Calls) /\ thread_rx' \in [Threads -> Seq(Calls)]
    BY <1>1, <1>2
  <2>2. crashes' \in 0..MaxCrashes
    BY <1>1, SqlAssumption DEF IInv, TypeOK
  <2>3. call' \in [Calls -> {"new", "waits", "dropped", "answered", "lost"}]
    BY <1>1 DEF IInv, TypeOK
  <2>4. QED
    BY <1>1, <2>1, <2>2, <2>3 DEF IInv, TypeOK
<1>4. QueueInv' /\ OnePlace'
  BY <1>1, <1>2 DEF QueueInv, OnePlace
<1>5. \A t \in Threads : ServingInv(t)'
  BY <1>1 DEF ServingInv
<1>6. AnswerInv'
  <2>1. ASSUME NEW c \in Calls
        PROVE  /\ answer[c] # NoAnswer => call'[c] = "answered"
               /\ Logged(c) => call'[c] \in {"answered", "lost"}
    <3>1. /\ answer[c] # NoAnswer => call[c] = "answered"
          /\ Logged(c) => call[c] \in {"answered", "lost"}
      BY DEF IInv, AnswerInv, Settled
    <3>2. call'[c] = IF call[c] \in {"waits", "dropped"} THEN "lost" ELSE call[c]
      BY <1>1
    <3>3. QED
      BY <3>1, <3>2
  <2>2. QED
    BY <1>1, <2>1 DEF AnswerInv, Logged, Settled
<1>7. BeforeInv'
  <2>1. NoCall \notin Calls /\ \A c \in Calls : before[c] \subseteq Calls
    BY SqlAssumption DEF IInv, TypeOK
  <2>2. QED
    BY <1>1, <2>1 DEF IInv, BeforeInv, Logged
<1>8. VersionHeld'
  BY <1>1, VersionKept
<1>9. TransactionsAreWhole' /\ MigrationsRunOnce' /\ OrderedAsAnswered'
  BY <1>1, WholeKept, MigrationsKept, OrderKept
<1>10. QED
  BY <1>3, <1>4, <1>5, <1>6, <1>7, <1>8, <1>9 DEF IInv

LEMMA InitInv == Init => IInv
<1> SUFFICES ASSUME Init PROVE IInv
  OBVIOUS
<1>1. <<>> \in Seq(Calls) /\ <<>> \in Seq(Entries) /\ Len(<<>>) = 0 /\ DOMAIN <<>> = {}
  BY EmptySeq
<1>2. TypeOK
  <2>1. sql_rx \in Seq(Calls) /\ thread_rx \in [Threads -> Seq(Calls)] /\ log \in Seq(Entries)
    BY <1>1 DEF Init
  <2>2. call \in [Calls -> {"new", "waits", "dropped", "answered", "lost"}]
    BY DEF Init
  <2>3. crashes \in 0..MaxCrashes
    BY SqlAssumption DEF Init
  <2>4. QED
    BY <2>1, <2>2, <2>3 DEF Init, TypeOK, Entries
<1>3. QueueInv /\ OnePlace
  BY <1>1 DEF Init, QueueInv, OnePlace
<1>4. ASSUME NEW t \in Threads PROVE ServingInv(t)
  <2>1. at[t] = "starts" /\ current[t] = NoCall /\ first[t] = 0 /\ done[t] = 0
    BY DEF Init
  <2>2. QED
    BY <2>1 DEF ServingInv
<1>5. \A c : ~Logged(c)
  BY <1>1 DEF Init, Logged
<1>6. AnswerInv /\ BeforeInv
  BY <1>5 DEF Init, AnswerInv, BeforeInv
<1>7. VersionHeld /\ OrderedAsAnswered
  BY <1>1 DEF Init, VersionHeld, OrderedAsAnswered
<1>8. \A c \in Calls : answer[c] = NoAnswer /\ NoAnswer \notin {"ok", "error"}
  BY SqlAssumption DEF Init, Answer
<1>9. TransactionsAreWhole /\ MigrationsRunOnce
  BY <1>1, <1>8 DEF Init, TransactionsAreWhole, MigrationsRunOnce
<1>10. QED
  BY <1>2, <1>3, <1>4, <1>6, <1>7, <1>9 DEF IInv

LEMMA StutterStep == IInv /\ UNCHANGED vars => IInv'
<1> SUFFICES ASSUME IInv, UNCHANGED vars PROVE IInv'
  OBVIOUS
<1>1. UNCHANGED <<sql_rx, thread_rx, connections, at, current, first, done, writer, log,
                  version, call, answer, before, crashes>>
  BY DEF vars, queues, threadVars, database, callVars
<1>2. TypeOK'
  BY <1>1 DEF IInv, TypeOK
<1>3. QueueInv' /\ OnePlace' /\ AnswerInv' /\ BeforeInv'
  BY <1>1 DEF IInv, QueueInv, OnePlace, AnswerInv, BeforeInv, Logged, Pending, Settled
<1>4. ASSUME NEW t \in Threads PROVE ServingInv(t)'
  <2>1. ServingInv(t) /\ (Logged(current[t])' <=> Logged(current[t]))
    BY <1>1 DEF IInv, Logged
  <2>2. QED
    BY <1>1, <2>1 DEF ServingInv, Pending, Settled
<1>5. VersionHeld' /\ TransactionsAreWhole' /\ MigrationsRunOnce' /\ OrderedAsAnswered'
  BY <1>1, VersionKept, WholeKept, MigrationsKept, OrderKept
<1>6. QED
  BY <1>2, <1>3, <1>4, <1>5 DEF IInv

LEMMA NextStep == IInv /\ [Next]_vars => IInv'
<1> SUFFICES ASSUME IInv, [Next]_vars PROVE IInv'
  OBVIOUS
<1>1. ASSUME NEW c \in Calls, Exec(c) \/ Batch(c) \/ Migrate(c) PROVE IInv'
  BY <1>1, SendsStep
<1>2. ASSUME NEW c \in Calls, BindingNotFound(c) \/ RuntimeShutdown(c) PROVE IInv'
  BY <1>2, RefusalsStep
<1>3. ASSUME NEW c \in Calls, Drop(c) PROVE IInv'
  BY <1>3, DropStep
<1>4. ASSUME NEW t \in Threads, Thread(t) PROVE IInv'
  <2>1. CASE Start(t) \/ StartFails(t)
    BY <2>1, StartStep
  <2>2. ASSUME NEW c \in Calls, Take(t, c) PROVE IInv'
    BY <2>2, TakeStep
  <2>3. ASSUME NEW c \in Calls, ConnectFails(t, c) PROVE IInv'
    BY <2>3, ConnectFailsStep
  <2>4. CASE ExecWrites(t) \/ BatchRuns(t) \/ MigrateRuns(t)
    BY <2>4, WritesStep
  <2>5. CASE \/ ExecReads(t) \/ ExecFails(t) \/ BatchFails(t) \/ MigrateFails(t)
             \/ ReadVersion(t)
    BY <2>5, FailuresStep
  <2>6. CASE ExecCommits(t) \/ BatchCommits(t) \/ MigrateCommits(t)
    BY <2>6, CommitsStep
  <2>7. CASE Undecodable(t)
    BY <2>7, UndecodableStep
  <2>8. CASE Reset(t)
    BY <2>8, ResetStep
  <2>9. QED
    BY <1>4, <2>1, <2>2, <2>3, <2>4, <2>5, <2>6, <2>7, <2>8 DEF Thread
<1>5. CASE Crash
  BY <1>5, CrashStep
<1>6. CASE UNCHANGED vars
  BY <1>6, StutterStep
<1>7. QED
  BY <1>1, <1>2, <1>3, <1>4, <1>5, <1>6 DEF Next

THEOREM Invariant == Spec => []IInv
BY InitInv, NextStep, PTL DEF Spec

\* The state of the threads, the database and the calls is well typed.
THEOREM TypeCorrect == Spec => []TypeOK
<1>1. IInv => TypeOK
  BY DEF IInv
<1>2. QED
  BY <1>1, Invariant, PTL

\* Batches and migrations are in the database whole and once, or not at all,
\* as their callers are told.
THEOREM Whole == Spec => []TransactionsAreWhole
<1>1. IInv => TransactionsAreWhole
  BY DEF IInv
<1>2. QED
  BY <1>1, Invariant, PTL

\* The thread of a shard applies each migration once, in order.
THEOREM Once == Spec => []MigrationsRunOnce
<1>1. IInv => MigrationsRunOnce
  BY DEF IInv
<1>2. QED
  BY <1>1, Invariant, PTL

\* A call takes effect after the calls that were answered before it.
THEOREM Ordered == Spec => []OrderedAsAnswered
<1>1. IInv => OrderedAsAnswered
  BY DEF IInv
<1>2. QED
  BY <1>1, Invariant, PTL

-----------------------------------------------------------------------------
(* Refinement: log, version, Open, call and answer behave as AtomicSql *)

\* A transaction has run nothing but writes.
RanWrites ==
    \A t \in Threads :
      current[t] # NoCall /\ at[t] \in {"runs", "migrates"} =>
        \A i \in first[t] + 1 .. first[t] + done[t] : Body(current[t])[i] = "write"

\* A step of one thread, which leaves it without a call, outside of its
\* transaction, or at the start of it.
LEMMA RanKept ==
    ASSUME RanWrites, NEW t \in Threads,
           \A u \in Threads \ {t} : /\ at'[u] = at[u] /\ current'[u] = current[u]
                                    /\ first'[u] = first[u] /\ done'[u] = done[u],
           \/ current'[t] = NoCall
           \/ at'[t] \notin {"runs", "migrates"}
           \/ done'[t] = 0 /\ first'[t] \in Nat
    PROVE  RanWrites'
<1>1. SUFFICES ASSUME NEW u \in Threads, current'[u] # NoCall, at'[u] \in {"runs", "migrates"},
                      NEW i \in first'[u] + 1 .. first'[u] + done'[u]
               PROVE  Body(current'[u])[i] = "write"
  BY DEF RanWrites
<1>2. ~(done'[u] = 0 /\ first'[u] \in Nat)
  BY <1>1
<1>3. at'[u] = at[u] /\ current'[u] = current[u] /\ first'[u] = first[u] /\ done'[u] = done[u]
  BY <1>1, <1>2
<1>4. QED
  BY <1>1, <1>3 DEF RanWrites

LEMMA InitRan == Init => RanWrites
BY DEF Init, RanWrites

\* A statement that runs in a transaction is a write.
LEMMA RunsRan ==
    ASSUME IInv, RanWrites, NEW t \in Threads, ExecWrites(t) \/ BatchRuns(t) \/ MigrateRuns(t)
    PROVE  RanWrites'
<1>1. /\ done' = [done EXCEPT ![t] = @ + 1] /\ UNCHANGED <<current, first>>
      /\ first[t] \in Nat /\ done[t] \in Nat
      /\ \A u \in Threads \ {t} : at'[u] = at[u] /\ done'[u] = done[u]
      /\ current[t] \in Calls
  BY DEF ExecWrites, BatchRuns, MigrateRuns, RunsWrite, Serves, IInv, TypeOK
<1>2. CASE ExecWrites(t)
  <2>1. at'[t] = "steps"
    BY <1>2 DEF ExecWrites, RunsWrite, IInv, TypeOK
  <2>2. \A u \in Threads \ {t} : /\ at'[u] = at[u] /\ current'[u] = current[u]
                                 /\ first'[u] = first[u] /\ done'[u] = done[u]
    BY <1>1
  <2>3. QED
    BY <2>1, <2>2, RanKept
<1>3. CASE BatchRuns(t) \/ MigrateRuns(t)
  <2>1. /\ done'[t] = done[t] + 1
        /\ at[t] \in {"runs", "migrates"} /\ current[t] # NoCall
    BY <1>1, <1>3 DEF BatchRuns, MigrateRuns, Serves, IInv, TypeOK
  <2>2. Body(current[t])[first[t] + done[t] + 1] = "write"
    <3>1. CASE BatchRuns(t)
      BY <3>1 DEF BatchRuns, Statement
    <3>2. CASE MigrateRuns(t)
      <4>1. /\ Kind(current[t]) = "migrate" /\ MoreToRun(t)
            /\ Body(current[t])[first[t] + done[t] + 1] \in Writes
        BY <3>2 DEF MigrateRuns, RunsWrite, Statement, Serves
      <4>2. /\ DOMAIN Body(current[t]) = 1..Len(Body(current[t]))
            /\ Len(Body(current[t])) \in Nat
        BY <1>1, RequestType
      <4>3. first[t] + done[t] + 1 \in DOMAIN Body(current[t])
        BY <1>1, <4>1, <4>2 DEF MoreToRun
      <4>4. \A i \in DOMAIN Body(current[t]) : Body(current[t])[i] \in {"write", "invalid"}
        BY <1>1, <4>1, SqlAssumption DEF Kind, Body
      <4>5. QED
        BY <4>1, <4>3, <4>4 DEF Writes
    <3>3. QED
      BY <1>3, <3>1, <3>2
  <2>3. \A i \in first[t] + 1 .. first[t] + done'[t] :
          i \in first[t] + 1 .. first[t] + done[t] \/ i = first[t] + done[t] + 1
    BY <1>1, <2>1
  <2>4. \A i \in first[t] + 1 .. first[t] + done[t] : Body(current[t])[i] = "write"
    BY <2>1 DEF RanWrites
  <2>5. \A i \in first[t] + 1 .. first[t] + done'[t] : Body(current[t])[i] = "write"
    BY <2>2, <2>3, <2>4
  <2>6. ASSUME NEW u \in Threads, current'[u] # NoCall, at'[u] \in {"runs", "migrates"}
        PROVE  \A i \in first'[u] + 1 .. first'[u] + done'[u] : Body(current'[u])[i] = "write"
    <3>1. CASE u = t
      BY <1>1, <2>5, <3>1
    <3>2. CASE u # t
      BY <1>1, <2>6, <3>2 DEF RanWrites
    <3>3. QED
      BY <3>1, <3>2
  <2>7. QED
    BY <2>6 DEF RanWrites
<1>4. QED
  BY <1>2, <1>3

LEMMA StepRan == IInv /\ RanWrites /\ [Next]_vars => RanWrites'
<1> SUFFICES ASSUME IInv, RanWrites, [Next]_vars PROVE RanWrites'
  OBVIOUS
<1>2. CASE at' = at /\ current' = current /\ first' = first /\ done' = done
  BY <1>2 DEF RanWrites
<1>3. ASSUME NEW t \in Threads, Thread(t),
             ~(at' = at /\ current' = current /\ first' = first /\ done' = done)
      PROVE  RanWrites'
  <2>1. /\ first[t] \in Nat /\ done[t] \in Nat /\ version \in Nat
        /\ current[t] \in Calls \cup {NoCall} /\ ServingInv(t)
    BY DEF IInv, TypeOK
  <2>2. CASE Start(t) \/ StartFails(t)
    <3>1. /\ current' = current /\ first' = first /\ done' = done
          /\ at'[t] \in {"idle", "stopped"} /\ \A u \in Threads \ {t} : at'[u] = at[u]
      BY <2>2 DEF Start, StartFails, IInv, TypeOK
    <3>2. QED
      BY <3>1, RanKept
  <2>3. ASSUME NEW c \in Calls, Take(t, c) PROVE RanWrites'
    <3>1. /\ first' = first /\ done' = done /\ at[t] = "idle"
          /\ \A u \in Threads \ {t} : at'[u] = at[u] /\ current'[u] = current[u]
      BY <2>3 DEF Take, IInv, TypeOK
    <3>2. done'[t] = 0 /\ first'[t] \in Nat
      BY <2>1, <3>1 DEF ServingInv
    <3>3. QED
      BY <3>1, <3>2, RanKept
  <2>4. CASE ExecWrites(t) \/ BatchRuns(t) \/ MigrateRuns(t)
    BY <2>4, RunsRan
  <2>5. ASSUME NEW a \in Answer, Ends(t, a) PROVE RanWrites'
    <3>1. /\ current'[t] = NoCall
          /\ \A u \in Threads \ {t} : /\ at'[u] = at[u] /\ current'[u] = current[u]
                                     /\ first'[u] = first[u] /\ done'[u] = done[u]
      BY <2>5 DEF Ends, IInv, TypeOK
    <3>2. QED
      BY <3>1, RanKept
  <2>6. CASE \/ ExecReads(t) \/ ExecFails(t) \/ BatchFails(t) \/ MigrateFails(t)
             \/ ExecCommits(t) \/ BatchCommits(t) \/ MigrateCommits(t)
    <3>1. Ends(t, "ok") \/ Ends(t, "error")
      BY <2>6
         DEF ExecReads, ExecFails, BatchFails, MigrateFails, ExecCommits, BatchCommits,
             MigrateCommits, Fails
    <3>2. QED
      BY <2>5, <3>1 DEF Answer
  <2>7. CASE ReadVersion(t)
    <3>1. CASE Ends(t, "ok") \/ Ends(t, "error")
      BY <2>5, <3>1 DEF Answer
    <3>2. CASE ~(Ends(t, "ok") \/ Ends(t, "error"))
      <4>1. /\ first' = [first EXCEPT ![t] = version] /\ at' = [at EXCEPT ![t] = "migrates"]
            /\ current' = current /\ done' = done /\ Serves(t, "migrate", "runs")
        BY <2>7, <3>2 DEF ReadVersion, Fails
      <4>2. done[t] = 0
        BY <2>1, <4>1 DEF ServingInv, Serves
      <4>3. /\ done'[t] = 0 /\ first'[t] \in Nat
            /\ \A u \in Threads \ {t} : at'[u] = at[u] /\ first'[u] = first[u]
        BY <2>1, <4>1, <4>2 DEF IInv, TypeOK
      <4>4. QED
        BY <4>1, <4>3, RanKept
    <3>3. QED
      BY <3>1, <3>2
  <2>8. CASE Undecodable(t)
    <3>1. /\ current' = current /\ first' = first /\ done' = done /\ at'[t] = "resets"
          /\ \A u \in Threads \ {t} : at'[u] = at[u]
      BY <2>8 DEF Undecodable, IInv, TypeOK
    <3>2. QED
      BY <3>1, RanKept
  <2>9. CASE Reset(t)
    <3>1. /\ current'[t] = NoCall
          /\ \A u \in Threads \ {t} : /\ at'[u] = at[u] /\ current'[u] = current[u]
                                     /\ first'[u] = first[u] /\ done'[u] = done[u]
      BY <2>9 DEF Reset, IInv, TypeOK
    <3>2. QED
      BY <3>1, RanKept
  <2>10. ASSUME NEW c \in Calls, ConnectFails(t, c) PROVE RanWrites'
    BY <1>3, <2>10 DEF ConnectFails, threadVars
  <2>11. QED
    BY <1>3, <2>2, <2>3, <2>4, <2>6, <2>7, <2>8, <2>9, <2>10 DEF Thread
<1>4. CASE Crash
  BY <1>4 DEF Crash, RanWrites
<1>5. CASE \E c \in Calls : \/ Exec(c) \/ Batch(c) \/ Migrate(c)
                            \/ BindingNotFound(c) \/ RuntimeShutdown(c) \/ Drop(c)
  <2>1. at' = at /\ current' = current /\ first' = first /\ done' = done
    BY <1>5
       DEF Exec, Batch, Migrate, Sends, BindingNotFound, RuntimeShutdown, Drop, threadVars
  <2>2. QED
    BY <1>2, <2>1
<1>6. QED
  BY <1>2, <1>3, <1>4, <1>5 DEF Next, vars, threadVars
-----------------------------------------------------------------------------
(* The open call *)

LEMMA OpenKept ==
    ASSUME \A u \in Threads : at'[u] = "resets" <=> at[u] = "resets",
           \A u \in Threads : at[u] = "resets" => current'[u] = current[u]
    PROVE  Open' = Open
BY DEF Open

\* A step of a thread that is not about to commit, before or after.
LEMMA OpenElsewhere ==
    ASSUME NEW t \in Threads, at[t] # "resets", at'[t] # "resets",
           \A u \in Threads \ {t} : at'[u] = at[u] /\ current'[u] = current[u]
    PROVE  Open' = Open
BY OpenKept

\* Who has the lock, or could take it, knows that no call is open.
LEMMA NoneOpen ==
    ASSUME IInv, NEW t \in Threads, at[t] # "resets", Free(t) \/ done[t] > 0
    PROVE  Open = {}
<1>1. ASSUME NEW u \in Threads, at[u] = "resets" PROVE FALSE
  <2>1. ServingInv(u) /\ u # t
    BY <1>1 DEF IInv
  <2>2. done[u] = 1
    BY <1>1, <2>1 DEF ServingInv
  <2>3. done[u] = 0
    BY <2>1, OneWriter
  <2>4. QED
    BY <2>2, <2>3
<1>2. QED
  BY <1>1 DEF Open

-----------------------------------------------------------------------------
(* Each step of the threads is a step of the atomic database, or none *)

LEMMA InitRefines == Init => Atomic!Init
<1> SUFFICES ASSUME Init PROVE Atomic!Init
  OBVIOUS
<1>1. Open = {}
  BY DEF Init, Open
<1>2. call \in [Calls -> {"new", "lost"}]
  BY DEF Init
<1>3. QED
  BY <1>1, <1>2 DEF Init, Atomic!Init

LEMMA AtomicFailure ==
    ASSUME NEW c \in Calls, Answers(c, "error"), call[c] = "new" \/ Pending(c),
           log' = log, version' = version, Open' = Open
    PROVE  Atomic!Next
<1>1. Atomic!Fails(c)
  BY DEF Answers, Pending, Atomic!Fails, Atomic!Answers, Atomic!Pending
<1>2. QED
  BY <1>1 DEF Atomic!Next

LEMMA CallersRefine ==
    ASSUME NEW c \in Calls, \/ Exec(c) \/ Batch(c) \/ Migrate(c)
                           \/ BindingNotFound(c) \/ RuntimeShutdown(c) \/ Drop(c)
    PROVE  Atomic!Next
<1>1. at' = at /\ current' = current /\ log' = log /\ version' = version
  BY DEF Exec, Batch, Migrate, Sends, BindingNotFound, RuntimeShutdown, Drop, threadVars,
         database
<1>2. Open' = Open
  BY <1>1, OpenKept
<1>3. CASE Exec(c) \/ Batch(c) \/ Migrate(c)
  <2>1. /\ call[c] = "new" /\ call' = [call EXCEPT ![c] = "waits"]
        /\ answer' = answer
    BY <1>3 DEF Exec, Batch, Migrate, Sends
  <2>2. Atomic!Send(c)
    BY <1>1, <1>2, <2>1 DEF Atomic!Send
  <2>3. QED
    BY <2>2 DEF Atomic!Next
<1>4. CASE BindingNotFound(c) \/ RuntimeShutdown(c)
  <2>1. Answers(c, "error") /\ (call[c] = "new" \/ Pending(c))
    BY <1>4 DEF BindingNotFound, RuntimeShutdown, Pending
  <2>2. QED
    BY <1>1, <1>2, <2>1, AtomicFailure
<1>5. CASE Drop(c)
  <2>1. Atomic!Drop(c)
    BY <1>1, <1>2, <1>5 DEF Drop, Atomic!Drop
  <2>2. QED
    BY <2>1 DEF Atomic!Next
<1>6. QED
  BY <1>3, <1>4, <1>5

\* Steps that show nothing: a start, a message taken, a statement run.
LEMMA SilentSteps ==
    ASSUME IInv, NEW t \in Threads,
           \/ Start(t) \/ StartFails(t) \/ \E c \in Calls : Take(t, c)
           \/ ExecWrites(t) \/ BatchRuns(t) \/ MigrateRuns(t)
    PROVE  UNCHANGED Atomic!vars
<1>1. log' = log /\ version' = version /\ call' = call /\ answer' = answer
  BY DEF Start, StartFails, Take, ExecWrites, BatchRuns, MigrateRuns, RunsWrite, database,
         callVars
<1>2. /\ at[t] # "resets" /\ at'[t] # "resets"
      /\ \A u \in Threads \ {t} : at'[u] = at[u] /\ current'[u] = current[u]
  BY DEF Start, StartFails, Take, ExecWrites, BatchRuns, MigrateRuns, RunsWrite, Serves,
         IInv, TypeOK
<1>3. Open' = Open
  BY <1>2, OpenElsewhere
<1>4. QED
  BY <1>1, <1>3 DEF Atomic!vars

LEMMA ConnectFailsRefines ==
    ASSUME IInv, NEW t \in Threads, NEW c \in Calls, ConnectFails(t, c)
    PROVE  Atomic!Next
<1>1. /\ at' = at /\ current' = current /\ log' = log /\ version' = version
      /\ Answers(c, "error")
  BY DEF ConnectFails, threadVars, database
<1>2. Pending(c)
  BY ReceivesRest DEF ConnectFails
<1>3. Open' = Open
  BY <1>1, OpenKept
<1>4. QED
  BY <1>1, <1>2, <1>3, AtomicFailure

LEMMA EndsKeepOpen ==
    ASSUME IInv, NEW t \in Threads, NEW a, Ends(t, a), at[t] # "resets",
           current[t] # NoCall
    PROVE  /\ Open' = Open /\ current[t] \in Calls /\ Pending(current[t])
           /\ Answers(current[t], a)
<1>1. /\ at'[t] = "idle"
      /\ \A u \in Threads \ {t} : at'[u] = at[u] /\ current'[u] = current[u]
  BY DEF Ends, IInv, TypeOK
<1>2. Open' = Open
  BY <1>1, OpenElsewhere
<1>3. ServingInv(t) /\ current[t] \in Calls
  BY DEF IInv, TypeOK
<1>4. QED
  BY <1>2, <1>3 DEF ServingInv, Ends

LEMMA PassesRefine ==
    ASSUME NEW c \in Calls, Pending(c), Answers(c, "ok"),
           log' = log, version' = version, Open' = Open,
           \/ Kind(c) = "exec" /\ Body(c) = <<"read">>
           \/ Kind(c) = "batch" /\ Body(c) = <<>>
           \/ Kind(c) = "migrate" /\ Body(c) # <<>> /\ version = Len(Body(c))
    PROVE  Atomic!Next
<1>1. Atomic!Passes(c)
  BY DEF Answers, Pending, Kind, Body, Atomic!Passes, Atomic!Answers, Atomic!Pending,
         Atomic!Is, Atomic!Body
<1>2. QED
  BY <1>1 DEF Atomic!Next

LEMMA FailuresRefine ==
    ASSUME IInv, NEW t \in Threads,
           \/ ExecReads(t) \/ ExecFails(t) \/ BatchFails(t) \/ MigrateFails(t)
           \/ ReadVersion(t)
    PROVE  Atomic!Next \/ UNCHANGED Atomic!vars
<1>1. PICK c : c = current[t]
  OBVIOUS
<1>2. at[t] # "resets" /\ c # NoCall /\ c \in Calls /\ ServingInv(t)
  BY <1>1
  DEF IInv, TypeOK, ExecReads, ExecFails, BatchFails, MigrateFails, ReadVersion, Serves
<1>3. ASSUME NEW a, Fails(t, a)
      PROVE  /\ Open' = Open /\ Pending(c) /\ Answers(c, a)
             /\ log' = log /\ version' = version
  BY <1>1, <1>2, <1>3, EndsKeepOpen DEF Fails
<1>4. CASE Fails(t, "error")
  BY <1>2, <1>3, <1>4, AtomicFailure
<1>5. CASE ExecReads(t)
  <2>1. /\ Kind(c) = "exec" /\ at[t] = "runs"
        /\ Body(c)[first[t] + done[t] + 1] = "read" /\ done[t] \in Nat
    BY <1>1, <1>5 DEF ExecReads, Serves, Statement, IInv, TypeOK
  <2>2. first[t] = 0 /\ done[t] = 0 /\ Len(Body(c)) = 1 /\ Body(c) \in Seq(Statements)
    BY <1>1, <1>2, <2>1, RequestType DEF ServingInv
  <2>3. Body(c)[1] = "read"
    BY <2>1, <2>2
  <2>4. Body(c) = <<"read">>
    BY <2>2, <2>3
  <2>5. QED
    BY <1>2, <1>3, <1>5, <2>1, <2>4, PassesRefine DEF ExecReads
<1>6. CASE ReadVersion(t) /\ ~Fails(t, "error")
  <2>1. Serves(t, "migrate", "runs") /\ Kind(c) = "migrate"
    BY <1>1, <1>6 DEF ReadVersion, Serves
  <2>2. CASE Len(Body(c)) > 0 /\ version = Len(Body(c)) /\ Fails(t, "ok")
    <3>1. Len(<<>>) = 0
      OBVIOUS
    <3>2. Body(c) # <<>>
      BY <2>2, <3>1
    <3>3. QED
      BY <1>2, <1>3, <2>1, <2>2, <3>2, PassesRefine
  <2>3. CASE /\ at' = [at EXCEPT ![t] = "migrates"]
             /\ UNCHANGED <<queues, connections, current, done, database, callVars, crashes>>
    <3>1. /\ log' = log /\ version' = version /\ call' = call /\ answer' = answer
          /\ current' = current
      BY <2>3 DEF database, callVars
    <3>2. /\ at'[t] # "resets"
          /\ \A u \in Threads \ {t} : at'[u] = at[u] /\ current'[u] = current[u]
      BY <2>3, <3>1 DEF IInv, TypeOK
    <3>3. Open' = Open
      BY <1>2, <3>2, OpenElsewhere
    <3>4. QED
      BY <3>1, <3>3 DEF Atomic!vars
  <2>4. QED
    BY <1>1, <1>6, <2>2, <2>3 DEF ReadVersion
<1>7. QED
  BY <1>4, <1>5, <1>6 DEF ExecFails, BatchFails, MigrateFails

\* What a thread commits are the statements of its call from where it began.
LEMMA CommitsApplied ==
    ASSUME NEW t \in Threads, NEW c, c = current[t], log' = Committed(t),
           NEW n \in Nat, n = first[t], done[t] = Len(Body(c)) - n
    PROVE  log' = Atomic!Applied(c, n)
BY DEF Committed, Body, Atomic!Applied, Atomic!Body

LEMMA CommitsRefine ==
    ASSUME IInv, RanWrites, NEW t \in Threads,
           ExecCommits(t) \/ BatchCommits(t) \/ MigrateCommits(t)
    PROVE  Atomic!Next
<1>1. PICK c : c = current[t]
  OBVIOUS
<1>2. /\ Ends(t, "ok") /\ log' = Committed(t) /\ at[t] # "resets"
      /\ c # NoCall /\ c \in Calls /\ ServingInv(t)
  BY <1>1 DEF IInv, TypeOK, ExecCommits, BatchCommits, MigrateCommits, Serves
<1>3. Open' = Open /\ Pending(c) /\ Answers(c, "ok")
  BY <1>1, <1>2, EndsKeepOpen
<1>4. /\ first[t] \in Nat /\ done[t] \in Nat /\ version \in Nat
      /\ Body(c) \in Seq(Statements) /\ Len(Body(c)) \in Nat
      /\ (Kind(c) = "exec" => Len(Body(c)) = 1)
  BY <1>2, RequestType DEF IInv, TypeOK
<1>5. PICK n \in Nat : n = first[t]
  BY <1>4
<1>6. n + done[t] = Len(Body(c))
  <2>1. CASE ExecCommits(t)
    BY <1>1, <1>2, <1>4, <1>5, <2>1 DEF ServingInv, ExecCommits, Serves
  <2>2. CASE BatchCommits(t)
    BY <1>1, <1>2, <1>4, <1>5, <2>2 DEF ServingInv, BatchCommits, Serves, MoreToRun
  <2>3. CASE MigrateCommits(t)
    BY <1>1, <1>2, <1>4, <1>5, <2>3 DEF ServingInv, MigrateCommits, Serves, MoreToRun
  <2>4. QED
    BY <2>1, <2>2, <2>3
<1>7. log' = Atomic!Applied(c, n)
  BY <1>1, <1>2, <1>4, <1>5, <1>6, CommitsApplied
<1>8. done[t] > 0 => Open = {}
  BY <1>2, NoneOpen
<1>9. BatchCommits(t) \/ MigrateCommits(t) =>
        \A i \in n + 1 .. Len(Body(c)) : Body(c)[i] = "write"
  BY <1>1, <1>2, <1>5, <1>6 DEF RanWrites, BatchCommits, MigrateCommits, Serves
<1>10. CASE ExecCommits(t) \/ (BatchCommits(t) /\ done[t] > 0)
  <2>1. n = 0 /\ done[t] > 0 /\ Kind(c) \in {"exec", "batch"} /\ version' = version
    BY <1>1, <1>2, <1>4, <1>5, <1>10 DEF ServingInv, ExecCommits, BatchCommits, Serves
  <2>2. \A i \in 1 .. Len(Body(c)) : Body(c)[i] = "write"
    <3>1. CASE ExecCommits(t)
      <4>1. Body(c) = <<"write">>
        BY <1>1, <3>1 DEF ExecCommits
      <4>2. QED
        BY <4>1
    <3>2. CASE BatchCommits(t)
      BY <1>9, <2>1, <3>2
    <3>3. QED
      BY <1>10, <3>1, <3>2
  <2>3. Atomic!Apply(c)
    BY <1>3, <1>7, <1>8, <2>1, <2>2
       DEF Answers, Pending, Kind, Body, Atomic!Apply, Atomic!Answers, Atomic!Pending,
           Atomic!Is, Atomic!Body, Atomic!Writes
  <2>4. QED
    BY <1>2, <2>3 DEF Atomic!Next
<1>11. CASE BatchCommits(t) /\ done[t] = 0
  <2>1. Kind(c) = "batch" /\ at[t] = "runs" /\ version' = version
    BY <1>1, <1>11 DEF BatchCommits, Serves
  <2>2. n = 0
    BY <1>2, <1>5, <2>1 DEF ServingInv
  <2>3. Body(c) = <<>>
    BY <1>4, <1>6, <1>11, <2>2, EmptySeq
  <2>4. log' = log
    <3>1. log \in Seq(Entries)
      BY DEF IInv, TypeOK, Entries
    <3>2. [i \in 1..done[t] |-> [call |-> current[t], index |-> first[t] + i]] = <<>>
      BY <1>11
    <3>3. QED
      BY <1>2, <3>1, <3>2, ConcatEmptySeq DEF Committed
  <2>5. QED
    BY <1>2, <1>3, <2>1, <2>3, <2>4, PassesRefine
<1>12. CASE MigrateCommits(t)
  <2>1. /\ Kind(c) = "migrate" /\ at[t] = "migrates" /\ version' = Len(Body(c))
        /\ Shard[Connection(c)] = t
    BY <1>1, <1>2, <1>12 DEF MigrateCommits, Serves, ServingInv
  <2>2. n < Len(Body(c)) /\ done[t] > 0
    BY <1>1, <1>2, <1>4, <1>5, <1>6, <2>1 DEF ServingInv
  <2>3. OneMigrator => n = version
    <3>1. SUFFICES ASSUME NEW u \in Threads,
                          \A d \in Calls : Kind(d) = "migrate" => Shard[Connection(d)] = u
                   PROVE  n = version
      BY DEF OneMigrator
    <3>2. \A i \in DOMAIN log : Migration(i) => Shard[Connection(log[i].call)] = t
      BY <1>2, <2>1, <3>1, LogDomain DEF IInv, Migration
    <3>3. QED
      BY <1>5, <2>1, <3>2 DEF IInv, VersionHeld
  <2>4. Open = {} /\ n \in 0 .. Len(Body(c)) - 1
    BY <1>4, <1>8, <2>2
  <2>5. Atomic!Migrate(c)
    BY <1>3, <1>7, <1>9, <1>12, <2>1, <2>3, <2>4
       DEF Answers, Pending, Kind, Body, Atomic!Migrate, Atomic!Answers, Atomic!Pending,
           Atomic!Is, Atomic!Body, Atomic!Writes
  <2>6. QED
    BY <1>2, <2>5 DEF Atomic!Next
<1>13. QED
  BY <1>4, <1>10, <1>11, <1>12

LEMMA UndecodableRefines ==
    ASSUME IInv, NEW t \in Threads, Undecodable(t)
    PROVE  Atomic!Next
<1>1. PICK c : c = current[t]
  OBVIOUS
<1>2. /\ at[t] = "steps" /\ c # NoCall /\ c \in Calls /\ Kind(c) = "exec"
      /\ Body(c) = <<"text">> /\ Answers(c, "text_value_decode_error")
      /\ at' = [at EXCEPT ![t] = "resets"]
      /\ current' = current /\ log' = log /\ version' = version
  BY <1>1 DEF Undecodable, Serves, database, IInv, TypeOK
<1>3. ServingInv(t) /\ done[t] = 1
  BY <1>2 DEF IInv, ServingInv
<1>4. Open = {} /\ Pending(c)
  BY <1>1, <1>2, <1>3, NoneOpen DEF ServingInv
<1>5. \A u \in Threads : at[u] # "resets"
  BY <1>4 DEF Open
<1>6. \A u \in Threads : at'[u] = "resets" <=> u = t
  BY <1>2, <1>5 DEF IInv, TypeOK
<1>7. Open' = {c}
  BY <1>1, <1>2, <1>6 DEF Open
<1>8. Atomic!Undecodable(c)
  BY <1>2, <1>4, <1>7
     DEF Answers, Pending, Kind, Body, Atomic!Undecodable, Atomic!Answers, Atomic!Pending,
         Atomic!Is, Atomic!Body
<1>9. QED
  BY <1>2, <1>8 DEF Atomic!Next

LEMMA ResetRefines ==
    ASSUME IInv, NEW t \in Threads, Reset(t)
    PROVE  Atomic!Next
<1>1. PICK c : c = current[t]
  OBVIOUS
<1>2. /\ at[t] = "resets" /\ at' = [at EXCEPT ![t] = "idle"] /\ log' = Committed(t)
      /\ version' = version /\ call' = call /\ answer' = answer
  BY DEF Reset, callVars
<1>3. /\ ServingInv(t) /\ c # NoCall /\ c \in Calls /\ Kind(c) = "exec"
      /\ done[t] = 1 /\ first[t] = 0
  BY <1>1, <1>2 DEF IInv, TypeOK, ServingInv
<1>4. \A u \in Threads : at[u] = "resets" <=> u = t
  <2>1. ASSUME NEW u \in Threads, u # t, at[u] = "resets" PROVE FALSE
    <3>1. ServingInv(u) /\ done[u] = 0
      BY <1>3, <2>1, OneWriter DEF IInv
    <3>2. QED
      BY <2>1, <3>1 DEF ServingInv
  <2>2. QED
    BY <1>2, <2>1
<1>5. Open = {c}
  BY <1>1, <1>4 DEF Open
<1>6. \A u \in Threads : at'[u] # "resets"
  BY <1>2, <1>4 DEF IInv, TypeOK
<1>7. Open' = {}
  BY <1>6 DEF Open
<1>8. log' = Atomic!Applied(c, 0)
  <2>1. PICK n \in Nat : n = 0
    OBVIOUS
  <2>2. n = first[t] /\ done[t] = Len(Body(c)) - n
    BY <1>3, <2>1, RequestType
  <2>3. log' = Atomic!Applied(c, n)
    BY <1>1, <1>2, <2>2, CommitsApplied
  <2>4. QED
    BY <2>1, <2>3
<1>9. Atomic!Close(c)
  BY <1>2, <1>5, <1>7, <1>8 DEF Atomic!Close
<1>10. QED
  BY <1>3, <1>9 DEF Atomic!Next

LEMMA CrashRefines ==
    ASSUME Crash
    PROVE  Atomic!Next
<1>1. Open' = {}
  BY DEF Crash, Open
<1>2. Atomic!Crash
  BY <1>1 DEF Crash, Atomic!Crash, Atomic!Pending
<1>3. QED
  BY <1>2 DEF Atomic!Next

LEMMA StepRefines == IInv /\ RanWrites /\ [Next]_vars => [Atomic!Next]_(Atomic!vars)
<1> SUFFICES ASSUME IInv, RanWrites, [Next]_vars
             PROVE  Atomic!Next \/ UNCHANGED Atomic!vars
  OBVIOUS
<1>1. ASSUME NEW c \in Calls, \/ Exec(c) \/ Batch(c) \/ Migrate(c)
                             \/ BindingNotFound(c) \/ RuntimeShutdown(c) \/ Drop(c)
      PROVE  Atomic!Next
  BY <1>1, CallersRefine
<1>2. ASSUME NEW t \in Threads, Thread(t)
      PROVE  Atomic!Next \/ UNCHANGED Atomic!vars
  <2>1. CASE \/ Start(t) \/ StartFails(t) \/ \E c \in Calls : Take(t, c)
             \/ ExecWrites(t) \/ BatchRuns(t) \/ MigrateRuns(t)
    BY <2>1, SilentSteps
  <2>2. ASSUME NEW c \in Calls, ConnectFails(t, c) PROVE Atomic!Next
    BY <2>2, ConnectFailsRefines
  <2>3. CASE \/ ExecReads(t) \/ ExecFails(t) \/ BatchFails(t) \/ MigrateFails(t)
             \/ ReadVersion(t)
    BY <2>3, FailuresRefine
  <2>4. CASE ExecCommits(t) \/ BatchCommits(t) \/ MigrateCommits(t)
    BY <2>4, CommitsRefine
  <2>5. CASE Undecodable(t)
    BY <2>5, UndecodableRefines
  <2>6. CASE Reset(t)
    BY <2>6, ResetRefines
  <2>7. QED
    BY <1>2, <2>1, <2>2, <2>3, <2>4, <2>5, <2>6 DEF Thread
<1>3. CASE UNCHANGED vars
  <2>1. /\ at' = at /\ current' = current /\ log' = log /\ version' = version
        /\ call' = call /\ answer' = answer
    BY <1>3 DEF vars, threadVars, database, callVars
  <2>2. Open' = Open
    BY <2>1, OpenKept
  <2>3. QED
    BY <2>1, <2>2 DEF Atomic!vars
<1>4. QED
  BY <1>1, <1>2, <1>3, CrashRefines DEF Next

\* The threads, with their queues, locks and open statements, implement a
\* database that applies each call at once or not at all.
THEOREM SqlIsAtomic == Spec => ImplementsAtomicSql
<1>1. Spec => []RanWrites
  BY InitRan, StepRan, Invariant, PTL DEF Spec
<1>2. QED
  BY <1>1, InitRefines, StepRefines, Invariant, PTL
     DEF Spec, ImplementsAtomicSql, Atomic!Spec
=============================================================================
