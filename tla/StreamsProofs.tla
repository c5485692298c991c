---------------------------- MODULE StreamsProofs ----------------------------
(***************************************************************************)
(* Proofs about Streams: its types, and that the frames of a body are      *)
(* whole, for any readers, bodies and uses of the mutex.                   *)
(***************************************************************************)
EXTENDS Streams, SequenceTheorems, TLAPS

BodyFrames == [reader : Readers, index : Nat \ {0}]

\* The frame that a call has yielded and not returned yet.
InCallFrame(r) == IF poll[r] = "frame" THEN 1 ELSE 0

\* How many frames were read, or wait to be, held by the host or in a call.
Reached(r) == Len(got[r]) + Len(held[r]) + InCallFrame(r)

\* The frames of a body that its reader still counts on.
Awaited(r, i) == Len(got[r]) < i /\ i <= Reached(r)

\* A reader has the mutex while its poll is a call, and its frames are
\* numbered through what it has read, what the host holds and the call.
ReaderInv(r) ==
    /\ poll[r] \in {"waits", "calls", "frame"} => reader[r] \in {"reads", "abandoned"}
    /\ poll[r] = "cut" => reader[r] = "done"
    /\ poll[r] \in {"calls", "frame"} <=> lock = r
    /\ reader[r] \in {"new", "asked", "invoked", "answered"} => produced[r] = 0
    /\ \A k \in 1..Len(got[r]) : got[r][k] = k
    /\ \A k \in 1..Len(held[r]) : held[r][k] = Len(got[r]) + k
    /\ Reached(r) <= produced[r]
    /\ reader[r] \in {"reads", "abandoned"} => Reached(r) = produced[r]

\* No message is in the queue twice, or there while it is handled.
Distinct ==
    /\ \A k, l \in 1..Len(messages) : messages[k] = messages[l] => k = l
    /\ \A k \in 1..Len(messages) : messages[k] # dropping

\* The frame that a guest was about to return when it was cut off.
Orphan(r, i) == poll[r] = "cut" /\ i = produced[r]

\* A frame is in the guest as long as its reader counts on it, and no longer
\* than until it is freed, if its guest ever returned it.
FrameInv ==
    /\ \A r \in Readers : \A i \in Nat :
         Awaited(r, i) => Frame(r, i) \in bytes /\ ~BeingFreed(Frame(r, i))
    /\ \A f \in Messages : BeingFreed(f) => f.index <= produced[f.reader]
    /\ \A r \in Readers : reader[r] = "new" => ~BeingFreed(Frame(r, 0))
    /\ ~borrowed => \A f \in bytes : \/ Awaited(f.reader, f.index) \/ BeingFreed(f)
                                     \/ Orphan(f.reader, f.index)
    /\ Distinct

IInv == TypeOK /\ (\A r \in Readers : ReaderInv(r)) /\ FrameInv

-----------------------------------------------------------------------------
(* Facts about the sequences and frames of a state *)

LEMMA SeqTypes ==
    ASSUME TypeOK
    PROVE  /\ Len(messages) \in Nat /\ DOMAIN messages = 1..Len(messages)
           /\ \A k \in 1..Len(messages) : messages[k] \in Messages
           /\ \A r \in Readers :
                /\ Len(got[r]) \in Nat /\ DOMAIN got[r] = 1..Len(got[r])
                /\ Len(held[r]) \in Nat /\ DOMAIN held[r] = 1..Len(held[r])
                /\ \A k \in 1..Len(held[r]) : held[r][k] \in Nat \ {0}
                /\ produced[r] \in Nat /\ InCallFrame(r) \in {0, 1} /\ Reached(r) \in Nat
<1>1. messages \in Seq(Messages)
  BY DEF TypeOK
<1>2. \A r \in Readers : got[r] \in Seq(Nat \ {0}) /\ held[r] \in Seq(Nat \ {0})
                         /\ produced[r] \in Nat
  BY DEF TypeOK
<1>3. \A r \in Readers : InCallFrame(r) \in {0, 1}
  BY DEF InCallFrame
<1>4. /\ Len(messages) \in Nat /\ DOMAIN messages = 1..Len(messages)
      /\ \A k \in 1..Len(messages) : messages[k] \in Messages
  BY <1>1, LenProperties, ElementOfSeq
<1>5. ASSUME NEW r \in Readers
      PROVE  /\ Len(got[r]) \in Nat /\ DOMAIN got[r] = 1..Len(got[r])
             /\ Len(held[r]) \in Nat /\ DOMAIN held[r] = 1..Len(held[r])
             /\ \A k \in 1..Len(held[r]) : held[r][k] \in Nat \ {0}
  BY <1>2, LenProperties, ElementOfSeq
<1>6. ASSUME NEW r \in Readers PROVE Reached(r) \in Nat
  <2>1. PICK a \in Nat, b \in Nat, c \in {0, 1} :
          a = Len(got[r]) /\ b = Len(held[r]) /\ c = InCallFrame(r)
    BY <1>3, <1>5
  <2>2. a + b + c \in Nat
    OBVIOUS
  <2>3. QED
    BY <2>1, <2>2 DEF Reached
<1>7. QED
  BY <1>2, <1>3, <1>4, <1>5, <1>6

LEMMA FrameIs ==
    ASSUME NEW r \in Readers, NEW i \in Nat
    PROVE  /\ Frame(r, i) \in Messages
           /\ Frame(r, i).reader = r /\ Frame(r, i).index = i
           /\ i # 0 => Frame(r, i) \in BodyFrames
BY DEF Frame, Messages, BodyFrames

LEMMA FramesDiffer ==
    ASSUME NEW r \in Readers, NEW i \in Nat, NEW u \in Readers, NEW j \in Nat,
           Frame(r, i) = Frame(u, j)
    PROVE  r = u /\ i = j
BY FrameIs

LEMMA MessageIs ==
    ASSUME NEW f \in Messages
    PROVE  f.reader \in Readers /\ f.index \in Nat /\ f = Frame(f.reader, f.index)
BY DEF Frame, Messages

\* What the host holds of a body are the frames that come after those read.
LEMMA HeldAwaited ==
    ASSUME IInv, NEW r \in Readers
    PROVE  /\ \A k \in 1..Len(held[r]) :
                /\ held[r][k] = Len(got[r]) + k /\ Awaited(r, held[r][k])
                /\ Frame(r, held[r][k]) \in bytes /\ ~BeingFreed(Frame(r, held[r][k]))
           /\ \A k, l \in 1..Len(held[r]) : held[r][k] = held[r][l] => k = l
<1>1. /\ Len(got[r]) \in Nat /\ Len(held[r]) \in Nat /\ InCallFrame(r) \in {0, 1}
      /\ \A k \in 1..Len(held[r]) : held[r][k] \in Nat \ {0}
  BY SeqTypes DEF IInv
<1>2. \A k \in 1..Len(held[r]) : held[r][k] = Len(got[r]) + k
  BY DEF IInv, ReaderInv
<1>3. ASSUME NEW k \in 1..Len(held[r]) PROVE Awaited(r, held[r][k])
  <2>1. PICK i, g, h : i = held[r][k] /\ g = Len(got[r]) /\ h = Len(held[r])
    OBVIOUS
  <2>2. i = g + k /\ g \in Nat /\ h \in Nat /\ k \in 1..h
    BY <1>1, <1>2, <2>1
  <2>3. g < i /\ i <= g + h + InCallFrame(r)
    BY <1>1, <2>2
  <2>4. QED
    BY <2>1, <2>3 DEF Awaited, Reached
<1>4. \A k \in 1..Len(held[r]) :
        Frame(r, held[r][k]) \in bytes /\ ~BeingFreed(Frame(r, held[r][k]))
  BY <1>1, <1>3 DEF IInv, FrameInv
<1>5. QED
  BY <1>1, <1>2, <1>3, <1>4

\* An invocation and a frame that its reader counts on are not freed.
LEMMA BeyondIsNew ==
    ASSUME IInv, NEW r \in Readers, NEW i \in Nat, i > produced[r]
    PROVE  ~BeingFreed(Frame(r, i))
<1>1. Frame(r, i) \in Messages /\ Frame(r, i).reader = r /\ Frame(r, i).index = i
  BY FrameIs
<1>2. produced[r] \in Nat
  BY SeqTypes DEF IInv
<1>3. BeingFreed(Frame(r, i)) => i <= produced[r]
  BY <1>1 DEF IInv, FrameInv
<1>4. QED
  BY <1>2, <1>3

-----------------------------------------------------------------------------
(* What a step does to the mutex *)

WaitersOK == waiters \subseteq Readers \cup {Loop}

LEMMA MutexIs ==
    ASSUME WaitersOK
    PROVE  /\ Unlock => lock' = Nobody /\ WaitersOK'
           /\ UNCHANGED mutexVars => lock' = lock /\ WaitersOK'
           /\ \A w \in Readers \cup {Loop} :
                /\ Locks(w) => lock = Nobody /\ lock' = w /\ WaitersOK'
                /\ Sleeps(w) => lock # Nobody /\ lock' = lock /\ WaitersOK'
                /\ StopsWaiting(w) => lock' = lock /\ WaitersOK'
<1>1. WakesOne => WaitersOK'
  BY DEF WakesOne, WaitersOK
<1>2. QED
  BY <1>1 DEF Unlock, Locks, Sleeps, StopsWaiting, mutexVars, WaitersOK

-----------------------------------------------------------------------------
(* What a step does to the queue *)

LEMMA QueueAppend ==
    ASSUME TypeOK, Distinct, NEW f \in Messages, ~BeingFreed(f),
           messages' = Append(messages, f), dropping' = dropping
    PROVE  /\ messages' \in Seq(Messages) /\ Distinct'
           /\ \A g : BeingFreed(g)' <=> BeingFreed(g) \/ g = f
<1>1. PICK s \in Seq(Messages) : s = messages
  BY DEF TypeOK
<1>2. PICK q : q = Append(s, f)
  OBVIOUS
<1>3. /\ q \in Seq(Messages) /\ Len(q) = Len(s) + 1 /\ Len(s) \in Nat
      /\ \A k \in 1..Len(s) : q[k] = s[k]
      /\ q[Len(s) + 1] = f
  BY <1>2, AppendProperties, LenProperties
<1>4. DOMAIN s = 1..Len(s) /\ DOMAIN q = 1..Len(q)
  BY <1>3, LenProperties
<1>5. \A k \in 1..Len(q) : \/ k \in 1..Len(s) /\ q[k] = s[k]
                           \/ k = Len(s) + 1 /\ q[k] = f
  BY <1>3
<1>6. dropping # f /\ \A k \in 1..Len(s) : s[k] # f
  BY <1>1, <1>4 DEF BeingFreed
<1>7. messages' = q
  BY <1>1, <1>2
<1>8. Distinct'
  <2>1. \A k, l \in 1..Len(q) : q[k] = q[l] => k = l
    BY <1>1, <1>5, <1>6 DEF Distinct
  <2>2. \A k \in 1..Len(q) : q[k] # dropping
    BY <1>1, <1>5, <1>6 DEF Distinct
  <2>3. QED
    BY <1>7, <2>1, <2>2 DEF Distinct
<1>9. ASSUME NEW g PROVE (\E k \in DOMAIN q : q[k] = g) <=> (\E k \in DOMAIN s : s[k] = g) \/ g = f
  BY <1>3, <1>4, <1>5
<1>10. \A g : BeingFreed(g)' <=> BeingFreed(g) \/ g = f
  BY <1>1, <1>7, <1>9, ZenonT(30) DEF BeingFreed
<1>11. QED
  BY <1>3, <1>7, <1>8, <1>10

\* A sequence q of messages is s, of m messages, and then e, of n.
Splits(q, s, m, e, n) ==
    /\ q \in Seq(Messages) /\ Len(s) = m /\ Len(q) = m + n
    /\ DOMAIN s = 1..m /\ DOMAIN q = 1..(m + n)
    /\ \A k \in 1..m : q[k] = s[k]
    /\ \A k \in 1..n : q[m + k] = e[k]
    /\ \A k \in 1..(m + n) : k \in 1..m \/ (k - m \in 1..n /\ m + (k - m) = k)

LEMMA Joined ==
    ASSUME NEW s \in Seq(Messages), NEW n \in Nat, NEW e \in [1..n -> Messages]
    PROVE  \E m \in Nat : Splits(s \o e, s, m, e, n)
<1>1. [1..n -> Messages] \subseteq Seq(Messages)
  BY SeqDef
<1>2. e \in Seq(Messages) /\ DOMAIN e = 1..n
  BY <1>1
<1>3. Len(e) = n
  <2>1. Len(e) \in Nat /\ 1..Len(e) = 1..n
    BY <1>2, LenProperties
  <2>2. QED
    BY <2>1
<1>4. PICK m \in Nat : m = Len(s)
  BY LenProperties
<1>5. PICK q : q = s \o e
  OBVIOUS
<1>6. /\ q \in Seq(Messages) /\ Len(q) = m + n
      /\ \A k \in 1..(m + n) : q[k] = IF k <= m THEN s[k] ELSE e[k - m]
  BY <1>2, <1>3, <1>4, <1>5, ConcatProperties
<1>7. DOMAIN q = 1..(m + n) /\ DOMAIN s = 1..m
  BY <1>4, <1>6, LenProperties
<1>8. \A k \in 1..m : q[k] = s[k]
  BY <1>6
<1>9. ASSUME NEW k \in 1..n PROVE q[m + k] = e[k]
  <2>1. m + k \in 1..(m + n) /\ ~(m + k <= m) /\ (m + k) - m = k
    OBVIOUS
  <2>2. q[m + k] = e[(m + k) - m]
    BY <1>6, <2>1
  <2>3. QED
    BY <2>1, <2>2
<1>10. \A k \in 1..(m + n) : k \in 1..m \/ (k - m \in 1..n /\ m + (k - m) = k)
  OBVIOUS
<1>11. Splits(q, s, m, e, n)
  BY <1>4, <1>6, <1>7, <1>8, <1>9, <1>10 DEF Splits
<1>12. QED
  BY <1>4, <1>5, <1>11

LEMMA QueueFrees ==
    ASSUME IInv, NEW r \in Readers, messages' = messages \o Freed(r), dropping' = dropping
    PROVE  /\ messages' \in Seq(Messages) /\ Distinct'
           /\ \A g : BeingFreed(g)' <=>
                BeingFreed(g) \/ \E k \in 1..Len(held[r]) : g = Frame(r, held[r][k])
<1>1. PICK s \in Seq(Messages) : s = messages
  BY DEF IInv, TypeOK
<1>2. PICK n, e : n \in Nat /\ n = Len(held[r]) /\ e = Freed(r)
  BY SeqTypes DEF IInv
<1>3. /\ e = [k \in 1..n |-> Frame(r, held[r][k])]
      /\ \A k \in 1..n : held[r][k] \in Nat \ {0}
  BY <1>2, SeqTypes DEF IInv, Freed
<1>4. e \in [1..n -> Messages]
  BY <1>3, FrameIs
<1>5. PICK q : q = s \o e
  OBVIOUS
<1>6. PICK m \in Nat : Splits(q, s, m, e, n)
  <2>1. n \in Nat /\ s \in Seq(Messages)
    BY <1>2
  <2>2. \E m \in Nat : Splits(s \o e, s, m, e, n)
    BY <1>4, <2>1, Joined
  <2>3. QED
    BY <1>5, <2>2
<1>7. /\ q \in Seq(Messages) /\ Len(q) = m + n
      /\ DOMAIN s = 1..m /\ DOMAIN q = 1..(m + n)
      /\ \A k \in 1..m : q[k] = s[k]
      /\ \A k \in 1..n : q[m + k] = e[k]
      /\ \A k \in 1..(m + n) : k \in 1..m \/ (k - m \in 1..n /\ m + (k - m) = k)
  BY <1>6 DEF Splits
<1>8. \A k \in 1..n : m + k \in 1..(m + n)
  BY <1>2, <1>6
<1>9. \A k \in 1..(m + n) : \/ k \in 1..m /\ q[k] = s[k]
                            \/ \E l \in 1..n : k = m + l /\ q[k] = e[l]
  BY <1>7
<1>10. /\ \A k \in 1..n : ~BeingFreed(e[k])
       /\ \A k, l \in 1..n : e[k] = e[l] => k = l
  <2>1. /\ \A k \in 1..n : ~BeingFreed(Frame(r, held[r][k]))
        /\ \A k, l \in 1..n : held[r][k] = held[r][l] => k = l
    BY <1>2, HeldAwaited
  <2>2. QED
    BY <1>3, <2>1, FramesDiffer
<1>11. \A k \in 1..n : dropping # e[k] /\ \A l \in 1..m : s[l] # e[k]
  BY <1>1, <1>7, <1>10 DEF BeingFreed
<1>12. messages' = q
  BY <1>1, <1>2, <1>5
<1>13. Distinct'
  <2>1. /\ \A k, l \in 1..m : s[k] = s[l] => k = l
        /\ \A k \in 1..m : s[k] # dropping
    BY <1>1, <1>6 DEF IInv, FrameInv, Distinct, Splits
  <2>2. ASSUME NEW k \in 1..(m + n), NEW l \in 1..(m + n), q[k] = q[l] PROVE k = l
    <3>1. CASE k \in 1..m /\ q[k] = s[k]
      BY <1>9, <1>11, <2>1, <2>2, <3>1, ZenonT(30)
    <3>2. ASSUME NEW i \in 1..n, k = m + i, q[k] = e[i] PROVE k = l
      <4>1. ~(l \in 1..m /\ q[l] = s[l])
        BY <1>11, <2>2, <3>2
      <4>2. PICK j \in 1..n : l = m + j /\ q[l] = e[j]
        BY <1>9, <4>1
      <4>3. QED
        BY <1>10, <2>2, <3>2, <4>2
    <3>3. QED
      BY <1>9, <3>1, <3>2
  <2>3. \A k \in 1..(m + n) : q[k] # dropping
    BY <1>9, <1>11, <2>1
  <2>4. QED
    BY <1>7, <1>12, <2>2, <2>3 DEF Distinct
<1>14. ASSUME NEW g
       PROVE  (\E k \in DOMAIN q : q[k] = g) <=>
                (\E k \in DOMAIN s : s[k] = g) \/ (\E k \in 1..n : g = Frame(r, held[r][k]))
  <2>1. \A k \in 1..n : e[k] = Frame(r, held[r][k])
    BY <1>3
  <2>2. 1..m \subseteq 1..(m + n)
    BY <1>2, <1>6
  <2>3. (\E k \in 1..(m + n) : q[k] = g) <=>
          (\E k \in 1..m : s[k] = g) \/ (\E k \in 1..n : e[k] = g)
    <3>1. ASSUME NEW k \in 1..m PROVE q[k] = s[k] /\ k \in 1..(m + n)
      BY <1>7, <2>2
    <3>2. ASSUME NEW k \in 1..n PROVE q[m + k] = e[k] /\ m + k \in 1..(m + n)
      BY <1>7, <1>8
    <3>3. QED
      BY <1>9, <3>1, <3>2
  <2>4. QED
    BY <1>7, <2>1, <2>3
<1>15. \A g : BeingFreed(g)' <=>
                BeingFreed(g) \/ \E k \in 1..n : g = Frame(r, held[r][k])
  BY <1>1, <1>12, <1>14 DEF BeingFreed
<1>16. QED
  BY <1>2, <1>7, <1>12, <1>13, <1>15

LEMMA QueueTakes ==
    ASSUME TypeOK, Distinct, messages # <<>>, messages' = Tail(messages)
    PROVE  /\ messages' \in Seq(Messages) /\ Head(messages) \in Messages
           /\ dropping' \in {dropping, Head(messages)} => Distinct'
           /\ dropping' = dropping =>
                \A g : BeingFreed(g)' => BeingFreed(g)
           /\ dropping' = dropping =>
                \A g : BeingFreed(g) /\ g # Head(messages) => BeingFreed(g)'
           /\ dropping' = Head(messages) /\ dropping = NoFrame =>
                \A g \in Messages : BeingFreed(g)' <=> BeingFreed(g)
<1>1. PICK s \in Seq(Messages) : s = messages
  BY DEF TypeOK
<1>2. PICK q, h : q = Tail(s) /\ h = Head(s)
  OBVIOUS
<1>3. /\ h \in Messages /\ q \in Seq(Messages) /\ Len(q) = Len(s) - 1
      /\ \A k \in 1..Len(q) : q[k] = s[k + 1]
      /\ Len(s) \in Nat /\ Len(q) \in Nat
  BY <1>1, <1>2, HeadTailProperties, LenProperties
<1>4. DOMAIN s = 1..Len(s) /\ DOMAIN q = 1..Len(q)
  BY <1>3, LenProperties
<1>5. h = s[1] /\ 1 \in 1..Len(s)
  BY <1>1, <1>2, <1>3
<1>6. messages' = q /\ h = Head(messages)
  BY <1>1, <1>2
<1>7. /\ \A k, l \in 1..Len(s) : s[k] = s[l] => k = l
      /\ \A k \in 1..Len(s) : s[k] # dropping
  BY <1>1 DEF Distinct
<1>8. /\ \A k, l \in 1..Len(q) : q[k] = q[l] => k = l
      /\ \A k \in 1..Len(q) : q[k] # dropping /\ q[k] # h
  BY <1>3, <1>5, <1>7, SMTT(30)
<1>9. dropping' \in {dropping, h} => Distinct'
  BY <1>6, <1>8 DEF Distinct
<1>10. ASSUME NEW g
       PROVE  (\E k \in DOMAIN s : s[k] = g) <=> (\E k \in DOMAIN q : q[k] = g) \/ g = h
  <2>1. ASSUME NEW k \in 1..Len(s), k # 1 PROVE k - 1 \in 1..Len(q) /\ q[k - 1] = s[k]
    <3>1. k - 1 \in 1..Len(q) /\ (k - 1) + 1 = k
      BY <1>3, <2>1
    <3>2. q[k - 1] = s[(k - 1) + 1]
      BY <1>3, <3>1
    <3>3. QED
      BY <3>1, <3>2
  <2>2. \A k \in 1..Len(q) : k + 1 \in 1..Len(s) /\ q[k] = s[k + 1]
    BY <1>3
  <2>3. QED
    BY <1>4, <1>5, <2>1, <2>2
<1>11. \A g : (\E k \in DOMAIN q : q[k] = g) => g # h
  BY <1>4, <1>8
<1>12. \A g : /\ BeingFreed(g)' <=> dropping' = g \/ \E k \in DOMAIN q : q[k] = g
              /\ BeingFreed(g) <=> dropping = g \/ \E k \in DOMAIN s : s[k] = g
  BY <1>1, <1>6 DEF BeingFreed
<1>13. NoFrame \notin Messages
  BY StreamsAssumption
<1>14. QED
  BY <1>3, <1>6, <1>9, <1>10, <1>11, <1>12, <1>13, ZenonT(30)

-----------------------------------------------------------------------------
(* What a step keeps *)

\* A step of one reader leaves the others as they are.
Others(r) ==
    /\ \A u \in Readers \ {r} :
         /\ reader'[u] = reader[u] /\ poll'[u] = poll[u] /\ produced'[u] = produced[u]
         /\ held'[u] = held[u] /\ got'[u] = got[u]
    /\ lock' = lock \/ {lock, lock'} \cap (Readers \ {r}) = {}

LEMMA OthersKept ==
    ASSUME IInv, NEW r \in Readers, Others(r), ReaderInv(r)'
    PROVE  \A u \in Readers : ReaderInv(u)'
<1> SUFFICES ASSUME NEW u \in Readers, u # r
             PROVE  ReaderInv(u)'
  OBVIOUS
<1>1. /\ reader'[u] = reader[u] /\ poll'[u] = poll[u] /\ produced'[u] = produced[u]
      /\ held'[u] = held[u] /\ got'[u] = got[u] /\ (lock' = u <=> lock = u)
  BY DEF Others
<1>2. ReaderInv(u)
  BY DEF IInv
<1>3. Reached(u)' = Reached(u)
  BY <1>1 DEF Reached, InCallFrame
<1>4. QED
  BY <1>1, <1>2, <1>3 DEF ReaderInv

\* A step that changes no frame, and no message.
LEMMA QuietFrames ==
    ASSUME IInv, UNCHANGED <<produced, held, got, bytes, messages, dropping>>,
           borrowed => borrowed',
           \A u \in Readers : /\ poll'[u] = "frame" <=> poll[u] = "frame"
                              /\ poll'[u] = "cut" <=> poll[u] = "cut"
                              /\ reader'[u] = "new" => reader[u] = "new"
    PROVE  FrameInv'
<1>1. \A f : BeingFreed(f)' <=> BeingFreed(f)
  BY DEF BeingFreed
<1>2. \A u \in Readers : \A i : Awaited(u, i)' <=> Awaited(u, i)
  BY DEF Awaited, Reached, InCallFrame
<1>3. \A f \in bytes : f.reader \in Readers
  BY DEF IInv, TypeOK
<1>4. Distinct'
  BY DEF IInv, FrameInv, Distinct
<1>5. QED
  BY <1>1, <1>2, <1>3, <1>4 DEF IInv, FrameInv, Orphan

LEMMA QuietStep ==
    ASSUME IInv, NEW r \in Readers, TypeOK', Others(r), ReaderInv(r)',
           UNCHANGED <<produced, held, got, bytes, messages, dropping>>,
           borrowed => borrowed',
           poll'[r] = "frame" <=> poll[r] = "frame",
           poll'[r] = "cut" <=> poll[r] = "cut",
           reader'[r] = "new" => reader[r] = "new"
    PROVE  IInv'
<1>1. \A u \in Readers : /\ poll'[u] = "frame" <=> poll[u] = "frame"
                         /\ poll'[u] = "cut" <=> poll[u] = "cut"
                         /\ reader'[u] = "new" => reader[u] = "new"
  BY DEF Others
<1>2. FrameInv'
  BY <1>1, QuietFrames
<1>3. QED
  BY <1>2, OthersKept DEF IInv

-----------------------------------------------------------------------------
(* Readers *)

LEMMA ArrivesStep ==
    ASSUME IInv, NEW r \in Readers,
           Respond(r) \/ RespondFails(r) \/ Receive(r) \/ GivesUp(r)
    PROVE  IInv'
<1>1. PICK s \in {"reads", "answered", "done", "abandoned"} :
        /\ reader' = [reader EXCEPT ![r] = s]
        /\ \/ reader[r] \in {"new", "invoked", "answered"}
           \/ s = "abandoned" /\ reader[r] \in {"asked", "invoked", "answered", "reads"}
        /\ lock' = lock /\ WaitersOK'
        /\ UNCHANGED <<poll, produced, held, got, bytes, borrowed, messages, dropping, visits>>
  <2>1. WaitersOK
    BY DEF IInv, TypeOK, WaitersOK
  <2>2. CASE Respond(r)
    <3>1. lock' = lock /\ WaitersOK'
      BY <2>1, <2>2, MutexIs DEF Respond
    <3>2. QED
      BY <2>2, <3>1 DEF Respond, Moves
  <2>3. CASE RespondFails(r) \/ Receive(r) \/ GivesUp(r)
    BY <2>1, <2>3, MutexIs DEF RespondFails, Receive, GivesUp, Moves, guestVars
  <2>4. QED
    BY <2>2, <2>3
<1>2. TypeOK'
  BY <1>1 DEF IInv, TypeOK, WaitersOK
<1>3. reader'[r] = s /\ \A u \in Readers \ {r} : reader'[u] = reader[u]
  BY <1>1 DEF IInv, TypeOK
<1>4. Others(r)
  BY <1>1, <1>3 DEF Others
<1>5. ReaderInv(r)'
  <2>1. ReaderInv(r)
    BY DEF IInv
  <2>2. /\ Len(got[r]) \in Nat /\ Len(held[r]) \in Nat /\ InCallFrame(r) \in {0, 1}
        /\ produced[r] \in Nat /\ Reached(r) \in Nat
    BY SeqTypes DEF IInv
  <2>3. /\ Reached(r)' = Reached(r) /\ Reached(r) \in Nat /\ Reached(r) <= produced[r]
        /\ poll[r] # "cut" /\ (poll[r] \in {"waits", "calls", "frame"} => s = "abandoned")
    <3>1. Reached(r)' = Reached(r)
      BY <1>1 DEF Reached, InCallFrame
    <3>2. Reached(r) \in Nat
      BY <2>2
    <3>3. /\ Reached(r) <= produced[r] /\ poll[r] # "cut"
          /\ poll[r] \in {"waits", "calls", "frame"} => s = "abandoned"
      BY <1>1, <2>1 DEF ReaderInv
    <3>4. QED
      BY <3>1, <3>2, <3>3
  <2>4. s # "abandoned" => produced[r] = 0
    BY <1>1, <2>1 DEF ReaderInv
  <2>5. Reached(r) = produced[r] \/ s = "done"
    <3>1. produced[r] = 0 \/ Reached(r) = produced[r] \/ s = "done"
      BY <1>1, <2>1 DEF ReaderInv
    <3>2. QED
      BY <2>2, <2>3, <3>1
  <2>6. QED
    BY <1>1, <1>3, <2>1, <2>3, <2>4, <2>5 DEF ReaderInv
<1>6. QED
  BY <1>1, <1>2, <1>3, <1>4, <1>5, QuietStep

LEMMA FetchStep ==
    ASSUME IInv, NEW r \in Readers, Fetch(r)
    PROVE  IInv'
<1>1. /\ reader[r] = "new" /\ reader' = [reader EXCEPT ![r] = "asked"]
      /\ messages' = Append(messages, Frame(r, 0))
      /\ UNCHANGED <<poll, produced, held, got, lock, waiters, bytes, borrowed, dropping, visits>>
  BY DEF Fetch, Moves, guestVars, mutexVars
<1>2. Frame(r, 0) \in Messages /\ Frame(r, 0).reader = r /\ Frame(r, 0).index = 0
  BY FrameIs
<1>3. ~BeingFreed(Frame(r, 0))
  BY <1>1 DEF IInv, FrameInv
<1>4. /\ messages' \in Seq(Messages) /\ Distinct'
      /\ \A g : BeingFreed(g)' <=> BeingFreed(g) \/ g = Frame(r, 0)
  BY <1>1, <1>2, <1>3, QueueAppend DEF IInv, FrameInv
<1>5. TypeOK'
  BY <1>1, <1>4 DEF IInv, TypeOK, WaitersOK
<1>6. reader'[r] = "asked" /\ \A u \in Readers \ {r} : reader'[u] = reader[u]
  BY <1>1 DEF IInv, TypeOK
<1>7. Others(r)
  BY <1>1, <1>6 DEF Others
<1>8. ReaderInv(r)'
  <2>1. ReaderInv(r) /\ Reached(r)' = Reached(r)
    BY <1>1 DEF IInv, Reached, InCallFrame
  <2>2. QED
    BY <1>1, <1>6, <2>1 DEF ReaderInv
<1>9. FrameInv'
  <2>1. \A u \in Readers : \A i : Awaited(u, i)' <=> Awaited(u, i)
    BY <1>1 DEF Awaited, Reached, InCallFrame
  <2>2. ASSUME NEW u \in Readers, NEW i \in Nat, Awaited(u, i)
        PROVE  Frame(u, i) \in bytes /\ ~BeingFreed(Frame(u, i))'
    <3>1. Frame(u, i) \in bytes /\ ~BeingFreed(Frame(u, i))
      BY <2>2 DEF IInv, FrameInv
    <3>2. i # 0
      BY <2>2, SeqTypes DEF IInv, Awaited
    <3>3. Frame(u, i) # Frame(r, 0)
      BY <3>2, FramesDiffer
    <3>4. QED
      BY <1>4, <3>1, <3>3
  <2>3. \A f \in Messages : BeingFreed(f)' => f.index <= produced[f.reader]
    <3>1. 0 <= produced[r]
      BY SeqTypes DEF IInv
    <3>2. QED
      BY <1>2, <1>4, <3>1 DEF IInv, FrameInv
  <2>4. \A u \in Readers : reader'[u] = "new" => ~BeingFreed(Frame(u, 0))'
    BY <1>4, <1>6, FramesDiffer DEF IInv, FrameInv
  <2>5. \A f \in bytes : f.reader \in Readers
    BY DEF IInv, TypeOK
  <2>6. ~borrowed => \A f \in bytes : \/ Awaited(f.reader, f.index)' \/ BeingFreed(f)'
                                      \/ Orphan(f.reader, f.index)'
    BY <1>1, <1>4, <2>1, <2>5 DEF IInv, FrameInv, Orphan
  <2>7. QED
    BY <1>1, <1>4, <2>1, <2>2, <2>3, <2>4, <2>6 DEF FrameInv
<1>10. QED
  BY <1>5, <1>7, <1>8, <1>9, OthersKept DEF IInv

ReaderStates == {"new", "asked", "invoked", "answered", "reads", "done", "abandoned"}
PollStates == {"none", "waits", "calls", "frame", "cut"}

\* What a step of a poll does that neither begins nor ends with a frame.
Polls(r) ==
    /\ reader' \in [Readers -> ReaderStates] /\ poll' \in [Readers -> PollStates]
    /\ \A u \in Readers \ {r} : reader'[u] = reader[u] /\ poll'[u] = poll[u]
    /\ reader[r] = "reads" /\ poll[r] # "frame" /\ poll'[r] \in {"none", "waits", "calls"}
    /\ reader'[r] \in {"reads", "done"}
    /\ reader'[r] = "done" => poll'[r] = "none"
    /\ UNCHANGED <<produced, held, got, bytes, borrowed, messages, dropping>>
    /\ \/ poll'[r] # "calls" /\ poll[r] # "calls" /\ lock' = lock
       \/ poll'[r] = "calls" /\ lock = Nobody /\ lock' = r
       \/ poll'[r] = "none" /\ lock = r /\ lock' = Nobody
    /\ visits' \in 0..MaxVisits /\ WaitersOK'

LEMMA PollsStep ==
    ASSUME IInv, NEW r \in Readers, Polls(r)
    PROVE  IInv'
<1>1. TypeOK'
  BY DEF IInv, TypeOK, WaitersOK, Polls, ReaderStates, PollStates
<1>2. r # Nobody /\ ReaderInv(r)
  BY StreamsAssumption DEF IInv
<1>3. Others(r)
  BY StreamsAssumption DEF Polls, Others
<1>4. Reached(r)' = Reached(r)
  BY DEF Polls, Reached, InCallFrame
<1>5. poll'[r] \in {"calls", "frame"} <=> lock' = r
  BY <1>2 DEF Polls, ReaderInv
<1>6. ReaderInv(r)'
  BY <1>2, <1>4, <1>5 DEF ReaderInv, Polls
<1>7. poll[r] # "cut" /\ poll'[r] # "cut"
  BY <1>2 DEF Polls, ReaderInv
<1>8. QED
  BY <1>1, <1>3, <1>6, <1>7, QuietStep DEF Polls

LEMMA PollStep ==
    ASSUME IInv, NEW r \in Readers,
           \/ PollFrame(r) \/ TakesLock(r) \/ WaitsAgain(r) \/ Pends(r) \/ Ends(r)
           \/ FunctionBusy(r) /\ r \in Guests
    PROVE  IInv'
<1>1. /\ reader \in [Readers -> ReaderStates] /\ poll \in [Readers -> PollStates]
      /\ visits \in 0..MaxVisits /\ MaxVisits \in Nat
      /\ poll[r] = "calls" => lock = r
  BY StreamsAssumption DEF IInv, TypeOK, ReaderInv, ReaderStates, PollStates
<1>2. WaitersOK /\ r \in Readers \cup {Loop}
  BY DEF IInv, TypeOK, WaitersOK
<1>3. CASE PollFrame(r)
  <2>1. \/ lock = Nobody /\ lock' = r /\ WaitersOK' /\ poll' = [poll EXCEPT ![r] = "calls"]
        \/ lock' = lock /\ WaitersOK' /\ poll' = [poll EXCEPT ![r] = "waits"]
    BY <1>2, <1>3, MutexIs DEF PollFrame
  <2>2. QED
    BY <1>1, <1>3, <2>1, PollsStep DEF PollFrame, Polls, ReaderStates, PollStates
<1>4. CASE TakesLock(r)
  <2>1. lock = Nobody /\ lock' = r /\ WaitersOK'
    BY <1>2, <1>4, MutexIs DEF TakesLock
  <2>2. QED
    BY <1>1, <1>4, <2>1, PollsStep DEF TakesLock, Waits, Polls, ReaderStates, PollStates
<1>5. CASE WaitsAgain(r)
  <2>1. lock' = lock /\ WaitersOK'
    BY <1>2, <1>5, MutexIs DEF WaitsAgain
  <2>2. QED
    BY <1>1, <1>5, <2>1, PollsStep
    DEF WaitsAgain, Waits, Polls, ReaderStates, PollStates, readerVars
<1>6. CASE Pends(r)
  <2>1. lock' = Nobody /\ WaitersOK'
    BY <1>2, <1>6, MutexIs DEF Pends
  <2>2. QED
    BY <1>1, <1>6, <2>1, PollsStep DEF Pends, InCall, Polls, ReaderStates, PollStates
<1>7. CASE Ends(r)
  <2>1. lock' = Nobody /\ WaitersOK'
    BY <1>2, <1>7, MutexIs DEF Ends
  <2>2. QED
    BY <1>1, <1>7, <2>1, PollsStep DEF Ends, InCall, Moves, Polls, ReaderStates, PollStates
<1>8. CASE FunctionBusy(r) /\ r \in Guests
  <2>1. r \notin Clients
    BY <1>8, StreamsAssumption
  <2>2. lock' = lock /\ WaitersOK'
    BY <1>2, <1>8, MutexIs DEF FunctionBusy
  <2>3. QED
    BY <1>1, <1>8, <2>1, <2>2, PollsStep
    DEF FunctionBusy, Waits, Polls, ReaderStates, PollStates
<1>9. QED
  BY <1>3, <1>4, <1>5, <1>6, <1>7, <1>8

\* A reader lets go of its body, and of the mutex if it has it.
LEMMA LetsGo ==
    ASSUME IInv, NEW r \in Readers, Leaves(r), bytes' = bytes,
           (lock' = lock /\ lock # r) \/ (lock' = Nobody /\ lock = r),
           WaitersOK', borrowed' \in BOOLEAN, borrowed => borrowed'
    PROVE  IInv'
<1>1. /\ reader[r] = "reads" /\ reader' = [reader EXCEPT ![r] = "done"]
      /\ held' = [held EXCEPT ![r] = <<>>]
      /\ poll' = [poll EXCEPT ![r] = IF @ = "frame" THEN "cut" ELSE "none"]
      /\ messages' = messages \o Freed(r)
      /\ UNCHANGED <<produced, got, dropping, visits>>
  BY DEF Leaves, Moves
<1>2. /\ messages' \in Seq(Messages) /\ Distinct'
      /\ \A g : BeingFreed(g)' <=>
           BeingFreed(g) \/ \E k \in 1..Len(held[r]) : g = Frame(r, held[r][k])
  BY <1>1, QueueFrees
<1>3. /\ reader'[r] = "done" /\ held'[r] = <<>>
      /\ poll'[r] = IF poll[r] = "frame" THEN "cut" ELSE "none"
      /\ \A u \in Readers \ {r} :
           reader'[u] = reader[u] /\ held'[u] = held[u] /\ poll'[u] = poll[u]
  BY <1>1 DEF IInv, TypeOK
<1>4. <<>> \in Seq(Nat \ {0}) /\ Len(<<>>) = 0
  BY EmptySeq
<1>5. TypeOK'
  BY <1>1, <1>2, <1>4 DEF IInv, TypeOK, WaitersOK
<1>6. /\ Len(got[r]) \in Nat /\ Len(held[r]) \in Nat /\ InCallFrame(r) \in {0, 1}
      /\ \A k \in 1..Len(held[r]) : held[r][k] \in Nat \ {0}
      /\ produced[r] \in Nat
  BY SeqTypes DEF IInv
<1>7. Others(r)
  BY <1>1, <1>3, StreamsAssumption DEF Others
<1>8. Reached(r)' = Len(got[r])
  <2>1. InCallFrame(r)' = 0 /\ Len(held'[r]) = 0 /\ Len(got'[r]) = Len(got[r])
    BY <1>1, <1>3, <1>4 DEF InCallFrame
  <2>2. QED
    BY <1>6, <2>1 DEF Reached
<1>9. Len(got[r]) <= produced[r]
  <2>1. PICK a \in Nat, b \in Nat, c \in {0, 1} :
          a = Len(got[r]) /\ b = Len(held[r]) /\ c = InCallFrame(r)
    BY <1>6
  <2>2. a + b + c <= produced[r]
    BY <2>1 DEF IInv, ReaderInv, Reached
  <2>3. PICK p \in Nat : p = produced[r]
    BY <1>6
  <2>4. a <= p
    BY <2>2, <2>3
  <2>5. QED
    BY <2>1, <2>3, <2>4
<1>10. ReaderInv(r)'
  <2>1. lock' # r /\ ReaderInv(r)
    BY StreamsAssumption DEF IInv
  <2>2. QED
    BY <1>1, <1>3, <1>4, <1>8, <1>9, <2>1 DEF ReaderInv
<1>11. FrameInv'
  <2>1. \A u \in Readers \ {r} : \A i : Awaited(u, i)' <=> Awaited(u, i)
    BY <1>1, <1>3 DEF Awaited, Reached, InCallFrame
  <2>2. \A i \in Nat : ~Awaited(r, i)'
    BY <1>1, <1>6, <1>8 DEF Awaited
  <2>3. ASSUME NEW u \in Readers, NEW i \in Nat, Awaited(u, i)'
        PROVE  Frame(u, i) \in bytes /\ ~BeingFreed(Frame(u, i))'
    <3>1. u # r /\ Awaited(u, i)
      BY <2>1, <2>2, <2>3
    <3>2. Frame(u, i) \in bytes /\ ~BeingFreed(Frame(u, i))
      BY <3>1 DEF IInv, FrameInv
    <3>3. \A k \in 1..Len(held[r]) : Frame(u, i) # Frame(r, held[r][k])
      BY <1>6, <3>1, FramesDiffer
    <3>4. QED
      BY <1>2, <3>2, <3>3
  <2>4. ASSUME NEW f \in Messages, BeingFreed(f)' PROVE f.index <= produced[f.reader]
    <3>1. CASE BeingFreed(f)
      BY <3>1 DEF IInv, FrameInv
    <3>2. ASSUME NEW k \in 1..Len(held[r]), f = Frame(r, held[r][k])
          PROVE  f.index <= produced[f.reader]
      <4>1. Awaited(r, held[r][k]) /\ f.index = held[r][k] /\ f.reader = r
        BY <1>6, <3>2, HeldAwaited, FrameIs
      <4>2. Reached(r) <= produced[r] /\ Reached(r) \in Nat /\ held[r][k] \in Nat
        BY <1>6, SeqTypes DEF IInv, ReaderInv
      <4>3. QED
        BY <1>6, <4>1, <4>2 DEF Awaited
    <3>3. QED
      BY <1>2, <2>4, <3>1, <3>2
  <2>5. ASSUME NEW u \in Readers, reader'[u] = "new" PROVE ~BeingFreed(Frame(u, 0))'
    <3>1. u # r /\ ~BeingFreed(Frame(u, 0))
      BY <1>3, <2>5 DEF IInv, FrameInv
    <3>2. \A k \in 1..Len(held[r]) : Frame(u, 0) # Frame(r, held[r][k])
      BY <1>6, FramesDiffer
    <3>3. QED
      BY <1>2, <3>1, <3>2
  <2>6. ASSUME ~borrowed', NEW f \in bytes
        PROVE  Awaited(f.reader, f.index)' \/ BeingFreed(f)' \/ Orphan(f.reader, f.index)'
    <3>1. f \in Messages /\ f.reader \in Readers /\ f.index \in Nat
          /\ f = Frame(f.reader, f.index)
      <4>1. f \in Messages
        BY DEF IInv, TypeOK, Messages
      <4>2. QED
        BY <4>1, MessageIs
    <3>2. Awaited(f.reader, f.index) \/ BeingFreed(f) \/ Orphan(f.reader, f.index)
      BY <2>6 DEF IInv, FrameInv
    <3>3. CASE f.reader = r /\ Awaited(r, f.index) /\ poll[r] = "frame" /\ f.index = produced[r]
      BY <1>1, <1>3, <3>3 DEF Orphan
    <3>4. CASE f.reader = r /\ Awaited(r, f.index) /\ ~(poll[r] = "frame" /\ f.index = produced[r])
      <4>1. InCallFrame(r) = 0 \/ (InCallFrame(r) = 1 /\ f.index # Reached(r))
        BY <1>1, <3>4 DEF InCallFrame, IInv, ReaderInv
      <4>2. PICK a \in Nat, b \in Nat : a = Len(got[r]) /\ b = Len(held[r])
        BY <1>6
      <4>3. a < f.index /\ f.index <= a + b
        <5>1. /\ a < f.index
              /\ f.index <= a + b + 0 \/ (f.index <= a + b + 1 /\ f.index # a + b + 1)
          BY <3>4, <4>1, <4>2 DEF Awaited, Reached
        <5>2. QED
          BY <3>1, <5>1
      <4>4. PICK k \in 1..b : f.index = a + k
        <5>1. f.index - a \in 1..b /\ f.index = a + (f.index - a)
          BY <3>1, <4>3
        <5>2. QED
          BY <5>1
      <4>5. held[r][k] = a + k
        BY <4>2, HeldAwaited
      <4>6. QED
        BY <1>2, <3>1, <3>4, <4>2, <4>4, <4>5
    <3>5. CASE f.reader = r /\ ~Awaited(r, f.index)
      <4>1. ~Orphan(r, f.index)
        BY <1>1 DEF Orphan, IInv, ReaderInv
      <4>2. QED
        BY <1>2, <3>2, <3>5, <4>1
    <3>6. CASE f.reader # r
      <4>1. Orphan(f.reader, f.index)' <=> Orphan(f.reader, f.index)
        BY <1>1, <1>3, <3>1, <3>6 DEF Orphan
      <4>2. QED
        BY <1>2, <2>1, <3>1, <3>2, <3>6, <4>1
    <3>7. QED
      BY <3>3, <3>4, <3>5, <3>6
  <2>7. QED
    BY <1>1, <1>2, <2>3, <2>4, <2>5, <2>6 DEF FrameInv
<1>12. QED
  BY <1>5, <1>7, <1>10, <1>11, OthersKept DEF IInv

LEMMA LeavesStep ==
    ASSUME IInv, NEW r \in Readers,
           \/ StreamFails(r) \/ Traps(r) \/ Closes(r)
           \/ FunctionBusy(r) /\ r \in Clients
    PROVE  IInv'
<1>1. /\ borrowed \in BOOLEAN /\ ReaderInv(r)
      /\ WaitersOK /\ r \in Readers \cup {Loop}
  BY DEF IInv, TypeOK, WaitersOK
<1>2. CASE StreamFails(r)
  <2>1. lock' = Nobody /\ WaitersOK'
    BY <1>1, <1>2, MutexIs DEF StreamFails
  <2>2. QED
    BY <1>1, <1>2, <2>1, LetsGo DEF StreamFails, InCall, ReaderInv
<1>3. CASE Traps(r)
  <2>1. lock' = Nobody /\ WaitersOK'
    BY <1>1, <1>3, MutexIs DEF Traps
  <2>2. QED
    BY <1>1, <1>3, <2>1, LetsGo DEF Traps, InCall, ReaderInv
<1>4. CASE Closes(r)
  <2>1. Leaves(r) /\ bytes' = bytes
    BY <1>4 DEF Closes
  <2>2. CASE lock = r
    <3>1. Unlock /\ borrowed' \in {borrowed, TRUE}
      BY <1>4, <2>2, <1>1 DEF Closes, ReaderInv
    <3>2. lock' = Nobody /\ WaitersOK'
      BY <1>1, <3>1, MutexIs
    <3>3. borrowed' \in BOOLEAN /\ (borrowed => borrowed')
      <4>1. borrowed' = borrowed \/ borrowed' = TRUE
        BY <3>1
      <4>2. QED
        BY <1>1, <4>1, Zenon
    <3>4. QED
      BY <2>1, <2>2, <3>2, <3>3, LetsGo
  <2>3. CASE lock # r
    <3>1. (StopsWaiting(r) \/ UNCHANGED mutexVars) /\ borrowed' = borrowed
      <4>1. CASE poll[r] = "waits"
        BY <1>4, <2>3, <4>1 DEF Closes
      <4>2. CASE poll[r] # "waits"
        BY <1>4, <2>3, <4>2 DEF Closes
      <4>3. QED
        BY <4>1, <4>2
    <3>2. lock' = lock /\ WaitersOK'
      BY <1>1, <3>1, MutexIs
    <3>3. QED
      BY <1>1, <2>1, <2>3, <3>1, <3>2, LetsGo
  <2>4. QED
    BY <2>2, <2>3
<1>5. CASE FunctionBusy(r) /\ r \in Clients
  <2>1. r \notin Guests
    BY <1>5, StreamsAssumption
  <2>2. Leaves(r) /\ poll[r] = "waits" /\ StopsWaiting(r) /\ UNCHANGED <<bytes, borrowed>>
    BY <1>5, <2>1 DEF FunctionBusy, Waits
  <2>3. lock' = lock /\ WaitersOK' /\ lock # r
    BY <1>1, <2>2, MutexIs DEF ReaderInv
  <2>4. QED
    BY <1>1, <2>2, <2>3, LetsGo
<1>6. QED
  BY <1>2, <1>3, <1>4, <1>5

LEMMA YieldsStep ==
    ASSUME IInv, NEW r \in Readers, Yields(r)
    PROVE  IInv'
<1>1. /\ reader[r] = "reads" /\ poll[r] = "calls" /\ produced[r] < Frames[r]
      /\ produced' = [produced EXCEPT ![r] = @ + 1]
      /\ bytes' = bytes \cup {Frame(r, produced[r] + 1)}
      /\ poll' = [poll EXCEPT ![r] = "frame"]
      /\ UNCHANGED <<reader, held, got, lock, waiters, borrowed, messages, dropping, visits>>
  BY DEF Yields, InCall, mutexVars
<1>2. PICK p \in Nat : p = produced[r]
  BY SeqTypes DEF IInv
<1>3. /\ poll'[r] = "frame" /\ produced'[r] = p + 1
      /\ \A u \in Readers \ {r} : poll'[u] = poll[u] /\ produced'[u] = produced[u]
  BY <1>1, <1>2 DEF IInv, TypeOK
<1>4. p + 1 \in Nat \ {0} /\ p + 1 > p
  OBVIOUS
<1>5. PICK f : f = Frame(r, p + 1)
  OBVIOUS
<1>6. f \in Messages /\ f \in BodyFrames /\ f.reader = r /\ f.index = p + 1
  BY <1>4, <1>5, FrameIs
<1>7. bytes' = bytes \cup {f}
  BY <1>1, <1>2, <1>5
<1>8. TypeOK'
  <2>1. p + 1 <= Frames[r] /\ Frames[r] \in Nat
    BY <1>1, <1>2, StreamsAssumption
  <2>2. produced' \in [Readers -> Nat] /\ \A u \in Readers : produced'[u] <= Frames[u]
    BY <1>1, <1>2, <1>3, <1>4, <2>1 DEF IInv, TypeOK
  <2>3. QED
    BY <1>1, <1>6, <1>7, <2>2 DEF IInv, TypeOK, WaitersOK, BodyFrames
<1>9. Others(r)
  BY <1>1, <1>3 DEF Others
<1>10. Reached(r) = p /\ Reached(r)' = p + 1
  <2>1. Reached(r) = p /\ InCallFrame(r) = 0 /\ InCallFrame(r)' = 1
    BY <1>1, <1>2, <1>3 DEF IInv, ReaderInv, InCallFrame
  <2>2. PICK a \in Nat, b \in Nat : a = Len(got[r]) /\ b = Len(held[r])
    BY SeqTypes DEF IInv
  <2>3. a + b + 0 = p /\ Reached(r)' = a + b + 1
    BY <1>1, <2>1, <2>2 DEF Reached
  <2>4. QED
    BY <2>1, <2>3
<1>11. ReaderInv(r)'
  <2>1. ReaderInv(r)
    BY DEF IInv
  <2>2. QED
    BY <1>1, <1>3, <1>4, <1>10, <2>1 DEF ReaderInv
<1>12. FrameInv'
  <2>1. \A g : BeingFreed(g)' <=> BeingFreed(g)
    BY <1>1 DEF BeingFreed
  <2>2. \A u \in Readers \ {r} : \A i : Awaited(u, i)' <=> Awaited(u, i)
    BY <1>1, <1>3 DEF Awaited, Reached, InCallFrame
  <2>3. \A i \in Nat : Awaited(r, i)' => Awaited(r, i) \/ i = p + 1
    BY <1>1, <1>10 DEF Awaited
  <2>4. \A i \in Nat : Awaited(r, i) => Awaited(r, i)'
    BY <1>1, <1>10 DEF Awaited
  <2>5. Awaited(r, p + 1)'
    <3>1. PICK a \in Nat, b \in Nat, c \in {0, 1} :
            a = Len(got[r]) /\ b = Len(held[r]) /\ c = InCallFrame(r)
      BY SeqTypes DEF IInv
    <3>2. a + b + c = p
      BY <1>10, <3>1 DEF Reached
    <3>3. a < p + 1
      BY <3>2
    <3>4. QED
      BY <1>1, <1>10, <3>1, <3>3 DEF Awaited
  <2>6. ~BeingFreed(f)
    BY <1>2, <1>4, <1>5, BeyondIsNew
  <2>7. ASSUME NEW u \in Readers, NEW i \in Nat, Awaited(u, i)'
        PROVE  Frame(u, i) \in bytes' /\ ~BeingFreed(Frame(u, i))'
    <3>1. CASE Awaited(u, i)
      BY <1>7, <2>1, <3>1 DEF IInv, FrameInv
    <3>2. CASE u = r /\ i = p + 1
      BY <1>5, <1>7, <2>1, <2>6, <3>2
    <3>3. QED
      BY <2>2, <2>3, <2>7, <3>1, <3>2
  <2>8. ASSUME NEW g \in Messages, BeingFreed(g)' PROVE g.index <= produced'[g.reader]
    <3>1. g.index <= produced[g.reader] /\ g.reader \in Readers /\ g.index \in Nat
      BY <2>1, <2>8, MessageIs DEF IInv, FrameInv
    <3>2. produced[g.reader] \in Nat
      BY <3>1, SeqTypes DEF IInv
    <3>3. CASE g.reader = r
      BY <1>2, <1>3, <3>1, <3>3
    <3>4. CASE g.reader # r
      BY <1>3, <3>1, <3>4
    <3>5. QED
      BY <3>3, <3>4
  <2>9. \A u \in Readers : reader'[u] = "new" => ~BeingFreed(Frame(u, 0))'
    BY <1>1, <2>1 DEF IInv, FrameInv
  <2>10. ASSUME ~borrowed', NEW g \in bytes'
         PROVE  Awaited(g.reader, g.index)' \/ BeingFreed(g)' \/ Orphan(g.reader, g.index)'
    <3>1. CASE g = f
      BY <1>6, <2>5, <3>1
    <3>2. CASE g \in bytes
      <4>1. g.reader \in Readers /\ g.index \in Nat
        BY <3>2 DEF IInv, TypeOK
      <4>2. \/ Awaited(g.reader, g.index) \/ BeingFreed(g)
            \/ Orphan(g.reader, g.index) /\ g.reader # r
        BY <1>1, <2>10, <3>2 DEF IInv, FrameInv, Orphan
      <4>3. Orphan(g.reader, g.index) /\ g.reader # r => Orphan(g.reader, g.index)'
        BY <1>1, <1>3, <4>1 DEF Orphan
      <4>4. QED
        BY <2>1, <2>2, <2>4, <4>1, <4>2, <4>3
    <3>3. QED
      BY <1>7, <2>10, <3>1, <3>2
  <2>11. Distinct'
    BY <1>1 DEF IInv, FrameInv, Distinct
  <2>12. QED
    BY <2>7, <2>8, <2>9, <2>10, <2>11 DEF FrameInv
<1>13. QED
  BY <1>8, <1>9, <1>11, <1>12, OthersKept DEF IInv

LEMMA ReturnsStep ==
    ASSUME IInv, NEW r \in Readers, Returns(r)
    PROVE  IInv'
<1>1. /\ reader[r] = "reads" /\ poll[r] = "frame" /\ lock' = Nobody
      /\ held' = [held EXCEPT ![r] = Append(@, produced[r])]
      /\ poll' = [poll EXCEPT ![r] = "none"]
      /\ WaitersOK'
      /\ UNCHANGED <<reader, produced, got, bytes, borrowed, messages, dropping, visits>>
  <2>1. WaitersOK
    BY DEF IInv, TypeOK, WaitersOK
  <2>2. QED
    BY <2>1, MutexIs DEF Returns
<1>2. PICK a \in Nat, b \in Nat, h \in Seq(Nat \ {0}) :
        a = Len(got[r]) /\ b = Len(held[r]) /\ h = held[r]
  BY SeqTypes DEF IInv, TypeOK
<1>3. InCallFrame(r) = 1 /\ ReaderInv(r) /\ lock = r
  BY <1>1 DEF IInv, ReaderInv, InCallFrame
<1>4. Reached(r) = a + b + 1 /\ produced[r] = a + b + 1
  BY <1>1, <1>2, <1>3 DEF ReaderInv, Reached
<1>5. a + b + 1 \in Nat \ {0}
  OBVIOUS
<1>6. PICK q : q = Append(h, a + b + 1)
  OBVIOUS
<1>7. /\ q \in Seq(Nat \ {0}) /\ Len(q) = b + 1
      /\ \A k \in 1..b : q[k] = h[k]
      /\ q[b + 1] = a + b + 1
  <2>1. PICK v \in Nat \ {0} : v = a + b + 1
    BY <1>5
  <2>2. /\ Append(h, v) \in Seq(Nat \ {0}) /\ Len(Append(h, v)) = Len(h) + 1
        /\ \A k \in 1..Len(h) : Append(h, v)[k] = h[k]
        /\ Append(h, v)[Len(h) + 1] = v
    BY AppendProperties
  <2>3. q = Append(h, v) /\ Len(h) = b
    BY <1>2, <1>6, <2>1
  <2>4. QED
    BY <2>1, <2>2, <2>3
<1>8. /\ held'[r] = q /\ poll'[r] = "none"
      /\ \A u \in Readers \ {r} : held'[u] = held[u] /\ poll'[u] = poll[u]
  BY <1>1, <1>2, <1>4, <1>6 DEF IInv, TypeOK
<1>9. TypeOK'
  <2>1. held' \in [Readers -> Seq(Nat \ {0})]
    BY <1>1, <1>2, <1>4, <1>6, <1>7 DEF IInv, TypeOK
  <2>2. QED
    BY <1>1, <2>1 DEF IInv, TypeOK, WaitersOK
<1>10. Others(r)
  BY <1>1, <1>3, <1>8, StreamsAssumption DEF Others
<1>11. Reached(r)' = Reached(r)
  <2>1. InCallFrame(r)' = 0 /\ Len(got'[r]) = a /\ Len(held'[r]) = b + 1
    BY <1>1, <1>2, <1>7, <1>8 DEF InCallFrame
  <2>2. Reached(r)' = a + (b + 1) + 0
    BY <2>1 DEF Reached
  <2>3. QED
    BY <1>4, <2>2
<1>12. ReaderInv(r)'
  <2>1. \A k \in 1..(b + 1) : q[k] = a + k
    <3>1. \A k \in 1..b : h[k] = a + k
      BY <1>2, <1>3 DEF ReaderInv
    <3>2. \A k \in 1..(b + 1) : k \in 1..b \/ k = b + 1
      OBVIOUS
    <3>3. a + b + 1 = a + (b + 1)
      OBVIOUS
    <3>4. QED
      BY <1>7, <3>1, <3>2, <3>3
  <2>2. \A k \in 1..Len(held'[r]) : held'[r][k] = Len(got'[r]) + k
    BY <1>1, <1>2, <1>7, <1>8, <2>1
  <2>3. lock' # r
    BY <1>1, StreamsAssumption
  <2>4. QED
    BY <1>1, <1>3, <1>8, <1>11, <2>2, <2>3 DEF ReaderInv
<1>13. FrameInv'
  <2>1. \A g : BeingFreed(g)' <=> BeingFreed(g)
    BY <1>1 DEF BeingFreed
  <2>2. \A u \in Readers : Reached(u)' = Reached(u)
    BY <1>1, <1>8, <1>11 DEF Reached, InCallFrame
  <2>3. \A u \in Readers : \A i : Awaited(u, i)' <=> Awaited(u, i)
    BY <1>1, <2>2 DEF Awaited
  <2>4. \A f \in bytes : f.reader \in Readers
    BY DEF IInv, TypeOK
  <2>5. Distinct'
    BY <1>1 DEF IInv, FrameInv, Distinct
  <2>6. \A f \in bytes : Orphan(f.reader, f.index) => Orphan(f.reader, f.index)'
    BY <1>1, <1>8, <2>4 DEF Orphan
  <2>7. QED
    BY <1>1, <2>1, <2>3, <2>4, <2>5, <2>6 DEF IInv, FrameInv
<1>14. QED
  BY <1>9, <1>10, <1>12, <1>13, OthersKept DEF IInv

LEMMA ConsumeStep ==
    ASSUME IInv, NEW r \in Readers, Consume(r)
    PROVE  IInv'
<1>1. /\ held[r] # <<>>
      /\ got' = [got EXCEPT ![r] = Append(@, Head(held[r]))]
      /\ held' = [held EXCEPT ![r] = Tail(@)]
      /\ messages' = Append(messages, Frame(r, Head(held[r])))
      /\ UNCHANGED <<reader, poll, produced, lock, waiters, bytes, borrowed, dropping, visits>>
  BY DEF Consume, guestVars, mutexVars
<1>2. PICK h \in Seq(Nat \ {0}), g \in Seq(Nat \ {0}) : h = held[r] /\ g = got[r]
  BY DEF IInv, TypeOK
<1>3. PICK a \in Nat, b \in Nat : a = Len(g) /\ b = Len(h)
  BY LenProperties
<1>4. PICK x, y, z : x = Head(h) /\ y = Tail(h) /\ z = Append(g, x)
  OBVIOUS
<1>5. /\ x \in Nat \ {0} /\ x = h[1] /\ b >= 1
      /\ y \in Seq(Nat \ {0}) /\ Len(y) = b - 1
      /\ \A k \in 1..(b - 1) : y[k] = h[k + 1]
  BY <1>1, <1>2, <1>3, <1>4, HeadTailProperties
<1>6. /\ z \in Seq(Nat \ {0}) /\ Len(z) = a + 1
      /\ \A k \in 1..a : z[k] = g[k]
      /\ z[a + 1] = x
  BY <1>3, <1>4, <1>5, AppendProperties
<1>7. /\ held'[r] = y /\ got'[r] = z
      /\ \A u \in Readers \ {r} : held'[u] = held[u] /\ got'[u] = got[u]
  BY <1>1, <1>2, <1>4 DEF IInv, TypeOK
<1>8. /\ \A k \in 1..a : g[k] = k
      /\ \A k \in 1..b : h[k] = a + k
      /\ ReaderInv(r)
  BY <1>2, <1>3 DEF IInv, ReaderInv
<1>9. x = a + 1 /\ 1 \in 1..b
  BY <1>5, <1>8
<1>10. PICK f : f = Frame(r, x)
  OBVIOUS
<1>11. /\ f \in Messages /\ f.reader = r /\ f.index = x
       /\ ~BeingFreed(f) /\ Awaited(r, x)
  <2>1. Awaited(r, h[1]) /\ ~BeingFreed(Frame(r, h[1]))
    BY <1>2, <1>3, <1>9, HeldAwaited
  <2>2. QED
    BY <1>5, <1>10, <2>1, FrameIs
<1>12. messages' = Append(messages, f)
  BY <1>1, <1>2, <1>4, <1>10
<1>13. /\ messages' \in Seq(Messages) /\ Distinct'
       /\ \A i : BeingFreed(i)' <=> BeingFreed(i) \/ i = f
  BY <1>1, <1>11, <1>12, QueueAppend DEF IInv, FrameInv
<1>14. TypeOK'
  <2>1. held' \in [Readers -> Seq(Nat \ {0})] /\ got' \in [Readers -> Seq(Nat \ {0})]
    BY <1>1, <1>2, <1>4, <1>5, <1>6 DEF IInv, TypeOK
  <2>2. QED
    BY <1>1, <1>13, <2>1 DEF IInv, TypeOK, WaitersOK
<1>15. Others(r)
  BY <1>1, <1>7 DEF Others
<1>16. PICK c \in {0, 1} : c = InCallFrame(r) /\ c = InCallFrame(r)'
  BY <1>1 DEF InCallFrame
<1>17. Reached(r) = a + b + c /\ Reached(r)' = Reached(r)
  <2>1. Reached(r) = a + b + c
    BY <1>2, <1>3, <1>16 DEF Reached
  <2>2. Reached(r)' = (a + 1) + (b - 1) + c
    BY <1>5, <1>6, <1>7, <1>16 DEF Reached
  <2>3. QED
    BY <2>1, <2>2
<1>18. ReaderInv(r)'
  <2>1. \A k \in 1..(a + 1) : z[k] = k
    <3>1. \A k \in 1..(a + 1) : k \in 1..a \/ k = a + 1
      OBVIOUS
    <3>2. QED
      BY <1>6, <1>8, <1>9, <3>1
  <2>2. ASSUME NEW k \in 1..(b - 1) PROVE y[k] = (a + 1) + k
    <3>1. k + 1 \in 1..b /\ a + (k + 1) = (a + 1) + k
      OBVIOUS
    <3>2. QED
      BY <1>5, <1>8, <3>1
  <2>3. /\ \A k \in 1..Len(got'[r]) : got'[r][k] = k
        /\ \A k \in 1..Len(held'[r]) : held'[r][k] = Len(got'[r]) + k
    BY <1>5, <1>6, <1>7, <2>1, <2>2
  <2>4. QED
    BY <1>1, <1>8, <1>17, <2>3 DEF ReaderInv
<1>19. FrameInv'
  <2>1. \A u \in Readers \ {r} : \A i : Awaited(u, i)' <=> Awaited(u, i)
    BY <1>1, <1>7 DEF Awaited, Reached, InCallFrame
  <2>2. \A i \in Nat : Awaited(r, i)' <=> Awaited(r, i) /\ i # x
    <3>1. \A i \in Nat : /\ Awaited(r, i) <=> a < i /\ i <= a + b + c
                         /\ Awaited(r, i)' <=> a + 1 < i /\ i <= a + b + c
      BY <1>2, <1>3, <1>6, <1>7, <1>17 DEF Awaited
    <3>2. QED
      BY <1>9, <3>1
  <2>3. ASSUME NEW u \in Readers, NEW i \in Nat, Awaited(u, i)'
        PROVE  Frame(u, i) \in bytes /\ ~BeingFreed(Frame(u, i))'
    <3>1. Awaited(u, i) /\ (u = r => i # x)
      BY <2>1, <2>2, <2>3
    <3>2. Frame(u, i) \in bytes /\ ~BeingFreed(Frame(u, i))
      BY <3>1 DEF IInv, FrameInv
    <3>3. Frame(u, i) # f
      BY <1>5, <1>10, <3>1, FramesDiffer
    <3>4. QED
      BY <1>13, <3>2, <3>3
  <2>4. ASSUME NEW i \in Messages, BeingFreed(i)' PROVE i.index <= produced[i.reader]
    <3>1. CASE BeingFreed(i)
      BY <3>1 DEF IInv, FrameInv
    <3>2. CASE i = f
      <4>1. PICK p \in Nat : p = produced[r]
        BY SeqTypes DEF IInv
      <4>2. a + b + c <= p
        BY <1>8, <1>17, <4>1 DEF ReaderInv
      <4>3. a + 1 <= p
        BY <1>5, <4>2
      <4>4. QED
        BY <1>9, <1>11, <3>2, <4>1, <4>3
    <3>3. QED
      BY <1>13, <2>4, <3>1, <3>2
  <2>5. ASSUME NEW u \in Readers, reader'[u] = "new" PROVE ~BeingFreed(Frame(u, 0))'
    <3>1. ~BeingFreed(Frame(u, 0))
      BY <1>1, <2>5 DEF IInv, FrameInv
    <3>2. Frame(u, 0) # f
      BY <1>5, <1>10, FramesDiffer
    <3>3. QED
      BY <1>13, <3>1, <3>2
  <2>6. ASSUME ~borrowed, NEW i \in bytes
        PROVE  Awaited(i.reader, i.index)' \/ BeingFreed(i)' \/ Orphan(i.reader, i.index)'
    <3>1. i \in Messages /\ i.reader \in Readers /\ i.index \in Nat
          /\ i = Frame(i.reader, i.index)
      <4>1. i \in Messages
        BY DEF IInv, TypeOK, Messages
      <4>2. QED
        BY <4>1, MessageIs
    <3>2. Awaited(i.reader, i.index) \/ BeingFreed(i) \/ Orphan(i.reader, i.index)'
      BY <1>1, <2>6 DEF IInv, FrameInv, Orphan
    <3>3. QED
      BY <1>10, <1>13, <2>1, <2>2, <3>1, <3>2
  <2>7. QED
    BY <1>1, <1>13, <2>3, <2>4, <2>5, <2>6 DEF FrameInv
<1>20. QED
  BY <1>14, <1>15, <1>18, <1>19, OthersKept DEF IInv

-----------------------------------------------------------------------------
(* The worker loop, and others that use the mutex *)

LEMMA LoopInvokesStep ==
    ASSUME IInv, LoopInvokes
    PROVE  IInv'
<1>1. PICK h, r : h = Head(messages) /\ r = h.reader
  OBVIOUS
<1>2. /\ dropping = NoFrame /\ messages # <<>> /\ h.index = 0 /\ messages' = Tail(messages)
      /\ reader' = [reader EXCEPT ![r] = IF @ = "asked" THEN "invoked" ELSE @]
      /\ UNCHANGED <<poll, produced, held, got, lock, waiters, bytes, borrowed, dropping, visits>>
  BY <1>1 DEF LoopInvokes, guestVars, mutexVars
<1>3. /\ messages' \in Seq(Messages) /\ h \in Messages /\ Distinct'
      /\ \A g : BeingFreed(g)' => BeingFreed(g)
      /\ \A g : BeingFreed(g) /\ g # h => BeingFreed(g)'
  BY <1>1, <1>2, QueueTakes DEF IInv, FrameInv
<1>4. r \in Readers
  BY <1>1, <1>3, MessageIs
<1>5. /\ reader'[r] = IF reader[r] = "asked" THEN "invoked" ELSE reader[r]
      /\ \A u \in Readers \ {r} : reader'[u] = reader[u]
  BY <1>2, <1>4 DEF IInv, TypeOK
<1>6. TypeOK'
  BY <1>2, <1>3 DEF IInv, TypeOK, WaitersOK
<1>7. Others(r)
  BY <1>2, <1>5 DEF Others
<1>8. ReaderInv(r)'
  <2>1. ReaderInv(r) /\ Reached(r)' = Reached(r)
    BY <1>2, <1>4 DEF IInv, Reached, InCallFrame
  <2>2. CASE reader[r] = "asked"
    BY <1>2, <1>5, <2>1, <2>2 DEF ReaderInv
  <2>3. CASE reader[r] # "asked"
    BY <1>2, <1>5, <2>1, <2>3 DEF ReaderInv
  <2>4. QED
    BY <2>2, <2>3
<1>9. FrameInv'
  <2>1. \A u \in Readers : \A i : Awaited(u, i)' <=> Awaited(u, i)
    BY <1>2 DEF Awaited, Reached, InCallFrame
  <2>2. \A f \in bytes : f.reader \in Readers /\ f # h
    BY <1>2 DEF IInv, TypeOK
  <2>3. \A u \in Readers : reader'[u] = "new" => reader[u] = "new"
    BY <1>5
  <2>4. QED
    BY <1>2, <1>3, <2>1, <2>2, <2>3 DEF IInv, FrameInv, Orphan
<1>10. QED
  BY <1>4, <1>6, <1>7, <1>8, <1>9, OthersKept DEF IInv

LEMMA LoopTakesStep ==
    ASSUME IInv, LoopTakes
    PROVE  IInv'
<1>1. /\ dropping = NoFrame /\ messages # <<>> /\ Head(messages).index > 0
      /\ messages' = Tail(messages) /\ dropping' = Head(messages)
      /\ (lock = Nobody /\ lock' = Loop) \/ lock' = lock
      /\ WaitersOK'
      /\ UNCHANGED <<reader, poll, produced, held, got, bytes, borrowed, visits>>
  <2>1. WaitersOK
    BY DEF IInv, TypeOK, WaitersOK
  <2>2. /\ (lock = Nobody /\ lock' = Loop) \/ lock' = lock
        /\ WaitersOK'
    BY <2>1, MutexIs DEF LoopTakes
  <2>3. QED
    BY <2>2 DEF LoopTakes, readerVars
<1>2. /\ messages' \in Seq(Messages) /\ Head(messages) \in Messages /\ Distinct'
      /\ \A g \in Messages : BeingFreed(g)' <=> BeingFreed(g)
  BY <1>1, QueueTakes DEF IInv, FrameInv
<1>3. dropping' \in BodyFrames
  <2>1. \A f \in Messages : f.index > 0 => f \in BodyFrames
    BY DEF Messages, BodyFrames
  <2>2. QED
    BY <1>1, <1>2, <2>1
<1>4. TypeOK'
  BY <1>1, <1>2, <1>3 DEF IInv, TypeOK, WaitersOK, BodyFrames
<1>5. \A u \in Readers : ReaderInv(u)'
  BY <1>1, StreamsAssumption DEF IInv, ReaderInv, Reached, InCallFrame
<1>6. FrameInv'
  <2>1. \A u \in Readers : \A i : Awaited(u, i)' <=> Awaited(u, i)
    BY <1>1 DEF Awaited, Reached, InCallFrame
  <2>2. \A f \in bytes : f.reader \in Readers /\ f \in Messages
    BY DEF IInv, TypeOK, Messages
  <2>3. \A u \in Readers : \A i \in Nat : BeingFreed(Frame(u, i))' <=> BeingFreed(Frame(u, i))
    BY <1>2, FrameIs
  <2>4. 0 \in Nat
    OBVIOUS
  <2>5. QED
    BY <1>1, <1>2, <2>1, <2>2, <2>3, <2>4 DEF IInv, FrameInv, Orphan
<1>7. QED
  BY <1>4, <1>5, <1>6 DEF IInv

LEMMA LoopFreesStep ==
    ASSUME IInv, LoopFrees
    PROVE  IInv'
<1>1. /\ lock = Loop /\ lock' = Nobody /\ dropping' = NoFrame
      /\ bytes' = IF borrowed THEN bytes ELSE bytes \ {dropping}
      /\ WaitersOK'
      /\ UNCHANGED <<reader, poll, produced, held, got, borrowed, messages, visits>>
  <2>1. WaitersOK
    BY DEF IInv, TypeOK, WaitersOK
  <2>2. QED
    BY <2>1, MutexIs DEF LoopFrees, readerVars
<1>2. TypeOK'
  BY <1>1 DEF IInv, TypeOK, WaitersOK
<1>3. \A u \in Readers : lock # u /\ lock' # u
  BY <1>1, StreamsAssumption
<1>4. ASSUME NEW u \in Readers PROVE ReaderInv(u)'
  <2>1. ReaderInv(u) /\ Reached(u)' = Reached(u)
    BY <1>1 DEF IInv, Reached, InCallFrame
  <2>2. QED
    BY <1>1, <1>3, <2>1 DEF ReaderInv
<1>5. FrameInv'
  <2>1. \A u \in Readers : \A i : Awaited(u, i)' <=> Awaited(u, i)
    BY <1>1 DEF Awaited, Reached, InCallFrame
  <2>2. /\ \A g \in Messages : BeingFreed(g)' => BeingFreed(g)
        /\ \A g : BeingFreed(g) /\ g # dropping => BeingFreed(g)'
    BY <1>1, StreamsAssumption DEF BeingFreed
  <2>3. BeingFreed(dropping)
    BY DEF BeingFreed
  <2>4. bytes \ {dropping} \subseteq bytes' /\ bytes' \subseteq bytes
        /\ (~borrowed => dropping \notin bytes')
    BY <1>1
  <2>5. ASSUME NEW u \in Readers, NEW i \in Nat, Awaited(u, i)'
        PROVE  Frame(u, i) \in bytes' /\ ~BeingFreed(Frame(u, i))'
    <3>1. Frame(u, i) \in bytes /\ ~BeingFreed(Frame(u, i)) /\ Frame(u, i) \in Messages
      BY <2>1, <2>5, FrameIs DEF IInv, FrameInv
    <3>2. QED
      BY <2>2, <2>3, <2>4, <3>1
  <2>6. \A u \in Readers : reader'[u] = "new" => ~BeingFreed(Frame(u, 0))'
    <3>1. \A u \in Readers : Frame(u, 0) \in Messages
      BY FrameIs
    <3>2. QED
      BY <1>1, <2>2, <3>1 DEF IInv, FrameInv
  <2>7. \A f \in Messages : BeingFreed(f)' => f.index <= produced'[f.reader]
    BY <1>1, <2>2 DEF IInv, FrameInv
  <2>8. ASSUME ~borrowed, NEW f \in bytes'
        PROVE  Awaited(f.reader, f.index)' \/ BeingFreed(f)' \/ Orphan(f.reader, f.index)'
    <3>1. f \in bytes /\ f # dropping /\ f.reader \in Readers
      BY <2>4, <2>8 DEF IInv, TypeOK
    <3>2. QED
      BY <1>1, <2>1, <2>2, <2>8, <3>1 DEF IInv, FrameInv, Orphan
  <2>9. Distinct'
    <3>1. \A k \in 1..Len(messages) : messages[k] # NoFrame
      BY SeqTypes, StreamsAssumption DEF IInv
    <3>2. QED
      BY <1>1, <3>1 DEF IInv, FrameInv, Distinct
  <2>10. QED
    BY <1>1, <2>5, <2>6, <2>7, <2>8, <2>9 DEF FrameInv
<1>6. QED
  BY <1>2, <1>4, <1>5 DEF IInv

LEMMA MutexStep ==
    ASSUME IInv, LoopLocks \/ LoopSleeps \/ Visit \/ VisitEnds
    PROVE  IInv'
<1>1. /\ lock' = lock \/ (lock \in {Nobody, Other} /\ lock' \in {Nobody, Other, Loop})
      /\ WaitersOK'
      /\ borrowed' \in {borrowed, TRUE} /\ visits' \in 0..MaxVisits
      /\ UNCHANGED <<reader, poll, produced, held, got, bytes, messages, dropping>>
  <2>1. visits \in 0..MaxVisits /\ MaxVisits \in Nat /\ WaitersOK
    BY StreamsAssumption DEF IInv, TypeOK, WaitersOK
  <2>2. CASE LoopLocks
    <3>1. lock = Nobody /\ lock' = Loop /\ WaitersOK'
      BY <2>1, <2>2, MutexIs DEF LoopLocks
    <3>2. QED
      BY <2>1, <2>2, <3>1 DEF LoopLocks, readerVars
  <2>3. CASE LoopSleeps
    <3>1. lock' = lock /\ WaitersOK'
      BY <2>1, <2>3, MutexIs DEF LoopSleeps
    <3>2. QED
      BY <2>1, <2>3, <3>1 DEF LoopSleeps, readerVars
  <2>4. CASE Visit
    BY <2>1, <2>4 DEF Visit, readerVars, WaitersOK
  <2>5. CASE VisitEnds
    <3>1. lock' = Nobody /\ WaitersOK'
      BY <2>1, <2>5, MutexIs DEF VisitEnds
    <3>2. QED
      BY <2>1, <2>5, <3>1 DEF VisitEnds, readerVars
  <2>6. QED
    BY <2>2, <2>3, <2>4, <2>5
<1>2. TypeOK'
  BY <1>1 DEF IInv, TypeOK, WaitersOK
<1>3. \A u \in Readers : lock' = u <=> lock = u
  BY <1>1, StreamsAssumption
<1>4. ASSUME NEW u \in Readers PROVE ReaderInv(u)'
  <2>1. ReaderInv(u) /\ Reached(u)' = Reached(u)
    BY <1>1 DEF IInv, Reached, InCallFrame
  <2>2. QED
    BY <1>1, <1>3, <2>1 DEF ReaderInv
<1>5. borrowed => borrowed'
  BY <1>1
<1>6. FrameInv'
  BY <1>1, <1>5, QuietFrames
<1>7. QED
  BY <1>2, <1>4, <1>6 DEF IInv

-----------------------------------------------------------------------------
(* The invariant and the theorems *)

LEMMA Start ==
    ASSUME Init
    PROVE  IInv
<1>1. /\ \A r \in Readers : reader[r] \in {"new", "done"}
      /\ reader \in [Readers -> {"new", "done"}]
      /\ poll = [r \in Readers |-> "none"] /\ produced = [r \in Readers |-> 0]
      /\ held = [r \in Readers |-> <<>>] /\ got = [r \in Readers |-> <<>>]
      /\ lock = Nobody /\ waiters = {} /\ bytes = {} /\ borrowed = FALSE
      /\ messages = <<>> /\ dropping = NoFrame /\ visits = 0
  BY DEF Init
<1>2. /\ <<>> \in Seq(Nat \ {0}) /\ <<>> \in Seq(Messages) /\ Len(<<>>) = 0
  BY EmptySeq
<1>3. TypeOK
  <2>1. \A r \in Readers : produced[r] <= Frames[r] /\ Frames[r] \in Nat
    BY <1>1, StreamsAssumption
  <2>2. /\ held \in [Readers -> Seq(Nat \ {0})] /\ got \in [Readers -> Seq(Nat \ {0})]
        /\ messages \in Seq(Messages)
    BY <1>1, <1>2
  <2>3. /\ reader \in [Readers -> ReaderStates] /\ poll \in [Readers -> PollStates]
        /\ produced \in [Readers -> Nat]
    BY <1>1 DEF ReaderStates, PollStates
  <2>4. visits \in 0..MaxVisits
    BY <1>1, StreamsAssumption
  <2>5. QED
    BY <1>1, <2>1, <2>2, <2>3, <2>4 DEF TypeOK, ReaderStates, PollStates
<1>4. \A r \in Readers : InCallFrame(r) = 0 /\ Reached(r) = 0
  BY <1>1, <1>2 DEF InCallFrame, Reached
<1>5. \A r \in Readers : ReaderInv(r)
  BY <1>1, <1>2, <1>4, StreamsAssumption DEF ReaderInv
<1>6. \A f \in Messages : ~BeingFreed(f)
  BY <1>1, <1>2, StreamsAssumption DEF BeingFreed
<1>7. \A r \in Readers : \A i \in Nat : ~Awaited(r, i)
  BY <1>1, <1>2, <1>4 DEF Awaited
<1>8. \A r \in Readers : Frame(r, 0) \in Messages
  BY FrameIs
<1>9. Distinct
  BY <1>1, <1>2 DEF Distinct
<1>10. FrameInv
  BY <1>1, <1>6, <1>7, <1>8, <1>9 DEF FrameInv
<1>11. QED
  BY <1>3, <1>5, <1>10 DEF IInv

LEMMA Stutter ==
    ASSUME IInv, UNCHANGED vars
    PROVE  IInv'
<1>1. UNCHANGED <<reader, poll, produced, held, got, lock, waiters, bytes, borrowed, messages,
                  dropping, visits>>
  BY DEF vars, readerVars, guestVars, mutexVars
<1>2. TypeOK'
  BY <1>1 DEF IInv, TypeOK, WaitersOK
<1>3. \A u \in Readers : ReaderInv(u)'
  BY <1>1 DEF IInv, ReaderInv, Reached, InCallFrame
<1>4. FrameInv'
  BY <1>1, QuietFrames
<1>5. QED
  BY <1>2, <1>3, <1>4 DEF IInv

\* The invariant that the theorems follow from holds of every state.
THEOREM Invariant == Spec => []IInv
<1>1. Init => IInv
  BY Start
<1>2. IInv /\ [Next]_vars => IInv'
  <2> SUFFICES ASSUME IInv, [Next]_vars PROVE IInv'
    OBVIOUS
  <2>1. ASSUME NEW r \in Readers,
               \/ Fetch(r) \/ Respond(r) \/ RespondFails(r) \/ Receive(r) \/ GivesUp(r)
               \/ PollFrame(r) \/ FunctionBusy(r) \/ TakesLock(r) \/ WaitsAgain(r)
               \/ Closes(r) \/ Reads(r)
        PROVE  IInv'
    <3>1. CASE Fetch(r)
      BY <3>1, FetchStep
    <3>2. CASE Respond(r) \/ RespondFails(r) \/ Receive(r) \/ GivesUp(r)
      BY <3>2, ArrivesStep
    <3>3. CASE PollFrame(r) \/ TakesLock(r) \/ WaitsAgain(r) \/ Pends(r) \/ Ends(r)
      BY <3>3, PollStep
    <3>4. CASE FunctionBusy(r)
      BY <3>4, PollStep, LeavesStep DEF Readers
    <3>5. CASE StreamFails(r) \/ Traps(r) \/ Closes(r)
      BY <3>5, LeavesStep
    <3>6. CASE Yields(r)
      BY <3>6, YieldsStep
    <3>7. CASE Returns(r)
      BY <3>7, ReturnsStep
    <3>8. CASE Consume(r)
      BY <3>8, ConsumeStep
    <3>9. QED
      BY <2>1, <3>1, <3>2, <3>3, <3>4, <3>5, <3>6, <3>7, <3>8 DEF Reads
  <2>2. CASE Worker
    BY <2>2, LoopInvokesStep, LoopTakesStep, LoopFreesStep, MutexStep DEF Worker
  <2>3. CASE Visit \/ VisitEnds
    BY <2>3, MutexStep
  <2>4. CASE UNCHANGED vars
    BY <2>4, Stutter
  <2>5. QED
    BY <2>1, <2>2, <2>3, <2>4 DEF Next
<1>3. QED
  BY <1>1, <1>2, PTL DEF Spec

\* Every variable keeps its type, and no stream yields more than its body.
THEOREM TypeCorrect == Spec => []TypeOK
<1>1. IInv => TypeOK
  BY DEF IInv
<1>2. QED
  BY <1>1, Invariant, PTL

\* Readers get the frames of a body once and in order, and a frame is in the
\* guest until its reader is done with it, however polls time out, are cut
\* off, given up or repeated.
THEOREM Whole == Spec => []FramesAreWhole
<1>1. ASSUME IInv PROVE FramesAreWhole
  <2>1. ReadInOrder
    <3>1. \A r \in Readers : DOMAIN got[r] = 1..Len(got[r]) /\ DOMAIN held[r] = 1..Len(held[r])
      BY <1>1, SeqTypes DEF IInv
    <3>2. QED
      BY <1>1, <3>1 DEF IInv, ReaderInv, Reached, InCallFrame, ReadInOrder
  <2>2. /\ \A r \in Readers : \A k \in DOMAIN held[r] :
             Frame(r, held[r][k]) \in bytes /\ ~BeingFreed(Frame(r, held[r][k]))
        /\ \A k, l \in DOMAIN messages : messages[k] = messages[l] => k = l
        /\ \A k \in DOMAIN messages : messages[k] # dropping
    BY <1>1, SeqTypes, HeldAwaited DEF IInv, FrameInv, Distinct
  <2>3. ASSUME ~borrowed, NEW f \in bytes PROVE Held(f) \/ BeingFreed(f) \/ Yielded(f)
    <3>1. f.reader \in Readers /\ f.index \in Nat
      BY <1>1 DEF IInv, TypeOK
    <3>2. Awaited(f.reader, f.index) \/ BeingFreed(f) \/ Yielded(f)
      BY <1>1, <2>3 DEF IInv, FrameInv, Orphan, Yielded
    <3>3. CASE Awaited(f.reader, f.index)
      <4>1. PICK r \in Readers, i \in Nat : r = f.reader /\ i = f.index
        BY <3>1
      <4>2. PICK a \in Nat, b \in Nat : a = Len(got[r]) /\ b = Len(held[r])
        BY <1>1, SeqTypes DEF IInv
      <4>3. a < i /\ i <= a + b + InCallFrame(r)
        BY <3>3, <4>1, <4>2 DEF Awaited, Reached
      <4>4. CASE i <= a + b
        <5>1. i - a \in 1..b /\ i = a + (i - a)
          BY <4>3, <4>4
        <5>2. held[r][i - a] = i /\ i - a \in DOMAIN held[r]
          BY <1>1, <4>2, <5>1, HeldAwaited, SeqTypes DEF IInv
        <5>3. QED
          BY <4>1, <5>2 DEF Held
      <4>5. CASE ~(i <= a + b)
        <5>1. poll[r] = "frame" /\ InCallFrame(r) = 1
          BY <4>3, <4>5 DEF InCallFrame
        <5>2. i = a + b + 1
          BY <4>3, <4>5, <5>1
        <5>3. reader[r] \in {"reads", "abandoned"} /\ Reached(r) = produced[r]
          BY <1>1, <5>1 DEF IInv, ReaderInv
        <5>4. produced[r] = i
          BY <4>2, <5>1, <5>2, <5>3 DEF Reached
        <5>5. QED
          BY <4>1, <5>1, <5>4 DEF Yielded
      <4>6. QED
        BY <4>4, <4>5
    <3>4. QED
      BY <3>2, <3>3
  <2>4. QED
    BY <2>1, <2>2, <2>3 DEF FramesAreWhole, FreedWhenRead
<1>2. QED
  BY <1>1, Invariant, PTL

=============================================================================
