------------------------ MODULE CompressDeviceProofs ------------------------
(***************************************************************************)
(* Proofs about CompressDevice, for any number of queue pairs, any pool    *)
(* and queue sizes, any burst size and any faults: the type invariant, the *)
(* agreement between pending_operations_ and everything in flight, that    *)
(* RecycleResources always gets the front, and that no operation is both   *)
(* pending and free.                                                       *)
(***************************************************************************)
EXTENDS CompressDevice, FiniteSetTheorems, SequenceTheorems, TLAPS

-----------------------------------------------------------------------------
(* Sequences *)

\* What is in two sequences put one after the other: pending_operations_ grows
\* by whole batches.
LEMMA ElementsOfConcat ==
  ASSUME NEW S, NEW s \in Seq(S), NEW t \in Seq(S)
  PROVE  Elements(s \o t) = Elements(s) \cup Elements(t)
<1>1. /\ s \o t \in Seq(S)
      /\ DOMAIN s = 1..Len(s) /\ DOMAIN t = 1..Len(t)
      /\ DOMAIN (s \o t) = 1..(Len(s) + Len(t))
      /\ Len(s) \in Nat /\ Len(t) \in Nat
      /\ \A i \in 1..(Len(s) + Len(t)) :
           (s \o t)[i] = IF i <= Len(s) THEN s[i] ELSE t[i - Len(s)]
  OBVIOUS
<1>2. ASSUME NEW i \in DOMAIN (s \o t)
      PROVE  (s \o t)[i] \in Elements(s) \cup Elements(t)
  <2>1. CASE i <= Len(s)
    BY <1>1, <2>1 DEF Elements
  <2>2. CASE ~(i <= Len(s))
    <3>1. i - Len(s) \in DOMAIN t /\ (s \o t)[i] = t[i - Len(s)]
      BY <1>1, <2>2
    <3> QED BY <3>1 DEF Elements
  <2> QED BY <2>1, <2>2
<1>3. ASSUME NEW i \in DOMAIN s
      PROVE  s[i] \in Elements(s \o t)
  <2>1. i \in DOMAIN (s \o t) /\ (s \o t)[i] = s[i]
    BY <1>1
  <2> QED BY <2>1 DEF Elements
<1>4. ASSUME NEW i \in DOMAIN t
      PROVE  t[i] \in Elements(s \o t)
  <2>1. Len(s) + i \in DOMAIN (s \o t) /\ (s \o t)[Len(s) + i] = t[i]
    BY <1>1
  <2> QED BY <2>1 DEF Elements
<1> QED BY <1>2, <1>3, <1>4 DEF Elements

\* The elements of a sequence over S are in S.
LEMMA ElementsType ==
  ASSUME NEW S, NEW s \in Seq(S)
  PROVE  Elements(s) \subseteq S
<1>1. \A i \in DOMAIN s : s[i] \in S
  OBVIOUS
<1> QED BY <1>1 DEF Elements

\* Two sequences without repetitions and without a common element: appending a
\* batch of free operations keeps the pending ones distinct.
LEMMA DistinctConcat ==
  ASSUME NEW S, NEW s \in Seq(S), NEW t \in Seq(S), Distinct(s), Distinct(t),
         Elements(s) \cap Elements(t) = {}
  PROVE  Distinct(s \o t)
<1>1. /\ DOMAIN s = 1..Len(s) /\ DOMAIN t = 1..Len(t)
      /\ DOMAIN (s \o t) = 1..(Len(s) + Len(t))
      /\ Len(s) \in Nat /\ Len(t) \in Nat
      /\ \A i \in 1..(Len(s) + Len(t)) :
           (s \o t)[i] = IF i <= Len(s) THEN s[i] ELSE t[i - Len(s)]
  OBVIOUS
<1> SUFFICES ASSUME NEW i \in DOMAIN (s \o t), NEW j \in DOMAIN (s \o t),
                    (s \o t)[i] = (s \o t)[j]
             PROVE  i = j
  BY DEF Distinct
<1>2. CASE i <= Len(s) /\ j <= Len(s)
  BY <1>1, <1>2 DEF Distinct
<1>3. CASE i > Len(s) /\ j > Len(s)
  <2>1. i - Len(s) \in DOMAIN t /\ j - Len(s) \in DOMAIN t
    BY <1>1, <1>3
  <2>2. t[i - Len(s)] = t[j - Len(s)]
    BY <1>1, <1>3
  <2> QED BY <1>1, <2>1, <2>2 DEF Distinct
<1>4. CASE i <= Len(s) /\ j > Len(s)
  <2>1. i \in DOMAIN s /\ j - Len(s) \in DOMAIN t /\ s[i] = t[j - Len(s)]
    BY <1>1, <1>4
  <2>2. s[i] \in Elements(s) /\ s[i] \in Elements(t)
    BY <2>1 DEF Elements
  <2> QED BY <2>2
<1>5. CASE i > Len(s) /\ j <= Len(s)
  <2>1. j \in DOMAIN s /\ i - Len(s) \in DOMAIN t /\ s[j] = t[i - Len(s)]
    BY <1>1, <1>5
  <2>2. s[j] \in Elements(s) /\ s[j] \in Elements(t)
    BY <2>1 DEF Elements
  <2> QED BY <2>2
<1> QED BY <1>1, <1>2, <1>3, <1>4, <1>5

\* What pop_front leaves, and that a front of a sequence without repetitions is
\* gone after it.
LEMMA TailFacts ==
  ASSUME NEW S, NEW s \in Seq(S), s # <<>>
  PROVE  /\ Head(s) \in S
         /\ Tail(s) \in Seq(S)
         /\ Elements(s) = Elements(Tail(s)) \cup {Head(s)}
         /\ Distinct(s) => Distinct(Tail(s)) /\ Head(s) \notin Elements(Tail(s))
<1>1. /\ Head(s) = s[1] /\ Head(s) \in S
      /\ Tail(s) \in Seq(S)
      /\ Len(s) \in Nat \ {0}
      /\ DOMAIN s = 1..Len(s) /\ DOMAIN Tail(s) = 1..(Len(s) - 1)
      /\ \A i \in 1..(Len(s) - 1) : Tail(s)[i] = s[i + 1]
  OBVIOUS
<1>2. \A i \in DOMAIN Tail(s) : i + 1 \in DOMAIN s /\ Tail(s)[i] = s[i + 1]
  BY <1>1
<1>3. \A i \in DOMAIN s : i # 1 => i - 1 \in DOMAIN Tail(s) /\ s[i] = Tail(s)[i - 1]
  BY <1>1
<1>4. ASSUME NEW i \in DOMAIN s
      PROVE  s[i] \in Elements(Tail(s)) \cup {Head(s)}
  <2>1. CASE i = 1
    BY <1>1, <2>1
  <2>2. CASE i # 1
    BY <1>3, <2>2 DEF Elements
  <2> QED BY <2>1, <2>2
<1>5. Elements(Tail(s)) \subseteq Elements(s)
  BY <1>2 DEF Elements
<1>6. Head(s) \in Elements(s)
  BY <1>1 DEF Elements
<1>7. ASSUME Distinct(s)
      PROVE  Distinct(Tail(s)) /\ Head(s) \notin Elements(Tail(s))
  <2>1. Distinct(Tail(s))
    <3>1. ASSUME NEW i \in DOMAIN Tail(s), NEW j \in DOMAIN Tail(s), Tail(s)[i] = Tail(s)[j]
          PROVE  i = j
      <4>1. i + 1 = j + 1
        BY <1>2, <1>7, <3>1 DEF Distinct
      <4> QED BY <4>1, <1>1
    <3> QED BY <3>1 DEF Distinct
  <2>2. ASSUME NEW i \in DOMAIN Tail(s), Tail(s)[i] = Head(s)
        PROVE  FALSE
    <3>1. i + 1 = 1
      BY <1>1, <1>2, <1>7, <2>2 DEF Distinct
    <3> QED BY <3>1, <1>1
  <2> QED BY <2>1, <2>2 DEF Elements
<1>8. Elements(s) = Elements(Tail(s)) \cup {Head(s)}
  BY <1>4, <1>5, <1>6 DEF Elements
<1> QED BY <1>1, <1>7, <1>8

\* A burst that moves k operations splits the sequence it takes them from.
LEMMA SplitSeq ==
  ASSUME NEW S, NEW s \in Seq(S), NEW k \in 0..Len(s)
  PROVE  /\ SubSeq(s, 1, k) \in Seq(S)
         /\ SubSeq(s, k + 1, Len(s)) \in Seq(S)
         /\ Len(SubSeq(s, 1, k)) = k
         /\ Len(SubSeq(s, k + 1, Len(s))) = Len(s) - k
         /\ SubSeq(s, 1, k) \o SubSeq(s, k + 1, Len(s)) = s
<1>1. Len(s) \in Nat /\ k \in Nat /\ k <= Len(s) /\ \A i \in 1..Len(s) : s[i] \in S
  OBVIOUS
<1>2. /\ SubSeq(s, 1, k) \in Seq(S)
      /\ Len(SubSeq(s, 1, k)) = k
  BY <1>1, SubSeqProperties
<1>3. /\ SubSeq(s, k + 1, Len(s)) \in Seq(S)
      /\ Len(SubSeq(s, k + 1, Len(s))) = Len(s) - k
  BY <1>1, SubSeqProperties
<1>4. SubSeq(s, 1, k) \o SubSeq(s, k + 1, Len(s)) = SubSeq(s, 1, Len(s))
  <2>1. 1 \in 1..(Len(s) + 1) /\ k \in (1 - 1)..Len(s) /\ Len(s) \in k..Len(s)
    BY <1>1
  <2> QED BY <2>1, ConcatAdjacentSubSeq, Zenon
<1>5. SubSeq(s, 1, Len(s)) = s
  <2> DEFINE t == SubSeq(s, 1, Len(s))
  <2>1. t \in Seq(S) /\ Len(t) = Len(s)
    BY <1>1, SubSeqProperties
  <2>2. \A i \in 1..Len(s) : t[i] = s[i]
    BY <1>1
  <2> HIDE DEF t
  <2>3. t = s
    BY <2>1, <2>2, SeqEqual
  <2> QED BY <2>3 DEF t
<1> QED BY <1>2, <1>3, <1>4, <1>5

\* pending_operations_ is made of four parts; how they may be bracketed.
LEMMA FourConcat ==
  ASSUME NEW S, NEW a \in Seq(S), NEW b \in Seq(S), NEW c \in Seq(S), NEW d \in Seq(S)
  PROVE  /\ a \o b \o c \o d \in Seq(S)
         /\ a \o b \o c \o d = a \o (b \o c) \o d
         /\ a \o b \o c \o d = a \o b \o (c \o d)
         /\ a \o b \o c \o d = a \o (b \o c \o d)
         /\ a \o b \o c \o <<>> = a \o b \o c
         /\ <<>> \o b = b
<1>1. /\ a \o b \in Seq(S) /\ b \o c \in Seq(S) /\ c \o d \in Seq(S)
      /\ a \o b \o c \in Seq(S) /\ b \o c \o d \in Seq(S)
      /\ a \o b \o c \o d \in Seq(S)
  BY ConcatProperties
<1>2. a \o b \o c = a \o (b \o c)
  BY ConcatAssociative, SMTT(30)
<1>3. a \o b \o c \o d = a \o b \o (c \o d)
  BY <1>1, ConcatAssociative, SMTT(30)
<1>4. a \o (b \o c) \o d = a \o (b \o c \o d)
  BY <1>1, ConcatAssociative, SMTT(30)
<1>5. /\ a \o b \o c \o <<>> = a \o b \o c
      /\ <<>> \o b = b
  BY <1>1, ConcatEmptySeq
<1> QED BY <1>1, <1>2, <1>3, <1>4, <1>5

\* A partial enqueue moves the boundary between the queue and the array of
\* operations, not the operations.
LEMMA Regroup ==
  ASSUME NEW S, NEW s \in Seq(S), NEW a \in Seq(S), NEW b \in Seq(S)
  PROVE  <<>> \o s \o (a \o b) \o <<>> = <<>> \o (s \o a) \o b \o <<>>
<1>1. a \o b \in Seq(S) /\ s \o a \in Seq(S) /\ s \o (a \o b) \in Seq(S)
  BY ConcatProperties
<1>2. s \o (a \o b) = (s \o a) \o b
  BY ConcatAssociative
<1>3. <<>> \o s = s /\ <<>> \o (s \o a) = s \o a
  BY <1>1, ConcatEmptySeq
<1>4. s \o (a \o b) \o <<>> = s \o (a \o b)
  BY <1>1, ConcatEmptySeq
<1> QED BY <1>2, <1>3, <1>4

\* std::min returns neither more than the one nor more than the other.
LEMMA LeastBound ==
  ASSUME NEW a \in Nat, NEW b \in Int
  PROVE  Least(a, b) \in Int /\ Least(a, b) <= a /\ Least(a, b) <= b
BY DEF Least

\* Empty deques and arrays.
LEMMA EmptySeqFacts == /\ \A S : <<>> \in Seq(S)
                       /\ Elements(<<>>) = {}
                       /\ Distinct(<<>>)
                       /\ <<>> \o <<>> = <<>>
BY DEF Elements, Distinct

-----------------------------------------------------------------------------
(* The inductive invariant *)

\* The locals of the lcore at each of its steps; the hardware has not finished
\* more than it was given.
LocalsOK ==
  \A q \in QueuePairs :
    /\ completed[q] <= Len(queue[q])
    /\ call[q].pc \in {"loop", "take", "dequeue"} => call[q].burst = <<>>
    /\ call[q].pc \in {"loop", "dequeue", "burst"} => call[q].batch = <<>>
    /\ call[q].pc = "burst" => call[q].burst # <<>>
    /\ call[q].pc = "take" => call[q].kind = "compress"

\* The operations of a decompression have their sources among the buffers.
SourcesInRange ==
  \A q \in QueuePairs : Active(q) /\ call[q].kind = "decompress" =>
    /\ call[q].index <= call[q].segs
    /\ call[q].segs = Len(buffers[q])
    /\ \A o \in Elements(pending[q]) :
         /\ op[q][o].first >= 1
         /\ op[q][o].len >= 1
         /\ op[q][o].first + op[q][o].len - 1 <= call[q].index

IInv ==
  TypeOK /\ LocalsOK /\ PendingMatches /\ OpsExclusive /\ SourcesInRange

\* The invariant seen from one queue pair: c is the call, done, qu and st its
\* hardware queue, pend, ops, free, mbufs and data its memory, bufs its buffers.
QType(c, done, qu, st, pend, ops, free, mbufs, data, bufs) ==
  /\ c \in Call
  /\ done \in Nat
  /\ qu \in Seq(Operations)
  /\ st \in BOOLEAN
  /\ pend \in Seq(Operations)
  /\ ops \in Seq(Operations)
  /\ free \subseteq Operations
  /\ mbufs \in Nat
  /\ data \in [Operations -> Operation]
  /\ bufs \in Seq(Buffer)

ActivePCs == {"loop", "take", "dequeue", "burst"}

QLocals(c, done, qu) ==
  /\ done <= Len(qu)
  /\ c.pc \in {"loop", "take", "dequeue"} => c.burst = <<>>
  /\ c.pc \in {"loop", "dequeue", "burst"} => c.batch = <<>>
  /\ c.pc = "burst" => c.burst # <<>>
  /\ c.pc = "take" => c.kind = "compress"

QMatches(c, pend, qu, ops) ==
  c.pc \in ActivePCs => pend = c.burst \o qu \o ops \o c.batch

QExclusive(pend, free) == Distinct(pend) /\ Elements(pend) \cap free = {}

InRange(o, data, n) ==
  /\ data[o].first >= 1
  /\ data[o].len >= 1
  /\ data[o].first + data[o].len - 1 <= n

QSources(c, pend, data, bufs) ==
  c.pc \in ActivePCs /\ c.kind = "decompress" =>
    /\ c.index <= c.segs
    /\ c.segs = Len(bufs)
    /\ \A o \in Elements(pend) : InRange(o, data, c.index)

QInv(c, done, qu, pend, ops, free, data, bufs) ==
  /\ QLocals(c, done, qu)
  /\ QMatches(c, pend, qu, ops)
  /\ QExclusive(pend, free)
  /\ QSources(c, pend, data, bufs)

GlobalType ==
  /\ reserved \subseteq Memzones
  /\ pool \in Seq(Memzones)
  /\ occupied \subseteq Memzones
  /\ astray \subseteq Memzones
  /\ deviceErrors \in BOOLEAN
  /\ numMaybeNotOk \in 0..(NumIgnored - 1)

\* The invariant of the system gives the invariant of each queue pair.
LEMMA Localize ==
  ASSUME IInv, NEW q \in QueuePairs
  PROVE  /\ GlobalType
         /\ QType(call[q], completed[q], queue[q], stalled[q], pending[q],
                  operations[q], freeOps[q], freeMbufs[q], op[q], buffers[q])
         /\ QInv(call[q], completed[q], queue[q], pending[q], operations[q],
                 freeOps[q], op[q], buffers[q])
<1> USE DEF IInv
<1>1. GlobalType
  BY DEF TypeOK, GlobalType
<1>2. QType(call[q], completed[q], queue[q], stalled[q], pending[q],
            operations[q], freeOps[q], freeMbufs[q], op[q], buffers[q])
  BY DEF TypeOK, QType
<1>3. QLocals(call[q], completed[q], queue[q])
  BY DEF LocalsOK, QLocals
<1>4. QMatches(call[q], pending[q], queue[q], operations[q])
  BY DEF PendingMatches, QMatches, Active, ActivePCs
<1>5. QExclusive(pending[q], freeOps[q])
  BY DEF OpsExclusive, QExclusive
<1>6. QSources(call[q], pending[q], op[q], buffers[q])
  BY DEF SourcesInRange, QSources, Active, ActivePCs, InRange
<1> QED BY <1>1, <1>2, <1>3, <1>4, <1>5, <1>6 DEF QInv

\* The lcores other than that of q, and what they work on, stay as they are.
Others(q) ==
  \A p \in QueuePairs : p # q =>
    /\ call'[p] = call[p] /\ pending'[p] = pending[p]
    /\ op'[p] = op[p] /\ buffers'[p] = buffers[p]

\* The contents of every operation but o stay.
SameBut(data, data2, o) ==
  \A x \in Operations : x # o => data2[x] = data[x]

\* Every function variable changes at q only.
OnlyAt(q) ==
  /\ call' = [call EXCEPT ![q] = call'[q]]
  /\ completed' = [completed EXCEPT ![q] = completed'[q]]
  /\ queue' = [queue EXCEPT ![q] = queue'[q]]
  /\ stalled' = [stalled EXCEPT ![q] = stalled'[q]]
  /\ pending' = [pending EXCEPT ![q] = pending'[q]]
  /\ operations' = [operations EXCEPT ![q] = operations'[q]]
  /\ freeOps' = [freeOps EXCEPT ![q] = freeOps'[q]]
  /\ freeMbufs' = [freeMbufs EXCEPT ![q] = freeMbufs'[q]]
  /\ op' = [op EXCEPT ![q] = op'[q]]
  /\ buffers' = [buffers EXCEPT ![q] = buffers'[q]]

\* A step that changes one queue pair and keeps its invariant keeps them all.
LEMMA Frame ==
  ASSUME IInv, GlobalType', NEW q \in QueuePairs, OnlyAt(q),
         QType(call[q], completed[q], queue[q], stalled[q], pending[q],
               operations[q], freeOps[q], freeMbufs[q], op[q], buffers[q])',
         QInv(call[q], completed[q], queue[q], pending[q], operations[q],
              freeOps[q], op[q], buffers[q])'
  PROVE  IInv'
<1>1. TypeOK'
  BY DEF IInv, TypeOK, GlobalType, QType, OnlyAt
<1>3. ASSUME NEW p \in QueuePairs, p # q
      PROVE  /\ call'[p] = call[p] /\ completed'[p] = completed[p]
             /\ queue'[p] = queue[p] /\ pending'[p] = pending[p]
             /\ operations'[p] = operations[p] /\ freeOps'[p] = freeOps[p]
             /\ op'[p] = op[p] /\ buffers'[p] = buffers[p]
  BY <1>3 DEF IInv, TypeOK, OnlyAt
<1>4. ASSUME NEW p \in QueuePairs
      PROVE  QInv(call[p], completed[p], queue[p], pending[p], operations[p],
                  freeOps[p], op[p], buffers[p])'
  <2>1. CASE p = q
    BY <2>1
  <2>2. CASE p # q
    BY <2>2, <1>3, Localize
  <2> QED BY <2>1, <2>2
<1>5. LocalsOK'
  BY <1>4 DEF LocalsOK, QInv, QLocals
<1>6. PendingMatches'
  BY <1>4 DEF PendingMatches, QInv, QMatches, Active, ActivePCs
<1>7. OpsExclusive'
  BY <1>4 DEF OpsExclusive, QInv, QExclusive
<1>8. SourcesInRange'
  BY <1>4 DEF SourcesInRange, QInv, QSources, Active, ActivePCs, InRange
<1> QED BY <1>1, <1>5, <1>6, <1>7, <1>8 DEF IInv

\* A device that has just started satisfies the invariant.
LEMMA InitInv == Init => IInv
<1> SUFFICES ASSUME Init PROVE IInv
  OBVIOUS
<1> USE DeviceAssumption DEF Init
<1>1. TypeOK
  <2>1. pool \in Seq(Memzones) /\ reserved \subseteq Memzones
    BY SMTT(30) DEF Elements
  <2>2. NoCall \in Call
    BY EmptySeqFacts DEF NoCall, Call, PCs
  <2>3. UnusedOp \in Operation
    BY EmptySeqFacts DEF UnusedOp, Operation
  <2>4. numMaybeNotOk \in 0..(NumIgnored - 1) /\ NumMbufs \in Nat
    OBVIOUS
  <2>5. call \in [QueuePairs -> Call] /\ op \in [QueuePairs -> [Operations -> Operation]]
    BY <2>2, <2>3
  <2> QED BY <2>1, <2>4, <2>5, EmptySeqFacts DEF TypeOK
<1>2. \A q \in QueuePairs : /\ call[q].pc = "idle" /\ completed[q] = 0
                            /\ queue[q] = <<>> /\ pending[q] = <<>>
  BY DEF NoCall
<1>3. LocalsOK
  BY <1>2 DEF LocalsOK
<1>4. PendingMatches /\ SourcesInRange
  BY <1>2 DEF PendingMatches, SourcesInRange, Active
<1>5. OpsExclusive
  BY <1>2, EmptySeqFacts DEF OpsExclusive
<1> QED BY <1>1, <1>3, <1>4, <1>5 DEF IInv

\* A step that changes only the call of one queue pair.
LEMMA CallFrame ==
  ASSUME IInv, GlobalType', NEW q \in QueuePairs, NEW c \in Call,
         call' = [call EXCEPT ![q] = c],
         UNCHANGED <<pending, operations, poolVars, queue, completed, stalled, buffers>>,
         QLocals(c, completed[q], queue[q]),
         QMatches(c, pending[q], queue[q], operations[q]),
         QSources(c, pending[q], op[q], buffers[q])
  PROVE  IInv'
<1>1. call'[q] = c /\ OnlyAt(q)
  BY DEF OnlyAt, IInv, TypeOK, poolVars
<1>2. QType(call[q], completed[q], queue[q], stalled[q], pending[q], operations[q],
            freeOps[q], freeMbufs[q], op[q], buffers[q])'
  BY <1>1, Localize DEF QType, poolVars
<1>3. QInv(call[q], completed[q], queue[q], pending[q], operations[q], freeOps[q],
           op[q], buffers[q])'
  BY <1>1, Localize DEF QInv, poolVars
<1> QED BY <1>1, <1>2, <1>3, Frame

\* A step that ends the call of one queue pair, or leaves its work to Recycle
\* and Release.
LEMMA InactiveFrame ==
  ASSUME IInv, GlobalType', NEW q \in QueuePairs, NEW c \in Call,
         c.pc \notin ActivePCs,
         call' = [call EXCEPT ![q] = c],
         UNCHANGED <<pending, operations, poolVars, queue, completed, stalled, buffers>>
  PROVE  IInv'
<1>1. /\ QLocals(c, completed[q], queue[q])
      /\ QMatches(c, pending[q], queue[q], operations[q])
      /\ QSources(c, pending[q], op[q], buffers[q])
  BY Localize DEF QInv, QLocals, QMatches, QSources, ActivePCs
<1> QED BY <1>1, CallFrame

-----------------------------------------------------------------------------
(* Entering a call *)

\* A call that passes EntryGuard starts with nothing pending and, unless its
\* behaviour is undefined, nothing left over: PendingMatches holds from there on.
LEMMA EnterStep ==
  ASSUME IInv, NEW q \in QueuePairs, NEW kind \in {"compress", "decompress"},
         NEW n \in Nat, ~Busy(q), kind = "decompress" => n = Len(buffers[q]),
         Enter(q, kind, n)
  PROVE  IInv'
<1> DEFINE c == IF Leftovers(q) THEN [NoCall EXCEPT !.pc = "undefined"]
                ELSE [NoCall EXCEPT !.pc = "loop", !.kind = kind, !.segs = n]
<1>1. /\ c \in Call
      /\ c.burst = <<>> /\ c.batch = <<>> /\ c.index = 0
      /\ c.pc = "undefined" \/ c.pc = "loop"
      /\ c.pc = "loop" => ~Leftovers(q) /\ c.kind = kind /\ c.segs = n
  BY EmptySeqFacts DEF NoCall, Call, PCs
<1>2. /\ call' = [call EXCEPT ![q] = c]
      /\ UNCHANGED <<pending, operations, poolVars, queue, completed, stalled, buffers>>
      /\ GlobalType'
  BY Localize DEF Enter, memoryVars, hwVars, poolVars, GlobalType
<1> HIDE DEF c
<1>3. pending[q] = <<>> /\ Len(buffers[q]) \in Nat /\ completed[q] <= Len(queue[q])
  BY Localize DEF Busy, QInv, QLocals, QType
<1>4. QLocals(c, completed[q], queue[q])
  BY <1>1, <1>3 DEF QLocals
<1>5. QMatches(c, pending[q], queue[q], operations[q])
  BY <1>1, <1>3, EmptySeqFacts DEF QMatches, ActivePCs, Leftovers
<1>6. QSources(c, pending[q], op[q], buffers[q])
  BY <1>1, <1>3, EmptySeqFacts DEF QSources, ActivePCs
<1> QED BY <1>1, <1>2, <1>4, <1>5, <1>6, CallFrame

\* Whatever the lcore calls keeps the invariant.
LEMMA InvokeStep ==
  ASSUME IInv, NEW q \in QueuePairs, Invoke(q)
  PROVE  IInv'
<1>1. ASSUME NEW n \in 1..MaxSegs, Compress(q, n)
      PROVE  IInv'
  BY <1>1, DeviceAssumption, EnterStep DEF Compress
<1>2. CASE Decompress(q)
  <2>1. Len(buffers[q]) \in Nat
    BY Localize DEF QType
  <2> QED BY <1>2, <2>1, EnterStep DEF Decompress
<1>3. CASE Cancelled(q)
  <2> DEFINE c == [call[q] EXCEPT !.result = "cancelled"]
  <2>1. c \in Call /\ c.pc \notin ActivePCs
    BY <1>3, Localize DEF QType, Call, Cancelled, At, ActivePCs
  <2>2. /\ call' = [call EXCEPT ![q] = c]
        /\ UNCHANGED <<pending, operations, poolVars, queue, completed, stalled, buffers>>
        /\ GlobalType'
    BY <1>3, Localize DEF Cancelled, memoryVars, hwVars, poolVars, GlobalType
  <2> QED BY <2>1, <2>2, InactiveFrame
<1>4. CASE Recycle(q)
  <2> DEFINE c == [call[q] EXCEPT !.pc = "putback", !.result = "none"]
  <2>1. c \in Call /\ c.pc \notin ActivePCs
    BY <1>4, Localize DEF QType, Call, PCs, ActivePCs
  <2>2. /\ call' = [call EXCEPT ![q] = c]
        /\ UNCHANGED <<pending, operations, poolVars, queue, completed, stalled, buffers>>
        /\ GlobalType'
    BY <1>4, Localize DEF Recycle, memoryVars, hwVars, poolVars, GlobalType
  <2> QED BY <2>1, <2>2, InactiveFrame
<1> QED BY <1>1, <1>2, <1>3, <1>4 DEF Invoke

-----------------------------------------------------------------------------
(* Ending a call *)

\* A call that has failed does not assemble, enqueue or dequeue any more.
LEMMA FailedFacts ==
  ASSUME NEW q, NEW c \in Call
  PROVE  Failed(q, c) \in Call /\ Failed(q, c).pc \notin ActivePCs
BY EmptySeqFacts DEF Failed, Call, PCs, ActivePCs

\* A call that fails without touching the memory of its queue pair.
LEMMA FailsStep ==
  ASSUME IInv, GlobalType', NEW q \in QueuePairs,
         call' = [call EXCEPT ![q] = Failed(q, @)],
         UNCHANGED <<pending, operations, poolVars, queue, completed, stalled, buffers>>
  PROVE  IInv'
<1>1. call[q] \in Call
  BY Localize DEF QType
<1>2. /\ Failed(q, call[q]) \in Call
      /\ Failed(q, call[q]).pc \notin ActivePCs
  BY <1>1, FailedFacts
<1> QED BY <1>2, InactiveFrame

\* The failures of Take, EnqueueBurst, DequeueBurst and of an operation keep the
\* invariant.
LEMMA FailSteps ==
  ASSUME IInv, NEW q \in QueuePairs,
         TakeFails(q) \/ EnqueueFails(q) \/ DequeueFails(q) \/ OpFails(q)
  PROVE  IInv'
<1>1. /\ call' = [call EXCEPT ![q] = Failed(q, @)]
      /\ UNCHANGED <<pending, operations, poolVars, queue, completed, stalled, buffers>>
      /\ UNCHANGED memoryVars
  BY DEF TakeFails, EnqueueFails, DequeueFails, OpFails, hwVars
<1>2. deviceErrors' \in BOOLEAN
  BY Localize DEF TakeFails, EnqueueFails, DequeueFails, OpFails, hwVars, GlobalType
<1>3. numMaybeNotOk' \in 0..(NumIgnored - 1)
  <2>1. numMaybeNotOk' = 0 \/ numMaybeNotOk' = numMaybeNotOk
    BY DEF TakeFails, EnqueueFails, DequeueFails, OpFails, FailedEmptyBurst
  <2> QED BY <2>1, Localize, DeviceAssumption DEF GlobalType
<1>4. GlobalType'
  BY <1>1, <1>2, <1>3, Localize DEF GlobalType, memoryVars
<1> QED BY <1>1, <1>4, FailsStep

\* BulkAllocate failing for operations or for mbufs keeps the invariant: operations
\* that nobody has are neither free nor pending.
LEMMA AssembleFailsStep ==
  ASSUME IInv, NEW q \in QueuePairs, AssembleFails(q)
  PROVE  IInv'
<1>1. /\ call' = [call EXCEPT ![q] = Failed(q, @)]
      /\ UNCHANGED <<pending, operations, op, freeMbufs, queue, completed, stalled, buffers>>
      /\ GlobalType'
  BY Localize DEF AssembleFails, hwVars, memoryVars, GlobalType
<1>2. PICK free : freeOps' = [freeOps EXCEPT ![q] = free] /\ free \subseteq freeOps[q]
  <2>1. CASE UNCHANGED freeOps
    BY <2>1 DEF IInv, TypeOK
  <2>2. ASSUME NEW b \in Allocations(q, NextOps(q)),
               freeOps' = [freeOps EXCEPT ![q] = @ \ Elements(b)]
        PROVE  freeOps' = [freeOps EXCEPT ![q] = freeOps[q] \ Elements(b)]
    BY <2>2
  <2> QED BY <2>1, <2>2 DEF AssembleFails
<1>3. call'[q] \in Call /\ call'[q].pc \notin ActivePCs /\ freeOps'[q] = free
  <2>1. call[q] \in Call
    BY Localize DEF QType
  <2> QED BY <1>1, <1>2, <2>1, FailedFacts DEF IInv, TypeOK
<1>4. OnlyAt(q)
  BY <1>1, <1>2 DEF OnlyAt, IInv, TypeOK
<1>5. QType(call[q], completed[q], queue[q], stalled[q], pending[q], operations[q],
            freeOps[q], freeMbufs[q], op[q], buffers[q])'
  BY <1>1, <1>2, <1>3, Localize DEF QType
<1>6. QInv(call[q], completed[q], queue[q], pending[q], operations[q], freeOps[q],
           op[q], buffers[q])'
  <2>1. QLocals(call[q], completed[q], queue[q])'
    BY <1>1, <1>3, Localize DEF QInv, QLocals, ActivePCs
  <2>2. QMatches(call[q], pending[q], queue[q], operations[q])'
    BY <1>3 DEF QMatches
  <2>3. QExclusive(pending[q], freeOps[q])'
    BY <1>1, <1>2, <1>3, Localize DEF QInv, QExclusive
  <2>4. QSources(call[q], pending[q], op[q], buffers[q])'
    BY <1>3 DEF QSources
  <2> QED BY <2>1, <2>2, <2>3, <2>4 DEF QInv
<1> QED BY <1>1, <1>4, <1>5, <1>6, Frame

\* The end of Compress, Decompress and Release keeps the invariant.
LEMMA ReturnSteps ==
  ASSUME IInv, NEW q \in QueuePairs, Return(q) \/ ReleaseEnds(q)
  PROVE  IInv'
<1>1. PICK c \in Call : c.pc \notin ActivePCs /\ call' = [call EXCEPT ![q] = c]
  <2>1. CASE Return(q)
    <3> DEFINE c == [call[q] EXCEPT !.pc = "idle", !.result = "ok"]
    <3>1. c \in Call /\ c.pc \notin ActivePCs
      BY Localize DEF QType, Call, PCs, ActivePCs
    <3>2. call' = [call EXCEPT ![q] = c]
      BY <2>1, Localize DEF Return, QType, Call
    <3> QED BY <3>1, <3>2
  <2>2. CASE ReleaseEnds(q)
    <3> DEFINE c == [call[q] EXCEPT !.pc = "idle"]
    <3>1. c \in Call /\ c.pc \notin ActivePCs
      BY Localize, ZenonT(60) DEF QType, Call, PCs, ActivePCs
    <3>2. call' = [call EXCEPT ![q] = c]
      BY <2>2, Localize DEF ReleaseEnds, QType, Call
    <3> QED BY <3>1, <3>2
  <2> QED BY <2>1, <2>2
<1>2. /\ UNCHANGED <<pending, operations, poolVars, queue, completed, stalled, buffers>>
      /\ GlobalType'
  BY Localize DEF Return, ReleaseEnds, hwVars, memoryVars, GlobalType
<1> QED BY <1>1, <1>2, InactiveFrame

\* A queue pair that stops keeps the invariant.
LEMMA StallStep ==
  ASSUME IInv, NEW q \in QueuePairs, Stall(q)
  PROVE  IInv'
<1>1. /\ stalled' = [stalled EXCEPT ![q] = TRUE]
      /\ UNCHANGED <<memoryVars, pending, operations, poolVars, queue, completed,
                     numMaybeNotOk, call, buffers>>
      /\ deviceErrors' = TRUE
  BY DEF Stall
<1>2. OnlyAt(q) /\ GlobalType'
  BY <1>1, Localize DEF OnlyAt, IInv, TypeOK, GlobalType, memoryVars, poolVars
<1>3. QType(call[q], completed[q], queue[q], stalled[q], pending[q], operations[q],
            freeOps[q], freeMbufs[q], op[q], buffers[q])'
  BY <1>1, Localize DEF QType, poolVars, IInv, TypeOK
<1>4. QInv(call[q], completed[q], queue[q], pending[q], operations[q], freeOps[q],
           op[q], buffers[q])'
  BY <1>1, Localize DEF poolVars
<1> QED BY <1>2, <1>3, <1>4, Frame

\* An operation that finishes stays in the hardware queue until it is dequeued.
LEMMA CompleteStep ==
  ASSUME IInv, NEW q \in QueuePairs, Complete(q)
  PROVE  IInv'
<1>1. /\ completed' = [completed EXCEPT ![q] = @ + 1]
      /\ completed[q] < Len(queue[q])
      /\ UNCHANGED <<memoryVars, pending, operations, poolVars, queue, stalled,
                     deviceErrors, numMaybeNotOk, call, buffers>>
  BY DEF Complete
<1>2. OnlyAt(q) /\ GlobalType'
  BY <1>1, Localize DEF OnlyAt, IInv, TypeOK, GlobalType, memoryVars, poolVars
<1>3. completed'[q] = completed[q] + 1 /\ completed[q] \in Nat /\ Len(queue[q]) \in Nat
  BY <1>1 DEF IInv, TypeOK
<1>4. QType(call[q], completed[q], queue[q], stalled[q], pending[q], operations[q],
            freeOps[q], freeMbufs[q], op[q], buffers[q])'
  BY <1>1, <1>3, Localize DEF QType, poolVars
<1>5. QInv(call[q], completed[q], queue[q], pending[q], operations[q], freeOps[q],
           op[q], buffers[q])'
  BY <1>1, <1>3, Localize DEF QInv, QLocals, poolVars
<1> QED BY <1>2, <1>4, <1>5, Frame

-----------------------------------------------------------------------------
(* Recycle and ReleaseAll *)

\* Put keeps the types of the stock, whether it finds its memzone or misses it.
LEMMA PutType ==
  ASSUME GlobalType, NEW q, NEW z, PutZone(q, z),
         UNCHANGED <<deviceErrors, numMaybeNotOk>>
  PROVE  GlobalType'
<1>1. CASE DM!Put(z) /\ UNCHANGED astray
  <2>1. CASE z \in occupied
    <3>1. <<z>> \in Seq(Memzones) /\ pool \in Seq(Memzones)
      BY <2>1 DEF GlobalType
    <3>2. <<z>> \o pool \in Seq(Memzones)
      BY <3>1, ConcatProperties, Zenon
    <3>3. reserved' = reserved /\ pool' = <<z>> \o pool /\ occupied' = occupied \ {z}
      BY <1>1, <2>1 DEF DM!Put
    <3> HIDE DEF DM!Put, PutZone
    <3> QED BY <1>1, <3>2, <3>3 DEF GlobalType
  <2>2. CASE z \notin occupied
    BY <1>1, <2>2 DEF GlobalType, DM!Put
  <2> QED BY <2>1, <2>2
<1>2. CASE DM!PutMisses /\ astray' = astray \cup (occupied \cap {z})
  BY <1>2 DEF GlobalType, DM!PutMisses, DM!vars
<1> QED BY <1>1, <1>2 DEF PutZone

\* Take keeps the types of the memzone stock.
LEMMA TakeType ==
  ASSUME GlobalType, NEW z \in Memzones, DM!Take(z),
         UNCHANGED <<astray, deviceErrors, numMaybeNotOk>>
  PROVE  GlobalType'
<1>1. CASE DM!TakePooled(z)
  BY <1>1, HeadTailProperties DEF GlobalType, DM!TakePooled
<1>2. CASE DM!TakeFresh(z)
  BY <1>2 DEF GlobalType, DM!TakeFresh
<1> QED BY <1>1, <1>2 DEF DM!Take

\* A turn of Recycle's loop keeps the invariant.
LEMMA PutBackStep ==
  ASSUME IInv, NEW q \in QueuePairs, PutBack(q)
  PROVE  IInv'
<1>1. GlobalType'
  BY Localize, PutType DEF PutBack, hwVars
<1>2. PICK c \in Call : c.pc \notin ActivePCs /\ call' = [call EXCEPT ![q] = c]
  <2>1. call[q] \in Call /\ call[q].pc = "putback"
    BY Localize DEF PutBack, At, QType
  <2>2. CASE Len(buffers[q]) > 1
    <3>1. call' = [call EXCEPT ![q] = call[q]]
      BY <2>2 DEF PutBack, IInv, TypeOK
    <3> QED BY <2>1, <3>1 DEF ActivePCs
  <2>3. CASE ~(Len(buffers[q]) > 1)
    <3> DEFINE c == [call[q] EXCEPT !.pc = IF call[q].result = "error"
                                             THEN "release" ELSE "idle"]
    <3>1. c \in Call /\ c.pc \notin ActivePCs
      BY <2>1 DEF Call, PCs, ActivePCs
    <3>2. call' = [call EXCEPT ![q] = c]
      BY <2>3, <2>1 DEF PutBack
    <3> QED BY <3>1, <3>2
  <2> QED BY <2>2, <2>3
<1>3. call'[q] = c
  BY <1>2 DEF IInv, TypeOK
<1>4. /\ buffers' = [buffers EXCEPT ![q] = SubSeq(@, 1, Len(buffers[q]) - 1)]
      /\ UNCHANGED <<pending, operations, poolVars, hwVars>>
  BY DEF PutBack
<1>5. buffers'[q] \in Seq(Buffer)
  <2>1. buffers[q] \in Seq(Buffer)
    BY Localize DEF QType
  <2>2. SubSeq(buffers[q], 1, Len(buffers[q]) - 1) \in Seq(Buffer)
    BY <2>1, SubSeqProperties
  <2> QED BY <1>4, <2>2 DEF IInv, TypeOK
<1>6. OnlyAt(q)
  BY <1>2, <1>3, <1>4 DEF OnlyAt, IInv, TypeOK, poolVars, hwVars
<1>7. QType(call[q], completed[q], queue[q], stalled[q], pending[q], operations[q],
            freeOps[q], freeMbufs[q], op[q], buffers[q])'
  BY <1>3, <1>4, <1>5, Localize DEF QType, poolVars, hwVars
<1>8. QInv(call[q], completed[q], queue[q], pending[q], operations[q], freeOps[q],
           op[q], buffers[q])'
  BY <1>2, <1>3, <1>4, Localize
     DEF QInv, QLocals, QMatches, QSources, ActivePCs, poolVars, hwVars
<1> QED BY <1>1, <1>6, <1>7, <1>8, Frame

\* Release giving one memzone back keeps the invariant.
LEMMA ReleaseDstStep ==
  ASSUME IInv, NEW q \in QueuePairs, ReleaseDst(q)
  PROVE  IInv'
<1>1. GlobalType'
  BY Localize, PutType DEF ReleaseDst, hwVars
<1>2. call[q].pc = "release" /\ call[q] \in Call /\ freeMbufs[q] \in Nat
  BY Localize DEF ReleaseDst, At, QType
<1>3. /\ call' = [call EXCEPT ![q].freed = @ + 1]
      /\ freeMbufs' = [freeMbufs EXCEPT ![q] = @ + 1]
      /\ UNCHANGED <<pending, operations, freeOps, op, hwVars, buffers>>
  BY DEF ReleaseDst
<1>4. call'[q] \in Call /\ call'[q].pc \notin ActivePCs /\ freeMbufs'[q] \in Nat
  <2> DEFINE c == [call[q] EXCEPT !.freed = call[q].freed + 1]
  <2>1. c \in Call /\ c.pc = "release"
    <3>1. call[q].freed + 1 \in Nat
      BY <1>2 DEF Call
    <3> DEFINE i == call[q].freed + 1
    <3> HIDE DEF i
    <3>2. [call[q] EXCEPT !.freed = i] \in Call /\ [call[q] EXCEPT !.freed = i].pc = "release"
      BY <1>2, <3>1 DEF Call, i
    <3> QED BY <3>2 DEF i
  <2>2. call'[q] = c /\ freeMbufs'[q] = freeMbufs[q] + 1
    <3>1. call' = [call EXCEPT ![q] = c]
      BY <1>3, Zenon
    <3> HIDE DEF c
    <3> QED BY <1>3, <3>1 DEF IInv, TypeOK
  <2> HIDE DEF c
  <2> QED BY <1>2, <2>1, <2>2 DEF ActivePCs
<1>5. OnlyAt(q)
  BY <1>3 DEF OnlyAt, IInv, TypeOK, hwVars
<1>6. QType(call[q], completed[q], queue[q], stalled[q], pending[q], operations[q],
            freeOps[q], freeMbufs[q], op[q], buffers[q])'
  BY <1>3, <1>4, Localize DEF QType, hwVars
<1>7. QInv(call[q], completed[q], queue[q], pending[q], operations[q], freeOps[q],
           op[q], buffers[q])'
  BY <1>3, <1>4, Localize DEF QInv, QLocals, QMatches, QSources, ActivePCs, hwVars
<1> QED BY <1>1, <1>5, <1>6, <1>7, Frame

\* Freeing the operation at the front keeps pending and free operations apart.
LEMMA PopFree ==
  ASSUME NEW pend \in Seq(Operations), NEW free \in SUBSET Operations,
         pend # <<>>, QExclusive(pend, free)
  PROVE  /\ Tail(pend) \in Seq(Operations)
         /\ free \cup {Head(pend)} \subseteq Operations
         /\ QExclusive(Tail(pend), free \cup {Head(pend)})
<1>1. /\ Head(pend) \in Operations /\ Tail(pend) \in Seq(Operations)
      /\ Elements(pend) = Elements(Tail(pend)) \cup {Head(pend)}
      /\ Distinct(Tail(pend)) /\ Head(pend) \notin Elements(Tail(pend))
  BY TailFacts DEF QExclusive
<1> QED BY <1>1 DEF QExclusive

\* Release freeing the operation at the front keeps the invariant: what leaves
\* pending_operations_ is what becomes free.
LEMMA ReleaseOpStep ==
  ASSUME IInv, NEW q \in QueuePairs, ReleaseOp(q)
  PROVE  IInv'
<1> DEFINE o == Head(pending[q])
<1>1. GlobalType'
  BY Localize DEF ReleaseOp, hwVars, memoryVars, GlobalType
<1>2. /\ call[q].pc = "release" /\ call[q] \in Call /\ freeMbufs[q] \in Nat
      /\ pending[q] # <<>> /\ pending[q] \in Seq(Operations)
      /\ freeOps[q] \in SUBSET Operations /\ op[q] \in [Operations -> Operation]
      /\ QExclusive(pending[q], freeOps[q])
  BY Localize DEF ReleaseOp, At, QType, QInv
<1>3. /\ call' = [call EXCEPT ![q].freed = 0]
      /\ pending' = [pending EXCEPT ![q] = Tail(@)]
      /\ freeOps' = [freeOps EXCEPT ![q] = @ \cup {o}]
      /\ freeMbufs' = [freeMbufs EXCEPT ![q] = @ + op[q][o].len]
      /\ op' = op \/ op' = [op EXCEPT ![q][o] = UnusedOp]
      /\ UNCHANGED <<operations, hwVars, buffers>>
  BY DEF ReleaseOp
<1>4. o \in Operations /\ op[q][o].len \in Nat
  BY <1>2, TailFacts DEF Operation
<1>5. call'[q] \in Call /\ call'[q].pc \notin ActivePCs /\ freeMbufs'[q] \in Nat
  <2> DEFINE c == [call[q] EXCEPT !.freed = 0]
  <2>1. c \in Call /\ c.pc = "release"
    BY <1>2 DEF Call
  <2>2. call'[q] = c /\ freeMbufs'[q] = freeMbufs[q] + op[q][o].len
    BY <1>3 DEF IInv, TypeOK
  <2> QED BY <1>2, <1>4, <2>1, <2>2 DEF ActivePCs
<1>6. pending'[q] = Tail(pending[q]) /\ freeOps'[q] = freeOps[q] \cup {o}
  BY <1>3 DEF IInv, TypeOK
<1>7. op'[q] \in [Operations -> Operation]
  <2>1. UnusedOp \in Operation
    BY EmptySeqFacts DEF UnusedOp, Operation
  <2> QED BY <1>2, <1>3, <2>1 DEF IInv, TypeOK
<1>8. OnlyAt(q)
  <2>1. op' = [op EXCEPT ![q] = op'[q]]
    BY <1>3 DEF IInv, TypeOK
  <2> QED BY <1>3, <2>1 DEF OnlyAt, IInv, TypeOK, hwVars
<1>9. /\ pending'[q] \in Seq(Operations) /\ freeOps'[q] \subseteq Operations
      /\ QExclusive(pending'[q], freeOps'[q])
  BY <1>2, <1>6, PopFree
<1>10. QType(call[q], completed[q], queue[q], stalled[q], pending[q], operations[q],
             freeOps[q], freeMbufs[q], op[q], buffers[q])'
  BY <1>3, <1>5, <1>7, <1>9, Localize DEF QType, hwVars
<1>11. QInv(call[q], completed[q], queue[q], pending[q], operations[q], freeOps[q],
            op[q], buffers[q])'
  <2>1. QLocals(call[q], completed[q], queue[q])'
    BY <1>3, <1>5, Localize DEF QInv, QLocals, ActivePCs, hwVars
  <2>2. QMatches(call[q], pending[q], queue[q], operations[q])'
        /\ QSources(call[q], pending[q], op[q], buffers[q])'
    BY <1>5 DEF QMatches, QSources
  <2> QED BY <1>9, <2>1, <2>2 DEF QInv
<1> QED BY <1>1, <1>8, <1>10, <1>11, Frame

-----------------------------------------------------------------------------
(* EnqueueBurst and DequeueBurst *)

\* GetErrorCount's counter stays below kNumIgnoredMaybeNotOKBurst.
LEMMA CounterType ==
  ASSUME GlobalType, numMaybeNotOk' = 0 \/ QuietEmptyBurst
  PROVE  numMaybeNotOk' \in 0..(NumIgnored - 1)
<1>1. NumIgnored \in Nat /\ NumIgnored > 0 /\ numMaybeNotOk \in Nat
  BY DeviceAssumption DEF GlobalType
<1>2. (numMaybeNotOk + 1) % NumIgnored \in 0..(NumIgnored - 1)
  BY <1>1
<1>3. Counted \subseteq 0..(NumIgnored - 1)
  BY <1>2 DEF Counted
<1> QED BY <1>1, <1>3 DEF QuietEmptyBurst

\* EnqueueBurst keeps the invariant, however much of the burst the device accepts:
\* the rest moves to the front of the array in order.
LEMMA EnqueueStep ==
  ASSUME IInv, NEW q \in QueuePairs, Enqueue(q)
  PROVE  IInv'
<1> DEFINE c == [call[q] EXCEPT !.pc = "dequeue"]
           ops == operations[q]
<1>1. /\ call[q].pc = "loop" /\ call[q] \in Call
      /\ queue[q] \in Seq(Operations) /\ ops \in Seq(Operations)
      /\ call[q].burst = <<>> /\ call[q].batch = <<>>
      /\ pending[q] = <<>> \o queue[q] \o ops \o <<>>
      /\ completed[q] \in Nat /\ completed[q] <= Len(queue[q])
  BY Localize DEF Enqueue, Enqueuing, At, QType, QInv, QLocals, QMatches, ActivePCs
<1>2. PICK k \in Accepted(q) :
        /\ IF k > 0 THEN numMaybeNotOk' = 0 ELSE QuietEmptyBurst
        /\ queue' = [queue EXCEPT ![q] = @ \o SubSeq(ops, 1, k)]
        /\ operations' = [operations EXCEPT ![q] = Unused(@, k)]
  BY DEF Enqueue
<1>3. k \in 0..Len(ops)
  <2> DEFINE n == Len(ops)
             m == MaxInflightOps - Len(queue[q])
  <2>1. n \in Nat /\ m \in Int
    BY <1>1, DeviceAssumption
  <2>2. k \in {0} \/ k \in 0..Least(n, m)
    BY DEF Accepted
  <2> HIDE DEF n, m
  <2>3. Least(n, m) \in Int /\ Least(n, m) <= n
    BY <2>1, LeastBound
  <2>4. k \in 0..n
    BY <2>1, <2>2, <2>3
  <2> QED BY <2>4 DEF n
<1> DEFINE a == SubSeq(ops, 1, k)
           b == SubSeq(ops, k + 1, Len(ops))
<1>4. a \in Seq(Operations) /\ b \in Seq(Operations) /\ a \o b = ops
  BY <1>1, <1>3, SplitSeq
<1>5. queue'[q] = queue[q] \o a /\ operations'[q] = b
  BY <1>2 DEF IInv, TypeOK, Unused
<1>6. /\ call' = [call EXCEPT ![q] = c]
      /\ UNCHANGED <<memoryVars, pending, poolVars, completed, stalled,
                     deviceErrors, buffers>>
  BY DEF Enqueue
<1>7. c \in Call /\ c.pc = "dequeue" /\ c.burst = <<>> /\ c.batch = <<>>
      /\ c.kind = call[q].kind /\ c.index = call[q].index /\ c.segs = call[q].segs
  BY <1>1 DEF Call, PCs
<1> HIDE DEF c, a, b
<1>8. call'[q] = c
  BY <1>6 DEF IInv, TypeOK
<1>9. GlobalType'
  BY <1>2, <1>6, CounterType, Localize DEF GlobalType, memoryVars
<1>10. OnlyAt(q)
  BY <1>2, <1>5, <1>6, <1>8 DEF OnlyAt, IInv, TypeOK, poolVars
<1>11. queue'[q] \in Seq(Operations) /\ Len(queue'[q]) >= Len(queue[q])
  BY <1>1, <1>4, <1>5, ConcatProperties
<1>12. QType(call[q], completed[q], queue[q], stalled[q], pending[q], operations[q],
             freeOps[q], freeMbufs[q], op[q], buffers[q])'
  BY <1>4, <1>5, <1>6, <1>7, <1>8, <1>11, Localize DEF QType, poolVars
<1>13. QMatches(call[q], pending[q], queue[q], operations[q])'
  <2>1. pending[q] = <<>> \o queue[q] \o (a \o b) \o <<>>
    BY <1>1, <1>4
  <2>2. pending[q] = <<>> \o (queue[q] \o a) \o b \o <<>>
    <3>1. queue[q] \in Seq(Operations) /\ a \in Seq(Operations) /\ b \in Seq(Operations)
      BY <1>1, <1>4
    <3>2. <<>> \o queue[q] \o (a \o b) \o <<>> = <<>> \o (queue[q] \o a) \o b \o <<>>
      <4> DEFINE s == queue[q]
      <4>1. s \in Seq(Operations)
        BY <3>1
      <4> HIDE DEF s
      <4>2. <<>> \o s \o (a \o b) \o <<>> = <<>> \o (s \o a) \o b \o <<>>
        BY <3>1, <4>1, Regroup, SMTT(30)
      <4> QED BY <4>2 DEF s
    <3> QED BY <2>1, <3>2
  <2> QED BY <1>5, <1>6, <1>7, <1>8, <2>2 DEF QMatches
<1>14. QInv(call[q], completed[q], queue[q], pending[q], operations[q], freeOps[q],
            op[q], buffers[q])'
  <2>1. QLocals(call[q], completed[q], queue[q])'
    <3>1. Len(queue[q]) \in Nat /\ Len(queue'[q]) \in Nat
      BY <1>1, <1>11
    <3> QED BY <1>1, <1>6, <1>7, <1>8, <1>11, <3>1 DEF QLocals
  <2>2. QExclusive(pending[q], freeOps[q])'
    BY <1>6, Localize DEF QInv, poolVars
  <2>3. QSources(call[q], pending[q], op[q], buffers[q])'
    BY <1>1, <1>6, <1>7, <1>8, Localize DEF QInv, QSources, poolVars, ActivePCs
  <2> QED BY <1>13, <2>1, <2>2, <2>3 DEF QInv
<1> QED BY <1>9, <1>10, <1>12, <1>14, Frame

\* DequeueBurst keeps the invariant: what it takes from the head of the hardware
\* queue is the head of pending_operations_.
LEMMA DequeueStep ==
  ASSUME IInv, NEW q \in QueuePairs, Dequeue(q)
  PROVE  IInv'
<1> DEFINE qu == queue[q]
           n == NumDequeued(q)
           a == SubSeq(qu, 1, n)
           b == SubSeq(qu, n + 1, Len(qu))
           pc == IF n > 0 THEN "burst" ELSE "loop"
           c == [call[q] EXCEPT !.pc = pc, !.burst = a]
<1>1. /\ call[q].pc \in {"loop", "dequeue"} /\ call[q] \in Call
      /\ qu \in Seq(Operations) /\ operations[q] \in Seq(Operations)
      /\ call[q].burst = <<>> /\ call[q].batch = <<>>
      /\ pending[q] = <<>> \o qu \o operations[q] \o <<>>
      /\ completed[q] \in Nat /\ completed[q] <= Len(qu)
  <2>1. call[q].pc \in {"loop", "dequeue"}
    BY DEF Dequeue, Dequeuing, At
  <2> QED BY <2>1, Localize DEF QType, QInv, QLocals, QMatches, ActivePCs
<1>2. /\ IF n > 0 THEN numMaybeNotOk' = 0 ELSE QuietEmptyBurst
      /\ queue' = [queue EXCEPT ![q] = b]
      /\ completed' = [completed EXCEPT ![q] = completed[q] - n]
      /\ call' = [call EXCEPT ![q] = c]
      /\ UNCHANGED <<memoryVars, pending, operations, poolVars, stalled,
                     deviceErrors, buffers>>
  <2>1. call' = [call EXCEPT ![q].pc = pc, ![q].burst = SubSeq(queue[q], 1, n)]
    BY DEF Dequeue
  <2>2. call' = [call EXCEPT ![q] = c]
    BY <2>1 DEF IInv, TypeOK
  <2> QED BY <2>2 DEF Dequeue
<1>3. n \in Nat /\ n <= completed[q] /\ n \in 0..Len(qu)
  <2>1. BurstSize \in Nat /\ Len(qu) \in Nat
    BY <1>1, DeviceAssumption
  <2> QED BY <1>1, <2>1 DEF NumDequeued, Least
<1> HIDE DEF n
<1>4. /\ a \in Seq(Operations) /\ b \in Seq(Operations) /\ a \o b = qu
      /\ Len(a) = n /\ Len(b) = Len(qu) - n
  BY <1>1, <1>3, SplitSeq, ZenonT(60)
<1> HIDE DEF a, b
<1>5. c \in Call /\ c.pc = pc /\ c.burst = a /\ c.batch = <<>>
      /\ c.kind = call[q].kind /\ c.index = call[q].index /\ c.segs = call[q].segs
  BY <1>1, <1>4 DEF Call, PCs
<1> HIDE DEF c
<1>6. call'[q] = c /\ queue'[q] = b /\ completed'[q] = completed[q] - n
  BY <1>2 DEF IInv, TypeOK
<1>7. GlobalType'
  BY <1>2, CounterType, Localize DEF GlobalType, memoryVars
<1>8. OnlyAt(q)
  BY <1>2, <1>6 DEF OnlyAt, IInv, TypeOK, poolVars
<1>9. QType(call[q], completed[q], queue[q], stalled[q], pending[q], operations[q],
            freeOps[q], freeMbufs[q], op[q], buffers[q])'
  <2>1. completed'[q] \in Nat
    BY <1>1, <1>3, <1>6
  <2> QED BY <1>2, <1>4, <1>5, <1>6, <2>1, Localize DEF QType, poolVars
<1>10. QLocals(call[q], completed[q], queue[q])'
  <2>1. completed'[q] <= Len(queue'[q])
    BY <1>1, <1>3, <1>4, <1>6
  <2>2. n > 0 => a # <<>>
    BY <1>4
  <2>3. ~(n > 0) => a = <<>>
    BY <1>3, <1>4
  <2> QED BY <1>5, <1>6, <2>1, <2>2, <2>3 DEF QLocals
<1>11. QMatches(call[q], pending[q], queue[q], operations[q])'
  <2> DEFINE ops == operations[q]
  <2>1. ops \in Seq(Operations)
    BY <1>1
  <2>2. pending[q] = <<>> \o (a \o b) \o ops \o <<>>
    BY <1>1, <1>4
  <2> HIDE DEF ops
  <2>3. <<>> \o (a \o b) \o ops \o <<>> = a \o b \o ops \o <<>>
    <3>1. <<>> \o (a \o b) = a \o b
      BY <1>4, ConcatProperties, ConcatEmptySeq
    <3> QED BY <3>1
  <2> QED BY <1>2, <1>5, <1>6, <2>2, <2>3 DEF QMatches, ops
<1>12. QInv(call[q], completed[q], queue[q], pending[q], operations[q], freeOps[q],
            op[q], buffers[q])'
  <2>1. QExclusive(pending[q], freeOps[q])'
    BY <1>2, Localize DEF QInv, poolVars
  <2>2. QSources(call[q], pending[q], op[q], buffers[q])'
    BY <1>1, <1>2, <1>5, <1>6, Localize DEF QInv, QSources, poolVars, ActivePCs
  <2> QED BY <1>10, <1>11, <2>1, <2>2 DEF QInv
<1> QED BY <1>7, <1>8, <1>9, <1>12, Frame

-----------------------------------------------------------------------------
(* One dequeued operation *)

\* The front of two sequences put one after the other is the front of the first.
LEMMA HeadTailConcat ==
  ASSUME NEW S, NEW s \in Seq(S), NEW t \in Seq(S), s # <<>>
  PROVE  /\ s \o t \in Seq(S)
         /\ s \o t # <<>>
         /\ Head(s \o t) = Head(s)
         /\ Tail(s \o t) = Tail(s) \o t
<1>1. /\ s \o t \in Seq(S) /\ Tail(s) \in Seq(S)
      /\ Len(s) \in Nat \ {0} /\ Len(t) \in Nat
      /\ Len(s \o t) = Len(s) + Len(t)
      /\ Len(Tail(s)) = Len(s) - 1
      /\ \A i \in 1..(Len(s) - 1) : Tail(s)[i] = s[i + 1]
      /\ \A i \in 1..(Len(s) + Len(t)) :
           (s \o t)[i] = IF i <= Len(s) THEN s[i] ELSE t[i - Len(s)]
  OBVIOUS
<1>2. s \o t # <<>> /\ Head(s \o t) = Head(s)
  BY <1>1
<1>3. /\ Tail(s \o t) \in Seq(S)
      /\ Len(Tail(s \o t)) = Len(s) + Len(t) - 1
      /\ \A i \in 1..(Len(s) + Len(t) - 1) : Tail(s \o t)[i] = (s \o t)[i + 1]
  BY <1>1, <1>2, HeadTailProperties
<1>4. /\ Tail(s) \o t \in Seq(S)
      /\ Len(Tail(s) \o t) = Len(s) - 1 + Len(t)
      /\ \A i \in 1..(Len(s) - 1 + Len(t)) :
           (Tail(s) \o t)[i] = IF i <= Len(s) - 1 THEN Tail(s)[i]
                                                  ELSE t[i - (Len(s) - 1)]
  BY <1>1, ConcatProperties
<1>5. ASSUME NEW i \in 1..(Len(s) + Len(t) - 1)
      PROVE  Tail(s \o t)[i] = (Tail(s) \o t)[i]
  <2>1. CASE i <= Len(s) - 1
    BY <1>1, <1>3, <1>4, <2>1
  <2>2. CASE ~(i <= Len(s) - 1)
    BY <1>1, <1>3, <1>4, <2>2
  <2> QED BY <2>1, <2>2
<1>6. Tail(s \o t) = Tail(s) \o t
  <2> DEFINE x == Tail(s \o t)
             y == Tail(s) \o t
  <2>1. x \in Seq(S) /\ y \in Seq(S) /\ Len(x) = Len(y)
    BY <1>1, <1>3, <1>4
  <2>2. \A i \in 1..Len(x) : x[i] = y[i]
    BY <1>3, <1>5
  <2> HIDE DEF x, y
  <2>3. x = y
    BY <2>1, <2>2, SeqEqual
  <2> QED BY <2>3 DEF x, y
<1> QED BY <1>1, <1>2, <1>6

\* The front of the burst is the front of what is pending.
LEMMA FrontMatches ==
  ASSUME NEW burst \in Seq(Operations), NEW qu \in Seq(Operations),
         NEW ops \in Seq(Operations), NEW pend, burst # <<>>,
         pend = burst \o qu \o ops \o <<>>
  PROVE  /\ pend # <<>>
         /\ Head(pend) = Head(burst)
         /\ Tail(pend) = Tail(burst) \o qu \o ops \o <<>>
<1>1. /\ burst \o qu \in Seq(Operations) /\ burst \o qu # <<>>
      /\ Head(burst \o qu) = Head(burst)
      /\ Tail(burst \o qu) = Tail(burst) \o qu
  BY HeadTailConcat
<1>2. /\ burst \o qu \o ops \in Seq(Operations) /\ burst \o qu \o ops # <<>>
      /\ Head(burst \o qu \o ops) = Head(burst)
      /\ Tail(burst \o qu \o ops) = Tail(burst) \o qu \o ops
  <2> DEFINE s == burst \o qu
  <2>1. s \in Seq(Operations) /\ s # <<>>
    BY <1>1
  <2> HIDE DEF s
  <2>2. /\ s \o ops \in Seq(Operations) /\ s \o ops # <<>>
        /\ Head(s \o ops) = Head(s) /\ Tail(s \o ops) = Tail(s) \o ops
    BY <2>1, HeadTailConcat
  <2> QED BY <1>1, <2>2 DEF s
<1>3. pend = burst \o qu \o ops
  BY <1>2, ConcatEmptySeq
<1>4. Tail(burst) \o qu \o ops \in Seq(Operations)
  BY TailFacts, ConcatProperties
<1>5. Tail(burst) \o qu \o ops \o <<>> = Tail(burst) \o qu \o ops
  BY <1>4, ConcatEmptySeq
<1> QED BY <1>2, <1>3, <1>5

\* The buffers that a decompression chains as its source exist.
LEMMA SourceType ==
  ASSUME NEW q \in QueuePairs, NEW o \in Operations, NEW n \in Nat,
         buffers[q] \in Seq(Buffer), op[q] \in [Operations -> Operation],
         InRange(o, op[q], n), n <= Len(buffers[q])
  PROVE  Source(q, o)[1].first \in Nat
<1> DEFINE f == op[q][o].first
           l == op[q][o].len
           s == buffers[q]
<1>1. /\ f \in Nat /\ l \in Nat /\ f >= 1 /\ l >= 1 /\ f + l - 1 <= n
      /\ s \in Seq(Buffer) /\ n <= Len(s)
  BY DEF InRange, Operation
<1>2. Source(q, o) = SubSeq(s, f, f + l - 1)
  BY DEF Source
<1> HIDE DEF f, l, s
<1>3. SubSeq(s, f, f + l - 1)[1] = s[f]
  BY <1>1
<1>4. f \in 1..Len(s)
  BY <1>1
<1>5. s[f] \in Buffer
  BY <1>1, <1>4
<1> QED BY <1>2, <1>3, <1>5 DEF Buffer

\* What dequeue_callback of Compress appends to the result are buffers.
LEMMA ProducedType ==
  ASSUME NEW q \in QueuePairs, NEW o \in Operations, op[q][o] \in Operation,
         NEW n \in 1..Len(op[q][o].dst)
  PROVE  Produced(q, o, n) \in Seq(Buffer)
<1>1. /\ op[q][o].dst \in Seq(Memzones) /\ op[q][o].first \in Nat
      /\ op[q][o].len \in Nat /\ Len(op[q][o].dst) \in Nat
  BY DEF Operation
<1>2. ASSUME NEW j \in 1..n
      PROVE  [zone |-> op[q][o].dst[j], first |-> op[q][o].first,
              segs |-> op[q][o].len, part |-> j, parts |-> n] \in Buffer
  BY <1>1 DEF Buffer
<1>3. Produced(q, o, n) \in [1..n -> Buffer]
  BY <1>2 DEF Produced
<1> QED BY <1>1, <1>3

\* While a dequeued burst is processed, its first operation is the front of
\* pending_operations_, which is what RecycleResources frees.
LEMMA FrontOfBurst ==
  ASSUME IInv, NEW q \in QueuePairs, call[q].pc = "burst"
  PROVE  /\ call[q].burst # <<>>
         /\ pending[q] # <<>>
         /\ Head(pending[q]) = Head(call[q].burst)
         /\ Tail(pending[q]) = Tail(call[q].burst) \o queue[q] \o operations[q] \o <<>>
         /\ Head(pending[q]) \in Elements(pending[q])
<1> DEFINE burst == call[q].burst
           qu == queue[q]
           ops == operations[q]
           pend == pending[q]
<1>1. /\ burst # <<>> /\ burst \in Seq(Operations) /\ call[q].batch = <<>>
      /\ qu \in Seq(Operations) /\ ops \in Seq(Operations)
      /\ pend \in Seq(Operations)
      /\ pend = burst \o qu \o ops \o <<>>
  BY Localize DEF QType, QInv, QLocals, QMatches, ActivePCs, Call
<1> HIDE DEF burst, qu, ops, pend
<1>2. /\ pend # <<>> /\ Head(pend) = Head(burst)
      /\ Tail(pend) = Tail(burst) \o qu \o ops \o <<>>
  BY <1>1, FrontMatches
<1>3. Head(pend) \in Elements(pend)
  <2>1. pend \in Seq(Operations) /\ pend # <<>>
    BY <1>1, <1>2
  <2>2. Elements(pend) = Elements(Tail(pend)) \cup {Head(pend)}
    BY <2>1, TailFacts
  <2> QED BY <2>2
<1> QED BY <1>1, <1>2, <1>3 DEF burst, qu, ops, pend

\* The local data of RecycleOp: what the lcore knows, and what it decodes.
LEMMA RecycleOpCall ==
  ASSUME IInv, NEW q \in QueuePairs, RecycleOp(q)
  PROVE  \E c \in Call :
           /\ call' = [call EXCEPT ![q] = c]
           /\ c.pc = IF Tail(call[q].burst) = <<>> THEN "loop" ELSE "burst"
           /\ c.burst = Tail(call[q].burst)
           /\ c.batch = call[q].batch
           /\ c.kind = call[q].kind
           /\ c.index = call[q].index
           /\ c.segs = call[q].segs
<1> DEFINE o == Head(call[q].burst)
           rest == Tail(call[q].burst)
           pc == IF rest = <<>> THEN "loop" ELSE "burst"
           d == [slot |-> op[q][o].first, first |-> Source(q, o)[1].first]
           decoded == IF call[q].kind = "decompress" THEN Append(call[q].decoded, d)
                                                     ELSE call[q].decoded
           c == [call[q] EXCEPT !.pc = pc, !.burst = rest, !.decoded = decoded]
<1>1. /\ call[q] \in Call /\ call[q].pc = "burst" /\ call[q].burst # <<>>
      /\ call[q].burst \in Seq(Operations) /\ call[q].batch = <<>>
      /\ pending[q] = call[q].burst \o queue[q] \o operations[q] \o <<>>
      /\ queue[q] \in Seq(Operations) /\ operations[q] \in Seq(Operations)
      /\ pending[q] \in Seq(Operations)
      /\ buffers[q] \in Seq(Buffer) /\ op[q] \in [Operations -> Operation]
  BY Localize DEF RecycleOp, At, QType, QInv, QLocals, QMatches, ActivePCs, Call
<1>2. o \in Operations /\ rest \in Seq(Operations)
  BY <1>1, TailFacts
<1>3. call[q].kind = "decompress" => d \in [slot : Nat, first : Nat]
  <2> SUFFICES ASSUME call[q].kind = "decompress" PROVE d \in [slot : Nat, first : Nat]
    OBVIOUS
  <2>2. o \in Elements(pending[q])
    BY <1>1, FrontOfBurst
  <2>3. /\ InRange(o, op[q], call[q].index)
        /\ call[q].index <= Len(buffers[q]) /\ call[q].index \in Nat
    BY <1>1, <2>2, Localize DEF QInv, QSources, ActivePCs, Call
  <2>4. Source(q, o)[1].first \in Nat
    BY <1>1, <1>2, <2>3, SourceType
  <2>5. op[q][o].first \in Nat
    BY <1>1, <1>2 DEF Operation
  <2> QED BY <2>4, <2>5
<1>4. decoded \in Seq([slot : Nat, first : Nat])
  <2>1. call[q].decoded \in Seq([slot : Nat, first : Nat])
    BY <1>1 DEF Call
  <2> HIDE DEF d
  <2> QED BY <1>3, <2>1, AppendProperties
<1>5. call' = [call EXCEPT ![q] = c]
  BY <1>1 DEF RecycleOp
<1> HIDE DEF rest, decoded
<1>6. /\ c \in Call /\ c.pc = pc /\ c.burst = rest /\ c.batch = call[q].batch
      /\ c.kind = call[q].kind /\ c.index = call[q].index /\ c.segs = call[q].segs
  BY <1>1, <1>2, <1>4 DEF Call, PCs
<1> QED BY <1>5, <1>6 DEF rest

\* RecycleResources keeps the invariant: the operation that is dequeued, the one
\* that is freed and the one that leaves pending_operations_ are the same.
LEMMA RecycleOpStep ==
  ASSUME IInv, NEW q \in QueuePairs, RecycleOp(q)
  PROVE  IInv'
<1> DEFINE o == Head(call[q].burst)
           pend == pending[q]
<1>1. /\ call[q] \in Call /\ call[q].pc = "burst" /\ call[q].batch = <<>>
      /\ pend \in Seq(Operations) /\ freeOps[q] \in SUBSET Operations
      /\ QExclusive(pend, freeOps[q])
      /\ buffers[q] \in Seq(Buffer) /\ op[q] \in [Operations -> Operation]
      /\ freeMbufs[q] \in Nat
  BY Localize DEF RecycleOp, At, QType, QInv, QLocals
<1>2. /\ pend # <<>> /\ Head(pend) = o
      /\ Tail(pend) = Tail(call[q].burst) \o queue[q] \o operations[q] \o <<>>
  BY <1>1, FrontOfBurst
<1>3. o \in Operations /\ op[q][o] \in Operation /\ NumMbufsOf(q, o) \in Nat
  <2>1. o \in Operations
    BY <1>1, <1>2, TailFacts
  <2> QED BY <1>1, <2>1, SMTT(30) DEF NumMbufsOf, Operation
<1>4. PICK c \in Call :
        /\ call' = [call EXCEPT ![q] = c]
        /\ c.pc = IF Tail(call[q].burst) = <<>> THEN "loop" ELSE "burst"
        /\ c.burst = Tail(call[q].burst)
        /\ c.batch = call[q].batch
        /\ c.kind = call[q].kind
        /\ c.index = call[q].index
        /\ c.segs = call[q].segs
  BY RecycleOpCall
<1>5. /\ pending' = [pending EXCEPT ![q] = Tail(@)]
      /\ freeOps' = [freeOps EXCEPT ![q] = @ \cup {o}]
      /\ freeMbufs' = [freeMbufs EXCEPT ![q] = @ + NumMbufsOf(q, o)]
      /\ op' = [op EXCEPT ![q][o] = UnusedOp]
      /\ UNCHANGED <<reserved, pool, occupied, operations, hwVars, numMaybeNotOk>>
  BY DEF RecycleOp
<1>6. PICK s \in Seq(Buffer) :
        /\ buffers' = [buffers EXCEPT ![q] = s]
        /\ call[q].kind = "decompress" => s = buffers[q]
  <2>1. CASE call[q].kind = "decompress"
    <3>1. buffers' = [buffers EXCEPT ![q] = buffers[q]]
      BY <2>1 DEF RecycleOp, IInv, TypeOK
    <3> QED BY <1>1, <3>1
  <2>2. CASE call[q].kind # "decompress"
    <3>1. PICK n \in 1..Len(op[q][o].dst) :
            buffers' = [buffers EXCEPT ![q] = @ \o Produced(q, o, n)]
      BY <2>2 DEF RecycleOp
    <3>2. Produced(q, o, n) \in Seq(Buffer)
      BY <1>3, ProducedType
    <3>3. buffers[q] \o Produced(q, o, n) \in Seq(Buffer)
      BY <1>1, <3>2, ConcatProperties
    <3> QED BY <2>2, <3>1, <3>3
  <2> QED BY <2>1, <2>2
<1>7. /\ call'[q] = c /\ buffers'[q] = s
      /\ pending'[q] = Tail(pend) /\ freeOps'[q] = freeOps[q] \cup {o}
      /\ freeMbufs'[q] = freeMbufs[q] + NumMbufsOf(q, o)
      /\ op'[q] = [op[q] EXCEPT ![o] = UnusedOp]
  BY <1>4, <1>5, <1>6 DEF IInv, TypeOK
<1>8. op'[q] \in [Operations -> Operation]
      /\ \A p \in Operations : p # o => op'[q][p] = op[q][p]
  <2>1. UnusedOp \in Operation
    BY EmptySeqFacts DEF UnusedOp, Operation
  <2> QED BY <1>1, <1>7, <2>1
<1>9. /\ Tail(pend) \in Seq(Operations) /\ freeOps[q] \cup {o} \subseteq Operations
      /\ QExclusive(Tail(pend), freeOps[q] \cup {o})
  BY <1>1, <1>2, PopFree
<1>10. GlobalType'
  <2>1. op[q][o].dst \in Seq(Memzones)
    BY <1>3 DEF Operation
  <2>2. ASSUME NEW n \in 1..Len(op[q][o].dst)
        PROVE  Unfilled(q, o, n) \subseteq Memzones
    BY <2>1 DEF Unfilled
  <2>3. \/ astray' = astray
        \/ \E n \in 1..Len(op[q][o].dst) : astray' = astray \cup Unfilled(q, o, n)
    BY DEF RecycleOp
  <2>4. astray' \subseteq Memzones
    BY <2>2, <2>3, Localize DEF GlobalType
  <2> QED BY <1>5, <2>4, Localize DEF GlobalType, hwVars
<1>11. OnlyAt(q)
  <2>1. op' = [op EXCEPT ![q] = op'[q]]
    BY <1>5 DEF IInv, TypeOK
  <2> QED BY <1>4, <1>5, <1>6, <1>7, <2>1 DEF OnlyAt, IInv, TypeOK, hwVars
<1>12. QType(call[q], completed[q], queue[q], stalled[q], pending[q], operations[q],
             freeOps[q], freeMbufs[q], op[q], buffers[q])'
  <2>1. freeMbufs'[q] \in Nat
    BY <1>1, <1>3, <1>7
  <2> QED BY <1>5, <1>6, <1>7, <1>8, <1>9, <2>1, Localize DEF QType, hwVars
<1>13. QLocals(call[q], completed[q], queue[q])'
  BY <1>1, <1>4, <1>5, <1>7, Localize DEF QInv, QLocals, hwVars
<1>14. QMatches(call[q], pending[q], queue[q], operations[q])'
  BY <1>1, <1>2, <1>4, <1>5, <1>7 DEF QMatches, hwVars
<1>15. QSources(call[q], pending[q], op[q], buffers[q])'
  <2> SUFFICES ASSUME c.kind = "decompress"
               PROVE  /\ c.index <= c.segs
                      /\ c.segs = Len(s)
                      /\ \A p \in Elements(Tail(pend)) : InRange(p, op'[q], c.index)
    BY <1>7 DEF QSources
  <2>1. /\ c.index <= c.segs /\ c.segs = Len(s)
        /\ \A p \in Elements(pend) : InRange(p, op[q], c.index)
    BY <1>1, <1>4, <1>6, Localize DEF QInv, QSources, ActivePCs
  <2>2. ASSUME NEW p \in Elements(Tail(pend))
        PROVE  p # o /\ p \in Operations /\ p \in Elements(pend)
    <3>1. /\ Elements(pend) = Elements(Tail(pend)) \cup {o}
          /\ o \notin Elements(Tail(pend))
      BY <1>1, <1>2, TailFacts DEF QExclusive
    <3>2. p \in Operations
      BY <1>9 DEF Elements
    <3> QED BY <3>1, <3>2
  <2>3. ASSUME NEW p \in Elements(Tail(pend))
        PROVE  InRange(p, op'[q], c.index)
    BY <2>1, <2>2, <1>8 DEF InRange
  <2> QED BY <2>1, <2>3
<1>16. QInv(call[q], completed[q], queue[q], pending[q], operations[q], freeOps[q],
            op[q], buffers[q])'
  <2>1. QExclusive(pending[q], freeOps[q])'
    BY <1>7, <1>9
  <2> QED BY <1>13, <1>14, <1>15, <2>1 DEF QInv
<1> QED BY <1>10, <1>11, <1>12, <1>16, Frame

-----------------------------------------------------------------------------
(* AssembleFrom *)

\* A destination mbuf getting its memzone keeps the invariant; with the last one
\* the batch moves from the call to the array of operations.
LEMMA TakeDstStep ==
  ASSUME IInv, NEW q \in QueuePairs, TakeDst(q)
  PROVE  IInv'
<1> DEFINE b == call[q].batch
           qu == queue[q]
           ops == operations[q]
<1>1. /\ call[q] \in Call /\ call[q].pc = "take" /\ call[q].kind = "compress"
      /\ call[q].burst = <<>> /\ b \in Seq(Operations)
      /\ qu \in Seq(Operations) /\ ops \in Seq(Operations)
      /\ pending[q] = <<>> \o qu \o ops \o b
      /\ op[q] \in [Operations -> Operation]
  BY Localize DEF TakeDst, At, QType, QInv, QLocals, QMatches, ActivePCs, Call
<1>2. PICK i \in DOMAIN b, z \in Memzones :
        /\ DM!Take(z)
        /\ op' = [op EXCEPT ![q][b[i]].dst = Append(@, z)]
        /\ \/ /\ operations' = [operations EXCEPT ![q] = @ \o b]
              /\ call' = [call EXCEPT ![q].pc = "loop", ![q].batch = <<>>]
           \/ UNCHANGED <<operations, call>>
  BY DEF TakeDst
<1>3. UNCHANGED <<astray, pending, freeOps, freeMbufs, hwVars, numMaybeNotOk, buffers>>
  BY DEF TakeDst
<1>4. PICK c \in Call, s \in Seq(Operations) :
        /\ call' = [call EXCEPT ![q] = c]
        /\ operations' = [operations EXCEPT ![q] = s]
        /\ c.pc \in {"loop", "take"} /\ c.kind = "compress" /\ c.burst = <<>>
        /\ c.pc = "loop" => c.batch = <<>>
        /\ pending[q] = <<>> \o qu \o s \o c.batch
  <2>1. CASE UNCHANGED <<operations, call>>
    <3>1. /\ call' = [call EXCEPT ![q] = call[q]]
          /\ operations' = [operations EXCEPT ![q] = ops]
      BY <2>1 DEF IInv, TypeOK
    <3> QED BY <1>1, <3>1
  <2>2. CASE /\ operations' = [operations EXCEPT ![q] = @ \o b]
             /\ call' = [call EXCEPT ![q].pc = "loop", ![q].batch = <<>>]
    <3> DEFINE c == [call[q] EXCEPT !.pc = "loop", !.batch = <<>>]
    <3>1. call' = [call EXCEPT ![q] = c]
      BY <2>2, <1>1 DEF IInv, TypeOK
    <3>2. /\ c \in Call /\ c.pc = "loop" /\ c.kind = "compress" /\ c.burst = <<>>
          /\ c.batch = <<>>
      BY <1>1, EmptySeqFacts DEF Call, PCs
    <3> HIDE DEF c, qu, ops, b
    <3>3. ops \o b \in Seq(Operations)
      BY <1>1, ConcatProperties
    <3>4. <<>> \o qu \o ops \o b = <<>> \o qu \o (ops \o b) \o <<>>
      <4>1. <<>> \o qu = qu /\ qu \o (ops \o b) \in Seq(Operations)
        BY <1>1, <3>3, ConcatEmptySeq, ConcatProperties
      <4>2. qu \o ops \o b = qu \o (ops \o b)
        BY <1>1, ConcatAssociative
      <4>3. qu \o (ops \o b) \o <<>> = qu \o (ops \o b)
        BY <4>1, ConcatEmptySeq
      <4> QED BY <4>1, <4>2, <4>3
    <3>5. operations' = [operations EXCEPT ![q] = ops \o b]
      BY <2>2 DEF ops
    <3> QED BY <1>1, <3>1, <3>2, <3>3, <3>4, <3>5
  <2> QED BY <1>2, <2>1, <2>2
<1>5. GlobalType'
  BY <1>2, <1>3, TakeType, Localize DEF hwVars
<1>6. call'[q] = c /\ operations'[q] = s
  BY <1>4 DEF IInv, TypeOK
<1>7. op'[q] \in [Operations -> Operation] /\ op' = [op EXCEPT ![q] = op'[q]]
  <2> DEFINE o == b[i]
             dst == Append(op[q][o].dst, z)
  <2>1. o \in Operations
    <3>1. b \in Seq(Operations) /\ i \in DOMAIN b
      BY <1>1
    <3> HIDE DEF b
    <3> QED BY <3>1
  <2>2. dst \in Seq(Memzones)
    BY <1>1, <2>1, AppendProperties DEF Operation
  <2> HIDE DEF dst
  <2>3. [op[q][o] EXCEPT !.dst = dst] \in Operation
    BY <1>1, <2>1, <2>2 DEF Operation
  <2>4. op' = [op EXCEPT ![q] = [op[q] EXCEPT ![o] = [op[q][o] EXCEPT !.dst = dst]]]
    BY <1>2 DEF dst
  <2> HIDE DEF o
  <2> QED BY <1>1, <2>1, <2>3, <2>4 DEF IInv, TypeOK
<1>8. OnlyAt(q)
  BY <1>3, <1>4, <1>6, <1>7 DEF OnlyAt, IInv, TypeOK, hwVars
<1>9. QType(call[q], completed[q], queue[q], stalled[q], pending[q], operations[q],
            freeOps[q], freeMbufs[q], op[q], buffers[q])'
  BY <1>3, <1>6, <1>7, Localize DEF QType, hwVars
<1>10. QInv(call[q], completed[q], queue[q], pending[q], operations[q], freeOps[q],
            op[q], buffers[q])'
  <2>1. QLocals(call[q], completed[q], queue[q])'
    BY <1>3, <1>4, <1>6, Localize DEF QInv, QLocals, hwVars
  <2>2. QMatches(call[q], pending[q], queue[q], operations[q])'
    BY <1>3, <1>4, <1>6 DEF QMatches, hwVars
  <2>3. QExclusive(pending[q], freeOps[q])'
    BY <1>3, Localize DEF QInv
  <2>4. QSources(call[q], pending[q], op[q], buffers[q])'
    BY <1>4, <1>6 DEF QSources
  <2> QED BY <2>1, <2>2, <2>3, <2>4 DEF QInv
<1> QED BY <1>5, <1>8, <1>9, <1>10, Frame

\* The operations of the next burst are well-formed and within the request.
LEMMA NextFacts ==
  ASSUME NEW q \in QueuePairs, CanAssemble(q), call[q] \in Call,
         operations[q] \in Seq(Operations)
  PROVE  /\ NextUnits(q) \in Nat /\ NextOps(q) \in Nat
         /\ call[q].index + NextUnits(q) <= call[q].segs
         /\ \A i \in 1..NextOps(q) :
              /\ Assembled(q, i) \in Operation
              /\ Assembled(q, i).first >= 1
              /\ Assembled(q, i).len >= 1
              /\ Assembled(q, i).first + Assembled(q, i).len - 1
                   <= call[q].index + NextUnits(q)
<1> DEFINE S == MaxSglSegs
           index == call[q].index
           segs == call[q].segs
           room == BurstSize - Len(operations[q])
           U == NextUnits(q)
           k == NextOps(q)
<1>1. /\ S \in Nat /\ S > 0 /\ index \in Nat /\ segs \in Nat
      /\ index < segs /\ room \in Nat
  BY DeviceAssumption DEF Call, CanAssemble
<1>2. U = Least(segs - index, room * S) /\ k = (U + S - 1) \div S
  BY DEF NextUnits, NextOps
<1> HIDE DEF S, index, segs, room, U, k
<1>3. U \in Nat /\ index + U <= segs
  <2>1. room * S \in Nat
    BY <1>1
  <2> DEFINE p == room * S
  <2> HIDE DEF p
  <2>2. p \in Nat /\ U = Least(segs - index, p)
    BY <1>2, <2>1 DEF p
  <2> QED BY <1>1, <2>2 DEF Least
<1>4. k \in Nat /\ k * S <= U + S - 1
  <2> DEFINE n == U + S - 1
  <2>1. n \in Nat
    BY <1>1, <1>3
  <2>2. k = n \div S
    BY <1>2
  <2> HIDE DEF n
  <2>3. k \in Nat /\ k * S <= n
    BY <1>1, <2>1, <2>2
  <2> QED BY <2>3 DEF n
<1>5. ASSUME NEW i \in 1..k
      PROVE  (i - 1) * S \in Nat /\ (i - 1) * S < U
  <2>1. (i - 1) * S \in Nat /\ i * S <= k * S /\ i * S = (i - 1) * S + S
    BY <1>1, <1>4
  <2>2. i * S \in Nat /\ k * S \in Nat
    BY <1>1, <1>4
  <2> QED BY <1>1, <1>3, <1>4, <2>1, <2>2
<1>6. ASSUME NEW i \in 1..k
      PROVE  /\ Assembled(q, i) \in Operation
             /\ Assembled(q, i).first >= 1
             /\ Assembled(q, i).len >= 1
             /\ Assembled(q, i).first + Assembled(q, i).len - 1 <= index + U
  <2> DEFINE before == (i - 1) * S
             len == Least(S, U - before)
  <2>1. before \in Nat /\ before < U
    BY <1>5
  <2>2. Assembled(q, i) = [first |-> index + before + 1, len |-> len, dst |-> <<>>]
    BY DEF Assembled, S, index, U
  <2> HIDE DEF before
  <2>3. len \in Nat /\ len >= 1 /\ len <= U - before
    BY <1>1, <1>3, <2>1 DEF Least
  <2> HIDE DEF len
  <2>4. index + before + 1 \in Nat /\ index + before + 1 >= 1
        /\ (index + before + 1) + len - 1 <= index + U
    BY <1>1, <1>3, <2>1, <2>3
  <2> QED BY <2>2, <2>3, <2>4, EmptySeqFacts DEF Operation
<1> QED BY <1>3, <1>4, <1>6 DEF S, index, segs, U, k

\* What rte_comp_op_bulk_alloc returns: different operations, all of them free.
LEMMA AllocationFacts ==
  ASSUME NEW q \in QueuePairs, NEW k \in Nat, NEW b \in Allocations(q, k),
         freeOps[q] \in SUBSET Operations
  PROVE  /\ b \in Seq(Operations) /\ DOMAIN b = 1..k
         /\ Distinct(b)
         /\ Elements(b) \subseteq freeOps[q]
<1>1. b \in [1..k -> freeOps[q]] /\ Distinct(b)
  BY DEF Allocations
<1> QED BY <1>1 DEF Elements

\* AssembleFrom keeps the invariant: the batch comes from the free operations and
\* joins pending_operations_ at the back.
LEMMA AssembleStep ==
  ASSUME IInv, NEW q \in QueuePairs, Assemble(q)
  PROVE  IInv'
<1> DEFINE U == NextUnits(q)
           k == NextOps(q)
           pend == pending[q]
           qu == queue[q]
           ops == operations[q]
<1>1. /\ call[q] \in Call /\ call[q].pc = "loop" /\ CanAssemble(q)
      /\ call[q].burst = <<>> /\ call[q].batch = <<>>
      /\ qu \in Seq(Operations) /\ ops \in Seq(Operations)
      /\ pend \in Seq(Operations) /\ pend = <<>> \o qu \o ops \o <<>>
      /\ op[q] \in [Operations -> Operation] /\ freeMbufs[q] \in Nat
      /\ freeOps[q] \in SUBSET Operations /\ QExclusive(pend, freeOps[q])
      /\ U * 2 <= freeMbufs[q]
  BY Localize DEF Assemble, At, QType, QInv, QLocals, QMatches, ActivePCs
<1>2. /\ U \in Nat /\ k \in Nat
      /\ call[q].index + U <= call[q].segs
      /\ \A i \in 1..k :
           /\ Assembled(q, i) \in Operation
           /\ Assembled(q, i).first >= 1
           /\ Assembled(q, i).len >= 1
           /\ Assembled(q, i).first + Assembled(q, i).len - 1 <= call[q].index + U
  BY <1>1, NextFacts
<1>3. PICK b \in Allocations(q, k) :
        /\ freeOps' = [freeOps EXCEPT ![q] = @ \ Elements(b)]
        /\ freeMbufs' = [freeMbufs EXCEPT ![q] = @ - U * 2]
        /\ op' = [op EXCEPT ![q] =
             [o \in Operations |-> IF \E i \in DOMAIN b : b[i] = o
                                     THEN Assembled(q, CHOOSE i \in DOMAIN b : b[i] = o)
                                     ELSE @[o]]]
        /\ pending' = [pending EXCEPT ![q] = @ \o b]
        /\ IF call[q].kind = "compress"
             THEN /\ call' = [call EXCEPT ![q].pc = "take", ![q].index = @ + U,
                                          ![q].batch = b]
                  /\ UNCHANGED operations
             ELSE /\ call' = [call EXCEPT ![q].index = @ + U]
                  /\ operations' = [operations EXCEPT ![q] = @ \o b]
  BY DEF Assemble
<1>4. UNCHANGED <<memoryVars, hwVars, numMaybeNotOk, buffers>>
  BY DEF Assemble
<1>5. b \in Seq(Operations) /\ DOMAIN b = 1..k /\ Distinct(b) /\ Elements(b) \subseteq freeOps[q]
  BY <1>1, <1>2, AllocationFacts
<1>6. PICK c \in Call, s \in Seq(Operations) :
        /\ call' = [call EXCEPT ![q] = c]
        /\ operations' = [operations EXCEPT ![q] = s]
        /\ c.kind = call[q].kind /\ c.burst = <<>>
        /\ c.index = call[q].index + U /\ c.segs = call[q].segs
        /\ c.pc \in {"loop", "take"}
        /\ c.pc = "loop" => c.batch = <<>>
        /\ c.pc = "take" => c.kind = "compress"
        /\ pend \o b = <<>> \o qu \o s \o c.batch
  <2> DEFINE index == call[q].index + U
  <2>1. index \in Nat
    BY <1>1, <1>2 DEF Call
  <2>2. CASE call[q].kind = "compress"
    <3> DEFINE c == [call[q] EXCEPT !.pc = "take", !.index = index, !.batch = b]
    <3>1. call' = [call EXCEPT ![q] = c]
      BY <1>3, <2>2 DEF IInv, TypeOK
    <3>2. operations' = [operations EXCEPT ![q] = ops]
      BY <1>3, <2>2 DEF IInv, TypeOK
    <3> HIDE DEF index
    <3>3. /\ c \in Call /\ c.pc = "take" /\ c.kind = call[q].kind
          /\ c.burst = <<>> /\ c.batch = b /\ c.index = index /\ c.segs = call[q].segs
      BY <1>1, <1>5, <2>1 DEF Call, PCs
    <3>4. pend \o b = <<>> \o qu \o ops \o b
      <4> HIDE DEF pend, qu, ops
      <4>1. qu \o ops \in Seq(Operations) /\ <<>> \o qu = qu
        BY <1>1, ConcatProperties, ConcatEmptySeq
      <4>2. qu \o ops \o <<>> = qu \o ops
        BY <4>1, ConcatEmptySeq
      <4> QED BY <1>1, <4>1, <4>2
    <3> HIDE DEF c
    <3> QED BY <1>1, <2>2, <3>1, <3>2, <3>3, <3>4 DEF index
  <2>3. CASE call[q].kind # "compress"
    <3> DEFINE c == [call[q] EXCEPT !.index = index]
    <3>1. call' = [call EXCEPT ![q] = c]
      BY <1>3, <2>3 DEF IInv, TypeOK
    <3>2. operations' = [operations EXCEPT ![q] = ops \o b]
      BY <1>3, <2>3
    <3> HIDE DEF index
    <3>3. /\ c \in Call /\ c.pc = "loop" /\ c.kind = call[q].kind
          /\ c.burst = <<>> /\ c.batch = <<>> /\ c.index = index /\ c.segs = call[q].segs
      BY <1>1, <2>1 DEF Call, PCs
    <3>4. ops \o b \in Seq(Operations) /\ pend \o b = <<>> \o qu \o (ops \o b) \o <<>>
      <4> HIDE DEF pend, qu, ops
      <4>1. /\ qu \o ops \in Seq(Operations) /\ <<>> \o qu = qu
            /\ ops \o b \in Seq(Operations) /\ qu \o (ops \o b) \in Seq(Operations)
        BY <1>1, <1>5, ConcatProperties, ConcatEmptySeq
      <4>2. qu \o ops \o <<>> = qu \o ops /\ qu \o (ops \o b) \o <<>> = qu \o (ops \o b)
        BY <4>1, ConcatEmptySeq
      <4>3. qu \o ops \o b = qu \o (ops \o b)
        BY <1>1, <1>5, ConcatAssociative
      <4> QED BY <1>1, <4>1, <4>2, <4>3
    <3> HIDE DEF c
    <3> QED BY <1>1, <2>3, <3>1, <3>2, <3>3, <3>4 DEF index
  <2> QED BY <2>2, <2>3
<1>7. /\ call'[q] = c /\ operations'[q] = s
      /\ pending'[q] = pend \o b /\ freeOps'[q] = freeOps[q] \ Elements(b)
      /\ freeMbufs'[q] = freeMbufs[q] - U * 2
  BY <1>3, <1>6 DEF IInv, TypeOK

<1>8. op'[q] = [o \in Operations |-> IF \E i \in DOMAIN b : b[i] = o
                                       THEN Assembled(q, CHOOSE i \in DOMAIN b : b[i] = o)
                                       ELSE op[q][o]]
  BY <1>3 DEF IInv, TypeOK
<1>9. ASSUME NEW o \in Operations
      PROVE  /\ op'[q][o] \in Operation
             /\ o \in Elements(b) => InRange(o, op'[q], call[q].index + U)
             /\ o \notin Elements(b) => op'[q][o] = op[q][o]
  <2>1. CASE o \in Elements(b)
    <3>1. PICK i \in DOMAIN b : b[i] = o /\ op'[q][o] = Assembled(q, i)
      BY <1>8, <2>1 DEF Elements
    <3>2. i \in 1..k
      BY <1>5, <3>1
    <3> QED BY <1>2, <2>1, <3>1, <3>2 DEF InRange
  <2>2. CASE o \notin Elements(b)
    <3>1. op'[q][o] = op[q][o]
      BY <1>8, <2>2 DEF Elements
    <3> QED BY <1>1, <2>2, <3>1
  <2> QED BY <2>1, <2>2
<1>10. op'[q] \in [Operations -> Operation] /\ op' = [op EXCEPT ![q] = op'[q]]
  BY <1>3, <1>8, <1>9 DEF IInv, TypeOK
<1>11. /\ pend \o b \in Seq(Operations)
       /\ Elements(pend \o b) = Elements(pend) \cup Elements(b)
       /\ QExclusive(pend \o b, freeOps[q] \ Elements(b))
  <2> HIDE DEF pend
  <2>1. pend \o b \in Seq(Operations)
    BY <1>1, <1>5, ConcatProperties
  <2>2. Elements(pend \o b) = Elements(pend) \cup Elements(b)
    BY <1>1, <1>5, ElementsOfConcat, ZenonT(60)
  <2>3. Elements(pend) \cap Elements(b) = {} /\ Distinct(pend)
    BY <1>1, <1>5 DEF QExclusive
  <2>4. Distinct(pend \o b)
    BY <1>1, <1>5, <2>3, DistinctConcat
  <2> QED BY <1>1, <2>1, <2>2, <2>4 DEF QExclusive
<1>12. GlobalType'
  BY <1>4, Localize DEF GlobalType, memoryVars, hwVars
<1>13. OnlyAt(q)
  BY <1>3, <1>4, <1>6, <1>7, <1>10 DEF OnlyAt, IInv, TypeOK, hwVars
<1>14. QType(call[q], completed[q], queue[q], stalled[q], pending[q], operations[q],
             freeOps[q], freeMbufs[q], op[q], buffers[q])'
  <2>1. freeMbufs'[q] \in Nat
    BY <1>1, <1>2, <1>7
  <2>2. freeOps'[q] \subseteq Operations
    BY <1>1, <1>7
  <2> QED BY <1>4, <1>6, <1>7, <1>10, <1>11, <2>1, <2>2, Localize DEF QType, hwVars
<1>15. QLocals(call[q], completed[q], queue[q])'
  BY <1>4, <1>6, <1>7, Localize DEF QInv, QLocals, hwVars
<1>16. QMatches(call[q], pending[q], queue[q], operations[q])'
  BY <1>4, <1>6, <1>7 DEF QMatches, hwVars
<1>17. QSources(call[q], pending[q], op[q], buffers[q])'
  <2> SUFFICES ASSUME c.kind = "decompress"
               PROVE  /\ c.index <= c.segs
                      /\ c.segs = Len(buffers[q])
                      /\ \A o \in Elements(pend \o b) : InRange(o, op'[q], c.index)
    BY <1>4, <1>7 DEF QSources
  <2>1. /\ c.segs = Len(buffers[q]) /\ call[q].index \in Nat
        /\ \A o \in Elements(pend) : InRange(o, op[q], call[q].index)
    BY <1>1, <1>6, Localize DEF QInv, QSources, ActivePCs, Call
  <2>2. ASSUME NEW o \in Elements(pend)
        PROVE  InRange(o, op'[q], c.index)
    <3>1. o \in Operations
      BY <1>1, ElementsType
    <3>2. o \notin Elements(b)
      BY <1>1, <1>5 DEF QExclusive
    <3>3. op[q][o].first \in Nat /\ op[q][o].len \in Nat
      BY <1>1, <3>1 DEF Operation
    <3>4. op'[q][o] = op[q][o]
      BY <1>9, <3>1, <3>2
    <3>5. InRange(o, op[q], call[q].index) /\ c.index = call[q].index + U
      BY <1>6, <2>1
    <3>6. op[q][o].first + op[q][o].len - 1 <= c.index
      <4> DEFINE f == op[q][o].first
                 l == op[q][o].len
                 i == call[q].index
      <4>1. f \in Nat /\ l \in Nat /\ i \in Nat /\ U \in Nat /\ f + l - 1 <= i
        BY <1>2, <2>1, <3>3, <3>5 DEF InRange
      <4>2. c.index = i + U
        BY <3>5
      <4> HIDE DEF f, l, i, U
      <4>3. f + l - 1 <= i + U
        BY <4>1
      <4> QED BY <4>2, <4>3 DEF f, l, i
    <3> QED BY <3>4, <3>5, <3>6 DEF InRange
  <2>3. ASSUME NEW o \in Elements(b)
        PROVE  InRange(o, op'[q], c.index)
    <3>1. o \in Operations
      BY <1>5, ElementsType
    <3> QED BY <1>6, <1>9, <3>1
  <2> QED BY <1>2, <1>6, <1>11, <2>1, <2>2, <2>3
<1>18. QInv(call[q], completed[q], queue[q], pending[q], operations[q], freeOps[q],
            op[q], buffers[q])'
  <2>1. QExclusive(pending[q], freeOps[q])'
    BY <1>7, <1>11
  <2> QED BY <1>15, <1>16, <1>17, <2>1 DEF QInv
<1> QED BY <1>12, <1>13, <1>14, <1>18, Frame

-----------------------------------------------------------------------------
(* The theorems *)

\* Every step of the lcores and of the hardware keeps the invariant.
LEMMA StepInv == IInv /\ [Next]_vars => IInv'
<1> SUFFICES ASSUME IInv, [Next]_vars PROVE IInv'
  OBVIOUS
<1>1. CASE UNCHANGED vars
  BY <1>1 DEF vars, memoryVars, poolVars, hwVars, IInv, TypeOK, LocalsOK,
              PendingMatches, OpsExclusive, SourcesInRange, Active
<1>2. ASSUME NEW q \in QueuePairs, Work(q)
      PROVE  IInv'
  <2>1. CASE Assemble(q)      BY <2>1, AssembleStep
  <2>2. CASE AssembleFails(q) BY <2>2, AssembleFailsStep
  <2>3. CASE TakeDst(q)       BY <2>3, TakeDstStep
  <2>4. CASE Enqueue(q)       BY <2>4, EnqueueStep
  <2>5. CASE Dequeue(q)       BY <2>5, DequeueStep
  <2>6. CASE RecycleOp(q)     BY <2>6, RecycleOpStep
  <2>7. CASE TakeFails(q) \/ EnqueueFails(q) \/ DequeueFails(q) \/ OpFails(q)
    BY <2>7, FailSteps
  <2>8. CASE Return(q) \/ ReleaseEnds(q)
    BY <2>8, ReturnSteps
  <2>9. CASE PutBack(q)       BY <2>9, PutBackStep
  <2>10. CASE ReleaseDst(q)   BY <2>10, ReleaseDstStep
  <2>11. CASE ReleaseOp(q)    BY <2>11, ReleaseOpStep
  <2> QED BY <1>2, <2>1, <2>2, <2>3, <2>4, <2>5, <2>6, <2>7, <2>8, <2>9,
             <2>10, <2>11 DEF Work
<1>3. ASSUME NEW q \in QueuePairs, Invoke(q) \/ Complete(q) \/ Stall(q)
      PROVE  IInv'
  BY <1>3, InvokeStep, CompleteStep, StallStep
<1> QED BY <1>1, <1>2, <1>3 DEF Next

\* In every execution of any number of lcores, with any faults, the inductive
\* invariant holds: types, locals, what is pending, what is free, and where the
\* operations of Decompress find their sources.
THEOREM Invariance == Spec => []IInv
<1>1. Init => IInv
  BY InitInv
<1>2. IInv /\ [Next]_vars => IInv'
  BY StepInv
<1> QED BY <1>1, <1>2, PTL DEF Spec

\* Every variable always has its type; in particular the mbuf counter never
\* goes below zero and every memzone comes from the device's own memory.
THEOREM TypeCorrect == Spec => []TypeOK
<1>1. IInv => TypeOK
  BY DEF IInv
<1> QED BY <1>1, Invariance, PTL

\* pending_operations_ agrees with everything in flight, in order, through
\* every partial enqueue, partial dequeue and failure of Compress and Decompress.
THEOREM PendingAlwaysMatches == Spec => []PendingMatches
<1>1. IInv => PendingMatches
  BY DEF IInv
<1> QED BY <1>1, Invariance, PTL

\* The check of RecycleResources that only a debug build makes never fires: the
\* operation it recycles is the one at the front of pending_operations_.
THEOREM RecyclesFrontAlways == Spec => []RecyclesFront
<1>1. IInv => RecyclesFront
  BY FrontOfBurst DEF RecyclesFront, At
<1> QED BY <1>1, Invariance, PTL

\* No operation is ever pending twice, or pending and free: no double free and
\* no allocation of an operation in use, even after failed calls.
THEOREM OpsExclusiveAlways == Spec => []OpsExclusive
<1>1. IInv => OpsExclusive
  BY DEF IInv
<1> QED BY <1>1, Invariance, PTL

=============================================================================
