----------------------- MODULE DeviceLifecycleProofs -----------------------
(***************************************************************************)
(* Proofs about DeviceLifecycle: the pools of a queue pair are large       *)
(* enough for every burst size and every operation of up to eight          *)
(* segments, memzones for every segment, state_ tells the destructor the truth about the hardware, and *)
(* a started device has its memory from one attempt only.                  *)
(***************************************************************************)
EXTENDS DeviceLifecycle, TLAPS

\* A product with a positive factor is not less than the other factor.
LEMMA TimesPositive ==
  ASSUME NEW a \in Nat, NEW b \in Nat \ {0}
  PROVE  a * b \in Nat /\ a * b >= a
<1>1. PICK k \in Nat : b = k + 1
  BY SMT
<1>2. a * b = a * k + a
  BY <1>1, SMT
<1>3. a * k \in Nat
  BY <1>1, SMT
<1> QED
  BY <1>2, <1>3, SMT

\* Preallocate rounds the division by max_sgl_segs up.
LEMMA RoundedUp ==
  ASSUME NEW n \in Nat, NEW s \in 1..8, NEW k \in Nat, n >= s * k
  PROVE  (n + s - 1) \div s >= k
<1>1. CASE s = 1  BY <1>1, SMT
<1>2. CASE s = 2  BY <1>2, SMT
<1>3. CASE s = 3  BY <1>3, SMT
<1>4. CASE s = 4  BY <1>4, SMT
<1>5. CASE s = 5  BY <1>5, SMT
<1>6. CASE s = 6  BY <1>6, SMT
<1>7. CASE s = 7  BY <1>7, SMT
<1>8. CASE s = 8  BY <1>8, SMT
<1> QED
  BY <1>1, <1>2, <1>3, <1>4, <1>5, <1>6, <1>7, <1>8, SMT

\* RTE_MIN
LEMMA LeastOf ==
  ASSUME NEW a \in Nat, NEW b \in Nat
  PROVE  Least(a, b) \in {a, b} /\ Least(a, b) \in Nat
  BY DEF Least

\* The pools sized for burst and sgl cover a full hardware queue and a burst:
\* NumMbufsInPool is 2 * sgl * burst on top of the smaller of the inflight mbufs
\* of a full queue and kMaxInflightMbufs, and up to eight segments the latter is
\* enough for kMaxInflightOps operations.
LEMMA PoolsCover ==
  ASSUME NEW m, m.burst \in Nat \ {0}, m.sgl \in 1..8
  PROVE  CoversQueue(m)
<1> DEFINE b == m.burst
           s == m.sgl
           O == MaxInflightOps
           B == NumMbufsInBurst(m)
           M == NumMbufsInPool(m)
<1>1. /\ O \in Nat \ {0}
      /\ MaxInflightMbufs \in Nat /\ MaxInflightMbufs >= 16 * O
      /\ MaxCache \in Nat
  BY LifecycleAssumption DEF LifecycleAssumption
<1>2. b * s \in Nat /\ s * O \in Nat /\ B = 2 * (b * s)
  <2>1. b \in Nat /\ s \in Nat /\ O \in Nat
    BY <1>1, SMT
  <2>2. b * s \in Nat /\ s * O \in Nat
    BY <2>1, TimesPositive, <1>1, SMT
  <2> QED
    BY <2>1, <2>2, SMT DEF NumMbufsInBurst
<1>3. B * O \in Nat /\ B * O >= 2 * (s * O)
  <2>1. B * O = 2 * ((s * O) * b)
    BY <1>1, <1>2, SMT
  <2>2. (s * O) * b \in Nat /\ (s * O) * b >= s * O
    BY <1>2, TimesPositive
  <2> QED
    BY <1>2, <2>1, <2>2, SMT
<1>4. 16 * O >= 2 * (s * O)
  <2>1. s = 1 \/ s = 2 \/ s = 3 \/ s = 4 \/ s = 5 \/ s = 6 \/ s = 7 \/ s = 8
    BY SMT
  <2> QED
    BY <1>1, <2>1, SMT
<1>5. /\ Least(B * O, MaxInflightMbufs) \in Nat
      /\ Least(B * O, MaxInflightMbufs) >= 2 * (s * O)
  <2>1. /\ Least(B * O, MaxInflightMbufs) \in {B * O, MaxInflightMbufs}
        /\ Least(B * O, MaxInflightMbufs) \in Nat
    BY <1>1, <1>3, LeastOf
  <2>2. MaxInflightMbufs >= 2 * (s * O)
    BY <1>1, <1>2, <1>4, SMT
  <2> QED
    BY <1>3, <2>1, <2>2
<1>6. Least(B * 2, MaxCache) \in Nat
  <2>1. B * 2 \in Nat
    BY <1>2, SMT
  <2> QED
    BY <1>1, <2>1, LeastOf
<1>7. M \in Nat /\ M >= 2 * (s * O) + 2 * (b * s)
  <2>1. M = Least(B * O, MaxInflightMbufs) + Least(B * 2, MaxCache) + B
    BY DEF NumMbufsInPool
  <2> HIDE DEF B, M
  <2> QED
    BY <2>1, <1>2, <1>5, <1>6, SMT
<1>8. s * (O + b) = s * O + b * s
  BY <1>1, SMT
<1>9. 2 * s * (O + b) = 2 * (s * O) + 2 * (b * s)
  BY <1>1, SMT
<1>10. M \div 2 \in Nat /\ M \div 2 >= s * (O + b)
  <2> HIDE DEF M
  <2> QED
    BY <1>2, <1>7, <1>8, SMT
<1>11. NumOpsInPool(m) >= O + b
  <2>1. O + b \in Nat
    BY <1>1, SMT
  <2>2. NumOpsInPool(m) = (M \div 2 + s - 1) \div s
    BY DEF NumOpsInPool
  <2> HIDE DEF M, s, O, b
  <2>3. (M \div 2 + s - 1) \div s >= O + b
    BY <1>10, <2>1, RoundedUp DEF s
  <2> QED
    BY <2>2, <2>3
<1> QED
  BY <1>2, <1>7, <1>9, <1>11 DEF CoversQueue

-----------------------------------------------------------------------------
(* Memory *)

\* There is a queue pair 0.
LEMMA QpsAreNat == NumQps \in Nat \ {0} /\ Qps \subseteq Nat /\ 0 \in Qps
  BY LifecycleAssumption, SMT DEF LifecycleAssumption, Qps

\* ValidateConfiguration corrects max_sgl_segs to at least 1 and leaves burst_size.
LEMMA CorrectedTyped ==
  ASSUME NEW c \in Configuration
  PROVE  /\ Corrected(c).burst = c.burst
         /\ Corrected(c).sgl \in (SglSegs \ {0}) \cup {1}
         /\ c.burst \in BurstSizes
         /\ Corrected(c).seg = c.seg /\ c.seg \in SegSizes
  BY LifecycleAssumption, SMT DEF LifecycleAssumption, Configuration, Corrected

\* The memory of a queue pair sized for a valid configuration has its type.
LEMMA MemoryTyped ==
  ASSUME NEW c \in Configuration, Valid(c), NEW qp \in Qps,
         NEW has \in {"none", "some", "all"}
  PROVE  /\ Memory(qp, has, Corrected(c)) \in Memories
         /\ Memory(qp, has, Corrected(c)).qp = qp
         /\ Memory(qp, has, Corrected(c)).has = has
<1>1. c.burst \in BurstSizes \ {0}
  BY CorrectedTyped, LifecycleAssumption, SMT DEF Valid, LifecycleAssumption
<1>2. Corrected(c).seg \in SegSizes \cap MinSegSize..MaxSegSize
  BY CorrectedTyped DEF Valid
<1> QED
  BY <1>1, <1>2, CorrectedTyped DEF Memory, Memories

\* The memory an attempt has completed.
LEMMA CompleteTyped ==
  ASSUME NEW c \in Configuration, Valid(c), NEW n \in 0..NumQps
  PROVE  /\ Complete(n, c) \in Seq(Memories)
         /\ Len(Complete(n, c)) = n
         /\ \A i \in 1..n : /\ Complete(n, c)[i].qp = i - 1
                            /\ Complete(n, c)[i].has = "all"
<1>1. \A i \in 1..n : i - 1 \in Qps
  BY QpsAreNat, SMT DEF Qps
<1>2. \A i \in 1..n : /\ Memory(i - 1, "all", Corrected(c)) \in Memories
                      /\ Memory(i - 1, "all", Corrected(c)).qp = i - 1
                      /\ Memory(i - 1, "all", Corrected(c)).has = "all"
  BY <1>1, MemoryTyped
<1>3. n \in Nat
  BY QpsAreNat, SMT
<1> HIDE DEF Memory
<1>4. Complete(n, c) \in [1..n -> Memories]
  BY <1>2 DEF Complete
<1>5. /\ Complete(n, c) \in Seq(Memories)
      /\ Len(Complete(n, c)) = n
  BY <1>3, <1>4, SMT
<1> QED
  BY <1>2, <1>5 DEF Complete

-----------------------------------------------------------------------------
(* The inductive invariant *)

IInv == TypeOK /\ HardwareFollowsState /\ OneAttemptAllocated

\* A device that has just been constructed satisfies the invariant.
THEOREM InitHolds == Init => IInv
<1> SUFFICES ASSUME Init PROVE IInv
  OBVIOUS
<1>1. TypeOK
  BY LifecycleAssumption, SMT DEF Init, TypeOK, LifecycleAssumption
<1>2. HardwareFollowsState
  BY DEF Init, HardwareFollowsState
<1>3. OneAttemptAllocated
  BY DEF Init, OneAttemptAllocated
<1> QED
  BY <1>1, <1>2, <1>3 DEF IInv

\* What every accepted configuration leaves behind.
LEMMA AcceptedTyped ==
  ASSUME TypeOK, NEW c \in Configuration, Accepted(c)
  PROVE  /\ Valid(c)
         /\ configuration' \in {Corrected(d) : d \in Configuration}
         /\ attempts' \in 0..MaxAttempts
  BY LifecycleAssumption, SMT DEF TypeOK, Accepted, Attempt, LifecycleAssumption

\* qp_memory_ after push_back: where the old and the new entries are.
LEMMA PartsOfConcat ==
  ASSUME NEW S, NEW s \in Seq(S), NEW t \in Seq(S)
  PROVE  /\ s \o t \in Seq(S)
         /\ Len(s) \in Nat /\ DOMAIN s = 1..Len(s)
         /\ Len(s \o t) = Len(s) + Len(t)
         /\ DOMAIN (s \o t) = 1..(Len(s) + Len(t))
         /\ \A i \in 1..Len(s) : (s \o t)[i] = s[i]
         /\ \A i \in 1..Len(t) : (s \o t)[Len(s) + i] = t[i]
<1>1. /\ s \o t \in Seq(S)
      /\ DOMAIN s = 1..Len(s) /\ DOMAIN t = 1..Len(t)
      /\ Len(s \o t) = Len(s) + Len(t)
      /\ DOMAIN (s \o t) = 1..(Len(s) + Len(t))
      /\ Len(s) \in Nat /\ Len(t) \in Nat
      /\ \A i \in 1..(Len(s) + Len(t)) :
           (s \o t)[i] = IF i <= Len(s) THEN s[i] ELSE t[i - Len(s)]
  OBVIOUS
<1> QED
  BY <1>1

\* Everything was allocated: nothing had a pool before.
LEMMA AllocatedOnce ==
  ASSUME TypeOK, NEW c \in Configuration, Allocated(c)
  PROVE  /\ qpMemory' \in Seq(Memories)
         /\ deviceMemory' = "complete"
         /\ Len(qpMemory') = Len(qpMemory) + NumQps
         /\ \A qp \in Qps : LET m == qpMemory'[Len(qpMemory) + qp + 1]
                           IN  m.qp = qp /\ m.has = "all"
         /\ \A i \in DOMAIN qpMemory' :
              i \notin (Len(qpMemory) + 1)..(Len(qpMemory) + NumQps)
                => qpMemory'[i].has = "none"
<1> DEFINE new == Complete(NumQps, c)
           old == qpMemory
<1>1. Accepted(c) /\ qpMemory' = old \o new /\ deviceMemory' = "complete"
  BY DEF Allocated
<1>2. /\ new \in Seq(Memories) /\ Len(new) = NumQps
      /\ \A i \in 1..NumQps : new[i].qp = i - 1 /\ new[i].has = "all"
  <2>1. Valid(c)
    BY <1>1, AcceptedTyped
  <2>2. NumQps \in 0..NumQps
    BY QpsAreNat, SMT
  <2> QED
    BY <2>1, <2>2, CompleteTyped
<1>3. old \in Seq(Memories) /\ Len(old) \in Nat /\ DOMAIN old = 1..Len(old)
  BY DEF TypeOK
<1> HIDE DEF new, old
<1>4. /\ old \o new \in Seq(Memories)
      /\ Len(old \o new) = Len(old) + NumQps
      /\ \A i \in 1..Len(old) : (old \o new)[i] = old[i]
      /\ \A i \in 1..NumQps : (old \o new)[Len(old) + i] = new[i]
  <2>1. old \in Seq(Memories) /\ new \in Seq(Memories)
    BY <1>2, <1>3
  <2>2. /\ old \o new \in Seq(Memories)
        /\ Len(old \o new) = Len(old) + Len(new)
        /\ \A i \in 1..Len(old) : (old \o new)[i] = old[i]
        /\ \A i \in 1..Len(new) : (old \o new)[Len(old) + i] = new[i]
    BY <2>1, PartsOfConcat
  <2> QED
    BY <1>2, <2>2
<1>5. ASSUME NEW qp \in Qps
      PROVE  LET m == (old \o new)[Len(old) + qp + 1]
             IN  m.qp = qp /\ m.has = "all"
  <2>1. qp + 1 \in 1..NumQps /\ qp \in Nat
    BY QpsAreNat, SMT DEF Qps
  <2>2. (old \o new)[Len(old) + (qp + 1)] = new[qp + 1]
    BY <1>4, <2>1
  <2>3. Len(old) + (qp + 1) = Len(old) + qp + 1 /\ (qp + 1) - 1 = qp
    BY <1>3, <2>1, SMT
  <2>4. new[qp + 1].qp = (qp + 1) - 1 /\ new[qp + 1].has = "all"
    BY <1>2, <2>1
  <2> QED
    BY <2>2, <2>3, <2>4
<1>6. ASSUME NEW i \in DOMAIN (old \o new),
             i \notin (Len(old) + 1)..(Len(old) + NumQps)
      PROVE  (old \o new)[i].has = "none"
  <2>1. i \in 1..Len(old)
    <3>1. DOMAIN (old \o new) = 1..(Len(old) + NumQps)
      BY <1>2, <1>3, PartsOfConcat
    <3> QED
      BY <1>3, <1>6, <3>1, QpsAreNat, SMT
  <2>2. old[i] \in Memories
    BY <1>3, <2>1
  <2>3. old[i].qp \in Qps
    BY <2>2 DEF Memories
  <2>4. ~NameTaken(old, old[i].qp)
    BY <2>3 DEF Allocated, old
  <2> QED
    BY <1>3, <1>4, <2>1, <2>4 DEF NameTaken
<1> QED
  BY <1>1, <1>3, <1>4, <1>5, <1>6 DEF old

\* An attempt that fails while it allocates only adds to qp_memory_; once some
\* queue pair 0 has a pool, it adds one entry without a pool.
LEMMA FailedAllocation ==
  ASSUME TypeOK, NEW c \in Configuration, NEW qp \in Qps,
         InitializeWithoutPools(c, qp)
  PROVE  /\ qpMemory' \in Seq(Memories)
         /\ NameTaken(qpMemory, 0) =>
              /\ Len(qpMemory') = Len(qpMemory) + 1
              /\ \A i \in DOMAIN qpMemory : qpMemory'[i] = qpMemory[i]
              /\ qpMemory'[Len(qpMemory) + 1].has = "none"
<1>1. Accepted(c) /\ Valid(c)
  BY AcceptedTyped DEF InitializeWithoutPools
<1>2. PICK has \in {"none", "some"} :
        /\ NameTaken(qpMemory, qp) => has = "none"
        /\ qpMemory' = qpMemory \o Complete(qp, c)
                             \o <<Memory(qp, has, Corrected(c))>>
  BY DEF InitializeWithoutPools
<1> DEFINE new == Complete(qp, c)
           last == <<Memory(qp, has, Corrected(c))>>
<1>3. qp \in 0..NumQps /\ qp \in Nat
  BY QpsAreNat, SMT DEF Qps
<1>4. new \in Seq(Memories) /\ Len(new) = qp
  BY <1>1, <1>3, CompleteTyped
<1>5. /\ last \in Seq(Memories) /\ Len(last) = 1
      /\ last[1].has = has
  <2>1. /\ Memory(qp, has, Corrected(c)) \in Memories
        /\ Memory(qp, has, Corrected(c)).has = has
    BY <1>1, MemoryTyped
  <2> HIDE DEF Memory
  <2> QED
    BY <2>1
<1>6. qpMemory \in Seq(Memories)
  BY DEF TypeOK
<1>7. qpMemory' = (qpMemory \o new) \o last
  BY <1>2
<1> HIDE DEF new, last
<1>8. /\ qpMemory \o new \in Seq(Memories)
      /\ Len(qpMemory \o new) = Len(qpMemory) + qp
      /\ \A i \in 1..Len(qpMemory) : (qpMemory \o new)[i] = qpMemory[i]
      /\ Len(qpMemory) \in Nat /\ DOMAIN qpMemory = 1..Len(qpMemory)
  BY <1>4, <1>6, PartsOfConcat
<1>9. /\ qpMemory' \in Seq(Memories)
      /\ Len(qpMemory') = Len(qpMemory) + qp + 1
      /\ \A i \in 1..(Len(qpMemory) + qp) : qpMemory'[i] = (qpMemory \o new)[i]
      /\ qpMemory'[Len(qpMemory) + qp + 1] = last[1]
  <2>1. qpMemory \o new \in Seq(Memories) /\ last \in Seq(Memories)
    BY <1>5, <1>8
  <2>2. /\ (qpMemory \o new) \o last \in Seq(Memories)
        /\ Len((qpMemory \o new) \o last) = Len(qpMemory \o new) + Len(last)
        /\ \A i \in 1..Len(qpMemory \o new) :
             ((qpMemory \o new) \o last)[i] = (qpMemory \o new)[i]
        /\ \A i \in 1..Len(last) :
             ((qpMemory \o new) \o last)[Len(qpMemory \o new) + i] = last[i]
    BY <2>1, PartsOfConcat
  <2>3. 1 \in 1..Len(last)
    BY <1>5, SMT
  <2> QED
    BY <1>5, <1>7, <1>8, <2>2, <2>3
<1>10. ASSUME NameTaken(qpMemory, 0)
       PROVE  qp = 0 /\ has = "none"
  <2>1. qp = 0
    <3>1. \A p \in 0..(qp - 1) : ~NameTaken(qpMemory, p)
      BY DEF InitializeWithoutPools
    <3>2. qp # 0 => 0 \in 0..(qp - 1)
      BY <1>3, SMT
    <3> QED
      BY <1>10, <3>1, <3>2
  <2> QED
    BY <1>2, <1>10, <2>1
<1>11. ASSUME NameTaken(qpMemory, 0)
       PROVE  /\ Len(qpMemory') = Len(qpMemory) + 1
              /\ \A i \in DOMAIN qpMemory : qpMemory'[i] = qpMemory[i]
              /\ qpMemory'[Len(qpMemory) + 1].has = "none"
  <2>1. qp = 0 /\ has = "none"
    BY <1>10, <1>11
  <2>2. Len(qpMemory) + qp = Len(qpMemory) /\ Len(qpMemory) + qp + 1 = Len(qpMemory) + 1
    BY <1>8, <2>1, SMT
  <2> QED
    BY <1>5, <1>8, <1>9, <2>1, <2>2
<1> QED
  BY <1>9, <1>11

-----------------------------------------------------------------------------
(* The steps *)

\* Initialize, wherever it fails, and the destructor keep the types.
LEMMA TypeStep ==
  ASSUME TypeOK, [Next]_vars
  PROVE  TypeOK'
<1> USE DEF TypeOK
<1>1. ASSUME NEW c \in Configuration, InitializeRejected(c)
      PROVE  TypeOK'
  <2>1. configuration' \in {configuration, c, Corrected(c)}
    BY <1>1 DEF InitializeRejected
  <2>2. attempts' \in 0..MaxAttempts
    BY <1>1, LifecycleAssumption, SMT
       DEF InitializeRejected, Attempt, LifecycleAssumption
  <2> QED
    BY <1>1, <2>1, <2>2 DEF InitializeRejected
<1>2. ASSUME NEW c \in Configuration, InitializeWithoutMemzones(c)
      PROVE  TypeOK'
  BY <1>2, AcceptedTyped DEF InitializeWithoutMemzones
<1>3. ASSUME NEW c \in Configuration, NEW qp \in Qps, InitializeWithoutPools(c, qp)
      PROVE  TypeOK'
  <2>1. Accepted(c) /\ deviceMemory' = "complete"
        /\ UNCHANGED <<state, hardware, setUp>>
    BY <1>3 DEF InitializeWithoutPools
  <2>2. qpMemory' \in Seq(Memories)
    BY <1>3, FailedAllocation
  <2> QED
    BY <2>1, <2>2, AcceptedTyped
<1>4. ASSUME NEW c \in Configuration, Allocated(c),
             state' \in {"undefined", "configured", "started"},
             hardware' \in {"closed", "configured", "running"},
             setUp' \in SUBSET Qps
      PROVE  TypeOK'
  <2>1. Accepted(c)
    BY <1>4 DEF Allocated
  <2>2. qpMemory' \in Seq(Memories) /\ deviceMemory' = "complete"
    BY <1>4, AllocatedOnce
  <2> QED
    BY <1>4, <2>1, <2>2, AcceptedTyped
<1>5. ASSUME NEW c \in Configuration, InitializeNotConfigured(c)
      PROVE  TypeOK'
  BY <1>4, <1>5 DEF InitializeNotConfigured, Allocated, Accepted, Attempt
<1>6. ASSUME NEW c \in Configuration, NEW qp \in Qps, InitializeNotSetUp(c, qp)
      PROVE  TypeOK'
  <2>1. 0..(qp - 1) \in SUBSET Qps
    BY QpsAreNat, SMT DEF Qps
  <2> QED
    BY <1>4, <1>6, <2>1 DEF InitializeNotSetUp, Configured
<1>7. ASSUME NEW c \in Configuration, InitializeNotStarted(c)
      PROVE  TypeOK'
  BY <1>4, <1>7 DEF InitializeNotStarted, Configured
<1>8. ASSUME NEW c \in Configuration, Initialize(c)
      PROVE  TypeOK'
  BY <1>4, <1>8 DEF Initialize, Configured
<1>9. CASE Destroy
  BY <1>9 DEF Destroy
<1>10. CASE UNCHANGED vars
  BY <1>10 DEF vars
<1> QED
  BY <1>1, <1>2, <1>3, <1>5, <1>6, <1>7, <1>8, <1>9, <1>10 DEF Next

\* Initialize, wherever it fails, and the destructor keep state_ and the hardware in
\* agreement.
LEMMA HardwareStep ==
  ASSUME TypeOK, HardwareFollowsState, [Next]_vars
  PROVE  HardwareFollowsState'
<1> USE DEF HardwareFollowsState
<1>1. CASE UNCHANGED <<state, hardware, setUp>>
  BY <1>1
<1>2. ASSUME NEW c \in Configuration, NEW qp \in Qps, InitializeNotSetUp(c, qp)
      PROVE  HardwareFollowsState'
  BY <1>2 DEF InitializeNotSetUp
<1>3. ASSUME NEW c \in Configuration, InitializeNotStarted(c)
      PROVE  HardwareFollowsState'
  BY <1>3 DEF InitializeNotStarted
<1>4. ASSUME NEW c \in Configuration, Initialize(c)
      PROVE  HardwareFollowsState'
  BY <1>4 DEF Initialize
<1>5. CASE Destroy
  BY <1>5 DEF Destroy, TypeOK
<1> QED
  BY <1>1, <1>2, <1>3, <1>4, <1>5
     DEF Next, vars, InitializeRejected, InitializeWithoutMemzones,
         InitializeWithoutPools, InitializeNotConfigured

\* Once started, queue pair 0 has a pool, and every later attempt fails on it.
LEMMA StartedIsTaken ==
  ASSUME TypeOK, OneAttemptAllocated, state = "started"
  PROVE  NameTaken(qpMemory, 0)
<1>1. PICK first \in 0..(Len(qpMemory) - NumQps) :
        \A qp \in Qps : LET m == qpMemory[first + qp + 1]
                        IN  m.qp = qp /\ m.has = "all"
  BY DEF OneAttemptAllocated
<1>2. qpMemory[first + 0 + 1].qp = 0 /\ qpMemory[first + 0 + 1].has = "all"
  BY <1>1, QpsAreNat
<1>3. Len(qpMemory) \in Nat /\ DOMAIN qpMemory = 1..Len(qpMemory)
  BY DEF TypeOK
<1>4. first + 0 + 1 \in DOMAIN qpMemory
  BY <1>3, QpsAreNat, SMT
<1> QED
  BY <1>2, <1>4 DEF NameTaken

\* Initialize keeps the memory of a started device from one attempt: on a started
\* device no attempt gets past the mbuf pool of queue pair 0.
LEMMA AllocatedStep ==
  ASSUME TypeOK, OneAttemptAllocated, [Next]_vars
  PROVE  OneAttemptAllocated'
<1>1. Len(qpMemory) \in Nat /\ DOMAIN qpMemory = 1..Len(qpMemory)
  BY DEF TypeOK
<1>2. ASSUME UNCHANGED <<state, qpMemory>>
      PROVE  OneAttemptAllocated'
  BY <1>2 DEF OneAttemptAllocated
<1>3. CASE state' # "started"
  BY <1>3 DEF OneAttemptAllocated
<1>4. ASSUME NEW c \in Configuration, NEW qp \in Qps, InitializeWithoutPools(c, qp)
      PROVE  OneAttemptAllocated'
  <2> SUFFICES ASSUME state' = "started"
               PROVE  OneAttemptAllocated'
    BY <1>3
  <2>1. state = "started"
    BY <1>4 DEF InitializeWithoutPools
  <2>2. PICK first \in 0..(Len(qpMemory) - NumQps) :
          /\ \A p \in Qps : LET m == qpMemory[first + p + 1]
                           IN  m.qp = p /\ m.has = "all"
          /\ \A i \in DOMAIN qpMemory :
               i \notin (first + 1)..(first + NumQps) => qpMemory[i].has = "none"
    BY <2>1 DEF OneAttemptAllocated
  <2>3. /\ qpMemory' \in Seq(Memories)
        /\ Len(qpMemory') = Len(qpMemory) + 1
        /\ \A i \in DOMAIN qpMemory : qpMemory'[i] = qpMemory[i]
        /\ qpMemory'[Len(qpMemory) + 1].has = "none"
    BY <1>4, <2>1, StartedIsTaken, FailedAllocation
  <2>4. first \in 0..(Len(qpMemory') - NumQps)
    BY <1>1, <2>3, QpsAreNat, SMT
  <2>5. ASSUME NEW p \in Qps
        PROVE  LET m == qpMemory'[first + p + 1]
               IN  m.qp = p /\ m.has = "all"
    <3>1. first + p + 1 \in DOMAIN qpMemory
      BY <1>1, QpsAreNat, SMT DEF Qps
    <3> QED
      BY <2>2, <2>3, <3>1
  <2>6. ASSUME NEW i \in DOMAIN qpMemory', i \notin (first + 1)..(first + NumQps)
        PROVE  qpMemory'[i].has = "none"
    <3>1. i \in DOMAIN qpMemory \/ i = Len(qpMemory) + 1
      <4>1. DOMAIN qpMemory' = 1..Len(qpMemory')
        BY <2>3
      <4> QED
        BY <1>1, <2>3, <4>1, SMT
    <3> QED
      BY <2>2, <2>3, <2>6, <3>1
  <2> QED
    BY <2>4, <2>5, <2>6 DEF OneAttemptAllocated
<1>5. ASSUME NEW c \in Configuration, Allocated(c)
      PROVE  OneAttemptAllocated'
  <2>1. /\ qpMemory' \in Seq(Memories)
        /\ Len(qpMemory') = Len(qpMemory) + NumQps
        /\ \A qp \in Qps : LET m == qpMemory'[Len(qpMemory) + qp + 1]
                          IN  m.qp = qp /\ m.has = "all"
        /\ \A i \in DOMAIN qpMemory' :
             i \notin (Len(qpMemory) + 1)..(Len(qpMemory) + NumQps)
               => qpMemory'[i].has = "none"
    BY <1>5, AllocatedOnce
  <2>2. Len(qpMemory) \in 0..(Len(qpMemory') - NumQps)
    BY <1>1, <2>1, QpsAreNat, SMT
  <2> QED
    BY <2>1, <2>2 DEF OneAttemptAllocated
<1>6. CASE Destroy
  BY <1>3, <1>6 DEF Destroy
<1> QED
  BY <1>2, <1>4, <1>5, <1>6
     DEF Next, vars, InitializeRejected, InitializeWithoutMemzones,
         InitializeNotConfigured, InitializeNotSetUp, InitializeNotStarted,
         Initialize, Configured

-----------------------------------------------------------------------------
(* The theorems *)

\* The life of a device, with any number of queue pairs and calls of Initialize,
\* satisfies the invariant.
THEOREM Invariance == Spec => []IInv
<1>1. IInv /\ [Next]_vars => IInv'
  BY TypeStep, HardwareStep, AllocatedStep DEF IInv
<1> QED
  BY <1>1, InitHolds, PTL DEF Spec

\* Types of the device's state in every sequence of attempts.
THEOREM TypeCorrect == Spec => []TypeOK
<1>1. IInv => TypeOK
  BY DEF IInv
<1> QED
  BY <1>1, Invariance, PTL

\* The destructor stops and closes what is running, wherever Initialize failed.
THEOREM HardwareAlwaysFollows == Spec => []HardwareFollowsState
<1>1. IInv => HardwareFollowsState
  BY DEF IInv
<1> QED
  BY <1>1, Invariance, PTL

\* A started device has the memory of one attempt, complete and in order.
THEOREM OneAttemptAlways == Spec => []OneAttemptAllocated
<1>1. IInv => OneAttemptAllocated
  BY DEF IInv
<1> QED
  BY <1>1, Invariance, PTL

\* The pools cover a full hardware queue and one burst, for every burst size.
THEOREM PoolsAlwaysCover == Spec => []PoolsCoverQueue
<1>1. TypeOK => PoolsCoverQueue
  <2> SUFFICES ASSUME TypeOK, NEW i \in DOMAIN qpMemory, qpMemory[i].sgl <= 8
               PROVE  CoversQueue(qpMemory[i])
    BY DEF PoolsCoverQueue
  <2>1. qpMemory[i] \in Memories
    BY DEF TypeOK
  <2>2. qpMemory[i].burst \in Nat \ {0} /\ qpMemory[i].sgl \in Nat \ {0}
    <3>1. /\ qpMemory[i].burst \in BurstSizes \ {0}
          /\ qpMemory[i].sgl \in (SglSegs \ {0}) \cup {1}
      BY <2>1 DEF Memories
    <3>2. /\ \A x \in BurstSizes \ {0} : x \in Nat \ {0}
          /\ \A x \in (SglSegs \ {0}) \cup {1} : x \in Nat \ {0}
      BY LifecycleAssumption, SMT DEF LifecycleAssumption
    <3> QED
      BY <3>1, <3>2, Zenon
  <2>3. qpMemory[i].sgl \in 1..8
    BY <2>2, SMT
  <2> QED
    BY <2>2, <2>3, PoolsCover
<1> QED
  BY <1>1, TypeCorrect, PTL

-----------------------------------------------------------------------------
(* Segment sizes *)

\* A length of at most 16 bits stays what it is.
LEMMA Width16 ==
  ASSUME NEW n \in Nat, n < 65536
  PROVE  n % 65536 = n
  BY SMT

\* The sizes CompressedSegSize chooses from for an accepted segment below 2^15.
SmallPowers == {16, 32, 64, 128, 256, 512, 1024, 2048, 4096, 8192, 16384, 32768}

\* A segment whose size is between two powers of two gets the greater one.
LEMMA PowerFits ==
  ASSUME NEW d \in Nat, d < 32768, NEW p \in SmallPowers,
         p <= 2 * d, d < p
  PROVE  Fits(d)
<1>1. p \in PowersOfTwo /\ ~(p > 32768) /\ p \in Nat /\ 2 * d < 2 * p
  BY SMT DEF PowersOfTwo, SmallPowers
<1>2. ASSUME NEW q \in PowersOfTwo, q > d
      PROVE  q >= p
  BY <1>2, SMTT(30) DEF PowersOfTwo, SmallPowers
<1>3. CompressedSegSize(d) = p
  <2>1. ASSUME NEW q \in PowersOfTwo, q <= 2 * d, 2 * d < 2 * q
        PROVE  q = p
    <3>1. q >= p
      BY <1>2, <2>1, SMT DEF PowersOfTwo
    <3>2. q < 2 * p
      BY <1>1, <2>1, SMT DEF PowersOfTwo
    <3> QED
      BY <3>1, <3>2, SMTT(30) DEF PowersOfTwo, SmallPowers
  <2>2. p = CHOOSE q \in PowersOfTwo : q <= 2 * d /\ 2 * d < 2 * q
    BY <1>1, <2>1
  <2> QED
    BY <1>1, <2>2 DEF CompressedSegSize
<1>4. /\ MemzoneLength(p) \in Nat /\ MemzoneLength(p) >= p
      /\ MbufLength(d) = MemzoneLength(p)
  <2>1. /\ MemzoneLength(p) \in Nat /\ MemzoneLength(p) >= p
        /\ MemzoneLength(p) <= p + 63
    BY <1>1, SMT DEF MemzoneLength
  <2>2. MemzoneLength(p) < 65536
    <3>1. p <= 32768
      BY <1>1, SMT
    <3> QED
      BY <1>1, <2>1, <3>1, SMT
  <2>3. MbufLength(d) = MemzoneLength(p) % 65536
    BY <1>3 DEF MbufLength
  <2> QED
    BY <2>1, <2>2, <2>3, Width16
<1>5. MbufLength(d) >= d + StoredBlock \/ \E q \in PowersOfTwo : q - d \in 1..4
  <2>1. CASE p - d >= 5
    BY <1>1, <1>4, <2>1, SMT DEF StoredBlock
  <2>2. CASE ~(p - d >= 5)
    <3>1. p - d \in 1..4
      BY <1>1, <2>2, SMT
    <3> QED
      BY <1>1, <3>1
  <2> QED
    BY <2>1, <2>2
<1>6. MbufLength(d) >= p /\ MbufLength(d) = MemzoneLength(CompressedSegSize(d))
  BY <1>1, <1>3, <1>4, SMT
<1>7. d < 32768 /\ p > d
  BY SMT
<1> QED
  BY <1>1, <1>2, <1>3, <1>5, <1>6, <1>7 DEF Fits

\* From half of the 16 bits on it gets a tenth more, which an mbuf can show.
LEMMA TenthFits ==
  ASSUME NEW d \in Nat, 32768 <= d, d <= 59460
  PROVE  Fits(d)
<1> DEFINE size == (11 * d) \div 10
<1>2. size \in Nat /\ size >= d + 3276 /\ size <= 65406
  BY SMT
<1>3. CompressedSegSize(d) = size
  <2>1. 65536 = CHOOSE q \in PowersOfTwo : q <= 2 * d /\ 2 * d < 2 * q
    <3>1. 65536 \in PowersOfTwo /\ 65536 <= 2 * d /\ 2 * d < 2 * 65536
      BY SMT DEF PowersOfTwo
    <3>2. ASSUME NEW q \in PowersOfTwo, q <= 2 * d, 2 * d < 2 * q
          PROVE  q = 65536
      BY <3>2, SMTT(30) DEF PowersOfTwo
    <3> QED
      BY <3>1, <3>2
  <2>2. size % 65536 = size
    <3>1. size \in Nat /\ size < 65536
      BY <1>2, SMT
    <3> HIDE DEF size
    <3> QED
      BY <3>1, Width16
  <2> DEFINE num == CHOOSE q \in PowersOfTwo : q <= 2 * d /\ 2 * d < 2 * q
  <2>3. CompressedSegSize(d) = IF num > 32768 THEN size % 65536 ELSE num
    BY DEF CompressedSegSize
  <2>4. num = 65536
    BY <2>1
  <2> HIDE DEF size, num
  <2> QED
    BY <2>2, <2>3, <2>4, SMT
<1> HIDE DEF size
<1>4. /\ MemzoneLength(size) \in Nat /\ MemzoneLength(size) >= size
      /\ MemzoneLength(size) <= 65408
  BY <1>2, SMT DEF MemzoneLength
<1>5. MbufLength(d) = MemzoneLength(size)
  <2>1. MemzoneLength(size) \in Nat /\ MemzoneLength(size) < 65536
    BY <1>4, SMT
  <2>2. MbufLength(d) = MemzoneLength(size) % 65536
    BY <1>3 DEF MbufLength
  <2> QED
    BY <2>1, <2>2, Width16
<1> QED
  BY <1>2, <1>3, <1>4, <1>5, SMT DEF Fits, StoredBlock, MaxMbufDataSize

\* Fits holds of every segment size ValidateConfiguration accepts.
LEMMA AcceptedFits ==
  ASSUME NEW d \in Nat, MinSegSize <= d, d <= MaxSegSize
  PROVE  Fits(d)
<1> 8 <= d /\ d <= 59460
  BY DEF MinSegSize, MaxSegSize
<1>1. ASSUME d < 32768
      PROVE  Fits(d)
  <2>1. PICK p \in SmallPowers : p <= 2 * d /\ d < p
    <3>1. CASE d < 64
      BY <3>1, SMTT(30) DEF SmallPowers
    <3>2. CASE 64 <= d /\ d < 512
      BY <3>2, SMTT(30) DEF SmallPowers
    <3>3. CASE 512 <= d /\ d < 4096
      BY <3>3, SMTT(30) DEF SmallPowers
    <3>4. CASE 4096 <= d
      BY <1>1, <3>4, SMTT(30) DEF SmallPowers
    <3> QED
      BY <1>1, <3>1, <3>2, <3>3, <3>4, SMT
  <2> QED
    BY <1>1, <2>1, PowerFits
<1>2. CASE 32768 <= d
  BY <1>2, TenthFits
<1> QED
  BY <1>1, <1>2, SMT

\* Of every accepted segment size: the memzone keeps its length in 16 bits and holds
\* what UpdateCompressedSegSize asked for, the nearest power of two or what an mbuf
\* can show; only 1 to 4 bytes below a power of two is a stored block too large.
THEOREM SegmentsAlwaysFit == Spec => []SegmentsFit
<1>1. TypeOK => SegmentsFit
  <2> SUFFICES ASSUME TypeOK, NEW i \in DOMAIN qpMemory
               PROVE  Fits(qpMemory[i].seg)
    BY DEF SegmentsFit
  <2>1. qpMemory[i] \in Memories
    BY DEF TypeOK
  <2>2. MinSegSize \in Nat /\ MaxSegSize \in Nat
    BY DEF MinSegSize, MaxSegSize
  <2>3. /\ qpMemory[i].seg \in Nat
        /\ MinSegSize <= qpMemory[i].seg /\ qpMemory[i].seg <= MaxSegSize
    <3>1. qpMemory[i].seg \in MinSegSize..MaxSegSize
      BY <2>1 DEF Memories
    <3> QED
      BY <2>2, <3>1, SMT
  <2> QED
    BY <2>3, AcceptedFits
<1> QED
  BY <1>1, TypeCorrect, PTL
=============================================================================
