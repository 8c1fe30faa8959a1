------------------------- MODULE DeviceMemoryProofs -------------------------
(***************************************************************************)
(* Proofs about DeviceMemory: its type invariant, that a memzone is in one *)
(* place only, that none is lost, and that the stock is kept.              *)
(***************************************************************************)
EXTENDS DeviceMemory, FiniteSetTheorems, TLAPS

\* What a push and a pop do to the stack and to the set of memzones in it.
LEMMA PushPool ==
  ASSUME NEW S, NEW s \in Seq(S), NEW z \in S
  PROVE  /\ <<z>> \o s \in Seq(S)
         /\ Len(<<z>> \o s) = Len(s) + 1
         /\ (<<z>> \o s)[1] = z
         /\ \A i \in 1..Len(s) : (<<z>> \o s)[i + 1] = s[i]
         /\ Elements(<<z>> \o s) = Elements(s) \cup {z}
<1> DEFINE t == <<z>> \o s
<1>1. /\ t \in Seq(S)
      /\ Len(t) = Len(s) + 1
      /\ t[1] = z
      /\ \A i \in 1..Len(s) : t[i + 1] = s[i]
  OBVIOUS
<1>2. \A i \in 2..Len(t) : i - 1 \in 1..Len(s) /\ t[i] = s[i - 1]
  BY <1>1
<1>3. DOMAIN t = 1..Len(t) /\ DOMAIN s = 1..Len(s) /\ Len(s) \in Nat
  BY <1>1
<1>4. Elements(t) = Elements(s) \cup {z}
  <2>1. ASSUME NEW i \in DOMAIN t
        PROVE  t[i] \in Elements(s) \cup {z}
    <3>1. CASE i = 1
      BY <3>1, <1>1
    <3>2. CASE i # 1
      BY <3>2, <1>2, <1>3 DEF Elements
    <3> QED BY <3>1, <3>2
  <2>2. ASSUME NEW i \in DOMAIN s
        PROVE  s[i] \in Elements(t)
    <3>1. i + 1 \in DOMAIN t /\ t[i + 1] = s[i]
      BY <1>1, <1>3
    <3> QED BY <3>1 DEF Elements
  <2>3. z \in Elements(t)
    <3>1. 1 \in DOMAIN t
      BY <1>1, <1>3
    <3> QED BY <3>1, <1>1 DEF Elements
  <2> QED BY <2>1, <2>2, <2>3 DEF Elements
<1> QED BY <1>1, <1>4

\* What Take leaves of the stack of memzones.
LEMMA PopPool ==
  ASSUME NEW S, NEW s \in Seq(S), s # <<>>
  PROVE  /\ Head(s) \in S
         /\ Tail(s) \in Seq(S)
         /\ Len(Tail(s)) = Len(s) - 1
         /\ \A i \in 1..Len(Tail(s)) : Tail(s)[i] = s[i + 1]
         /\ Elements(s) = Elements(Tail(s)) \cup {Head(s)}
<1>1. /\ Head(s) = s[1]
      /\ Head(s) \in S
      /\ Tail(s) \in Seq(S)
      /\ Len(Tail(s)) = Len(s) - 1
      /\ \A i \in 1..Len(Tail(s)) : Tail(s)[i] = s[i + 1]
      /\ Len(s) \in Nat \ {0}
  OBVIOUS
<1>2. DOMAIN s = 1..Len(s) /\ DOMAIN Tail(s) = 1..Len(Tail(s))
  BY <1>1
<1>3. ASSUME NEW i \in DOMAIN s
      PROVE  s[i] \in Elements(Tail(s)) \cup {Head(s)}
  <2>1. CASE i = 1
    BY <2>1, <1>1
  <2>2. CASE i # 1
    <3>1. i - 1 \in 1..Len(Tail(s)) /\ (i - 1) + 1 = i
      BY <2>2, <1>1, <1>2
    <3>2. s[i] = Tail(s)[i - 1] /\ i - 1 \in DOMAIN Tail(s)
      BY <3>1, <1>1, <1>2
    <3> QED BY <3>2 DEF Elements
  <2> QED BY <2>1, <2>2
<1>4. ASSUME NEW i \in DOMAIN Tail(s)
      PROVE  Tail(s)[i] \in Elements(s)
  <2>1. i + 1 \in DOMAIN s /\ Tail(s)[i] = s[i + 1]
    BY <1>1, <1>2
  <2> QED BY <2>1 DEF Elements
<1>5. Head(s) \in Elements(s)
  <2>1. 1 \in DOMAIN s
    BY <1>1, <1>2
  <2> QED BY <2>1, <1>1 DEF Elements
<1> QED BY <1>1, <1>3, <1>4, <1>5 DEF Elements

\* The invariant that carries the proofs: type, one place only, none lost.
Inv == TypeOK /\ Exclusive /\ NothingLost

\* An empty stock satisfies the invariant.
LEMMA InitInv == Init => Inv
BY DEF Init, Inv, TypeOK, Phases, Exclusive, NothingLost, Pooled, Elements

\* Preallocate, Take, Put and the destructor keep the invariant.
LEMMA StepInv == Inv /\ [Next]_vars => Inv'
<1> SUFFICES ASSUME Inv, [Next]_vars PROVE Inv'
  OBVIOUS
<1> USE DEF Inv, TypeOK, Phases
<1>1. ASSUME NEW z \in Memzones, PreallocateOne(z) PROVE Inv'
  <2>1. /\ z \notin Pooled
        /\ z \notin occupied
    BY <1>1 DEF PreallocateOne, NothingLost
  <2>2. Pooled' = Pooled \cup {z}
    BY <1>1, PushPool DEF PreallocateOne, Pooled
  <2>3. TypeOK'
    BY <1>1, PushPool DEF PreallocateOne
  <2>4. Exclusive'
    <3>1. ASSUME NEW i \in DOMAIN pool', NEW j \in DOMAIN pool', pool'[i] = pool'[j]
          PROVE  i = j
      BY <1>1, <2>1, <3>1, PushPool DEF PreallocateOne, Exclusive, Pooled, Elements
    <3>2. (Pooled \cap occupied)' = {}
      BY <1>1, <2>1, <2>2 DEF PreallocateOne, Exclusive
    <3> QED BY <3>1, <3>2 DEF Exclusive
  <2>5. NothingLost'
    BY <1>1, <2>2 DEF PreallocateOne, NothingLost
  <2> QED BY <2>3, <2>4, <2>5
<1>2. CASE PreallocateEnds
  BY <1>2 DEF PreallocateEnds, Exclusive, NothingLost, Pooled, Elements
<1>3. CASE PreallocateError
  BY <1>3 DEF PreallocateError, Exclusive, NothingLost, Pooled, Elements
<1>4. ASSUME NEW z \in Memzones, Take(z) PROVE Inv'
  <2>1. CASE TakePooled(z)
    <3>1. pool # <<>> /\ z = Head(pool) /\ pool' = Tail(pool)
      BY <2>1 DEF TakePooled
    <3>2. /\ Pooled = Pooled' \cup {z}
          /\ pool' \in Seq(Memzones)
          /\ Len(pool') = Len(pool) - 1
          /\ \A i \in 1..Len(pool') : pool'[i] = pool[i + 1]
      BY <3>1, PopPool DEF Pooled
    <3>3. /\ DOMAIN pool = 1..Len(pool) /\ DOMAIN pool' = 1..Len(pool')
          /\ z = pool[1] /\ Len(pool) \in Nat \ {0}
      BY <3>1, <3>2
    <3>4. z \notin Pooled'
      BY <3>2, <3>3 DEF Exclusive, Pooled, Elements
    <3>5. Exclusive'
      <4>1. ASSUME NEW i \in DOMAIN pool', NEW j \in DOMAIN pool', pool'[i] = pool'[j]
            PROVE  i = j
        BY <3>2, <3>3, <4>1 DEF Exclusive
      <4>2. (Pooled \cap occupied)' = {}
        BY <2>1, <3>2, <3>4 DEF TakePooled, Exclusive
      <4> QED BY <4>1, <4>2 DEF Exclusive
    <3>6. NothingLost'
      BY <2>1, <3>2 DEF TakePooled, NothingLost
    <3> QED BY <1>4, <2>1, <3>2, <3>5, <3>6 DEF Take, TakePooled
  <2>2. CASE TakeFresh(z)
    BY <1>4, <2>2 DEF Take, TakeFresh, Exclusive, NothingLost, Pooled, Elements
  <2> QED BY <1>4, <2>1, <2>2 DEF Take
<1>5. ASSUME NEW z \in Memzones, Put(z) PROVE Inv'
  <2>1. CASE z \in occupied
    <3>1. pool' = <<z>> \o pool /\ occupied' = occupied \ {z} /\ reserved' = reserved
          /\ phase' = phase
      BY <1>5, <2>1 DEF Put
    <3>2. z \notin Pooled
      BY <2>1 DEF Exclusive
    <3>3. Pooled' = Pooled \cup {z}
      BY <3>1, PushPool DEF Pooled
    <3>4. ASSUME NEW i \in DOMAIN pool', NEW j \in DOMAIN pool', pool'[i] = pool'[j]
          PROVE  i = j
      BY <3>1, <3>2, <3>4, PushPool DEF Exclusive, Pooled, Elements
    <3>5. Exclusive'
      BY <3>1, <3>3, <3>4 DEF Exclusive
    <3>6. NothingLost'
      BY <2>1, <3>1, <3>3 DEF NothingLost
    <3> QED BY <3>1, <3>5, <3>6, PushPool
  <2>2. CASE z \notin occupied
    BY <1>5, <2>2 DEF Put, Exclusive, NothingLost, Pooled, Elements
  <2> QED BY <2>1, <2>2
<1>6. CASE Destroy
  BY <1>6 DEF Destroy, Exclusive, NothingLost, Pooled, Elements
<1>7. CASE UNCHANGED vars
  BY <1>7 DEF vars, Exclusive, NothingLost, Pooled, Elements
<1> QED BY <1>1, <1>2, <1>3, <1>4, <1>5, <1>6, <1>7 DEF Next, PutMisses

\* In every reachable state of DeviceMemory the invariant holds.
THEOREM Invariance == Spec => []Inv
<1> QED BY InitInv, StepInv, PTL DEF Spec

\* Every variable keeps its type (Preallocate, Take, Put, ~DeviceMemory).
THEOREM TypeCorrect == Spec => []TypeOK
<1>1. Inv => TypeOK
  BY DEF Inv
<1> QED BY <1>1, Invariance, PTL

\* No memzone is ever twice in the stack, or both in the stack and taken.
THEOREM ExclusiveAlways == Spec => []Exclusive
<1>1. Inv => Exclusive
  BY DEF Inv
<1> QED BY <1>1, Invariance, PTL

\* No memzone the allocator handed out is ever forgotten.
THEOREM NothingLostEver == Spec => []NothingLost
<1>1. Inv => NothingLost
  BY DEF Inv
<1> QED BY <1>1, Invariance, PTL

-----------------------------------------------------------------------------
(* The stock of a ready device *)

StockInv ==
  /\ IsFiniteSet(occupied)
  /\ phase = "preallocating" => occupied = {}
  /\ phase = "ready" => Len(pool) + Cardinality(occupied) >= MinPreallocate

\* An empty stock that is still being preallocated owes no minimum.
LEMMA InitStock == Init => StockInv
BY FS_EmptySet DEF Init, StockInv

\* Preallocate, Take and Put keep the minimum stock of a device that has started.
LEMMA StepStock == Inv /\ StockInv /\ [Next]_vars => StockInv'
<1> SUFFICES ASSUME Inv, StockInv, [Next]_vars PROVE StockInv'
  OBVIOUS
<1> USE PreallocateAssumption DEF StockInv
<1>0. Len(pool) \in Nat /\ Cardinality(occupied) \in Nat /\ pool \in Seq(Memzones)
  BY FS_CardinalityType DEF Inv, TypeOK
<1>1. ASSUME NEW z \in Memzones, PreallocateOne(z) PROVE StockInv'
  BY <1>1 DEF PreallocateOne
<1>2. CASE PreallocateEnds
  BY <1>2, <1>0, FS_EmptySet DEF PreallocateEnds
<1>3. CASE PreallocateError
  BY <1>3 DEF PreallocateError
<1>4. ASSUME NEW z \in Memzones, Take(z) PROVE StockInv'
  <2>1. CASE TakePooled(z)
    <3>1. z \in Pooled /\ Len(pool') = Len(pool) - 1
      BY <2>1, <1>0, PopPool DEF TakePooled, Pooled
    <3>2. z \notin occupied
      BY <3>1 DEF Inv, Exclusive
    <3>3. /\ IsFiniteSet(occupied')
          /\ Cardinality(occupied') = Cardinality(occupied) + 1
      BY <2>1, <3>2, FS_AddElement DEF TakePooled
    <3> QED BY <1>0, <1>4, <3>1, <3>3 DEF Take
  <2>2. CASE TakeFresh(z)
    <3>1. z \notin occupied
      BY <2>2 DEF TakeFresh, Inv, NothingLost
    <3>2. /\ IsFiniteSet(occupied')
          /\ Cardinality(occupied') = Cardinality(occupied) + 1
      BY <2>2, <3>1, FS_AddElement DEF TakeFresh
    <3> QED BY <1>0, <1>4, <2>2, <3>2 DEF Take, TakeFresh
  <2> QED BY <1>4, <2>1, <2>2 DEF Take
<1>5. ASSUME NEW z \in Memzones, Put(z) PROVE StockInv'
  <2>1. CASE z \in occupied
    <3>1. /\ IsFiniteSet(occupied')
          /\ Cardinality(occupied') = Cardinality(occupied) - 1
      BY <1>5, <2>1, FS_RemoveElement DEF Put
    <3>2. Len(pool') = Len(pool) + 1
      BY <1>5, <2>1, <1>0, PushPool DEF Put
    <3> QED BY <1>0, <1>5, <3>1, <3>2 DEF Put
  <2>2. CASE z \notin occupied
    BY <1>5, <2>2 DEF Put
  <2> QED BY <2>1, <2>2
<1>6. CASE Destroy
  BY <1>6, FS_EmptySet DEF Destroy
<1>7. CASE UNCHANGED vars
  BY <1>7 DEF vars
<1> QED BY <1>1, <1>2, <1>3, <1>4, <1>5, <1>6, <1>7 DEF Next, PutMisses

\* A ready device has at least its minimum of memzones, and while it is ready
\* it never gives one back to the allocator.
THEOREM StockIsKept == Spec => StockKept
<1>1. ASSUME Inv, StockInv, [Next]_vars
      PROVE  [(phase = "ready" /\ phase' = "ready")
                => /\ Len(pool) + Cardinality(occupied) >= MinPreallocate
                   /\ reserved \subseteq reserved']_vars
  <2>1. CASE UNCHANGED vars
    BY <2>1
  <2>2. ASSUME phase = "ready", phase' = "ready", Next
        PROVE  reserved \subseteq reserved'
    BY <2>2 DEF Next, PreallocateOne, PreallocateEnds, PreallocateError, Take,
                TakePooled, TakeFresh, Put, PutMisses, vars, Destroy
  <2> QED BY <1>1, <2>1, <2>2 DEF StockInv
<1>2. Spec => []StockInv
  BY InitStock, StepStock, Invariance, PTL DEF Spec
<1> QED BY <1>1, <1>2, Invariance, PTL DEF Spec, StockKept

=============================================================================
