---------------------------- MODULE MemzoneProofs ----------------------------
(***************************************************************************)
(* Proofs about the memzones of CompressDevice: for any number of lcores   *)
(* that compress, recycle and release at once, any sizes and any faults,   *)
(* no memzone is used twice; and a Compress leaves nothing pending.        *)
(***************************************************************************)
EXTENDS CompressDeviceProofs

-----------------------------------------------------------------------------
(* The inductive invariant *)

\* The l-th destination mbuf of the k-th pending operation has its memzone, which
\* Release has not put back.
Holds(freed, pend, data, k, l) ==
  /\ k \in DOMAIN pend
  /\ l \in DOMAIN data[pend[k]].dst
  /\ k = 1 => l > freed

\* The memzones that one queue pair uses.
Zones(freed, pend, data, bufs) ==
  {z \in Memzones :
     \/ \E i \in DOMAIN bufs : bufs[i].zone = z
     \/ \E k, l \in Nat : Holds(freed, pend, data, k, l) /\ data[pend[k]].dst[l] = z}

\* One queue pair uses none of them twice.
Once(freed, pend, data, bufs) ==
  /\ \A i, k \in DOMAIN bufs : bufs[i].zone = bufs[k].zone => i = k
  /\ \A k, l, m, n \in Nat :
       /\ Holds(freed, pend, data, k, l) /\ Holds(freed, pend, data, m, n)
       /\ data[pend[k]].dst[l] = data[pend[m]].dst[n]
       => k = m /\ l = n
  /\ \A i \in DOMAIN bufs : \A k, l \in Nat :
       Holds(freed, pend, data, k, l) => bufs[i].zone # data[pend[k]].dst[l]

\* Release has freed part of an operation only while there is one; a call is one
\* of Compress or Decompress; Recycle has something to put back; and Compress
\* leaves nothing pending.
Rest(c, pend, bufs) ==
  /\ c.pc \in ActivePCs => c.kind \in {"compress", "decompress"}
  /\ c.pc = "putback" => bufs # <<>>
  /\ c.freed # 0 => c.pc = "release" /\ pend # <<>>
  /\ /\ c.kind # "decompress"
     /\ c.pc = "idle" \/ (c.pc = "putback" /\ c.result # "error")
     => pend = <<>>

ZonesOf(q) == Zones(call[q].freed, pending[q], op[q], buffers[q])
OnceAt(q) == Once(call[q].freed, pending[q], op[q], buffers[q])
RestAt(q) == Rest(call[q], pending[q], buffers[q])

Stock == DM!Exclusive /\ DM!NothingLost

ZInv ==
  /\ IInv
  /\ Stock
  /\ \A q \in QueuePairs : RestAt(q) /\ OnceAt(q) /\ ZonesOf(q) \subseteq occupied
  /\ \A p, q \in QueuePairs : p # q => ZonesOf(p) \cap ZonesOf(q) = {}

\* Each use of the operations after the one at the front, which leaves, was one
\* before, a place further on.
Shift(freed, pend, data, data2) ==
  \A k, l \in Nat : Holds(0, Tail(pend), data2, k, l) =>
    /\ k # 0
    /\ Holds(freed, pend, data, k + 1, l)
    /\ data2[Tail(pend)[k]].dst[l] = data[pend[k + 1]].dst[l]

\* A step of q that uses none but its own memzones and those it takes, and gives
\* back none but its own, keeps the invariant.
LEMMA ZFrame ==
  ASSUME ZInv, IInv', Stock', NEW q \in QueuePairs, Others(q),
         RestAt(q)', OnceAt(q)',
         NEW taken, taken \cap occupied = {},
         ZonesOf(q)' \subseteq ZonesOf(q) \cup taken,
         ZonesOf(q)' \subseteq occupied',
         occupied \ ZonesOf(q) \subseteq occupied'
  PROVE  ZInv'
<1>1. ASSUME NEW p \in QueuePairs, p # q
      PROVE  /\ ZonesOf(p)' = ZonesOf(p)
             /\ RestAt(p)' /\ OnceAt(p)'
             /\ ZonesOf(p) \cap ZonesOf(q) = {} /\ ZonesOf(p) \subseteq occupied
             /\ RestAt(p) /\ OnceAt(p)
  <2>1. /\ call'[p] = call[p] /\ pending'[p] = pending[p]
        /\ op'[p] = op[p] /\ buffers'[p] = buffers[p]
    BY <1>1 DEF Others
  <2>2. RestAt(p) /\ OnceAt(p) /\ ZonesOf(p) \subseteq occupied
        /\ ZonesOf(p) \cap ZonesOf(q) = {}
    BY <1>1, Zenon DEF ZInv
  <2>3. ZonesOf(p)' = ZonesOf(p)
    BY <2>1, Zenon DEF ZonesOf
  <2>4. RestAt(p)' /\ OnceAt(p)'
    BY <2>1, <2>2, Zenon DEF RestAt, OnceAt
  <2> QED BY <2>2, <2>3, <2>4
<1>2. ASSUME NEW p \in QueuePairs
      PROVE  RestAt(p)' /\ OnceAt(p)' /\ ZonesOf(p)' \subseteq occupied'
  BY <1>1, Zenon
<1>3. ASSUME NEW p \in QueuePairs, NEW r \in QueuePairs, p # r
      PROVE  ZonesOf(p)' \cap ZonesOf(r)' = {}
  <2>1. CASE p # q /\ r # q
    <3>1. ZonesOf(p) \cap ZonesOf(r) = {}
      BY <1>3, Zenon DEF ZInv
    <3> QED BY <1>1, <2>1, <3>1
  <2>2. CASE p = q
    BY <1>1, <1>3, <2>2
  <2>3. CASE r = q
    BY <1>1, <1>3, <2>3
  <2> QED BY <2>1, <2>2, <2>3
<1> QED BY <1>2, <1>3, Zenon DEF ZInv

\* What is used by whom, seen from ZonesExclusive.
LEMMA UsesAt ==
  ASSUME IInv, NEW u \in Uses
  PROVE  /\ u[1] \in QueuePairs
         /\ ZoneOf(u) \in ZonesOf(u[1])
         /\ \/ u = <<u[1], 0, u[3]>> /\ u[2] = 0 /\ u[3] \in DOMAIN buffers[u[1]]
            \/ /\ u = <<u[1], u[2], u[3]>> /\ u[2] # 0
               /\ u[2] \in Nat /\ u[3] \in Nat
               /\ Holds(call[u[1]].freed, pending[u[1]], op[u[1]], u[2], u[3])
<1>1. PICK q \in QueuePairs :
        \/ \E i \in DOMAIN buffers[q] : u = <<q, 0, i>>
        \/ \E i \in DOMAIN pending[q] : \E j \in DOMAIN op[q][pending[q][i]].dst :
             (i = 1 => j > call[q].freed) /\ u = <<q, i, j>>
  BY DEF Uses
<1>2. /\ buffers[q] \in Seq(Buffer) /\ pending[q] \in Seq(Operations)
      /\ op[q] \in [Operations -> Operation]
  BY Localize DEF QType
<1>3. ASSUME NEW i \in DOMAIN buffers[q], u = <<q, 0, i>>
      PROVE  /\ u[1] = q /\ u[2] = 0 /\ u[3] = i
             /\ ZoneOf(u) = buffers[q][i].zone /\ ZoneOf(u) \in ZonesOf(q)
  <2>1. u[1] = q /\ u[2] = 0 /\ u[3] = i
    BY <1>3
  <2>2. ZoneOf(u) = buffers[q][i].zone
    BY <2>1 DEF ZoneOf
  <2>3. buffers[q][i].zone \in Memzones
    <3>1. buffers[q][i] \in Buffer
      BY <1>2, <1>3
    <3> QED BY <3>1 DEF Buffer
  <2> QED BY <2>1, <2>2, <2>3 DEF ZonesOf, Zones
<1>4. ASSUME NEW i \in DOMAIN pending[q], NEW j \in DOMAIN op[q][pending[q][i]].dst,
             i = 1 => j > call[q].freed, u = <<q, i, j>>
      PROVE  /\ u[1] = q /\ u[2] = i /\ u[3] = j /\ i # 0 /\ i \in Nat /\ j \in Nat
             /\ Holds(call[q].freed, pending[q], op[q], i, j)
             /\ ZoneOf(u) \in ZonesOf(q)
  <2> DEFINE dst == op[q][pending[q][i]].dst
  <2>1. pending[q][i] \in Operations
    BY <1>2
  <2>2. dst \in Seq(Memzones)
    BY <1>2, <2>1 DEF Operation
  <2>3. i \in Nat /\ i # 0
    BY <1>2
  <2>4. j \in Nat /\ dst[j] \in Memzones
    <3> HIDE DEF dst
    <3>1. j \in DOMAIN dst
      BY DEF dst
    <3> QED BY <2>2, <3>1
  <2>5. u[1] = q /\ u[2] = i /\ u[3] = j
    BY <1>4
  <2>6. Holds(call[q].freed, pending[q], op[q], i, j)
    BY <1>4 DEF Holds
  <2>7. ZoneOf(u) = dst[j]
    BY <2>3, <2>5 DEF ZoneOf
  <2>8. ZoneOf(u) \in ZonesOf(q)
    BY <2>3, <2>4, <2>6, <2>7, Zenon DEF ZonesOf, Zones
  <2> QED BY <2>3, <2>4, <2>5, <2>6, <2>8
<1> QED BY <1>1, <1>3, <1>4

\* The invariant says what ZonesExclusive says.
LEMMA InvIsExclusive == ZInv => ZonesExclusive
<1> SUFFICES ASSUME ZInv PROVE ZonesExclusive
  OBVIOUS
<1>1. IInv /\ DM!Exclusive
  BY DEF ZInv, Stock
<1>2. ASSUME NEW u \in Uses
      PROVE  ZoneOf(u) \in occupied
  <2>1. u[1] \in QueuePairs /\ ZoneOf(u) \in ZonesOf(u[1])
    BY <1>1, UsesAt, Zenon
  <2> QED BY <2>1, Zenon DEF ZInv
<1>3. ASSUME NEW u \in Uses, NEW v \in Uses, ZoneOf(u) = ZoneOf(v)
      PROVE  u = v
  <2> DEFINE q == u[1]
  <2>1. u[1] \in QueuePairs /\ v[1] \in QueuePairs
        /\ ZoneOf(u) \in ZonesOf(u[1]) /\ ZoneOf(v) \in ZonesOf(v[1])
    BY <1>1, UsesAt, Zenon
  <2>2. v[1] = q
    <3> SUFFICES ASSUME v[1] # u[1] PROVE FALSE
      OBVIOUS
    <3>1. ZonesOf(u[1]) \cap ZonesOf(v[1]) = {}
      BY <2>1, Zenon DEF ZInv
    <3> QED BY <1>3, <2>1, <3>1
  <2>3. OnceAt(q)
    BY <2>1, Zenon DEF ZInv
  <2>4. \/ u = <<q, 0, u[3]>> /\ u[2] = 0 /\ u[3] \in DOMAIN buffers[q]
        \/ /\ u = <<q, u[2], u[3]>> /\ u[2] # 0 /\ u[2] \in Nat /\ u[3] \in Nat
           /\ Holds(call[q].freed, pending[q], op[q], u[2], u[3])
    BY <1>1, UsesAt, Zenon
  <2>5. \/ v = <<q, 0, v[3]>> /\ v[2] = 0 /\ v[3] \in DOMAIN buffers[q]
        \/ /\ v = <<q, v[2], v[3]>> /\ v[2] # 0 /\ v[2] \in Nat /\ v[3] \in Nat
           /\ Holds(call[q].freed, pending[q], op[q], v[2], v[3])
    BY <1>1, <2>2, UsesAt, Zenon
  <2> DEFINE z(w) == IF w[2] = 0 THEN buffers[q][w[3]].zone
                     ELSE op[q][pending[q][w[2]]].dst[w[3]]
  <2>6. z(u) = z(v)
    BY <1>3, <2>2 DEF ZoneOf
  <2> DEFINE holds(k, l) == Holds(call[q].freed, pending[q], op[q], k, l)
  <2>7. /\ \A i, k \in DOMAIN buffers[q] : buffers[q][i].zone = buffers[q][k].zone => i = k
        /\ \A k, l, m, n \in Nat :
             /\ holds(k, l) /\ holds(m, n)
             /\ op[q][pending[q][k]].dst[l] = op[q][pending[q][m]].dst[n]
             => k = m /\ l = n
        /\ \A i \in DOMAIN buffers[q] : \A k, l \in Nat :
             holds(k, l) => buffers[q][i].zone # op[q][pending[q][k]].dst[l]
    BY <2>3, Zenon DEF OnceAt, Once
  <2> HIDE DEF holds
  <2>8. ASSUME NEW w, NEW x, w[2] = 0, x[2] # 0,
               w[3] \in DOMAIN buffers[q], x[2] \in Nat, x[3] \in Nat, holds(x[2], x[3])
        PROVE  z(w) # z(x)
    <3>1. buffers[q][w[3]].zone # op[q][pending[q][x[2]]].dst[x[3]]
      BY <2>7, <2>8, Zenon
    <3> QED BY <2>8, <3>1
  <2>9. CASE u[2] = 0 /\ v[2] = 0
    BY <2>4, <2>5, <2>6, <2>7, <2>9
  <2>10. CASE u[2] # 0 /\ v[2] # 0
    <3>1. holds(u[2], u[3]) /\ holds(v[2], v[3])
      BY <2>4, <2>5, <2>10, Zenon DEF holds
    <3>2. u[2] = v[2] /\ u[3] = v[3]
      BY <2>4, <2>5, <2>6, <2>7, <2>10, <3>1
    <3> QED BY <2>4, <2>5, <2>10, <3>2
  <2>11. CASE u[2] = 0 /\ v[2] # 0
    <3>1. holds(v[2], v[3])
      BY <2>5, <2>11, Zenon DEF holds
    <3> HIDE DEF z
    <3> QED BY <2>4, <2>5, <2>6, <2>8, <2>11, <3>1
  <2>12. CASE u[2] # 0 /\ v[2] = 0
    <3>1. holds(u[2], u[3])
      BY <2>4, <2>12, Zenon DEF holds
    <3> HIDE DEF z
    <3> QED BY <2>4, <2>5, <2>6, <2>8, <2>12, <3>1
  <2> QED BY <2>9, <2>10, <2>11, <2>12
<1> QED BY <1>1, <1>2, <1>3 DEF ZonesExclusive

-----------------------------------------------------------------------------
(* The stock *)

\* What Take gives out is used by nobody, and the stock stays exclusive.
LEMMA TakeStock ==
  ASSUME Stock, pool \in Seq(Memzones), NEW z \in Memzones, DM!Take(z)
  PROVE  Stock' /\ z \notin occupied /\ occupied' = occupied \cup {z}
<1> USE DEF Stock, DM!Exclusive, DM!NothingLost, DM!Pooled, DM!Elements
<1>1. CASE DM!TakePooled(z)
  <2>1. /\ pool # <<>> /\ z = pool[1] /\ pool' = Tail(pool)
        /\ occupied' = occupied \cup {z} /\ reserved' = reserved
    BY <1>1 DEF DM!TakePooled
  <2>2. /\ DOMAIN pool = 1..Len(pool) /\ Len(pool) \in Nat \ {0}
        /\ DOMAIN pool' = 1..(Len(pool) - 1)
        /\ \A i \in 1..(Len(pool) - 1) : pool'[i] = pool[i + 1]
    BY <2>1
  <2>3. \A i \in DOMAIN pool' : i + 1 \in DOMAIN pool /\ i + 1 # 1 /\ pool'[i] = pool[i + 1]
    BY <2>2
  <2>4. \A i \in DOMAIN pool : i # 1 => i - 1 \in DOMAIN pool' /\ pool[i] = pool'[i - 1]
    BY <2>2
  <2>5. 1 \in DOMAIN pool
    BY <2>2
  <2>6. \A i, j \in DOMAIN pool' : pool'[i] = pool'[j] => i = j
    <3> SUFFICES ASSUME NEW i \in DOMAIN pool', NEW j \in DOMAIN pool', pool'[i] = pool'[j]
                 PROVE  i = j
      OBVIOUS
    <3>1. i + 1 = j + 1
      BY <2>3
    <3> QED BY <2>2, <3>1
  <2>7. z \notin occupied
    BY <2>1, <2>5
  <2>8. DM!Elements(pool') \cap (occupied \cup {z}) = {}
    BY <2>1, <2>3, <2>5
  <2>9. DM!Elements(pool) = DM!Elements(pool') \cup {z}
    BY <2>1, <2>3, <2>4, <2>5
  <2> QED BY <2>1, <2>6, <2>7, <2>8, <2>9
<1>2. CASE DM!TakeFresh(z)
  BY <1>2 DEF DM!TakeFresh
<1> QED BY <1>1, <1>2 DEF DM!Take

\* Put returns a taken memzone to the stock, and ignores any other.
LEMMA PutStock ==
  ASSUME Stock, pool \in Seq(Memzones), occupied \subseteq Memzones, NEW z, DM!Put(z)
  PROVE  Stock' /\ occupied' = occupied \ {z}
<1> USE DEF Stock, DM!Exclusive, DM!NothingLost, DM!Pooled, DM!Elements
<1>1. CASE z \in occupied
  <2>1. occupied' = occupied \ {z} /\ pool' = <<z>> \o pool /\ reserved' = reserved
    BY <1>1 DEF DM!Put
  <2>2. <<z>> \in Seq(Memzones) /\ Len(<<z>>) = 1 /\ <<z>>[1] = z
    BY <1>1
  <2>3. /\ DOMAIN pool = 1..Len(pool) /\ Len(pool) \in Nat
        /\ DOMAIN pool' = 1..(Len(pool) + 1)
        /\ pool'[1] = z
        /\ \A i \in 2..(Len(pool) + 1) : pool'[i] = pool[i - 1]
    BY <2>1, <2>2
  <2>4. \A i \in DOMAIN pool' : i # 1 => i - 1 \in DOMAIN pool /\ pool'[i] = pool[i - 1]
    BY <2>3
  <2>5. \A i \in DOMAIN pool : i + 1 \in DOMAIN pool' /\ pool'[i + 1] = pool[i]
    BY <2>3
  <2>6. 1 \in DOMAIN pool' /\ z \notin DM!Elements(pool)
    BY <1>1, <2>3
  <2>7. \A i, j \in DOMAIN pool' : pool'[i] = pool'[j] => i = j
    <3> SUFFICES ASSUME NEW i \in DOMAIN pool', NEW j \in DOMAIN pool', pool'[i] = pool'[j]
                 PROVE  i = j
      OBVIOUS
    <3>1. CASE i # 1 /\ j # 1
      <4>1. i - 1 = j - 1
        BY <2>4, <3>1
      <4> QED BY <2>3, <4>1
    <3>2. CASE i = 1 \/ j = 1
      BY <2>3, <2>4, <2>6, <3>2
    <3> QED BY <3>1, <3>2
  <2>8. DM!Elements(pool') = DM!Elements(pool) \cup {z}
    BY <2>3, <2>4, <2>5, <2>6
  <2> HIDE DEF DM!Elements
  <2>9. DM!Pooled = DM!Elements(pool) /\ DM!Pooled' = DM!Elements(pool')
    OBVIOUS
  <2>10. DM!Exclusive'
    BY <2>1, <2>6, <2>7, <2>8, <2>9
  <2>11. DM!NothingLost'
    BY <1>1, <2>1, <2>8, <2>9
  <2> QED BY <2>1, <2>10, <2>11
<1>2. CASE z \notin occupied
  BY <1>2 DEF DM!Put
<1> QED BY <1>1, <1>2

\* The stock of a step that leaves it alone.
LEMMA SameStock ==
  ASSUME Stock, UNCHANGED <<reserved, pool, occupied>>
  PROVE  Stock' /\ occupied' = occupied
BY DEF Stock, DM!Exclusive, DM!NothingLost, DM!Pooled, DM!Elements

-----------------------------------------------------------------------------
(* Steps that touch no memzone *)

\* A step that changes what the lcore of q does, but neither its pending
\* operations nor its buffers.
LEMMA QuietStep ==
  ASSUME ZInv, IInv', NEW q \in QueuePairs, NEW c,
         call' = [call EXCEPT ![q] = c],
         UNCHANGED <<memoryVars, pending, op, buffers>>,
         Rest(c, pending[q], buffers[q]),
         c.freed = call[q].freed \/ pending[q] = <<>>
  PROVE  ZInv'
<1>1. call'[q] = c /\ \A p \in QueuePairs : p # q => call'[p] = call[p]
  BY DEF ZInv, IInv, TypeOK
<1>2. Others(q) /\ RestAt(q)'
  BY <1>1 DEF Others, RestAt
<1>3. \A k, l : Holds(c.freed, pending[q], op[q], k, l)
                  <=> Holds(call[q].freed, pending[q], op[q], k, l)
  BY DEF Holds
<1>4. ZonesOf(q)' = ZonesOf(q)
  <2>1. Zones(c.freed, pending[q], op[q], buffers[q]) = ZonesOf(q)
    BY <1>3 DEF Zones, ZonesOf
  <2> QED BY <1>1, <2>1, Zenon DEF ZonesOf
<1>5. OnceAt(q)'
  <2>1. Once(call[q].freed, pending[q], op[q], buffers[q])
    BY Zenon DEF ZInv, OnceAt
  <2>2. Once(c.freed, pending[q], op[q], buffers[q])
    BY <1>3, <2>1 DEF Once
  <2> QED BY <1>1, <2>2, Zenon DEF OnceAt
<1>6. Stock' /\ occupied' = occupied
  BY SameStock DEF ZInv, memoryVars
<1>7. ZonesOf(q) \subseteq occupied
  BY Zenon DEF ZInv
<1> QED
  <2>1. {} \cap occupied = {} /\ ZonesOf(q)' \subseteq ZonesOf(q) \cup {}
        /\ ZonesOf(q)' \subseteq occupied' /\ occupied \ ZonesOf(q) \subseteq occupied'
    BY <1>4, <1>6, <1>7
  <2> QED BY <1>2, <1>5, <1>6, <2>1, ZFrame

\* The lcore calls something, or the hardware does something.
LEMMA QuietInvoke ==
  ASSUME ZInv, IInv', NEW q \in QueuePairs, Invoke(q) \/ Complete(q) \/ Stall(q)
  PROVE  ZInv'
<1>1. /\ call[q] \in Call /\ call \in [QueuePairs -> Call]
      /\ Rest(call[q], pending[q], buffers[q])
  BY Zenon DEF ZInv, RestAt, IInv, TypeOK
<1>2. ASSUME NEW kind \in {"compress", "decompress"}, NEW n, ~Busy(q), Enter(q, kind, n)
      PROVE  ZInv'
  <2> DEFINE c == IF Leftovers(q) THEN [NoCall EXCEPT !.pc = "undefined"]
                  ELSE [NoCall EXCEPT !.pc = "loop", !.kind = kind, !.segs = n]
  <2>1. /\ c.pc = "undefined" \/ (c.pc = "loop" /\ c.kind \in {"compress", "decompress"})
        /\ c.freed = 0
    BY DEF NoCall
  <2>2. /\ call' = [call EXCEPT ![q] = c]
        /\ UNCHANGED <<memoryVars, pending, op, buffers>>
        /\ pending[q] = <<>>
    BY <1>2 DEF Enter, Busy, poolVars
  <2> HIDE DEF c
  <2>3. Rest(c, pending[q], buffers[q])
    BY <2>1, <2>2 DEF Rest, ActivePCs
  <2> QED BY <2>2, <2>3, QuietStep
<1>3. CASE \E n \in 1..MaxSegs : Compress(q, n)
  BY <1>2, <1>3 DEF Compress
<1>4. CASE Decompress(q)
  BY <1>2, <1>4 DEF Decompress
<1>5. CASE Cancelled(q)
  <2> DEFINE c == [call[q] EXCEPT !.result = "cancelled"]
  <2>1. c.pc = "idle" /\ c.kind = call[q].kind /\ c.freed = call[q].freed
        /\ call[q].pc = "idle"
    BY <1>1, <1>5 DEF Cancelled, At, Call
  <2>2. /\ call' = [call EXCEPT ![q] = c]
        /\ UNCHANGED <<memoryVars, pending, op, buffers>>
    BY <1>5 DEF Cancelled, poolVars
  <2> HIDE DEF c
  <2>3. Rest(c, pending[q], buffers[q])
    BY <1>1, <2>1 DEF Rest, ActivePCs
  <2> QED BY <2>1, <2>2, <2>3, QuietStep
<1>6. CASE Recycle(q)
  <2> DEFINE c == [call[q] EXCEPT !.pc = "putback", !.result = "none"]
  <2>1. c.pc = "putback" /\ c.kind = call[q].kind /\ c.freed = call[q].freed
        /\ call[q].pc = "idle" /\ buffers[q] # <<>>
    BY <1>1, <1>6 DEF Recycle, At, Call
  <2>2. /\ call' = [call EXCEPT ![q] = c]
        /\ UNCHANGED <<memoryVars, pending, op, buffers>>
    BY <1>6 DEF Recycle, poolVars
  <2> HIDE DEF c
  <2>3. Rest(c, pending[q], buffers[q])
    BY <1>1, <2>1 DEF Rest, ActivePCs
  <2> QED BY <2>1, <2>2, <2>3, QuietStep
<1>7. CASE Complete(q) \/ Stall(q)
  <2>1. /\ call' = [call EXCEPT ![q] = call[q]]
        /\ UNCHANGED <<memoryVars, pending, op, buffers>>
    BY <1>1, <1>7 DEF Complete, Stall, poolVars
  <2> QED BY <1>1, <2>1, QuietStep
<1> QED BY <1>3, <1>4, <1>5, <1>6, <1>7 DEF Invoke

\* A call fails, moves operations to or from the hardware, or ends.
LEMMA QuietWork ==
  ASSUME ZInv, IInv', NEW q \in QueuePairs,
         \/ AssembleFails(q) \/ TakeFails(q)
         \/ Enqueue(q) \/ EnqueueFails(q)
         \/ Dequeue(q) \/ DequeueFails(q)
         \/ OpFails(q) \/ Return(q) \/ ReleaseEnds(q)
  PROVE  ZInv'
<1>1. /\ call[q] \in Call /\ call \in [QueuePairs -> Call]
      /\ Rest(call[q], pending[q], buffers[q])
  BY Zenon DEF ZInv, RestAt, IInv, TypeOK
<1>2. UNCHANGED <<memoryVars, pending, op, buffers>>
  BY DEF AssembleFails, TakeFails, Enqueue, EnqueueFails, Dequeue, DequeueFails,
         OpFails, Return, ReleaseEnds, poolVars
<1>3. CASE \/ AssembleFails(q) \/ TakeFails(q) \/ EnqueueFails(q)
           \/ DequeueFails(q) \/ OpFails(q)
  <2> DEFINE c == Failed(q, call[q])
  <2>1. call' = [call EXCEPT ![q] = c] /\ call[q].pc \in ActivePCs
    BY <1>1, <1>3 DEF AssembleFails, TakeFails, EnqueueFails, DequeueFails, OpFails,
                      Enqueuing, Dequeuing, At, ActivePCs
  <2>2. call[q].kind \in {"compress", "decompress"} /\ call[q].freed = 0
    BY <1>1, <2>1 DEF Rest, ActivePCs
  <2>3. /\ c.freed = 0 /\ c.result = "error" /\ c.kind = call[q].kind
        /\ c.pc \in {"idle", "putback", "release"}
        /\ c.pc = "idle" => c.kind = "decompress"
        /\ c.pc = "putback" => buffers[q] # <<>>
    BY <1>1, <2>2 DEF Failed, Call
  <2> HIDE DEF c
  <2>4. Rest(c, pending[q], buffers[q])
    BY <2>3 DEF Rest, ActivePCs
  <2> QED BY <1>2, <2>1, <2>2, <2>3, <2>4, QuietStep
<1>4. ASSUME NEW c, call' = [call EXCEPT ![q] = c],
             c.freed = call[q].freed, c.kind = call[q].kind,
             call[q].pc \in {"loop", "dequeue", "release"},
             call[q].pc = "release" => pending[q] = <<>>,
             c.pc \in {"loop", "dequeue", "burst", "idle"},
             c.pc = "idle" => pending[q] = <<>>,
             c.pc # "idle" => call[q].pc # "release"
      PROVE  ZInv'
  <2>1. Rest(c, pending[q], buffers[q])
    BY <1>1, <1>4 DEF Rest, ActivePCs
  <2> QED BY <1>2, <1>4, <2>1, QuietStep
<1>5. CASE Enqueue(q)
  <2> DEFINE c == [call[q] EXCEPT !.pc = "dequeue"]
  <2>1. /\ call' = [call EXCEPT ![q] = c] /\ call[q].pc = "loop"
        /\ c.pc = "dequeue" /\ c.freed = call[q].freed /\ c.kind = call[q].kind
    BY <1>1, <1>5 DEF Enqueue, Enqueuing, At, Call
  <2> HIDE DEF c
  <2> QED BY <1>4, <2>1
<1>6. CASE Dequeue(q)
  <2> DEFINE n == NumDequeued(q)
             c == [call[q] EXCEPT !.pc = IF n > 0 THEN "burst" ELSE "loop",
                                  !.burst = SubSeq(queue[q], 1, n)]
  <2>1. /\ call' = [call EXCEPT ![q] = c] /\ call[q].pc \in {"loop", "dequeue"}
        /\ c.pc \in {"loop", "burst"} /\ c.freed = call[q].freed /\ c.kind = call[q].kind
    BY <1>1, <1>6 DEF Dequeue, Dequeuing, At, Call
  <2> HIDE DEF c
  <2> QED BY <1>4, <2>1
<1>7. CASE Return(q)
  <2> DEFINE c == [call[q] EXCEPT !.pc = "idle", !.result = "ok"]
  <2>1. /\ call' = [call EXCEPT ![q] = c] /\ call[q].pc = "loop" /\ pending[q] = <<>>
        /\ c.pc = "idle" /\ c.freed = call[q].freed /\ c.kind = call[q].kind
    BY <1>1, <1>7 DEF Return, At, Call
  <2> HIDE DEF c
  <2> QED BY <1>4, <2>1
<1>8. CASE ReleaseEnds(q)
  <2> DEFINE c == [call[q] EXCEPT !.pc = "idle"]
  <2>1. /\ call' = [call EXCEPT ![q] = c] /\ call[q].pc = "release" /\ pending[q] = <<>>
        /\ c.pc = "idle" /\ c.freed = call[q].freed /\ c.kind = call[q].kind
    BY <1>1, <1>8 DEF ReleaseEnds, At, Call
  <2> HIDE DEF c
  <2> QED BY <1>4, <2>1
<1> QED BY <1>3, <1>5, <1>6, <1>7, <1>8

-----------------------------------------------------------------------------
(* What a queue pair uses, before and after a step *)

\* Every use after a step is a use before it, of the same memzone.
LEMMA Fewer ==
  ASSUME NEW freed, NEW pend, NEW data, NEW bufs, Once(freed, pend, data, bufs),
         NEW freed2, NEW pend2, NEW data2,
         \A k, l \in Nat : Holds(freed2, pend2, data2, k, l) =>
           /\ Holds(freed, pend, data, k, l)
           /\ data2[pend2[k]].dst[l] = data[pend[k]].dst[l]
  PROVE  /\ Once(freed2, pend2, data2, bufs)
         /\ Zones(freed2, pend2, data2, bufs) \subseteq Zones(freed, pend, data, bufs)
BY DEF Once, Zones

\* The operation at the front leaves.
LEMMA Shifted ==
  ASSUME NEW pend \in Seq(Operations), pend # <<>>, Distinct(pend),
         NEW data, NEW data2, SameBut(data, data2, Head(pend)),
         NEW freed
  PROVE  Shift(freed, pend, data, data2)
<1> SUFFICES ASSUME NEW k \in Nat, NEW l \in Nat, Holds(0, Tail(pend), data2, k, l)
             PROVE  /\ k # 0
                    /\ Holds(freed, pend, data, k + 1, l)
                    /\ data2[Tail(pend)[k]].dst[l] = data[pend[k + 1]].dst[l]
  BY DEF Shift
<1>1. /\ DOMAIN Tail(pend) = 1..(Len(pend) - 1) /\ DOMAIN pend = 1..Len(pend)
      /\ Len(pend) \in Nat
      /\ \A i \in 1..(Len(pend) - 1) : Tail(pend)[i] = pend[i + 1]
      /\ Head(pend) = pend[1]
  OBVIOUS
<1>2. k \in 1..(Len(pend) - 1)
  BY <1>1 DEF Holds
<1>3. PICK a \in Nat : /\ a = k + 1 /\ a # 1 /\ a \in DOMAIN pend
                      /\ Tail(pend)[k] = pend[a] /\ 1 \in DOMAIN pend
  <2>1. k + 1 \in Nat /\ k + 1 # 1 /\ k + 1 \in DOMAIN pend /\ 1 \in DOMAIN pend
    BY <1>1, <1>2
  <2> QED BY <1>1, <1>2, <2>1
<1>4. pend[a] # Head(pend) /\ pend[a] \in Operations
  BY <1>1, <1>3 DEF Distinct
<1>5. data2[Tail(pend)[k]] = data[pend[a]]
  BY <1>3, <1>4 DEF SameBut
<1>6. Holds(freed, pend, data, a, l)
  BY <1>3, <1>5 DEF Holds
<1> QED BY <1>2, <1>3, <1>5, <1>6

\* What stays of the pending operations when the one at the front is freed.
LEMMA PopUses ==
  ASSUME NEW freed, NEW pend, NEW data, NEW data2, NEW bufs,
         Shift(freed, pend, data, data2), Once(freed, pend, data, bufs)
  PROVE  /\ Once(0, Tail(pend), data2, bufs)
         /\ Zones(0, Tail(pend), data2, bufs) \subseteq Zones(freed, pend, data, bufs)
<1>1. ASSUME NEW k \in Nat, NEW l \in Nat, Holds(0, Tail(pend), data2, k, l)
      PROVE  \E a \in Nat : /\ a = k + 1
                            /\ Holds(freed, pend, data, a, l)
                            /\ data2[Tail(pend)[k]].dst[l] = data[pend[a]].dst[l]
  <2>1. k + 1 \in Nat
    OBVIOUS
  <2>2. /\ Holds(freed, pend, data, k + 1, l)
        /\ data2[Tail(pend)[k]].dst[l] = data[pend[k + 1]].dst[l]
    BY <1>1, Zenon DEF Shift
  <2> QED BY <2>1, <2>2, Zenon
<1>2. Once(0, Tail(pend), data2, bufs)
  <2>1. ASSUME NEW k \in Nat, NEW l \in Nat, NEW m \in Nat, NEW n \in Nat,
               Holds(0, Tail(pend), data2, k, l), Holds(0, Tail(pend), data2, m, n),
               data2[Tail(pend)[k]].dst[l] = data2[Tail(pend)[m]].dst[n]
        PROVE  k = m /\ l = n
    <3>1. PICK a \in Nat : /\ a = k + 1
                           /\ Holds(freed, pend, data, a, l)
                           /\ data2[Tail(pend)[k]].dst[l] = data[pend[a]].dst[l]
      BY <1>1, <2>1, Zenon
    <3>2. PICK b \in Nat : /\ b = m + 1
                           /\ Holds(freed, pend, data, b, n)
                           /\ data2[Tail(pend)[m]].dst[n] = data[pend[b]].dst[n]
      BY <1>1, <2>1, Zenon
    <3>3. a = b /\ l = n
      <4>1. data[pend[a]].dst[l] = data[pend[b]].dst[n]
        BY <2>1, <3>1, <3>2, Zenon
      <4> QED BY <3>1, <3>2, <4>1, Zenon DEF Once
    <3> QED BY <3>1, <3>2, <3>3
  <2>2. ASSUME NEW i \in DOMAIN bufs, NEW k \in Nat, NEW l \in Nat,
               Holds(0, Tail(pend), data2, k, l)
        PROVE  bufs[i].zone # data2[Tail(pend)[k]].dst[l]
    <3>1. PICK a \in Nat : /\ Holds(freed, pend, data, a, l)
                           /\ data2[Tail(pend)[k]].dst[l] = data[pend[a]].dst[l]
      BY <1>1, <2>2, Zenon
    <3>2. bufs[i].zone # data[pend[a]].dst[l]
      BY <3>1, Zenon DEF Once
    <3> QED BY <3>1, <3>2
  <2>3. \A i, k \in DOMAIN bufs : bufs[i].zone = bufs[k].zone => i = k
    BY Zenon DEF Once
  <2> QED BY <2>1, <2>2, <2>3, Zenon DEF Once
<1>3. Zones(0, Tail(pend), data2, bufs) \subseteq Zones(freed, pend, data, bufs)
  <2> SUFFICES ASSUME NEW z \in Memzones,
                      NEW k \in Nat, NEW l \in Nat, Holds(0, Tail(pend), data2, k, l),
                      data2[Tail(pend)[k]].dst[l] = z
               PROVE  z \in Zones(freed, pend, data, bufs)
    BY Zenon DEF Zones
  <2>1. PICK a \in Nat : /\ Holds(freed, pend, data, a, l)
                         /\ data2[Tail(pend)[k]].dst[l] = data[pend[a]].dst[l]
    BY <1>1, Zenon
  <2>2. data[pend[a]].dst[l] = z
    BY <2>1
  <2> QED BY <2>1, <2>2, Zenon DEF Zones
<1> QED BY <1>2, <1>3, Zenon

\* A successful compression makes buffers of the operation at the front, which
\* leaves.
LEMMA ProduceUses ==
  ASSUME NEW pend, NEW data, NEW data2, NEW bufs \in Seq(Buffer),
         Shift(0, pend, data, data2), Once(0, pend, data, bufs),
         NEW n \in Nat, NEW made \in Seq(Buffer), Len(made) = n,
         \A j \in 1..n : /\ Holds(0, pend, data, 1, j)
                         /\ made[j].zone = data[pend[1]].dst[j]
  PROVE  /\ Once(0, Tail(pend), data2, bufs \o made)
         /\ Zones(0, Tail(pend), data2, bufs \o made) \subseteq Zones(0, pend, data, bufs)
<1> DEFINE all == bufs \o made
           front == data[pend[1]].dst
<1>1. /\ DOMAIN all = 1..(Len(bufs) + n) /\ DOMAIN bufs = 1..Len(bufs) /\ Len(bufs) \in Nat
      /\ \A i \in 1..(Len(bufs) + n) :
           all[i] = IF i <= Len(bufs) THEN bufs[i] ELSE made[i - Len(bufs)]
  OBVIOUS
<1> HIDE DEF all
<1>2. ASSUME NEW i \in DOMAIN all
      PROVE  \/ i \in DOMAIN bufs /\ all[i].zone = bufs[i].zone
             \/ \E j \in Nat : /\ i = Len(bufs) + j
                               /\ Holds(0, pend, data, 1, j)
                               /\ all[i].zone = front[j]
  <2>1. CASE i <= Len(bufs)
    BY <1>1, <2>1
  <2>2. CASE i > Len(bufs)
    <3>1. PICK j \in Nat : j = i - Len(bufs)
      BY <1>1, <2>2
    <3>2. i = Len(bufs) + j /\ j \in 1..n /\ all[i] = made[j]
      BY <1>1, <2>2, <3>1
    <3> QED BY <3>1, <3>2, Zenon
  <2> QED BY <1>1, <2>1, <2>2
<1> HIDE DEF front
<1>3. \A j, k \in Nat : /\ Holds(0, pend, data, 1, j) /\ Holds(0, pend, data, 1, k)
                        /\ front[j] = front[k]
                        => j = k
  BY Zenon DEF Once, front
<1>4. \A i \in DOMAIN bufs : \A j \in Nat :
        Holds(0, pend, data, 1, j) => bufs[i].zone # front[j]
  BY Zenon DEF Once, front
<1>5. Once(0, Tail(pend), data2, bufs)
  BY PopUses, Zenon
<1>6. ASSUME NEW k \in Nat, NEW l \in Nat, Holds(0, Tail(pend), data2, k, l),
             NEW j \in Nat, Holds(0, pend, data, 1, j)
      PROVE  data2[Tail(pend)[k]].dst[l] # front[j]
  <2>1. PICK a \in Nat : a = k + 1
    OBVIOUS
  <2>2. a # 1 /\ Holds(0, pend, data, a, l)
        /\ data2[Tail(pend)[k]].dst[l] = data[pend[a]].dst[l]
    <3>1. k # 0 /\ Holds(0, pend, data, k + 1, l)
          /\ data2[Tail(pend)[k]].dst[l] = data[pend[k + 1]].dst[l]
      BY <1>6, Zenon DEF Shift
    <3>2. k # 0 => a # 1
      BY <2>1
    <3> QED BY <2>1, <3>1, <3>2, Zenon
  <2>3. data[pend[a]].dst[l] # data[pend[1]].dst[j]
    BY <1>6, <2>2, Zenon DEF Once
  <2> QED BY <2>2, <2>3 DEF front
<1>7. ASSUME NEW i \in DOMAIN all, NEW k \in DOMAIN all, all[i].zone = all[k].zone
      PROVE  i = k
  <2>1. CASE i \in DOMAIN bufs /\ all[i].zone = bufs[i].zone
    <3>1. k \in DOMAIN bufs /\ all[k].zone = bufs[k].zone
      <4> SUFFICES ASSUME NEW j \in Nat, Holds(0, pend, data, 1, j), all[k].zone = front[j]
                   PROVE  FALSE
        BY <1>2, Zenon
      <4>1. bufs[i].zone # front[j]
        BY <1>4, <2>1, Zenon
      <4> QED BY <1>7, <2>1, <4>1, Zenon
    <3> QED BY <1>7, <2>1, <3>1, Zenon DEF Once
  <2>2. ASSUME NEW j \in Nat, i = Len(bufs) + j,
               Holds(0, pend, data, 1, j), all[i].zone = front[j]
        PROVE  i = k
    <3>1. CASE k \in DOMAIN bufs /\ all[k].zone = bufs[k].zone
      <4>1. bufs[k].zone # front[j]
        BY <1>4, <2>2, <3>1, Zenon
      <4> QED BY <1>7, <2>2, <3>1, <4>1, Zenon
    <3>2. ASSUME NEW m \in Nat, k = Len(bufs) + m,
                 Holds(0, pend, data, 1, m), all[k].zone = front[m]
          PROVE  i = k
      <4>1. j = m
        BY <1>3, <1>7, <2>2, <3>2, Zenon
      <4> QED BY <2>2, <3>2, <4>1, Zenon
    <3> QED BY <1>2, <3>1, <3>2, Zenon
  <2> QED BY <1>2, <2>1, <2>2, Zenon
<1>8. ASSUME NEW i \in DOMAIN all, NEW k \in Nat, NEW l \in Nat,
             Holds(0, Tail(pend), data2, k, l)
      PROVE  all[i].zone # data2[Tail(pend)[k]].dst[l]
  <2>1. CASE i \in DOMAIN bufs /\ all[i].zone = bufs[i].zone
    <3>1. bufs[i].zone # data2[Tail(pend)[k]].dst[l]
      <4>1. \A m \in DOMAIN bufs : \A g, j \in Nat :
              Holds(0, Tail(pend), data2, g, j) =>
                bufs[m].zone # data2[Tail(pend)[g]].dst[j]
        BY <1>5, Zenon DEF Once
      <4> QED BY <1>8, <2>1, <4>1, Zenon
    <3> QED BY <2>1, <3>1
  <2>2. ASSUME NEW j \in Nat, Holds(0, pend, data, 1, j), all[i].zone = front[j]
        PROVE  all[i].zone # data2[Tail(pend)[k]].dst[l]
    <3>1. data2[Tail(pend)[k]].dst[l] # front[j]
      BY <1>6, <1>8, <2>2, Zenon
    <3> QED BY <2>2, <3>1
  <2> QED BY <1>2, <2>1, <2>2, Zenon
<1>9. Once(0, Tail(pend), data2, all)
  <2>1. \A k, l, m, j \in Nat :
          /\ Holds(0, Tail(pend), data2, k, l) /\ Holds(0, Tail(pend), data2, m, j)
          /\ data2[Tail(pend)[k]].dst[l] = data2[Tail(pend)[m]].dst[j]
          => k = m /\ l = j
    BY <1>5, Zenon DEF Once
  <2> QED BY <1>7, <1>8, <2>1, Zenon DEF Once
<1>10. Zones(0, Tail(pend), data2, all) \subseteq Zones(0, pend, data, bufs)
  <2> SUFFICES ASSUME NEW z \in Zones(0, Tail(pend), data2, all)
               PROVE  z \in Zones(0, pend, data, bufs)
    OBVIOUS
  <2>1. /\ z \in Memzones
        /\ \/ \E i \in DOMAIN all : all[i].zone = z
           \/ \E k, l \in Nat : /\ Holds(0, Tail(pend), data2, k, l)
                                /\ data2[Tail(pend)[k]].dst[l] = z
    BY Zenon DEF Zones
  <2>2. ASSUME NEW i \in DOMAIN all, all[i].zone = z
        PROVE  z \in Zones(0, pend, data, bufs)
    <3>1. CASE i \in DOMAIN bufs /\ all[i].zone = bufs[i].zone
      BY <2>1, <2>2, <3>1, Zenon DEF Zones
    <3>2. ASSUME NEW j \in Nat, Holds(0, pend, data, 1, j), all[i].zone = front[j]
          PROVE  z \in Zones(0, pend, data, bufs)
      <4>1. data[pend[1]].dst[j] = z /\ 1 \in Nat
        BY <2>2, <3>2 DEF front
      <4> QED BY <2>1, <3>2, <4>1, Zenon DEF Zones
    <3> QED BY <1>2, <3>1, <3>2, Zenon
  <2>3. ASSUME NEW k \in Nat, NEW l \in Nat, Holds(0, Tail(pend), data2, k, l),
               data2[Tail(pend)[k]].dst[l] = z
        PROVE  z \in Zones(0, pend, data, bufs)
    <3>1. z \in Zones(0, Tail(pend), data2, bufs)
      BY <2>1, <2>3, Zenon DEF Zones
    <3>2. Zones(0, Tail(pend), data2, bufs) \subseteq Zones(0, pend, data, bufs)
      BY PopUses, Zenon
    <3> QED BY <3>1, <3>2
  <2> QED BY <2>1, <2>2, <2>3, Zenon
<1> QED BY <1>9, <1>10 DEF all

\* An operation gets one memzone more, which the queue pair did not use.
LEMMA GrowUses ==
  ASSUME NEW freed, NEW pend \in Seq(Operations), Distinct(pend),
         NEW data, NEW data2, NEW o, SameBut(data, data2, o),
         NEW z \in Memzones, data[o].dst \in Seq(Memzones),
         data2[o].dst = Append(data[o].dst, z),
         NEW bufs, Once(freed, pend, data, bufs), z \notin Zones(freed, pend, data, bufs)
  PROVE  /\ Once(freed, pend, data2, bufs)
         /\ Zones(freed, pend, data2, bufs) \subseteq Zones(freed, pend, data, bufs) \cup {z}
<1>1. ASSUME NEW k \in Nat, NEW l \in Nat, Holds(freed, pend, data2, k, l)
      PROVE  \/ /\ Holds(freed, pend, data, k, l)
                /\ data2[pend[k]].dst[l] = data[pend[k]].dst[l]
             \/ /\ k \in DOMAIN pend /\ pend[k] = o /\ l = Len(data[o].dst) + 1
                /\ data2[pend[k]].dst[l] = z
  <2>1. k \in DOMAIN pend /\ l \in DOMAIN data2[pend[k]].dst /\ (k = 1 => l > freed)
    BY <1>1, Zenon DEF Holds
  <2>2. pend[k] \in Operations
    BY <2>1
  <2>3. CASE pend[k] # o
    <3>1. data2[pend[k]] = data[pend[k]]
      BY <2>2, <2>3, Zenon DEF SameBut
    <3> QED BY <2>1, <3>1, Zenon DEF Holds
  <2>4. CASE pend[k] = o
    <3> DEFINE dst == data[o].dst
    <3>1. dst \in Seq(Memzones) /\ l \in DOMAIN Append(dst, z)
          /\ data2[pend[k]].dst = Append(dst, z) /\ data[pend[k]].dst = dst
      BY <2>1, <2>4
    <3> HIDE DEF dst
    <3>2. \/ l \in DOMAIN dst /\ Append(dst, z)[l] = dst[l]
          \/ l = Len(dst) + 1 /\ Append(dst, z)[l] = z
      BY <3>1
    <3>3. CASE l \in DOMAIN dst /\ Append(dst, z)[l] = dst[l]
      <4>1. Holds(freed, pend, data, k, l)
        BY <2>1, <3>1, <3>3, Zenon DEF Holds
      <4> QED BY <3>1, <3>3, <4>1, Zenon
    <3>4. CASE l = Len(dst) + 1 /\ Append(dst, z)[l] = z
      BY <2>1, <2>4, <3>1, <3>4, Zenon DEF dst
    <3> QED BY <3>2, <3>3, <3>4
  <2> QED BY <2>3, <2>4
<1>2. \A k, l \in Nat : Holds(freed, pend, data, k, l) => data[pend[k]].dst[l] # z
  BY Zenon DEF Zones
<1>3. \A i \in DOMAIN bufs : bufs[i].zone # z
  BY Zenon DEF Zones
<1>4. ASSUME NEW k \in Nat, NEW l \in Nat, NEW m \in Nat, NEW n \in Nat,
             Holds(freed, pend, data2, k, l), Holds(freed, pend, data2, m, n),
             data2[pend[k]].dst[l] = data2[pend[m]].dst[n]
      PROVE  k = m /\ l = n
  <2>1. CASE /\ Holds(freed, pend, data, k, l)
             /\ data2[pend[k]].dst[l] = data[pend[k]].dst[l]
    <3>1. data2[pend[m]].dst[n] # z
      <4>1. data[pend[k]].dst[l] # z
        BY <1>2, <2>1, Zenon
      <4> QED BY <1>4, <2>1, <4>1
    <3>2. /\ Holds(freed, pend, data, m, n)
          /\ data2[pend[m]].dst[n] = data[pend[m]].dst[n]
      BY <1>1, <1>4, <3>1, Zenon
    <3>3. data[pend[k]].dst[l] = data[pend[m]].dst[n]
      BY <1>4, <2>1, <3>2
    <3> QED BY <2>1, <3>2, <3>3, Zenon DEF Once
  <2>2. CASE /\ k \in DOMAIN pend /\ pend[k] = o /\ l = Len(data[o].dst) + 1
             /\ data2[pend[k]].dst[l] = z
    <3>1. data2[pend[m]].dst[n] = z
      BY <1>4, <2>2
    <3>2. m \in DOMAIN pend /\ pend[m] = o /\ n = Len(data[o].dst) + 1
      <4>1. CASE /\ Holds(freed, pend, data, m, n)
                 /\ data2[pend[m]].dst[n] = data[pend[m]].dst[n]
        <5>1. data[pend[m]].dst[n] # z
          BY <1>2, <4>1, Zenon
        <5> QED BY <3>1, <4>1, <5>1
      <4> QED BY <1>1, <1>4, <4>1, Zenon
    <3>3. k = m
      BY <2>2, <3>2, Zenon DEF Distinct
    <3> QED BY <2>2, <3>2, <3>3
  <2> QED BY <1>1, <1>4, <2>1, <2>2, Zenon
<1>5. ASSUME NEW i \in DOMAIN bufs, NEW k \in Nat, NEW l \in Nat,
             Holds(freed, pend, data2, k, l)
      PROVE  bufs[i].zone # data2[pend[k]].dst[l]
  <2>1. CASE /\ Holds(freed, pend, data, k, l)
             /\ data2[pend[k]].dst[l] = data[pend[k]].dst[l]
    <3>1. bufs[i].zone # data[pend[k]].dst[l]
      BY <2>1, Zenon DEF Once
    <3> QED BY <2>1, <3>1
  <2>2. CASE data2[pend[k]].dst[l] = z
    BY <1>3, <2>2
  <2> QED BY <1>1, <1>5, <2>1, <2>2, Zenon
<1>6. Once(freed, pend, data2, bufs)
  <2>1. \A i, k \in DOMAIN bufs : bufs[i].zone = bufs[k].zone => i = k
    BY Zenon DEF Once
  <2> QED BY <1>4, <1>5, <2>1, Zenon DEF Once
<1>7. Zones(freed, pend, data2, bufs) \subseteq Zones(freed, pend, data, bufs) \cup {z}
  <2> SUFFICES ASSUME NEW y \in Zones(freed, pend, data2, bufs), y # z
               PROVE  y \in Zones(freed, pend, data, bufs)
    OBVIOUS
  <2>1. CASE \E i \in DOMAIN bufs : bufs[i].zone = y
    BY <2>1, Zenon DEF Zones
  <2>2. ASSUME NEW k \in Nat, NEW l \in Nat, Holds(freed, pend, data2, k, l),
               data2[pend[k]].dst[l] = y
        PROVE  y \in Zones(freed, pend, data, bufs)
    <3>1. /\ Holds(freed, pend, data, k, l)
          /\ data2[pend[k]].dst[l] = data[pend[k]].dst[l]
      BY <1>1, <2>2, Zenon
    <3>2. data[pend[k]].dst[l] = y /\ y \in Memzones
      BY <2>2, <3>1 DEF Zones
    <3> QED BY <3>1, <3>2, Zenon DEF Zones
  <2> QED BY <2>1, <2>2, Zenon DEF Zones
<1> QED BY <1>6, <1>7

\* New operations without memzones join.
LEMMA AppendUses ==
  ASSUME NEW freed, NEW pend \in Seq(Operations), NEW b \in Seq(Operations),
         Elements(pend) \cap Elements(b) = {},
         NEW data, NEW data2,
         \A o \in Operations \ Elements(b) : data2[o] = data[o],
         \A o \in Elements(b) : data2[o].dst = <<>>,
         NEW bufs, Once(freed, pend, data, bufs)
  PROVE  /\ Once(freed, pend \o b, data2, bufs)
         /\ Zones(freed, pend \o b, data2, bufs) \subseteq Zones(freed, pend, data, bufs)
<1> DEFINE all == pend \o b
<1>1. /\ DOMAIN all = 1..(Len(pend) + Len(b)) /\ Len(pend) \in Nat /\ Len(b) \in Nat
      /\ DOMAIN pend = 1..Len(pend) /\ DOMAIN b = 1..Len(b)
      /\ \A k \in 1..(Len(pend) + Len(b)) :
           all[k] = IF k <= Len(pend) THEN pend[k] ELSE b[k - Len(pend)]
  OBVIOUS
<1> HIDE DEF all
<1>2. ASSUME NEW k \in Nat, NEW l \in Nat, Holds(freed, all, data2, k, l)
      PROVE  /\ Holds(freed, pend, data, k, l)
             /\ data2[all[k]].dst[l] = data[pend[k]].dst[l]
  <2>1. k \in DOMAIN all /\ l \in DOMAIN data2[all[k]].dst /\ (k = 1 => l > freed)
    BY <1>2, Zenon DEF Holds
  <2>2. k \in DOMAIN pend /\ all[k] = pend[k]
    <3> SUFFICES ASSUME ~(k <= Len(pend)) PROVE FALSE
      BY <1>1, <2>1
    <3>1. PICK j \in DOMAIN b : all[k] = b[j]
      <4>1. k - Len(pend) \in DOMAIN b /\ all[k] = b[k - Len(pend)]
        BY <1>1, <2>1
      <4> QED BY <4>1
    <3>2. all[k] \in Elements(b)
      BY <3>1 DEF Elements
    <3>3. data2[all[k]].dst = <<>>
      BY <3>2, Zenon
    <3>4. DOMAIN data2[all[k]].dst = {}
      BY <3>3
    <3> QED BY <2>1, <3>4
  <2>3. pend[k] \in Operations \ Elements(b)
    <3>1. pend[k] \in Operations /\ pend[k] \in Elements(pend)
      BY <2>2 DEF Elements
    <3> QED BY <3>1
  <2>4. data2[all[k]] = data[pend[k]]
    <3>1. data2[pend[k]] = data[pend[k]]
      BY <2>3, Zenon
    <3> QED BY <2>2, <3>1
  <2> QED BY <2>1, <2>2, <2>4, Zenon DEF Holds
<1>3. /\ Once(freed, all, data2, bufs)
      /\ Zones(freed, all, data2, bufs) \subseteq Zones(freed, pend, data, bufs)
  BY <1>2, Fewer, Zenon
<1> QED BY <1>3 DEF all

\* less is bufs without its last buffer, which has memzone z.
ButLast(less, bufs, z) ==
  less = SubSeq(bufs, 1, Len(bufs) - 1) /\ z = bufs[Len(bufs)].zone

\* Recycle puts the last buffer back.
LEMMA LessUses ==
  ASSUME NEW freed, NEW pend, NEW data, NEW bufs \in Seq(Buffer), bufs # <<>>,
         Once(freed, pend, data, bufs),
         NEW less, NEW z, ButLast(less, bufs, z)
  PROVE  /\ z \in Zones(freed, pend, data, bufs)
         /\ Once(freed, pend, data, less)
         /\ Zones(freed, pend, data, less) \subseteq Zones(freed, pend, data, bufs) \ {z}
<1> DEFINE n == Len(bufs)
<1>0. less = SubSeq(bufs, 1, n - 1) /\ z = bufs[n].zone
  BY DEF ButLast
<1>1. /\ n \in DOMAIN bufs /\ bufs[n].zone \in Memzones
      /\ \A i \in DOMAIN less : i \in DOMAIN bufs /\ i # n /\ less[i] = bufs[i]
  <2>1. n # 0 /\ DOMAIN bufs = 1..n
    OBVIOUS
  <2>2. DOMAIN less = 1..(n - 1) /\ \A i \in 1..(n - 1) : less[i] = bufs[i]
    BY <1>0, <2>1
  <2>3. bufs[n] \in Buffer
    BY <2>1
  <2>4. bufs[n].zone \in Memzones
    BY <2>3 DEF Buffer
  <2> QED BY <2>1, <2>2, <2>4
<1> HIDE DEF n
<1>2. Once(freed, pend, data, less)
  <2>1. \A i, k \in DOMAIN less : less[i].zone = less[k].zone => i = k
    BY <1>1 DEF Once
  <2>2. \A i \in DOMAIN less : \A k, l \in Nat :
          Holds(freed, pend, data, k, l) => less[i].zone # data[pend[k]].dst[l]
    <3> SUFFICES ASSUME NEW i \in DOMAIN less, NEW k \in Nat, NEW l \in Nat,
                        Holds(freed, pend, data, k, l)
                 PROVE  less[i].zone # data[pend[k]].dst[l]
      OBVIOUS
    <3>1. bufs[i].zone # data[pend[k]].dst[l]
      BY <1>1, Zenon DEF Once
    <3> QED BY <1>1, <3>1
  <2>3. \A k, l, m, j \in Nat :
          /\ Holds(freed, pend, data, k, l) /\ Holds(freed, pend, data, m, j)
          /\ data[pend[k]].dst[l] = data[pend[m]].dst[j]
          => k = m /\ l = j
    BY Zenon DEF Once
  <2> QED BY <2>1, <2>2, <2>3, Zenon DEF Once
<1>3. ASSUME NEW y \in Zones(freed, pend, data, less)
      PROVE  y \in Zones(freed, pend, data, bufs) /\ y # bufs[n].zone
  <2>1. y \in Memzones
    BY DEF Zones
  <2>2. ASSUME NEW i \in DOMAIN less, less[i].zone = y
        PROVE  y \in Zones(freed, pend, data, bufs) /\ y # bufs[n].zone
    <3>1. i \in DOMAIN bufs /\ i # n /\ bufs[i].zone = y
      BY <1>1, <2>2
    <3>2. y # bufs[n].zone
      BY <1>1, <3>1, Zenon DEF Once
    <3> QED BY <2>1, <3>1, <3>2, Zenon DEF Zones
  <2>3. ASSUME NEW k \in Nat, NEW l \in Nat, Holds(freed, pend, data, k, l),
               data[pend[k]].dst[l] = y
        PROVE  y \in Zones(freed, pend, data, bufs) /\ y # bufs[n].zone
    <3>1. bufs[n].zone # data[pend[k]].dst[l]
      BY <1>1, <2>3, Zenon DEF Once
    <3>2. y \in Zones(freed, pend, data, bufs)
      BY <2>1, <2>3, Zenon DEF Zones
    <3> QED BY <2>3, <3>1, <3>2
  <2> QED BY <2>2, <2>3, Zenon DEF Zones
<1>4. z \in Zones(freed, pend, data, bufs)
  BY <1>0, <1>1, Zenon DEF Zones
<1> QED BY <1>0, <1>2, <1>3, <1>4

\* Release puts the next memzone of the operation at the front back.
LEMMA FreedUses ==
  ASSUME NEW freed \in Nat, NEW pend \in Seq(Operations), pend # <<>>, NEW data, NEW bufs,
         data[Head(pend)].dst \in Seq(Memzones),
         NEW i \in Nat, i = freed + 1, i <= Len(data[Head(pend)].dst),
         NEW z, z = data[Head(pend)].dst[i],
         Once(freed, pend, data, bufs)
  PROVE  /\ z \in Zones(freed, pend, data, bufs)
         /\ Once(i, pend, data, bufs)
         /\ Zones(i, pend, data, bufs) \subseteq Zones(freed, pend, data, bufs) \ {z}
<1>1. ASSUME NEW k \in Nat, NEW l \in Nat, Holds(i, pend, data, k, l)
      PROVE  Holds(freed, pend, data, k, l) /\ (k = 1 => l # i)
  <2>1. l > i => l > freed /\ l # i
    OBVIOUS
  <2> QED BY <1>1, <2>1, Zenon DEF Holds
<1>2. /\ Once(i, pend, data, bufs)
      /\ Zones(i, pend, data, bufs) \subseteq Zones(freed, pend, data, bufs)
  BY <1>1, Fewer, Zenon
<1>3. Holds(freed, pend, data, 1, i) /\ data[pend[1]].dst[i] = z /\ z \in Memzones
  <2> DEFINE dst == data[Head(pend)].dst
  <2>1. 1 \in DOMAIN pend /\ Head(pend) = pend[1]
    OBVIOUS
  <2>2. i \in DOMAIN dst /\ dst[i] \in Memzones /\ i > freed
    <3>1. dst \in Seq(Memzones) /\ i \in 1..Len(dst) /\ i > freed
      OBVIOUS
    <3> HIDE DEF dst
    <3> QED BY <3>1
  <2> QED BY <2>1, <2>2 DEF Holds
<1>4. z \in Zones(freed, pend, data, bufs)
  <2>1. 1 \in Nat
    OBVIOUS
  <2> QED BY <1>3, <2>1, Zenon DEF Zones
<1>5. z \notin Zones(i, pend, data, bufs)
  <2> SUFFICES ASSUME z \in Zones(i, pend, data, bufs) PROVE FALSE
    OBVIOUS
  <2>1. CASE \E m \in DOMAIN bufs : bufs[m].zone = z
    <3>1. PICK m \in DOMAIN bufs : bufs[m].zone = z
      BY <2>1
    <3>2. bufs[m].zone # data[pend[1]].dst[i]
      <4>1. \A l \in DOMAIN bufs : \A k, j \in Nat :
              Holds(freed, pend, data, k, j) => bufs[l].zone # data[pend[k]].dst[j]
        BY Zenon DEF Once
      <4>2. 1 \in Nat
        OBVIOUS
      <4> QED BY <1>3, <4>1, <4>2, Zenon
    <3> QED BY <1>3, <3>1, <3>2
  <2>2. ASSUME NEW k \in Nat, NEW l \in Nat, Holds(i, pend, data, k, l),
               data[pend[k]].dst[l] = z
        PROVE  FALSE
    <3>1. Holds(freed, pend, data, k, l) /\ (k = 1 => l # i)
      BY <1>1, <2>2, Zenon
    <3>2. data[pend[k]].dst[l] = data[pend[1]].dst[i] /\ 1 \in Nat
      BY <1>3, <2>2
    <3>3. k = 1 /\ l = i
      BY <1>3, <3>1, <3>2, Zenon DEF Once
    <3> QED BY <3>1, <3>3
  <2> QED BY <2>1, <2>2, Zenon DEF Zones
<1> QED BY <1>2, <1>4, <1>5

-----------------------------------------------------------------------------
(* Steps that touch memzones *)

\* A step of q that leaves the stock alone and uses no other memzones.
LEMMA KeepStep ==
  ASSUME ZInv, IInv', NEW q \in QueuePairs, Others(q),
         UNCHANGED <<reserved, pool, occupied>>,
         RestAt(q)', OnceAt(q)', ZonesOf(q)' \subseteq ZonesOf(q)
  PROVE  ZInv'
<1>1. Stock' /\ occupied' = occupied
  BY SameStock, Zenon DEF ZInv
<1>2. ZonesOf(q) \subseteq occupied
  BY Zenon DEF ZInv
<1>3. /\ {} \cap occupied = {} /\ ZonesOf(q)' \subseteq ZonesOf(q) \cup {}
      /\ ZonesOf(q)' \subseteq occupied' /\ occupied \ ZonesOf(q) \subseteq occupied'
  BY <1>1, <1>2
<1> QED BY <1>1, <1>3, ZFrame, Zenon

\* A step of q that puts back one of its memzones and uses it no more.
LEMMA PutStep ==
  ASSUME ZInv, IInv', NEW q \in QueuePairs, Others(q), NEW z \in ZonesOf(q), PutZone(q, z),
         RestAt(q)', OnceAt(q)', ZonesOf(q)' \subseteq ZonesOf(q) \ {z}
  PROVE  ZInv'
<1>1. Stock' /\ occupied \ {z} \subseteq occupied' /\ occupied' \subseteq occupied
  <2>1. Stock /\ IInv
    BY Zenon DEF ZInv
  <2>2. pool \in Seq(Memzones) /\ occupied \subseteq Memzones
    BY <2>1 DEF IInv, TypeOK
  <2>3. CASE DM!Put(z)
    <3>1. Stock' /\ occupied' = occupied \ {z}
      BY <2>1, <2>2, <2>3, PutStock, Zenon
    <3> QED BY <3>1
  <2>4. CASE DM!PutMisses
    <3>1. UNCHANGED <<reserved, pool, occupied>>
      BY <2>4 DEF DM!PutMisses, DM!vars
    <3> QED BY <2>1, <3>1, SameStock
  <2> QED BY <2>3, <2>4 DEF PutZone
<1>2. ZonesOf(q) \subseteq occupied
  BY Zenon DEF ZInv
<1>3. /\ {} \cap occupied = {} /\ ZonesOf(q)' \subseteq ZonesOf(q) \cup {}
      /\ ZonesOf(q)' \subseteq occupied' /\ occupied \ ZonesOf(q) \subseteq occupied'
  BY <1>1, <1>2
<1> QED BY <1>1, <1>3, ZFrame, Zenon

\* A step of q that takes a memzone.
LEMMA TakeStep ==
  ASSUME ZInv, IInv', NEW q \in QueuePairs, Others(q), NEW z \in Memzones, DM!Take(z),
         RestAt(q)', OnceAt(q)', ZonesOf(q)' \subseteq ZonesOf(q) \cup {z}
  PROVE  ZInv'
<1>1. Stock' /\ z \notin occupied /\ occupied' = occupied \cup {z}
  <2>1. Stock /\ IInv
    BY Zenon DEF ZInv
  <2>2. pool \in Seq(Memzones)
    BY <2>1 DEF IInv, TypeOK
  <2> QED BY <2>1, <2>2, TakeStock, Zenon
<1>2. ZonesOf(q) \subseteq occupied
  BY Zenon DEF ZInv
<1>3. /\ {z} \cap occupied = {} /\ ZonesOf(q)' \subseteq occupied'
      /\ occupied \ ZonesOf(q) \subseteq occupied'
  BY <1>1, <1>2
<1> QED BY <1>1, <1>3, ZFrame, Zenon

\* What the invariant says of one queue pair.
LEMMA AtOne ==
  ASSUME ZInv, NEW q \in QueuePairs
  PROVE  /\ IInv
         /\ call[q] \in Call /\ pending[q] \in Seq(Operations)
         /\ buffers[q] \in Seq(Buffer) /\ op[q] \in [Operations -> Operation]
         /\ Distinct(pending[q]) /\ Elements(pending[q]) \cap freeOps[q] = {}
         /\ freeOps[q] \in SUBSET Operations
         /\ Rest(call[q], pending[q], buffers[q])
         /\ Once(call[q].freed, pending[q], op[q], buffers[q])
<1>1. IInv /\ RestAt(q) /\ OnceAt(q)
  BY Zenon DEF ZInv
<1>2. Rest(call[q], pending[q], buffers[q])
      /\ Once(call[q].freed, pending[q], op[q], buffers[q])
  BY <1>1, Zenon DEF RestAt, OnceAt
<1>3. /\ call[q] \in Call /\ pending[q] \in Seq(Operations)
      /\ buffers[q] \in Seq(Buffer) /\ op[q] \in [Operations -> Operation]
      /\ Distinct(pending[q]) /\ Elements(pending[q]) \cap freeOps[q] = {}
      /\ freeOps[q] \in SUBSET Operations
  BY <1>1, Localize DEF QType, QInv, QExclusive
<1> QED BY <1>1, <1>2, <1>3

\* A turn of Recycle's loop.
LEMMA PutBackZones ==
  ASSUME ZInv, IInv', NEW q \in QueuePairs, PutBack(q)
  PROVE  ZInv'
<1>1. PICK freed, pend, data, bufs :
        freed = call[q].freed /\ pend = pending[q] /\ data = op[q] /\ bufs = buffers[q]
  OBVIOUS
<1>2. /\ IInv /\ call[q] \in Call /\ bufs \in Seq(Buffer) /\ call[q].pc = "putback"
      /\ Rest(call[q], pend, bufs) /\ Once(freed, pend, data, bufs)
  BY <1>1, AtOne DEF PutBack, At
<1>3. bufs # <<>>
  BY <1>2 DEF Rest
<1> PICK n \in Nat : n = Len(bufs)
  <2>1. Len(bufs) \in Nat
    BY <1>2
  <2> QED BY <2>1, Zenon
<1>4. PICK less, z :
        n = Len(bufs) /\ less = SubSeq(bufs, 1, n - 1) /\ z = bufs[n].zone
  OBVIOUS
<1> n > 1 => less # <<>>
  <2> SUFFICES ASSUME n > 1 PROVE less # <<>>
    OBVIOUS
  <2>1. n - 1 \in Nat /\ n - 1 # 0
    OBVIOUS
  <2>2. Len(less) = n - 1
    BY <1>2, <1>4, <2>1
  <2> QED BY <2>1, <2>2
<1>5. PICK c : /\ call' = [call EXCEPT ![q] = c]
               /\ c.freed = freed /\ c.kind = call[q].kind
               /\ c.result = call[q].result
               /\ \/ c.pc = "putback" /\ n > 1
                  \/ c.pc = (IF call[q].result = "error" THEN "release" ELSE "idle")
  <2>1. CASE n > 1
    <3>1. call' = [call EXCEPT ![q] = call[q]]
      BY <1>1, <1>2, <1>4, <2>1 DEF PutBack, IInv, TypeOK
    <3> QED BY <1>1, <1>2, <2>1, <3>1
  <2>2. CASE ~(n > 1)
    <3> DEFINE c == [call[q] EXCEPT !.pc = IF call[q].result = "error"
                                             THEN "release" ELSE "idle"]
    <3>1. call' = [call EXCEPT ![q] = c]
      BY <1>1, <1>4, <2>2 DEF PutBack
    <3>2. /\ c.freed = freed /\ c.kind = call[q].kind /\ c.result = call[q].result
          /\ c.pc = (IF call[q].result = "error" THEN "release" ELSE "idle")
      BY <1>1, <1>2 DEF Call
    <3> HIDE DEF c
    <3> QED BY <3>1, <3>2
  <2> QED BY <2>1, <2>2
<1>6. /\ PutZone(q, z) /\ buffers' = [buffers EXCEPT ![q] = less]
      /\ UNCHANGED <<pending, op>>
  BY <1>1, <1>4 DEF PutBack, poolVars
<1>7. call'[q] = c /\ buffers'[q] = less /\ pending'[q] = pend /\ op'[q] = data /\ Others(q)
  BY <1>1, <1>2, <1>5, <1>6 DEF IInv, TypeOK, Others
<1>8. /\ z \in Zones(freed, pend, data, bufs)
      /\ Once(freed, pend, data, less)
      /\ Zones(freed, pend, data, less) \subseteq Zones(freed, pend, data, bufs) \ {z}
  <2>1. ButLast(less, bufs, z)
    BY <1>4 DEF ButLast
  <2> QED BY <1>2, <1>3, <2>1, LessUses, Zenon
<1>9. Rest(c, pend, less)
  BY <1>1, <1>2, <1>4, <1>5 DEF Rest, ActivePCs
<1>10. RestAt(q)' /\ OnceAt(q)' /\ z \in ZonesOf(q) /\ ZonesOf(q)' \subseteq ZonesOf(q) \ {z}
  BY <1>1, <1>5, <1>7, <1>8, <1>9, Zenon DEF RestAt, OnceAt, ZonesOf
<1> QED BY <1>6, <1>7, <1>10, PutStep, Zenon

\* Release putting one memzone back.
LEMMA ReleaseDstZones ==
  ASSUME ZInv, IInv', NEW q \in QueuePairs, ReleaseDst(q)
  PROVE  ZInv'
<1>1. PICK freed, pend, data, bufs :
        freed = call[q].freed /\ pend = pending[q] /\ data = op[q] /\ bufs = buffers[q]
  OBVIOUS
<1>2. /\ IInv /\ call[q] \in Call /\ pend \in Seq(Operations) /\ pend # <<>>
      /\ data \in [Operations -> Operation] /\ call[q].pc = "release"
      /\ Rest(call[q], pend, bufs) /\ Once(freed, pend, data, bufs)
  BY <1>1, AtOne DEF ReleaseDst, At
<1>3. freed \in Nat /\ data[Head(pend)].dst \in Seq(Memzones)
  <2>1. freed \in Nat /\ Head(pend) \in Operations
    BY <1>1, <1>2 DEF Call
  <2>2. data[Head(pend)] \in Operation
    BY <1>2, <2>1
  <2> QED BY <2>1, <2>2 DEF Operation
<1> PICK i \in Nat : i = freed + 1
  BY <1>3
<1>4. PICK z : i = freed + 1 /\ z = data[Head(pend)].dst[i]
  OBVIOUS
<1>5. PICK c : /\ call' = [call EXCEPT ![q] = c]
               /\ c.freed = i /\ c.pc = "release" /\ c.kind = call[q].kind
  <2> DEFINE c == [call[q] EXCEPT !.freed = i]
  <2>1. call' = [call EXCEPT ![q] = c]
    BY <1>1, <1>4 DEF ReleaseDst
  <2>2. c.freed = i /\ c.pc = "release" /\ c.kind = call[q].kind
    BY <1>2 DEF Call
  <2> HIDE DEF c
  <2> QED BY <2>1, <2>2
<1>6. /\ i <= Len(data[Head(pend)].dst) /\ PutZone(q, z)
      /\ UNCHANGED <<pending, op, buffers>>
  BY <1>1, <1>4 DEF ReleaseDst
<1>7. call'[q] = c /\ buffers'[q] = bufs /\ pending'[q] = pend /\ op'[q] = data /\ Others(q)
  BY <1>1, <1>2, <1>5, <1>6 DEF IInv, TypeOK, Others
<1>8. /\ z \in Zones(freed, pend, data, bufs)
      /\ Once(i, pend, data, bufs)
      /\ Zones(i, pend, data, bufs) \subseteq Zones(freed, pend, data, bufs) \ {z}
  BY <1>2, <1>3, <1>4, <1>6, FreedUses
<1>9. Rest(c, pend, bufs)
  BY <1>2, <1>5 DEF Rest, ActivePCs
<1>10. RestAt(q)' /\ OnceAt(q)' /\ z \in ZonesOf(q) /\ ZonesOf(q)' \subseteq ZonesOf(q) \ {z}
  BY <1>1, <1>5, <1>7, <1>8, <1>9, Zenon DEF RestAt, OnceAt, ZonesOf
<1> QED BY <1>6, <1>7, <1>10, PutStep, Zenon

\* Release freeing the operation at the front, all of whose memzones are back.
LEMMA ReleaseOpZones ==
  ASSUME ZInv, IInv', NEW q \in QueuePairs, ReleaseOp(q)
  PROVE  ZInv'
<1>1. PICK freed, pend, data, bufs :
        freed = call[q].freed /\ pend = pending[q] /\ data = op[q] /\ bufs = buffers[q]
  OBVIOUS
<1>2. /\ IInv /\ call[q] \in Call /\ pend \in Seq(Operations) /\ pend # <<>>
      /\ Distinct(pend) /\ call[q].pc = "release"
      /\ data \in [Operations -> Operation]
      /\ Rest(call[q], pend, bufs) /\ Once(freed, pend, data, bufs)
  BY <1>1, AtOne DEF ReleaseOp, At
<1>3. PICK c : call' = [call EXCEPT ![q] = c] /\ c.freed = 0 /\ c.pc = "release"
               /\ c.kind = call[q].kind
  <2> DEFINE c == [call[q] EXCEPT !.freed = 0]
  <2>1. call' = [call EXCEPT ![q] = c]
    BY DEF ReleaseOp
  <2>2. c.freed = 0 /\ c.pc = "release" /\ c.kind = call[q].kind
    BY <1>2 DEF Call
  <2> HIDE DEF c
  <2> QED BY <2>1, <2>2
<1>4. /\ pending' = [pending EXCEPT ![q] = Tail(pend)]
      /\ op' = op \/ op' = [op EXCEPT ![q][Head(pend)] = UnusedOp]
      /\ UNCHANGED <<reserved, pool, occupied, buffers>>
  BY <1>1 DEF ReleaseOp, memoryVars
<1>5. PICK data2 : data2 = op'[q]
  OBVIOUS
<1>6. call'[q] = c /\ buffers'[q] = bufs /\ pending'[q] = Tail(pend) /\ Others(q)
  BY <1>1, <1>2, <1>3, <1>4 DEF IInv, TypeOK, Others
<1>7. SameBut(data, data2, Head(pend))
  BY <1>1, <1>2, <1>4, <1>5 DEF IInv, TypeOK, SameBut
<1>8. Shift(freed, pend, data, data2)
  BY <1>2, <1>7, Shifted, Zenon
<1>9. /\ Once(0, Tail(pend), data2, bufs)
      /\ Zones(0, Tail(pend), data2, bufs) \subseteq Zones(freed, pend, data, bufs)
  BY <1>2, <1>8, PopUses, Zenon
<1>10. Rest(c, Tail(pend), bufs)
  BY <1>2, <1>3 DEF Rest, ActivePCs
<1>11. RestAt(q)' /\ OnceAt(q)' /\ ZonesOf(q)' \subseteq ZonesOf(q)
  BY <1>1, <1>3, <1>5, <1>6, <1>9, <1>10, Zenon DEF RestAt, OnceAt, ZonesOf
<1> QED BY <1>4, <1>6, <1>11, KeepStep, Zenon

\* The first memzones of a compressed operation become buffers; the operation,
\* with the others, leaves.
LEMMA RecycleOpZones ==
  ASSUME ZInv, IInv', NEW q \in QueuePairs, RecycleOp(q)
  PROVE  ZInv'
<1>1. PICK pend, data, bufs : pend = pending[q] /\ data = op[q] /\ bufs = buffers[q]
  OBVIOUS
<1>2. /\ IInv /\ call[q] \in Call /\ pend \in Seq(Operations)
      /\ Distinct(pend) /\ call[q].pc = "burst"
      /\ data \in [Operations -> Operation] /\ bufs \in Seq(Buffer)
      /\ Rest(call[q], pend, bufs) /\ Once(call[q].freed, pend, data, bufs)
  BY <1>1, AtOne DEF RecycleOp, At
<1>3. call[q].freed = 0 /\ call[q].kind \in {"compress", "decompress"}
  BY <1>2 DEF Rest, ActivePCs
<1>4. pend # <<>> /\ Head(pend) = Head(call[q].burst)
  BY <1>1, <1>2, FrontOfBurst
<1>5. PICK o \in Operations : o = Head(pend) /\ o = Head(call[q].burst) /\ o = pend[1]
                              /\ 1 \in DOMAIN pend
  BY <1>2, <1>4
<1>6. /\ data[o] \in Operation /\ data[o].dst \in Seq(Memzones)
      /\ DOMAIN data[o].dst = 1..Len(data[o].dst) /\ Len(data[o].dst) \in Nat
  <2>1. data[o] \in Operation
    BY <1>2
  <2>2. data[o].dst \in Seq(Memzones)
    BY <2>1 DEF Operation
  <2> QED BY <2>1, <2>2
<1>7. PICK c : /\ call' = [call EXCEPT ![q] = c]
               /\ c.pc \in {"loop", "burst"} /\ c.kind = call[q].kind /\ c.freed = 0
  <2> DEFINE rest == Tail(call[q].burst)
             decoded == IF call[q].kind # "decompress" THEN call[q].decoded ELSE
                Append(call[q].decoded, [slot |-> op[q][Head(call[q].burst)].first,
                                         first |-> Source(q, Head(call[q].burst))[1].first])
             c == [call[q] EXCEPT !.pc = IF rest = <<>> THEN "loop" ELSE "burst",
                                  !.burst = rest, !.decoded = decoded]
  <2>1. call' = [call EXCEPT ![q] = c]
    BY <1>2 DEF RecycleOp
  <2> HIDE DEF rest, decoded
  <2>2. c.pc \in {"loop", "burst"} /\ c.kind = call[q].kind /\ c.freed = 0
    BY <1>2, <1>3 DEF Call
  <2> HIDE DEF c
  <2> QED BY <2>1, <2>2
<1>8. /\ pending' = [pending EXCEPT ![q] = Tail(pend)]
      /\ op' = [op EXCEPT ![q][o] = UnusedOp]
      /\ UNCHANGED <<reserved, pool, occupied>>
  BY <1>1, <1>5 DEF RecycleOp
<1>9. PICK data2, bufs2 : data2 = op'[q] /\ bufs2 = buffers'[q]
  OBVIOUS
<1>10. SameBut(data, data2, Head(pend))
  BY <1>1, <1>2, <1>5, <1>8, <1>9 DEF IInv, TypeOK, SameBut
<1>11. Shift(0, pend, data, data2)
  BY <1>2, <1>4, <1>10, Shifted, Zenon
<1>12. /\ \A p \in QueuePairs : p # q => buffers'[p] = buffers[p]
       /\ Once(0, Tail(pend), data2, bufs2)
       /\ Zones(0, Tail(pend), data2, bufs2) \subseteq Zones(0, pend, data, bufs)
  <2>1. Once(0, pend, data, bufs)
    BY <1>2, <1>3
  <2>2. CASE call[q].kind = "decompress"
    <3>1. buffers' = buffers
      BY <2>2 DEF RecycleOp
    <3>2. bufs2 = bufs
      BY <1>1, <1>9, <3>1
    <3> QED BY <1>11, <2>1, <3>1, <3>2, PopUses, Zenon
  <2>3. CASE call[q].kind # "decompress"
    <3>1. PICK n \in 1..Len(data[o].dst) :
            buffers' = [buffers EXCEPT ![q] = bufs \o Produced(q, o, n)]
      BY <1>1, <1>5, <2>3 DEF RecycleOp
    <3>2. PICK made : made = Produced(q, o, n)
      OBVIOUS
    <3>3. made \in Seq(Buffer)
      BY <1>1, <1>6, <3>1, <3>2, ProducedType
    <3>4. n \in Nat /\ Len(made) = n /\ \A j \in 1..n : made[j].zone = data[o].dst[j]
      <4>1. n \in Nat
        BY <1>6, <3>1
      <4> QED BY <1>1, <3>2, <4>1 DEF Produced
    <3>5. \A j \in 1..n : /\ Holds(0, pend, data, 1, j)
                          /\ made[j].zone = data[pend[1]].dst[j]
      <4>1. \A j \in 1..n : j \in DOMAIN data[o].dst /\ j > 0
        BY <1>6, <3>1
      <4>2. \A j \in 1..n : Holds(0, pend, data, 1, j)
        BY <1>5, <4>1 DEF Holds
      <4> QED BY <1>5, <3>4, <4>2
    <3>6. bufs2 = bufs \o made /\ \A p \in QueuePairs : p # q => buffers'[p] = buffers[p]
      BY <1>2, <1>9, <3>1, <3>2 DEF IInv, TypeOK
    <3>7. /\ Once(0, Tail(pend), data2, bufs \o made)
          /\ Zones(0, Tail(pend), data2, bufs \o made) \subseteq Zones(0, pend, data, bufs)
      BY <1>2, <1>11, <2>1, <3>3, <3>4, <3>5, ProduceUses, Zenon
    <3> QED BY <3>6, <3>7
  <2> QED BY <2>2, <2>3
<1>13. call'[q] = c /\ pending'[q] = Tail(pend) /\ Others(q)
  BY <1>2, <1>7, <1>8, <1>12 DEF IInv, TypeOK, Others
<1>14. Rest(c, Tail(pend), bufs2)
  BY <1>3, <1>7 DEF Rest, ActivePCs
<1>15. RestAt(q)' /\ OnceAt(q)' /\ ZonesOf(q)' \subseteq ZonesOf(q)
  <2>1. ZonesOf(q) = Zones(0, pend, data, bufs)
    BY <1>1, <1>3, Zenon DEF ZonesOf
  <2> QED BY <1>7, <1>9, <1>12, <1>13, <1>14, <2>1, Zenon DEF RestAt, OnceAt, ZonesOf
<1> QED BY <1>8, <1>13, <1>15, KeepStep, Zenon

\* A destination mbuf gets a memzone that nobody used.
LEMMA TakeDstZones ==
  ASSUME ZInv, IInv', NEW q \in QueuePairs, TakeDst(q)
  PROVE  ZInv'
<1>1. PICK freed, pend, data, bufs :
        freed = call[q].freed /\ pend = pending[q] /\ data = op[q] /\ bufs = buffers[q]
  OBVIOUS
<1>2. /\ IInv /\ call[q] \in Call /\ call[q].pc = "take"
      /\ pend \in Seq(Operations) /\ Distinct(pend)
      /\ data \in [Operations -> Operation]
      /\ Rest(call[q], pend, bufs) /\ Once(freed, pend, data, bufs)
  BY <1>1, AtOne DEF TakeDst, At
<1>3. freed = 0 /\ call[q].kind \in {"compress", "decompress"}
  BY <1>1, <1>2 DEF Rest, ActivePCs
<1>4. PICK i \in DOMAIN call[q].batch, z \in Memzones :
        /\ DM!Take(z)
        /\ op' = [op EXCEPT ![q][call[q].batch[i]].dst = Append(@, z)]
        /\ \/ call' = [call EXCEPT ![q].pc = "loop", ![q].batch = <<>>]
           \/ UNCHANGED call
  BY DEF TakeDst
<1>5. PICK o \in Operations : o = call[q].batch[i]
  <2>1. call[q].batch \in Seq(Operations)
    BY <1>2 DEF Call
  <2> QED BY <2>1
<1>6. PICK c : /\ call' = [call EXCEPT ![q] = c]
               /\ c.pc \in {"loop", "take"} /\ c.kind = call[q].kind /\ c.freed = 0
  <2>1. CASE UNCHANGED call
    <3>1. call' = [call EXCEPT ![q] = call[q]]
      BY <1>2, <2>1 DEF IInv, TypeOK
    <3> QED BY <1>1, <1>2, <1>3, <3>1
  <2>2. CASE call' = [call EXCEPT ![q].pc = "loop", ![q].batch = <<>>]
    <3> DEFINE c == [call[q] EXCEPT !.pc = "loop", !.batch = <<>>]
    <3>1. call' = [call EXCEPT ![q] = c]
      BY <1>2, <2>2 DEF IInv, TypeOK
    <3>2. c.pc = "loop" /\ c.kind = call[q].kind /\ c.freed = 0
      BY <1>1, <1>2, <1>3 DEF Call
    <3> HIDE DEF c
    <3> QED BY <3>1, <3>2
  <2> QED BY <1>4, <2>1, <2>2
<1>7. UNCHANGED <<pending, buffers>>
  BY DEF TakeDst
<1>8. PICK data2 : data2 = op'[q]
  OBVIOUS
<1>9. /\ call'[q] = c /\ pending'[q] = pend /\ buffers'[q] = bufs
      /\ Others(q)
  BY <1>1, <1>2, <1>4, <1>6, <1>7 DEF IInv, TypeOK, Others
<1>10. SameBut(data, data2, o) /\ data2[o].dst = Append(data[o].dst, z)
       /\ data[o].dst \in Seq(Memzones)
  <2>1. data2 = [data EXCEPT ![o].dst = Append(@, z)]
    BY <1>1, <1>2, <1>4, <1>5, <1>8 DEF IInv, TypeOK
  <2>2. data[o] \in Operation
    BY <1>2
  <2> QED BY <1>2, <2>1, <2>2 DEF SameBut, Operation
<1>11. z \notin Zones(freed, pend, data, bufs)
  <2>1. z \notin occupied
    <3>1. Stock
      BY Zenon DEF ZInv
    <3>2. pool \in Seq(Memzones)
      BY <1>2 DEF IInv, TypeOK
    <3> QED BY <1>4, <3>1, <3>2, TakeStock, Zenon
  <2>2. ZonesOf(q) \subseteq occupied
    BY Zenon DEF ZInv
  <2> QED BY <1>1, <2>1, <2>2 DEF ZonesOf
<1>12. /\ Once(freed, pend, data2, bufs)
       /\ Zones(freed, pend, data2, bufs) \subseteq Zones(freed, pend, data, bufs) \cup {z}
  BY <1>2, <1>10, <1>11, GrowUses, Zenon
<1>13. Rest(c, pend, bufs)
  BY <1>3, <1>6 DEF Rest, ActivePCs
<1>14. RestAt(q)' /\ OnceAt(q)' /\ ZonesOf(q)' \subseteq ZonesOf(q) \cup {z}
  BY <1>1, <1>3, <1>6, <1>8, <1>9, <1>12, <1>13, Zenon DEF RestAt, OnceAt, ZonesOf
<1> QED BY <1>4, <1>9, <1>14, TakeStep, Zenon

\* A batch of operations joins, without memzones.
LEMMA AssembleZones ==
  ASSUME ZInv, IInv', NEW q \in QueuePairs, Assemble(q)
  PROVE  ZInv'
<1>1. PICK freed, pend, data, bufs :
        freed = call[q].freed /\ pend = pending[q] /\ data = op[q] /\ bufs = buffers[q]
  OBVIOUS
<1>2. /\ IInv /\ call[q] \in Call /\ call[q].pc = "loop" /\ CanAssemble(q)
      /\ pend \in Seq(Operations) /\ freeOps[q] \in SUBSET Operations
      /\ Elements(pend) \cap freeOps[q] = {}
      /\ Rest(call[q], pend, bufs) /\ Once(freed, pend, data, bufs)
  BY <1>1, AtOne DEF Assemble, At
<1>3. freed = 0 /\ call[q].kind \in {"compress", "decompress"}
  BY <1>1, <1>2 DEF Rest, ActivePCs
<1>4. PICK b \in Allocations(q, NextOps(q)) :
        /\ op' = [op EXCEPT ![q] =
             [o \in Operations |-> IF \E i \in DOMAIN b : b[i] = o
                                     THEN Assembled(q, CHOOSE i \in DOMAIN b : b[i] = o)
                                     ELSE @[o]]]
        /\ pending' = [pending EXCEPT ![q] = pend \o b]
        /\ \/ call' = [call EXCEPT ![q].pc = "take", ![q].index = @ + NextUnits(q),
                                   ![q].batch = b]
           \/ call' = [call EXCEPT ![q].index = @ + NextUnits(q)]
  BY <1>1 DEF Assemble
<1>5. b \in Seq(Operations) /\ Elements(b) \subseteq freeOps[q]
  <2>1. queue[q] \in Seq(Operations) /\ operations[q] \in Seq(Operations)
    BY <1>2, Localize DEF QType
  <2>2. NextOps(q) \in Nat
    BY <1>2, <2>1, NextFacts
  <2> QED BY <1>2, <2>2, AllocationFacts
<1>6. PICK c : /\ call' = [call EXCEPT ![q] = c]
               /\ c.pc \in {"loop", "take"} /\ c.kind = call[q].kind /\ c.freed = 0
  <2> DEFINE index == call[q].index + NextUnits(q)
             c1 == [call[q] EXCEPT !.pc = "take", !.index = index, !.batch = b]
             c2 == [call[q] EXCEPT !.index = index]
  <2>1. call' = [call EXCEPT ![q] = c1] \/ call' = [call EXCEPT ![q] = c2]
    BY <1>2, <1>4 DEF IInv, TypeOK
  <2> HIDE DEF index
  <2>2. /\ c1.pc = "take" /\ c1.kind = call[q].kind /\ c1.freed = 0
        /\ c2.pc = "loop" /\ c2.kind = call[q].kind /\ c2.freed = 0
    BY <1>1, <1>2, <1>3 DEF Call
  <2> HIDE DEF c1, c2
  <2> QED BY <2>1, <2>2
<1>7. UNCHANGED <<reserved, pool, occupied, buffers>>
  BY DEF Assemble, memoryVars
<1>8. PICK data2 : data2 = op'[q]
  OBVIOUS
<1>9. /\ call'[q] = c /\ pending'[q] = pend \o b /\ buffers'[q] = bufs
      /\ Others(q)
  BY <1>1, <1>2, <1>4, <1>6, <1>7 DEF IInv, TypeOK, Others
<1>10. /\ \A o \in Operations \ Elements(b) : data2[o] = data[o]
       /\ \A o \in Elements(b) : data2[o].dst = <<>>
  <2>1. data2 = [o \in Operations |->
                   IF \E i \in DOMAIN b : b[i] = o
                     THEN Assembled(q, CHOOSE i \in DOMAIN b : b[i] = o) ELSE data[o]]
    BY <1>1, <1>2, <1>4, <1>8 DEF IInv, TypeOK
  <2>2. \A i : Assembled(q, i).dst = <<>>
    BY DEF Assembled
  <2>3. \A o \in Elements(b) : o \in Operations
    BY <1>2, <1>5
  <2> HIDE DEF Assembled
  <2> QED BY <2>1, <2>2, <2>3 DEF Elements
<1>11. Elements(pend) \cap Elements(b) = {}
  BY <1>2, <1>5
<1>12. /\ Once(freed, pend \o b, data2, bufs)
       /\ Zones(freed, pend \o b, data2, bufs) \subseteq Zones(freed, pend, data, bufs)
  BY <1>2, <1>5, <1>10, <1>11, AppendUses, Zenon
<1>13. Rest(c, pend \o b, bufs)
  BY <1>3, <1>6 DEF Rest, ActivePCs
<1>14. RestAt(q)' /\ OnceAt(q)' /\ ZonesOf(q)' \subseteq ZonesOf(q)
  BY <1>1, <1>3, <1>6, <1>8, <1>9, <1>12, <1>13, Zenon DEF RestAt, OnceAt, ZonesOf
<1> QED BY <1>7, <1>9, <1>14, KeepStep, Zenon

-----------------------------------------------------------------------------
(* The theorems *)

\* The invariant holds in the initial states.
LEMMA InitZ == Init => ZInv
<1> SUFFICES ASSUME Init PROVE ZInv
  OBVIOUS
<1>1. IInv
  BY InitInv
<1>2. Stock
  BY DEF Init, Stock, DM!Exclusive, DM!NothingLost, DM!Pooled, DM!Elements,
         Elements, Distinct
<1>3. ASSUME NEW q \in QueuePairs
      PROVE  RestAt(q) /\ OnceAt(q) /\ ZonesOf(q) = {}
  <2>1. call[q] = NoCall /\ pending[q] = <<>> /\ buffers[q] = <<>>
    BY DEF Init
  <2>2. RestAt(q)
    BY <2>1 DEF RestAt, Rest, NoCall, ActivePCs
  <2>3. \A freed, data, k, l : ~Holds(freed, <<>>, data, k, l)
    BY DEF Holds
  <2>4. OnceAt(q)
    BY <2>1, <2>3 DEF OnceAt, Once
  <2>5. ZonesOf(q) = {}
    BY <2>1, <2>3 DEF ZonesOf, Zones
  <2> QED BY <2>2, <2>4, <2>5
<1>4. \A q \in QueuePairs : RestAt(q) /\ OnceAt(q) /\ ZonesOf(q) \subseteq occupied
  BY <1>3
<1>5. \A p, q \in QueuePairs : p # q => ZonesOf(p) \cap ZonesOf(q) = {}
  BY <1>3
<1> QED BY <1>1, <1>2, <1>4, <1>5, Zenon DEF ZInv

\* Every step keeps it.
LEMMA StepZ == ZInv /\ [Next]_vars => ZInv'
<1> SUFFICES ASSUME ZInv, [Next]_vars PROVE ZInv'
  OBVIOUS
<1>1. IInv'
  <2>1. IInv
    BY Zenon DEF ZInv
  <2> QED BY <2>1, StepInv
<1>2. CASE UNCHANGED vars
  <2>1. /\ UNCHANGED <<reserved, pool, occupied>>
        /\ call' = call /\ pending' = pending /\ op' = op /\ buffers' = buffers
    BY <1>2 DEF vars, memoryVars, poolVars
  <2>2. Stock' /\ occupied' = occupied
    BY <2>1, SameStock, Zenon DEF ZInv
  <2>3. \A q \in QueuePairs : RestAt(q)' /\ OnceAt(q)' /\ ZonesOf(q)' = ZonesOf(q)
    <3> TAKE q \in QueuePairs
    <3>1. RestAt(q) /\ OnceAt(q)
      BY Zenon DEF ZInv
    <3> QED BY <2>1, <3>1, Zenon DEF RestAt, OnceAt, ZonesOf
  <2>4. \A q \in QueuePairs : ZonesOf(q)' \subseteq occupied'
    <3> TAKE q \in QueuePairs
    <3>1. ZonesOf(q) \subseteq occupied
      BY Zenon DEF ZInv
    <3> QED BY <2>2, <2>3, <3>1
  <2>5. \A p, q \in QueuePairs : p # q => ZonesOf(p)' \cap ZonesOf(q)' = {}
    <3> TAKE p, q \in QueuePairs
    <3>1. p # q => ZonesOf(p) \cap ZonesOf(q) = {}
      BY Zenon DEF ZInv
    <3> QED BY <2>3, <3>1
  <2> QED BY <1>1, <2>2, <2>3, <2>4, <2>5, Zenon DEF ZInv
<1>3. ASSUME NEW q \in QueuePairs, Invoke(q) \/ Complete(q) \/ Stall(q)
      PROVE  ZInv'
  BY <1>1, <1>3, QuietInvoke
<1>4. ASSUME NEW q \in QueuePairs, Work(q)
      PROVE  ZInv'
  <2>1. CASE Assemble(q)   BY <1>1, <2>1, AssembleZones
  <2>2. CASE TakeDst(q)    BY <1>1, <2>2, TakeDstZones
  <2>3. CASE RecycleOp(q)  BY <1>1, <2>3, RecycleOpZones
  <2>4. CASE PutBack(q)    BY <1>1, <2>4, PutBackZones
  <2>5. CASE ReleaseDst(q) BY <1>1, <2>5, ReleaseDstZones
  <2>6. CASE ReleaseOp(q)  BY <1>1, <2>6, ReleaseOpZones
  <2>7. CASE \/ AssembleFails(q) \/ TakeFails(q)
             \/ Enqueue(q) \/ EnqueueFails(q)
             \/ Dequeue(q) \/ DequeueFails(q)
             \/ OpFails(q) \/ Return(q) \/ ReleaseEnds(q)
    BY <1>1, <2>7, QuietWork
  <2> QED BY <1>4, <2>1, <2>2, <2>3, <2>4, <2>5, <2>6, <2>7 DEF Work
<1> QED BY <1>2, <1>3, <1>4 DEF Next

\* ZInv is an invariant of every behaviour of CompressDevice.
LEMMA ZInvariance == Spec => []ZInv
BY InitZ, StepZ, PTL DEF Spec

\* Whatever the lcores compress, recycle and release concurrently, no memzone is
\* used twice, and none that is used is in the stock.
THEOREM ZonesExclusiveAlways == Spec => []ZonesExclusive
BY ZInvariance, InvIsExclusive, PTL

\* Compress leaves nothing pending, however it ends: only a failed Decompress
\* makes its queue pair busy for good.
THEOREM CompressAlwaysLeavesIdle == Spec => []CompressLeavesIdle
<1>1. ZInv => CompressLeavesIdle
  <2> SUFFICES ASSUME ZInv, NEW q \in QueuePairs,
                      call[q].kind # "decompress", call[q].pc = "idle"
               PROVE  pending[q] = <<>>
    BY DEF CompressLeavesIdle, Busy, At
  <2>1. Rest(call[q], pending[q], buffers[q])
    BY AtOne
  <2> QED BY <2>1 DEF Rest
<1> QED BY <1>1, ZInvariance, PTL

=============================================================================
