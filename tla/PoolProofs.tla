------------------------------ MODULE PoolProofs ------------------------------
(***************************************************************************)
(* Proofs about what the queue pairs of CompressDevice share out: the      *)
(* operations and mbufs of their pools, which a call must neither lose nor *)
(* free twice, and the memzones of the common stock, which somebody must   *)
(* still be using as long as they are recorded as taken.  With room for    *)
(* the results of all lcores neither the stock nor a pool ever runs dry.   *)
(***************************************************************************)
EXTENDS MemzoneProofs

-----------------------------------------------------------------------------
(* The operations and mbufs of a queue pair *)

\* due[i] mbufs come back when the pending operations from the i-th on are freed:
\* a source and a destination mbuf for each of their source units.  No operation
\* has more than MaxSglSegs units.
Due(due, pend, data) ==
  /\ due \in [1..(Len(pend) + 1) -> Nat]
  /\ due[Len(pend) + 1] = 0
  /\ \A i \in DOMAIN pend : due[i] = 2 * data[pend[i]].len + due[i + 1]
  /\ \A i \in DOMAIN due : due[i] <= (2 * MaxSglSegs) * (Len(pend) + 1 - i)

\* A product with a sum.
LEMMA TimesSum ==
  ASSUME NEW w \in Nat, NEW a \in Nat, NEW b \in Nat
  PROVE  w * (a + b) = w * a + w * b /\ w * a \in Nat /\ w * b \in Nat
OBVIOUS

\* Nothing is due without pending operations.
LEMMA DueNothing == ASSUME NEW data
                    PROVE  Due([i \in {1} |-> 0], <<>>, data)
<1>1. Len(<<>>) = 0 /\ 1..(0 + 1) = {1} /\ DOMAIN <<>> = {}
  OBVIOUS
<1>2. (2 * MaxSglSegs) * (0 + 1 - 1) = 0
  BY DeviceAssumption
<1> QED BY <1>1, <1>2 DEF Due

\* The contents of an operation that is not pending do not matter, nor do the
\* destinations.
LEMMA DueSame ==
  ASSUME NEW pend \in Seq(Operations), NEW data, NEW data2, NEW due, Due(due, pend, data),
         \A o \in Elements(pend) : data2[o].len = data[o].len
  PROVE  Due(due, pend, data2)
<1>1. \A i \in DOMAIN pend : data2[pend[i]].len = data[pend[i]].len
  BY DEF Elements
<1> QED BY <1>1 DEF Due

\* What is due before and after an operation with these contents is freed.
LessDue(due, due2, contents) ==
  due[1] = 2 * contents.len + due2[1] /\ due2[1] \in Nat

\* What is due when the operation at the front is freed.
LEMMA DueTail ==
  ASSUME NEW pend \in Seq(Operations), pend # <<>>, Distinct(pend),
         NEW data, NEW data2, SameBut(data, data2, Head(pend)),
         NEW due, Due(due, pend, data), data[Head(pend)].len \in Nat
  PROVE  \E due2 : Due(due2, Tail(pend), data2) /\ LessDue(due, due2, data[Head(pend)])
<1> DEFINE n == Len(pend)
           t == Tail(pend)
           due2 == [i \in 1..n |-> due[i + 1]]
<1>1. /\ n \in Nat \ {0} /\ DOMAIN pend = 1..n
      /\ t \in Seq(Operations) /\ Len(t) = n - 1 /\ DOMAIN t = 1..(n - 1)
      /\ \A i \in 1..(n - 1) : t[i] = pend[i + 1]
      /\ Head(pend) = pend[1]
  OBVIOUS
<1>2. /\ due \in [1..(n + 1) -> Nat] /\ due[n + 1] = 0
      /\ \A i \in 1..n : due[i] = 2 * data[pend[i]].len + due[i + 1]
      /\ \A i \in 1..(n + 1) : due[i] <= (2 * MaxSglSegs) * (n + 1 - i)
  <2>1. due \in [1..(n + 1) -> Nat] /\ DOMAIN due = 1..(n + 1)
    BY DEF Due
  <2> QED BY <1>1, <2>1 DEF Due
<1> HIDE DEF n, t
<1>3. due2 \in [1..(Len(t) + 1) -> Nat] /\ due2[Len(t) + 1] = 0
  <2>1. Len(t) + 1 = n /\ n \in 1..n /\ \A i \in 1..n : i + 1 \in 1..(n + 1)
    BY <1>1
  <2> QED BY <1>2, <2>1
<1>4. ASSUME NEW i \in 1..(n - 1)
      PROVE  due2[i] = 2 * data2[t[i]].len + due2[i + 1]
  <2>1. /\ i \in 1..n /\ i + 1 \in 1..n /\ i + 1 # 1 /\ i \in 1..(n - 1)
    BY <1>1, <1>4
  <2>2. data2[t[i]] = data[pend[i + 1]]
    <3>1. pend[i + 1] # pend[1] /\ pend[i + 1] \in Operations
      BY <1>1, <2>1 DEF Distinct
    <3> QED BY <1>1, <2>1, <3>1 DEF SameBut
  <2>3. due2[i] = due[i + 1] /\ due2[i + 1] = due[(i + 1) + 1]
    BY <2>1
  <2> QED BY <1>2, <2>1, <2>2, <2>3
<1>5. ASSUME NEW i \in 1..n
      PROVE  due2[i] <= (2 * MaxSglSegs) * (Len(t) + 1 - i)
  <2>1. i + 1 \in 1..(n + 1) /\ due2[i] = due[i + 1] /\ n + 1 - (i + 1) = Len(t) + 1 - i
    BY <1>1, <1>5
  <2> QED BY <1>2, <2>1
<1>6. due[1] = 2 * data[Head(pend)].len + due2[1] /\ due2[1] \in Nat
  <2>1. 1 \in 1..n /\ due2[1] = due[1 + 1] /\ 1 + 1 \in 1..(n + 1)
    BY <1>1
  <2> QED BY <1>1, <1>2, <2>1
<1>7. DOMAIN due2 = 1..n /\ n = Len(t) + 1 /\ DOMAIN t = 1..(n - 1)
  BY <1>1
<1>8. Due(due2, t, data2)
  <2> HIDE DEF due2
  <2> QED BY <1>3, <1>4, <1>5, <1>7 DEF Due
<1> QED BY <1>6, <1>8 DEF t, LessDue

\* The length of two sequences together.
LEMMA LenOfConcat ==
  ASSUME NEW S, NEW s \in Seq(S), NEW t \in Seq(S)
  PROVE  Len(s \o t) = Len(s) + Len(t)
OBVIOUS

\* What is due for some operations and for some more, together.
JointDue(all, due, more) ==
  all[1] = due[1] + more[1] /\ due[1] \in Nat /\ more[1] \in Nat

\* What is due when a batch joins the pending operations.
LEMMA DueConcat ==
  ASSUME NEW pend \in Seq(Operations), NEW b \in Seq(Operations),
         NEW data, NEW data2 \in [Operations -> Operation],
         \A o \in Elements(pend) : data2[o].len = data[o].len,
         NEW due, Due(due, pend, data), NEW more, Due(more, b, data2)
  PROVE  \E all : Due(all, pend \o b, data2) /\ JointDue(all, due, more)
<1> DEFINE n == Len(pend)
           k == Len(b)
           W == 2 * MaxSglSegs
           s == pend \o b
           all == [i \in 1..(n + k + 1) |-> IF i <= n THEN due[i] + more[1]
                                                      ELSE more[i - n]]
<1>1. /\ n \in Nat /\ k \in Nat /\ DOMAIN pend = 1..n /\ DOMAIN b = 1..k
      /\ s \in Seq(Operations) /\ Len(s) = n + k /\ DOMAIN s = 1..(n + k)
      /\ \A i \in 1..n : s[i] = pend[i]
      /\ \A i \in 1..(n + k) : i > n => s[i] = b[i - n]
  <2>1. n \in Nat /\ k \in Nat /\ DOMAIN pend = 1..n /\ DOMAIN b = 1..k
    OBVIOUS
  <2>2. s \in Seq(Operations) /\ Len(s) = n + k
    OBVIOUS
  <2>3. DOMAIN s = 1..(n + k)
    BY <2>2
  <2>4. \A i \in 1..n : s[i] = pend[i]
    OBVIOUS
  <2>5. \A i \in 1..(n + k) : i > n => s[i] = b[i - n]
    OBVIOUS
  <2> QED BY <2>1, <2>2, <2>3, <2>4, <2>5
<1>2. Due(due, pend, data2)
  BY DueSame
<1>3. /\ due \in [1..(n + 1) -> Nat] /\ due[n + 1] = 0
      /\ \A i \in 1..n : due[i] = 2 * data2[pend[i]].len + due[i + 1]
      /\ \A i \in 1..(n + 1) : due[i] <= W * (n + 1 - i)
  BY <1>1, <1>2 DEF Due
<1>4. /\ more \in [1..(k + 1) -> Nat] /\ more[k + 1] = 0
      /\ \A i \in 1..k : more[i] = 2 * data2[b[i]].len + more[i + 1]
      /\ \A i \in 1..(k + 1) : more[i] <= W * (k + 1 - i)
  BY <1>1 DEF Due
<1>5. W \in Nat
  BY DeviceAssumption
<1> HIDE DEF n, k, W, s
<1>6. due[1] \in Nat /\ more[1] \in Nat /\ 1 \in 1..(k + 1) /\ 1 \in 1..(n + 1)
  BY <1>1, <1>3, <1>4
<1>7. ASSUME NEW i \in 1..(n + k + 1)
      PROVE  all[i] \in Nat /\ all[i] <= W * (n + k + 1 - i)
  <2>1. CASE i <= n
    <3>1. i \in 1..(n + 1) /\ all[i] = due[i] + more[1]
      BY <1>1, <2>1
    <3>2. due[i] \in Nat /\ due[i] <= W * (n + 1 - i) /\ more[1] <= W * (k + 1 - 1)
      BY <1>3, <1>4, <1>6, <3>1
    <3>3. n + 1 - i \in Nat /\ k + 1 - 1 = k /\ n + k + 1 - i = (n + 1 - i) + k
      BY <1>1, <2>1
    <3>4. W * ((n + 1 - i) + k) = W * (n + 1 - i) + W * k
          /\ W * (n + 1 - i) \in Nat /\ W * k \in Nat
      BY <1>1, <1>5, <3>3, TimesSum
    <3> DEFINE x == W * (n + 1 - i)
               y == W * k
    <3>5. W * (n + k + 1 - i) = x + y /\ more[1] <= y /\ due[i] <= x /\ x \in Nat /\ y \in Nat
      BY <3>2, <3>3, <3>4
    <3> HIDE DEF x, y
    <3> QED BY <1>6, <3>1, <3>2, <3>5
  <2>2. CASE ~(i <= n)
    <3>1. i - n \in 1..(k + 1) /\ all[i] = more[i - n] /\ n + k + 1 - i = k + 1 - (i - n)
      BY <1>1, <2>2
    <3> QED BY <1>4, <3>1
  <2> QED BY <2>1, <2>2
<1>8. ASSUME NEW i \in 1..(n + k)
      PROVE  all[i] = 2 * data2[s[i]].len + all[i + 1]
  <2>1. CASE i < n
    <3>1. i \in 1..n /\ i + 1 \in 1..(n + 1) /\ all[i] = due[i] + more[1] /\ all[i + 1] = due[i + 1] + more[1]
          /\ s[i] = pend[i]
      BY <1>1, <2>1
    <3>2. data2[pend[i]].len \in Nat /\ due[i + 1] \in Nat
      BY <1>1, <1>3, <3>1 DEF Operation
    <3> QED BY <1>3, <1>6, <3>1, <3>2
  <2>2. CASE i = n
    <3>1. i \in 1..n /\ all[i] = due[i] + more[1] /\ all[i + 1] = more[1] /\ s[i] = pend[i]
      BY <1>1, <2>2
    <3>2. due[i + 1] = 0 /\ data2[pend[i]].len \in Nat
      BY <1>1, <1>3, <2>2, <3>1 DEF Operation
    <3> QED BY <1>3, <1>6, <3>1, <3>2
  <2>3. CASE i > n
    <3>1. /\ i - n \in 1..k /\ all[i] = more[i - n]
          /\ all[i + 1] = more[(i - n) + 1] /\ s[i] = b[i - n]
      BY <1>1, <2>3
    <3> QED BY <1>4, <3>1
  <2> QED BY <1>1, <2>1, <2>2, <2>3
<1>9. all[n + k + 1] = 0
  <2>1. ~(n + k + 1 <= n) /\ (n + k + 1) - n = k + 1 /\ n + k + 1 \in 1..(n + k + 1)
    BY <1>1
  <2> QED BY <1>4, <2>1
<1>10. all[1] = due[1] + more[1]
  <2>1. CASE n = 0
    BY <1>1, <1>3, <1>6, <2>1
  <2>2. CASE n # 0
    BY <1>1, <2>2
  <2> QED BY <2>1, <2>2
<1>11. all \in [1..(n + k + 1) -> Nat] /\ DOMAIN all = 1..(n + k + 1)
  BY <1>7
<1> HIDE DEF all
<1>12. Due(all, s, data2)
  BY <1>1, <1>7, <1>8, <1>9, <1>11 DEF Due, W
<1> QED BY <1>6, <1>10, <1>12 DEF s, JointDue

-----------------------------------------------------------------------------
\* How many operations of s units n units take, when the last may have fewer.
LEMMA CeilingFacts ==
  ASSUME NEW n \in Nat, n > 0, NEW s \in Nat, s > 0
  PROVE  LET k == (n + s - 1) \div s IN
         /\ k \in Nat \ {0}
         /\ (k - 1) * s \in Nat /\ (k - 1) * s < n /\ n <= k * s /\ k * s \in Nat
         /\ \A room \in Nat : n <= room * s => k <= room
<1> DEFINE m == n + s - 1
           k == m \div s
<1>1. m \in Nat /\ m >= s /\ m = n + s - 1
  OBVIOUS
<1> HIDE DEF m
<1>2. k \in Nat /\ k * s <= m /\ m < (k + 1) * s /\ k * s \in Nat
  BY <1>1
<1>3. (k + 1) * s = k * s + s
  BY <1>2
<1>4. k # 0
  BY <1>1, <1>2
<1>5. (k - 1) * s = k * s - s /\ (k - 1) * s \in Nat
  BY <1>2, <1>4
<1>6. ASSUME NEW room \in Nat, n <= room * s
      PROVE  k <= room
  <2> SUFFICES ASSUME k >= room + 1 PROVE FALSE
    BY <1>2
  <2>1. (room + 1) * s = room * s + s /\ room * s \in Nat
    OBVIOUS
  <2>2. (room + 1) * s <= k * s
    BY <1>2
  <2> QED BY <1>1, <1>2, <1>6, <2>1, <2>2
<1> HIDE DEF k
<1>7. /\ k \in Nat \ {0}
      /\ (k - 1) * s \in Nat /\ (k - 1) * s < n /\ n <= k * s /\ k * s \in Nat
  BY <1>1, <1>2, <1>3, <1>4, <1>5
<1> QED BY <1>6, <1>7 DEF k, m

\* What is due for a batch that has been assembled from n units: twice as much.
LEMMA DueBatch ==
  ASSUME NEW n \in Nat, n > 0, NEW k \in Nat \ {0},
         (k - 1) * MaxSglSegs < n, n <= k * MaxSglSegs,
         NEW b \in Seq(Operations), DOMAIN b = 1..k, NEW data,
         \A i \in 1..k : data[b[i]].len = Least(MaxSglSegs, n - (i - 1) * MaxSglSegs)
  PROVE  \E more : Due(more, b, data) /\ more[1] = n * 2
<1> DEFINE s == MaxSglSegs
           rest == [i \in 1..(k + 1) |-> IF i = k + 1 THEN 0 ELSE n - (i - 1) * s]
           more == [i \in 1..(k + 1) |-> 2 * rest[i]]
<1>1. s \in Nat /\ s > 0
  BY DeviceAssumption
<1> HIDE DEF s
<1>2. Len(b) = k
  OBVIOUS
<1>3. ASSUME NEW i \in 1..k
      PROVE  /\ (i - 1) * s \in Nat /\ (i - 1) * s < n /\ i * s = (i - 1) * s + s
             /\ i # k => i * s < n
             /\ (k + 1 - i) * s = k * s - (i - 1) * s
  <2>1. (i - 1) * s \in Nat /\ i * s = (i - 1) * s + s /\ k * s \in Nat
    BY <1>1
  <2>2. (i - 1) * s <= (k - 1) * s /\ (k - 1) * s \in Nat
    BY <1>1
  <2>3. i # k => i * s <= (k - 1) * s
    BY <1>1
  <2>4. (k + 1 - i) * s = k * s - (i - 1) * s
    <3>1. k = (k + 1 - i) + (i - 1) /\ k + 1 - i \in Nat /\ i - 1 \in Nat
      OBVIOUS
    <3>2. s * ((k + 1 - i) + (i - 1)) = s * (k + 1 - i) + s * (i - 1)
      BY <1>1, <3>1, TimesSum
    <3>3. s * k = k * s /\ s * (k + 1 - i) = (k + 1 - i) * s /\ s * (i - 1) = (i - 1) * s
      BY <1>1
    <3>4. (k + 1 - i) * s \in Nat
      BY <1>1, <3>1
    <3> QED BY <2>1, <3>1, <3>2, <3>3, <3>4
  <2>5. (k - 1) * s < n
    BY DEF s
  <2> DEFINE x == (i - 1) * s
             y == (k - 1) * s
             z == i * s
  <2>6. x \in Nat /\ y \in Nat /\ z = x + s /\ x <= y /\ y < n /\ (i # k => z <= y)
    BY <2>1, <2>2, <2>3, <2>5
  <2> HIDE DEF x, y, z
  <2>7. x \in Nat /\ x < n /\ z = x + s /\ (i # k => z < n)
    BY <1>1, <2>6
  <2> QED BY <2>4, <2>7 DEF x, z
<1>4. ASSUME NEW i \in 1..k
      PROVE  /\ rest[i] \in Nat /\ rest[i] = data[b[i]].len + rest[i + 1]
             /\ rest[i + 1] \in Nat
             /\ data[b[i]].len \in Nat
             /\ rest[i] <= (k + 1 - i) * s
  <2> DEFINE x == (i - 1) * s
             y == i * s
  <2>1. /\ x \in Nat /\ x < n /\ y = x + s /\ (i # k => y < n)
        /\ (k + 1 - i) * s = k * s - x
    BY <1>3
  <2>2. rest[i] = n - x
    OBVIOUS
  <2>3. rest[i + 1] = IF i = k THEN 0 ELSE n - y
    <3>1. i + 1 \in 1..(k + 1) /\ (i + 1 = k + 1 <=> i = k) /\ (i + 1) - 1 = i
      OBVIOUS
    <3> QED BY <3>1
  <2>4. data[b[i]].len = Least(s, n - x)
    BY DEF s
  <2>5. i = k => n <= x + s
    <3>1. n <= k * s
      BY DEF s
    <3> QED BY <2>1, <3>1
  <2>6. n <= k * s /\ k * s \in Nat
    BY <1>1 DEF s
  <2> HIDE DEF x, y, rest
  <2> QED BY <1>1, <2>1, <2>2, <2>3, <2>4, <2>5, <2>6 DEF Least
<1>5. rest[k + 1] = 0
  OBVIOUS
<1> HIDE DEF rest
<1>6. ASSUME NEW i \in 1..k
      PROVE  more[i] = 2 * data[b[i]].len + more[i + 1]
  <2>1. more[i] = 2 * rest[i] /\ more[i + 1] = 2 * rest[i + 1]
    OBVIOUS
  <2> DEFINE len == data[b[i]].len
  <2>2. len \in Nat /\ rest[i + 1] \in Nat /\ rest[i] = len + rest[i + 1]
    BY <1>4
  <2> HIDE DEF len, more
  <2>3. more[i] = 2 * len + more[i + 1]
    BY <2>1, <2>2
  <2> QED BY <2>3 DEF len
<1>7. ASSUME NEW i \in 1..(k + 1)
      PROVE  more[i] \in Nat /\ more[i] <= (2 * s) * (k + 1 - i)
  <2>1. CASE i = k + 1
    <3>1. (2 * s) * (k + 1 - i) = 0
      BY <1>1, <2>1
    <3> QED BY <1>5, <2>1, <3>1
  <2>2. CASE i # k + 1
    <3>1. i \in 1..k /\ more[i] = 2 * rest[i]
      BY <2>2
    <3>2. rest[i] \in Nat /\ rest[i] <= (k + 1 - i) * s
      BY <1>4, <3>1
    <3>3. (2 * s) * (k + 1 - i) = 2 * ((k + 1 - i) * s) /\ (k + 1 - i) * s \in Nat
      BY <1>1, <3>1
    <3> QED BY <3>1, <3>2, <3>3
  <2> QED BY <2>1, <2>2
<1>8. more[1] = n * 2
  <2>1. more[1] = 2 * rest[1] /\ 1 \in 1..k
    OBVIOUS
  <2>2. rest[1] = n
    <3>1. (1 - 1) * s = 0 /\ 1 # k + 1
      BY <1>1
    <3> QED BY <3>1 DEF rest
  <2> QED BY <2>1, <2>2
<1>9. more \in [1..(k + 1) -> Nat] /\ DOMAIN more = 1..(k + 1) /\ more[k + 1] = 0
  BY <1>5, <1>7
<1> HIDE DEF more
<1>10. Due(more, b, data)
  BY <1>2, <1>6, <1>7, <1>9 DEF Due, s
<1> QED BY <1>8, <1>10

\* What the next burst takes.
LEMMA NextSizes ==
  ASSUME NEW q \in QueuePairs, CanAssemble(q), call[q] \in Call,
         operations[q] \in Seq(Operations)
  PROVE  /\ NextUnits(q) \in Nat /\ NextUnits(q) > 0 /\ NextOps(q) \in Nat \ {0}
         /\ (NextOps(q) - 1) * MaxSglSegs < NextUnits(q)
         /\ NextUnits(q) <= NextOps(q) * MaxSglSegs
         /\ NextUnits(q) <= (BurstSize - Len(operations[q])) * MaxSglSegs
         /\ NextOps(q) <= BurstSize - Len(operations[q])
<1> DEFINE s == MaxSglSegs
           left == call[q].segs - call[q].index
           room == BurstSize - Len(operations[q])
           u == NextUnits(q)
<1>1. s \in Nat /\ s > 0 /\ left \in Nat /\ left > 0 /\ room \in Nat /\ room > 0
  BY DeviceAssumption DEF Call, CanAssemble
<1>2. u = Least(left, room * s) /\ NextOps(q) = (u + s - 1) \div s
  BY DEF NextUnits, NextOps
<1> HIDE DEF s, left, room, u
<1>3. room * s \in Nat /\ room * s > 0
  BY <1>1
<1>4. u \in Nat /\ u > 0 /\ u <= room * s
  <2> DEFINE p == room * s
  <2>1. p \in Nat /\ p > 0 /\ u = Least(left, p)
    BY <1>2, <1>3
  <2> HIDE DEF p
  <2>2. u \in Nat /\ u > 0 /\ u <= p
    BY <1>1, <2>1 DEF Least
  <2> QED BY <2>2 DEF p
<1>5. LET k == (u + s - 1) \div s IN
         /\ k \in Nat \ {0}
         /\ (k - 1) * s \in Nat /\ (k - 1) * s < u /\ u <= k * s /\ k * s \in Nat
         /\ \A r \in Nat : u <= r * s => k <= r
  BY <1>1, <1>4, CeilingFacts
<1>6. /\ NextOps(q) \in Nat \ {0} /\ (NextOps(q) - 1) * s < u /\ u <= NextOps(q) * s
      /\ NextOps(q) <= room
  BY <1>1, <1>2, <1>4, <1>5, Zenon
<1> QED BY <1>4, <1>6 DEF s, room, u

\* No more elements than places.
LEMMA ElementsCount ==
  ASSUME NEW S, NEW s \in Seq(S)
  PROVE  /\ IsFiniteSet(Elements(s))
         /\ Cardinality(Elements(s)) \in Nat
         /\ Cardinality(Elements(s)) <= Len(s)
<1>1. Len(s) \in Nat /\ DOMAIN s = 1..Len(s) /\ s \in [1..Len(s) -> S]
  OBVIOUS
<1>2. s \in Surjection(1..Len(s), Elements(s))
  <2>1. s \in [1..Len(s) -> Elements(s)]
    BY <1>1 DEF Elements
  <2>2. \A x \in Elements(s) : \E i \in 1..Len(s) : s[i] = x
    BY <1>1 DEF Elements
  <2> QED BY <2>1, <2>2 DEF Surjection
<1>3. IsFiniteSet(1..Len(s)) /\ Cardinality(1..Len(s)) = Len(s)
  <2>1. 1 \in Int /\ Len(s) \in Int
    BY <1>1
  <2>2. /\ IsFiniteSet(1..Len(s))
        /\ Cardinality(1..Len(s)) = IF 1 > Len(s) THEN 0 ELSE Len(s) - 1 + 1
    BY <2>1, FS_Interval
  <2> QED BY <1>1, <2>2
<1>4. IsFiniteSet(Elements(s)) /\ Cardinality(Elements(s)) <= Cardinality(1..Len(s))
  BY <1>2, <1>3, FS_Surjection
<1>5. Cardinality(Elements(s)) \in Nat
  BY <1>4, FS_CardinalityType
<1> QED BY <1>3, <1>4, <1>5

-----------------------------------------------------------------------------
(* The accounts of a queue pair *)

\* The sizes QueuePairMemory::Preallocate gives the pools: enough for a full
\* hardware queue and one burst (PoolsAlwaysCover of DeviceLifecycleProofs).
PoolsCover ==
  /\ Cardinality(Operations) >= MaxInflightOps + BurstSize
  /\ NumMbufs >= (2 * MaxSglSegs) * (MaxInflightOps + BurstSize)

\* No operation has more destinations than sources, nor has Release freed more
\* than it has; only a compression has memzones, and only it ends in Release;
\* the last operation of a batch is completed last.
Sizes(c, pend, data) ==
  /\ \A o \in Elements(pend) :
       /\ data[o].len <= MaxSglSegs
       /\ Len(data[o].dst) <= data[o].len
       /\ c.kind # "compress" => data[o].dst = <<>>
  /\ pend # <<>> => c.freed <= Len(data[Head(pend)].dst)
  /\ c.pc # "take" => c.batch = <<>>
  /\ c.pc = "take" => /\ c.batch # <<>>
                      /\ LET last == c.batch[Len(c.batch)] IN
                         Len(data[last].dst) < data[last].len
  /\ c.pc = "release" \/ (c.pc = "putback" /\ c.result = "error")
       => c.kind = "compress"

\* The mbufs that are free, due, and freed ahead by Release make at most the pool,
\* and exactly the pool where no mbuf has been lost.
Balance(mode, freed, pend, data, mbufs) ==
  \E due : /\ Due(due, pend, data)
           /\ mbufs + due[1] <= NumMbufs + freed
           /\ mode = "exact" => mbufs + due[1] = NumMbufs + freed

\* The pending operations of a compression have all their memzones, but for the
\* batch that is taking them.
AllFilled(c, pend, data) ==
  c.kind = "compress" =>
    \A o \in Elements(pend) \ Elements(c.batch) : Len(data[o].dst) = data[o].len

Accounts(mode, c, qu, pend, free, mbufs, data) ==
  /\ Len(qu) <= MaxInflightOps
  /\ Sizes(c, pend, data)
  /\ Balance(mode, c.freed, pend, data, mbufs)
  /\ mode = "exact" => /\ AllFilled(c, pend, data)
                       /\ free = Operations \ Elements(pend)

AccountsAt(mode, q) ==
  Accounts(mode, call[q], queue[q], pending[q], freeOps[q], freeMbufs[q], op[q])

\* In mode "any" of every behaviour; in mode "exact" of those in which Take never
\* fails in the middle of a batch, with pools that are large enough.
AInv(mode) == ZInv /\ \A q \in QueuePairs : AccountsAt(mode, q)

\* What the invariant says of one queue pair.
LEMMA AccountsOne ==
  ASSUME NEW mode, AInv(mode), NEW q \in QueuePairs
  PROVE  /\ ZInv /\ IInv
         /\ Accounts(mode, call[q], queue[q], pending[q], freeOps[q], freeMbufs[q], op[q])
         /\ call[q] \in Call /\ queue[q] \in Seq(Operations)
         /\ operations[q] \in Seq(Operations) /\ freeMbufs[q] \in Nat
         /\ pending[q] \in Seq(Operations) /\ Distinct(pending[q])
         /\ freeOps[q] \in SUBSET Operations /\ Elements(pending[q]) \cap freeOps[q] = {}
         /\ op[q] \in [Operations -> Operation] /\ buffers[q] \in Seq(Buffer)
         /\ Rest(call[q], pending[q], buffers[q])
         /\ QLocals(call[q], completed[q], queue[q])
         /\ QMatches(call[q], pending[q], queue[q], operations[q])
<1>1. ZInv /\ AccountsAt(mode, q)
  BY Zenon DEF AInv
<1>2. IInv
  BY <1>1, Zenon DEF ZInv
<1>3. Accounts(mode, call[q], queue[q], pending[q], freeOps[q], freeMbufs[q], op[q])
  BY <1>1, Zenon DEF AccountsAt
<1>4. /\ QType(call[q], completed[q], queue[q], stalled[q], pending[q],
               operations[q], freeOps[q], freeMbufs[q], op[q], buffers[q])
      /\ QInv(call[q], completed[q], queue[q], pending[q], operations[q],
              freeOps[q], op[q], buffers[q])
  BY <1>2, Localize, Zenon
<1>5. RestAt(q)
  BY <1>1, Zenon DEF ZInv
<1> QED BY <1>1, <1>2, <1>3, <1>4, <1>5, Zenon DEF QType, QInv, QExclusive, RestAt

\* The operation at the front of the pending ones.
LEMMA FrontFacts ==
  ASSUME NEW pend \in Seq(Operations), pend # <<>>, NEW data \in [Operations -> Operation]
  PROVE  /\ Head(pend) \in Operations /\ Head(pend) \in Elements(pend)
         /\ data[Head(pend)].len \in Nat
         /\ data[Head(pend)].dst \in Seq(Memzones) /\ Len(data[Head(pend)].dst) \in Nat
<1>1. Head(pend) \in Operations /\ Head(pend) \in Elements(pend)
  BY TailFacts
<1>2. data[Head(pend)] \in Operation
  BY <1>1
<1> QED BY <1>1, <1>2 DEF Operation

\* With pools of those sizes no burst finds them empty: what a full hardware
\* queue and the operations assembled before hold leaves enough.
LEMMA BurstFits ==
  ASSUME PoolsCover, AInv("exact"), NEW q \in QueuePairs,
         call[q].pc = "loop", CanAssemble(q)
  PROVE  /\ NextOps(q) <= Cardinality(freeOps[q])
         /\ NextUnits(q) * 2 <= freeMbufs[q]
<1> DEFINE qu == queue[q]
           ops == operations[q]
           pend == pending[q]
           W == 2 * MaxSglSegs
           room == BurstSize - Len(ops)
<1>1. /\ call[q] \in Call /\ qu \in Seq(Operations) /\ ops \in Seq(Operations)
      /\ pend \in Seq(Operations)
      /\ Accounts("exact", call[q], qu, pend, freeOps[q], freeMbufs[q], op[q])
      /\ freeMbufs[q] \in Nat
      /\ QMatches(call[q], pend, qu, ops) /\ QLocals(call[q], completed[q], qu)
      /\ Rest(call[q], pend, buffers[q])
  BY AccountsOne, Zenon
<1>2. /\ Len(qu) \in Nat /\ Len(ops) \in Nat /\ Len(pend) \in Nat
      /\ Len(qu) <= MaxInflightOps /\ MaxInflightOps \in Nat
      /\ room \in Nat /\ W \in Nat /\ BurstSize \in Nat
      /\ NextOps(q) \in Nat /\ NextUnits(q) \in Nat
      /\ NextOps(q) <= room /\ NextUnits(q) <= room * MaxSglSegs
  <2>1. Len(qu) <= MaxInflightOps
    BY <1>1 DEF Accounts
  <2>2. room \in Nat
    BY <1>1, DeviceAssumption DEF CanAssemble
  <2>3. /\ NextOps(q) \in Nat /\ NextUnits(q) \in Nat
        /\ NextOps(q) <= room /\ NextUnits(q) <= room * MaxSglSegs
    BY <1>1, NextSizes
  <2> QED BY <1>1, <2>1, <2>2, <2>3, DeviceAssumption
<1>3. Len(pend) = Len(qu) + Len(ops)
  <2>1. call[q].burst = <<>> /\ call[q].batch = <<>>
    BY <1>1 DEF QLocals
  <2>2. pend = <<>> \o qu \o ops \o <<>>
    BY <1>1, <2>1 DEF QMatches, ActivePCs
  <2> QED BY <1>1, <2>2
<1>4. Len(pend) + room <= MaxInflightOps + BurstSize
  <2>1. /\ Len(qu) \in Nat /\ Len(ops) \in Nat /\ Len(qu) <= MaxInflightOps
        /\ MaxInflightOps \in Nat /\ BurstSize \in Nat
    BY <1>2, Zenon
  <2> HIDE DEF pend, qu, ops
  <2> QED BY <1>3, <2>1
<1> HIDE DEF W
<1>5. NextOps(q) <= Cardinality(freeOps[q])
  <2>1. freeOps[q] = Operations \ Elements(pend)
    BY <1>1 DEF Accounts
  <2>2. /\ IsFiniteSet(Operations)
        /\ Cardinality(Operations) \in Nat
        /\ Operations \cap Elements(pend) = Elements(pend)
    <3>1. IsFiniteSet(Operations)
      BY DeviceAssumption
    <3>2. Elements(pend) \subseteq Operations
      BY <1>1, ElementsType
    <3> QED BY <3>1, <3>2, FS_CardinalityType
  <2>3. Cardinality(freeOps[q]) = Cardinality(Operations) - Cardinality(Elements(pend))
    <3>1. Cardinality(Operations \ Elements(pend))
            = Cardinality(Operations) - Cardinality(Operations \cap Elements(pend))
      BY <2>2, FS_Difference
    <3> QED BY <2>1, <2>2, <3>1
  <2>4. Cardinality(Elements(pend)) \in Nat /\ Cardinality(Elements(pend)) <= Len(pend)
    BY <1>1, ElementsCount
  <2>5. Cardinality(Operations) >= MaxInflightOps + BurstSize
    BY DEF PoolsCover
  <2> HIDE DEF room, pend
  <2> QED BY <1>2, <1>4, <2>2, <2>3, <2>4, <2>5
<1>6. NextUnits(q) * 2 <= freeMbufs[q]
  <2>1. PICK due : Due(due, pend, op[q]) /\ freeMbufs[q] + due[1] = NumMbufs + call[q].freed
    BY <1>1 DEF Accounts, Balance
  <2>2. call[q].freed = 0
    BY <1>1 DEF Rest
  <2>3. due[1] \in Nat /\ due[1] <= W * Len(pend)
    <3>1. 1 \in DOMAIN due /\ due[1] \in Nat /\ due[1] <= W * (Len(pend) + 1 - 1)
      <4>1. due \in [1..(Len(pend) + 1) -> Nat] /\ 1 \in 1..(Len(pend) + 1)
        BY <1>2, <2>1 DEF Due
      <4>2. \A i \in DOMAIN due : due[i] <= W * (Len(pend) + 1 - i)
        BY <2>1, Zenon DEF Due, W
      <4> QED BY <4>1, <4>2
    <3>2. Len(pend) + 1 - 1 = Len(pend)
      BY <1>2
    <3> QED BY <3>1, <3>2
  <2>4. /\ W * (Len(pend) + room) = W * Len(pend) + W * room
        /\ W * Len(pend) \in Nat /\ W * room \in Nat
    <3>1. PICK l, r : l = Len(pend) /\ r = room
      OBVIOUS
    <3>2. W \in Nat /\ l \in Nat /\ r \in Nat
      BY <1>2, <3>1
    <3>3. W * (l + r) = W * l + W * r /\ W * l \in Nat /\ W * r \in Nat
      BY <3>2, TimesSum
    <3> QED BY <3>1, <3>3, Zenon
  <2>5. W * room = 2 * (room * MaxSglSegs) /\ room * MaxSglSegs \in Nat
    <3> HIDE DEF room
    <3>1. room \in Nat /\ MaxSglSegs \in Nat
      BY <1>2, DeviceAssumption
    <3> QED BY <3>1 DEF W
  <2>6. W * (Len(pend) + room) <= W * (MaxInflightOps + BurstSize)
    <3> DEFINE a == Len(pend) + room
               b == MaxInflightOps + BurstSize
    <3>1. a \in Nat /\ b \in Nat /\ a <= b /\ W \in Nat
      <4>1. Len(pend) \in Nat /\ room \in Nat /\ MaxInflightOps \in Nat
            /\ BurstSize \in Nat /\ W \in Nat
        BY <1>2, Zenon
      <4> HIDE DEF room, pend
      <4> QED BY <1>4, <4>1
    <3> HIDE DEF a, b
    <3>2. W * a <= W * b
      BY <3>1
    <3> QED BY <3>2 DEF a, b
  <2>7. NumMbufs >= W * (MaxInflightOps + BurstSize) /\ NumMbufs \in Nat
        /\ W * (MaxInflightOps + BurstSize) \in Nat
    BY <1>2, DeviceAssumption DEF PoolsCover, W
  <2> DEFINE x == W * Len(pend)
             y == room * MaxSglSegs
             z == W * (MaxInflightOps + BurstSize)
             t == W * (Len(pend) + room)
  <2>8. /\ x \in Nat /\ y \in Nat /\ z \in Nat
        /\ t = x + 2 * y /\ t <= z /\ z <= NumMbufs
        /\ due[1] <= x /\ NextUnits(q) <= y
    BY <1>2, <2>3, <2>4, <2>5, <2>6, <2>7
  <2> HIDE DEF x, y, z, t, W, room
  <2> QED BY <1>1, <1>2, <2>1, <2>2, <2>3, <2>7, <2>8
<1> QED BY <1>5, <1>6

-----------------------------------------------------------------------------
(* Steps that leave the pending operations and the mbufs alone *)

\* What the accounts of p are about.
SameAt(p) ==
  /\ call'[p] = call[p] /\ queue'[p] = queue[p] /\ pending'[p] = pending[p]
  /\ freeOps'[p] = freeOps[p] /\ freeMbufs'[p] = freeMbufs[p] /\ op'[p] = op[p]

\* The lcore of q, its queue pair and its memory are no other lcore's business.
LEMMA OthersSame ==
  ASSUME TypeOK, NEW q \in QueuePairs, Invoke(q) \/ Work(q) \/ Complete(q) \/ Stall(q),
         NEW p \in QueuePairs, p # q
  PROVE  SameAt(p)
<1> USE DEF TypeOK, SameAt, poolVars, hwVars
<1>1. CASE Invoke(q)
  BY <1>1 DEF Invoke, Compress, Decompress, Enter, Cancelled, Recycle
<1>2. CASE Assemble(q)
  BY <1>2 DEF Assemble
<1>3. CASE AssembleFails(q)
  BY <1>3 DEF AssembleFails
<1>4. CASE TakeDst(q)
  BY <1>4 DEF TakeDst
<1>5. CASE \/ TakeFails(q) \/ EnqueueFails(q) \/ DequeueFails(q)
           \/ OpFails(q) \/ Return(q)
  BY <1>5 DEF TakeFails, EnqueueFails, DequeueFails, OpFails, Return
<1>6. CASE Enqueue(q)
  BY <1>6 DEF Enqueue
<1>7. CASE Dequeue(q)
  BY <1>7 DEF Dequeue
<1>8. CASE RecycleOp(q)
  BY <1>8 DEF RecycleOp
<1>9. CASE PutBack(q)
  BY <1>9 DEF PutBack
<1>10. CASE ReleaseDst(q)
  BY <1>10 DEF ReleaseDst
<1>11. CASE ReleaseOp(q)
  BY <1>11 DEF ReleaseOp
<1>12. CASE ReleaseEnds(q) \/ Complete(q) \/ Stall(q)
  BY <1>12 DEF ReleaseEnds, Complete, Stall
<1> QED BY <1>1, <1>2, <1>3, <1>4, <1>5, <1>6, <1>7, <1>8, <1>9, <1>10, <1>11, <1>12
        DEF Work

\* A step that changes neither the pending operations nor the mbufs, and starts
\* no batch.
LEMMA CalmAccounts ==
  ASSUME NEW mode, AInv(mode), NEW q \in QueuePairs, NEW c, call'[q] = c,
         pending'[q] = pending[q], op'[q] = op[q], freeMbufs'[q] = freeMbufs[q],
         Len(queue'[q]) <= MaxInflightOps,
         call[q].freed = 0, c.freed = 0, c.pc # "take", c.batch = <<>>,
         c.kind = call[q].kind \/ pending[q] = <<>>,
         c.pc = "release" \/ (c.pc = "putback" /\ c.result = "error")
           => c.kind = "compress",
         mode = "exact" => freeOps'[q] = freeOps[q] /\ call[q].batch = <<>>
  PROVE  AccountsAt(mode, q)'
<1> DEFINE pend == pending[q]
           data == op[q]
<1>1. /\ Accounts(mode, call[q], queue[q], pend, freeOps[q], freeMbufs[q], data)
      /\ pend \in Seq(Operations) /\ data \in [Operations -> Operation]
  BY AccountsOne, Zenon
<1>2. pend = <<>> => Elements(pend) = {}
  BY EmptySeqFacts
<1>3. Sizes(c, pend, data)
  <2>1. Sizes(call[q], pend, data)
    BY <1>1 DEF Accounts
  <2>2. pend # <<>> => Len(data[Head(pend)].dst) \in Nat
    BY <1>1, FrontFacts
  <2> QED BY <1>2, <2>1, <2>2 DEF Sizes
<1>4. mode = "exact" => AllFilled(c, pend, data)
  <2> SUFFICES ASSUME mode = "exact" PROVE AllFilled(c, pend, data)
    OBVIOUS
  <2>1. AllFilled(call[q], pend, data)
    BY <1>1 DEF Accounts
  <2> QED BY <1>2, <2>1 DEF AllFilled
<1>5. Balance(mode, c.freed, pend, data, freeMbufs[q])
  BY <1>1 DEF Accounts
<1>6. mode = "exact" => freeOps'[q] = Operations \ Elements(pend)
  BY <1>1 DEF Accounts
<1>7. Accounts(mode, c, queue'[q], pend, freeOps'[q], freeMbufs[q], data)
  BY <1>3, <1>4, <1>5, <1>6, Zenon DEF Accounts
<1> QED BY <1>7, Zenon DEF AccountsAt

\* The same for a step that leaves the hardware queue alone, too.
LEMMA CalmCall ==
  ASSUME NEW mode, AInv(mode), NEW q \in QueuePairs, NEW c, call' = [call EXCEPT ![q] = c],
         UNCHANGED <<pending, op, freeMbufs, freeOps, queue>>,
         call[q].freed = 0, c.freed = 0, c.pc # "take", c.batch = <<>>,
         c.kind = call[q].kind \/ pending[q] = <<>>,
         c.pc = "release" \/ (c.pc = "putback" /\ c.result = "error")
           => c.kind = "compress",
         mode = "exact" => call[q].batch = <<>>
  PROVE  AccountsAt(mode, q)'
<1>1. /\ Accounts(mode, call[q], queue[q], pending[q], freeOps[q], freeMbufs[q], op[q])
      /\ IInv
  BY AccountsOne, Zenon
<1>2. call'[q] = c
  BY <1>1 DEF IInv, TypeOK
<1>3. Len(queue'[q]) <= MaxInflightOps
  BY <1>1 DEF Accounts
<1> QED BY <1>2, <1>3, CalmAccounts

\* The lcore calls something, or the hardware does something.
LEMMA InvokeAccounts ==
  ASSUME NEW mode, AInv(mode), NEW q \in QueuePairs, Invoke(q) \/ Complete(q) \/ Stall(q)
  PROVE  AccountsAt(mode, q)'
<1>1. /\ Accounts(mode, call[q], queue[q], pending[q], freeOps[q], freeMbufs[q], op[q])
      /\ IInv /\ call[q] \in Call /\ Rest(call[q], pending[q], buffers[q])
  BY AccountsOne, Zenon
<1>2. Sizes(call[q], pending[q], op[q])
  BY <1>1 DEF Accounts
<1>3. call[q].pc = "idle" => call[q].freed = 0 /\ call[q].batch = <<>>
  BY <1>1, <1>2 DEF Rest, Sizes
<1>4. ASSUME NEW kind \in {"compress", "decompress"}, NEW n,
             call[q].pc = "idle", ~Busy(q), Enter(q, kind, n)
      PROVE  AccountsAt(mode, q)'
  <2> DEFINE c == IF Leftovers(q) THEN [NoCall EXCEPT !.pc = "undefined"]
                  ELSE [NoCall EXCEPT !.pc = "loop", !.kind = kind, !.segs = n]
  <2>1. c.pc \in {"undefined", "loop"} /\ c.freed = 0 /\ c.batch = <<>>
    BY DEF NoCall
  <2>2. /\ call' = [call EXCEPT ![q] = c]
        /\ UNCHANGED <<pending, op, freeMbufs, freeOps, queue>>
        /\ pending[q] = <<>>
    BY <1>4 DEF Enter, Busy, poolVars, hwVars
  <2> HIDE DEF c
  <2> QED BY <1>3, <1>4, <2>1, <2>2, CalmCall
<1>5. CASE \E n \in 1..MaxSegs : Compress(q, n)
  BY <1>4, <1>5 DEF Compress, At
<1>6. CASE Decompress(q)
  BY <1>4, <1>6 DEF Decompress, At
<1>7. CASE Cancelled(q)
  <2> DEFINE c == [call[q] EXCEPT !.result = "cancelled"]
  <2>1. call[q].pc = "idle" /\ call' = [call EXCEPT ![q] = c]
        /\ UNCHANGED <<pending, op, freeMbufs, freeOps, queue>>
    BY <1>7 DEF Cancelled, At, poolVars, hwVars
  <2>2. c.pc = "idle" /\ c.kind = call[q].kind /\ c.freed = 0 /\ c.batch = <<>>
    BY <1>1, <1>3, <2>1 DEF Call
  <2> HIDE DEF c
  <2> QED BY <1>3, <2>1, <2>2, CalmCall
<1>8. CASE Recycle(q)
  <2> DEFINE c == [call[q] EXCEPT !.pc = "putback", !.result = "none"]
  <2>1. call[q].pc = "idle" /\ call' = [call EXCEPT ![q] = c]
        /\ UNCHANGED <<pending, op, freeMbufs, freeOps, queue>>
    BY <1>8 DEF Recycle, At, poolVars, hwVars
  <2>2. c.pc = "putback" /\ c.result = "none" /\ c.kind = call[q].kind
        /\ c.freed = 0 /\ c.batch = <<>>
    BY <1>1, <1>3, <2>1 DEF Call
  <2> HIDE DEF c
  <2> QED BY <1>3, <2>1, <2>2, CalmCall
<1>9. CASE Complete(q) \/ Stall(q)
  <2>1. UNCHANGED <<call, queue, pending, freeOps, freeMbufs, op>>
    BY <1>9 DEF Complete, Stall, poolVars
  <2> QED BY <1>1, <2>1, Zenon DEF AccountsAt
<1> QED BY <1>5, <1>6, <1>7, <1>8, <1>9 DEF Invoke

\* The steps of a call that leave the pending operations and the mbufs alone, in
\* mode "exact" without a Take that fails.
CalmWork(mode, q) ==
  \/ AssembleFails(q) \/ (TakeFails(q) /\ mode # "exact")
  \/ Enqueue(q) \/ EnqueueFails(q)
  \/ Dequeue(q) \/ DequeueFails(q)
  \/ OpFails(q) \/ Return(q) \/ PutBack(q) \/ ReleaseEnds(q)

\* A call fails, moves operations to or from the hardware, puts a buffer back, or
\* ends.  In mode "exact" it fails neither for want of a memzone nor, the pools
\* being large enough, for want of an operation or an mbuf.
LEMMA WorkAccounts ==
  ASSUME NEW mode, AInv(mode), mode = "exact" => PoolsCover, NEW q \in QueuePairs,
         CalmWork(mode, q)
  PROVE  AccountsAt(mode, q)'
<1>1. /\ Accounts(mode, call[q], queue[q], pending[q], freeOps[q], freeMbufs[q], op[q])
      /\ IInv /\ call[q] \in Call /\ Rest(call[q], pending[q], buffers[q])
      /\ queue[q] \in Seq(Operations) /\ operations[q] \in Seq(Operations)
      /\ QLocals(call[q], completed[q], queue[q])
      /\ Len(queue[q]) <= MaxInflightOps
  BY AccountsOne, Zenon DEF Accounts
<1>2. Sizes(call[q], pending[q], op[q])
  BY <1>1 DEF Accounts
<1>3. /\ call[q].pc \in ActivePCs \cup {"putback"} => call[q].freed = 0
      /\ call[q].pc = "release" /\ pending[q] = <<>> => call[q].freed = 0
      /\ call[q].pc # "take" => call[q].batch = <<>>
      /\ call[q].pc \in ActivePCs => call[q].kind \in {"compress", "decompress"}
  BY <1>1, <1>2 DEF Rest, Sizes, ActivePCs
<1>4. CASE \/ AssembleFails(q) \/ (TakeFails(q) /\ mode # "exact")
           \/ EnqueueFails(q) \/ DequeueFails(q) \/ OpFails(q)
  <2> DEFINE c == Failed(q, call[q])
  <2>1. /\ call' = [call EXCEPT ![q] = c] /\ call[q].pc \in ActivePCs
        /\ UNCHANGED <<pending, op, freeMbufs, queue>>
    BY <1>1, <1>4 DEF AssembleFails, TakeFails, EnqueueFails, DequeueFails, OpFails,
                      Enqueuing, Dequeuing, At, ActivePCs, poolVars, hwVars
  <2>2. /\ c.freed = 0 /\ c.batch = <<>> /\ c.kind = call[q].kind
        /\ c.pc \in {"idle", "putback", "release"}
        /\ c.pc \in {"putback", "release"} => c.kind = "compress"
    BY <1>1, <1>3, <2>1 DEF Failed, Call
  <2>3. mode = "exact" => freeOps'[q] = freeOps[q] /\ call[q].batch = <<>>
    <3> SUFFICES ASSUME mode = "exact" PROVE freeOps'[q] = freeOps[q] /\ call[q].batch = <<>>
      OBVIOUS
    <3>1. ~AssembleFails(q)
      <4> SUFFICES ASSUME AssembleFails(q) PROVE FALSE
        OBVIOUS
      <4>1. call[q].pc = "loop" /\ CanAssemble(q)
        BY DEF AssembleFails, At
      <4>2. NextOps(q) <= Cardinality(freeOps[q]) /\ NextUnits(q) * 2 <= freeMbufs[q]
        BY <4>1, BurstFits
      <4>3. /\ NextOps(q) \in Nat /\ NextUnits(q) \in Nat /\ freeMbufs[q] \in Nat
            /\ Cardinality(freeOps[q]) \in Nat
        <5>1. NextOps(q) \in Nat /\ NextUnits(q) \in Nat
          BY <1>1, <4>1, NextSizes
        <5>2. freeMbufs[q] \in Nat /\ freeOps[q] \in SUBSET Operations
          BY AccountsOne, Zenon
        <5>3. Cardinality(freeOps[q]) \in Nat
          BY <5>2, DeviceAssumption, FS_Subset, FS_CardinalityType
        <5> QED BY <5>1, <5>2, <5>3
      <4> QED BY <4>2, <4>3 DEF AssembleFails
    <3>2. EnqueueFails(q) \/ DequeueFails(q) \/ OpFails(q)
      BY <1>4, <3>1
    <3> QED BY <1>3, <3>2 DEF EnqueueFails, DequeueFails, OpFails, Enqueuing, Dequeuing,
                              At, poolVars
  <2>4. call'[q] = c
    BY <1>1, <2>1 DEF IInv, TypeOK
  <2> HIDE DEF c
  <2> QED BY <1>1, <1>3, <2>1, <2>2, <2>3, <2>4, CalmAccounts
<1>5. CASE Enqueue(q)
  <2> DEFINE c == [call[q] EXCEPT !.pc = "dequeue"]
  <2>1. /\ call' = [call EXCEPT ![q] = c] /\ call[q].pc = "loop"
        /\ UNCHANGED <<pending, op, freeMbufs, freeOps>>
    BY <1>5 DEF Enqueue, Enqueuing, At, poolVars
  <2>2. c.pc = "dequeue" /\ c.freed = 0 /\ c.batch = <<>> /\ c.kind = call[q].kind
        /\ call[q].freed = 0 /\ call[q].batch = <<>>
    BY <1>1, <1>3, <2>1 DEF Call, ActivePCs
  <2>3. Len(queue'[q]) <= MaxInflightOps
    <3>1. PICK k \in Accepted(q) :
            queue' = [queue EXCEPT ![q] = @ \o SubSeq(operations[q], 1, k)]
      BY <1>5 DEF Enqueue
    <3>2. k \in 0..Len(operations[q]) /\ Len(queue[q]) + k <= MaxInflightOps
      <4> DEFINE a == Len(operations[q])
                 d == Len(queue[q])
      <4>1. a \in Nat /\ d \in Nat /\ d <= MaxInflightOps
        BY <1>1
      <4>2. k \in (IF stalled[q] THEN {0} ELSE 0..Least(a, MaxInflightOps - d))
        BY <3>1 DEF Accepted
      <4> HIDE DEF a, d
      <4>3. k \in 0..a /\ d + k <= MaxInflightOps
        BY <4>1, <4>2, DeviceAssumption DEF Least
      <4> QED BY <4>3 DEF a, d
    <3>3. /\ SubSeq(operations[q], 1, k) \in Seq(Operations)
          /\ Len(SubSeq(operations[q], 1, k)) = k
      BY <1>1, <3>2, SplitSeq
    <3>4. queue'[q] = queue[q] \o SubSeq(operations[q], 1, k)
      BY <1>1, <3>1 DEF IInv, TypeOK
    <3>5. Len(queue'[q]) = Len(queue[q]) + k
      BY <1>1, <3>3, <3>4
    <3> QED BY <3>2, <3>5
  <2>4. call'[q] = c
    BY <1>1, <2>1 DEF IInv, TypeOK
  <2> HIDE DEF c
  <2> QED BY <2>1, <2>2, <2>3, <2>4, CalmAccounts
<1>6. CASE Dequeue(q)
  <2> DEFINE n == NumDequeued(q)
             c == [call[q] EXCEPT !.pc = IF n > 0 THEN "burst" ELSE "loop",
                                  !.burst = SubSeq(queue[q], 1, n)]
  <2>1. /\ call' = [call EXCEPT ![q] = c] /\ call[q].pc \in {"loop", "dequeue"}
        /\ UNCHANGED <<pending, op, freeMbufs, freeOps>>
        /\ queue' = [queue EXCEPT ![q] = SubSeq(@, n + 1, Len(@))]
    BY <1>6 DEF Dequeue, Dequeuing, At, poolVars
  <2>2. n \in 0..Len(queue[q])
    <3>1. completed[q] \in Nat /\ completed[q] <= Len(queue[q]) /\ Len(queue[q]) \in Nat
      BY <1>1 DEF QLocals, IInv, TypeOK
    <3> QED BY <3>1, DeviceAssumption DEF NumDequeued, Least
  <2>3. Len(queue'[q]) <= MaxInflightOps
    <3>1. queue'[q] = SubSeq(queue[q], n + 1, Len(queue[q]))
      BY <1>1, <2>1 DEF IInv, TypeOK
    <3>2. Len(queue'[q]) = Len(queue[q]) - n
      BY <1>1, <2>2, <3>1, SplitSeq
    <3>3. Len(queue[q]) \in Nat /\ n \in Nat /\ MaxInflightOps \in Nat
      BY <1>1, <2>2, DeviceAssumption
    <3> HIDE DEF n
    <3> QED BY <1>1, <3>2, <3>3
  <2> HIDE DEF n
  <2>4. c.pc \in {"loop", "burst"} /\ c.freed = 0 /\ c.batch = <<>> /\ c.kind = call[q].kind
        /\ call[q].freed = 0 /\ call[q].batch = <<>>
    BY <1>1, <1>3, <2>1 DEF Call, ActivePCs
  <2>5. call'[q] = c
    BY <1>1, <2>1 DEF IInv, TypeOK
  <2> HIDE DEF c
  <2> QED BY <2>1, <2>3, <2>4, <2>5, CalmAccounts
<1>7. CASE Return(q)
  <2> DEFINE c == [call[q] EXCEPT !.pc = "idle", !.result = "ok"]
  <2>1. /\ call' = [call EXCEPT ![q] = c] /\ call[q].pc = "loop"
        /\ UNCHANGED <<pending, op, freeMbufs, freeOps, queue>>
    BY <1>7 DEF Return, At, poolVars, hwVars
  <2>2. c.pc = "idle" /\ c.freed = 0 /\ c.batch = <<>> /\ c.kind = call[q].kind
        /\ call[q].freed = 0 /\ call[q].batch = <<>>
    BY <1>1, <1>3, <2>1 DEF Call, ActivePCs
  <2> HIDE DEF c
  <2> QED BY <2>1, <2>2, CalmCall
<1>8. CASE PutBack(q)
  <2> DEFINE pc == IF call[q].result = "error" THEN "release" ELSE "idle"
             c == [call[q] EXCEPT !.pc = pc]
  <2>1. call[q].pc = "putback" /\ UNCHANGED <<pending, op, freeMbufs, freeOps, queue>>
    BY <1>8 DEF PutBack, At, poolVars, hwVars
  <2>2. /\ call[q].freed = 0 /\ call[q].batch = <<>>
        /\ call[q].result = "error" => call[q].kind = "compress"
    BY <1>2, <1>3, <2>1 DEF Sizes
  <2>3. CASE Len(buffers[q]) > 1
    <3>1. call' = call
      BY <1>8, <2>3 DEF PutBack
    <3>2. call' = [call EXCEPT ![q] = call[q]]
      BY <1>1, <3>1 DEF IInv, TypeOK
    <3> QED BY <2>1, <2>2, <3>2, CalmCall
  <2>4. CASE ~(Len(buffers[q]) > 1)
    <3>1. call' = [call EXCEPT ![q] = c]
      BY <1>8, <2>4 DEF PutBack
    <3>2. c.pc = pc /\ c.freed = 0 /\ c.batch = <<>> /\ c.kind = call[q].kind
      BY <1>1, <2>2 DEF Call
    <3>3. c.pc \in {"release", "idle"} /\ (c.pc = "release" => c.kind = "compress")
      BY <2>2, <3>2
    <3> HIDE DEF c, pc
    <3> QED BY <2>1, <2>2, <3>1, <3>2, <3>3, CalmCall
  <2> QED BY <2>3, <2>4
<1>9. CASE ReleaseEnds(q)
  <2> DEFINE c == [call[q] EXCEPT !.pc = "idle"]
  <2>1. /\ call' = [call EXCEPT ![q] = c] /\ call[q].pc = "release" /\ pending[q] = <<>>
        /\ UNCHANGED <<pending, op, freeMbufs, freeOps, queue>>
    BY <1>9 DEF ReleaseEnds, At, poolVars, hwVars
  <2>2. c.pc = "idle" /\ c.freed = 0 /\ c.batch = <<>> /\ c.kind = call[q].kind
        /\ call[q].freed = 0 /\ call[q].batch = <<>>
    BY <1>1, <1>3, <2>1 DEF Call
  <2> HIDE DEF c
  <2> QED BY <2>1, <2>2, CalmCall
<1> QED BY <1>4, <1>5, <1>6, <1>7, <1>8, <1>9, Zenon DEF CalmWork

-----------------------------------------------------------------------------
(* Steps that free operations *)

\* Freeing the operation at the front gives back what was due for it.
LEMMA PopBalance ==
  ASSUME NEW mode, NEW pend \in Seq(Operations), pend # <<>>, Distinct(pend),
         NEW data \in [Operations -> Operation], NEW data2,
         SameBut(data, data2, Head(pend)),
         NEW m \in Nat, NEW f \in Nat, NEW n \in Nat, Balance(mode, f, pend, data, m),
         n + f <= 2 * data[Head(pend)].len,
         mode = "exact" => n + f = 2 * data[Head(pend)].len
  PROVE  Balance(mode, 0, Tail(pend), data2, m + n)
<1>1. PICK due : /\ Due(due, pend, data)
                 /\ m + due[1] <= NumMbufs + f
                 /\ mode = "exact" => m + due[1] = NumMbufs + f
  BY DEF Balance
<1>2. data[Head(pend)].len \in Nat
  BY FrontFacts
<1>3. PICK due2 : Due(due2, Tail(pend), data2) /\ LessDue(due, due2, data[Head(pend)])
  BY <1>1, <1>2, DueTail, Zenon
<1> DEFINE d == due[1]
           e == due2[1]
           l == data[Head(pend)].len
<1>4. /\ d = 2 * l + e /\ e \in Nat /\ l \in Nat
      /\ m + d <= NumMbufs + f /\ n + f <= 2 * l
      /\ mode = "exact" => m + d = NumMbufs + f /\ n + f = 2 * l
  BY <1>1, <1>2, <1>3 DEF LessDue
<1> HIDE DEF d, e, l
<1>5. m + n + e <= NumMbufs + 0
  BY <1>4, DeviceAssumption
<1>6. mode = "exact" => m + n + e = NumMbufs + 0
  BY <1>4, DeviceAssumption
<1> USE DEF d, e, l
<1> QED BY <1>3, <1>5, <1>6 DEF Balance

\* The operation at the front is freed, with those of its mbufs that Release has
\* not freed yet.
LEMMA PopAccounts ==
  ASSUME NEW mode, AInv(mode), NEW q \in QueuePairs, NEW c, call'[q] = c,
         pending[q] # <<>>, pending'[q] = Tail(pending[q]),
         SameBut(op[q], op'[q], Head(pending[q])), queue'[q] = queue[q],
         freeOps'[q] = freeOps[q] \cup {Head(pending[q])},
         NEW n \in Nat, freeMbufs'[q] = freeMbufs[q] + n,
         n + call[q].freed <= 2 * op[q][Head(pending[q])].len,
         mode = "exact" => n + call[q].freed = 2 * op[q][Head(pending[q])].len,
         call[q].batch = <<>>, c.batch = <<>>, c.freed = 0, c.kind = call[q].kind,
         c.pc \in {"loop", "burst"} \/ (c.pc = "release" /\ c.kind = "compress")
  PROVE  AccountsAt(mode, q)'
<1>1. PICK pend, data, data2 : pend = pending[q] /\ data = op[q] /\ data2 = op'[q]
  OBVIOUS
<1>2. /\ Accounts(mode, call[q], queue[q], pend, freeOps[q], freeMbufs[q], data)
      /\ pend \in Seq(Operations) /\ Distinct(pend) /\ Elements(pend) \cap freeOps[q] = {}
      /\ data \in [Operations -> Operation] /\ freeMbufs[q] \in Nat /\ call[q] \in Call
      /\ pend # <<>>
  BY <1>1, AccountsOne, Zenon
<1>3. PICK o \in Operations : o = Head(pend)
  BY <1>2, FrontFacts
<1>4. PICK t \in Seq(Operations) : t = Tail(pend)
  BY <1>2, TailFacts
<1>5. /\ Elements(pend) = Elements(t) \cup {o} /\ o \notin Elements(t)
      /\ Elements(t) \subseteq Operations
  BY <1>2, <1>3, <1>4, TailFacts, ElementsType
<1>6. \A x \in Elements(t) : data2[x] = data[x] /\ x \in Elements(pend)
  BY <1>1, <1>3, <1>5 DEF SameBut
<1>7. Sizes(c, t, data2)
  <2>1. Sizes(call[q], pend, data)
    BY <1>2 DEF Accounts
  <2>2. ASSUME t # <<>> PROVE Len(data2[Head(t)].dst) \in Nat
    <3>1. Head(t) \in Elements(t) /\ Len(data[Head(t)].dst) \in Nat
      BY <1>2, <2>2, FrontFacts
    <3> QED BY <1>6, <3>1
  <2> QED BY <1>6, <2>1, <2>2 DEF Sizes
<1>8. Balance(mode, 0, t, data2, freeMbufs[q] + n)
  <2>1. Balance(mode, call[q].freed, pend, data, freeMbufs[q]) /\ call[q].freed \in Nat
    BY <1>2 DEF Accounts, Call
  <2>2. SameBut(data, data2, Head(pend))
    BY <1>1
  <2>3. /\ n + call[q].freed <= 2 * data[Head(pend)].len
        /\ mode = "exact" => n + call[q].freed = 2 * data[Head(pend)].len
    BY <1>1
  <2> QED BY <1>2, <1>4, <2>1, <2>2, <2>3, PopBalance, Zenon
<1>9. mode = "exact" => AllFilled(c, t, data2) /\ freeOps'[q] = Operations \ Elements(t)
  <2> SUFFICES ASSUME mode = "exact"
               PROVE  AllFilled(c, t, data2) /\ freeOps'[q] = Operations \ Elements(t)
    OBVIOUS
  <2>1. AllFilled(call[q], pend, data) /\ freeOps[q] = Operations \ Elements(pend)
    BY <1>2 DEF Accounts
  <2>2. AllFilled(c, t, data2)
    BY <1>6, <2>1 DEF AllFilled
  <2>3. freeOps'[q] = freeOps[q] \cup {o}
    BY <1>1, <1>3
  <2> QED BY <1>5, <2>1, <2>2, <2>3
<1>10. Accounts(mode, c, queue'[q], t, freeOps'[q], freeMbufs[q] + n, data2)
  <2>1. Len(queue'[q]) <= MaxInflightOps
    BY <1>2 DEF Accounts
  <2>2. Balance(mode, c.freed, t, data2, freeMbufs[q] + n)
    BY <1>8
  <2> QED BY <1>7, <1>9, <2>1, <2>2, Zenon DEF Accounts
<1> QED BY <1>1, <1>4, <1>10, Zenon DEF AccountsAt

\* RecycleResources frees an operation with all of its mbufs.
LEMMA RecycleOpAccounts ==
  ASSUME NEW mode, AInv(mode), NEW q \in QueuePairs, RecycleOp(q)
  PROVE  AccountsAt(mode, q)'
<1>1. PICK pend, data : pend = pending[q] /\ data = op[q]
  OBVIOUS
<1>2. /\ Accounts(mode, call[q], queue[q], pend, freeOps[q], freeMbufs[q], data)
      /\ IInv /\ call[q] \in Call /\ pend \in Seq(Operations) /\ call[q].pc = "burst"
      /\ data \in [Operations -> Operation] /\ Rest(call[q], pend, buffers[q])
  BY <1>1, AccountsOne, Zenon DEF RecycleOp, At
<1>3. call[q].freed = 0 /\ call[q].batch = <<>>
  <2>1. Sizes(call[q], pend, data)
    BY <1>2 DEF Accounts
  <2> QED BY <1>2, <2>1 DEF Rest, Sizes
<1>4. pend # <<>> /\ Head(pend) = Head(call[q].burst)
  BY <1>1, <1>2, FrontOfBurst
<1>5. PICK o \in Operations : o = Head(pend) /\ o = Head(call[q].burst) /\ data[o].len \in Nat
  BY <1>2, <1>4, FrontFacts
<1>6. PICK c : /\ call' = [call EXCEPT ![q] = c]
               /\ c.pc \in {"loop", "burst"} /\ c.kind = call[q].kind /\ c.freed = 0
               /\ c.batch = <<>>
  <2> DEFINE rest == Tail(call[q].burst)
             decoded == IF call[q].kind # "decompress" THEN call[q].decoded ELSE
                Append(call[q].decoded, [slot |-> op[q][Head(call[q].burst)].first,
                                         first |-> Source(q, Head(call[q].burst))[1].first])
             c == [call[q] EXCEPT !.pc = IF rest = <<>> THEN "loop" ELSE "burst",
                                  !.burst = rest, !.decoded = decoded]
  <2>1. call' = [call EXCEPT ![q] = c]
    BY <1>2 DEF RecycleOp
  <2> HIDE DEF rest, decoded
  <2>2. /\ c.pc \in {"loop", "burst"} /\ c.kind = call[q].kind /\ c.freed = 0
        /\ c.batch = <<>>
    BY <1>2, <1>3 DEF Call
  <2> HIDE DEF c
  <2> QED BY <2>1, <2>2
<1>7. /\ pending' = [pending EXCEPT ![q] = Tail(pend)]
      /\ freeOps' = [freeOps EXCEPT ![q] = @ \cup {o}]
      /\ freeMbufs' = [freeMbufs EXCEPT ![q] = @ + 2 * data[o].len]
      /\ op' = [op EXCEPT ![q][o] = UnusedOp] /\ queue' = queue
  BY <1>1, <1>5 DEF RecycleOp, NumMbufsOf, hwVars
<1>8. PICK data2 : data2 = op'[q]
  OBVIOUS
<1>9. /\ call'[q] = c /\ pending'[q] = Tail(pend) /\ queue'[q] = queue[q]
      /\ freeOps'[q] = freeOps[q] \cup {Head(pend)}
      /\ SameBut(data, data2, Head(pend))
  BY <1>1, <1>2, <1>5, <1>6, <1>7, <1>8 DEF IInv, TypeOK, SameBut
<1>10. PICK n \in Nat : n = 2 * data[o].len
  BY <1>5
<1>11. /\ freeMbufs'[q] = freeMbufs[q] + n
       /\ n + call[q].freed <= 2 * data[Head(pend)].len
       /\ n + call[q].freed = 2 * data[Head(pend)].len
  <2>1. freeMbufs'[q] = freeMbufs[q] + n
    BY <1>2, <1>7, <1>10 DEF IInv, TypeOK
  <2>2. call[q].freed = 0 /\ n = 2 * data[Head(pend)].len
    BY <1>3, <1>5, <1>10
  <2> QED BY <1>10, <2>1, <2>2
<1>12. /\ pending[q] # <<>> /\ pending'[q] = Tail(pending[q])
       /\ SameBut(op[q], op'[q], Head(pending[q]))
       /\ freeOps'[q] = freeOps[q] \cup {Head(pending[q])}
       /\ n + call[q].freed <= 2 * op[q][Head(pending[q])].len
       /\ n + call[q].freed = 2 * op[q][Head(pending[q])].len
  BY <1>1, <1>4, <1>8, <1>9, <1>11
<1> QED BY <1>3, <1>6, <1>9, <1>11, <1>12, PopAccounts

\* Release frees an operation and its source mbufs; its destination mbufs it has
\* freed before.
LEMMA ReleaseOpAccounts ==
  ASSUME NEW mode, AInv(mode), NEW q \in QueuePairs, ReleaseOp(q)
  PROVE  AccountsAt(mode, q)'
<1>1. PICK pend, data : pend = pending[q] /\ data = op[q]
  OBVIOUS
<1>2. /\ Accounts(mode, call[q], queue[q], pend, freeOps[q], freeMbufs[q], data)
      /\ IInv /\ call[q] \in Call /\ pend \in Seq(Operations) /\ call[q].pc = "release"
      /\ data \in [Operations -> Operation] /\ pend # <<>>
  BY <1>1, AccountsOne, Zenon DEF ReleaseOp, At
<1>3. /\ call[q].batch = <<>> /\ call[q].kind = "compress" /\ call[q].freed \in Nat
      /\ \A x \in Elements(pend) : Len(data[x].dst) <= data[x].len
  <2>1. Sizes(call[q], pend, data)
    BY <1>2 DEF Accounts
  <2> QED BY <1>2, <2>1 DEF Sizes, Call
<1>4. PICK o \in Operations : o = Head(pend) /\ o \in Elements(pend) /\ data[o].len \in Nat
  BY <1>2, FrontFacts
<1>5. PICK c : /\ call' = [call EXCEPT ![q] = c] /\ c.freed = 0 /\ c.pc = "release"
               /\ c.kind = call[q].kind /\ c.batch = <<>>
  <2> DEFINE c == [call[q] EXCEPT !.freed = 0]
  <2>1. call' = [call EXCEPT ![q] = c]
    BY DEF ReleaseOp
  <2>2. c.freed = 0 /\ c.pc = "release" /\ c.kind = call[q].kind /\ c.batch = <<>>
    BY <1>2, <1>3 DEF Call
  <2> HIDE DEF c
  <2> QED BY <2>1, <2>2
<1>6. /\ call[q].freed = Len(data[o].dst)
      /\ pending' = [pending EXCEPT ![q] = Tail(pend)]
      /\ freeOps' = [freeOps EXCEPT ![q] = @ \cup {o}]
      /\ freeMbufs' = [freeMbufs EXCEPT ![q] = @ + data[o].len]
      /\ op' = op \/ op' = [op EXCEPT ![q][o] = UnusedOp]
      /\ queue' = queue
  BY <1>1, <1>4 DEF ReleaseOp, hwVars
<1>7. PICK data2 : data2 = op'[q]
  OBVIOUS
<1>8. /\ call'[q] = c /\ pending'[q] = Tail(pend) /\ queue'[q] = queue[q]
      /\ freeOps'[q] = freeOps[q] \cup {Head(pend)}
      /\ SameBut(data, data2, Head(pend))
  <2>1. call'[q] = c
    BY <1>2, <1>5 DEF IInv, TypeOK
  <2>2. pending'[q] = Tail(pend) /\ queue'[q] = queue[q]
    BY <1>2, <1>6 DEF IInv, TypeOK
  <2>3. freeOps'[q] = freeOps[q] \cup {Head(pend)}
    BY <1>2, <1>4, <1>6 DEF IInv, TypeOK
  <2>4. op \in [QueuePairs -> [Operations -> Operation]]
    BY <1>2 DEF IInv, TypeOK
  <2>5. SameBut(data, data2, Head(pend))
    BY <1>1, <1>4, <1>6, <1>7, <2>4 DEF SameBut
  <2> QED BY <2>1, <2>2, <2>3, <2>5
<1>9. PICK n \in Nat : n = data[o].len
  BY <1>4
<1>10. /\ freeMbufs'[q] = freeMbufs[q] + n
       /\ call[q].freed <= n
       /\ n + call[q].freed <= 2 * data[Head(pend)].len
  <2>1. freeMbufs'[q] = freeMbufs[q] + n
    BY <1>2, <1>6, <1>9 DEF IInv, TypeOK
  <2>2. call[q].freed <= n
    BY <1>3, <1>4, <1>6, <1>9
  <2>3. n = data[Head(pend)].len
    BY <1>4, <1>9
  <2> QED BY <1>3, <1>9, <2>1, <2>2, <2>3
<1>11. mode = "exact" => n + call[q].freed = 2 * data[Head(pend)].len
  <2> SUFFICES ASSUME mode = "exact" PROVE n + call[q].freed = 2 * data[Head(pend)].len
    OBVIOUS
  <2>1. AllFilled(call[q], pend, data)
    BY <1>2 DEF Accounts
  <2>2. Len(data[o].dst) = data[o].len
    BY <1>3, <1>4, <2>1, EmptySeqFacts DEF AllFilled
  <2> QED BY <1>4, <1>6, <1>9, <2>2
<1>12. /\ pending[q] # <<>> /\ pending'[q] = Tail(pending[q])
       /\ SameBut(op[q], op'[q], Head(pending[q]))
       /\ freeOps'[q] = freeOps[q] \cup {Head(pending[q])}
       /\ n + call[q].freed <= 2 * op[q][Head(pending[q])].len
       /\ mode = "exact" => n + call[q].freed = 2 * op[q][Head(pending[q])].len
       /\ c.pc = "release" /\ c.kind = "compress"
  BY <1>1, <1>2, <1>3, <1>5, <1>7, <1>8, <1>10, <1>11
<1> QED BY <1>3, <1>5, <1>8, <1>10, <1>12, PopAccounts

\* Release frees one destination mbuf.
LEMMA ReleaseDstAccounts ==
  ASSUME NEW mode, AInv(mode), NEW q \in QueuePairs, ReleaseDst(q)
  PROVE  AccountsAt(mode, q)'
<1>1. PICK pend, data : pend = pending[q] /\ data = op[q]
  OBVIOUS
<1>2. /\ Accounts(mode, call[q], queue[q], pend, freeOps[q], freeMbufs[q], data)
      /\ IInv /\ call[q] \in Call /\ call[q].pc = "release" /\ freeMbufs[q] \in Nat
      /\ call[q].freed \in Nat
  BY <1>1, AccountsOne DEF ReleaseDst, At, Call
<1>3. Sizes(call[q], pend, data)
  BY <1>2 DEF Accounts
<1>4. PICK i \in Nat : i = call[q].freed + 1
  BY <1>2
<1>5. PICK c : /\ call' = [call EXCEPT ![q] = c] /\ c.freed = i /\ c.pc = "release"
               /\ c.kind = call[q].kind /\ c.batch = <<>>
  <2> DEFINE c == [call[q] EXCEPT !.freed = i]
  <2>1. call' = [call EXCEPT ![q] = c]
    BY <1>4 DEF ReleaseDst
  <2>2. c.freed = i /\ c.pc = "release" /\ c.kind = call[q].kind /\ c.batch = <<>>
    BY <1>2, <1>3 DEF Call, Sizes
  <2> HIDE DEF c
  <2> QED BY <2>1, <2>2
<1>6. /\ i <= Len(data[Head(pend)].dst)
      /\ freeMbufs' = [freeMbufs EXCEPT ![q] = @ + 1]
      /\ UNCHANGED <<pending, op, queue, freeOps>>
  BY <1>1, <1>4 DEF ReleaseDst, hwVars
<1>7. /\ call'[q] = c /\ pending'[q] = pend /\ queue'[q] = queue[q] /\ op'[q] = data
      /\ freeOps'[q] = freeOps[q] /\ freeMbufs'[q] = freeMbufs[q] + 1
  BY <1>1, <1>2, <1>5, <1>6 DEF IInv, TypeOK
<1>8. Sizes(c, pend, data)
  BY <1>2, <1>3, <1>5, <1>6 DEF Sizes
<1>9. Balance(mode, i, pend, data, freeMbufs[q] + 1)
  <2>1. PICK due : /\ Due(due, pend, data)
                   /\ freeMbufs[q] + due[1] <= NumMbufs + call[q].freed
                   /\ mode = "exact" => freeMbufs[q] + due[1] = NumMbufs + call[q].freed
    BY <1>2 DEF Accounts, Balance
  <2>2. due[1] \in Nat
    <3>1. due \in [1..(Len(pend) + 1) -> Nat]
      BY <2>1 DEF Due
    <3>2. 1 \in 1..(Len(pend) + 1)
      <4>1. pend \in Seq(Operations)
        BY <1>1, AccountsOne
      <4>2. Len(pend) \in Nat
        BY <4>1
      <4> QED BY <4>2
    <3> QED BY <3>1, <3>2
  <2> DEFINE d == due[1]
             f == call[q].freed
             m == freeMbufs[q]
  <2>3. /\ d \in Nat /\ f \in Nat /\ m \in Nat /\ i = f + 1
        /\ m + d <= NumMbufs + f
        /\ mode = "exact" => m + d = NumMbufs + f
    BY <1>2, <1>4, <2>1, <2>2
  <2> HIDE DEF d, f, m
  <2>4. /\ m + 1 + d <= NumMbufs + i
        /\ mode = "exact" => m + 1 + d = NumMbufs + i
    BY <2>3, DeviceAssumption
  <2> USE DEF d, f, m
  <2> QED BY <2>1, <2>4 DEF Balance
<1>10. mode = "exact" => AllFilled(c, pend, data) /\ freeOps[q] = Operations \ Elements(pend)
  <2> SUFFICES ASSUME mode = "exact"
               PROVE  AllFilled(c, pend, data) /\ freeOps[q] = Operations \ Elements(pend)
    OBVIOUS
  <2>1. AllFilled(call[q], pend, data) /\ freeOps[q] = Operations \ Elements(pend)
    BY <1>2 DEF Accounts
  <2>2. call[q].batch = <<>>
    BY <1>2, <1>3 DEF Sizes
  <2> QED BY <1>5, <2>1, <2>2 DEF AllFilled
<1>11. Accounts(mode, c, queue[q], pend, freeOps[q], freeMbufs[q] + 1, data)
  <2>1. Len(queue[q]) <= MaxInflightOps
    BY <1>2 DEF Accounts
  <2>2. Balance(mode, c.freed, pend, data, freeMbufs[q] + 1)
    BY <1>5, <1>9
  <2> QED BY <1>8, <1>10, <2>1, <2>2, Zenon DEF Accounts
<1> QED BY <1>7, <1>11, Zenon DEF AccountsAt

-----------------------------------------------------------------------------
(* Steps that assemble a batch *)

\* The end of a sequence without repetition has none, either.
LEMMA DistinctEnd ==
  ASSUME NEW S, NEW s \in Seq(S), NEW t \in Seq(S), Distinct(s \o t)
  PROVE  Distinct(t) /\ Elements(t) \subseteq Elements(s \o t)
<1>1. /\ Len(s) \in Nat /\ Len(t) \in Nat /\ DOMAIN t = 1..Len(t)
      /\ DOMAIN (s \o t) = 1..(Len(s) + Len(t))
      /\ \A i \in 1..Len(t) : (s \o t)[Len(s) + i] = t[i]
  OBVIOUS
<1>2. ASSUME NEW i \in DOMAIN t, NEW j \in DOMAIN t, t[i] = t[j] PROVE i = j
  <2>1. /\ Len(s) + i \in DOMAIN (s \o t) /\ Len(s) + j \in DOMAIN (s \o t)
        /\ (s \o t)[Len(s) + i] = t[i] /\ (s \o t)[Len(s) + j] = t[j]
        /\ i \in Nat /\ j \in Nat
    BY <1>1
  <2>2. Len(s) + i = Len(s) + j
    BY <1>2, <2>1 DEF Distinct
  <2> QED BY <1>1, <2>1, <2>2
<1>3. Elements(t) \subseteq Elements(s \o t)
  BY ElementsOfConcat
<1> QED BY <1>2, <1>3 DEF Distinct

\* The batch that takes memzones is part of what is pending.
LEMMA BatchPending ==
  ASSUME IInv, NEW q \in QueuePairs, call[q].pc = "take"
  PROVE  /\ call[q].batch \in Seq(Operations) /\ Distinct(call[q].batch)
         /\ Elements(call[q].batch) \subseteq Elements(pending[q])
<1>1. /\ call[q] \in Call /\ queue[q] \in Seq(Operations) /\ operations[q] \in Seq(Operations)
      /\ Distinct(pending[q]) /\ QMatches(call[q], pending[q], queue[q], operations[q])
  BY Localize DEF QType, QInv, QExclusive
<1>2. call[q].batch \in Seq(Operations) /\ call[q].burst \in Seq(Operations)
  BY <1>1 DEF Call
<1>3. PICK s \in Seq(Operations) : s = call[q].burst \o queue[q] \o operations[q]
  BY <1>1, <1>2, ConcatProperties
<1>4. pending[q] = s \o call[q].batch
  BY <1>1, <1>3 DEF QMatches, ActivePCs
<1> QED BY <1>1, <1>2, <1>3, <1>4, DistinctEnd

\* A destination mbuf gets a memzone; the last one completes the batch.
LEMMA TakeDstAccounts ==
  ASSUME NEW mode, AInv(mode), NEW q \in QueuePairs, TakeDst(q)
  PROVE  AccountsAt(mode, q)'
<1>1. PICK pend, data, b : pend = pending[q] /\ data = op[q] /\ b = call[q].batch
  OBVIOUS
<1>2. /\ Accounts(mode, call[q], queue[q], pend, freeOps[q], freeMbufs[q], data)
      /\ IInv /\ call[q] \in Call /\ pend \in Seq(Operations) /\ call[q].pc = "take"
      /\ data \in [Operations -> Operation] /\ Rest(call[q], pend, buffers[q])
      /\ QLocals(call[q], completed[q], queue[q])
  BY <1>1, AccountsOne, Zenon DEF TakeDst, At
<1>3. /\ b \in Seq(Operations) /\ Distinct(b) /\ Elements(b) \subseteq Elements(pend)
      /\ Elements(pend) \subseteq Operations
  BY <1>1, <1>2, BatchPending, ElementsType
<1>4. /\ Sizes(call[q], pend, data) /\ Balance(mode, call[q].freed, pend, data, freeMbufs[q])
      /\ Len(queue[q]) <= MaxInflightOps
      /\ call[q].kind = "compress" /\ call[q].freed = 0
      /\ b # <<>> /\ Len(data[b[Len(b)]].dst) < data[b[Len(b)]].len
      /\ \A x \in Elements(pend) : Len(data[x].dst) <= data[x].len
  BY <1>1, <1>2 DEF Accounts, QLocals, Rest, ActivePCs, Sizes
<1>5. PICK i \in DOMAIN b, z \in Memzones :
        /\ ~Filled(q, b[i])
        /\ \A j \in 1..(i - 1) : Filled(q, b[j])
        /\ op' = [op EXCEPT ![q][b[i]].dst = Append(@, z)]
        /\ IF i = Len(b) /\ Len(op[q][b[i]].dst) + 1 = op[q][b[i]].len
             THEN call' = [call EXCEPT ![q].pc = "loop", ![q].batch = <<>>]
             ELSE UNCHANGED call
  BY <1>1 DEF TakeDst
<1>6. PICK o \in Operations :
        /\ o = b[i] /\ o \in Elements(b) /\ o \in Elements(pend)
        /\ i \in 1..Len(b) /\ Len(b) \in Nat /\ DOMAIN b = 1..Len(b)
  BY <1>3 DEF Elements
<1>7. PICK data2 : data2 = op'[q]
  OBVIOUS
<1>8. /\ SameBut(data, data2, o)
      /\ data2[o].len = data[o].len /\ Len(data2[o].dst) = Len(data[o].dst) + 1
      /\ data[o].len \in Nat /\ Len(data[o].dst) \in Nat
      /\ Len(data[o].dst) < data[o].len
  <2>1. data2 = [data EXCEPT ![o].dst = Append(@, z)]
    BY <1>1, <1>2, <1>5, <1>6, <1>7 DEF IInv, TypeOK
  <2>2. data[o] \in Operation
    BY <1>2
  <2>3. data[o].dst \in Seq(Memzones) /\ data[o].len \in Nat
    BY <2>2 DEF Operation
  <2>4. SameBut(data, data2, o)
    BY <1>2, <2>1 DEF SameBut
  <2>5. data2[o].dst = Append(data[o].dst, z) /\ data2[o].len = data[o].len
    BY <1>2, <2>1, <2>2 DEF Operation
  <2>6. Len(data2[o].dst) = Len(data[o].dst) + 1 /\ Len(data[o].dst) \in Nat
    BY <2>3, <2>5
  <2>7. Len(data[o].dst) # data[o].len
    BY <1>1, <1>5, <1>6 DEF Filled
  <2>8. Len(data[o].dst) <= data[o].len
    BY <1>4, <1>6
  <2> QED BY <2>3, <2>4, <2>5, <2>6, <2>7, <2>8
<1>9. \A x \in Elements(pend) : x # o => data2[x] = data[x]
  BY <1>3, <1>8 DEF SameBut
<1>10. UNCHANGED <<pending, freeOps, freeMbufs, queue>>
  BY DEF TakeDst, hwVars
<1>11. PICK c :
         /\ call'[q] = c /\ c.freed = 0 /\ c.kind = "compress"
         /\ \/ /\ c.pc = "loop" /\ c.batch = <<>>
               /\ i = Len(b) /\ Len(data2[o].dst) = data2[o].len
            \/ /\ c.pc = "take" /\ c.batch = b
               /\ i # Len(b) \/ Len(data2[o].dst) < data2[o].len
  <2>1. CASE i = Len(b) /\ Len(op[q][b[i]].dst) + 1 = op[q][b[i]].len
    <3> DEFINE c == [call[q] EXCEPT !.pc = "loop", !.batch = <<>>]
    <3>1. call'[q] = c
      BY <1>2, <1>5, <2>1 DEF IInv, TypeOK
    <3>2. c.pc = "loop" /\ c.batch = <<>> /\ c.kind = "compress" /\ c.freed = 0
      BY <1>2, <1>4 DEF Call
    <3>3. i = Len(b) /\ Len(data2[o].dst) = data2[o].len
      BY <1>1, <1>6, <1>8, <2>1
    <3> HIDE DEF c
    <3> QED BY <3>1, <3>2, <3>3
  <2>2. CASE ~(i = Len(b) /\ Len(op[q][b[i]].dst) + 1 = op[q][b[i]].len)
    <3>1. call'[q] = call[q]
      BY <1>5, <2>2
    <3>2. i # Len(b) \/ Len(data[o].dst) + 1 # data[o].len
      BY <1>1, <1>6, <2>2
    <3>3. i # Len(b) \/ Len(data2[o].dst) < data2[o].len
      BY <1>8, <3>2
    <3> QED BY <1>1, <1>2, <1>4, <3>1, <3>3
  <2> QED BY <2>1, <2>2
<1>12. Sizes(c, pend, data2)
  <2>1. \A x \in Elements(pend) :
          data2[x].len <= MaxSglSegs /\ Len(data2[x].dst) <= data2[x].len
    <3>1. \A x \in Elements(pend) :
            data[x].len <= MaxSglSegs /\ Len(data[x].dst) <= data[x].len
      BY <1>4 DEF Sizes
    <3> QED BY <1>6, <1>8, <1>9, <3>1
  <2>2. pend # <<>> => 0 <= Len(data2[Head(pend)].dst)
    <3> SUFFICES ASSUME pend # <<>> PROVE 0 <= Len(data2[Head(pend)].dst)
      OBVIOUS
    <3>1. Head(pend) \in Elements(pend) /\ Len(data[Head(pend)].dst) \in Nat
      BY <1>2, FrontFacts
    <3> QED BY <1>8, <1>9, <3>1
  <2>3. c.pc = "take" => Len(data2[b[Len(b)]].dst) < data2[b[Len(b)]].len
    <3> SUFFICES ASSUME c.pc = "take"
                 PROVE  Len(data2[b[Len(b)]].dst) < data2[b[Len(b)]].len
      OBVIOUS
    <3>1. i # Len(b) \/ Len(data2[o].dst) < data2[o].len
      BY <1>11
    <3>2. CASE i = Len(b)
      BY <1>6, <3>1, <3>2
    <3>3. CASE i # Len(b)
      <4>1. Len(b) \in DOMAIN b
        BY <1>6
      <4>2. b[Len(b)] \in Elements(pend) /\ b[Len(b)] # o
        BY <1>3, <1>6, <3>3, <4>1 DEF Distinct, Elements
      <4> QED BY <1>4, <1>9, <4>2
    <3> QED BY <3>2, <3>3
  <2> QED BY <1>4, <1>11, <2>1, <2>2, <2>3 DEF Sizes
<1>13. Balance(mode, 0, pend, data2, freeMbufs[q])
  <2>1. PICK due : /\ Due(due, pend, data)
                   /\ freeMbufs[q] + due[1] <= NumMbufs + 0
                   /\ mode = "exact" => freeMbufs[q] + due[1] = NumMbufs + 0
    BY <1>4 DEF Balance
  <2>2. \A x \in Elements(pend) : data2[x].len = data[x].len
    BY <1>8, <1>9
  <2>3. Due(due, pend, data2)
    BY <1>2, <2>1, <2>2, DueSame, Zenon
  <2> QED BY <2>1, <2>3 DEF Balance
<1>14. mode = "exact" => AllFilled(c, pend, data2) /\ freeOps[q] = Operations \ Elements(pend)
  <2> SUFFICES ASSUME mode = "exact"
               PROVE  AllFilled(c, pend, data2) /\ freeOps[q] = Operations \ Elements(pend)
    OBVIOUS
  <2>1. AllFilled(call[q], pend, data) /\ freeOps[q] = Operations \ Elements(pend)
    BY <1>2 DEF Accounts
  <2>2. \A x \in Elements(pend) \ Elements(b) : Len(data2[x].dst) = data2[x].len
    BY <1>1, <1>4, <1>6, <1>9, <2>1 DEF AllFilled
  <2>3. c.batch = <<>> =>
          \A x \in Elements(b) : Len(data2[x].dst) = data2[x].len
    <3> SUFFICES ASSUME c.batch = <<>>, NEW j \in DOMAIN b
                 PROVE  Len(data2[b[j]].dst) = data2[b[j]].len
      BY DEF Elements
    <3>1. i = Len(b) /\ Len(data2[o].dst) = data2[o].len
      BY <1>4, <1>11
    <3>2. CASE j = i
      BY <1>6, <3>1, <3>2
    <3>3. CASE j # i
      <4>1. j \in 1..(i - 1)
        BY <1>6, <3>1, <3>3
      <4>2. Len(data[b[j]].dst) = data[b[j]].len
        BY <1>1, <1>5, <4>1 DEF Filled
      <4>3. b[j] \in Elements(pend) /\ b[j] # o
        BY <1>3, <1>6, <3>3 DEF Distinct, Elements
      <4> QED BY <1>9, <4>2, <4>3
    <3> QED BY <3>2, <3>3
  <2>4. AllFilled(c, pend, data2)
    BY <1>11, <2>2, <2>3 DEF AllFilled
  <2> QED BY <2>1, <2>4
<1>15. Accounts(mode, c, queue[q], pend, freeOps[q], freeMbufs[q], data2)
  BY <1>4, <1>11, <1>12, <1>13, <1>14, Zenon DEF Accounts
<1>16. /\ queue'[q] = queue[q] /\ pending'[q] = pend /\ freeOps'[q] = freeOps[q]
       /\ freeMbufs'[q] = freeMbufs[q]
  BY <1>1, <1>10
<1> QED BY <1>7, <1>11, <1>15, <1>16, Zenon DEF AccountsAt

\* A batch joins: its mbufs become due, and it lacks all of its memzones.
LEMMA AssembleAccounts ==
  ASSUME NEW mode, AInv(mode), IInv', NEW q \in QueuePairs, Assemble(q)
  PROVE  AccountsAt(mode, q)'
<1>1. PICK pend, data, data2 : pend = pending[q] /\ data = op[q] /\ data2 = op'[q]
  OBVIOUS
<1>2. /\ Accounts(mode, call[q], queue[q], pend, freeOps[q], freeMbufs[q], data)
      /\ IInv /\ call[q] \in Call /\ pend \in Seq(Operations)
      /\ call[q].pc = "loop" /\ CanAssemble(q)
      /\ data \in [Operations -> Operation] /\ Rest(call[q], pend, buffers[q])
      /\ operations[q] \in Seq(Operations) /\ freeOps[q] \in SUBSET Operations
      /\ Elements(pend) \cap freeOps[q] = {} /\ freeMbufs[q] \in Nat
  BY <1>1, AccountsOne, Zenon DEF Assemble, At
<1>3. data2 \in [Operations -> Operation]
  BY <1>1, Zenon DEF IInv, TypeOK
<1>4. /\ Sizes(call[q], pend, data) /\ Balance(mode, call[q].freed, pend, data, freeMbufs[q])
      /\ Len(queue[q]) <= MaxInflightOps
      /\ call[q].batch = <<>> /\ call[q].freed = 0
      /\ call[q].kind \in {"compress", "decompress"}
  BY <1>2 DEF Accounts, Sizes, Rest, ActivePCs
<1>5. PICK k \in Nat \ {0}, u \in Nat : k = NextOps(q) /\ u = NextUnits(q)
  BY <1>2, NextSizes
<1>6. /\ u > 0 /\ (k - 1) * MaxSglSegs < u /\ u <= k * MaxSglSegs
      /\ \A i \in 1..k : Assembled(q, i).len >= 1
  BY <1>2, <1>5, NextSizes, NextFacts
<1>7. PICK b \in Allocations(q, k) :
        /\ freeOps' = [freeOps EXCEPT ![q] = @ \ Elements(b)]
        /\ freeMbufs' = [freeMbufs EXCEPT ![q] = @ - u * 2]
        /\ op' = [op EXCEPT ![q] =
             [o \in Operations |-> IF \E i \in DOMAIN b : b[i] = o
                                     THEN Assembled(q, CHOOSE i \in DOMAIN b : b[i] = o)
                                     ELSE @[o]]]
        /\ pending' = [pending EXCEPT ![q] = @ \o b]
        /\ IF call[q].kind = "compress"
             THEN call' = [call EXCEPT ![q].pc = "take", ![q].index = @ + u,
                                       ![q].batch = b]
             ELSE call' = [call EXCEPT ![q].index = @ + u]
  BY <1>5 DEF Assemble
<1>8. u * 2 <= freeMbufs[q] /\ UNCHANGED queue
  BY <1>5 DEF Assemble, hwVars
<1>9. /\ b \in Seq(Operations) /\ DOMAIN b = 1..k /\ Distinct(b)
      /\ Elements(b) \subseteq freeOps[q] /\ Len(b) = k /\ k \in 1..k /\ b # <<>>
  <2>1. /\ b \in Seq(Operations) /\ DOMAIN b = 1..k /\ Distinct(b)
        /\ Elements(b) \subseteq freeOps[q]
    BY <1>2, AllocationFacts
  <2>2. Len(b) = k
    BY <2>1
  <2> QED BY <2>1, <2>2
<1>10. PICK c :
         /\ call'[q] = c /\ c.freed = 0 /\ c.kind = call[q].kind
         /\ \/ c.pc = "take" /\ c.batch = b /\ c.kind = "compress"
            \/ c.pc = "loop" /\ c.batch = <<>> /\ c.kind # "compress"
  <2> DEFINE index == call[q].index + u
             c1 == [call[q] EXCEPT !.pc = "take", !.index = index, !.batch = b]
             c2 == [call[q] EXCEPT !.index = index]
  <2>1. \/ call[q].kind = "compress" /\ call' = [call EXCEPT ![q] = c1]
        \/ call[q].kind # "compress" /\ call' = [call EXCEPT ![q] = c2]
    <3>1. call \in [QueuePairs -> Call]
      BY <1>2 DEF IInv, TypeOK
    <3>2. CASE call[q].kind = "compress"
      <4>1. call' = [call EXCEPT ![q].pc = "take", ![q].index = @ + u, ![q].batch = b]
        BY <1>7, <3>2
      <4> QED BY <3>1, <3>2, <4>1
    <3>3. CASE call[q].kind # "compress"
      <4>1. call' = [call EXCEPT ![q].index = @ + u]
        BY <1>7, <3>3
      <4> QED BY <3>1, <3>3, <4>1
    <3> QED BY <3>2, <3>3
  <2> HIDE DEF index
  <2>2. /\ c1.pc = "take" /\ c1.kind = call[q].kind /\ c1.freed = 0 /\ c1.batch = b
        /\ c2.pc = "loop" /\ c2.kind = call[q].kind /\ c2.freed = 0 /\ c2.batch = <<>>
    BY <1>2, <1>4 DEF Call
  <2> HIDE DEF c1, c2
  <2>3. \A x : call' = [call EXCEPT ![q] = x] => call'[q] = x
    BY <1>2 DEF IInv, TypeOK
  <2> QED BY <2>1, <2>2, <2>3
<1>11. \A i \in 1..k :
         /\ data2[b[i]] = Assembled(q, i)
         /\ Assembled(q, i).dst = <<>>
         /\ Assembled(q, i).len = Least(MaxSglSegs, u - (i - 1) * MaxSglSegs)
  <2> TAKE i \in 1..k
  <2>1. data2 = [o \in Operations |->
                   IF \E j \in DOMAIN b : b[j] = o
                     THEN Assembled(q, CHOOSE j \in DOMAIN b : b[j] = o) ELSE data[o]]
    BY <1>1, <1>2, <1>7 DEF IInv, TypeOK
  <2>2. b[i] \in Operations
    BY <1>9
  <2>3. data2[b[i]] = Assembled(q, CHOOSE j \in DOMAIN b : b[j] = b[i])
    <3> HIDE DEF Assembled
    <3> QED BY <1>9, <2>1, <2>2
  <2>4. (CHOOSE j \in DOMAIN b : b[j] = b[i]) = i
    BY <1>9 DEF Distinct
  <2>5. Assembled(q, i).dst = <<>>
        /\ Assembled(q, i).len = Least(MaxSglSegs, u - (i - 1) * MaxSglSegs)
    BY <1>5, Zenon DEF Assembled
  <2> QED BY <2>3, <2>4, <2>5, Zenon
<1>12. \A x \in Elements(pend) : data2[x] = data[x] /\ x \notin Elements(b)
  <2>1. data2 = [o \in Operations |->
                   IF \E j \in DOMAIN b : b[j] = o
                     THEN Assembled(q, CHOOSE j \in DOMAIN b : b[j] = o) ELSE data[o]]
    BY <1>1, <1>2, <1>7 DEF IInv, TypeOK
  <2>2. \A x \in Elements(pend) : x \in Operations /\ x \notin Elements(b)
    BY <1>2, <1>9, ElementsType
  <2> HIDE DEF Assembled
  <2> QED BY <2>1, <2>2 DEF Elements
<1>13. \A x \in Elements(b) : /\ data2[x].dst = <<>> /\ data2[x].len \in Nat
                              /\ data2[x].len <= MaxSglSegs /\ data2[x].len >= 1
  <2> SUFFICES ASSUME NEW i \in 1..k
               PROVE  /\ data2[b[i]].dst = <<>> /\ data2[b[i]].len \in Nat
                      /\ data2[b[i]].len <= MaxSglSegs /\ data2[b[i]].len >= 1
    BY <1>9 DEF Elements
  <2>1. data2[b[i]] \in Operation
    BY <1>3, <1>9
  <2>2. data2[b[i]].len \in Nat
    BY <2>1 DEF Operation
  <2>3. data2[b[i]].dst = <<>>
    BY <1>11
  <2>4. data2[b[i]].len = Least(MaxSglSegs, u - (i - 1) * MaxSglSegs)
    BY <1>11
  <2>5. data2[b[i]].len <= MaxSglSegs
    <3> DEFINE before == (i - 1) * MaxSglSegs
               left == u - before
    <3>1. before \in Int
      BY DeviceAssumption
    <3> HIDE DEF before
    <3>2. left \in Int
      BY <3>1
    <3> HIDE DEF left
    <3>3. Least(MaxSglSegs, left) <= MaxSglSegs
      BY <3>2, DeviceAssumption DEF Least
    <3> QED BY <2>4, <3>3 DEF left, before
  <2> QED BY <1>6, <1>11, <2>2, <2>3, <2>5
<1>14. Elements(pend \o b) = Elements(pend) \cup Elements(b) /\ pend \o b \in Seq(Operations)
  BY <1>2, <1>9, ElementsOfConcat
<1>15. Sizes(c, pend \o b, data2)
  <2>1. \A x \in Elements(pend \o b) :
          /\ data2[x].len <= MaxSglSegs /\ Len(data2[x].dst) <= data2[x].len
          /\ c.kind # "compress" => data2[x].dst = <<>>
    <3>1. \A x \in Elements(pend) :
            /\ data2[x].len <= MaxSglSegs /\ Len(data2[x].dst) <= data2[x].len
            /\ c.kind # "compress" => data2[x].dst = <<>>
      BY <1>4, <1>10, <1>12 DEF Sizes
    <3>2. \A x \in Elements(b) : Len(data2[x].dst) = 0 /\ Len(data2[x].dst) <= data2[x].len
      BY <1>13
    <3> QED BY <1>13, <1>14, <3>1, <3>2
  <2>2. pend \o b # <<>> => 0 <= Len(data2[Head(pend \o b)].dst)
    <3> SUFFICES ASSUME pend \o b # <<>> PROVE 0 <= Len(data2[Head(pend \o b)].dst)
      OBVIOUS
    <3>1. Len(data2[Head(pend \o b)].dst) \in Nat
      BY <1>3, <1>14, FrontFacts, Zenon
    <3> QED BY <3>1
  <2>3. Len(data2[b[Len(b)]].dst) < data2[b[Len(b)]].len
    <3>1. b[Len(b)] \in Elements(b)
      BY <1>9 DEF Elements
    <3>2. data2[b[Len(b)]].dst = <<>> /\ data2[b[Len(b)]].len >= 1
          /\ data2[b[Len(b)]].len \in Nat
      BY <1>13, <3>1
    <3>3. Len(data2[b[Len(b)]].dst) = 0
      BY <3>2
    <3> QED BY <3>2, <3>3
  <2> QED BY <1>9, <1>10, <2>1, <2>2, <2>3 DEF Sizes
<1>16. Balance(mode, 0, pend \o b, data2, freeMbufs[q] - u * 2)
  <2>1. PICK due : /\ Due(due, pend, data)
                   /\ freeMbufs[q] + due[1] <= NumMbufs + 0
                   /\ mode = "exact" => freeMbufs[q] + due[1] = NumMbufs + 0
    BY <1>4 DEF Balance
  <2>2. PICK more : Due(more, b, data2) /\ more[1] = u * 2
    <3>1. \A i \in 1..k : data2[b[i]].len = Least(MaxSglSegs, u - (i - 1) * MaxSglSegs)
      BY <1>11
    <3> QED BY <1>6, <1>9, <3>1, DueBatch
  <2>3. PICK all : Due(all, pend \o b, data2) /\ JointDue(all, due, more)
    <3>1. \A x \in Elements(pend) : data2[x].len = data[x].len
      BY <1>12
    <3> QED BY <1>2, <1>3, <1>9, <2>1, <2>2, <3>1, DueConcat, Zenon
  <2> DEFINE d == due[1]
             m == freeMbufs[q]
  <2>4. /\ d \in Nat /\ m \in Nat /\ u * 2 <= m /\ all[1] = d + u * 2
        /\ m + d <= NumMbufs + 0
        /\ mode = "exact" => m + d = NumMbufs + 0
    BY <1>2, <1>8, <2>1, <2>2, <2>3 DEF JointDue
  <2> HIDE DEF d, m
  <2>5. m - u * 2 + all[1] <= NumMbufs + 0
    BY <2>4, DeviceAssumption
  <2>6. mode = "exact" => m - u * 2 + all[1] = NumMbufs + 0
    BY <2>4, DeviceAssumption
  <2> QED BY <2>3, <2>5, <2>6 DEF Balance, m
<1>17. mode = "exact" => /\ AllFilled(c, pend \o b, data2)
                         /\ freeOps[q] \ Elements(b) = Operations \ Elements(pend \o b)
  <2> SUFFICES ASSUME mode = "exact"
               PROVE  /\ AllFilled(c, pend \o b, data2)
                      /\ freeOps[q] \ Elements(b) = Operations \ Elements(pend \o b)
    OBVIOUS
  <2>1. AllFilled(call[q], pend, data) /\ freeOps[q] = Operations \ Elements(pend)
    BY <1>2 DEF Accounts
  <2>2. Elements(call[q].batch) = {}
    BY <1>4, EmptySeqFacts
  <2>3. AllFilled(c, pend \o b, data2)
    BY <1>10, <1>12, <1>14, <2>1, <2>2 DEF AllFilled
  <2> QED BY <1>14, <2>1, <2>3
<1>18. Accounts(mode, c, queue[q], pend \o b, freeOps[q] \ Elements(b),
                freeMbufs[q] - u * 2, data2)
  BY <1>4, <1>10, <1>15, <1>16, <1>17, Zenon DEF Accounts
<1>19. /\ queue'[q] = queue[q] /\ pending'[q] = pend \o b
       /\ freeOps'[q] = freeOps[q] \ Elements(b)
       /\ freeMbufs'[q] = freeMbufs[q] - u * 2
  BY <1>1, <1>2, <1>7, <1>8 DEF IInv, TypeOK
<1> QED BY <1>1, <1>10, <1>18, <1>19, Zenon DEF AccountsAt

-----------------------------------------------------------------------------
(* The invariant *)

\* At first nothing is pending and the pools are full.
LEMMA InitA == ASSUME NEW mode, Init PROVE AInv(mode)
<1>1. ZInv
  BY InitZ
<1>2. ASSUME NEW q \in QueuePairs PROVE AccountsAt(mode, q)
  <2>1. /\ call[q] = NoCall /\ queue[q] = <<>> /\ pending[q] = <<>>
        /\ freeOps[q] = Operations /\ freeMbufs[q] = NumMbufs
    BY DEF Init
  <2>2. Len(<<>>) = 0 /\ Elements(<<>>) = {}
    BY EmptySeqFacts
  <2>3. Sizes(NoCall, <<>>, op[q])
    BY <2>2 DEF Sizes, NoCall
  <2>4. Balance(mode, 0, <<>>, op[q], NumMbufs)
    <3>1. PICK due : due = [i \in {1} |-> 0]
      OBVIOUS
    <3>2. Due(due, <<>>, op[q]) /\ due[1] = 0
      BY <3>1, DueNothing
    <3>3. NumMbufs + due[1] = NumMbufs + 0
      BY <3>2
    <3>4. NumMbufs + due[1] <= NumMbufs + 0
      BY <3>2, DeviceAssumption
    <3> QED BY <3>2, <3>3, <3>4 DEF Balance
  <2>5. AllFilled(NoCall, <<>>, op[q]) /\ Operations = Operations \ Elements(<<>>)
    BY <2>2 DEF AllFilled, NoCall
  <2>6. Len(<<>>) <= MaxInflightOps
    BY <2>2, DeviceAssumption
  <2>7. Balance(mode, NoCall.freed, <<>>, op[q], NumMbufs)
    BY <2>4 DEF NoCall
  <2>8. Accounts(mode, NoCall, <<>>, <<>>, Operations, NumMbufs, op[q])
    BY <2>3, <2>5, <2>6, <2>7, Zenon DEF Accounts
  <2> QED BY <2>1, <2>8, Zenon DEF AccountsAt
<1> QED BY <1>1, <1>2, Zenon DEF AInv

\* Every step keeps the accounts of every queue pair.
LEMMA StepA ==
  ASSUME NEW mode, AInv(mode), [Next]_vars,
         mode = "exact" => PoolsCover,
         mode = "exact" => [\A q \in QueuePairs : ~TakeFails(q)]_vars
  PROVE  AInv(mode)'
<1>1. ZInv' /\ IInv' /\ ZInv /\ TypeOK
  <2>1. ZInv
    BY Zenon DEF AInv
  <2>2. ZInv'
    BY <2>1, StepZ
  <2> QED BY <2>1, <2>2, Zenon DEF ZInv, IInv
<1>2. \A p \in QueuePairs : AccountsAt(mode, p)
  BY Zenon DEF AInv
<1>3. CASE UNCHANGED vars
  <2>1. UNCHANGED <<call, queue, pending, freeOps, freeMbufs, op>>
    BY <1>3 DEF vars, poolVars, hwVars
  <2> QED BY <1>1, <1>2, <2>1, Zenon DEF AInv, AccountsAt
<1>4. ASSUME NEW q \in QueuePairs, Invoke(q) \/ Work(q) \/ Complete(q) \/ Stall(q),
             ~UNCHANGED vars
      PROVE  AInv(mode)'
  <2>1. AccountsAt(mode, q)'
    <3>1. CASE Invoke(q) \/ Complete(q) \/ Stall(q)
      BY <3>1, InvokeAccounts
    <3>2. CASE Assemble(q)    BY <1>1, <3>2, AssembleAccounts
    <3>3. CASE TakeDst(q)     BY <3>3, TakeDstAccounts
    <3>4. CASE RecycleOp(q)   BY <3>4, RecycleOpAccounts
    <3>5. CASE ReleaseDst(q)  BY <3>5, ReleaseDstAccounts
    <3>6. CASE ReleaseOp(q)   BY <3>6, ReleaseOpAccounts
    <3>7. CASE \/ AssembleFails(q) \/ TakeFails(q)
               \/ Enqueue(q) \/ EnqueueFails(q)
               \/ Dequeue(q) \/ DequeueFails(q)
               \/ OpFails(q) \/ Return(q) \/ PutBack(q) \/ ReleaseEnds(q)
      <4>1. TakeFails(q) => mode # "exact"
        BY <1>4
      <4>2. CalmWork(mode, q)
        BY <3>7, <4>1, Zenon DEF CalmWork
      <4> QED BY <4>2, WorkAccounts, Zenon
    <3> QED BY <1>4, <3>1, <3>2, <3>3, <3>4, <3>5, <3>6, <3>7 DEF Work
  <2>2. ASSUME NEW p \in QueuePairs, p # q PROVE AccountsAt(mode, p)'
    <3>1. SameAt(p)
      BY <1>1, <1>4, <2>2, OthersSame
    <3> QED BY <1>2, <3>1, Zenon DEF AccountsAt, SameAt
  <2>3. \A p \in QueuePairs : AccountsAt(mode, p)'
    BY <2>1, <2>2, Zenon
  <2> QED BY <1>1, <2>3, Zenon DEF AInv
<1> QED BY <1>3, <1>4 DEF Next

\* The accounts of every behaviour.
LEMMA AccountsAlways == Spec => []AInv("any")
<1>1. Init => AInv("any")
  BY InitA
<1>2. AInv("any") /\ [Next]_vars => AInv("any")'
  BY StepA
<1> QED BY <1>1, <1>2, PTL DEF Spec

\* A behaviour in which Take never fails.
TakesSucceed == [][\A q \in QueuePairs : ~TakeFails(q)]_vars

\* Its accounts.
LEMMA AccountsExact ==
  ASSUME PoolsCover
  PROVE  Spec /\ TakesSucceed => []AInv("exact")
<1>1. Init => AInv("exact")
  BY InitA
<1>2. AInv("exact") /\ [Next]_vars /\ [\A q \in QueuePairs : ~TakeFails(q)]_vars
        => AInv("exact")'
  BY StepA
<1> QED BY <1>1, <1>2, PTL DEF Spec, TakesSucceed

-----------------------------------------------------------------------------
(* What the accounts show *)

\* What is due without pending operations, and at least with some.
LEMMA DueBounds ==
  ASSUME NEW pend \in Seq(Operations), NEW data \in [Operations -> Operation],
         NEW due, Due(due, pend, data)
  PROVE  /\ due[1] \in Nat
         /\ pend = <<>> => due[1] = 0
         /\ pend # <<>> => due[1] >= 2 * data[Head(pend)].len
<1>1. /\ Len(pend) \in Nat /\ DOMAIN pend = 1..Len(pend)
      /\ pend = <<>> => Len(pend) = 0
      /\ pend # <<>> => 1 \in DOMAIN pend /\ Head(pend) = pend[1]
  OBVIOUS
<1>2. due \in [1..(Len(pend) + 1) -> Nat] /\ 1 \in 1..(Len(pend) + 1)
  BY <1>1 DEF Due
<1>3. pend = <<>> => due[1] = 0
  <2> SUFFICES ASSUME pend = <<>> PROVE due[1] = 0
    OBVIOUS
  <2>1. due[Len(pend) + 1] = 0 /\ Len(pend) + 1 = 1
    BY <1>1 DEF Due
  <2> QED BY <2>1
<1>4. ASSUME pend # <<>> PROVE due[1] >= 2 * data[Head(pend)].len
  <2>1. due[1] = 2 * data[Head(pend)].len + due[1 + 1]
    BY <1>1, <1>4 DEF Due
  <2>2. due[1 + 1] \in Nat
    <3>1. 1 + 1 \in 1..(Len(pend) + 1)
      BY <1>1, <1>4
    <3> QED BY <1>2, <3>1
  <2>3. data[Head(pend)].len \in Nat
    BY <1>4, FrontFacts
  <2> QED BY <2>1, <2>2, <2>3
<1> QED BY <1>2, <1>3, <1>4

\* However calls end, no mbuf is given back that was not taken: Release, which
\* frees the destination mbufs of an operation one by one and its sources later,
\* never counts one of them twice.
THEOREM MbufsAlwaysBounded == Spec => []MbufsBounded
<1>1. AInv("any") => MbufsBounded
  <2> SUFFICES ASSUME AInv("any"), NEW q \in QueuePairs PROVE freeMbufs[q] <= NumMbufs
    BY DEF MbufsBounded
  <2> DEFINE pend == pending[q]
             data == op[q]
             f == call[q].freed
             m == freeMbufs[q]
  <2>1. /\ Accounts("any", call[q], queue[q], pend, freeOps[q], m, data)
        /\ pend \in Seq(Operations) /\ data \in [Operations -> Operation]
        /\ Rest(call[q], pend, buffers[q]) /\ m \in Nat /\ call[q] \in Call
    BY AccountsOne, Zenon
  <2>2. Sizes(call[q], pend, data) /\ Balance("any", f, pend, data, m) /\ f \in Nat
    BY <2>1 DEF Accounts, Call
  <2>3. PICK due : Due(due, pend, data) /\ m + due[1] <= NumMbufs + f
    BY <2>2 DEF Balance
  <2>4. due[1] \in Nat
    BY <2>1, <2>3, DueBounds
  <2>5. f <= due[1]
    <3>1. CASE pend = <<>>
      <4>1. f = 0
        BY <2>1, <3>1 DEF Rest
      <4> QED BY <2>4, <4>1
    <3>2. CASE pend # <<>>
      <4> DEFINE l == data[Head(pend)].len
                 n == Len(data[Head(pend)].dst)
      <4>1. l \in Nat /\ n \in Nat /\ Head(pend) \in Elements(pend)
        BY <2>1, <3>2, FrontFacts
      <4>2. f <= n /\ n <= l
        BY <2>2, <3>2, <4>1 DEF Sizes
      <4>3. due[1] >= 2 * l
        BY <2>1, <2>3, <3>2, DueBounds
      <4> HIDE DEF l, n
      <4> QED BY <2>2, <2>4, <4>1, <4>2, <4>3
    <3> QED BY <3>1, <3>2
  <2> HIDE DEF f, m
  <2>6. m <= NumMbufs
    BY <2>1, <2>2, <2>3, <2>4, <2>5, DeviceAssumption
  <2> QED BY <2>6 DEF m
<1> QED BY <1>1, AccountsAlways, PTL

\* Pools of the sizes that Preallocate gives them never run dry: as long as no
\* Take fails, BulkAllocate finds the operations and mbufs of every burst.
THEOREM PoolsAlwaysSuffice ==
  ASSUME PoolsCover
  PROVE  Spec /\ TakesSucceed => []PoolsSuffice
<1>1. AInv("exact") => PoolsSuffice
  BY BurstFits DEF PoolsSuffice, At
<1> QED BY <1>1, AccountsExact, PTL

\* And as long as no Take fails, no path through a call, failed or not, loses an
\* operation or an mbuf.
THEOREM PoolsAlwaysRefilled ==
  ASSUME PoolsCover
  PROVE  Spec /\ TakesSucceed => []PoolsRefilled
<1>1. AInv("exact") => PoolsRefilled
  <2> SUFFICES ASSUME AInv("exact"), NEW q \in QueuePairs,
                      call[q].pc = "idle", pending[q] = <<>>
               PROVE  freeOps[q] = Operations /\ freeMbufs[q] = NumMbufs
    BY DEF PoolsRefilled, At, Busy
  <2>1. /\ Accounts("exact", call[q], queue[q], pending[q], freeOps[q], freeMbufs[q], op[q])
        /\ Rest(call[q], pending[q], buffers[q]) /\ freeMbufs[q] \in Nat
        /\ op[q] \in [Operations -> Operation] /\ pending[q] \in Seq(Operations)
    BY AccountsOne, Zenon
  <2>2. freeOps[q] = Operations
    <3>1. freeOps[q] = Operations \ Elements(pending[q])
      BY <2>1 DEF Accounts
    <3> QED BY <3>1, EmptySeqFacts
  <2>3. call[q].freed = 0
    BY <2>1 DEF Rest
  <2>4. PICK due : /\ Due(due, pending[q], op[q])
                   /\ freeMbufs[q] + due[1] = NumMbufs + 0
    BY <2>1, <2>3 DEF Accounts, Balance
  <2>5. due[1] = 0
    BY <2>1, <2>4, DueBounds
  <2>6. freeMbufs[q] = NumMbufs
    BY <2>1, <2>4, <2>5, DeviceAssumption
  <2> QED BY <2>2, <2>6
<1> QED BY <1>1, AccountsExact, PTL

-----------------------------------------------------------------------------
(* Every taken memzone is in use or has gone astray *)

\* The memzones taken that someone can still put back, if they are in use.
Kept == occupied \ astray

\* Each of them is used by some queue pair.
EachUsed == \A z \in Kept : \E q \in QueuePairs : z \in ZonesOf(q)

\* Each memzone that was used is put back, is in a buffer, or is used by an
\* operation that is still pending.
LEMMA StillUsed ==
  ASSUME NEW freed, NEW pend, NEW data, NEW bufs,
         NEW freed2, NEW pend2, NEW data2, NEW bufs2, NEW X,
         \A i \in DOMAIN bufs : \/ bufs[i].zone \in X
                                \/ \E k \in DOMAIN bufs2 : bufs2[k].zone = bufs[i].zone,
         \A k, l \in Nat : Holds(freed, pend, data, k, l) =>
           \/ data[pend[k]].dst[l] \in X
           \/ \E i \in DOMAIN bufs2 : bufs2[i].zone = data[pend[k]].dst[l]
           \/ \E m \in Nat : \E n \in Nat :
                /\ Holds(freed2, pend2, data2, m, n)
                /\ data2[pend2[m]].dst[n] = data[pend[k]].dst[l]
  PROVE  Zones(freed, pend, data, bufs) \subseteq Zones(freed2, pend2, data2, bufs2) \cup X
<1> SUFFICES ASSUME NEW z \in Zones(freed, pend, data, bufs), z \notin X
             PROVE  z \in Zones(freed2, pend2, data2, bufs2)
  OBVIOUS
<1>1. z \in Memzones
  BY DEF Zones
<1>2. CASE \E i \in DOMAIN bufs : bufs[i].zone = z
  BY <1>1, <1>2 DEF Zones
<1>3. CASE \E k, l \in Nat : Holds(freed, pend, data, k, l) /\ data[pend[k]].dst[l] = z
  <2>1. PICK k \in Nat, l \in Nat : Holds(freed, pend, data, k, l) /\ data[pend[k]].dst[l] = z
    BY <1>3
  <2>2. \/ \E i \in DOMAIN bufs2 : bufs2[i].zone = z
        \/ \E m \in Nat : \E n \in Nat :
             Holds(freed2, pend2, data2, m, n) /\ data2[pend2[m]].dst[n] = z
    BY <2>1
  <2> QED BY <1>1, <2>2, Zenon DEF Zones
<1> QED BY <1>2, <1>3 DEF Zones

\* A step of q that gives back at most the memzones of X.
LEMMA StrayFrame ==
  ASSUME EachUsed, NEW q \in QueuePairs, Others(q), NEW X,
         ZonesOf(q) \subseteq ZonesOf(q)' \cup X,
         Kept' \subseteq (Kept \cup ZonesOf(q)') \ X
  PROVE  EachUsed'
<1> SUFFICES ASSUME NEW z \in Kept' PROVE \E p \in QueuePairs : z \in ZonesOf(p)'
  BY DEF EachUsed
<1>1. z \notin X /\ (z \in Kept \/ z \in ZonesOf(q)')
  OBVIOUS
<1>2. CASE z \in ZonesOf(q)'
  BY <1>2
<1>3. CASE z \in Kept
  <2>1. PICK p \in QueuePairs : z \in ZonesOf(p)
    BY <1>3, Zenon DEF EachUsed
  <2>2. CASE p = q
    BY <1>1, <2>1, <2>2
  <2>3. CASE p # q
    <3>1. /\ call'[p] = call[p] /\ pending'[p] = pending[p]
          /\ op'[p] = op[p] /\ buffers'[p] = buffers[p]
      BY <2>3 DEF Others
    <3>2. ZonesOf(p)' = ZonesOf(p)
      BY <3>1, Zenon DEF ZonesOf
    <3> QED BY <2>1, <3>2
  <2> QED BY <2>2, <2>3
<1> QED BY <1>1, <1>2, <1>3

\* A step that touches no memzone.
LEMMA StrayQuiet ==
  ASSUME EachUsed, IInv, NEW q \in QueuePairs, NEW c,
         call' = [call EXCEPT ![q] = c],
         UNCHANGED <<memoryVars, pending, op, buffers>>,
         c.freed = call[q].freed \/ pending[q] = <<>>
  PROVE  EachUsed'
<1>1. call'[q] = c /\ Others(q)
  BY DEF IInv, TypeOK, Others
<1>2. \A k, l : Holds(c.freed, pending[q], op[q], k, l)
                  <=> Holds(call[q].freed, pending[q], op[q], k, l)
  BY DEF Holds
<1>3. ZonesOf(q)' = ZonesOf(q)
  <2>1. Zones(c.freed, pending[q], op[q], buffers[q]) = ZonesOf(q)
    BY <1>2 DEF Zones, ZonesOf
  <2> QED BY <1>1, <2>1, Zenon DEF ZonesOf
<1>4. Kept' = Kept
  BY DEF memoryVars, Kept
<1>5. ZonesOf(q) \subseteq ZonesOf(q)' \cup {} /\ Kept' \subseteq (Kept \cup ZonesOf(q)') \ {}
  BY <1>3, <1>4
<1> QED BY <1>1, <1>5, StrayFrame, Zenon

\* Put ends the keeping of its memzone, whether it finds it or misses it.
LEMMA PutRecord ==
  ASSUME ZInv, NEW q, NEW z, PutZone(q, z)
  PROVE  Kept' = Kept \ {z}
<1>1. Stock /\ IInv
  BY Zenon DEF ZInv
<1>2. pool \in Seq(Memzones) /\ occupied \subseteq Memzones
  BY <1>1 DEF IInv, TypeOK
<1>3. CASE DM!Put(z) /\ UNCHANGED astray
  <2>1. occupied' = occupied \ {z}
    BY <1>1, <1>2, <1>3, PutStock, Zenon
  <2> QED BY <1>3, <2>1 DEF Kept
<1>4. CASE DM!PutMisses /\ astray' = astray \cup (occupied \cap {z})
  <2>1. occupied' = occupied
    BY <1>4 DEF DM!PutMisses, DM!vars
  <2> QED BY <1>4, <2>1 DEF Kept
<1> QED BY <1>3, <1>4 DEF PutZone

\* A step that leaves everything alone.
LEMMA StraySame ==
  ASSUME EachUsed, UNCHANGED <<memoryVars, call, pending, op, buffers>>
  PROVE  EachUsed'
<1>1. Kept' = Kept
  BY DEF memoryVars, Kept
<1>2. \A q \in QueuePairs : ZonesOf(q)' = ZonesOf(q)
  BY Zenon DEF ZonesOf
<1> QED BY <1>1, <1>2, Zenon DEF EachUsed

\* The lcore calls something, or the hardware does something.
LEMMA StrayInvoke ==
  ASSUME EachUsed, ZInv, NEW q \in QueuePairs, Invoke(q) \/ Complete(q) \/ Stall(q)
  PROVE  EachUsed'
<1>1. IInv /\ call[q] \in Call /\ Rest(call[q], pending[q], buffers[q])
  BY AtOne, Zenon
<1>2. ASSUME NEW kind, NEW n, ~Busy(q), Enter(q, kind, n)
      PROVE  EachUsed'
  <2> DEFINE c == IF Leftovers(q) THEN [NoCall EXCEPT !.pc = "undefined"]
                  ELSE [NoCall EXCEPT !.pc = "loop", !.kind = kind, !.segs = n]
  <2>1. /\ call' = [call EXCEPT ![q] = c] /\ pending[q] = <<>>
        /\ UNCHANGED <<memoryVars, pending, op, buffers>>
    BY <1>2 DEF Enter, Busy, poolVars
  <2> HIDE DEF c
  <2> QED BY <1>1, <2>1, StrayQuiet
<1>3. CASE \E n \in 1..MaxSegs : Compress(q, n)
  BY <1>2, <1>3 DEF Compress
<1>4. CASE Decompress(q)
  BY <1>2, <1>4 DEF Decompress
<1>5. CASE Cancelled(q)
  <2> DEFINE c == [call[q] EXCEPT !.result = "cancelled"]
  <2>1. /\ call' = [call EXCEPT ![q] = c]
        /\ UNCHANGED <<memoryVars, pending, op, buffers>>
    BY <1>5 DEF Cancelled, poolVars
  <2>2. c.freed = call[q].freed
    BY <1>1 DEF Call
  <2> HIDE DEF c
  <2> QED BY <1>1, <2>1, <2>2, StrayQuiet
<1>6. CASE Recycle(q)
  <2> DEFINE c == [call[q] EXCEPT !.pc = "putback", !.result = "none"]
  <2>1. /\ call' = [call EXCEPT ![q] = c]
        /\ UNCHANGED <<memoryVars, pending, op, buffers>>
    BY <1>6 DEF Recycle, poolVars
  <2>2. c.freed = call[q].freed
    BY <1>1 DEF Call
  <2> HIDE DEF c
  <2> QED BY <1>1, <2>1, <2>2, StrayQuiet
<1>7. CASE Complete(q) \/ Stall(q)
  <2>1. UNCHANGED <<memoryVars, call, pending, op, buffers>>
    BY <1>7 DEF Complete, Stall, poolVars
  <2> QED BY <2>1, StraySame
<1> QED BY <1>3, <1>4, <1>5, <1>6, <1>7 DEF Invoke

\* The steps of a call that touch no memzone.
LEMMA StrayWork ==
  ASSUME EachUsed, ZInv, NEW q \in QueuePairs,
         \/ AssembleFails(q) \/ TakeFails(q)
         \/ Enqueue(q) \/ EnqueueFails(q)
         \/ Dequeue(q) \/ DequeueFails(q)
         \/ OpFails(q) \/ Return(q) \/ ReleaseEnds(q)
  PROVE  EachUsed'
<1>1. IInv /\ call[q] \in Call /\ Rest(call[q], pending[q], buffers[q])
  BY AtOne, Zenon
<1>2. CASE \/ AssembleFails(q) \/ TakeFails(q)
           \/ EnqueueFails(q) \/ DequeueFails(q) \/ OpFails(q)
  <2> DEFINE c == Failed(q, call[q])
  <2>1. /\ call' = [call EXCEPT ![q] = c] /\ call[q].pc \in ActivePCs
        /\ UNCHANGED <<memoryVars, pending, op, buffers>>
    BY <1>2 DEF AssembleFails, TakeFails, EnqueueFails, DequeueFails, OpFails,
                Enqueuing, Dequeuing, At, ActivePCs, poolVars
  <2>2. c.freed = 0 /\ call[q].freed = 0
    BY <1>1, <2>1 DEF Failed, Call, Rest, ActivePCs
  <2> HIDE DEF c
  <2> QED BY <1>1, <2>1, <2>2, StrayQuiet
<1>3. CASE Enqueue(q)
  <2> DEFINE c == [call[q] EXCEPT !.pc = "dequeue"]
  <2>1. /\ call' = [call EXCEPT ![q] = c]
        /\ UNCHANGED <<memoryVars, pending, op, buffers>>
    BY <1>3 DEF Enqueue, poolVars
  <2>2. c.freed = call[q].freed
    BY <1>1 DEF Call
  <2> HIDE DEF c
  <2> QED BY <1>1, <2>1, <2>2, StrayQuiet
<1>4. CASE Dequeue(q)
  <2> DEFINE n == NumDequeued(q)
             c == [call[q] EXCEPT !.pc = IF n > 0 THEN "burst" ELSE "loop",
                                  !.burst = SubSeq(queue[q], 1, n)]
  <2>1. /\ call' = [call EXCEPT ![q] = c]
        /\ UNCHANGED <<memoryVars, pending, op, buffers>>
    BY <1>4 DEF Dequeue, poolVars
  <2> HIDE DEF n
  <2>2. c.freed = call[q].freed
    BY <1>1 DEF Call
  <2> HIDE DEF c
  <2> QED BY <1>1, <2>1, <2>2, StrayQuiet
<1>5. CASE Return(q)
  <2> DEFINE c == [call[q] EXCEPT !.pc = "idle", !.result = "ok"]
  <2>1. /\ call' = [call EXCEPT ![q] = c]
        /\ UNCHANGED <<memoryVars, pending, op, buffers>>
    BY <1>5 DEF Return, poolVars
  <2>2. c.freed = call[q].freed
    BY <1>1 DEF Call
  <2> HIDE DEF c
  <2> QED BY <1>1, <2>1, <2>2, StrayQuiet
<1>6. CASE ReleaseEnds(q)
  <2> DEFINE c == [call[q] EXCEPT !.pc = "idle"]
  <2>1. /\ call' = [call EXCEPT ![q] = c]
        /\ UNCHANGED <<memoryVars, pending, op, buffers>>
    BY <1>6 DEF ReleaseEnds, poolVars
  <2>2. c.freed = call[q].freed
    BY <1>1 DEF Call
  <2> HIDE DEF c
  <2> QED BY <1>1, <2>1, <2>2, StrayQuiet
<1> QED BY <1>2, <1>3, <1>4, <1>5, <1>6

\* A turn of Recycle's loop.
LEMMA StrayPutBack ==
  ASSUME EachUsed, ZInv, NEW q \in QueuePairs, PutBack(q)
  PROVE  EachUsed'
<1>1. PICK freed, pend, data, bufs :
        freed = call[q].freed /\ pend = pending[q] /\ data = op[q] /\ bufs = buffers[q]
  OBVIOUS
<1>2. /\ IInv /\ call[q] \in Call /\ bufs \in Seq(Buffer) /\ call[q].pc = "putback"
      /\ Rest(call[q], pend, bufs)
  BY <1>1, AtOne DEF PutBack, At
<1>3. bufs # <<>> /\ freed = 0
  BY <1>1, <1>2 DEF Rest
<1>4. PICK n \in Nat \ {0} : n = Len(bufs)
  <2>1. Len(bufs) \in Nat /\ Len(bufs) # 0
    BY <1>2, <1>3
  <2> QED BY <2>1
<1>5. PICK less, z : less = SubSeq(bufs, 1, n - 1) /\ z = bufs[n].zone
  OBVIOUS
<1>6. /\ PutZone(q, z) /\ buffers' = [buffers EXCEPT ![q] = less]
      /\ UNCHANGED <<pending, op>>
      /\ call' = call \/ call' = [call EXCEPT ![q].pc = IF call[q].result = "error"
                                                          THEN "release" ELSE "idle"]
  BY <1>1, <1>4, <1>5 DEF PutBack, poolVars
<1>7. /\ call'[q].freed = 0 /\ buffers'[q] = less /\ pending'[q] = pend /\ op'[q] = data
      /\ Others(q)
  <2>1. \A p \in QueuePairs : p # q => call'[p] = call[p]
    BY <1>2, <1>6 DEF IInv, TypeOK
  <2>2. call'[q].freed = 0
    <3>1. call \in [QueuePairs -> Call] /\ call[q].freed = 0
      BY <1>1, <1>2, <1>3 DEF IInv, TypeOK
    <3>2. CASE call' = call
      BY <3>1, <3>2
    <3>3. CASE call' = [call EXCEPT ![q].pc = IF call[q].result = "error"
                                                THEN "release" ELSE "idle"]
      BY <3>1, <3>3 DEF Call
    <3> QED BY <1>6, <3>2, <3>3
  <2>3. buffers'[q] = less /\ \A p \in QueuePairs : p # q => buffers'[p] = buffers[p]
    BY <1>2, <1>6 DEF IInv, TypeOK
  <2>4. pending' = pending /\ op' = op
    BY <1>6
  <2> QED BY <1>1, <2>1, <2>2, <2>3, <2>4 DEF Others
<1>8. Kept' = Kept \ {z}
  BY <1>6, PutRecord
<1>9. Zones(0, pend, data, bufs) \subseteq Zones(0, pend, data, less) \cup {z}
  <2>1. ASSUME NEW i \in DOMAIN bufs
        PROVE  \/ bufs[i].zone \in {z}
               \/ \E k \in DOMAIN less : less[k].zone = bufs[i].zone
    <3>1. i \in 1..n /\ DOMAIN less = 1..(n - 1) /\ \A k \in 1..(n - 1) : less[k] = bufs[k]
      BY <1>2, <1>4, <1>5
    <3>2. CASE i = n
      BY <1>5, <3>2
    <3>3. CASE i # n
      BY <3>1, <3>3
    <3> QED BY <3>2, <3>3
  <2>2. \A k, l \in Nat : Holds(0, pend, data, k, l) =>
          \E m \in Nat : \E o \in Nat :
            /\ Holds(0, pend, data, m, o)
            /\ data[pend[m]].dst[o] = data[pend[k]].dst[l]
    OBVIOUS
  <2> QED BY <2>1, <2>2, StillUsed, Zenon
<1>10. ZonesOf(q) \subseteq ZonesOf(q)' \cup {z}
       /\ Kept' \subseteq (Kept \cup ZonesOf(q)') \ {z}
  <2>1. ZonesOf(q) = Zones(0, pend, data, bufs) /\ ZonesOf(q)' = Zones(0, pend, data, less)
    BY <1>1, <1>3, <1>7, Zenon DEF ZonesOf
  <2> QED BY <1>8, <1>9, <2>1
<1> QED BY <1>7, <1>10, StrayFrame, Zenon

\* Release putting one memzone back.
LEMMA StrayReleaseDst ==
  ASSUME EachUsed, ZInv, NEW q \in QueuePairs, ReleaseDst(q)
  PROVE  EachUsed'
<1>1. PICK freed, pend, data, bufs :
        freed = call[q].freed /\ pend = pending[q] /\ data = op[q] /\ bufs = buffers[q]
  OBVIOUS
<1>2. /\ IInv /\ call[q] \in Call /\ pend \in Seq(Operations) /\ pend # <<>>
      /\ data \in [Operations -> Operation]
  BY <1>1, AtOne DEF ReleaseDst
<1>3. PICK i \in Nat : i = freed + 1 /\ freed \in Nat
  <2>1. freed \in Nat
    BY <1>1, <1>2 DEF Call
  <2> QED BY <2>1
<1>4. PICK z : z = data[Head(pend)].dst[i]
  OBVIOUS
<1>5. /\ PutZone(q, z) /\ UNCHANGED <<pending, op, buffers>>
      /\ call' = [call EXCEPT ![q].freed = i]
  BY <1>1, <1>3, <1>4 DEF ReleaseDst
<1>6. /\ call'[q].freed = i /\ buffers'[q] = bufs /\ pending'[q] = pend /\ op'[q] = data
      /\ Others(q)
  BY <1>1, <1>2, <1>5 DEF IInv, TypeOK, Others, Call
<1>7. Kept' = Kept \ {z}
  BY <1>5, PutRecord
<1>8. Zones(freed, pend, data, bufs) \subseteq Zones(i, pend, data, bufs) \cup {z}
  <2>1. ASSUME NEW k \in Nat, NEW l \in Nat, Holds(freed, pend, data, k, l)
        PROVE  \/ data[pend[k]].dst[l] \in {z}
               \/ \E m \in Nat : \E o \in Nat :
                    /\ Holds(i, pend, data, m, o)
                    /\ data[pend[m]].dst[o] = data[pend[k]].dst[l]
    <3>1. CASE k = 1 /\ l = i
      BY <1>2, <1>4, <3>1
    <3>2. CASE ~(k = 1 /\ l = i)
      <4>1. k \in DOMAIN pend /\ l \in DOMAIN data[pend[k]].dst /\ (k = 1 => l > freed)
        BY <2>1, Zenon DEF Holds
      <4>2. k = 1 => l > i
        BY <1>3, <3>2, <4>1
      <4>3. Holds(i, pend, data, k, l)
        BY <4>1, <4>2, Zenon DEF Holds
      <4> QED BY <4>3, Zenon
    <3> QED BY <3>1, <3>2
  <2>2. \A j \in DOMAIN bufs : \/ bufs[j].zone \in {z}
                              \/ \E k \in DOMAIN bufs : bufs[k].zone = bufs[j].zone
    OBVIOUS
  <2>3. \A k, l \in Nat : Holds(freed, pend, data, k, l) =>
          \/ data[pend[k]].dst[l] \in {z}
          \/ \E j \in DOMAIN bufs : bufs[j].zone = data[pend[k]].dst[l]
          \/ \E m \in Nat : \E o \in Nat :
               /\ Holds(i, pend, data, m, o)
               /\ data[pend[m]].dst[o] = data[pend[k]].dst[l]
    BY <2>1, Zenon
  <2> QED BY <2>2, <2>3, StillUsed, Zenon
<1>9. ZonesOf(q) \subseteq ZonesOf(q)' \cup {z}
      /\ Kept' \subseteq (Kept \cup ZonesOf(q)') \ {z}
  <2>1. ZonesOf(q) = Zones(freed, pend, data, bufs) /\ ZonesOf(q)' = Zones(i, pend, data, bufs)
    BY <1>1, <1>6, Zenon DEF ZonesOf
  <2> QED BY <1>7, <1>8, <2>1
<1> QED BY <1>6, <1>9, StrayFrame, Zenon

\* The operation at the front leaves; its memzones are back in the stock, in the
\* buffers or in X.
LEMMA PoppedUses ==
  ASSUME NEW pend \in Seq(Operations), pend # <<>>, Distinct(pend),
         NEW data \in [Operations -> Operation], NEW data2,
         SameBut(data, data2, Head(pend)), NEW freed, NEW bufs, NEW bufs2, NEW X,
         \A i \in DOMAIN bufs : \E k \in DOMAIN bufs2 : bufs2[k].zone = bufs[i].zone,
         \A l \in Nat : Holds(freed, pend, data, 1, l) =>
           \/ data[pend[1]].dst[l] \in X
           \/ \E k \in DOMAIN bufs2 : bufs2[k].zone = data[pend[1]].dst[l]
  PROVE  Zones(freed, pend, data, bufs) \subseteq Zones(0, Tail(pend), data2, bufs2) \cup X
<1>1. PICK n \in Nat : n = Len(pend) /\ DOMAIN pend = 1..n
  <2>1. Len(pend) \in Nat /\ DOMAIN pend = 1..Len(pend)
    OBVIOUS
  <2> QED BY <2>1
<1>2. PICK t : /\ t = Tail(pend) /\ DOMAIN t = 1..(n - 1)
               /\ \A k \in 1..(n - 1) : t[k] = pend[k + 1]
               /\ Head(pend) = pend[1]
  <2>1. /\ DOMAIN Tail(pend) = 1..(n - 1) /\ Head(pend) = pend[1]
        /\ \A k \in 1..(n - 1) : Tail(pend)[k] = pend[k + 1]
    BY <1>1
  <2> QED BY <2>1
<1>3. ASSUME NEW k \in Nat, NEW l \in Nat, Holds(freed, pend, data, k, l), k # 1
      PROVE  \E m \in Nat : \E o \in Nat :
               /\ Holds(0, t, data2, m, o)
               /\ data2[t[m]].dst[o] = data[pend[k]].dst[l]
  <2>1. k \in DOMAIN pend /\ l \in DOMAIN data[pend[k]].dst
    BY <1>3 DEF Holds
  <2>2. PICK m \in Nat : m = k - 1 /\ m \in 1..(n - 1) /\ k = m + 1 /\ t[m] = pend[k]
    BY <1>1, <1>2, <1>3, <2>1
  <2>3. data2[t[m]] = data[pend[k]]
    <3>1. pend[k] \in Operations /\ pend[k] # pend[1]
      BY <1>1, <1>3, <2>1 DEF Distinct
    <3> QED BY <1>2, <2>2, <3>1 DEF SameBut
  <2>4. l > 0
    <3>1. data[pend[k]] \in Operation
      BY <2>1
    <3>2. data[pend[k]].dst \in Seq(Memzones)
      BY <3>1 DEF Operation
    <3> QED BY <2>1, <3>2
  <2>5. Holds(0, t, data2, m, l)
    BY <1>2, <2>1, <2>2, <2>3, <2>4 DEF Holds
  <2> QED BY <2>2, <2>3, <2>5
<1>4. \A k, l \in Nat : Holds(freed, pend, data, k, l) =>
        \/ data[pend[k]].dst[l] \in X
        \/ \E i \in DOMAIN bufs2 : bufs2[i].zone = data[pend[k]].dst[l]
        \/ \E m \in Nat : \E o \in Nat :
             /\ Holds(0, t, data2, m, o)
             /\ data2[t[m]].dst[o] = data[pend[k]].dst[l]
  BY <1>3
<1>5. Zones(freed, pend, data, bufs) \subseteq Zones(0, t, data2, bufs2) \cup X
  BY <1>4, StillUsed, Zenon
<1> QED BY <1>2, <1>5

\* Release freeing the operation at the front, all of whose memzones are back.
LEMMA StrayReleaseOp ==
  ASSUME EachUsed, ZInv, NEW q \in QueuePairs, ReleaseOp(q)
  PROVE  EachUsed'
<1>1. PICK freed, pend, data, data2, bufs :
        /\ freed = call[q].freed /\ pend = pending[q] /\ data = op[q] /\ bufs = buffers[q]
        /\ data2 = op'[q]
  OBVIOUS
<1>2. /\ IInv /\ call[q] \in Call /\ pend \in Seq(Operations) /\ pend # <<>>
      /\ Distinct(pend) /\ data \in [Operations -> Operation]
  BY <1>1, AtOne DEF ReleaseOp
<1>3. /\ freed = Len(data[Head(pend)].dst)
      /\ pending' = [pending EXCEPT ![q] = Tail(pend)]
      /\ op' = op \/ op' = [op EXCEPT ![q][Head(pend)] = UnusedOp]
      /\ call' = [call EXCEPT ![q].freed = 0]
      /\ UNCHANGED <<memoryVars, buffers>>
  BY <1>1 DEF ReleaseOp
<1>4. /\ call'[q].freed = 0 /\ buffers'[q] = bufs /\ pending'[q] = Tail(pend) /\ Others(q)
      /\ Kept' = Kept
  BY <1>1, <1>2, <1>3 DEF IInv, TypeOK, Others, Call, memoryVars, Kept
<1>5. SameBut(data, data2, Head(pend))
  BY <1>1, <1>2, <1>3 DEF IInv, TypeOK, SameBut
<1>6. ASSUME NEW l \in Nat PROVE ~Holds(freed, pend, data, 1, l)
  <2>1. pend[1] = Head(pend) /\ pend[1] \in Operations
    BY <1>2, FrontFacts
  <2>2. data[pend[1]].dst \in Seq(Memzones)
    BY <1>2, <2>1, FrontFacts
  <2>3. l \in DOMAIN data[pend[1]].dst => l <= freed /\ freed \in Nat
    BY <1>3, <2>1, <2>2
  <2> QED BY <2>3 DEF Holds
<1>7. Zones(freed, pend, data, bufs) \subseteq Zones(0, Tail(pend), data2, bufs) \cup {}
  <2>1. \A i \in DOMAIN bufs : \E k \in DOMAIN bufs : bufs[k].zone = bufs[i].zone
    OBVIOUS
  <2> QED BY <1>2, <1>5, <1>6, <2>1, PoppedUses, Zenon
<1>8. ZonesOf(q) \subseteq ZonesOf(q)' \cup {}
      /\ Kept' \subseteq (Kept \cup ZonesOf(q)') \ {}
  <2>1. ZonesOf(q) = Zones(freed, pend, data, bufs)
        /\ ZonesOf(q)' = Zones(0, Tail(pend), data2, bufs)
    BY <1>1, <1>4, Zenon DEF ZonesOf
  <2> QED BY <1>4, <1>7, <2>1
<1> QED BY <1>4, <1>8, StrayFrame, Zenon

\* The memzones of a compressed operation become buffers or go astray.
LEMMA StrayRecycleOp ==
  ASSUME EachUsed, AInv("any"), NEW q \in QueuePairs, RecycleOp(q)
  PROVE  EachUsed'
<1>1. PICK pend, data, data2, bufs, bufs2 :
        /\ pend = pending[q] /\ data = op[q] /\ bufs = buffers[q]
        /\ data2 = op'[q] /\ bufs2 = buffers'[q]
  OBVIOUS
<1>2. /\ IInv /\ call[q] \in Call /\ pend \in Seq(Operations)
      /\ Distinct(pend) /\ call[q].pc = "burst"
      /\ data \in [Operations -> Operation] /\ bufs \in Seq(Buffer)
      /\ Rest(call[q], pend, bufs)
      /\ Accounts("any", call[q], queue[q], pend, freeOps[q], freeMbufs[q], data)
  BY <1>1, AccountsOne, Zenon DEF RecycleOp, At
<1>3. call[q].freed = 0 /\ call[q].kind \in {"compress", "decompress"}
  BY <1>2 DEF Rest, ActivePCs
<1>4. pend # <<>> /\ Head(pend) = Head(call[q].burst)
  BY <1>1, <1>2, FrontOfBurst
<1>5. PICK o \in Operations : /\ o = Head(pend) /\ o = Head(call[q].burst) /\ o = pend[1]
                              /\ o \in Elements(pend)
                              /\ data[o].dst \in Seq(Memzones)
  BY <1>2, <1>4, FrontFacts
<1>6. /\ pending' = [pending EXCEPT ![q] = Tail(pend)]
      /\ op' = [op EXCEPT ![q][o] = UnusedOp]
      /\ UNCHANGED <<reserved, pool, occupied>>
  BY <1>1, <1>5 DEF RecycleOp
<1>7. call'[q].freed = 0 /\ \A p \in QueuePairs : p # q => call'[p] = call[p]
  <2> DEFINE rest == Tail(call[q].burst)
             decoded == IF call[q].kind # "decompress" THEN call[q].decoded ELSE
                Append(call[q].decoded, [slot |-> op[q][Head(call[q].burst)].first,
                                         first |-> Source(q, Head(call[q].burst))[1].first])
             c == [call[q] EXCEPT !.pc = IF rest = <<>> THEN "loop" ELSE "burst",
                                  !.burst = rest, !.decoded = decoded]
  <2>1. call' = [call EXCEPT ![q] = c]
    BY <1>2 DEF RecycleOp
  <2> HIDE DEF rest, decoded
  <2>2. c.freed = 0
    BY <1>2, <1>3 DEF Call
  <2> HIDE DEF c
  <2> QED BY <1>2, <2>1, <2>2 DEF IInv, TypeOK
<1>8. SameBut(data, data2, Head(pend))
  BY <1>1, <1>2, <1>5, <1>6 DEF IInv, TypeOK, SameBut
<1>9. PICK X :
        /\ \A p \in QueuePairs : p # q => buffers'[p] = buffers[p]
        /\ \A i \in DOMAIN bufs : \E k \in DOMAIN bufs2 : bufs2[k].zone = bufs[i].zone
        /\ \A l \in DOMAIN data[o].dst :
             \/ data[o].dst[l] \in X
             \/ \E k \in DOMAIN bufs2 : bufs2[k].zone = data[o].dst[l]
        /\ astray' = astray \cup X
  <2>1. CASE call[q].kind = "decompress"
    <3>1. buffers' = buffers /\ astray' = astray \cup {}
      BY <2>1 DEF RecycleOp
    <3>2. data[o].dst = <<>>
      BY <1>2, <1>5, <2>1 DEF Accounts, Sizes
    <3>3. /\ \A p \in QueuePairs : p # q => buffers'[p] = buffers[p]
          /\ \A i \in DOMAIN bufs : \E k \in DOMAIN bufs2 : bufs2[k].zone = bufs[i].zone
          /\ \A l \in DOMAIN data[o].dst :
               \/ data[o].dst[l] \in {}
               \/ \E k \in DOMAIN bufs2 : bufs2[k].zone = data[o].dst[l]
      BY <1>1, <3>1, <3>2
    <3> QED BY <3>1, <3>3
  <2>2. CASE call[q].kind = "compress"
    <3>1. PICK n \in 1..Len(data[o].dst) :
            /\ buffers' = [buffers EXCEPT ![q] = bufs \o Produced(q, o, n)]
            /\ astray' = astray \cup Unfilled(q, o, n)
      BY <1>1, <1>5, <2>2 DEF RecycleOp
    <3>2. PICK made, X : made = Produced(q, o, n) /\ X = Unfilled(q, o, n)
      OBVIOUS
    <3>3. /\ made \in Seq(Buffer) /\ n \in Nat /\ Len(made) = n
          /\ \A j \in 1..n : made[j].zone = data[o].dst[j]
      <4>1. n \in Nat
        BY <1>5, <3>1
      <4>2. made \in Seq(Buffer)
        <5>1. data[o] \in Operation /\ DOMAIN data[o].dst = 1..Len(data[o].dst)
          BY <1>2, <1>5
        <5> QED BY <1>1, <1>5, <3>1, <3>2, <5>1, ProducedType
      <4> QED BY <1>1, <3>2, <4>1, <4>2 DEF Produced
    <3>4. bufs2 = bufs \o made /\ \A p \in QueuePairs : p # q => buffers'[p] = buffers[p]
      BY <1>1, <1>2, <3>1, <3>2 DEF IInv, TypeOK
    <3>5. \A i \in DOMAIN bufs : i \in DOMAIN bufs2 /\ bufs2[i] = bufs[i]
      BY <1>2, <3>3, <3>4
    <3>6. ASSUME NEW l \in DOMAIN data[o].dst
          PROVE  \/ data[o].dst[l] \in X
                 \/ \E k \in DOMAIN bufs2 : bufs2[k].zone = data[o].dst[l]
      <4>1. l \in 1..Len(data[o].dst)
        BY <1>5
      <4>2. CASE l \in 1..n
        <5>1. Len(bufs) + l \in DOMAIN bufs2 /\ bufs2[Len(bufs) + l] = made[l]
          BY <1>2, <3>3, <3>4, <4>2
        <5> QED BY <3>3, <4>2, <5>1
      <4>3. CASE l \notin 1..n
        <5>1. l \in (n + 1)..Len(data[o].dst)
          BY <3>3, <4>1, <4>3
        <5> QED BY <1>1, <3>2, <5>1 DEF Unfilled
      <4> QED BY <4>2, <4>3
    <3>7. /\ \A i \in DOMAIN bufs : \E k \in DOMAIN bufs2 : bufs2[k].zone = bufs[i].zone
          /\ astray' = astray \cup X
      BY <3>1, <3>2, <3>5
    <3> QED BY <3>4, <3>6, <3>7, Zenon
  <2> QED BY <1>3, <2>1, <2>2, Zenon
<1>10. /\ pending'[q] = Tail(pend) /\ Others(q) /\ Kept' = Kept \ X
  BY <1>2, <1>6, <1>7, <1>9 DEF IInv, TypeOK, Others, Kept
<1>11. Zones(0, pend, data, bufs) \subseteq Zones(0, Tail(pend), data2, bufs2) \cup X
  <2>1. \A l \in Nat : Holds(0, pend, data, 1, l) =>
          \/ data[pend[1]].dst[l] \in X
          \/ \E k \in DOMAIN bufs2 : bufs2[k].zone = data[pend[1]].dst[l]
    BY <1>5, <1>9 DEF Holds
  <2> QED BY <1>2, <1>4, <1>8, <1>9, <2>1, PoppedUses, Zenon
<1>12. ZonesOf(q) \subseteq ZonesOf(q)' \cup X
       /\ Kept' \subseteq (Kept \cup ZonesOf(q)') \ X
  <2>1. ZonesOf(q) = Zones(0, pend, data, bufs)
        /\ ZonesOf(q)' = Zones(0, Tail(pend), data2, bufs2)
    BY <1>1, <1>3, <1>7, <1>10, Zenon DEF ZonesOf
  <2> QED BY <1>10, <1>11, <2>1
<1> QED BY <1>10, <1>12, StrayFrame, Zenon

\* A destination mbuf gets a memzone; the ones before stay where they are.
LEMMA StrayTakeDst ==
  ASSUME EachUsed, ZInv, NEW q \in QueuePairs, TakeDst(q)
  PROVE  EachUsed'
<1>1. PICK pend, data, data2, bufs, b :
        /\ pend = pending[q] /\ data = op[q] /\ bufs = buffers[q]
        /\ data2 = op'[q] /\ b = call[q].batch
  OBVIOUS
<1>2. /\ IInv /\ call[q] \in Call /\ call[q].pc = "take"
      /\ pend \in Seq(Operations) /\ data \in [Operations -> Operation]
      /\ Rest(call[q], pend, bufs)
  BY <1>1, AtOne DEF TakeDst, At
<1>3. /\ call[q].freed = 0
      /\ b \in Seq(Operations) /\ Elements(b) \subseteq Elements(pend)
  BY <1>1, <1>2, BatchPending DEF Rest, ActivePCs
<1>4. PICK i \in DOMAIN b, z \in Memzones :
        /\ DM!Take(z)
        /\ op' = [op EXCEPT ![q][b[i]].dst = Append(@, z)]
        /\ \/ call' = [call EXCEPT ![q].pc = "loop", ![q].batch = <<>>]
           \/ UNCHANGED call
  BY <1>1 DEF TakeDst
<1>5. PICK o \in Operations : o = b[i] /\ o \in Elements(pend)
  <2>1. b[i] \in Operations /\ b[i] \in Elements(b)
    BY <1>3 DEF Elements
  <2>2. b[i] \in Elements(pend)
    BY <1>3, <2>1
  <2> QED BY <2>1, <2>2
<1>6. UNCHANGED <<pending, buffers>>
  BY DEF TakeDst
<1>7. /\ call'[q].freed = 0 /\ pending'[q] = pend /\ buffers'[q] = bufs /\ Others(q)
  BY <1>1, <1>2, <1>3, <1>4, <1>6 DEF IInv, TypeOK, Others, Call
<1>8. SameBut(data, data2, o) /\ data2[o].dst = Append(data[o].dst, z)
      /\ data[o].dst \in Seq(Memzones)
  <2>1. data2 = [data EXCEPT ![o].dst = Append(@, z)]
    BY <1>1, <1>2, <1>4, <1>5 DEF IInv, TypeOK
  <2>2. data[o] \in Operation
    BY <1>2
  <2> QED BY <1>2, <2>1, <2>2 DEF SameBut, Operation
<1>9. Kept' \subseteq Kept \cup {z}
  <2>1. Stock /\ pool \in Seq(Memzones)
    BY <1>2, Zenon DEF ZInv, IInv, TypeOK
  <2>2. occupied' = occupied \cup {z}
    BY <1>4, <2>1, TakeStock, Zenon
  <2>3. astray' = astray
    BY DEF TakeDst
  <2> QED BY <2>2, <2>3 DEF Kept
<1>10. PICK n \in Nat : /\ n = Len(data[o].dst) + 1 /\ n > 0
                        /\ n \in DOMAIN data2[o].dst /\ data2[o].dst[n] = z
                        /\ \A l \in DOMAIN data[o].dst :
                             l \in DOMAIN data2[o].dst /\ data2[o].dst[l] = data[o].dst[l]
  <2>1. PICK s, n : s = data[o].dst /\ n = Len(s) + 1
    OBVIOUS
  <2>2. s \in Seq(Memzones) /\ data2[o].dst = Append(s, z)
    BY <1>8, <2>1
  <2>3. n \in Nat /\ n > 0 /\ n \in DOMAIN Append(s, z) /\ Append(s, z)[n] = z
    BY <2>1, <2>2
  <2>4. \A l \in DOMAIN s : l \in DOMAIN Append(s, z) /\ Append(s, z)[l] = s[l]
    BY <2>2
  <2> QED BY <2>1, <2>2, <2>3, <2>4
<1>11. \A k \in DOMAIN pend : \A l \in DOMAIN data[pend[k]].dst :
         /\ l \in DOMAIN data2[pend[k]].dst
         /\ data2[pend[k]].dst[l] = data[pend[k]].dst[l]
  <2> TAKE k \in DOMAIN pend
  <2>1. pend[k] \in Operations
    BY <1>2
  <2>2. CASE pend[k] = o
    BY <1>10, <2>2
  <2>3. CASE pend[k] # o
    BY <1>8, <2>1, <2>3 DEF SameBut
  <2> QED BY <2>2, <2>3
<1>12. Zones(0, pend, data, bufs) \subseteq Zones(0, pend, data2, bufs) \cup {}
  <2>1. \A k, l \in Nat : Holds(0, pend, data, k, l) =>
          \E m \in Nat : \E p \in Nat :
            /\ Holds(0, pend, data2, m, p)
            /\ data2[pend[m]].dst[p] = data[pend[k]].dst[l]
    BY <1>11 DEF Holds
  <2>2. \A k \in DOMAIN bufs : \E m \in DOMAIN bufs : bufs[m].zone = bufs[k].zone
    OBVIOUS
  <2> QED BY <2>1, <2>2, StillUsed, Zenon
<1>13. z \in Zones(0, pend, data2, bufs)
  <2>1. PICK k \in DOMAIN pend : pend[k] = o
    BY <1>5 DEF Elements
  <2>2. k \in Nat
    BY <1>2
  <2>3. Holds(0, pend, data2, k, n) /\ data2[pend[k]].dst[n] = z
    BY <1>10, <2>1 DEF Holds
  <2> QED BY <2>2, <2>3 DEF Zones
<1>14. ZonesOf(q) \subseteq ZonesOf(q)' \cup {}
       /\ Kept' \subseteq (Kept \cup ZonesOf(q)') \ {}
  <2>1. ZonesOf(q) = Zones(0, pend, data, bufs) /\ ZonesOf(q)' = Zones(0, pend, data2, bufs)
    BY <1>1, <1>3, <1>7, Zenon DEF ZonesOf
  <2> QED BY <1>9, <1>12, <1>13, <2>1
<1> QED BY <1>7, <1>14, StrayFrame, Zenon

\* A batch of operations joins; what was pending keeps its memzones.
LEMMA StrayAssemble ==
  ASSUME EachUsed, ZInv, NEW q \in QueuePairs, Assemble(q)
  PROVE  EachUsed'
<1>1. PICK pend, data, data2, bufs :
        /\ pend = pending[q] /\ data = op[q] /\ bufs = buffers[q] /\ data2 = op'[q]
  OBVIOUS
<1>2. /\ IInv /\ call[q] \in Call /\ call[q].pc = "loop" /\ CanAssemble(q)
      /\ pend \in Seq(Operations) /\ freeOps[q] \in SUBSET Operations
      /\ Elements(pend) \cap freeOps[q] = {} /\ operations[q] \in Seq(Operations)
      /\ Rest(call[q], pend, bufs)
  <2>1. operations[q] \in Seq(Operations)
    BY DEF ZInv, IInv, TypeOK
  <2> QED BY <1>1, <2>1, AtOne DEF Assemble, At
<1>3. call[q].freed = 0
  BY <1>2 DEF Rest, ActivePCs
<1>4. PICK b \in Allocations(q, NextOps(q)) :
        /\ op' = [op EXCEPT ![q] =
             [o \in Operations |-> IF \E i \in DOMAIN b : b[i] = o
                                     THEN Assembled(q, CHOOSE i \in DOMAIN b : b[i] = o)
                                     ELSE @[o]]]
        /\ pending' = [pending EXCEPT ![q] = pend \o b]
        /\ \/ call' = [call EXCEPT ![q].pc = "take", ![q].index = @ + NextUnits(q),
                                   ![q].batch = b]
           \/ call' = [call EXCEPT ![q].index = @ + NextUnits(q)]
  BY <1>1 DEF Assemble
<1>5. b \in Seq(Operations) /\ Elements(b) \subseteq freeOps[q]
  BY <1>2, NextFacts, AllocationFacts
<1>6. UNCHANGED <<memoryVars, buffers>>
  BY DEF Assemble
<1>7. /\ call'[q].freed = 0 /\ pending'[q] = pend \o b /\ buffers'[q] = bufs
      /\ Others(q) /\ Kept' = Kept
  <2>1. call'[q].freed = 0 /\ \A p \in QueuePairs : p # q => call'[p] = call[p]
    <3> DEFINE index == call[q].index + NextUnits(q)
               c1 == [call[q] EXCEPT !.pc = "take", !.index = index, !.batch = b]
               c2 == [call[q] EXCEPT !.index = index]
    <3>1. call \in [QueuePairs -> Call]
      BY <1>2 DEF IInv, TypeOK
    <3>2. call' = [call EXCEPT ![q] = c1] \/ call' = [call EXCEPT ![q] = c2]
      BY <1>4, <3>1
    <3> HIDE DEF index
    <3>3. c1.freed = 0 /\ c2.freed = 0
      BY <1>2, <1>3 DEF Call
    <3> HIDE DEF c1, c2
    <3> QED BY <3>1, <3>2, <3>3
  <2> QED BY <1>1, <1>2, <1>4, <1>6, <2>1 DEF IInv, TypeOK, Others, memoryVars, Kept
<1>8. \A k \in DOMAIN pend : data2[pend[k]] = data[pend[k]]
  <2>1. data2 = [o \in Operations |->
                   IF \E i \in DOMAIN b : b[i] = o
                     THEN Assembled(q, CHOOSE i \in DOMAIN b : b[i] = o) ELSE data[o]]
    BY <1>1, <1>2, <1>4 DEF IInv, TypeOK
  <2>2. \A k \in DOMAIN pend : pend[k] \in Operations /\ pend[k] \notin Elements(b)
    BY <1>2, <1>5 DEF Elements
  <2> HIDE DEF Assembled
  <2> QED BY <2>1, <2>2 DEF Elements
<1>9. \A k \in DOMAIN pend : k \in DOMAIN (pend \o b) /\ (pend \o b)[k] = pend[k]
  BY <1>2, <1>5
<1>10. Zones(0, pend, data, bufs) \subseteq Zones(0, pend \o b, data2, bufs) \cup {}
  <2>1. \A k, l \in Nat : Holds(0, pend, data, k, l) =>
          \E m \in Nat : \E p \in Nat :
            /\ Holds(0, pend \o b, data2, m, p)
            /\ data2[(pend \o b)[m]].dst[p] = data[pend[k]].dst[l]
    BY <1>8, <1>9 DEF Holds
  <2>2. \A k \in DOMAIN bufs : \E m \in DOMAIN bufs : bufs[m].zone = bufs[k].zone
    OBVIOUS
  <2> QED BY <2>1, <2>2, StillUsed, Zenon
<1>11. ZonesOf(q) \subseteq ZonesOf(q)' \cup {}
       /\ Kept' \subseteq (Kept \cup ZonesOf(q)') \ {}
  <2>1. ZonesOf(q) = Zones(0, pend, data, bufs)
        /\ ZonesOf(q)' = Zones(0, pend \o b, data2, bufs)
    BY <1>1, <1>3, <1>7, Zenon DEF ZonesOf
  <2> QED BY <1>7, <1>10, <2>1
<1> QED BY <1>7, <1>11, StrayFrame, Zenon

-----------------------------------------------------------------------------

\* Every step keeps EachUsed.
LEMMA StepStray ==
  ASSUME EachUsed, AInv("any"), [Next]_vars
  PROVE  EachUsed'
<1>1. ZInv
  BY Zenon DEF AInv
<1>2. CASE UNCHANGED vars
  <2>1. UNCHANGED <<memoryVars, call, pending, op, buffers>>
    BY <1>2 DEF vars, poolVars
  <2> QED BY <2>1, StraySame
<1>3. ASSUME NEW q \in QueuePairs, Invoke(q) \/ Work(q) \/ Complete(q) \/ Stall(q)
      PROVE  EachUsed'
  <2>1. CASE Invoke(q) \/ Complete(q) \/ Stall(q)
    BY <1>1, <2>1, StrayInvoke
  <2>2. CASE Assemble(q)   BY <1>1, <2>2, StrayAssemble
  <2>3. CASE TakeDst(q)    BY <1>1, <2>3, StrayTakeDst
  <2>4. CASE RecycleOp(q)  BY <2>4, StrayRecycleOp
  <2>5. CASE PutBack(q)    BY <1>1, <2>5, StrayPutBack
  <2>6. CASE ReleaseDst(q) BY <1>1, <2>6, StrayReleaseDst
  <2>7. CASE ReleaseOp(q)  BY <1>1, <2>7, StrayReleaseOp
  <2>8. CASE \/ AssembleFails(q) \/ TakeFails(q)
             \/ Enqueue(q) \/ EnqueueFails(q)
             \/ Dequeue(q) \/ DequeueFails(q)
             \/ OpFails(q) \/ Return(q) \/ ReleaseEnds(q)
    BY <1>1, <2>8, StrayWork
  <2> QED BY <1>3, <2>1, <2>2, <2>3, <2>4, <2>5, <2>6, <2>7, <2>8 DEF Work
<1> QED BY <1>2, <1>3 DEF Next

\* Nothing is taken at first.
LEMMA InitStray == Init => EachUsed
BY DEF Init, EachUsed, Kept

\* What is taken and has not gone astray is always in use.
LEMMA EachUsedAlways == Spec => []EachUsed
<1>1. EachUsed /\ AInv("any") /\ [Next]_vars => EachUsed'
  BY StepStray
<1> QED BY <1>1, InitStray, AccountsAlways, PTL DEF Spec

\* EachUsed, seen from OccupiedIsAccounted and OccupiedIsReferenced.
LEMMA KeptIsReferenced ==
  ASSUME ZInv, EachUsed, NEW z \in Kept
  PROVE  \E u \in Uses : ZoneOf(u) = z
<1>1. PICK q \in QueuePairs : z \in ZonesOf(q)
  BY Zenon DEF EachUsed
<1>2. \/ \E i \in DOMAIN buffers[q] : buffers[q][i].zone = z
      \/ \E k, l \in Nat : /\ Holds(call[q].freed, pending[q], op[q], k, l)
                           /\ op[q][pending[q][k]].dst[l] = z
  BY <1>1 DEF ZonesOf, Zones
<1>3. ASSUME NEW i \in DOMAIN buffers[q], buffers[q][i].zone = z
      PROVE  \E u \in Uses : ZoneOf(u) = z
  <2>1. <<q, 0, i>> \in Uses
    BY DEF Uses
  <2>2. ZoneOf(<<q, 0, i>>) = z
    BY <1>3 DEF ZoneOf
  <2> QED BY <2>1, <2>2
<1>4. ASSUME NEW k \in Nat, NEW l \in Nat, Holds(call[q].freed, pending[q], op[q], k, l),
             op[q][pending[q][k]].dst[l] = z
      PROVE  \E u \in Uses : ZoneOf(u) = z
  <2>1. /\ k \in DOMAIN pending[q] /\ l \in DOMAIN op[q][pending[q][k]].dst
        /\ k = 1 => l > call[q].freed
    BY <1>4 DEF Holds
  <2>2. k # 0
    <3>1. pending[q] \in Seq(Operations)
      BY AtOne
    <3> QED BY <2>1, <3>1
  <2>3. <<q, k, l>> \in Uses
    BY <2>1 DEF Uses
  <2>4. ZoneOf(<<q, k, l>>) = z
    BY <1>4, <2>2 DEF ZoneOf
  <2> QED BY <2>3, <2>4
<1> QED BY <1>2, <1>3, <1>4

\* However many lcores share the stock, whatever they compress, and whatever
\* fails: a memzone taken from it is in a buffer of a caller, or in an operation
\* that is still pending, unless a Put missed it while another lcore reserved
\* one or a stream ended before it was needed.
THEOREM TakenIsAccounted == Spec => []OccupiedIsAccounted
<1>1. ZInv /\ EachUsed => OccupiedIsAccounted
  BY KeptIsReferenced DEF OccupiedIsAccounted, Kept
<1> QED BY <1>1, EachUsedAlways, ZInvariance, PTL

-----------------------------------------------------------------------------
(* A stock of MaxSegs memzones for each lcore *)

\* With one segment to an operation, its only destination is always filled.
LEMMA SingleFills ==
  ASSUME MaxSglSegs = 1, AInv("any"), NEW q \in QueuePairs, RecycleOp(q)
  PROVE  /\ astray' = astray
         /\ call[q].kind = "compress" =>
              Len(buffers'[q]) = Len(buffers[q]) + Len(op[q][Head(pending[q])].dst)
<1>1. PICK pend, data, bufs : pend = pending[q] /\ data = op[q] /\ bufs = buffers[q]
  OBVIOUS
<1>2. /\ IInv /\ pend \in Seq(Operations) /\ call[q].pc = "burst"
      /\ data \in [Operations -> Operation] /\ bufs \in Seq(Buffer)
      /\ Accounts("any", call[q], queue[q], pend, freeOps[q], freeMbufs[q], data)
      /\ Rest(call[q], pend, bufs)
  BY <1>1, AccountsOne, Zenon DEF RecycleOp, At
<1>3. call[q].kind \in {"compress", "decompress"}
  BY <1>2 DEF Rest, ActivePCs
<1>4. CASE call[q].kind = "decompress"
  BY <1>4 DEF RecycleOp
<1>5. CASE call[q].kind = "compress"
  <2>1. pend # <<>> /\ Head(pend) = Head(call[q].burst)
    BY <1>1, <1>2, FrontOfBurst
  <2>2. PICK o \in Operations : /\ o = Head(pend) /\ o = Head(call[q].burst)
                                /\ o \in Elements(pend) /\ data[o] \in Operation
                                /\ data[o].len \in Nat /\ Len(data[o].dst) \in Nat
    BY <1>2, <2>1, FrontFacts
  <2>3. Len(data[o].dst) <= 1
    <3>1. data[o].len <= MaxSglSegs /\ Len(data[o].dst) <= data[o].len
      BY <1>2, <2>2 DEF Accounts, Sizes
    <3> QED BY <2>2, <3>1
  <2>4. PICK n \in 1..Len(data[o].dst) :
          /\ buffers' = [buffers EXCEPT ![q] = bufs \o Produced(q, o, n)]
          /\ astray' = astray \cup Unfilled(q, o, n)
    BY <1>1, <1>5, <2>2 DEF RecycleOp
  <2>5. PICK made : made = Produced(q, o, n)
    OBVIOUS
  <2>6. n \in Nat /\ n = Len(data[o].dst)
    BY <2>2, <2>3, <2>4
  <2>7. made \in Seq(Buffer) /\ Len(made) = n
    <3>1. made \in Seq(Buffer)
      BY <1>1, <2>2, <2>4, <2>5, ProducedType
    <3>2. Len(made) = n
      BY <2>5, <2>6 DEF Produced
    <3> QED BY <3>1, <3>2
  <2>8. buffers'[q] = bufs \o made
    BY <1>1, <1>2, <2>4, <2>5 DEF IInv, TypeOK
  <2>9. Len(bufs \o made) = Len(bufs) + Len(made)
    <3>1. bufs \in Seq(Buffer) /\ made \in Seq(Buffer)
      BY <1>2, <2>7
    <3> HIDE DEF Buffer
    <3> QED BY <3>1, LenOfConcat
  <2>10. astray' = astray
    <3>1. (n + 1)..Len(data[o].dst) = {}
      BY <2>6
    <3>2. Unfilled(q, o, n) = {}
      BY <1>1, <3>1 DEF Unfilled
    <3> QED BY <2>4, <3>2
  <2> QED BY <1>1, <2>2, <2>6, <2>7, <2>8, <2>9, <2>10
<1> QED BY <1>3, <1>4, <1>5

\* With one segment to an operation a compression has at most one memzone for
\* each segment it has assembled: m buffers and n pending operations.
Fits(c, m, n) ==
  /\ m <= MaxSegs
  /\ c.kind = "compress" => m + n <= MaxSegs
  /\ c.kind = "compress" /\ c.pc \in ActivePCs =>
       m + n <= c.index /\ c.index <= c.segs /\ c.segs <= MaxSegs

Room == \A q \in QueuePairs : Fits(call[q], Len(buffers[q]), Len(pending[q]))

\* A step of q that keeps within its room.
LEMMA RoomFrame ==
  ASSUME Room, NEW q \in QueuePairs,
         \A p \in QueuePairs : p # q =>
           call'[p] = call[p] /\ buffers'[p] = buffers[p] /\ pending'[p] = pending[p],
         Fits(call'[q], Len(buffers'[q]), Len(pending'[q]))
  PROVE  Room'
<1> SUFFICES ASSUME NEW p \in QueuePairs PROVE Fits(call[p], Len(buffers[p]), Len(pending[p]))'
  BY Zenon DEF Room
<1>1. CASE p = q
  BY <1>1, Zenon DEF Fits
<1>2. CASE p # q
  <2>1. Fits(call[p], Len(buffers[p]), Len(pending[p]))
    BY Zenon DEF Room
  <2>2. call'[p] = call[p] /\ buffers'[p] = buffers[p] /\ pending'[p] = pending[p]
    BY <1>2
  <2> QED BY <2>1, <2>2, Zenon DEF Fits
<1> QED BY <1>1, <1>2

\* A step that assembles nothing.
LEMMA RoomCalm ==
  ASSUME Room, IInv, NEW q \in QueuePairs, NEW c,
         call' = [call EXCEPT ![q] = c], UNCHANGED <<pending, buffers>>,
         c.kind = call[q].kind,
         c.pc \in ActivePCs => /\ call[q].pc \in ActivePCs
                               /\ c.index = call[q].index /\ c.segs = call[q].segs
  PROVE  Room'
<1>1. call'[q] = c /\ \A p \in QueuePairs : p # q => call'[p] = call[p]
  BY DEF IInv, TypeOK
<1>2. Fits(call[q], Len(buffers[q]), Len(pending[q]))
  BY Zenon DEF Room
<1>3. Fits(c, Len(buffers[q]), Len(pending[q]))
  BY <1>2, Zenon DEF Fits
<1> QED BY <1>1, <1>3, RoomFrame, Zenon

\* The lcore calls something.
LEMMA RoomInvoke ==
  ASSUME Room, ZInv, NEW q \in QueuePairs, Invoke(q)
  PROVE  Room'
<1>1. IInv /\ call[q] \in Call
  BY AtOne, Zenon
<1>2. MaxSegs \in Nat
  BY DeviceAssumption
<1>3. ASSUME NEW n \in 1..MaxSegs, Compress(q, n)
      PROVE  Room'
  <2> DEFINE c == IF Leftovers(q) THEN [NoCall EXCEPT !.pc = "undefined"]
                  ELSE [NoCall EXCEPT !.pc = "loop", !.kind = "compress", !.segs = n]
  <2>1. /\ call' = [call EXCEPT ![q] = c] /\ pending[q] = <<>> /\ buffers[q] = <<>>
        /\ UNCHANGED <<pending, buffers>>
    BY <1>3 DEF Compress, Enter, Busy
  <2>2. \/ c.kind = "none"
        \/ c.kind = "compress" /\ c.index = 0 /\ c.segs = n
    BY DEF NoCall
  <2> HIDE DEF c
  <2>3. call'[q] = c /\ \A p \in QueuePairs : p # q => call'[p] = call[p]
    BY <1>1, <2>1 DEF IInv, TypeOK
  <2>4. Len(buffers[q]) = 0 /\ Len(pending[q]) = 0
    BY <2>1
  <2>5. Fits(c, 0, 0)
    BY <1>2, <2>2 DEF Fits
  <2> QED BY <2>1, <2>3, <2>4, <2>5, RoomFrame, Zenon
<1>4. CASE Decompress(q)
  <2> DEFINE c == IF Leftovers(q) THEN [NoCall EXCEPT !.pc = "undefined"]
                  ELSE [NoCall EXCEPT !.pc = "loop", !.kind = "decompress",
                                      !.segs = Len(buffers[q])]
  <2>1. /\ call' = [call EXCEPT ![q] = c]
        /\ UNCHANGED <<pending, buffers>>
    BY <1>4 DEF Decompress, Enter
  <2>2. c.kind # "compress"
    BY DEF NoCall
  <2> HIDE DEF c
  <2>3. call'[q] = c /\ \A p \in QueuePairs : p # q => call'[p] = call[p]
    BY <1>1, <2>1 DEF IInv, TypeOK
  <2>4. Fits(call[q], Len(buffers[q]), Len(pending[q]))
    BY Zenon DEF Room
  <2>5. Fits(c, Len(buffers[q]), Len(pending[q]))
    BY <2>2, <2>4, Zenon DEF Fits
  <2> QED BY <2>1, <2>3, <2>5, RoomFrame, Zenon
<1>5. CASE Cancelled(q)
  <2> DEFINE c == [call[q] EXCEPT !.result = "cancelled"]
  <2>1. call' = [call EXCEPT ![q] = c] /\ UNCHANGED <<pending, buffers>>
    BY <1>5 DEF Cancelled
  <2>2. c.kind = call[q].kind /\ c.pc = call[q].pc /\ c.index = call[q].index
        /\ c.segs = call[q].segs
    BY <1>1 DEF Call
  <2> HIDE DEF c
  <2> QED BY <1>1, <2>1, <2>2, RoomCalm, Zenon
<1>6. CASE Recycle(q)
  <2> DEFINE c == [call[q] EXCEPT !.pc = "putback", !.result = "none"]
  <2>1. call' = [call EXCEPT ![q] = c] /\ UNCHANGED <<pending, buffers>>
    BY <1>6 DEF Recycle
  <2>2. c.kind = call[q].kind /\ c.pc \notin ActivePCs
    BY <1>1 DEF Call, ActivePCs
  <2> HIDE DEF c
  <2> QED BY <1>1, <2>1, <2>2, RoomCalm, Zenon
<1> QED BY <1>3, <1>4, <1>5, <1>6 DEF Invoke

\* The steps of a call that change neither the pending operations nor the buffers.
LEMMA RoomWork ==
  ASSUME Room, ZInv, NEW q \in QueuePairs,
         \/ AssembleFails(q) \/ TakeDst(q) \/ TakeFails(q)
         \/ Enqueue(q) \/ EnqueueFails(q)
         \/ Dequeue(q) \/ DequeueFails(q)
         \/ OpFails(q) \/ Return(q) \/ ReleaseDst(q) \/ ReleaseEnds(q)
  PROVE  Room'
<1>1. IInv /\ call[q] \in Call
  BY AtOne, Zenon
<1>2. CASE \/ AssembleFails(q) \/ TakeFails(q)
           \/ EnqueueFails(q) \/ DequeueFails(q) \/ OpFails(q)
  <2> DEFINE c == Failed(q, call[q])
  <2>1. call' = [call EXCEPT ![q] = c] /\ UNCHANGED <<pending, buffers>>
    BY <1>2 DEF AssembleFails, TakeFails, EnqueueFails, DequeueFails, OpFails
  <2>2. c.kind = call[q].kind /\ c.pc \notin ActivePCs
    BY <1>1 DEF Failed, Call, ActivePCs
  <2> HIDE DEF c
  <2> QED BY <1>1, <2>1, <2>2, RoomCalm, Zenon
<1>3. CASE TakeDst(q)
  <2> DEFINE c == [call[q] EXCEPT !.pc = "loop", !.batch = <<>>]
  <2>1. /\ call' = call \/ call' = [call EXCEPT ![q] = c]
        /\ call[q].pc = "take" /\ UNCHANGED <<pending, buffers>>
    <3>1. \/ call' = [call EXCEPT ![q].pc = "loop", ![q].batch = <<>>]
          \/ UNCHANGED call
      BY <1>3 DEF TakeDst
    <3>2. call[q].pc = "take" /\ UNCHANGED <<pending, buffers>>
      BY <1>3 DEF TakeDst, At
    <3>3. call \in [QueuePairs -> Call]
      BY <1>1 DEF IInv, TypeOK
    <3> QED BY <3>1, <3>2, <3>3
  <2>2. c.kind = call[q].kind /\ c.index = call[q].index /\ c.segs = call[q].segs
        /\ call[q].pc \in ActivePCs
    BY <1>1, <2>1 DEF Call, ActivePCs
  <2>3. CASE call' = call
    <3>1. call' = [call EXCEPT ![q] = call[q]]
      BY <1>1, <2>3 DEF IInv, TypeOK
    <3> QED BY <1>1, <2>1, <3>1, RoomCalm, Zenon
  <2>4. CASE call' = [call EXCEPT ![q] = c]
    <3> HIDE DEF c
    <3> QED BY <1>1, <2>1, <2>2, <2>4, RoomCalm, Zenon
  <2> QED BY <2>1, <2>3, <2>4
<1>4. CASE Enqueue(q)
  <2> DEFINE c == [call[q] EXCEPT !.pc = "dequeue"]
  <2>1. /\ call' = [call EXCEPT ![q] = c] /\ call[q].pc = "loop"
        /\ UNCHANGED <<pending, buffers>>
    BY <1>4 DEF Enqueue, Enqueuing, At
  <2>2. c.kind = call[q].kind /\ c.index = call[q].index /\ c.segs = call[q].segs
        /\ call[q].pc \in ActivePCs
    BY <1>1, <2>1 DEF Call, ActivePCs
  <2> HIDE DEF c
  <2> QED BY <1>1, <2>1, <2>2, RoomCalm, Zenon
<1>5. CASE Dequeue(q)
  <2> DEFINE n == NumDequeued(q)
             c == [call[q] EXCEPT !.pc = IF n > 0 THEN "burst" ELSE "loop",
                                  !.burst = SubSeq(queue[q], 1, n)]
  <2>1. /\ call' = [call EXCEPT ![q] = c] /\ call[q].pc \in {"loop", "dequeue"}
        /\ UNCHANGED <<pending, buffers>>
    BY <1>5 DEF Dequeue, Dequeuing, At
  <2> HIDE DEF n
  <2>2. c.kind = call[q].kind /\ c.index = call[q].index /\ c.segs = call[q].segs
        /\ call[q].pc \in ActivePCs
    BY <1>1, <2>1 DEF Call, ActivePCs
  <2> HIDE DEF c
  <2> QED BY <1>1, <2>1, <2>2, RoomCalm, Zenon
<1>6. CASE Return(q)
  <2> DEFINE c == [call[q] EXCEPT !.pc = "idle", !.result = "ok"]
  <2>1. call' = [call EXCEPT ![q] = c] /\ UNCHANGED <<pending, buffers>>
    BY <1>6 DEF Return
  <2>2. c.kind = call[q].kind /\ c.pc \notin ActivePCs
    BY <1>1 DEF Call, ActivePCs
  <2> HIDE DEF c
  <2> QED BY <1>1, <2>1, <2>2, RoomCalm, Zenon
<1>7. CASE ReleaseDst(q)
  <2> DEFINE i == call[q].freed + 1
             c == [call[q] EXCEPT !.freed = i]
  <2>1. call' = [call EXCEPT ![q] = c] /\ UNCHANGED <<pending, buffers>>
        /\ call[q].pc = "release"
    BY <1>7 DEF ReleaseDst, At
  <2> HIDE DEF i
  <2>2. c.kind = call[q].kind /\ c.pc \notin ActivePCs
    BY <1>1, <2>1 DEF Call, ActivePCs
  <2> HIDE DEF c
  <2> QED BY <1>1, <2>1, <2>2, RoomCalm, Zenon
<1>8. CASE ReleaseEnds(q)
  <2> DEFINE c == [call[q] EXCEPT !.pc = "idle"]
  <2>1. call' = [call EXCEPT ![q] = c] /\ UNCHANGED <<pending, buffers>>
    BY <1>8 DEF ReleaseEnds
  <2>2. c.kind = call[q].kind /\ c.pc \notin ActivePCs
    BY <1>1 DEF Call, ActivePCs
  <2> HIDE DEF c
  <2> QED BY <1>1, <2>1, <2>2, RoomCalm, Zenon
<1> QED BY <1>2, <1>3, <1>4, <1>5, <1>6, <1>7, <1>8

\* A step that takes a buffer from the result, or an operation from the pending
\* ones.
LEMMA RoomLess ==
  ASSUME Room, ZInv, NEW q \in QueuePairs, PutBack(q) \/ ReleaseOp(q)
  PROVE  Room'
<1>1. /\ IInv /\ call[q] \in Call /\ pending[q] \in Seq(Operations)
      /\ buffers[q] \in Seq(Buffer) /\ Rest(call[q], pending[q], buffers[q])
  BY AtOne, Zenon
<1>2. PICK m \in Nat, n \in Nat : m = Len(buffers[q]) /\ n = Len(pending[q])
  BY <1>1
<1>3. Fits(call[q], m, n)
  BY <1>2, Zenon DEF Room
<1>4. CASE PutBack(q)
  <2> DEFINE pc == IF call[q].result = "error" THEN "release" ELSE "idle"
             c == [call[q] EXCEPT !.pc = pc]
  <2>1. /\ call[q].pc = "putback" /\ UNCHANGED pending
        /\ buffers' = [buffers EXCEPT ![q] = SubSeq(buffers[q], 1, m - 1)]
        /\ call' = call \/ call' = [call EXCEPT ![q] = c]
    BY <1>2, <1>4 DEF PutBack, At
  <2>2. m > 0
    <3>1. buffers[q] # <<>>
      BY <1>1, <2>1 DEF Rest
    <3> QED BY <1>1, <1>2, <3>1
  <2>3. Len(buffers'[q]) = m - 1
    BY <1>1, <1>2, <2>1, <2>2 DEF IInv, TypeOK
  <2>4. c.kind = call[q].kind /\ c.pc \notin ActivePCs /\ call[q].pc \notin ActivePCs
    BY <1>1, <2>1 DEF Call, ActivePCs
  <2> HIDE DEF c, pc
  <2>5. PICK d : /\ d.kind = call[q].kind /\ d.pc \notin ActivePCs /\ call'[q] = d
                 /\ \A p \in QueuePairs : p # q => call'[p] = call[p]
    BY <1>1, <2>1, <2>4 DEF IInv, TypeOK
  <2>6. m - 1 <= MaxSegs /\ (m + n <= MaxSegs => (m - 1) + n <= MaxSegs)
    <3>1. m <= MaxSegs /\ MaxSegs \in Nat
      BY <1>3, DeviceAssumption DEF Fits
    <3> QED BY <2>2, <3>1
  <2>7. Fits(d, m - 1, n)
    BY <1>3, <2>5, <2>6, Zenon DEF Fits
  <2>8. \A p \in QueuePairs : p # q => buffers'[p] = buffers[p] /\ pending'[p] = pending[p]
    BY <1>1, <2>1 DEF IInv, TypeOK
  <2>9. Fits(call'[q], Len(buffers'[q]), Len(pending'[q]))
    BY <1>2, <2>1, <2>3, <2>5, <2>7
  <2> QED BY <2>5, <2>8, <2>9, RoomFrame, Zenon
<1>5. CASE ReleaseOp(q)
  <2> DEFINE c == [call[q] EXCEPT !.freed = 0]
  <2>1. /\ call[q].pc = "release" /\ UNCHANGED buffers /\ pending[q] # <<>>
        /\ pending' = [pending EXCEPT ![q] = Tail(pending[q])]
        /\ call' = [call EXCEPT ![q] = c]
    BY <1>5 DEF ReleaseOp, At
  <2>2. n > 0 /\ Len(pending'[q]) = n - 1
    BY <1>1, <1>2, <2>1 DEF IInv, TypeOK
  <2>3. c.kind = call[q].kind /\ c.pc \notin ActivePCs
    BY <1>1, <2>1 DEF Call, ActivePCs
  <2> HIDE DEF c
  <2>4. call'[q] = c /\ \A p \in QueuePairs : p # q => call'[p] = call[p]
    BY <1>1, <2>1 DEF IInv, TypeOK
  <2>5. m + n <= MaxSegs => m + (n - 1) <= MaxSegs
    <3>1. n > 0 /\ MaxSegs \in Nat
      BY <2>2, DeviceAssumption
    <3> QED BY <3>1
  <2>6. Fits(c, m, n - 1)
    BY <1>3, <2>3, <2>5, Zenon DEF Fits
  <2>7. \A p \in QueuePairs : p # q => buffers'[p] = buffers[p] /\ pending'[p] = pending[p]
    BY <1>1, <2>1 DEF IInv, TypeOK
  <2>8. Fits(call'[q], Len(buffers'[q]), Len(pending'[q]))
    BY <1>2, <2>1, <2>2, <2>4, <2>6
  <2> QED BY <2>4, <2>7, <2>8, RoomFrame, Zenon
<1> QED BY <1>4, <1>5

\* A batch has an operation for each segment it adds.
LEMMA RoomAssemble ==
  ASSUME MaxSglSegs = 1, Room, ZInv, NEW q \in QueuePairs, Assemble(q)
  PROVE  Room'
<1>1. /\ IInv /\ call[q] \in Call /\ pending[q] \in Seq(Operations)
      /\ buffers[q] \in Seq(Buffer) /\ call[q].pc = "loop" /\ CanAssemble(q)
      /\ operations[q] \in Seq(Operations) /\ freeOps[q] \in SUBSET Operations
  <2>1. operations[q] \in Seq(Operations)
    BY DEF ZInv, IInv, TypeOK
  <2> QED BY <2>1, AtOne DEF Assemble, At
<1>2. PICK m \in Nat, n \in Nat : m = Len(buffers[q]) /\ n = Len(pending[q])
  BY <1>1
<1>3. Fits(call[q], m, n)
  BY <1>2, Zenon DEF Room
<1>4. PICK u \in Nat : /\ u = NextUnits(q) /\ u = NextOps(q)
                       /\ call[q].index + u <= call[q].segs
  <2> DEFINE left == call[q].segs - call[q].index
             room == BurstSize - Len(operations[q])
             x == NextUnits(q)
  <2>1. left \in Nat /\ room \in Nat /\ MaxSglSegs \in Nat /\ call[q].index \in Nat
        /\ call[q].segs \in Nat
    <3>1. call[q].index \in Nat /\ call[q].segs \in Nat
      BY <1>1 DEF Call
    <3>2. call[q].index < call[q].segs /\ Len(operations[q]) < BurstSize
      BY <1>1 DEF CanAssemble
    <3>3. MaxSglSegs \in Nat /\ BurstSize \in Nat
      BY DeviceAssumption
    <3>4. Len(operations[q]) \in Nat
      BY <1>1
    <3> QED BY <3>1, <3>2, <3>3, <3>4
  <2>2. x = Least(left, room * MaxSglSegs) /\ NextOps(q) = (x + MaxSglSegs - 1) \div MaxSglSegs
    BY DEF NextUnits, NextOps
  <2>3. x \in Nat /\ x <= left
    <3> HIDE DEF left, room, x
    <3>1. room * MaxSglSegs = room
      BY <2>1
    <3>2. x = Least(left, room)
      BY <2>2, <3>1
    <3> QED BY <2>1, <3>2 DEF Least
  <2>4. NextOps(q) = x
    <3> HIDE DEF x
    <3>1. (x + MaxSglSegs - 1) \div MaxSglSegs = x
      BY <2>3
    <3> QED BY <2>2, <3>1
  <2>5. call[q].index + x <= call[q].segs
    <3> HIDE DEF x
    <3> QED BY <2>1, <2>3
  <2> QED BY <2>3, <2>4, <2>5
<1>5. PICK b \in Allocations(q, u) :
        /\ pending' = [pending EXCEPT ![q] = pending[q] \o b]
        /\ \/ /\ call[q].kind = "compress"
              /\ call' = [call EXCEPT ![q].pc = "take", ![q].index = @ + u, ![q].batch = b]
           \/ /\ call[q].kind # "compress"
              /\ call' = [call EXCEPT ![q].index = @ + u]
  BY <1>4 DEF Assemble
<1>6. b \in Seq(Operations) /\ Len(b) = u
  <2>1. b \in Seq(Operations) /\ DOMAIN b = 1..NextOps(q)
    <3>1. NextOps(q) \in Nat
      BY <1>4
    <3> QED BY <1>1, <1>4, <1>5, AllocationFacts
  <2> QED BY <1>4, <2>1
<1>7. PICK c : /\ call'[q] = c /\ c.kind = call[q].kind /\ c.index = call[q].index + u
               /\ c.segs = call[q].segs
               /\ \A p \in QueuePairs : p # q => call'[p] = call[p]
  <2> DEFINE index == call[q].index + u
             c1 == [call[q] EXCEPT !.pc = "take", !.index = index, !.batch = b]
             c2 == [call[q] EXCEPT !.index = index]
  <2>1. call \in [QueuePairs -> Call]
    BY <1>1 DEF IInv, TypeOK
  <2>2. call' = [call EXCEPT ![q] = c1] \/ call' = [call EXCEPT ![q] = c2]
    BY <1>5, <2>1
  <2>3. /\ c1.kind = call[q].kind /\ c1.index = index /\ c1.segs = call[q].segs
        /\ c2.kind = call[q].kind /\ c2.index = index /\ c2.segs = call[q].segs
    BY <1>1 DEF Call
  <2> HIDE DEF c1, c2
  <2> QED BY <2>1, <2>2, <2>3
<1>8. Len(pending'[q]) = n + u
  <2>1. pending'[q] = pending[q] \o b
    BY <1>1, <1>5 DEF IInv, TypeOK
  <2> QED BY <1>1, <1>2, <1>6, <2>1, LenOfConcat
<1>9. Fits(c, m, n + u)
  <2> DEFINE i == call[q].index
             s == call[q].segs
  <2>1. i \in Nat /\ s \in Nat /\ MaxSegs \in Nat /\ i + u <= s
    BY <1>1, <1>4, DeviceAssumption DEF Call
  <2>2. m <= MaxSegs
    BY <1>3 DEF Fits
  <2>3. c.kind = "compress" => m + n <= i /\ s <= MaxSegs
    BY <1>1, <1>3, <1>7 DEF Fits, ActivePCs
  <2>4. c.index = i + u /\ c.segs = s
    BY <1>7
  <2> HIDE DEF i, s
  <2>5. m + n <= i => m + (n + u) <= i + u
    BY <2>1
  <2>6. m + n <= i /\ s <= MaxSegs => m + (n + u) <= MaxSegs
    BY <2>1
  <2> QED BY <2>1, <2>2, <2>3, <2>4, <2>5, <2>6, Zenon DEF Fits
<1>10. /\ UNCHANGED buffers
       /\ \A p \in QueuePairs : p # q => pending'[p] = pending[p]
  BY <1>1, <1>5 DEF Assemble, IInv, TypeOK
<1>11. Fits(call'[q], Len(buffers'[q]), Len(pending'[q]))
  BY <1>2, <1>7, <1>8, <1>9, <1>10
<1> QED BY <1>7, <1>10, <1>11, RoomFrame, Zenon

\* With one segment to an operation none has more than one memzone.
LEMMA SingleDst ==
  ASSUME MaxSglSegs = 1, AInv("any"), NEW q \in QueuePairs, NEW o \in Elements(pending[q])
  PROVE  o \in Operations /\ op[q][o].dst \in Seq(Memzones) /\ Len(op[q][o].dst) <= 1
<1>1. /\ pending[q] \in Seq(Operations) /\ op[q] \in [Operations -> Operation]
      /\ Sizes(call[q], pending[q], op[q])
  BY AccountsOne, Zenon DEF Accounts
<1>2. o \in Operations
  BY <1>1 DEF Elements
<1>3. op[q][o].dst \in Seq(Memzones) /\ op[q][o].len \in Nat /\ Len(op[q][o].dst) \in Nat
  <2>1. op[q][o] \in Operation
    BY <1>1, <1>2
  <2> QED BY <2>1 DEF Operation
<1>4. op[q][o].len <= MaxSglSegs /\ Len(op[q][o].dst) <= op[q][o].len
  BY <1>1 DEF Sizes
<1> QED BY <1>2, <1>3, <1>4

\* An operation leaves, and a compression gains at most one buffer for it.
LEMMA RoomRecycleOp ==
  ASSUME MaxSglSegs = 1, Room, AInv("any"), NEW q \in QueuePairs, RecycleOp(q)
  PROVE  Room'
<1>1. /\ IInv /\ call[q] \in Call /\ pending[q] \in Seq(Operations)
      /\ buffers[q] \in Seq(Buffer) /\ call[q].pc = "burst"
      /\ Rest(call[q], pending[q], buffers[q])
  BY AccountsOne, Zenon DEF RecycleOp, At
<1>2. PICK m \in Nat, n \in Nat : m = Len(buffers[q]) /\ n = Len(pending[q])
  BY <1>1
<1>3. Fits(call[q], m, n) /\ call[q].pc \in ActivePCs
      /\ call[q].kind \in {"compress", "decompress"}
  BY <1>1, <1>2, Zenon DEF Room, ActivePCs, Rest
<1>4. pending[q] # <<>> /\ Head(pending[q]) = Head(call[q].burst)
  BY <1>1, FrontOfBurst
<1>5. n > 0 /\ Len(pending'[q]) = n - 1 /\ \A p \in QueuePairs : p # q => pending'[p] = pending[p]
  <2>1. pending' = [pending EXCEPT ![q] = Tail(pending[q])]
    BY DEF RecycleOp
  <2> QED BY <1>1, <1>2, <1>4, <2>1 DEF IInv, TypeOK
<1>6. PICK c : /\ call'[q] = c /\ c.kind = call[q].kind /\ c.index = call[q].index
               /\ c.segs = call[q].segs
               /\ \A p \in QueuePairs : p # q => call'[p] = call[p]
  <2> DEFINE rest == Tail(call[q].burst)
             decoded == IF call[q].kind # "decompress" THEN call[q].decoded ELSE
                Append(call[q].decoded, [slot |-> op[q][Head(call[q].burst)].first,
                                         first |-> Source(q, Head(call[q].burst))[1].first])
             c == [call[q] EXCEPT !.pc = IF rest = <<>> THEN "loop" ELSE "burst",
                                  !.burst = rest, !.decoded = decoded]
  <2>1. call' = [call EXCEPT ![q] = c]
    BY <1>1 DEF RecycleOp
  <2> HIDE DEF rest, decoded
  <2>2. c.kind = call[q].kind /\ c.index = call[q].index /\ c.segs = call[q].segs
    BY <1>1 DEF Call
  <2> HIDE DEF c
  <2> QED BY <1>1, <2>1, <2>2 DEF IInv, TypeOK
<1>7. PICK k \in 0..1 : /\ Len(buffers'[q]) = m + k
                        /\ call[q].kind # "compress" => k = 0
                        /\ \A p \in QueuePairs : p # q => buffers'[p] = buffers[p]
  <2>1. CASE call[q].kind = "decompress"
    <3>1. buffers' = buffers
      BY <2>1 DEF RecycleOp
    <3> QED BY <1>2, <2>1, <3>1
  <2>2. CASE call[q].kind = "compress"
    <3>1. Head(pending[q]) \in Elements(pending[q])
      BY <1>1, <1>4, TailFacts
    <3>2. PICK k \in Nat : k = Len(op[q][Head(pending[q])].dst) /\ k <= 1
      <4>1. /\ op[q][Head(pending[q])].dst \in Seq(Memzones)
            /\ Len(op[q][Head(pending[q])].dst) <= 1
        BY <3>1, SingleDst
      <4> QED BY <4>1
    <3>3. Len(buffers'[q]) = m + k
      <4>1. Len(buffers'[q]) = Len(buffers[q]) + Len(op[q][Head(pending[q])].dst)
        BY <2>2, SingleFills
      <4> QED BY <1>2, <3>2, <4>1
    <3>4. \A p \in QueuePairs : p # q => buffers'[p] = buffers[p]
      <4>1. PICK x : buffers' = [buffers EXCEPT ![q] = x]
        BY <2>2 DEF RecycleOp
      <4> QED BY <1>1, <4>1 DEF IInv, TypeOK
    <3> QED BY <2>2, <3>2, <3>3, <3>4
  <2> QED BY <1>3, <2>1, <2>2
<1>8. Fits(c, m + k, n - 1)
  <2> DEFINE i == call[q].index
             s == call[q].segs
  <2>1. i \in Nat /\ s \in Nat /\ MaxSegs \in Nat /\ k \in Nat /\ k <= 1
        /\ n > 0
    BY <1>1, <1>5, <1>7, DeviceAssumption DEF Call
  <2>2. m <= MaxSegs /\ (c.kind # "compress" => k = 0)
    BY <1>3, <1>6, <1>7 DEF Fits
  <2>3. c.kind = "compress" => m + n <= i /\ i <= s /\ s <= MaxSegs
    BY <1>3, <1>6 DEF Fits
  <2>4. c.index = i /\ c.segs = s
    BY <1>6
  <2> HIDE DEF i, s
  <2>5. m + n <= i => (m + k) + (n - 1) <= i
    BY <2>1
  <2>6. m + n <= i /\ i <= s /\ s <= MaxSegs =>
          m + k <= MaxSegs /\ (m + k) + (n - 1) <= MaxSegs
    BY <2>1
  <2>7. c.kind # "compress" => m + k <= MaxSegs
    BY <2>2
  <2> QED BY <2>3, <2>4, <2>5, <2>6, <2>7, Zenon DEF Fits
<1>9. Fits(call'[q], Len(buffers'[q]), Len(pending'[q]))
  BY <1>5, <1>6, <1>7, <1>8
<1> QED BY <1>5, <1>6, <1>7, <1>9, RoomFrame, Zenon

\* Every step keeps within the room.
LEMMA StepRoom ==
  ASSUME MaxSglSegs = 1, Room, AInv("any"), [Next]_vars
  PROVE  Room'
<1>1. ZInv
  BY Zenon DEF AInv
<1>2. CASE UNCHANGED vars
  <2>1. UNCHANGED <<call, pending, buffers>>
    BY <1>2 DEF vars
  <2> QED BY <2>1, Zenon DEF Room, Fits
<1>3. ASSUME NEW q \in QueuePairs, Invoke(q) \/ Work(q) \/ Complete(q) \/ Stall(q)
      PROVE  Room'
  <2>1. CASE Invoke(q)
    BY <1>1, <2>1, RoomInvoke
  <2>2. CASE Complete(q) \/ Stall(q)
    <3>1. UNCHANGED <<call, pending, buffers>>
      BY <2>2 DEF Complete, Stall
    <3> QED BY <3>1, Zenon DEF Room, Fits
  <2>3. CASE Assemble(q)   BY <1>1, <2>3, RoomAssemble
  <2>4. CASE RecycleOp(q)  BY <2>4, RoomRecycleOp
  <2>5. CASE PutBack(q) \/ ReleaseOp(q)  BY <1>1, <2>5, RoomLess
  <2>6. CASE \/ AssembleFails(q) \/ TakeDst(q) \/ TakeFails(q)
             \/ Enqueue(q) \/ EnqueueFails(q)
             \/ Dequeue(q) \/ DequeueFails(q)
             \/ OpFails(q) \/ Return(q) \/ ReleaseDst(q) \/ ReleaseEnds(q)
    BY <1>1, <2>6, RoomWork
  <2> QED BY <1>3, <2>1, <2>2, <2>3, <2>4, <2>5, <2>6 DEF Work
<1> QED BY <1>2, <1>3 DEF Next

\* Nobody compresses at first.
LEMMA InitRoom == Init => Room
<1> SUFFICES ASSUME Init, NEW q \in QueuePairs
             PROVE  Fits(call[q], Len(buffers[q]), Len(pending[q]))
  BY DEF Room
<1>1. call[q].kind = "none" /\ buffers[q] = <<>> /\ pending[q] = <<>>
  BY DEF Init, NoCall
<1>2. Len(buffers[q]) = 0
  BY <1>1
<1> QED BY <1>1, <1>2, DeviceAssumption DEF Fits

\* No compression ever exceeds its room.
LEMMA RoomAlways ==
  ASSUME MaxSglSegs = 1
  PROVE  Spec => []Room
<1>1. Room /\ AInv("any") /\ [Next]_vars => Room'
  BY StepRoom
<1> QED BY <1>1, InitRoom, AccountsAlways, PTL DEF Spec

\* The places an lcore has for memzones: its buffers first, then its pending
\* operations.
Slots == QueuePairs \X (1..MaxSegs)

Lies(z, q, k) ==
  \/ k \in DOMAIN buffers[q] /\ buffers[q][k].zone = z
  \/ \E j \in DOMAIN pending[q] :
       /\ k = Len(buffers[q]) + j
       /\ 1 \in DOMAIN op[q][pending[q][j]].dst /\ op[q][pending[q][j]].dst[1] = z

\* A slot holds one memzone.
LEMMA SlotHoldsOne ==
  ASSUME ZInv, NEW q \in QueuePairs, NEW k, NEW y, NEW z, Lies(y, q, k), Lies(z, q, k)
  PROVE  y = z
<1>1. PICK pend, bufs : pend = pending[q] /\ bufs = buffers[q]
  OBVIOUS
<1>2. pend \in Seq(Operations) /\ bufs \in Seq(Buffer)
  BY <1>1, AtOne, Zenon
<1>3. PICK m \in Nat : m = Len(bufs) /\ DOMAIN bufs = 1..m /\ DOMAIN pend \subseteq Nat \ {0}
  BY <1>2
<1>4. /\ \/ k \in 1..m /\ bufs[k].zone = y
         \/ \E j \in DOMAIN pend : k = m + j /\ op[q][pend[j]].dst[1] = y
      /\ \/ k \in 1..m /\ bufs[k].zone = z
         \/ \E j \in DOMAIN pend : k = m + j /\ op[q][pend[j]].dst[1] = z
  BY <1>1, <1>3 DEF Lies
<1>5. CASE k \in 1..m
  <2>1. \A j \in DOMAIN pend : k # m + j
    BY <1>3, <1>5
  <2> QED BY <1>4, <2>1
<1>6. CASE k \notin 1..m
  <2>1. PICK i \in DOMAIN pend, j \in DOMAIN pend :
          k = m + i /\ k = m + j /\ op[q][pend[i]].dst[1] = y /\ op[q][pend[j]].dst[1] = z
    BY <1>4, <1>6
  <2>2. i = j
    <3>1. i \in Nat /\ j \in Nat
      BY <1>3
    <3> QED BY <2>1, <3>1
  <2> QED BY <2>1, <2>2
<1> QED BY <1>5, <1>6

\* Everything taken, and not astray, lies in a slot.
LEMMA SlotFound ==
  ASSUME MaxSglSegs = 1, AInv("any"), EachUsed, Room, NEW z \in Kept
  PROVE  \E s \in Slots : Lies(z, s[1], s[2])
<1>1. PICK q \in QueuePairs : z \in ZonesOf(q)
  BY Zenon DEF EachUsed
<1>2. PICK pend, bufs, data, freed :
        pend = pending[q] /\ bufs = buffers[q] /\ data = op[q] /\ freed = call[q].freed
  OBVIOUS
<1>3. /\ pend \in Seq(Operations) /\ bufs \in Seq(Buffer)
      /\ Sizes(call[q], pend, data)
  BY <1>2, AccountsOne, Zenon DEF Accounts
<1>4. PICK m \in Nat, n \in Nat : m = Len(bufs) /\ n = Len(pend)
                                  /\ DOMAIN bufs = 1..m /\ DOMAIN pend = 1..n
  BY <1>3
<1>5. Fits(call[q], m, n) /\ MaxSegs \in Nat
  BY <1>2, <1>4, DeviceAssumption, Zenon DEF Room
<1>6. \/ \E i \in DOMAIN bufs : bufs[i].zone = z
      \/ \E k, l \in Nat : Holds(freed, pend, data, k, l) /\ data[pend[k]].dst[l] = z
  BY <1>1, <1>2 DEF ZonesOf, Zones
<1>7. ASSUME NEW i \in DOMAIN bufs, bufs[i].zone = z
      PROVE  \E s \in Slots : Lies(z, s[1], s[2])
  <2>1. i \in 1..MaxSegs
    <3>1. m <= MaxSegs
      BY <1>5 DEF Fits
    <3> QED BY <1>4, <1>5, <3>1
  <2>2. <<q, i>> \in Slots /\ Lies(z, q, i)
    BY <1>2, <1>7, <2>1 DEF Slots, Lies
  <2> QED BY <2>2
<1>8. ASSUME NEW k \in Nat, NEW l \in Nat,
             Holds(freed, pend, data, k, l), data[pend[k]].dst[l] = z
      PROVE  \E s \in Slots : Lies(z, s[1], s[2])
  <2>1. PICK o : o = pend[k] /\ k \in DOMAIN pend /\ l \in DOMAIN data[o].dst
    BY <1>8 DEF Holds
  <2>2. o \in Elements(pend)
    BY <2>1 DEF Elements
  <2>3. data[o].dst \in Seq(Memzones) /\ Len(data[o].dst) <= 1
    BY <1>2, <2>2, SingleDst
  <2>4. l = 1 /\ data[o].dst # <<>>
    BY <2>1, <2>3
  <2>5. call[q].kind = "compress"
    BY <1>3, <2>2, <2>4 DEF Sizes
  <2>6. m + n <= MaxSegs
    BY <1>5, <2>5 DEF Fits
  <2>7. m + k \in 1..MaxSegs
    BY <1>4, <1>5, <2>1, <2>6
  <2>8. <<q, m + k>> \in Slots
    BY <2>7 DEF Slots
  <2>9. Lies(z, q, m + k)
    BY <1>2, <1>4, <1>8, <2>1, <2>4 DEF Lies
  <2> QED BY <2>8, <2>9
<1> QED BY <1>6, <1>7, <1>8

\* An lcore that is taking memzones has an empty slot.
LEMMA SlotEmpty ==
  ASSUME MaxSglSegs = 1, AInv("any"), Room, NEW q \in QueuePairs, call[q].pc = "take"
  PROVE  \E k \in 1..MaxSegs : \A z : ~Lies(z, q, k)
<1>1. PICK pend, bufs, data, b :
        pend = pending[q] /\ bufs = buffers[q] /\ data = op[q] /\ b = call[q].batch
  OBVIOUS
<1>2. /\ pend \in Seq(Operations) /\ bufs \in Seq(Buffer) /\ Distinct(pend) /\ IInv
      /\ Sizes(call[q], pend, data) /\ call[q].kind = "compress"
  BY <1>1, AccountsOne, Zenon DEF Accounts, QLocals
<1>3. b \in Seq(Operations) /\ Elements(b) \subseteq Elements(pend)
  BY <1>1, <1>2, BatchPending
<1>4. b # <<>> /\ Len(data[b[Len(b)]].dst) < data[b[Len(b)]].len
  BY <1>1, <1>2 DEF Sizes
<1>5. PICK o : o = b[Len(b)] /\ o \in Elements(pend)
  <2>1. Len(b) \in DOMAIN b
    BY <1>3, <1>4
  <2> QED BY <1>3, <2>1 DEF Elements
<1>6. data[o].dst = <<>>
  <2>1. o \in Operations /\ data[o].dst \in Seq(Memzones)
    BY <1>1, <1>5, SingleDst
  <2>2. data[o].len <= MaxSglSegs /\ data[o] \in Operation
    <3>1. data \in [Operations -> Operation]
      BY <1>1, AccountsOne, Zenon
    <3> QED BY <1>2, <1>5, <2>1, <3>1 DEF Sizes
  <2>3. Len(data[o].dst) < 1
    <3>1. Len(data[o].dst) \in Nat /\ data[o].len \in Nat
      BY <2>1, <2>2 DEF Operation
    <3> QED BY <1>4, <1>5, <2>2, <3>1
  <2> QED BY <2>1, <2>3
<1>7. PICK m \in Nat, n \in Nat : m = Len(bufs) /\ n = Len(pend)
                                  /\ DOMAIN bufs = 1..m /\ DOMAIN pend = 1..n
  BY <1>2
<1>8. PICK j \in 1..n : pend[j] = o
  BY <1>5, <1>7 DEF Elements
<1>9. m + j \in 1..MaxSegs
  <2>1. Fits(call[q], m, n) /\ MaxSegs \in Nat
    BY <1>1, <1>7, DeviceAssumption, Zenon DEF Room
  <2>2. m + n <= MaxSegs
    BY <1>2, <2>1 DEF Fits
  <2> QED BY <2>1, <2>2
<1>10. ASSUME NEW z, Lies(z, q, m + j)
       PROVE  FALSE
  <2>1. \/ m + j \in 1..m
        \/ \E i \in 1..n : m + j = m + i /\ 1 \in DOMAIN data[pend[i]].dst
    BY <1>1, <1>7, <1>10 DEF Lies
  <2>2. m + j \notin 1..m
    OBVIOUS
  <2>3. PICK i \in 1..n : m + j = m + i /\ 1 \in DOMAIN data[pend[i]].dst
    BY <2>1, <2>2
  <2>4. i = j
    BY <2>3
  <2> QED BY <1>6, <1>8, <2>3, <2>4
<1> QED BY <1>9, <1>10

\* A stock as large as the results of all lcores can have segments.
RoomForAll ==
  /\ IsFiniteSet(QueuePairs)
  /\ NumPreallocated >= Cardinality(QueuePairs) * MaxSegs

\* Nothing goes astray, and the stock of the start is still there.
Whole ==
  /\ astray = {}
  /\ \E f : f \in Injection(1..NumPreallocated, reserved)

\* When an lcore asks for a memzone the others and its own results cannot have
\* used up all of them.
LEMMA StockLasts ==
  ASSUME MaxSglSegs = 1, RoomForAll, AInv("any"), EachUsed, Room, Whole,
         NEW q \in QueuePairs, call[q].pc = "take"
  PROVE  pool # <<>>
<1> SUFFICES ASSUME pool = <<>> PROVE FALSE
  OBVIOUS
<1>1. ZInv /\ Stock
  BY Zenon DEF AInv, ZInv
<1>2. PICK S : S = reserved /\ S = Kept
  <2>1. reserved = {pool[i] : i \in DOMAIN pool} \cup occupied
    BY <1>1 DEF Stock, DM!NothingLost, DM!Pooled, DM!Elements
  <2>2. DOMAIN pool = {}
    OBVIOUS
  <2>3. reserved = occupied
    BY <2>1, <2>2
  <2> QED BY <2>3 DEF Whole, Kept
<1>3. PICK k \in 1..MaxSegs : \A z : ~Lies(z, q, k)
  BY SlotEmpty
<1> DEFINE hole == <<q, k>>
           slot == [z \in S |-> CHOOSE s \in Slots : Lies(z, s[1], s[2])]
<1>4. \A z \in S : slot[z] \in Slots /\ Lies(z, slot[z][1], slot[z][2])
  <2> TAKE z \in S
  <2>1. z \in Kept
    BY <1>2
  <2>2. \E s \in Slots : Lies(z, s[1], s[2])
    BY <2>1, SlotFound
  <2>3. slot[z] = CHOOSE s \in Slots : Lies(z, s[1], s[2])
    OBVIOUS
  <2> QED BY <2>2, <2>3, Zenon
<1>5. slot \in [S -> Slots \ {hole}]
  <2> SUFFICES ASSUME NEW z \in S PROVE slot[z] \in Slots \ {hole}
    OBVIOUS
  <2>1. slot[z] \in Slots /\ Lies(z, slot[z][1], slot[z][2])
    BY <1>4
  <2> HIDE DEF slot
  <2>2. slot[z] # hole
    BY <1>3, <2>1
  <2> QED BY <2>1, <2>2
<1>6. \A y, z \in S : slot[y] = slot[z] => y = z
  <2> HIDE DEF slot
  <2> SUFFICES ASSUME NEW y \in S, NEW z \in S, slot[y] = slot[z]
               PROVE  y = z
    OBVIOUS
  <2>1. slot[z] \in Slots /\ Lies(y, slot[z][1], slot[z][2]) /\ Lies(z, slot[z][1], slot[z][2])
    BY <1>4
  <2>2. slot[z][1] \in QueuePairs
    BY <2>1 DEF Slots
  <2> QED BY <1>1, <2>1, <2>2, SlotHoldsOne
<1> HIDE DEF slot
<1>7. slot \in Injection(S, Slots \ {hole})
  BY <1>5, <1>6 DEF Injection, IsInjective
<1>8. PICK a \in Nat : a = Cardinality(QueuePairs) /\ IsFiniteSet(QueuePairs)
  BY FS_CardinalityType DEF RoomForAll
<1>9. /\ IsFiniteSet(1..MaxSegs) /\ Cardinality(1..MaxSegs) = MaxSegs
      /\ Cardinality(1..NumPreallocated) = NumPreallocated
  <2>1. IsFiniteSet(1..MaxSegs)
        /\ Cardinality(1..MaxSegs) = IF 1 > MaxSegs THEN 0 ELSE MaxSegs - 1 + 1
    BY DeviceAssumption, FS_Interval
  <2>2. Cardinality(1..NumPreallocated)
          = IF 1 > NumPreallocated THEN 0 ELSE NumPreallocated - 1 + 1
    BY DeviceAssumption, FS_Interval
  <2> QED BY <2>1, <2>2, DeviceAssumption
<1>10. IsFiniteSet(Slots) /\ Cardinality(Slots) = a * MaxSegs
  BY <1>8, <1>9, FS_Product DEF Slots
<1>11. hole \in Slots
  BY <1>3 DEF Slots
<1> HIDE DEF hole
<1>12. IsFiniteSet(Slots \ {hole}) /\ Cardinality(Slots \ {hole}) = Cardinality(Slots) - 1
  BY <1>10, <1>11, FS_RemoveElement
<1>13. IsFiniteSet(S) /\ Cardinality(S) <= Cardinality(Slots \ {hole})
  BY <1>7, <1>12, FS_Injection
<1>14. NumPreallocated <= Cardinality(S)
  <2>1. PICK f : f \in Injection(1..NumPreallocated, S)
    BY <1>2, Zenon DEF Whole
  <2>2. Cardinality(1..NumPreallocated) <= Cardinality(S)
    BY <1>13, <2>1, FS_Injection
  <2> QED BY <1>9, <2>2
<1> DEFINE c == Cardinality(S)
           s == Cardinality(Slots)
<1>15. c \in Nat /\ s \in Nat /\ NumPreallocated \in Nat
  BY <1>10, <1>13, FS_CardinalityType, DeviceAssumption
<1>16. NumPreallocated >= s /\ NumPreallocated <= c /\ c <= s - 1
  BY <1>8, <1>10, <1>12, <1>13, <1>14 DEF RoomForAll
<1> HIDE DEF c, s
<1> QED BY <1>15, <1>16

\* The device starts with its whole stock.
LEMMA InitWhole == Init => Whole
<1> SUFFICES ASSUME Init PROVE Whole
  OBVIOUS
<1>1. pool \in [1..NumPreallocated -> Memzones] /\ Distinct(pool)
      /\ reserved = Elements(pool) /\ astray = {}
  BY DEF Init
<1>2. pool \in [1..NumPreallocated -> reserved]
  BY <1>1 DEF Elements
<1>3. \A i, j \in 1..NumPreallocated : pool[i] = pool[j] => i = j
  BY <1>1 DEF Distinct
<1>4. pool \in Injection(1..NumPreallocated, reserved)
  BY <1>2, <1>3 DEF Injection, IsInjective
<1> QED BY <1>1, <1>4, Zenon DEF Whole

\* What is reserved stays reserved, as long as nothing goes astray.
LEMMA WholeFrame ==
  ASSUME Whole, astray' = astray, reserved \subseteq reserved'
  PROVE  Whole'
<1>1. PICK f : f \in Injection(1..NumPreallocated, reserved)
  BY Zenon DEF Whole
<1>2. f \in Injection(1..NumPreallocated, reserved')
  BY <1>1 DEF Injection, IsInjective
<1> QED BY <1>2 DEF Whole

\* A Put that finds what it looks for.
LEMMA WholePut ==
  ASSUME MaxSglSegs = 1, RoomForAll, AInv("any"), EachUsed, Room, Whole,
         NEW q \in QueuePairs, NEW z, PutZone(q, z)
  PROVE  Whole'
<1>1. ~LookupMayMiss(q)
  BY StockLasts DEF LookupMayMiss, At
<1>2. DM!Put(z) /\ astray' = astray
  BY <1>1 DEF PutZone
<1>3. reserved' = reserved
  BY <1>2 DEF DM!Put
<1> QED BY <1>2, <1>3, WholeFrame

\* No step loses a memzone.
LEMMA StepWhole ==
  ASSUME MaxSglSegs = 1, RoomForAll, AInv("any"), EachUsed, Room, Whole, [Next]_vars
  PROVE  Whole'
<1>1. ASSUME UNCHANGED memoryVars PROVE Whole'
  BY <1>1, WholeFrame DEF memoryVars
<1>2. CASE UNCHANGED vars
  BY <1>1, <1>2 DEF vars
<1>3. ASSUME NEW q \in QueuePairs, Invoke(q) \/ Work(q) \/ Complete(q) \/ Stall(q)
      PROVE  Whole'
  <2>1. CASE Invoke(q) \/ Complete(q) \/ Stall(q)
    <3>1. UNCHANGED memoryVars
      BY <2>1 DEF Invoke, Compress, Decompress, Enter, Cancelled, Recycle, Complete, Stall
    <3> QED BY <1>1, <3>1
  <2>2. CASE TakeDst(q)
    <3>1. PICK z \in Memzones : DM!Take(z)
      BY <2>2 DEF TakeDst
    <3>2. reserved \subseteq reserved'
      BY <3>1 DEF DM!Take, DM!TakePooled, DM!TakeFresh
    <3>3. astray' = astray
      BY <2>2 DEF TakeDst
    <3> QED BY <3>2, <3>3, WholeFrame
  <2>3. CASE RecycleOp(q)
    <3>1. astray' = astray
      BY <2>3, SingleFills
    <3>2. reserved' = reserved
      BY <2>3 DEF RecycleOp
    <3> QED BY <3>1, <3>2, WholeFrame
  <2>4. CASE PutBack(q)
    <3>1. PutZone(q, buffers[q][Len(buffers[q])].zone)
      BY <2>4 DEF PutBack
    <3> QED BY <3>1, WholePut
  <2>5. CASE ReleaseDst(q)
    <3>1. PutZone(q, op[q][Head(pending[q])].dst[call[q].freed + 1])
      BY <2>5 DEF ReleaseDst
    <3> QED BY <3>1, WholePut
  <2>6. CASE \/ Assemble(q) \/ AssembleFails(q) \/ TakeFails(q)
             \/ Enqueue(q) \/ EnqueueFails(q)
             \/ Dequeue(q) \/ DequeueFails(q)
             \/ OpFails(q) \/ Return(q) \/ ReleaseOp(q) \/ ReleaseEnds(q)
    <3>1. UNCHANGED memoryVars
      BY <2>6 DEF Assemble, AssembleFails, TakeFails, Enqueue, EnqueueFails, Dequeue,
                  DequeueFails, OpFails, Return, ReleaseOp, ReleaseEnds
    <3> QED BY <1>1, <3>1
  <2> QED BY <1>3, <2>1, <2>2, <2>3, <2>4, <2>5, <2>6 DEF Work
<1> QED BY <1>2, <1>3 DEF Next

\* A stock that is large enough stays whole.
LEMMA WholeAlways ==
  ASSUME MaxSglSegs = 1, RoomForAll
  PROVE  Spec => []Whole
<1>1. AInv("any") /\ EachUsed /\ Room /\ Whole /\ [Next]_vars => Whole'
  BY StepWhole
<1>2. Spec => []Room
  BY RoomAlways
<1> QED BY <1>1, <1>2, InitWhole, EachUsedAlways, AccountsAlways, PTL DEF Spec

\* With the default of one segment to an operation and a stock for all lcores no
\* Put can miss its memzone, because no Take ever has to reserve one: every
\* memzone taken is in a buffer of a caller or in an operation that is still
\* pending, however calls end.
THEOREM SingleTakenIsReferenced ==
  ASSUME MaxSglSegs = 1, RoomForAll
  PROVE  Spec => []OccupiedIsReferenced
<1>1. ZInv /\ EachUsed /\ Whole => OccupiedIsReferenced
  BY KeptIsReferenced DEF OccupiedIsReferenced, Whole, Kept
<1>2. Spec => []Whole
  BY WholeAlways
<1> QED BY <1>1, <1>2, EachUsedAlways, ZInvariance, PTL

\* Nor does a Take ever fail, which it could only after finding the stock empty.
THEOREM SingleTakesSucceed ==
  ASSUME MaxSglSegs = 1, RoomForAll
  PROVE  Spec => TakesSucceed
<1>1. AInv("any") /\ EachUsed /\ Room /\ Whole => [\A q \in QueuePairs : ~TakeFails(q)]_vars
  BY StockLasts DEF TakeFails, At, DM!TakeReturnsNull
<1>2. Spec => []Whole
  BY WholeAlways
<1>3. Spec => []Room
  BY RoomAlways
<1> QED BY <1>1, <1>2, <1>3, EachUsedAlways, AccountsAlways, PTL DEF TakesSucceed

\* So, with the sizes Preallocate gives the pools, no burst ever finds them empty.
THEOREM SinglePoolsSuffice ==
  ASSUME MaxSglSegs = 1, RoomForAll, PoolsCover
  PROVE  Spec => []PoolsSuffice
BY SingleTakesSucceed, PoolsAlwaysSuffice, PTL

\* And no operation or mbuf is ever lost, whatever the device does.
THEOREM SinglePoolsRefilled ==
  ASSUME MaxSglSegs = 1, RoomForAll, PoolsCover
  PROVE  Spec => []PoolsRefilled
BY SingleTakesSucceed, PoolsAlwaysRefilled, PTL

=============================================================================
