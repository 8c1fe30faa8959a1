----------------------------- MODULE ResultProofs -----------------------------
(***************************************************************************)
(* Proofs about the results of CompressDevice: for any burst size, chain   *)
(* length, number of lcores, partial enqueues and dequeues, and faults,    *)
(* Compress returns the streams of all segments in order, and what         *)
(* Decompress makes of a complete result is what went in.  The second half *)
(* proves that CompressDevice implements CompressionService, under the     *)
(* mapping of CompressRefinement.                                          *)
(***************************************************************************)
EXTENDS CompressDeviceProofs, CompressRefinement

-----------------------------------------------------------------------------
(* Arithmetic *)

\* The segments at which an operation starts.
Aligned(x) == (x - 1) % MaxSglSegs = 0

\* From one start to the next.
LEMMA NextAligned ==
  /\ MaxSglSegs \in Nat /\ MaxSglSegs > 0
  /\ Aligned(1)
  /\ \A x \in Nat \ {0} : Aligned(x) =>
       /\ Aligned(x + MaxSglSegs)
       /\ \A y \in Nat : /\ y >= x /\ y < x + MaxSglSegs /\ Aligned(y) => y = x
<1> DEFINE S == MaxSglSegs
<1>1. S \in Nat /\ S > 0
  BY DeviceAssumption
<1> HIDE DEF S
<1>2. ASSUME NEW n \in Nat
      PROVE  n % S = 0 <=> \E k \in Nat : n = k * S
  <2>1. n \div S \in Nat /\ n % S \in Nat /\ n = (n \div S) * S + (n % S)
    BY <1>1
  <2>2. ASSUME NEW k \in Nat, n = k * S PROVE n % S = 0
    BY <1>1, <2>2
  <2>3. ASSUME n % S = 0 PROVE \E k \in Nat : n = k * S
    <3>1. PICK k \in Nat : k = n \div S
      BY <2>1
    <3>2. k * S \in Nat /\ n = k * S + 0
      BY <1>1, <2>1, <2>3, <3>1
    <3> QED BY <3>2
  <2> QED BY <2>2, <2>3
<1>3. ASSUME NEW k \in Nat, NEW j \in Nat
      PROVE  /\ k * S \in Nat /\ (k + 1) * S = k * S + S
             /\ k < j => k * S + S <= j * S
  <2>1. k * S \in Nat /\ (k + 1) * S = k * S + S
    BY <1>1
  <2>2. ASSUME k < j PROVE k * S + S <= j * S
    <3>1. PICK d \in Nat : j = (k + 1) + d
      BY <2>2
    <3>2. j * S = (k + 1) * S + d * S /\ d * S \in Nat
      BY <1>1, <3>1
    <3> QED BY <1>1, <2>1, <3>2
  <2> QED BY <2>1, <2>2
<1>4. ASSUME NEW x \in Nat \ {0}, NEW y \in Nat, y >= x, y < x + S,
             (x - 1) % S = 0, (y - 1) % S = 0
      PROVE  y = x
  <2>1. PICK m \in Nat, n \in Nat : m = x - 1 /\ n = y - 1
    BY <1>4
  <2>2. n >= m /\ n < m + S
    BY <1>1, <1>4, <2>1
  <2>3. PICK k \in Nat, j \in Nat : m = k * S /\ n = j * S
    BY <1>2, <1>4, <2>1
  <2>4. ~(k < j) /\ ~(j < k)
    <3>1. k * S \in Nat /\ j * S \in Nat
      BY <1>3
    <3>2. k < j => k * S + S <= j * S
      BY <1>3
    <3>3. j < k => j * S + S <= k * S
      BY <1>3
    <3> QED BY <1>1, <2>2, <2>3, <3>1, <3>2, <3>3
  <2>5. k = j
    BY <2>4
  <2> QED BY <1>4, <2>1, <2>3, <2>5
<1>5. (1 - 1) % S = 0
  BY <1>1
<1>6. ASSUME NEW x \in Nat \ {0}, (x - 1) % S = 0
      PROVE  ((x + S) - 1) % S = 0
  <2>1. PICK m \in Nat, n \in Nat : m = x - 1 /\ n = (x + S) - 1 /\ n = m + S
    BY <1>1
  <2>2. PICK k \in Nat : m = k * S
    BY <1>2, <1>6, <2>1
  <2>3. PICK j \in Nat : j = k + 1
    OBVIOUS
  <2>4. n = j * S
    BY <1>3, <2>1, <2>2, <2>3
  <2> QED BY <1>2, <2>1, <2>4
<1> QED BY <1>1, <1>4, <1>5, <1>6 DEF Aligned, S

-----------------------------------------------------------------------------
(* The inductive invariant *)

\* The operations of pend go on from segment "next" without a gap, each taking
\* MaxSglSegs segments or the rest, and end where the next burst will start.
Chain(next, pend, data, index, segs) ==
  /\ next \in Nat \ {0} /\ Aligned(next)
  /\ pend = <<>> => index = Least(segs, next - 1)
  /\ pend # <<>> =>
       /\ data[pend[1]].first = next
       /\ index = Least(segs, (data[pend[Len(pend)]].first + MaxSglSegs) - 1)
  /\ \A i \in DOMAIN pend :
       /\ data[pend[i]].first <= segs
       /\ data[pend[i]].len = Least(MaxSglSegs, (segs - data[pend[i]].first) + 1)
       /\ i # 1 => data[pend[i]].first = data[pend[i - 1]].first + MaxSglSegs

\* The operations of b take the segments from index to index2 in the same way.
Joins(b, data, index, index2, segs) ==
  /\ data[b[1]].first = index + 1
  /\ index2 = Least(segs, (data[b[Len(b)]].first + MaxSglSegs) - 1)
  /\ \A i \in DOMAIN b :
       /\ data[b[i]].first <= segs
       /\ data[b[i]].len = Least(MaxSglSegs, (segs - data[b[i]].first) + 1)
       /\ i # 1 => data[b[i]].first = data[b[i - 1]].first + MaxSglSegs

\* All starts before "next" have been dealt with, and nothing else.
Covered(firsts, next, segs) == firsts = {x \in Starts(segs) : x < next}

\* Buffers in order: of one stream part by part, all of them before the next one.
\* It says the same of what is left when buffers are recycled from the back.
Ordered(b) ==
  /\ \A i \in DOMAIN b :
       IF i = 1 THEN b[i].first = 1 /\ b[i].part = 1
       ELSE \/ b[i].first = b[i - 1].first /\ b[i].part = b[i - 1].part + 1
            \/ b[i].first = b[i - 1].first + MaxSglSegs /\ b[i].part = 1
  /\ \A i \in DOMAIN b : b[i].part <= b[i].parts
  /\ \A i, k \in DOMAIN b : b[i].first = b[k].first => b[i].parts = b[k].parts

\* The last buffer is the last part of its stream.
Closed(b) == b # <<>> => b[Len(b)].part = b[Len(b)].parts

\* Where the next stream, and the next decoded stream, will be.
NextMade(b)    == IF b = <<>> THEN 1 ELSE b[Len(b)].first + MaxSglSegs
NextDecoded(d) == IF d = <<>> THEN 1 ELSE d[Len(d)].slot + MaxSglSegs

Firsts(s) == {s[i].first : i \in DOMAIN s}

Making(c, pend, data, b) ==
  /\ Chain(NextMade(b), pend, data, c.index, c.segs)
  /\ Covered(Firsts(b), NextMade(b), c.segs)

DecodedStream == [slot : Nat, first : Nat]

\* What is decoded is where it was; what comes next is the first part of the
\* stream that belongs there.
Decoded(d, next) ==
  \A i \in DOMAIN d :
    /\ d[i].slot = d[i].first /\ d[i].slot < next
    /\ \A k \in DOMAIN d : d[i] = d[k] => i = k

Decoding(c, pend, data, b) ==
  LET next == NextDecoded(c.decoded) IN
  /\ c.segs = Len(b)
  /\ Chain(next, pend, data, c.index, c.segs)
  /\ Covered(Firsts(c.decoded), next, c.segs)
  /\ Decoded(c.decoded, next)
  /\ next <= Len(b) => b[next].first = next /\ b[next].part = 1

Result(c, pend, data, b) ==
  /\ Ordered(b)
  /\ c.pc # "putback" => Closed(b)
  /\ c.pc \in {"putback", "release"} => c.result # "ok"
  /\ c.pc \in ActivePCs => c.kind \in {"compress", "decompress"}
  /\ c.pc \in ActivePCs /\ c.kind = "compress" => Making(c, pend, data, b)
  /\ c.pc \in ActivePCs /\ c.kind = "decompress" => Decoding(c, pend, data, b)
  /\ c.pc = "idle" /\ c.result = "ok" /\ c.kind = "compress" =>
       Firsts(b) = Starts(c.segs)
  /\ c.pc = "idle" /\ c.result = "ok" /\ c.kind = "decompress" =>
       /\ Firsts(c.decoded) = Starts(c.segs)
       /\ \E next \in Nat : Decoded(c.decoded, next)

ResultAt(q) == Result(call[q], pending[q], op[q], buffers[q])

RInv == IInv /\ \A q \in QueuePairs : ResultAt(q)

\* The invariant says what CompressedInOrder and RoundTrip say.
LEMMA InvIsOrdered == RInv => CompressedInOrder /\ RoundTrip
<1> SUFFICES ASSUME RInv PROVE CompressedInOrder /\ RoundTrip
  OBVIOUS
<1>1. ASSUME NEW q \in QueuePairs
      PROVE  Result(call[q], pending[q], op[q], buffers[q])
  BY Zenon DEF RInv, ResultAt
<1>2. CompressedInOrder
  <2>1. ASSUME NEW q \in QueuePairs
        PROVE  /\ \A i \in DOMAIN buffers[q] :
                    IF i = 1 THEN buffers[q][i].first = 1 /\ buffers[q][i].part = 1
                    ELSE \/ /\ buffers[q][i].first = buffers[q][i - 1].first
                            /\ buffers[q][i].part = buffers[q][i - 1].part + 1
                         \/ /\ buffers[q][i].first = buffers[q][i - 1].first + MaxSglSegs
                            /\ buffers[q][i].part = 1
               /\ call[q].kind = "compress" /\ At(q, "idle") /\ call[q].result = "ok" =>
                    {buffers[q][i].first : i \in DOMAIN buffers[q]} = Starts(call[q].segs)
    BY <1>1, Zenon DEF Result, Ordered, At, Firsts
  <2> QED BY <2>1, Zenon DEF CompressedInOrder
<1>3. RoundTrip
  <2> SUFFICES ASSUME NEW q \in QueuePairs, call[q].kind = "decompress",
                      call[q].pc = "idle", call[q].result = "ok"
               PROVE  /\ {d.first : d \in Elements(call[q].decoded)} = Starts(call[q].segs)
                      /\ \A i, j \in DOMAIN call[q].decoded :
                           LET d == call[q].decoded IN
                           d[i].slot = d[i].first /\ (d[i] = d[j] => i = j)
    BY DEF RoundTrip, At
  <2>1. /\ Firsts(call[q].decoded) = Starts(call[q].segs)
        /\ \E next \in Nat : Decoded(call[q].decoded, next)
    BY <1>1, Zenon DEF Result
  <2>2. {d.first : d \in Elements(call[q].decoded)} = Firsts(call[q].decoded)
    BY DEF Elements, Firsts
  <2> QED BY <2>1, <2>2 DEF Decoded
<1> QED BY <1>2, <1>3

-----------------------------------------------------------------------------
(* The pending operations *)

\* The operation at the front is done.
LEMMA ChainTail ==
  ASSUME NEW next, NEW pend \in Seq(Operations), pend # <<>>, NEW index, NEW segs \in Nat,
         NEW data \in [Operations -> Operation], Chain(next, pend, data, index, segs),
         NEW data2, Distinct(pend),
         \A o \in Operations : o # Head(pend) => data2[o] = data[o]
  PROVE  Chain(next + MaxSglSegs, Tail(pend), data2, index, segs)
<1> DEFINE n == Len(pend)
           t == Tail(pend)
           S == MaxSglSegs
<1>1. /\ n \in Nat \ {0} /\ DOMAIN pend = 1..n /\ pend # <<>>
      /\ DOMAIN t = 1..(n - 1) /\ Len(t) = n - 1 /\ (t = <<>> <=> n = 1)
      /\ \A i \in 1..(n - 1) : t[i] = pend[i + 1]
      /\ Head(pend) = pend[1] /\ S \in Nat /\ S > 0
  <2>1. /\ n \in Nat \ {0} /\ DOMAIN pend = 1..n /\ Head(pend) = pend[1]
    OBVIOUS
  <2>2. t \in Seq(Operations) /\ Len(t) = n - 1
    BY <2>1
  <2>3. DOMAIN t = 1..(n - 1) /\ \A i \in 1..(n - 1) : t[i] = pend[i + 1]
    BY <2>1
  <2>4. t = <<>> <=> n = 1
    <3> HIDE DEF t, n
    <3> QED BY <2>1, <2>2
  <2> QED BY <2>1, <2>2, <2>3, <2>4, DeviceAssumption
<1>2. \A i \in 1..n : pend[i] \in Operations
  OBVIOUS
<1> DEFINE f(i) == data[pend[i]].first
<1>3. \A i \in 1..n : f(i) \in Nat
  BY <1>2 DEF Operation
<1>4. ASSUME NEW i \in 1..(n - 1)
      PROVE  data2[t[i]] = data[pend[i + 1]] /\ i + 1 \in 1..n
  <2>1. i + 1 \in 1..n /\ 1 \in 1..n /\ i + 1 # 1
    BY <1>1
  <2>2. pend[i + 1] # pend[1]
    BY <1>1, <2>1 DEF Distinct
  <2>3. pend[i + 1] \in Operations
    BY <1>2, <2>1
  <2> QED BY <1>1, <2>1, <2>2, <2>3
<1>5. /\ next \in Nat \ {0} /\ Aligned(next) /\ f(1) = next
      /\ index = Least(segs, (f(n) + S) - 1)
      /\ \A i \in 1..n : /\ f(i) <= segs
                         /\ data[pend[i]].len = Least(S, (segs - f(i)) + 1)
                         /\ i # 1 => f(i) = f(i - 1) + S
  BY <1>1 DEF Chain
<1>6. next + S \in Nat \ {0} /\ Aligned(next + S)
  BY <1>1, <1>5, NextAligned
<1> HIDE DEF n, t, S, f
<1>7. t = <<>> => index = Least(segs, (next + S) - 1)
  BY <1>1, <1>5
<1>8. t # <<>> =>
        /\ data2[t[1]].first = next + S
        /\ index = Least(segs, (data2[t[Len(t)]].first + S) - 1)
  <2> SUFFICES ASSUME t # <<>>
               PROVE  /\ data2[t[1]].first = next + S
                      /\ index = Least(segs, (data2[t[Len(t)]].first + S) - 1)
    OBVIOUS
  <2>1. n > 1
    BY <1>1
  <2>2. 1 \in 1..(n - 1) /\ n - 1 \in 1..(n - 1) /\ 2 \in 1..n
        /\ 1 + 1 = 2 /\ (n - 1) + 1 = n
    BY <1>1, <2>1
  <2>3. data2[t[1]] = data[pend[2]] /\ data2[t[n - 1]] = data[pend[n]]
    <3>1. data2[t[1]] = data[pend[1 + 1]] /\ data2[t[n - 1]] = data[pend[(n - 1) + 1]]
      BY <1>4, <2>2
    <3> QED BY <2>2, <3>1
  <2>4. f(2) = f(2 - 1) + S
    BY <1>5, <2>2
  <2>5. data2[t[1]].first = f(2) /\ data2[t[Len(t)]].first = f(n)
    BY <1>1, <2>3 DEF f
  <2> QED BY <1>5, <2>4, <2>5
<1>9. ASSUME NEW i \in DOMAIN t
      PROVE  /\ data2[t[i]].first <= segs
             /\ data2[t[i]].len = Least(S, (segs - data2[t[i]].first) + 1)
             /\ i # 1 => data2[t[i]].first = data2[t[i - 1]].first + S
  <2>1. i \in 1..(n - 1) /\ i + 1 \in 1..n /\ data2[t[i]] = data[pend[i + 1]]
    BY <1>1, <1>4
  <2>2. data2[t[i]].first = f(i + 1)
    BY <2>1 DEF f
  <2>3. /\ data2[t[i]].first <= segs
        /\ data2[t[i]].len = Least(S, (segs - data2[t[i]].first) + 1)
    BY <1>5, <2>1, <2>2
  <2>4. ASSUME i # 1 PROVE data2[t[i]].first = data2[t[i - 1]].first + S
    <3>1. i - 1 \in 1..(n - 1) /\ (i - 1) + 1 = i /\ i + 1 # 1 /\ (i + 1) - 1 = i
      BY <1>1, <2>1, <2>4
    <3>2. data2[t[i - 1]] = data[pend[i]]
      <4>1. data2[t[i - 1]] = data[pend[(i - 1) + 1]]
        BY <1>4, <3>1
      <4> QED BY <3>1, <4>1
    <3>3. f(i + 1) = f(i) + S
      BY <1>5, <2>1, <3>1
    <3> QED BY <2>2, <3>2, <3>3 DEF f
  <2> QED BY <2>3, <2>4
<1> QED BY <1>6, <1>7, <1>8, <1>9 DEF Chain, S, t

\* The operations of the next burst: they start where the last one ended.
LEMMA NextChain ==
  ASSUME NEW q \in QueuePairs, CanAssemble(q), call[q] \in Call,
         operations[q] \in Seq(Operations)
  PROVE  /\ NextOps(q) \in Nat \ {0}
         /\ call[q].index + NextUnits(q)
              = Least(call[q].segs,
                      (Assembled(q, NextOps(q)).first + MaxSglSegs) - 1)
         /\ Assembled(q, 1).first = call[q].index + 1
         /\ \A i \in 1..NextOps(q) :
              /\ Assembled(q, i).first \in Nat
              /\ Assembled(q, i).first <= call[q].segs
              /\ Assembled(q, i).len
                   = Least(MaxSglSegs, (call[q].segs - Assembled(q, i).first) + 1)
              /\ i # 1 => Assembled(q, i).first = Assembled(q, i - 1).first + MaxSglSegs
<1> DEFINE S == MaxSglSegs
           index == call[q].index
           segs == call[q].segs
           room == BurstSize - Len(operations[q])
           U == NextUnits(q)
           k == NextOps(q)
<1>1. /\ S \in Nat /\ S > 0 /\ index \in Nat /\ segs \in Nat
      /\ index < segs /\ room \in Nat /\ room > 0
  BY DeviceAssumption DEF Call, CanAssemble
<1>2. U = Least(segs - index, room * S) /\ k = (U + S - 1) \div S
  BY DEF NextUnits, NextOps
<1>3. \A i : /\ Assembled(q, i).first = index + (i - 1) * S + 1
             /\ Assembled(q, i).len = Least(S, U - (i - 1) * S)
  BY DEF Assembled
<1> HIDE DEF S, index, segs, room, U, k
<1>4. room * S \in Nat /\ room * S > 0
  BY <1>1
<1>5. /\ U \in Nat /\ U > 0 /\ index + U <= segs
      /\ U = segs - index \/ U = room * S
  <2> DEFINE p == room * S
  <2> HIDE DEF p
  <2>1. p \in Nat /\ p > 0 /\ U = Least(segs - index, p)
    BY <1>2, <1>4 DEF p
  <2>2. U \in Nat /\ U > 0 /\ index + U <= segs /\ (U = segs - index \/ U = p)
    BY <1>1, <2>1 DEF Least
  <2> QED BY <2>2 DEF p
<1>6. k \in Nat /\ k * S \in Nat /\ k * S <= U + S - 1 /\ U <= k * S
  <2> DEFINE n == U + S - 1
  <2>1. n \in Nat
    BY <1>1, <1>5
  <2>2. k = n \div S
    BY <1>2
  <2> HIDE DEF n
  <2>3. k \in Nat /\ k * S \in Nat /\ k * S <= n /\ n < k * S + S
    BY <1>1, <2>1, <2>2
  <2> QED BY <1>1, <1>5, <2>3 DEF n
<1>7. k # 0
  <2> SUFFICES ASSUME k = 0 PROVE FALSE
    OBVIOUS
  <2>1. k * S = 0
    BY <1>1
  <2> QED BY <1>5, <1>6, <2>1
<1>8. U = room * S => k * S = U
  <2> SUFFICES ASSUME U = room * S PROVE k * S = U
    OBVIOUS
  <2>1. ~(room < k)
    <3> SUFFICES ASSUME room < k PROVE FALSE
      OBVIOUS
    <3>1. PICK d \in Nat : k = (room + 1) + d
      BY <1>1, <1>6
    <3>2. k * S = (room * S + S) + d * S /\ d * S \in Nat
      BY <1>1, <3>1
    <3> QED BY <1>1, <1>4, <1>6, <3>2
  <2>2. ~(k < room)
    <3> SUFFICES ASSUME k < room PROVE FALSE
      OBVIOUS
    <3>1. PICK d \in Nat : room = (k + 1) + d
      BY <1>1, <1>6
    <3>2. room * S = (k * S + S) + d * S /\ d * S \in Nat
      BY <1>1, <1>6, <3>1
    <3> QED BY <1>1, <1>4, <1>6, <3>2
  <2>3. k = room
    BY <1>1, <1>6, <2>1, <2>2
  <2> QED BY <2>3
<1>9. ASSUME NEW i \in 1..k
      PROVE  /\ i \in Nat /\ (i - 1) * S \in Nat /\ i * S = (i - 1) * S + S
             /\ i * S <= k * S
  <2>1. i \in Nat /\ i - 1 \in Nat /\ (i - 1) * S \in Nat /\ i * S = (i - 1) * S + S
    BY <1>1, <1>6
  <2>2. i * S <= k * S
    <3>1. PICK d \in Nat : k = i + d
      BY <1>6
    <3>2. k * S = i * S + d * S /\ d * S \in Nat /\ i * S \in Nat
      BY <1>1, <2>1, <3>1
    <3> QED BY <3>2
  <2> QED BY <2>1, <2>2
<1>10. index + U = Least(segs, (index + k * S + 1) - 1)
  <2> DEFINE p == k * S
             r == room * S
  <2> HIDE DEF p, r
  <2>1. /\ p \in Nat /\ U <= p /\ r \in Nat
        /\ U = segs - index \/ (U = r /\ p = U)
    BY <1>4, <1>5, <1>6, <1>8 DEF p, r
  <2>2. index + U = Least(segs, (index + p + 1) - 1)
    BY <1>1, <1>5, <2>1 DEF Least
  <2> QED BY <2>2 DEF p
<1>11. ASSUME NEW i \in 1..k
       PROVE  /\ index + (i - 1) * S + 1 \in Nat
              /\ index + (i - 1) * S + 1 <= segs
              /\ Least(S, U - (i - 1) * S)
                   = Least(S, (segs - (index + (i - 1) * S + 1)) + 1)
  <2> DEFINE p == k * S
             r == room * S
             m == (i - 1) * S
  <2> HIDE DEF p, r, m
  <2>1. /\ p \in Nat /\ U <= p /\ r \in Nat /\ p <= U + S - 1 /\ m \in Nat /\ m + S <= p
        /\ U = segs - index \/ (U = r /\ p = U)
    BY <1>4, <1>5, <1>6, <1>8, <1>9 DEF p, r, m
  <2>2. /\ index + m + 1 \in Nat /\ index + m + 1 <= segs
        /\ Least(S, U - m) = Least(S, (segs - (index + m + 1)) + 1)
    BY <1>1, <1>5, <2>1 DEF Least
  <2> QED BY <2>2 DEF m
<1>12. Assembled(q, 1).first = index + 1
  <2>1. (1 - 1) * S = 0
    BY <1>1
  <2>2. Assembled(q, 1).first = index + (1 - 1) * S + 1
    BY <1>3
  <2> QED BY <1>1, <2>1, <2>2
<1>13. (Assembled(q, k).first + S) - 1 = (index + k * S + 1) - 1
  <2>1. k \in 1..k
    BY <1>6, <1>7
  <2>2. k * S = (k - 1) * S + S /\ (k - 1) * S \in Nat
    BY <1>9, <2>1
  <2>3. Assembled(q, k).first = index + (k - 1) * S + 1
    BY <1>3
  <2> DEFINE p == k * S
             m == (k - 1) * S
  <2> HIDE DEF p, m
  <2>4. p = m + S /\ m \in Nat /\ Assembled(q, k).first = index + m + 1
    BY <2>2, <2>3 DEF p, m
  <2>5. (Assembled(q, k).first + S) - 1 = (index + p + 1) - 1
    BY <1>1, <2>4
  <2> QED BY <2>5 DEF p
<1>14. ASSUME NEW i \in 1..k, i # 1
       PROVE  Assembled(q, i).first = Assembled(q, i - 1).first + S
  <2>1. PICK j \in 1..k : j = i - 1
    BY <1>6, <1>14
  <2>2. j * S = (j - 1) * S + S /\ (j - 1) * S \in Nat
    BY <1>9
  <2>3. Assembled(q, i).first = index + j * S + 1
        /\ Assembled(q, j).first = index + (j - 1) * S + 1
    BY <1>3, <2>1
  <2> DEFINE p == j * S
             m == (j - 1) * S
  <2> HIDE DEF p, m
  <2>4. /\ p = m + S /\ m \in Nat
        /\ Assembled(q, i).first = index + p + 1 /\ Assembled(q, j).first = index + m + 1
    BY <2>2, <2>3 DEF p, m
  <2>5. Assembled(q, i).first = Assembled(q, j).first + S
    BY <1>1, <2>4
  <2> QED BY <2>1, <2>5
<1> QED BY <1>3, <1>6, <1>7, <1>10, <1>11, <1>12, <1>13, <1>14 DEF S, index, segs, U, k

\* A burst joins at the back.
LEMMA ChainAppend ==
  ASSUME NEW next, NEW pend \in Seq(Operations), NEW index \in Nat, NEW segs \in Nat,
         NEW data \in [Operations -> Operation], Chain(next, pend, data, index, segs),
         index < segs,
         NEW data2 \in [Operations -> Operation], NEW b \in Seq(Operations), b # <<>>,
         NEW index2, Joins(b, data2, index, index2, segs),
         \A o \in Elements(pend) : data2[o] = data[o]
  PROVE  Chain(next, pend \o b, data2, index2, segs)
<1> DEFINE all == pend \o b
           n == Len(pend)
           k == Len(b)
           S == MaxSglSegs
           f(i) == data2[all[i]].first
<1>1. /\ n \in Nat /\ k \in Nat /\ k # 0 /\ DOMAIN pend = 1..n /\ DOMAIN b = 1..k
      /\ DOMAIN all = 1..(n + k) /\ Len(all) = n + k
      /\ \A i \in 1..n : all[i] = pend[i]
      /\ \A i \in 1..k : all[n + i] = b[i]
      /\ pend = <<>> <=> n = 0
      /\ S \in Nat /\ S > 0
  <2>1. n \in Nat /\ k \in Nat /\ k # 0 /\ DOMAIN pend = 1..n /\ DOMAIN b = 1..k
    OBVIOUS
  <2>2. DOMAIN all = 1..(n + k) /\ Len(all) = n + k
    OBVIOUS
  <2>3. /\ \A i \in 1..n : all[i] = pend[i]
        /\ \A i \in 1..k : all[n + i] = b[i]
    BY <2>1
  <2>4. pend = <<>> <=> n = 0
    OBVIOUS
  <2> QED BY <2>1, <2>2, <2>3, <2>4, DeviceAssumption
<1>2. \A i \in 1..n : data2[pend[i]] = data[pend[i]]
  BY <1>1 DEF Elements
<1>3. /\ next \in Nat \ {0} /\ Aligned(next)
      /\ n = 0 => index = Least(segs, next - 1)
      /\ n # 0 => /\ data[pend[1]].first = next
                  /\ index = Least(segs, (data[pend[n]].first + S) - 1)
      /\ \A i \in 1..n :
           /\ data[pend[i]].first <= segs
           /\ data[pend[i]].len = Least(S, (segs - data[pend[i]].first) + 1)
           /\ i # 1 => data[pend[i]].first = data[pend[i - 1]].first + S
  BY <1>1 DEF Chain
<1>4. /\ data2[b[1]].first = index + 1
      /\ index2 = Least(segs, (data2[b[k]].first + S) - 1)
      /\ \A i \in 1..k :
           /\ data2[b[i]].first <= segs
           /\ data2[b[i]].len = Least(S, (segs - data2[b[i]].first) + 1)
           /\ i # 1 => data2[b[i]].first = data2[b[i - 1]].first + S
  BY <1>1 DEF Joins
<1>5. \A i \in 1..(n + k) : all[i] \in Operations /\ f(i) \in Nat
  <2>1. all \in Seq(Operations)
    OBVIOUS
  <2>2. \A i \in 1..(n + k) : all[i] \in Operations
    BY <1>1, <2>1
  <2> QED BY <2>2 DEF Operation
<1> HIDE DEF all, n, k, S
<1>6. f(1) = next
  <2>1. CASE n = 0
    <3>1. 1 \in 1..k /\ n + 1 = 1
      BY <1>1, <2>1
    <3>2. all[1] = b[1]
      BY <1>1, <3>1
    <3> QED BY <1>3, <1>4, <2>1, <3>2 DEF Least
  <2>2. CASE n # 0
    <3>1. 1 \in 1..n
      BY <1>1, <2>2
    <3> QED BY <1>1, <1>2, <1>3, <2>2, <3>1
  <2> QED BY <2>1, <2>2
<1>7. index2 = Least(segs, (f(n + k) + S) - 1)
  <2>1. all[n + k] = b[k]
    BY <1>1
  <2> QED BY <1>4, <2>1
<1>8. ASSUME NEW i \in 1..(n + k)
      PROVE  /\ f(i) <= segs
             /\ data2[all[i]].len = Least(S, (segs - f(i)) + 1)
             /\ i # 1 => f(i) = f(i - 1) + S
  <2>1. CASE i \in 1..n
    <3>1. data2[all[i]] = data[pend[i]]
      BY <1>1, <1>2, <2>1
    <3>2. i # 1 => data2[all[i - 1]] = data[pend[i - 1]]
      <4>1. i # 1 => i - 1 \in 1..n
        BY <1>1, <2>1
      <4> QED BY <1>1, <1>2, <4>1
    <3> QED BY <1>3, <2>1, <3>1, <3>2
  <2>2. CASE i \notin 1..n
    <3>1. PICK j \in 1..k : i = n + j /\ all[i] = b[j]
      <4>1. i - n \in 1..k /\ n + (i - n) = i
        BY <1>1, <2>2
      <4>2. all[n + (i - n)] = b[i - n]
        BY <1>1, <4>1
      <4> QED BY <4>1, <4>2
    <3>2. /\ f(i) <= segs
          /\ data2[all[i]].len = Least(S, (segs - f(i)) + 1)
      BY <1>4, <3>1
    <3>3. CASE j # 1
      <4>1. j - 1 \in 1..k /\ n + (j - 1) = i - 1
        BY <1>1, <3>1, <3>3
      <4>2. all[i - 1] = b[j - 1]
        BY <1>1, <4>1
      <4> QED BY <1>4, <3>1, <3>2, <3>3, <4>2
    <3>4. CASE j = 1
      <4>1. f(i) = index + 1 /\ i = n + 1
        BY <1>4, <3>1, <3>4
      <4>2. ASSUME i # 1 PROVE f(i) = f(i - 1) + S
        <5>1. n # 0 /\ i - 1 = n /\ n \in 1..n /\ n \in 1..(n + k)
          BY <1>1, <4>1, <4>2
        <5>2. data2[all[n]] = data[pend[n]]
          BY <1>1, <1>2, <5>1
        <5>3. index = Least(segs, (f(n) + S) - 1) /\ f(n) \in Nat
          BY <1>3, <1>5, <5>1, <5>2
        <5>4. index = (f(n) + S) - 1
          BY <5>3 DEF Least
        <5>5. index + 1 = f(n) + S
          <6> HIDE DEF f
          <6> QED BY <1>1, <5>3, <5>4
        <5> QED BY <4>1, <5>1, <5>5
      <4> QED BY <3>2, <4>2
    <3> QED BY <3>3, <3>4
  <2> QED BY <2>1, <2>2
<1>9. all # <<>>
  BY <1>1
<1> QED BY <1>1, <1>3, <1>6, <1>7, <1>8, <1>9 DEF Chain, all, S

\* Chain only looks at where the operations start and how long they are.
LEMMA ChainSame ==
  ASSUME NEW next, NEW pend \in Seq(Operations), NEW index, NEW segs,
         NEW data, NEW data2, Chain(next, pend, data, index, segs),
         \A o \in Operations : data2[o].first = data[o].first /\ data2[o].len = data[o].len
  PROVE  Chain(next, pend, data2, index, segs)
<1>1. \A i \in DOMAIN pend : /\ data2[pend[i]].first = data[pend[i]].first
                             /\ data2[pend[i]].len = data[pend[i]].len
  OBVIOUS
<1>2. pend # <<>> => 1 \in DOMAIN pend /\ Len(pend) \in DOMAIN pend
  OBVIOUS
<1>3. \A i \in DOMAIN pend : i # 1 => i - 1 \in DOMAIN pend
  OBVIOUS
<1> QED BY <1>1, <1>2, <1>3 DEF Chain

-----------------------------------------------------------------------------
(* The buffers *)

\* What is left of the buffers when the last is recycled is still in order.
LEMMA OrderedLess ==
  ASSUME NEW b \in Seq(Buffer), b # <<>>, Ordered(b)
  PROVE  Ordered(SubSeq(b, 1, Len(b) - 1))
<1> DEFINE n == Len(b)
           less == SubSeq(b, 1, n - 1)
<1>1. n \in Nat \ {0} /\ DOMAIN b = 1..n
  OBVIOUS
<1>2. DOMAIN less = 1..(n - 1) /\ \A i \in 1..(n - 1) : less[i] = b[i]
  BY <1>1
<1> HIDE DEF n, less
<1>3. \A i \in DOMAIN less : /\ i \in DOMAIN b /\ less[i] = b[i]
                             /\ i # 1 => less[i - 1] = b[i - 1]
  <2> SUFFICES ASSUME NEW i \in DOMAIN less
               PROVE  /\ i \in DOMAIN b /\ less[i] = b[i]
                      /\ i # 1 => less[i - 1] = b[i - 1]
    OBVIOUS
  <2>1. i \in 1..(n - 1) /\ i \in 1..n /\ (i # 1 => i - 1 \in 1..(n - 1))
    BY <1>1, <1>2
  <2> QED BY <1>1, <1>2, <2>1
<1>4. Ordered(less)
  <2>1. \A i \in DOMAIN less :
          IF i = 1 THEN less[i].first = 1 /\ less[i].part = 1
          ELSE \/ less[i].first = less[i - 1].first /\ less[i].part = less[i - 1].part + 1
               \/ less[i].first = less[i - 1].first + MaxSglSegs /\ less[i].part = 1
    <3> TAKE i \in DOMAIN less
    <3>1. IF i = 1 THEN b[i].first = 1 /\ b[i].part = 1
          ELSE \/ b[i].first = b[i - 1].first /\ b[i].part = b[i - 1].part + 1
               \/ b[i].first = b[i - 1].first + MaxSglSegs /\ b[i].part = 1
      BY <1>3 DEF Ordered
    <3>2. less[i] = b[i] /\ (i # 1 => less[i - 1] = b[i - 1])
      BY <1>3
    <3> QED BY <3>1, <3>2
  <2>2. \A i \in DOMAIN less : less[i].part <= less[i].parts
    BY <1>3 DEF Ordered
  <2>3. \A i, k \in DOMAIN less : less[i].first = less[k].first => less[i].parts = less[k].parts
    <3> TAKE i, k \in DOMAIN less
    <3>1. less[i] = b[i] /\ less[k] = b[k] /\ i \in DOMAIN b /\ k \in DOMAIN b
      BY <1>3
    <3>2. b[i].first = b[k].first => b[i].parts = b[k].parts
      BY <3>1, Zenon DEF Ordered
    <3> QED BY <3>1, <3>2
  <2> QED BY <2>1, <2>2, <2>3 DEF Ordered
<1> QED BY <1>4 DEF less, n

\* The parts of a new stream, made of the operation at the front.
NewStream(made, first) ==
  /\ made # <<>>
  /\ \A j \in DOMAIN made : /\ made[j].first = first
                            /\ made[j].part = j
                            /\ made[j].parts = Len(made)

\* A new stream joins the buffers at the back.
LEMMA OrderedAppend ==
  ASSUME NEW b \in Seq(Buffer), Ordered(b), Closed(b), NEW made \in Seq(Buffer),
         NewStream(made, NextMade(b)),
         NextMade(b) \in Nat, \A i \in DOMAIN b : b[i].first < NextMade(b)
  PROVE  /\ Ordered(b \o made) /\ Closed(b \o made)
         /\ NextMade(b \o made) = NextMade(b) + MaxSglSegs
         /\ Firsts(b \o made) = Firsts(b) \cup {NextMade(b)}
<1> DEFINE all == b \o made
           n == Len(b)
           k == Len(made)
           next == NextMade(b)
<1>1. /\ n \in Nat /\ k \in Nat /\ k # 0 /\ DOMAIN b = 1..n /\ DOMAIN made = 1..k
      /\ DOMAIN all = 1..(n + k) /\ Len(all) = n + k
      /\ \A i \in 1..n : all[i] = b[i]
      /\ \A j \in 1..k : all[n + j] = made[j]
      /\ b = <<>> <=> n = 0
  <2>1. made # <<>>
    BY DEF NewStream
  <2>2. n \in Nat /\ k \in Nat /\ k # 0 /\ DOMAIN b = 1..n /\ DOMAIN made = 1..k
    BY <2>1
  <2>3. DOMAIN all = 1..(n + k) /\ Len(all) = n + k
    OBVIOUS
  <2>4. /\ \A i \in 1..n : all[i] = b[i]
        /\ \A j \in 1..k : all[n + j] = made[j]
    BY <2>2
  <2>5. b = <<>> <=> n = 0
    OBVIOUS
  <2> QED BY <2>2, <2>3, <2>4, <2>5
<1>2. \A j \in 1..k : made[j].first = next /\ made[j].part = j /\ made[j].parts = k
  BY <1>1 DEF NewStream
<1>3. /\ n = 0 => next = 1
      /\ n # 0 => next = b[n].first + MaxSglSegs /\ b[n].part = b[n].parts
  BY <1>1 DEF NextMade, Closed
<1>4. next \in Nat /\ \A i \in 1..n : b[i].first # next
  <2>1. \A i \in 1..n : b[i].first \in Nat
    <3>1. \A i \in 1..n : b[i] \in Buffer
      BY <1>1
    <3> QED BY <3>1 DEF Buffer
  <2> QED BY <1>1, <2>1
<1>5. ASSUME NEW i \in 1..(n + k), i \notin 1..n
      PROVE  \E j \in 1..k : i = n + j /\ all[i] = made[j]
  <2>1. i - n \in 1..k /\ n + (i - n) = i
    BY <1>1, <1>5
  <2>2. all[n + (i - n)] = made[i - n]
    BY <1>1, <2>1
  <2> QED BY <2>1, <2>2
<1> HIDE DEF all, n, k, next
<1>6. ASSUME NEW i \in 1..(n + k)
      PROVE  /\ IF i = 1 THEN all[i].first = 1 /\ all[i].part = 1
                ELSE \/ /\ all[i].first = all[i - 1].first
                        /\ all[i].part = all[i - 1].part + 1
                     \/ /\ all[i].first = all[i - 1].first + MaxSglSegs
                        /\ all[i].part = 1
             /\ all[i].part <= all[i].parts
  <2>1. CASE i \in 1..n
    <3>1. all[i] = b[i] /\ (i # 1 => i - 1 \in 1..n)
      BY <1>1, <2>1
    <3>2. i # 1 => all[i - 1] = b[i - 1]
      BY <1>1, <3>1
    <3> QED BY <1>1, <2>1, <3>1, <3>2 DEF Ordered
  <2>2. CASE i \notin 1..n
    <3>1. PICK j \in 1..k : i = n + j /\ all[i] = made[j]
      BY <1>5, <2>2
    <3>2. all[i].first = next /\ all[i].part = j /\ all[i].parts = k /\ j <= k
      BY <1>1, <1>2, <3>1
    <3>3. CASE j # 1
      <4>1. j - 1 \in 1..k /\ n + (j - 1) = i - 1 /\ i # 1
        BY <1>1, <3>1, <3>3
      <4>2. all[i - 1] = made[j - 1]
        BY <1>1, <4>1
      <4>3. all[i - 1].first = next /\ all[i - 1].part = j - 1 /\ j = (j - 1) + 1
        BY <1>2, <4>1, <4>2
      <4> QED BY <3>2, <4>1, <4>3
    <3>4. CASE j = 1
      <4>1. i = 1 => n = 0
        BY <1>1, <3>1, <3>4
      <4>2. ASSUME i # 1
            PROVE  all[i].first = all[i - 1].first + MaxSglSegs
        <5>1. n # 0 /\ i - 1 = n /\ n \in 1..n
          BY <1>1, <3>1, <3>4, <4>2
        <5>2. all[n] = b[n]
          BY <1>1, <5>1
        <5> QED BY <1>3, <3>2, <5>1, <5>2
      <4> QED BY <1>3, <3>2, <3>4, <4>1, <4>2
    <3> QED BY <3>3, <3>4
  <2> QED BY <2>1, <2>2
<1>7. ASSUME NEW i \in 1..(n + k), NEW m \in 1..(n + k), all[i].first = all[m].first
      PROVE  all[i].parts = all[m].parts
  <2>1. CASE i \in 1..n /\ m \in 1..n
    BY <1>1, <1>7, <2>1 DEF Ordered
  <2>2. CASE i \notin 1..n /\ m \notin 1..n
    BY <1>2, <1>5, <2>2
  <2>3. CASE i \in 1..n /\ m \notin 1..n
    <3>1. all[i].first # next
      BY <1>1, <1>4, <2>3
    <3>2. all[m].first = next
      BY <1>2, <1>5, <2>3
    <3> QED BY <1>7, <3>1, <3>2
  <2>4. CASE i \notin 1..n /\ m \in 1..n
    <3>1. all[m].first # next
      BY <1>1, <1>4, <2>4
    <3>2. all[i].first = next
      BY <1>2, <1>5, <2>4
    <3> QED BY <1>7, <3>1, <3>2
  <2> QED BY <2>1, <2>2, <2>3, <2>4
<1>8. Ordered(all)
  BY <1>1, <1>6, <1>7 DEF Ordered
<1>9. all # <<>> /\ all[n + k].first = next /\ all[n + k].part = all[n + k].parts
  <2>1. k \in 1..k /\ all[n + k] = made[k]
    BY <1>1
  <2> QED BY <1>1, <1>2, <2>1
<1>10. Closed(all) /\ NextMade(all) = next + MaxSglSegs
  BY <1>1, <1>9 DEF Closed, NextMade
<1>11. Firsts(all) = Firsts(b) \cup {next}
  <2>1. ASSUME NEW i \in 1..(n + k)
        PROVE  all[i].first \in Firsts(b) \cup {next}
    <3>1. CASE i \in 1..n
      BY <1>1, <3>1 DEF Firsts
    <3>2. CASE i \notin 1..n
      BY <1>2, <1>5, <3>2
    <3> QED BY <3>1, <3>2
  <2>2. ASSUME NEW i \in 1..n
        PROVE  b[i].first \in Firsts(all)
    <3>1. i \in 1..(n + k) /\ all[i] = b[i]
      BY <1>1
    <3> QED BY <1>1, <3>1 DEF Firsts
  <2>3. next \in Firsts(all)
    <3>1. n + k \in 1..(n + k)
      BY <1>1
    <3> QED BY <1>1, <1>9, <3>1 DEF Firsts
  <2>4. \A x \in Firsts(all) : x \in Firsts(b) \cup {next}
    BY <1>1, <2>1 DEF Firsts
  <2>5. \A x \in Firsts(b) : x \in Firsts(all)
    <3>1. \A x \in Firsts(b) : \E i \in 1..n : x = b[i].first
      BY <1>1 DEF Firsts
    <3> QED BY <2>2, <3>1
  <2> QED BY <2>3, <2>4, <2>5
<1> QED BY <1>8, <1>10, <1>11 DEF all, next

\* The next start is dealt with.
LEMMA CoverNext ==
  ASSUME NEW firsts, NEW next \in Nat \ {0}, Aligned(next), NEW segs \in Nat,
         Covered(firsts, next, segs), next <= segs
  PROVE  Covered(firsts \cup {next}, next + MaxSglSegs, segs)
<1> DEFINE S == MaxSglSegs
<1>1. /\ S \in Nat /\ S > 0
      /\ \A y \in Nat : /\ y >= next /\ y < next + S /\ Aligned(y) => y = next
  BY NextAligned
<1>2. \A x : x \in Starts(segs) <=> x \in 1..segs /\ Aligned(x)
  BY DEF Starts, Aligned
<1> HIDE DEF S
<1>3. \A x \in Starts(segs) : x \in Nat /\ Aligned(x)
  BY <1>2
<1>4. next \in Starts(segs)
  BY <1>2
<1>5. \A x \in Starts(segs) : x < next + S <=> (x < next \/ x = next)
  <2> SUFFICES ASSUME NEW x \in Starts(segs)
               PROVE  x < next + S <=> (x < next \/ x = next)
    OBVIOUS
  <2>1. x \in Nat /\ Aligned(x)
    BY <1>3
  <2>2. x < next \/ x = next => x < next + S
    BY <1>1, <2>1
  <2>3. x < next + S /\ ~(x < next) => x = next
    BY <1>1, <2>1
  <2> QED BY <2>2, <2>3
<1> QED BY <1>4, <1>5 DEF Covered, S

\* Everything is dealt with once the next start is past the end.
LEMMA CoverAll ==
  ASSUME NEW firsts, NEW next \in Nat, NEW segs \in Nat,
         Covered(firsts, next, segs), next > segs
  PROVE  firsts = Starts(segs)
<1>1. \A x \in Starts(segs) : x \in Nat /\ x <= segs
  BY DEF Starts
<1>2. \A x \in Starts(segs) : x < next
  BY <1>1
<1> QED BY <1>2 DEF Covered

-----------------------------------------------------------------------------
(* The steps *)

\* A step of q keeps the invariant when it keeps q's part of it.
LEMMA RFrame ==
  ASSUME RInv, IInv', NEW q \in QueuePairs, Others(q), ResultAt(q)'
  PROVE  RInv'
<1>1. ASSUME NEW p \in QueuePairs
      PROVE  ResultAt(p)'
  <2>1. CASE p = q
    BY <2>1
  <2>2. CASE p # q
    <3>1. /\ call'[p] = call[p] /\ pending'[p] = pending[p]
          /\ op'[p] = op[p] /\ buffers'[p] = buffers[p]
      BY <2>2 DEF Others
    <3>2. ResultAt(p)
      BY Zenon DEF RInv
    <3> QED BY <3>1, <3>2, Zenon DEF ResultAt
  <2> QED BY <2>1, <2>2
<1> QED BY <1>1, Zenon DEF RInv

\* What the invariant says of one queue pair.
LEMMA ROne ==
  ASSUME RInv, NEW q \in QueuePairs
  PROVE  /\ IInv
         /\ call[q] \in Call /\ pending[q] \in Seq(Operations)
         /\ buffers[q] \in Seq(Buffer) /\ op[q] \in [Operations -> Operation]
         /\ Distinct(pending[q]) /\ Elements(pending[q]) \cap freeOps[q] = {}
         /\ freeOps[q] \in SUBSET Operations
         /\ Result(call[q], pending[q], op[q], buffers[q])
<1>1. IInv /\ ResultAt(q)
  BY Zenon DEF RInv
<1>2. Result(call[q], pending[q], op[q], buffers[q])
  BY <1>1, Zenon DEF ResultAt
<1>3. /\ call[q] \in Call /\ pending[q] \in Seq(Operations)
      /\ buffers[q] \in Seq(Buffer) /\ op[q] \in [Operations -> Operation]
      /\ Distinct(pending[q]) /\ Elements(pending[q]) \cap freeOps[q] = {}
      /\ freeOps[q] \in SUBSET Operations
  BY <1>1, Localize DEF QType, QInv, QExclusive
<1> QED BY <1>1, <1>2, <1>3

\* The call goes on without dealing with an operation, fails, or is not running.
Continues(c, c2) ==
  /\ c2.kind = c.kind /\ c2.segs = c.segs /\ c2.index = c.index /\ c2.decoded = c.decoded
  /\ c2.pc \in ActivePCs => c.pc \in ActivePCs
  /\ c2.pc \in {"putback", "release"} => c2.result # "ok"
  /\ c2.pc # "putback" => c.pc # "putback"
  /\ c2.pc = "idle" /\ c2.result = "ok" => c.pc = "idle" /\ c.result = "ok"

\* A call that continues keeps what it has of its result.
LEMMA Continuing ==
  ASSUME NEW c, NEW pend, NEW data, NEW b, Result(c, pend, data, b),
         NEW c2, Continues(c, c2), NEW pend2, NEW data2,
         c2.pc \in ActivePCs => pend2 = pend /\ data2 = data
  PROVE  Result(c2, pend2, data2, b)
<1>1. /\ c2.kind = c.kind /\ c2.segs = c.segs /\ c2.index = c.index
      /\ c2.decoded = c.decoded
  BY DEF Continues
<1>2. ASSUME c2.pc \in ActivePCs
      PROVE  /\ c2.kind \in {"compress", "decompress"}
             /\ c2.kind = "compress" => Making(c2, pend2, data2, b)
             /\ c2.kind = "decompress" => Decoding(c2, pend2, data2, b)
  <2>1. c.pc \in ActivePCs /\ pend2 = pend /\ data2 = data
    BY <1>2, Zenon DEF Continues
  <2>2. /\ c.kind \in {"compress", "decompress"}
        /\ c.kind = "compress" => Making(c, pend, data, b)
        /\ c.kind = "decompress" => Decoding(c, pend, data, b)
    BY <2>1, Zenon DEF Result
  <2>3. Making(c, pend, data, b) => Making(c2, pend2, data2, b)
    BY <1>1, <2>1 DEF Making
  <2>4. Decoding(c, pend, data, b) => Decoding(c2, pend2, data2, b)
    BY <1>1, <2>1 DEF Decoding
  <2> QED BY <1>1, <2>2, <2>3, <2>4
<1>3. c2.pc \in {"putback", "release"} => c2.result # "ok"
  BY DEF Continues
<1>4. c2.pc # "putback" => Closed(b)
  BY Zenon DEF Continues, Result
<1>5. ASSUME c2.pc = "idle", c2.result = "ok"
      PROVE  /\ c2.kind = "compress" => Firsts(b) = Starts(c2.segs)
             /\ c2.kind = "decompress" =>
                  /\ Firsts(c2.decoded) = Starts(c2.segs)
                  /\ \E next \in Nat : Decoded(c2.decoded, next)
  <2>1. c.pc = "idle" /\ c.result = "ok"
    BY <1>5 DEF Continues
  <2>2. /\ c.kind = "compress" => Firsts(b) = Starts(c.segs)
        /\ c.kind = "decompress" =>
             /\ Firsts(c.decoded) = Starts(c.segs)
             /\ \E next \in Nat : Decoded(c.decoded, next)
    BY <2>1, Zenon DEF Result
  <2> QED BY <1>1, <2>2
<1>6. Ordered(b)
  BY Zenon DEF Result
<1> QED BY <1>2, <1>3, <1>4, <1>5, <1>6, Zenon DEF Result

\* A step that only takes the call on.
LEMMA ContinueStep ==
  ASSUME RInv, IInv', NEW q \in QueuePairs, NEW c, Continues(call[q], c),
         call' = [call EXCEPT ![q] = c], UNCHANGED <<pending, op, buffers>>
  PROVE  RInv'
<1>1. IInv /\ Result(call[q], pending[q], op[q], buffers[q])
  BY ROne
<1>2. call'[q] = c /\ Others(q)
  BY <1>1 DEF IInv, TypeOK, Others
<1>3. Result(c, pending[q], op[q], buffers[q])
  BY <1>1, Continuing, Zenon
<1>4. ResultAt(q)'
  BY <1>2, <1>3, Zenon DEF ResultAt
<1> QED BY <1>2, <1>4, RFrame, Zenon

\* The lcore is refused or starts to recycle, or the hardware does something.
LEMMA ContinueInvoke ==
  ASSUME RInv, IInv', NEW q \in QueuePairs,
         Cancelled(q) \/ Recycle(q) \/ Complete(q) \/ Stall(q)
  PROVE  RInv'
<1>1. /\ call[q] \in Call /\ call \in [QueuePairs -> Call]
      /\ call[q].pc \in {"putback", "release"} => call[q].result # "ok"
  <2>1. IInv /\ Result(call[q], pending[q], op[q], buffers[q])
    BY ROne
  <2> QED BY <2>1, Zenon DEF IInv, TypeOK, Result
<1>2. UNCHANGED <<pending, op, buffers>>
  BY DEF Cancelled, Recycle, Complete, Stall, poolVars
<1>3. CASE Cancelled(q)
  <2> DEFINE c == [call[q] EXCEPT !.result = "cancelled"]
  <2>1. call' = [call EXCEPT ![q] = c]
    BY <1>3 DEF Cancelled
  <2>2. Continues(call[q], c)
    BY <1>1, <1>3 DEF Cancelled, At, Call, Continues, ActivePCs
  <2> HIDE DEF c
  <2> QED BY <1>2, <2>1, <2>2, ContinueStep
<1>4. CASE Recycle(q)
  <2> DEFINE c == [call[q] EXCEPT !.pc = "putback", !.result = "none"]
  <2>1. call' = [call EXCEPT ![q] = c]
    BY <1>4 DEF Recycle
  <2>2. Continues(call[q], c)
    BY <1>1, <1>4 DEF Recycle, At, Call, Continues, ActivePCs
  <2> HIDE DEF c
  <2> QED BY <1>2, <2>1, <2>2, ContinueStep
<1>5. CASE Complete(q) \/ Stall(q)
  <2>1. call' = [call EXCEPT ![q] = call[q]]
    BY <1>1, <1>5 DEF Complete, Stall
  <2>2. Continues(call[q], call[q])
    BY <1>1 DEF Continues
  <2> QED BY <1>2, <2>1, <2>2, ContinueStep
<1> QED BY <1>3, <1>4, <1>5

\* A call fails, moves operations to or from the hardware, or releases.
LEMMA ContinueWork ==
  ASSUME RInv, IInv', NEW q \in QueuePairs,
         \/ AssembleFails(q) \/ TakeFails(q)
         \/ Enqueue(q) \/ EnqueueFails(q)
         \/ Dequeue(q) \/ DequeueFails(q)
         \/ OpFails(q) \/ ReleaseDst(q) \/ ReleaseEnds(q)
  PROVE  RInv'
<1>1. /\ call[q] \in Call /\ call \in [QueuePairs -> Call]
      /\ call[q].pc \in {"putback", "release"} => call[q].result # "ok"
  <2>1. IInv /\ Result(call[q], pending[q], op[q], buffers[q])
    BY ROne
  <2> QED BY <2>1, Zenon DEF IInv, TypeOK, Result
<1>2. UNCHANGED <<pending, op, buffers>>
  BY DEF AssembleFails, TakeFails, Enqueue, EnqueueFails, Dequeue, DequeueFails,
         OpFails, ReleaseDst, ReleaseEnds, poolVars
<1>3. CASE \/ AssembleFails(q) \/ TakeFails(q) \/ EnqueueFails(q)
           \/ DequeueFails(q) \/ OpFails(q)
  <2> DEFINE c == Failed(q, call[q])
  <2>1. call' = [call EXCEPT ![q] = c] /\ call[q].pc \in ActivePCs
    BY <1>1, <1>3 DEF AssembleFails, TakeFails, EnqueueFails, DequeueFails, OpFails,
                      Enqueuing, Dequeuing, At, ActivePCs
  <2>2. /\ c.result = "error" /\ c.kind = call[q].kind /\ c.segs = call[q].segs
        /\ c.index = call[q].index /\ c.decoded = call[q].decoded
        /\ c.pc \in {"idle", "putback", "release"}
    BY <1>1 DEF Failed, Call
  <2> HIDE DEF c
  <2>3. Continues(call[q], c)
    BY <2>1, <2>2 DEF Continues, ActivePCs
  <2> QED BY <1>2, <2>1, <2>3, ContinueStep
<1>4. CASE Enqueue(q)
  <2> DEFINE c == [call[q] EXCEPT !.pc = "dequeue"]
  <2>1. call' = [call EXCEPT ![q] = c] /\ call[q].pc = "loop"
    BY <1>1, <1>4 DEF Enqueue, Enqueuing, At
  <2>2. Continues(call[q], c)
    BY <1>1, <2>1 DEF Call, Continues, ActivePCs
  <2> HIDE DEF c
  <2> QED BY <1>2, <2>1, <2>2, ContinueStep
<1>5. CASE Dequeue(q)
  <2> DEFINE n == NumDequeued(q)
             c == [call[q] EXCEPT !.pc = IF n > 0 THEN "burst" ELSE "loop",
                                  !.burst = SubSeq(queue[q], 1, n)]
  <2>1. call' = [call EXCEPT ![q] = c] /\ call[q].pc \in {"loop", "dequeue"}
    BY <1>1, <1>5 DEF Dequeue, Dequeuing, At
  <2>2. /\ c.pc \in {"loop", "burst"} /\ c.kind = call[q].kind /\ c.segs = call[q].segs
        /\ c.index = call[q].index /\ c.decoded = call[q].decoded
    BY <1>1 DEF Call
  <2> HIDE DEF c
  <2>3. Continues(call[q], c)
    BY <2>1, <2>2 DEF Continues, ActivePCs
  <2> QED BY <1>2, <2>1, <2>3, ContinueStep
<1>6. CASE ReleaseDst(q)
  <2> DEFINE c == [call[q] EXCEPT !.freed = call[q].freed + 1]
  <2>1. call' = [call EXCEPT ![q] = c] /\ call[q].pc = "release"
    BY <1>1, <1>6 DEF ReleaseDst, At
  <2>2. Continues(call[q], c)
    BY <1>1, <2>1 DEF Call, Continues, ActivePCs
  <2> HIDE DEF c
  <2> QED BY <1>2, <2>1, <2>2, ContinueStep
<1>7. CASE ReleaseEnds(q)
  <2> DEFINE c == [call[q] EXCEPT !.pc = "idle"]
  <2>1. call' = [call EXCEPT ![q] = c] /\ call[q].pc = "release"
    BY <1>1, <1>7 DEF ReleaseEnds, At
  <2>2. Continues(call[q], c)
    BY <1>1, <2>1 DEF Call, Continues, ActivePCs
  <2> HIDE DEF c
  <2> QED BY <1>2, <2>1, <2>2, ContinueStep
<1> QED BY <1>3, <1>4, <1>5, <1>6, <1>7

\* Release frees an operation: the call is over, what was pending is no matter.
LEMMA ReleaseOpResult ==
  ASSUME RInv, IInv', NEW q \in QueuePairs, ReleaseOp(q)
  PROVE  RInv'
<1>1. /\ IInv /\ call[q] \in Call /\ call[q].pc = "release"
      /\ Result(call[q], pending[q], op[q], buffers[q])
      /\ call[q].result # "ok"
  <2>1. Result(call[q], pending[q], op[q], buffers[q]) /\ call[q].pc = "release"
    BY ROne DEF ReleaseOp, At
  <2>2. call[q].result # "ok"
    BY <2>1, Zenon DEF Result
  <2> QED BY <2>1, <2>2, ROne
<1>2. PICK c : /\ call' = [call EXCEPT ![q] = c] /\ c.pc = "release"
               /\ Continues(call[q], c)
  <2> DEFINE c == [call[q] EXCEPT !.freed = 0]
  <2>1. call' = [call EXCEPT ![q] = c]
    BY DEF ReleaseOp
  <2>2. c.pc = "release" /\ Continues(call[q], c)
    BY <1>1 DEF Call, Continues, ActivePCs
  <2> QED BY <2>1, <2>2
<1>3. call'[q] = c /\ buffers'[q] = buffers[q] /\ Others(q)
  BY <1>1, <1>2 DEF ReleaseOp, IInv, TypeOK, Others
<1>4. c.pc \notin ActivePCs
  BY <1>2 DEF ActivePCs
<1>5. Result(c, pending'[q], op'[q], buffers[q])
  BY <1>1, <1>2, <1>4, Continuing, Zenon
<1>6. ResultAt(q)'
  BY <1>3, <1>5, Zenon DEF ResultAt
<1> QED BY <1>3, <1>6, RFrame, Zenon

\* Nothing has been dealt with and nothing is pending when a call starts.
LEMMA Fresh ==
  ASSUME NEW data, NEW segs \in Nat
  PROVE  /\ Chain(1, <<>>, data, 0, segs)
         /\ Covered({}, 1, segs)
<1>1. Aligned(1)
  BY NextAligned, DeviceAssumption
<1>2. 0 = Least(segs, 1 - 1)
  BY DEF Least
<1>3. {} = {x \in Starts(segs) : x < 1}
  BY DEF Starts
<1> QED BY <1>1, <1>2, <1>3 DEF Chain, Covered

\* A call of Compress or Decompress starts.
LEMMA EnterResult ==
  ASSUME RInv, IInv', NEW q \in QueuePairs,
         \/ \E n \in 1..MaxSegs : Compress(q, n)
         \/ Decompress(q)
  PROVE  RInv'
<1>1. PICK b, data : b = buffers[q] /\ data = op[q]
  OBVIOUS
<1>2. /\ IInv /\ call[q] \in Call /\ call[q].pc = "idle" /\ b \in Seq(Buffer)
      /\ pending[q] = <<>> /\ Result(call[q], pending[q], data, b)
  BY <1>1, ROne DEF Compress, Decompress, At, Busy
<1>3. Ordered(b) /\ Closed(b)
  <2>1. Ordered(b) /\ (call[q].pc # "putback" => Closed(b))
    BY <1>2, Zenon DEF Result
  <2> QED BY <1>2, <2>1
<1>4. PICK kind \in {"compress", "decompress"}, n \in Nat :
        /\ Enter(q, kind, n)
        /\ \/ kind = "compress" /\ b = <<>>
           \/ kind = "decompress" /\ b # <<>> /\ n = Len(b)
  <2>1. CASE \E n \in 1..MaxSegs : Compress(q, n)
    <3>1. PICK n \in 1..MaxSegs : Compress(q, n)
      BY <2>1
    <3>2. n \in Nat
      BY DeviceAssumption
    <3>3. Enter(q, "compress", n) /\ b = <<>>
      BY <1>1, <3>1 DEF Compress
    <3> QED BY <3>2, <3>3
  <2>2. CASE Decompress(q)
    <3>1. Len(b) \in Nat
      BY <1>2
    <3>2. Enter(q, "decompress", Len(b)) /\ b # <<>>
      BY <1>1, <2>2 DEF Decompress
    <3> QED BY <3>1, <3>2
  <2> QED BY <2>1, <2>2
<1>5. PICK c : /\ call' = [call EXCEPT ![q] = c]
               /\ \/ c.pc = "undefined"
                  \/ /\ c.pc = "loop" /\ c.kind = kind /\ c.segs = n /\ c.index = 0
                     /\ c.decoded = <<>>
  <2> DEFINE c == IF Leftovers(q) THEN [NoCall EXCEPT !.pc = "undefined"]
                  ELSE [NoCall EXCEPT !.pc = "loop", !.kind = kind, !.segs = n]
  <2>1. call' = [call EXCEPT ![q] = c]
    BY <1>4 DEF Enter
  <2>2. \/ c.pc = "undefined"
        \/ /\ c.pc = "loop" /\ c.kind = kind /\ c.segs = n /\ c.index = 0
           /\ c.decoded = <<>>
    BY DEF NoCall
  <2> QED BY <2>1, <2>2
<1>6. /\ call'[q] = c /\ pending'[q] = <<>> /\ op'[q] = data /\ buffers'[q] = b
      /\ Others(q)
  BY <1>1, <1>2, <1>4, <1>5 DEF Enter, IInv, TypeOK, Others, poolVars
<1>7. Chain(1, <<>>, data, 0, n) /\ Covered({}, 1, n)
  BY Fresh
<1>8. Firsts(<<>>) = {}
  BY DEF Firsts
<1>9. CASE c.pc = "undefined"
  <2>1. Result(c, <<>>, data, b)
    BY <1>3, <1>9 DEF Result, ActivePCs
  <2> QED BY <1>6, <2>1, RFrame, Zenon DEF ResultAt
<1>10. CASE /\ c.pc = "loop" /\ c.kind = "compress" /\ b = <<>>
            /\ c.segs = n /\ c.index = 0
  <2>1. Making(c, <<>>, data, b)
    BY <1>7, <1>8, <1>10 DEF Making, NextMade
  <2>2. Result(c, <<>>, data, b)
    BY <1>3, <1>10, <2>1 DEF Result, ActivePCs
  <2> QED BY <1>6, <2>2, RFrame, Zenon DEF ResultAt
<1>11. CASE /\ c.pc = "loop" /\ c.kind = "decompress" /\ b # <<>> /\ n = Len(b)
            /\ c.segs = n /\ c.index = 0 /\ c.decoded = <<>>
  <2>1. Decoded(<<>>, 1)
    BY DEF Decoded
  <2>2. 1 \in DOMAIN b /\ b[1].first = 1 /\ b[1].part = 1
    <3>1. 1 \in DOMAIN b
      BY <1>2, <1>11
    <3> QED BY <1>3, <3>1 DEF Ordered
  <2>3. NextDecoded(<<>>) = 1
    BY DEF NextDecoded
  <2>4. Decoding(c, <<>>, data, b)
    BY <1>7, <1>8, <1>11, <2>1, <2>2, <2>3 DEF Decoding
  <2>5. Result(c, <<>>, data, b)
    BY <1>3, <1>11, <2>4 DEF Result, ActivePCs
  <2> QED BY <1>6, <2>5, RFrame, Zenon DEF ResultAt
<1> QED BY <1>4, <1>5, <1>9, <1>10, <1>11

\* Everything is dealt with when a call returns.
LEMMA ReturnResult ==
  ASSUME RInv, IInv', NEW q \in QueuePairs, Return(q)
  PROVE  RInv'
<1>1. PICK b, data : b = buffers[q] /\ data = op[q]
  OBVIOUS
<1>2. /\ IInv /\ call[q] \in Call /\ call[q].pc = "loop"
      /\ pending[q] = <<>> /\ Result(call[q], pending[q], data, b)
      /\ ~CanAssemble(q) /\ operations[q] = <<>>
  BY <1>1, ROne DEF Return, At
<1>3. call[q].index \in Nat /\ call[q].segs \in Nat /\ call[q].index >= call[q].segs
  BY <1>2, DeviceAssumption DEF Call, CanAssemble
<1>4. /\ Ordered(b) /\ Closed(b) /\ call[q].kind \in {"compress", "decompress"}
      /\ call[q].kind = "compress" => Making(call[q], <<>>, data, b)
      /\ call[q].kind = "decompress" => Decoding(call[q], <<>>, data, b)
  <2>1. call[q].pc \in ActivePCs /\ call[q].pc # "putback"
    BY <1>2 DEF ActivePCs
  <2> QED BY <1>2, <2>1, Zenon DEF Result
<1>5. ASSUME NEW firsts, NEW next, Chain(next, <<>>, data, call[q].index, call[q].segs),
             Covered(firsts, next, call[q].segs)
      PROVE  next \in Nat /\ firsts = Starts(call[q].segs)
  <2>1. next \in Nat \ {0} /\ call[q].index = Least(call[q].segs, next - 1)
    BY <1>5 DEF Chain
  <2>2. next > call[q].segs
    BY <1>3, <2>1 DEF Least
  <2> QED BY <1>3, <1>5, <2>1, <2>2, CoverAll
<1>6. PICK c : /\ call' = [call EXCEPT ![q] = c]
               /\ c.pc = "idle" /\ c.result = "ok" /\ c.kind = call[q].kind
               /\ c.segs = call[q].segs /\ c.decoded = call[q].decoded
  <2> DEFINE c == [call[q] EXCEPT !.pc = "idle", !.result = "ok"]
  <2>1. call' = [call EXCEPT ![q] = c]
    BY DEF Return
  <2>2. /\ c.pc = "idle" /\ c.result = "ok" /\ c.kind = call[q].kind
        /\ c.segs = call[q].segs /\ c.decoded = call[q].decoded
    BY <1>2 DEF Call
  <2> QED BY <2>1, <2>2
<1>7. /\ call'[q] = c /\ pending'[q] = <<>> /\ op'[q] = data /\ buffers'[q] = b
      /\ Others(q)
  BY <1>1, <1>2, <1>6 DEF Return, IInv, TypeOK, Others, poolVars
<1>8. c.kind = "compress" => Firsts(b) = Starts(c.segs)
  BY <1>4, <1>5, <1>6, Zenon DEF Making
<1>9. ASSUME c.kind = "decompress"
      PROVE  /\ Firsts(c.decoded) = Starts(c.segs)
             /\ \E next \in Nat : Decoded(c.decoded, next)
  <2>1. Decoding(call[q], <<>>, data, b)
    BY <1>4, <1>6, <1>9
  <2>2. PICK next : /\ Chain(next, <<>>, data, call[q].index, call[q].segs)
                    /\ Covered(Firsts(call[q].decoded), next, call[q].segs)
                    /\ Decoded(call[q].decoded, next)
    BY <2>1 DEF Decoding
  <2> QED BY <1>5, <1>6, <2>2
<1>10. Result(c, <<>>, data, b)
  BY <1>4, <1>6, <1>8, <1>9 DEF Result, ActivePCs
<1>11. ResultAt(q)'
  BY <1>7, <1>10, Zenon DEF ResultAt
<1> QED BY <1>7, <1>11, RFrame, Zenon

\* A buffer is recycled: the call is over.
LEMMA PutBackResult ==
  ASSUME RInv, IInv', NEW q \in QueuePairs, PutBack(q)
  PROVE  RInv'
<1>1. PICK b, data, pend : b = buffers[q] /\ data = op[q] /\ pend = pending[q]
  OBVIOUS
<1>2. /\ IInv /\ call[q] \in Call /\ call[q].pc = "putback" /\ b \in Seq(Buffer)
      /\ Result(call[q], pend, data, b)
  BY <1>1, ROne DEF PutBack, At
<1>3. Ordered(b) /\ call[q].result # "ok"
  BY <1>2 DEF Result
<1> DEFINE n == Len(b)
           less == SubSeq(b, 1, n - 1)
<1>4. Ordered(less) /\ (n <= 1 => less = <<>>)
  <2>1. CASE b = <<>>
    <3>1. n = 0 /\ less = <<>>
      BY <2>1
    <3>2. Ordered(<<>>)
      BY DEF Ordered
    <3> QED BY <3>1, <3>2
  <2>2. CASE b # <<>>
    <3>1. Ordered(less)
      BY <1>2, <1>3, <2>2, OrderedLess
    <3>2. n \in Nat \ {0}
      BY <1>2, <2>2
    <3>3. ASSUME n <= 1 PROVE less = <<>>
      <4>1. n = 1
        BY <3>2, <3>3
      <4> QED BY <4>1
    <3> QED BY <3>1, <3>3
  <2> QED BY <2>1, <2>2
<1>5. PICK c : /\ call' = [call EXCEPT ![q] = c] /\ c.result = call[q].result
               /\ \/ c.pc = "putback"
                  \/ c.pc \in {"release", "idle"} /\ n <= 1
  <2>1. CASE n > 1
    <3>1. call' = [call EXCEPT ![q] = call[q]]
      BY <1>1, <1>2, <2>1 DEF PutBack, IInv, TypeOK
    <3> QED BY <1>2, <3>1
  <2>2. CASE ~(n > 1)
    <3> DEFINE c == [call[q] EXCEPT !.pc = IF call[q].result = "error"
                                             THEN "release" ELSE "idle"]
    <3>1. call' = [call EXCEPT ![q] = c]
      BY <1>1, <2>2 DEF PutBack
    <3>2. c.result = call[q].result /\ c.pc \in {"release", "idle"}
      BY <1>2 DEF Call
    <3>3. n <= 1
      BY <1>2, <2>2
    <3> HIDE DEF c
    <3> QED BY <3>1, <3>2, <3>3
  <2> QED BY <2>1, <2>2
<1>6. /\ call'[q] = c /\ pending'[q] = pend /\ op'[q] = data /\ buffers'[q] = less
      /\ Others(q)
  BY <1>1, <1>2, <1>5 DEF PutBack, IInv, TypeOK, Others, poolVars
<1>7. c.pc # "putback" => Closed(less)
  BY <1>4, <1>5 DEF Closed
<1> HIDE DEF less
<1>8. Result(c, pend, data, less)
  BY <1>3, <1>4, <1>5, <1>7 DEF Result, ActivePCs
<1>9. ResultAt(q)'
  BY <1>6, <1>8, Zenon DEF ResultAt
<1> QED BY <1>6, <1>9, RFrame, Zenon

\* A destination mbuf gets a memzone: where the operations start and how long they
\* are stays.
LEMMA TakeDstResult ==
  ASSUME RInv, IInv', NEW q \in QueuePairs, TakeDst(q)
  PROVE  RInv'
<1>1. PICK pend, data, bufs : pend = pending[q] /\ data = op[q] /\ bufs = buffers[q]
  OBVIOUS
<1>2. /\ IInv /\ call[q] \in Call /\ call[q].pc = "take" /\ call[q].kind = "compress"
      /\ pend \in Seq(Operations) /\ data \in [Operations -> Operation]
      /\ Result(call[q], pend, data, bufs)
  <2>1. IInv /\ call[q].pc = "take"
    BY ROne DEF TakeDst, At
  <2>2. call[q].kind = "compress"
    BY <2>1, Localize DEF QInv, QLocals
  <2> QED BY <1>1, <2>1, <2>2, ROne
<1>3. Ordered(bufs) /\ Closed(bufs) /\ Making(call[q], pend, data, bufs)
  <2>1. call[q].pc \in ActivePCs /\ call[q].pc # "putback"
    BY <1>2 DEF ActivePCs
  <2> QED BY <1>2, <2>1, Zenon DEF Result
<1>4. PICK i \in DOMAIN call[q].batch, z \in Memzones :
        /\ op' = [op EXCEPT ![q][call[q].batch[i]].dst = Append(@, z)]
        /\ \/ call' = [call EXCEPT ![q].pc = "loop", ![q].batch = <<>>]
           \/ UNCHANGED call
  BY DEF TakeDst
<1>5. PICK o \in Operations : o = call[q].batch[i]
  <2>1. call[q].batch \in Seq(Operations)
    BY <1>2 DEF Call
  <2> QED BY <2>1
<1>6. PICK c : /\ call' = [call EXCEPT ![q] = c]
               /\ c.pc \in {"loop", "take"} /\ c.kind = "compress"
               /\ c.index = call[q].index /\ c.segs = call[q].segs
  <2>1. CASE UNCHANGED call
    <3>1. call' = [call EXCEPT ![q] = call[q]]
      BY <1>2, <2>1 DEF IInv, TypeOK
    <3> QED BY <1>2, <3>1
  <2>2. CASE call' = [call EXCEPT ![q].pc = "loop", ![q].batch = <<>>]
    <3> DEFINE c == [call[q] EXCEPT !.pc = "loop", !.batch = <<>>]
    <3>1. call' = [call EXCEPT ![q] = c]
      BY <1>2, <2>2 DEF IInv, TypeOK
    <3>2. /\ c.pc = "loop" /\ c.kind = "compress"
          /\ c.index = call[q].index /\ c.segs = call[q].segs
      BY <1>2 DEF Call
    <3> HIDE DEF c
    <3> QED BY <3>1, <3>2
  <2> QED BY <1>4, <2>1, <2>2
<1>7. PICK data2 : data2 = op'[q]
  OBVIOUS
<1>8. /\ call'[q] = c /\ pending'[q] = pend /\ buffers'[q] = bufs
      /\ Others(q)
  <2>1. UNCHANGED <<pending, buffers>>
    BY DEF TakeDst
  <2> QED BY <1>1, <1>2, <1>4, <1>6, <2>1 DEF IInv, TypeOK, Others
<1>9. ASSUME NEW x \in Operations
      PROVE  data2[x].first = data[x].first /\ data2[x].len = data[x].len
  <2>1. data2 = [data EXCEPT ![o].dst = Append(@, z)]
    BY <1>1, <1>2, <1>4, <1>5, <1>7 DEF IInv, TypeOK
  <2>2. data[o] \in Operation
    BY <1>2
  <2> QED BY <1>2, <2>1, <2>2 DEF Operation
<1>10. Making(c, pend, data2, bufs)
  <2>1. /\ Chain(NextMade(bufs), pend, data, c.index, c.segs)
        /\ Covered(Firsts(bufs), NextMade(bufs), c.segs)
    BY <1>3, <1>6 DEF Making
  <2>2. Chain(NextMade(bufs), pend, data2, c.index, c.segs)
    BY <1>2, <1>9, <2>1, ChainSame
  <2> QED BY <2>1, <2>2 DEF Making
<1>11. Result(c, pend, data2, bufs)
  BY <1>3, <1>6, <1>10 DEF Result, ActivePCs
<1>12. ResultAt(q)'
  BY <1>7, <1>8, <1>11, Zenon DEF ResultAt
<1> QED BY <1>8, <1>12, RFrame, Zenon

\* The operations of the next burst join those that pend.
LEMMA AssembleJoins ==
  ASSUME NEW q \in QueuePairs, CanAssemble(q), call[q] \in Call,
         operations[q] \in Seq(Operations), freeOps[q] \in SUBSET Operations,
         NEW b \in Allocations(q, NextOps(q)),
         NEW data2, \A i \in DOMAIN b : data2[b[i]] = Assembled(q, i)
  PROVE  /\ b \in Seq(Operations) /\ b # <<>>
         /\ Joins(b, data2, call[q].index, call[q].index + NextUnits(q), call[q].segs)
<1> DEFINE k == NextOps(q)
<1>1. /\ k \in Nat \ {0}
      /\ call[q].index + NextUnits(q)
           = Least(call[q].segs, (Assembled(q, k).first + MaxSglSegs) - 1)
      /\ Assembled(q, 1).first = call[q].index + 1
      /\ \A i \in 1..k :
           /\ Assembled(q, i).first <= call[q].segs
           /\ Assembled(q, i).len
                = Least(MaxSglSegs, (call[q].segs - Assembled(q, i).first) + 1)
           /\ i # 1 => Assembled(q, i).first = Assembled(q, i - 1).first + MaxSglSegs
  BY NextChain
<1>2. b \in Seq(Operations) /\ DOMAIN b = 1..k
  BY <1>1, AllocationFacts
<1> HIDE DEF k
<1>3. Len(b) = k /\ b # <<>> /\ 1 \in 1..k /\ k \in 1..k
  BY <1>1, <1>2
<1>4. \A i \in 1..k : data2[b[i]] = Assembled(q, i)
  BY <1>2
<1>5. \A i \in 1..k : i # 1 => i - 1 \in 1..k
  BY <1>1
<1> QED BY <1>1, <1>2, <1>3, <1>4, <1>5 DEF Joins

\* A burst is assembled where the last one ended.
LEMMA AssembleResult ==
  ASSUME RInv, IInv', NEW q \in QueuePairs, Assemble(q)
  PROVE  RInv'
<1>1. PICK pend, data, bufs : pend = pending[q] /\ data = op[q] /\ bufs = buffers[q]
  OBVIOUS
<1>2. /\ IInv /\ call[q] \in Call /\ call[q].pc = "loop" /\ CanAssemble(q)
      /\ pend \in Seq(Operations) /\ data \in [Operations -> Operation]
      /\ freeOps[q] \in SUBSET Operations /\ operations[q] \in Seq(Operations)
      /\ Elements(pend) \cap freeOps[q] = {}
      /\ Result(call[q], pend, data, bufs)
  <2>1. IInv /\ call[q].pc = "loop" /\ CanAssemble(q)
    BY ROne DEF Assemble, At
  <2>2. operations[q] \in Seq(Operations)
    BY <2>1, Localize DEF QType
  <2> QED BY <1>1, <2>1, <2>2, ROne
<1>3. /\ Ordered(bufs) /\ Closed(bufs) /\ call[q].kind \in {"compress", "decompress"}
      /\ call[q].kind = "compress" => Making(call[q], pend, data, bufs)
      /\ call[q].kind = "decompress" => Decoding(call[q], pend, data, bufs)
  <2>1. call[q].pc \in ActivePCs /\ call[q].pc # "putback"
    BY <1>2 DEF ActivePCs
  <2> QED BY <1>2, <2>1, Zenon DEF Result
<1>4. PICK b \in Allocations(q, NextOps(q)) :
        /\ op' = [op EXCEPT ![q] =
             [o \in Operations |-> IF \E i \in DOMAIN b : b[i] = o
                                     THEN Assembled(q, CHOOSE i \in DOMAIN b : b[i] = o)
                                     ELSE @[o]]]
        /\ pending' = [pending EXCEPT ![q] = pend \o b]
        /\ \/ call' = [call EXCEPT ![q].pc = "take", ![q].index = @ + NextUnits(q),
                                   ![q].batch = b]
           \/ call' = [call EXCEPT ![q].index = @ + NextUnits(q)]
  BY <1>1 DEF Assemble
<1>5. /\ b \in Seq(Operations) /\ DOMAIN b = 1..NextOps(q) /\ Distinct(b)
      /\ Elements(b) \subseteq freeOps[q]
  <2>1. NextOps(q) \in Nat
    BY <1>2, NextFacts
  <2> QED BY <1>2, <2>1, AllocationFacts
<1>6. PICK index2 : index2 = call[q].index + NextUnits(q)
  OBVIOUS
<1>7. PICK c : /\ call' = [call EXCEPT ![q] = c]
               /\ c.pc \in {"loop", "take"} /\ c.kind = call[q].kind
               /\ c.index = index2 /\ c.segs = call[q].segs
               /\ c.decoded = call[q].decoded
  <2> DEFINE c1 == [call[q] EXCEPT !.pc = "take", !.index = index2, !.batch = b]
             c2 == [call[q] EXCEPT !.index = index2]
  <2>1. call' = [call EXCEPT ![q] = c1] \/ call' = [call EXCEPT ![q] = c2]
    BY <1>2, <1>4, <1>6 DEF IInv, TypeOK
  <2>2. /\ c1.pc = "take" /\ c1.kind = call[q].kind /\ c1.index = index2
        /\ c1.segs = call[q].segs /\ c1.decoded = call[q].decoded
        /\ c2.pc = "loop" /\ c2.kind = call[q].kind /\ c2.index = index2
        /\ c2.segs = call[q].segs /\ c2.decoded = call[q].decoded
    BY <1>2 DEF Call
  <2> HIDE DEF c1, c2
  <2> QED BY <2>1, <2>2
<1>8. PICK data2 : data2 = op'[q]
  OBVIOUS
<1>9. /\ call'[q] = c /\ pending'[q] = pend \o b /\ buffers'[q] = bufs
      /\ Others(q)
  <2>1. buffers' = buffers
    BY DEF Assemble
  <2> QED BY <1>1, <1>2, <1>4, <1>7, <2>1 DEF IInv, TypeOK, Others
<1>10. data2 = [o \in Operations |->
                  IF \E i \in DOMAIN b : b[i] = o
                    THEN Assembled(q, CHOOSE i \in DOMAIN b : b[i] = o) ELSE data[o]]
  BY <1>1, <1>2, <1>4, <1>8 DEF IInv, TypeOK
<1>11. ASSUME NEW i \in DOMAIN b
       PROVE  data2[b[i]] = Assembled(q, i)
  <2>1. (CHOOSE j \in DOMAIN b : b[j] = b[i]) = i
    BY <1>5 DEF Distinct
  <2>2. b[i] \in Operations
    <3>1. b \in Seq(Operations)
      BY <1>5
    <3> QED BY <3>1
  <2> HIDE DEF Assembled
  <2> QED BY <1>10, <2>1, <2>2
<1>12. \A o \in Elements(pend) : data2[o] = data[o]
  <2> SUFFICES ASSUME NEW o \in Elements(pend) PROVE data2[o] = data[o]
    OBVIOUS
  <2>1. o \in Operations /\ o \notin Elements(b)
    BY <1>2, <1>5, ElementsType
  <2>2. ~\E i \in DOMAIN b : b[i] = o
    BY <2>1 DEF Elements
  <2> HIDE DEF Assembled
  <2> QED BY <1>10, <2>1, <2>2
<1>13. data2 \in [Operations -> Operation]
  BY <1>8 DEF IInv, TypeOK
<1>14. b # <<>> /\ Joins(b, data2, call[q].index, index2, call[q].segs)
  BY <1>2, <1>6, <1>11, AssembleJoins, Zenon
<1>15. /\ call[q].index \in Nat /\ call[q].segs \in Nat /\ call[q].index < call[q].segs
  BY <1>2 DEF Call, CanAssemble
<1>16. ASSUME NEW next, Chain(next, pend, data, call[q].index, call[q].segs)
       PROVE  Chain(next, pend \o b, data2, c.index, c.segs)
  <2>1. Chain(next, pend \o b, data2, index2, call[q].segs)
    BY <1>2, <1>5, <1>12, <1>13, <1>14, <1>15, <1>16, ChainAppend
  <2> QED BY <1>7, <2>1
<1>17. Making(call[q], pend, data, bufs) => Making(c, pend \o b, data2, bufs)
  BY <1>7, <1>16 DEF Making
<1>18. Decoding(call[q], pend, data, bufs) => Decoding(c, pend \o b, data2, bufs)
  BY <1>7, <1>16 DEF Decoding
<1>19. Result(c, pend \o b, data2, bufs)
  BY <1>3, <1>7, <1>17, <1>18 DEF Result, ActivePCs
<1>20. ResultAt(q)'
  BY <1>8, <1>9, <1>19, Zenon DEF ResultAt
<1> QED BY <1>9, <1>20, RFrame, Zenon

-----------------------------------------------------------------------------
(* One dequeued operation *)

\* The buffers of src are all the parts of one stream.
WholeStream(src) ==
  /\ \A i \in DOMAIN src : src[i].first = src[1].first /\ src[i].part = i
  /\ Len(src) = src[1].parts

\* A part of a sequence starts with the element it is taken from.
LEMMA FirstOfPart ==
  ASSUME NEW S, NEW s \in Seq(S), NEW i \in 1..Len(s), NEW len \in Nat \ {0}
  PROVE  SubSeq(s, i, (i + len) - 1)[1] = s[i]
<1>1. i \in Nat /\ 1 \in 1..(((i + len) - 1) - i) + 1 /\ (i + 1) - 1 = i
  OBVIOUS
<1> QED BY <1>1

\* The parts of one whole stream end where the next stream starts.
LEMMA NextStream ==
  ASSUME NEW b \in Seq(Buffer), Ordered(b), NEW next \in Nat \ {0}, next <= Len(b),
         b[next].first = next,
         NEW len \in Nat \ {0}, (next + len) - 1 <= Len(b),
         WholeStream(SubSeq(b, next, (next + len) - 1)),
         len = MaxSglSegs, next + len <= Len(b)
  PROVE  b[next + len].first = next + len /\ b[next + len].part = 1
<1> DEFINE n == Len(b)
           i == next + len
           last == i - 1
<1>0. PICK src : src = SubSeq(b, next, (next + len) - 1) /\ WholeStream(src)
  OBVIOUS
<1>1. /\ n \in Nat /\ DOMAIN b = 1..n /\ i \in Nat
      /\ i \in 1..n /\ last \in 1..n /\ next \in 1..n /\ i # 1 /\ i # last
  <2>1. n \in Nat /\ DOMAIN b = 1..n
    OBVIOUS
  <2>2. next \in Nat \ {0} /\ len \in Nat \ {0} /\ i <= n
    OBVIOUS
  <2> HIDE DEF n
  <2> QED BY <2>1, <2>2
<1>2. /\ DOMAIN src = 1..len /\ Len(src) = len
      /\ \A j \in 1..len : src[j] = b[(next + j) - 1]
  <2>1. next \in 1..(n + 1) /\ last \in (next - 1)..n /\ last = (next + len) - 1
    BY <1>1
  <2>2. Len(src) = len /\ DOMAIN src = 1..len
    BY <1>0
  <2>3. \A j \in 1..len : src[j] = b[(next + j) - 1]
    BY <1>0, <1>1
  <2> QED BY <2>2, <2>3
<1>3. /\ 1 \in 1..len /\ len \in 1..len
      /\ (next + 1) - 1 = next /\ (next + len) - 1 = last
  BY <1>1
<1>4. src[1] = b[next] /\ src[len] = b[last]
  BY <1>2, <1>3
<1>5. b[last].first = next /\ b[last].part = len /\ b[next].parts = len
  <2>1. src[len].first = src[1].first /\ src[len].part = len
    BY <1>0, <1>2, <1>3 DEF WholeStream
  <2>2. src[1].parts = len /\ src[1].first = next
    BY <1>0, <1>2, <1>4 DEF WholeStream
  <2> HIDE DEF last
  <2> QED BY <1>4, <2>1, <2>2
<1>6. /\ \/ b[i].first = b[last].first /\ b[i].part = b[last].part + 1
         \/ b[i].first = b[last].first + MaxSglSegs /\ b[i].part = 1
      /\ b[i].part <= b[i].parts
      /\ b[i].first = b[next].first => b[i].parts = b[next].parts
  <2>1. i \in DOMAIN b /\ next \in DOMAIN b
    BY <1>1
  <2> HIDE DEF i
  <2> QED BY <1>1, <2>1, Zenon DEF Ordered, last
<1> HIDE DEF n, i, last
<1>7. ~(b[i].first = b[last].first /\ b[i].part = b[last].part + 1)
  <2> SUFFICES ASSUME b[i].first = b[last].first, b[i].part = b[last].part + 1
               PROVE  FALSE
    OBVIOUS
  <2>1. b[i].part = len + 1 /\ b[i].parts = len
    BY <1>5, <1>6
  <2> QED BY <1>6, <2>1
<1> QED BY <1>5, <1>6, <1>7 DEF i

\* One more stream is decoded.
LEMMA DecodedAppend ==
  ASSUME NEW d \in Seq(DecodedStream),
         NEW next \in Nat \ {0}, next = NextDecoded(d), Decoded(d, next),
         NEW x, x = [slot |-> next, first |-> next]
  PROVE  /\ Decoded(Append(d, x), next + MaxSglSegs)
         /\ NextDecoded(Append(d, x)) = next + MaxSglSegs
         /\ Firsts(Append(d, x)) = Firsts(d) \cup {next}
<1> DEFINE all == Append(d, x)
           n == Len(d)
           S == MaxSglSegs
<1>1. /\ n \in Nat /\ DOMAIN d = 1..n /\ DOMAIN all = 1..(n + 1) /\ Len(all) = n + 1
      /\ \A i \in 1..n : all[i] = d[i]
      /\ all[n + 1] = x /\ all # <<>> /\ S \in Nat /\ S > 0
  <2>1. S \in Nat /\ S > 0
    BY DeviceAssumption
  <2>2. x \in DecodedStream
    BY DEF DecodedStream
  <2>3. /\ n \in Nat /\ DOMAIN d = 1..n /\ Len(all) = n + 1
        /\ \A i \in 1..n : all[i] = d[i]
        /\ all[n + 1] = x
    BY <2>2, AppendProperties
  <2>4. all \in Seq(DecodedStream)
    BY <2>2
  <2>5. DOMAIN all = 1..(n + 1) /\ all # <<>>
    <3> HIDE DEF all, n
    <3> QED BY <2>3, <2>4
  <2> QED BY <2>1, <2>3, <2>5
<1>2. x.slot = next /\ x.first = next
  OBVIOUS
<1>3. \A i \in 1..n : /\ d[i].slot = d[i].first /\ d[i].slot < next /\ d[i].slot \in Nat
                      /\ \A k \in 1..n : d[i] = d[k] => i = k
  <2>1. \A i \in 1..n : d[i] \in DecodedStream
    <3>1. \A i \in DOMAIN d : d[i] \in DecodedStream
      OBVIOUS
    <3> QED BY <1>1, <3>1
  <2>2. \A i \in 1..n : d[i].slot \in Nat
    BY <2>1 DEF DecodedStream
  <2> QED BY <1>1, <2>2 DEF Decoded
<1> HIDE DEF all, n, S
<1>4. \A i \in 1..(n + 1) : i \in 1..n \/ i = n + 1
  BY <1>1
<1>5. \A i \in 1..n : d[i] # x
  BY <1>2, <1>3
<1>6. \A i \in 1..(n + 1) : all[i].slot = all[i].first /\ all[i].slot < next + S
  <2> SUFFICES ASSUME NEW i \in 1..(n + 1)
               PROVE  all[i].slot = all[i].first /\ all[i].slot < next + S
    OBVIOUS
  <2>1. CASE i \in 1..n
    <3>1. all[i] = d[i] /\ d[i].slot = d[i].first /\ d[i].slot < next /\ d[i].slot \in Nat
      BY <1>1, <1>3, <2>1
    <3> QED BY <1>1, <3>1
  <2>2. CASE i = n + 1
    BY <1>1, <1>2, <2>2
  <2> QED BY <1>4, <2>1, <2>2
<1>7. \A i, k \in 1..(n + 1) : all[i] = all[k] => i = k
  BY <1>1, <1>3, <1>4, <1>5
<1>8. Decoded(all, next + S)
  BY <1>1, <1>6, <1>7 DEF Decoded
<1>9. NextDecoded(all) = next + S
  BY <1>1, <1>2 DEF NextDecoded, S
<1>10. Firsts(all) = Firsts(d) \cup {next}
  <2>1. \A i \in 1..n : all[i].first = d[i].first /\ i \in 1..(n + 1)
    BY <1>1
  <2>2. all[n + 1].first = next /\ n + 1 \in 1..(n + 1)
    BY <1>1, <1>2
  <2> QED BY <1>1, <1>4, <2>1, <2>2 DEF Firsts
<1> QED BY <1>8, <1>9, <1>10 DEF all, S

\* A stream has been compressed: its buffers join the result in its place.
LEMMA MakeNext ==
  ASSUME NEW c \in Call, NEW pend \in Seq(Operations), pend # <<>>, Distinct(pend),
         NEW data \in [Operations -> Operation], NEW data2,
         SameBut(data, data2, Head(pend)),
         NEW b \in Seq(Buffer), Ordered(b), Closed(b), Making(c, pend, data, b),
         NEW made \in Seq(Buffer), NewStream(made, data[Head(pend)].first),
         NEW c2, c2.index = c.index, c2.segs = c.segs
  PROVE  /\ Ordered(b \o made) /\ Closed(b \o made)
         /\ Making(c2, Tail(pend), data2, b \o made)
<1> DEFINE next == NextMade(b)
<1>1. c.segs \in Nat /\ c.index \in Nat
  BY DEF Call
<1>2. Chain(next, pend, data, c.index, c.segs) /\ Covered(Firsts(b), next, c.segs)
  BY DEF Making
<1> HIDE DEF next
<1>3. 1 \in DOMAIN pend /\ Head(pend) = pend[1]
  OBVIOUS
<1>4. /\ next \in Nat \ {0} /\ Aligned(next) /\ data[Head(pend)].first = next
      /\ next <= c.segs
  BY <1>2, <1>3 DEF Chain
<1>5. \A i \in DOMAIN b : b[i].first < next
  BY <1>2 DEF Covered, Firsts
<1>6. /\ Ordered(b \o made) /\ Closed(b \o made)
      /\ NextMade(b \o made) = next + MaxSglSegs
      /\ Firsts(b \o made) = Firsts(b) \cup {next}
  <2>1. NewStream(made, next)
    BY <1>4
  <2> QED BY <1>4, <1>5, <2>1, OrderedAppend DEF next
<1>7. Covered(Firsts(b) \cup {next}, next + MaxSglSegs, c.segs)
  BY <1>1, <1>2, <1>4, CoverNext
<1>8. Chain(next + MaxSglSegs, Tail(pend), data2, c.index, c.segs)
  BY <1>1, <1>2, ChainTail DEF SameBut
<1> QED BY <1>6, <1>7, <1>8 DEF Making

\* A stream has been decompressed, to the place it was compressed from; the next
\* operation starts where the next stream does.
LEMMA DecodeNext ==
  ASSUME NEW q, NEW c \in Call, NEW pend \in Seq(Operations), pend # <<>>,
         Distinct(pend),
         NEW data \in [Operations -> Operation], NEW data2, data = op[q],
         SameBut(data, data2, Head(pend)),
         NEW b \in Seq(Buffer), b = buffers[q], Ordered(b), Decoding(c, pend, data, b),
         Decompressible(q, Head(pend)),
         NEW c2, c2.index = c.index, c2.segs = c.segs,
         c2.decoded = Append(c.decoded, [slot  |-> data[Head(pend)].first,
                                         first |-> Source(q, Head(pend))[1].first])
  PROVE  Decoding(c2, Tail(pend), data2, b)
<1> DEFINE d == c.decoded
           next == NextDecoded(d)
           S == MaxSglSegs
           n == Len(b)
<1> PICK o, len, src : o = Head(pend) /\ len = data[o].len /\ src = Source(q, o)
  OBVIOUS
<1>1. /\ c.segs \in Nat /\ c.index \in Nat /\ S \in Nat /\ S > 0 /\ n \in Nat
      /\ d \in Seq(DecodedStream)
  <2>1. /\ c.segs \in Nat /\ c.index \in Nat
        /\ c.decoded \in Seq([slot : Nat, first : Nat])
    BY DEF Call
  <2>2. S \in Nat /\ S > 0 /\ n \in Nat
    BY DeviceAssumption
  <2> QED BY <2>1, <2>2 DEF DecodedStream
<1>2. /\ c.segs = n
      /\ Chain(next, pend, data, c.index, c.segs)
      /\ Covered(Firsts(d), next, c.segs)
      /\ Decoded(d, next)
      /\ next <= n => b[next].first = next /\ b[next].part = 1
  BY DEF Decoding
<1>3. 1 \in DOMAIN pend /\ o = pend[1] /\ o \in Operations
  OBVIOUS
<1> HIDE DEF d, next, n
<1>4. /\ next \in Nat \ {0} /\ Aligned(next) /\ data[o].first = next /\ next <= n
      /\ len = Least(S, (n - next) + 1)
  BY <1>2, <1>3 DEF Chain
<1> HIDE DEF S
<1>5. /\ len \in Nat \ {0} /\ (next + len) - 1 <= n
      /\ next + S <= n => len = S
  <2>1. next \in Nat \ {0} /\ next <= n /\ len = Least(S, (n - next) + 1)
    BY <1>4
  <2> QED BY <1>1, <2>1 DEF Least
<1>6. src = SubSeq(b, next, (next + len) - 1)
  <2>1. Source(q, o) = SubSeq(buffers[q], op[q][o].first,
                              op[q][o].first + (op[q][o].len - 1))
    BY DEF Source
  <2>2. op[q][o].first = next /\ op[q][o].len = len
    BY <1>4
  <2>3. next + (len - 1) = (next + len) - 1
    BY <1>4, <1>5
  <2> QED BY <2>1, <2>2, <2>3
<1>7. WholeStream(src)
  BY DEF Decompressible, WholeStream
<1>8. b[next].first = next
  BY <1>2, <1>4
<1>9. src[1].first = next
  <2>1. next \in 1..Len(b) /\ len \in Nat \ {0}
    BY <1>1, <1>4, <1>5 DEF n
  <2>2. SubSeq(b, next, (next + len) - 1)[1] = b[next]
    BY <2>1, FirstOfPart
  <2> QED BY <1>6, <1>8, <2>2
<1>10. c2.decoded = Append(d, [slot |-> next, first |-> next])
  BY <1>4, <1>9 DEF d
<1>11. /\ Decoded(c2.decoded, next + S)
       /\ NextDecoded(c2.decoded) = next + S
       /\ Firsts(c2.decoded) = Firsts(d) \cup {next}
  <2>1. PICK x : x = [slot |-> next, first |-> next]
    OBVIOUS
  <2>2. next = NextDecoded(d) /\ Decoded(d, next) /\ next \in Nat \ {0}
        /\ d \in Seq(DecodedStream)
    BY <1>1, <1>2, <1>4 DEF next
  <2>3. /\ Decoded(Append(d, x), next + S)
        /\ NextDecoded(Append(d, x)) = next + S
        /\ Firsts(Append(d, x)) = Firsts(d) \cup {next}
    BY <2>1, <2>2, DecodedAppend, Zenon DEF S
  <2> QED BY <1>10, <2>1, <2>3
<1>12. Covered(Firsts(d) \cup {next}, next + S, c.segs)
  BY <1>1, <1>2, <1>4, CoverNext DEF S
<1>13. Chain(next + S, Tail(pend), data2, c.index, c.segs)
  BY <1>1, <1>2, ChainTail DEF SameBut, S
<1>14. ASSUME next + S <= n
       PROVE  b[next + S].first = next + S /\ b[next + S].part = 1
  <2>1. len = S
    BY <1>5, <1>14
  <2>2. /\ next \in Nat \ {0} /\ next <= Len(b) /\ len \in Nat \ {0}
        /\ (next + len) - 1 <= Len(b) /\ len = MaxSglSegs /\ next + len <= Len(b)
    BY <1>4, <1>5, <1>14, <2>1 DEF n, S
  <2>3. b[next + len].first = next + len /\ b[next + len].part = 1
    <3>1. WholeStream(SubSeq(b, next, (next + len) - 1))
      BY <1>6, <1>7
    <3> QED BY <1>8, <2>2, <3>1, NextStream
  <2> QED BY <2>1, <2>3
<1> QED BY <1>2, <1>11, <1>12, <1>13, <1>14 DEF Decoding, n

\* The operation at the front has been dealt with.
LEMMA RecycleOpResult ==
  ASSUME RInv, IInv', NEW q \in QueuePairs, RecycleOp(q)
  PROVE  RInv'
<1>1. PICK pend, data, b : pend = pending[q] /\ data = op[q] /\ b = buffers[q]
  OBVIOUS
<1>2. /\ IInv /\ call[q] \in Call /\ call[q].pc = "burst" /\ b \in Seq(Buffer)
      /\ pend \in Seq(Operations) /\ data \in [Operations -> Operation] /\ Distinct(pend)
      /\ Result(call[q], pend, data, b)
  BY <1>1, ROne DEF RecycleOp, At
<1>3. /\ Ordered(b) /\ Closed(b) /\ call[q].kind \in {"compress", "decompress"}
      /\ call[q].kind = "compress" => Making(call[q], pend, data, b)
      /\ call[q].kind = "decompress" => Decoding(call[q], pend, data, b)
  <2>1. call[q].pc \in ActivePCs /\ call[q].pc # "putback"
    BY <1>2 DEF ActivePCs
  <2> QED BY <1>2, <2>1, Zenon DEF Result
<1>4. pend # <<>> /\ Head(pend) = Head(call[q].burst)
  BY <1>1, <1>2, FrontOfBurst
<1>5. PICK o \in Operations : o = Head(pend) /\ o = Head(call[q].burst)
  BY <1>2, <1>4
<1>6. data[o] \in Operation /\ Len(data[o].dst) \in Nat
  <2>1. data[o] \in Operation
    BY <1>2
  <2>2. data[o].dst \in Seq(Memzones)
    BY <2>1 DEF Operation
  <2> QED BY <2>1, <2>2
<1>7. PICK c : /\ call' = [call EXCEPT ![q] = c]
               /\ c.pc \in {"loop", "burst"} /\ c.kind = call[q].kind
               /\ c.segs = call[q].segs /\ c.index = call[q].index
               /\ call[q].kind = "decompress" =>
                    c.decoded = Append(call[q].decoded,
                                       [slot  |-> data[o].first,
                                        first |-> Source(q, o)[1].first])
  <2> DEFINE rest == Tail(call[q].burst)
             decoded == IF call[q].kind # "decompress" THEN call[q].decoded ELSE
                Append(call[q].decoded, [slot |-> op[q][Head(call[q].burst)].first,
                                         first |-> Source(q, Head(call[q].burst))[1].first])
             c == [call[q] EXCEPT !.pc = IF rest = <<>> THEN "loop" ELSE "burst",
                                  !.burst = rest, !.decoded = decoded]
  <2>1. call' = [call EXCEPT ![q] = c]
    BY <1>2 DEF RecycleOp
  <2>2. call[q].kind = "decompress" =>
          decoded = Append(call[q].decoded, [slot  |-> data[o].first,
                                             first |-> Source(q, o)[1].first])
    BY <1>1, <1>5
  <2> HIDE DEF rest, decoded
  <2>3. /\ c.pc \in {"loop", "burst"} /\ c.kind = call[q].kind
        /\ c.segs = call[q].segs /\ c.index = call[q].index /\ c.decoded = decoded
    BY <1>2 DEF Call
  <2> HIDE DEF c
  <2> QED BY <2>1, <2>2, <2>3
<1>8. /\ pending' = [pending EXCEPT ![q] = Tail(pend)]
      /\ op' = [op EXCEPT ![q][o] = UnusedOp]
  BY <1>1, <1>5 DEF RecycleOp
<1>9. PICK data2, b2 : data2 = op'[q] /\ b2 = buffers'[q]
  OBVIOUS
<1>10. SameBut(data, data2, Head(pend))
  BY <1>1, <1>2, <1>5, <1>8, <1>9 DEF IInv, TypeOK, SameBut
<1>11. /\ \A p \in QueuePairs : p # q => buffers'[p] = buffers[p]
       /\ Ordered(b2) /\ Closed(b2)
       /\ c.kind = "compress" => Making(c, Tail(pend), data2, b2)
       /\ c.kind = "decompress" => Decoding(c, Tail(pend), data2, b2)
  <2>1. CASE call[q].kind = "decompress"
    <3>1. buffers' = buffers /\ Decompressible(q, o)
      BY <1>5, <2>1 DEF RecycleOp
    <3>2. b2 = b
      BY <1>1, <1>9, <3>1
    <3>3. Decoding(call[q], pend, data, b)
      BY <1>3, <2>1
    <3>4. Decompressible(q, Head(pend))
      BY <1>5, <3>1
    <3>5. c.decoded = Append(call[q].decoded,
                             [slot  |-> data[Head(pend)].first,
                              first |-> Source(q, Head(pend))[1].first])
      BY <1>5, <1>7, <2>1
    <3>6. Decoding(c, Tail(pend), data2, b)
      BY <1>1, <1>2, <1>3, <1>4, <1>7, <1>10, <3>3, <3>4, <3>5, DecodeNext, Zenon
    <3> QED BY <1>3, <1>7, <2>1, <3>1, <3>2, <3>6
  <2>2. CASE call[q].kind # "decompress"
    <3>1. PICK n \in 1..Len(data[o].dst) :
            buffers' = [buffers EXCEPT ![q] = b \o Produced(q, o, n)]
      BY <1>1, <1>5, <2>2 DEF RecycleOp
    <3>2. PICK made : made = Produced(q, o, n)
      OBVIOUS
    <3>3. made \in Seq(Buffer)
      BY <1>1, <1>6, <3>1, <3>2, ProducedType
    <3>4. NewStream(made, data[o].first)
      <4>1. n \in Nat /\ n # 0
        BY <1>6, <3>1
      <4>2. DOMAIN made = 1..n /\ Len(made) = n /\ made # <<>>
        BY <3>2, <4>1 DEF Produced
      <4>3. \A j \in 1..n : /\ made[j].first = data[o].first
                            /\ made[j].part = j /\ made[j].parts = n
        BY <1>1, <3>2 DEF Produced
      <4> QED BY <4>2, <4>3 DEF NewStream
    <3>5. b2 = b \o made /\ \A p \in QueuePairs : p # q => buffers'[p] = buffers[p]
      BY <1>1, <1>2, <1>9, <3>1, <3>2 DEF IInv, TypeOK
    <3>6. Making(call[q], pend, data, b)
      BY <1>3, <2>2
    <3>7. NewStream(made, data[Head(pend)].first)
      BY <1>5, <3>4
    <3>8. /\ Ordered(b \o made) /\ Closed(b \o made)
          /\ Making(c, Tail(pend), data2, b \o made)
      BY <1>2, <1>3, <1>4, <1>7, <1>10, <3>3, <3>6, <3>7, MakeNext, Zenon
    <3> QED BY <1>3, <1>7, <2>2, <3>5, <3>8
  <2> QED BY <2>1, <2>2
<1>12. call'[q] = c /\ pending'[q] = Tail(pend) /\ Others(q)
  BY <1>2, <1>7, <1>8, <1>11 DEF IInv, TypeOK, Others
<1>13. Result(c, Tail(pend), data2, b2)
  BY <1>3, <1>7, <1>11 DEF Result, ActivePCs
<1>14. ResultAt(q)'
  BY <1>9, <1>12, <1>13, Zenon DEF ResultAt
<1> QED BY <1>12, <1>14, RFrame, Zenon

-----------------------------------------------------------------------------
(* The theorems *)

\* The invariant holds in the initial states.
LEMMA InitR == Init => RInv
<1> SUFFICES ASSUME Init PROVE RInv
  OBVIOUS
<1>1. IInv
  BY InitInv
<1>2. ASSUME NEW q \in QueuePairs
      PROVE  ResultAt(q)
  <2>1. call[q].pc = "idle" /\ call[q].result = "none" /\ buffers[q] = <<>>
    BY DEF Init, NoCall
  <2>2. Ordered(<<>>) /\ Closed(<<>>)
    BY DEF Ordered, Closed
  <2> QED BY <2>1, <2>2 DEF ResultAt, Result, ActivePCs
<1> QED BY <1>1, <1>2, Zenon DEF RInv

\* Every step keeps it.
LEMMA StepR == RInv /\ [Next]_vars => RInv'
<1> SUFFICES ASSUME RInv, [Next]_vars PROVE RInv'
  OBVIOUS
<1>1. IInv'
  <2>1. IInv
    BY Zenon DEF RInv
  <2> QED BY <2>1, StepInv
<1>2. CASE UNCHANGED vars
  <2>1. call' = call /\ pending' = pending /\ op' = op /\ buffers' = buffers
    BY <1>2 DEF vars, poolVars
  <2>2. ASSUME NEW q \in QueuePairs
        PROVE  ResultAt(q)'
    <3>1. ResultAt(q)
      BY Zenon DEF RInv
    <3> QED BY <2>1, <3>1, Zenon DEF ResultAt
  <2> QED BY <1>1, <2>2, Zenon DEF RInv
<1>3. ASSUME NEW q \in QueuePairs, Invoke(q) \/ Complete(q) \/ Stall(q)
      PROVE  RInv'
  <2>1. CASE \/ \E n \in 1..MaxSegs : Compress(q, n)
             \/ Decompress(q)
    BY <1>1, <2>1, EnterResult
  <2>2. CASE Cancelled(q) \/ Recycle(q) \/ Complete(q) \/ Stall(q)
    BY <1>1, <2>2, ContinueInvoke
  <2> QED BY <1>3, <2>1, <2>2 DEF Invoke
<1>4. ASSUME NEW q \in QueuePairs, Work(q)
      PROVE  RInv'
  <2>1. CASE Assemble(q)   BY <1>1, <2>1, AssembleResult
  <2>2. CASE TakeDst(q)    BY <1>1, <2>2, TakeDstResult
  <2>3. CASE RecycleOp(q)  BY <1>1, <2>3, RecycleOpResult
  <2>4. CASE Return(q)     BY <1>1, <2>4, ReturnResult
  <2>5. CASE PutBack(q)    BY <1>1, <2>5, PutBackResult
  <2>6. CASE ReleaseOp(q)  BY <1>1, <2>6, ReleaseOpResult
  <2>7. CASE \/ AssembleFails(q) \/ TakeFails(q)
             \/ Enqueue(q) \/ EnqueueFails(q)
             \/ Dequeue(q) \/ DequeueFails(q)
             \/ OpFails(q) \/ ReleaseDst(q) \/ ReleaseEnds(q)
    BY <1>1, <2>7, ContinueWork
  <2> QED BY <1>4, <2>1, <2>2, <2>3, <2>4, <2>5, <2>6, <2>7 DEF Work
<1> QED BY <1>2, <1>3, <1>4 DEF Next

\* RInv is an invariant of every behaviour of CompressDevice.
LEMMA RInvariance == Spec => []RInv
BY InitR, StepR, PTL DEF Spec

\* However the bursts are split by partial enqueues and dequeues and whatever
\* fails, Compress returns the streams of all segments, each once and in order.
THEOREM CompressedInOrderAlways == Spec => []CompressedInOrder
BY RInvariance, InvIsOrdered, PTL

\* What Decompress returns when it succeeds is what went into Compress: every
\* stream has been decompressed once, to the place of its first segment.
THEOREM RoundTripAlways == Spec => []RoundTrip
BY RInvariance, InvIsOrdered, PTL

-----------------------------------------------------------------------------
(* The service of one queue pair *)

HealthIn(pend, qu, ops) ==
  IF pend # <<>> THEN "busy"
  ELSE IF qu # <<>> \/ ops # <<>> THEN "tainted" ELSE "good"

PiecesOf(b) == [i \in DOMAIN b |-> Piece(b[i])]
WrittenIn(d) == {<<x.slot, x.first>> : x \in Elements(d)}

\* What the lcore of a queue pair has of the service: what CompressRefinement
\* says of it, from its call, its buffers, pending_operations_, its hardware
\* queue and operations_.
View(c, b, pend, qu, ops) ==
  LET phase == CASE c.pc = "idle" -> "idle"
                 [] c.pc = "undefined" -> "undefined"
                 [] c.pc = "putback" /\ c.result # "error" -> "recycling"
                 [] OTHER -> IF c.kind = "compress" THEN "compressing"
                                                    ELSE "decompressing"
  IN [phase   |-> phase,
      size    |-> IF phase = "compressing" THEN c.segs ELSE 0,
      outcome |-> IF c.pc = "idle" THEN c.result ELSE "none",
      result  |-> IF phase \in {"idle", "decompressing"} THEN PiecesOf(b) ELSE <<>>,
      output  |-> IF c.pc = "idle" /\ c.kind = "decompress" /\ c.result = "ok"
                    THEN WrittenIn(c.decoded) ELSE {},
      health  |-> IF phase \in {"compressing", "decompressing"} THEN "good"
                  ELSE HealthIn(pend, qu, ops)]

ViewAt(q) == View(call[q], buffers[q], pending[q], queue[q], operations[q])

\* What the service lets one queue pair do, from v to w, in each of its actions.
ViewCompress(v, w) ==
  /\ v.phase = "idle" /\ v.health = "good" /\ v.result = <<>>
  /\ w.phase = "compressing" /\ w.outcome = "none" /\ w.size \in 1..MaxSegs
  /\ w.output = {} /\ w.result = v.result /\ w.health = v.health

ViewCompressSucceeds(v, w) ==
  /\ v.phase = "compressing" /\ Service!IsCompression(w.result, v.size)
  /\ w.phase = "idle" /\ w.outcome = "ok" /\ w.size = 0
  /\ w.output = v.output /\ w.health = v.health

ViewCompressFails(v, w) ==
  /\ v.phase = "compressing" /\ w.health \in {"good", "tainted"}
  /\ w.phase = "idle" /\ w.outcome = "error" /\ w.size = 0
  /\ w.result = v.result /\ w.output = v.output

ViewDecompress(v, w) ==
  /\ v.phase = "idle" /\ v.health = "good" /\ v.result # <<>>
  /\ w.phase = "decompressing" /\ w.outcome = "none" /\ w.output = {}
  /\ w.size = v.size /\ w.result = v.result /\ w.health = v.health

ViewDecompressSucceeds(v, w) ==
  /\ v.phase = "decompressing" /\ w.phase = "idle" /\ w.outcome = "ok"
  /\ w.output = {<<v.result[i].first, v.result[i].first>> : i \in DOMAIN v.result}
  /\ w.size = v.size /\ w.result = v.result /\ w.health = v.health

ViewDecompressFails(v, w) ==
  /\ v.phase = "decompressing" /\ w.health \in {"good", "busy"}
  /\ w.phase = "idle" /\ w.outcome = "error"
  /\ w.size = v.size /\ w.result = v.result /\ w.output = v.output

ViewCancelled(v, w) ==
  /\ v.phase = "idle" /\ v.health = "busy"
  /\ w.phase = "idle" /\ w.outcome = "cancelled" /\ w.output = {}
  /\ w.size = v.size /\ w.result = v.result /\ w.health = v.health

ViewRecycle(v, w) ==
  /\ v.phase = "idle" /\ v.result # <<>> /\ w.phase = "recycling"
  /\ w.outcome = "none" /\ w.result = <<>> /\ w.output = {}
  /\ w.size = v.size /\ w.health = v.health

ViewRecycleEnds(v, w) ==
  /\ v.phase = "recycling" /\ w.phase = "idle" /\ w.outcome = "none"
  /\ w.size = v.size /\ w.result = v.result /\ w.output = v.output
  /\ w.health = v.health

ViewUndefined(v, w) ==
  /\ v.phase = "idle" /\ v.health = "tainted" /\ w.phase = "undefined"
  /\ w.outcome = "none" /\ w.result = <<>> /\ w.output = {}
  /\ w.size = v.size /\ w.health = v.health

Serves(v, w) ==
  \/ ViewCompress(v, w)
  \/ ViewCompressSucceeds(v, w)
  \/ ViewCompressFails(v, w)
  \/ ViewDecompress(v, w)
  \/ ViewDecompressSucceeds(v, w)
  \/ ViewDecompressFails(v, w)
  \/ ViewCancelled(v, w)
  \/ ViewRecycle(v, w)
  \/ ViewRecycleEnds(v, w)
  \/ ViewUndefined(v, w)

phaseOf   == [q \in QueuePairs |-> ServicePhase(q)]
sizeOf    == [q \in QueuePairs |->
                IF ServicePhase(q) = "compressing" THEN call[q].segs ELSE 0]
outcomeOf == [q \in QueuePairs |-> IF At(q, "idle") THEN call[q].result ELSE "none"]
resultOf  == [q \in QueuePairs |->
                IF ServicePhase(q) \in {"idle", "decompressing"} THEN Pieces(q)
                ELSE <<>>]
outputOf  == [q \in QueuePairs |->
                IF /\ At(q, "idle")
                   /\ call[q].kind = "decompress" /\ call[q].result = "ok"
                THEN Written(q) ELSE {}]
healthOf  == [q \in QueuePairs |-> Health(q)]

\* The refinement mapping, seen from one queue pair.
LEMMA Viewed ==
  ASSUME NEW q \in QueuePairs
  PROVE  /\ phaseOf[q] = ViewAt(q).phase /\ sizeOf[q] = ViewAt(q).size
         /\ outcomeOf[q] = ViewAt(q).outcome /\ resultOf[q] = ViewAt(q).result
         /\ outputOf[q] = ViewAt(q).output /\ healthOf[q] = ViewAt(q).health
         /\ phaseOf'[q] = ViewAt(q)'.phase /\ sizeOf'[q] = ViewAt(q)'.size
         /\ outcomeOf'[q] = ViewAt(q)'.outcome /\ resultOf'[q] = ViewAt(q)'.result
         /\ outputOf'[q] = ViewAt(q)'.output /\ healthOf'[q] = ViewAt(q)'.health
<1>1. phaseOf[q] = ViewAt(q).phase /\ phaseOf'[q] = ViewAt(q)'.phase
  BY DEF phaseOf, ViewAt, View, ServicePhase, Recycling, At
<1>2. sizeOf[q] = ViewAt(q).size /\ sizeOf'[q] = ViewAt(q)'.size
  BY DEF sizeOf, ViewAt, View, ServicePhase, Recycling, At
<1>3. outcomeOf[q] = ViewAt(q).outcome /\ outcomeOf'[q] = ViewAt(q)'.outcome
  BY DEF outcomeOf, ViewAt, View, At
<1>4. resultOf[q] = ViewAt(q).result /\ resultOf'[q] = ViewAt(q)'.result
  BY DEF resultOf, ViewAt, View, ServicePhase, Recycling, At, Pieces, PiecesOf
<1>5. outputOf[q] = ViewAt(q).output /\ outputOf'[q] = ViewAt(q)'.output
  BY DEF outputOf, ViewAt, View, At, Written, WrittenIn
<1>6. healthOf[q] = ViewAt(q).health /\ healthOf'[q] = ViewAt(q)'.health
  BY DEF healthOf, ViewAt, View, ServicePhase, Recycling, At, Health, HealthIn,
         InCall, Busy, Leftovers
<1> QED BY <1>1, <1>2, <1>3, <1>4, <1>5, <1>6

\* No step of q shows at another queue pair.
Alone(q) == \A p \in QueuePairs : p # q => ViewAt(p)' = ViewAt(p)

\* A function that changes in one place only.
LEMMA OneChanges ==
  ASSUME NEW S, NEW f, NEW g, f = [x \in S |-> f[x]], g = [x \in S |-> g[x]],
         NEW y \in S, \A x \in S : x # y => g[x] = f[x]
  PROVE  g = [f EXCEPT ![y] = g[y]] /\ (g[y] = f[y] => g = f)
<1>1. g = [f EXCEPT ![y] = g[y]]
  OBVIOUS
<1>2. ASSUME g[y] = f[y] PROVE g = f
  <2>1. \A x \in S : g[x] = f[x]
    BY <1>2
  <2> QED BY <2>1
<1> QED BY <1>1, <1>2

\* What a step of q changes of the service's state.
LEMMA ViewChanges ==
  ASSUME NEW q \in QueuePairs, Alone(q), NEW w, w = ViewAt(q)'
  PROVE  /\ phaseOf' = [phaseOf EXCEPT ![q] = w.phase]
         /\ w.phase = phaseOf[q] => phaseOf' = phaseOf
         /\ sizeOf' = [sizeOf EXCEPT ![q] = w.size]
         /\ w.size = sizeOf[q] => sizeOf' = sizeOf
         /\ outcomeOf' = [outcomeOf EXCEPT ![q] = w.outcome]
         /\ w.outcome = outcomeOf[q] => outcomeOf' = outcomeOf
         /\ resultOf' = [resultOf EXCEPT ![q] = w.result]
         /\ w.result = resultOf[q] => resultOf' = resultOf
         /\ outputOf' = [outputOf EXCEPT ![q] = w.output]
         /\ w.output = outputOf[q] => outputOf' = outputOf
         /\ healthOf' = [healthOf EXCEPT ![q] = w.health]
         /\ w.health = healthOf[q] => healthOf' = healthOf
         /\ w.result = resultOf'[q]
<1>1. ASSUME NEW p \in QueuePairs, p # q
      PROVE  /\ phaseOf'[p] = phaseOf[p] /\ sizeOf'[p] = sizeOf[p]
             /\ outcomeOf'[p] = outcomeOf[p] /\ resultOf'[p] = resultOf[p]
             /\ outputOf'[p] = outputOf[p] /\ healthOf'[p] = healthOf[p]
  <2>1. ViewAt(p)' = ViewAt(p)
    BY <1>1 DEF Alone
  <2>2. /\ phaseOf[p] = ViewAt(p).phase /\ sizeOf[p] = ViewAt(p).size
        /\ outcomeOf[p] = ViewAt(p).outcome /\ resultOf[p] = ViewAt(p).result
        /\ outputOf[p] = ViewAt(p).output /\ healthOf[p] = ViewAt(p).health
    BY Viewed
  <2>3. /\ phaseOf'[p] = ViewAt(p)'.phase /\ sizeOf'[p] = ViewAt(p)'.size
        /\ outcomeOf'[p] = ViewAt(p)'.outcome /\ resultOf'[p] = ViewAt(p)'.result
        /\ outputOf'[p] = ViewAt(p)'.output /\ healthOf'[p] = ViewAt(p)'.health
    BY Viewed
  <2> QED BY <2>1, <2>2, <2>3, Zenon
<1>2. /\ w.phase = phaseOf'[q] /\ w.size = sizeOf'[q] /\ w.outcome = outcomeOf'[q]
      /\ w.result = resultOf'[q] /\ w.output = outputOf'[q] /\ w.health = healthOf'[q]
  BY Viewed, Zenon
<1>3. /\ phaseOf' = [phaseOf EXCEPT ![q] = w.phase]
      /\ w.phase = phaseOf[q] => phaseOf' = phaseOf
  <2>1. /\ phaseOf = [p \in QueuePairs |-> phaseOf[p]]
        /\ phaseOf' = [p \in QueuePairs |-> phaseOf'[p]]
    BY DEF phaseOf
  <2>2. \A p \in QueuePairs : p # q => phaseOf'[p] = phaseOf[p]
    BY <1>1
  <2>3. /\ phaseOf' = [phaseOf EXCEPT ![q] = phaseOf'[q]]
        /\ phaseOf'[q] = phaseOf[q] => phaseOf' = phaseOf
    BY <2>1, <2>2, OneChanges
  <2> QED BY <1>2, <2>3
<1>4. /\ sizeOf' = [sizeOf EXCEPT ![q] = w.size]
      /\ w.size = sizeOf[q] => sizeOf' = sizeOf
  <2>1. /\ sizeOf = [p \in QueuePairs |-> sizeOf[p]]
        /\ sizeOf' = [p \in QueuePairs |-> sizeOf'[p]]
    BY DEF sizeOf
  <2>2. \A p \in QueuePairs : p # q => sizeOf'[p] = sizeOf[p]
    BY <1>1
  <2>3. /\ sizeOf' = [sizeOf EXCEPT ![q] = sizeOf'[q]]
        /\ sizeOf'[q] = sizeOf[q] => sizeOf' = sizeOf
    BY <2>1, <2>2, OneChanges
  <2> QED BY <1>2, <2>3
<1>5. /\ outcomeOf' = [outcomeOf EXCEPT ![q] = w.outcome]
      /\ w.outcome = outcomeOf[q] => outcomeOf' = outcomeOf
  <2>1. /\ outcomeOf = [p \in QueuePairs |-> outcomeOf[p]]
        /\ outcomeOf' = [p \in QueuePairs |-> outcomeOf'[p]]
    BY DEF outcomeOf
  <2>2. \A p \in QueuePairs : p # q => outcomeOf'[p] = outcomeOf[p]
    BY <1>1
  <2>3. /\ outcomeOf' = [outcomeOf EXCEPT ![q] = outcomeOf'[q]]
        /\ outcomeOf'[q] = outcomeOf[q] => outcomeOf' = outcomeOf
    BY <2>1, <2>2, OneChanges
  <2> QED BY <1>2, <2>3
<1>6. /\ resultOf' = [resultOf EXCEPT ![q] = w.result]
      /\ w.result = resultOf[q] => resultOf' = resultOf
  <2>1. /\ resultOf = [p \in QueuePairs |-> resultOf[p]]
        /\ resultOf' = [p \in QueuePairs |-> resultOf'[p]]
    BY DEF resultOf
  <2>2. \A p \in QueuePairs : p # q => resultOf'[p] = resultOf[p]
    BY <1>1
  <2>3. /\ resultOf' = [resultOf EXCEPT ![q] = resultOf'[q]]
        /\ resultOf'[q] = resultOf[q] => resultOf' = resultOf
    BY <2>1, <2>2, OneChanges
  <2> QED BY <1>2, <2>3
<1>7. /\ outputOf' = [outputOf EXCEPT ![q] = w.output]
      /\ w.output = outputOf[q] => outputOf' = outputOf
  <2>1. /\ outputOf = [p \in QueuePairs |-> outputOf[p]]
        /\ outputOf' = [p \in QueuePairs |-> outputOf'[p]]
    BY DEF outputOf
  <2>2. \A p \in QueuePairs : p # q => outputOf'[p] = outputOf[p]
    BY <1>1
  <2>3. /\ outputOf' = [outputOf EXCEPT ![q] = outputOf'[q]]
        /\ outputOf'[q] = outputOf[q] => outputOf' = outputOf
    BY <2>1, <2>2, OneChanges
  <2> QED BY <1>2, <2>3
<1>8. /\ healthOf' = [healthOf EXCEPT ![q] = w.health]
      /\ w.health = healthOf[q] => healthOf' = healthOf
  <2>1. /\ healthOf = [p \in QueuePairs |-> healthOf[p]]
        /\ healthOf' = [p \in QueuePairs |-> healthOf'[p]]
    BY DEF healthOf
  <2>2. \A p \in QueuePairs : p # q => healthOf'[p] = healthOf[p]
    BY <1>1
  <2>3. /\ healthOf' = [healthOf EXCEPT ![q] = healthOf'[q]]
        /\ healthOf'[q] = healthOf[q] => healthOf' = healthOf
    BY <2>1, <2>2, OneChanges
  <2> QED BY <1>2, <2>3
<1> QED BY <1>2, <1>3, <1>4, <1>5, <1>6, <1>7, <1>8

\* A step of one queue pair that its service allows is one of the whole service.
LEMMA ServiceStep ==
  ASSUME NEW q \in QueuePairs, Alone(q), NEW v, v = ViewAt(q), NEW w, w = ViewAt(q)',
         v = w \/ Serves(v, w)
  PROVE  [Service!Next]_(Service!vars)
<1>1. /\ phaseOf[q] = v.phase /\ sizeOf[q] = v.size /\ outcomeOf[q] = v.outcome
      /\ resultOf[q] = v.result /\ outputOf[q] = v.output /\ healthOf[q] = v.health
  BY Viewed
<1>3. /\ phaseOf' = [phaseOf EXCEPT ![q] = w.phase]
      /\ w.phase = v.phase => phaseOf' = phaseOf
      /\ sizeOf' = [sizeOf EXCEPT ![q] = w.size]
      /\ w.size = v.size => sizeOf' = sizeOf
      /\ outcomeOf' = [outcomeOf EXCEPT ![q] = w.outcome]
      /\ w.outcome = v.outcome => outcomeOf' = outcomeOf
      /\ resultOf' = [resultOf EXCEPT ![q] = w.result]
      /\ w.result = v.result => resultOf' = resultOf
      /\ outputOf' = [outputOf EXCEPT ![q] = w.output]
      /\ w.output = v.output => outputOf' = outputOf
      /\ healthOf' = [healthOf EXCEPT ![q] = w.health]
      /\ w.health = v.health => healthOf' = healthOf
      /\ w.result = resultOf'[q]
  BY <1>1, ViewChanges
<1>4. CASE v = w
  <2>1. /\ phaseOf' = phaseOf /\ sizeOf' = sizeOf /\ outcomeOf' = outcomeOf
        /\ resultOf' = resultOf /\ outputOf' = outputOf /\ healthOf' = healthOf
    BY <1>3, <1>4
  <2> QED BY <2>1 DEF Service!vars, phaseOf, sizeOf, outcomeOf, resultOf, outputOf,
                      healthOf
<1>5. CASE ViewCompress(v, w)
  <2>1. Service!Compress(q, w.size)
    BY <1>1, <1>3, <1>5 DEF ViewCompress, Service!Compress, Service!In, Service!Becomes,
                  phaseOf, sizeOf,
                  outcomeOf, resultOf, outputOf, healthOf
  <2>2. w.size \in 1..MaxSegs
    BY <1>5 DEF ViewCompress
  <2> QED BY <2>1, <2>2 DEF Service!Next
<1>6. CASE ViewCompressSucceeds(v, w)
  <2>1. Service!CompressSucceeds(q)
    BY <1>1, <1>3, <1>6 DEF ViewCompressSucceeds, Service!CompressSucceeds, Service!In, Service!Becomes,
                  phaseOf, sizeOf,
                  outcomeOf, resultOf, outputOf, healthOf
  <2> QED BY <2>1 DEF Service!Next
<1>7. CASE ViewCompressFails(v, w)
  <2>1. Service!CompressFails(q)
    BY <1>1, <1>3, <1>7 DEF ViewCompressFails, Service!CompressFails, Service!In, Service!Becomes,
                  phaseOf, sizeOf,
                  outcomeOf, resultOf, outputOf, healthOf
  <2> QED BY <2>1 DEF Service!Next
<1>8. CASE ViewDecompress(v, w)
  <2>1. Service!Decompress(q)
    BY <1>1, <1>3, <1>8 DEF ViewDecompress, Service!Decompress, Service!In, Service!Becomes,
                  phaseOf, sizeOf,
                  outcomeOf, resultOf, outputOf, healthOf
  <2> QED BY <2>1 DEF Service!Next
<1>9. CASE ViewDecompressSucceeds(v, w)
  <2>1. /\ phaseOf[q] = "decompressing" /\ phaseOf' = [phaseOf EXCEPT ![q] = "idle"]
        /\ outcomeOf' = [outcomeOf EXCEPT ![q] = "ok"]
        /\ outputOf' = [outputOf EXCEPT ![q] =
             {<<resultOf[q][i].first, resultOf[q][i].first>> : i \in DOMAIN resultOf[q]}]
        /\ sizeOf' = sizeOf /\ resultOf' = resultOf /\ healthOf' = healthOf
    BY <1>1, <1>3, <1>9 DEF ViewDecompressSucceeds
  <2>2. Service!DecompressSucceeds(q)
    BY <2>1, Zenon DEF Service!DecompressSucceeds, Service!In, Service!Becomes, phaseOf, sizeOf,
                  outcomeOf, resultOf, outputOf, healthOf
  <2> QED BY <2>2 DEF Service!Next
<1>10. CASE ViewDecompressFails(v, w)
  <2>1. Service!DecompressFails(q)
    BY <1>1, <1>3, <1>10 DEF ViewDecompressFails, Service!DecompressFails, Service!In, Service!Becomes,
                  phaseOf, sizeOf,
                  outcomeOf, resultOf, outputOf, healthOf
  <2> QED BY <2>1 DEF Service!Next
<1>11. CASE ViewCancelled(v, w)
  <2>1. Service!Cancelled(q)
    BY <1>1, <1>3, <1>11 DEF ViewCancelled, Service!Cancelled, Service!In, Service!Becomes,
                  phaseOf, sizeOf,
                  outcomeOf, resultOf, outputOf, healthOf
  <2> QED BY <2>1 DEF Service!Next
<1>12. CASE ViewRecycle(v, w)
  <2>1. Service!Recycle(q)
    BY <1>1, <1>3, <1>12 DEF ViewRecycle, Service!Recycle, Service!In, Service!Becomes,
                  phaseOf, sizeOf,
                  outcomeOf, resultOf, outputOf, healthOf
  <2> QED BY <2>1 DEF Service!Next
<1>13. CASE ViewRecycleEnds(v, w)
  <2>1. Service!RecycleEnds(q)
    BY <1>1, <1>3, <1>13 DEF ViewRecycleEnds, Service!RecycleEnds, Service!In, Service!Becomes,
                  phaseOf, sizeOf,
                  outcomeOf, resultOf, outputOf, healthOf
  <2> QED BY <2>1 DEF Service!Next
<1>14. CASE ViewUndefined(v, w)
  <2>1. Service!Undefined(q)
    BY <1>1, <1>3, <1>14 DEF ViewUndefined, Service!Undefined, Service!In, Service!Becomes,
                  phaseOf, sizeOf,
                  outcomeOf, resultOf, outputOf, healthOf
  <2> QED BY <2>1 DEF Service!Next
<1> QED BY <1>4, <1>5, <1>6, <1>7, <1>8, <1>9, <1>10, <1>11, <1>12, <1>13, <1>14, Zenon
       DEF Serves

\* A step of one queue pair.
Moves(q) == Invoke(q) \/ Work(q) \/ Complete(q) \/ Stall(q)

\* It leaves what the views of the others are made of as it is.
LEMMA MovesAlone ==
  ASSUME IInv, NEW q \in QueuePairs, Moves(q)
  PROVE  \A p \in QueuePairs : p # q =>
           /\ call'[p] = call[p] /\ buffers'[p] = buffers[p]
           /\ pending'[p] = pending[p] /\ queue'[p] = queue[p]
           /\ operations'[p] = operations[p]
<1> SUFFICES ASSUME NEW p \in QueuePairs, p # q
             PROVE  /\ call'[p] = call[p] /\ buffers'[p] = buffers[p]
                    /\ pending'[p] = pending[p] /\ queue'[p] = queue[p]
                    /\ operations'[p] = operations[p]
  OBVIOUS
<1> USE DEF IInv, TypeOK, hwVars
<1>1. CASE Invoke(q)
  <2>1. ASSUME NEW kind, NEW n, Enter(q, kind, n)
        PROVE  /\ call'[p] = call[p] /\ buffers'[p] = buffers[p]
               /\ pending'[p] = pending[p] /\ queue'[p] = queue[p]
               /\ operations'[p] = operations[p]
    BY <2>1 DEF Enter
  <2>2. CASE Cancelled(q)  BY <2>2 DEF Cancelled
  <2>3. CASE Recycle(q)    BY <2>3 DEF Recycle
  <2>4. CASE Decompress(q)
    <3>1. Enter(q, "decompress", Len(buffers[q]))
      BY <2>4, Zenon DEF Decompress
    <3> QED BY <2>1, <3>1, Zenon
  <2>5. CASE \E n \in 1..MaxSegs : Compress(q, n)
    <3>1. PICK n : Enter(q, "compress", n)
      BY <2>5, Zenon DEF Compress
    <3> QED BY <2>1, <3>1, Zenon
  <2> QED BY <1>1, <2>2, <2>3, <2>4, <2>5, Zenon DEF Invoke
<1>2. CASE Assemble(q)   BY <1>2 DEF Assemble
<1>3. CASE TakeDst(q)    BY <1>3 DEF TakeDst
<1>4. CASE Enqueue(q)    BY <1>4 DEF Enqueue
<1>5. CASE Dequeue(q)    BY <1>5 DEF Dequeue
<1>6. CASE RecycleOp(q)  BY <1>6 DEF RecycleOp
<1>7. CASE PutBack(q)    BY <1>7 DEF PutBack
<1>8. CASE \/ AssembleFails(q) \/ TakeFails(q) \/ EnqueueFails(q)
           \/ DequeueFails(q) \/ OpFails(q)
  BY <1>8 DEF AssembleFails, TakeFails, EnqueueFails, DequeueFails, OpFails
<1>9. CASE Return(q) \/ ReleaseDst(q) \/ ReleaseOp(q) \/ ReleaseEnds(q)
  BY <1>9 DEF Return, ReleaseDst, ReleaseOp, ReleaseEnds
<1>10. CASE Complete(q) \/ Stall(q)
  BY <1>10 DEF Complete, Stall
<1> QED BY <1>1, <1>2, <1>3, <1>4, <1>5, <1>6, <1>7, <1>8, <1>9, <1>10 DEF Moves, Work

\* Every buffer names the segments of its stream, and a stream starts after the
\* last part of the one before it.
Whole(b, segs) ==
  \A i \in DOMAIN b :
    /\ b[i].segs = Least(MaxSglSegs, (segs - b[i].first) + 1)
    /\ i # 1 /\ b[i].part = 1 => b[i - 1].part = b[i - 1].parts

\* The streams decoded so far are those of the buffers before "next".
Origins(d, b) == Firsts(d) = {b[i].first : i \in {k \in DOMAIN b : k < NextDecoded(d)}}

\* What the service asks of a call besides Result: only a Compress that failed
\* recycles and releases what it has, and which buffers a call has dealt with.
Kept(c, b) ==
  /\ c.pc = "putback" => c.result \in {"none", "error"}
  /\ c.pc = "putback" /\ c.result = "error" => c.kind = "compress"
  /\ c.pc = "release" => c.kind = "compress" /\ c.result = "error" /\ b = <<>>
  /\ c.pc \in ActivePCs => c.kind \in {"compress", "decompress"}
  /\ c.pc \in ActivePCs /\ c.kind = "compress" => c.segs # 0 /\ Whole(b, c.segs)
  /\ c.pc \in ActivePCs /\ c.kind = "decompress" => Origins(c.decoded, b)

KeptAt(q) == Kept(call[q], buffers[q])

SInv == RInv /\ \A q \in QueuePairs : KeptAt(q)

\* A step does what the service allows when it does so at its queue pair.
LEMMA Served ==
  ASSUME SInv, RInv', NEW q \in QueuePairs, Moves(q), KeptAt(q)',
         NEW v, v = ViewAt(q), NEW w, w = ViewAt(q)', v = w \/ Serves(v, w)
  PROVE  SInv' /\ [Service!Next]_(Service!vars)
<1>1. IInv
  BY Zenon DEF SInv, RInv
<1>2. \A p \in QueuePairs : p # q =>
           /\ call'[p] = call[p] /\ buffers'[p] = buffers[p]
           /\ pending'[p] = pending[p] /\ queue'[p] = queue[p]
           /\ operations'[p] = operations[p]
  BY <1>1, MovesAlone
<1>3. Alone(q)
  <2> SUFFICES ASSUME NEW p \in QueuePairs, p # q PROVE ViewAt(p)' = ViewAt(p)
    BY DEF Alone
  <2> QED BY <1>2, Zenon DEF ViewAt
<1>4. ASSUME NEW p \in QueuePairs
      PROVE  KeptAt(p)'
  <2>1. CASE p = q
    BY <2>1
  <2>2. CASE p # q
    <3>1. KeptAt(p) /\ call'[p] = call[p] /\ buffers'[p] = buffers[p]
      BY <1>2, <2>2, Zenon DEF SInv
    <3> QED BY <3>1, Zenon DEF KeptAt
  <2> QED BY <2>1, <2>2
<1>5. SInv'
  BY <1>4, Zenon DEF SInv
<1> QED BY <1>3, <1>5, ServiceStep

-----------------------------------------------------------------------------
(* What the service sees of a call *)

InCompress(c) ==
  /\ c.kind = "compress"
  /\ c.pc \in ActivePCs \/ c.pc = "release" \/ (c.pc = "putback" /\ c.result = "error")

InDecompress(c) == c.kind = "decompress" /\ c.pc \in ActivePCs

\* Between two calls.
LEMMA IdleView ==
  ASSUME NEW c, NEW b, NEW pend, NEW qu, NEW ops, c.pc = "idle"
  PROVE  View(c, b, pend, qu, ops) =
           [phase |-> "idle", size |-> 0, outcome |-> c.result, result |-> PiecesOf(b),
            output |-> IF c.kind = "decompress" /\ c.result = "ok"
                         THEN WrittenIn(c.decoded) ELSE {},
            health |-> HealthIn(pend, qu, ops)]
BY DEF View

\* Inside Compress nothing shows but what it was called with.
LEMMA CompressView ==
  ASSUME NEW c, NEW b, NEW pend, NEW qu, NEW ops, InCompress(c)
  PROVE  View(c, b, pend, qu, ops) =
           [phase |-> "compressing", size |-> c.segs, outcome |-> "none",
            result |-> <<>>, output |-> {}, health |-> "good"]
BY DEF View, InCompress, ActivePCs

\* Inside Decompress nothing shows but its buffers.
LEMMA DecompressView ==
  ASSUME NEW c, NEW b, NEW pend, NEW qu, NEW ops, InDecompress(c)
  PROVE  View(c, b, pend, qu, ops) =
           [phase |-> "decompressing", size |-> 0, outcome |-> "none",
            result |-> PiecesOf(b), output |-> {}, health |-> "good"]
BY DEF View, InDecompress, ActivePCs

\* Inside Recycle the buffers are gone.
LEMMA RecyclingView ==
  ASSUME NEW c, NEW b, NEW pend, NEW qu, NEW ops, c.pc = "putback", c.result # "error"
  PROVE  View(c, b, pend, qu, ops) =
           [phase |-> "recycling", size |-> 0, outcome |-> "none",
            result |-> <<>>, output |-> {}, health |-> HealthIn(pend, qu, ops)]
BY DEF View

\* Recycle's progress does not show.
LEMMA RecyclingSame ==
  ASSUME NEW c, NEW b, NEW c2, NEW b2, NEW pend, NEW qu, NEW ops,
         c.pc = "putback", c.result # "error", c2.pc = "putback", c2.result # "error"
  PROVE  View(c, b, pend, qu, ops) = View(c2, b2, pend, qu, ops)
BY DEF View

\* A call that passed EntryGuard on a queue pair with leftovers.
LEMMA UndefinedView ==
  ASSUME NEW c, NEW b, NEW pend, NEW qu, NEW ops, c.pc = "undefined"
  PROVE  View(c, b, pend, qu, ops) =
           [phase |-> "undefined", size |-> 0, outcome |-> "none",
            result |-> <<>>, output |-> {}, health |-> HealthIn(pend, qu, ops)]
BY DEF View

\* The result of nothing is empty, and only that.
LEMMA EmptyPieces ==
  ASSUME NEW b \in Seq(Buffer)
  PROVE  PiecesOf(b) = <<>> <=> b = <<>>
BY DEF PiecesOf

\* Nothing compressed is no piece.
LEMMA NoPieces == PiecesOf(<<>>) = <<>>
BY DEF PiecesOf

\* What the invariant says of one queue pair.
LEMMA SOne ==
  ASSUME SInv, NEW q \in QueuePairs
  PROVE  /\ RInv /\ IInv
         /\ call \in [QueuePairs -> Call] /\ call[q] \in Call
         /\ buffers \in [QueuePairs -> Seq(Buffer)] /\ buffers[q] \in Seq(Buffer)
         /\ pending \in [QueuePairs -> Seq(Operations)]
         /\ pending[q] \in Seq(Operations)
         /\ queue[q] \in Seq(Operations) /\ operations[q] \in Seq(Operations)
         /\ Result(call[q], pending[q], op[q], buffers[q])
         /\ Kept(call[q], buffers[q])
         /\ QMatches(call[q], pending[q], queue[q], operations[q])
<1>1. RInv /\ IInv /\ KeptAt(q)
  BY Zenon DEF SInv, RInv
<1>2. Result(call[q], pending[q], op[q], buffers[q])
  BY <1>1, ROne
<1>3. /\ call[q] \in Call /\ buffers[q] \in Seq(Buffer)
      /\ pending[q] \in Seq(Operations)
      /\ queue[q] \in Seq(Operations) /\ operations[q] \in Seq(Operations)
      /\ QMatches(call[q], pending[q], queue[q], operations[q])
  BY <1>1, Localize DEF QType, QInv
<1>4. /\ call \in [QueuePairs -> Call]
      /\ buffers \in [QueuePairs -> Seq(Buffer)]
      /\ pending \in [QueuePairs -> Seq(Operations)]
  BY <1>1 DEF IInv, TypeOK
<1> QED BY <1>1, <1>2, <1>3, <1>4, Zenon DEF KeptAt

\* A step inside a call is hidden.
LEMMA Hidden ==
  ASSUME SInv, RInv', NEW q \in QueuePairs, Moves(q), NEW c, c = call'[q],
         NEW b, b = buffers'[q], Kept(c, b),
         \/ InCompress(call[q]) /\ InCompress(c) /\ c.segs = call[q].segs
         \/ InDecompress(call[q]) /\ InDecompress(c) /\ b = buffers[q]
  PROVE  SInv' /\ [Service!Next]_(Service!vars)
<1>1. KeptAt(q)'
  BY Zenon DEF KeptAt
<1>2. ViewAt(q)' = View(c, b, pending'[q], queue'[q], operations'[q])
  BY Zenon DEF ViewAt
<1>3. ViewAt(q) = ViewAt(q)'
  <2>1. CASE InCompress(call[q]) /\ InCompress(c) /\ c.segs = call[q].segs
    <3>1. ViewAt(q) = [phase |-> "compressing", size |-> c.segs, outcome |-> "none",
                       result |-> <<>>, output |-> {}, health |-> "good"]
      BY <2>1, CompressView DEF ViewAt
    <3>2. ViewAt(q)' = [phase |-> "compressing", size |-> c.segs, outcome |-> "none",
                        result |-> <<>>, output |-> {}, health |-> "good"]
      BY <1>2, <2>1, CompressView
    <3> QED BY <3>1, <3>2
  <2>2. CASE InDecompress(call[q]) /\ InDecompress(c) /\ b = buffers[q]
    <3>1. ViewAt(q) = [phase |-> "decompressing", size |-> 0, outcome |-> "none",
                       result |-> PiecesOf(b), output |-> {}, health |-> "good"]
      BY <2>2, DecompressView DEF ViewAt
    <3>2. ViewAt(q)' = [phase |-> "decompressing", size |-> 0, outcome |-> "none",
                        result |-> PiecesOf(b), output |-> {}, health |-> "good"]
      BY <1>2, <2>2, DecompressView
    <3> QED BY <3>1, <3>2
  <2> QED BY <2>1, <2>2
<1> QED BY <1>1, <1>3, Served

\* Bursts are assembled, enqueued and dequeued.
LEMMA BurstServed ==
  ASSUME SInv, RInv', NEW q \in QueuePairs,
         Assemble(q) \/ TakeDst(q) \/ Enqueue(q) \/ Dequeue(q)
  PROVE  SInv' /\ [Service!Next]_(Service!vars)
<1>1. /\ call[q] \in Call /\ call \in [QueuePairs -> Call]
      /\ Kept(call[q], buffers[q])
  BY SOne
<1>2. /\ Moves(q) /\ call[q].pc \in ActivePCs /\ buffers'[q] = buffers[q]
  BY DEF Moves, Work, Assemble, TakeDst, Enqueue, Enqueuing, Dequeue, Dequeuing, At,
         ActivePCs
<1>3. PICK c : /\ c = call'[q] /\ c.pc \in ActivePCs /\ c.kind = call[q].kind
               /\ c.segs = call[q].segs /\ c.decoded = call[q].decoded
  <2>1. CASE Assemble(q)
    BY <1>1, <2>1 DEF Assemble, At, ActivePCs, Call
  <2>2. CASE TakeDst(q)
    <3>1. CASE call' = call
      BY <1>2, <3>1
    <3>2. CASE call' = [call EXCEPT ![q].pc = "loop", ![q].batch = <<>>]
      <4> DEFINE c == [call[q] EXCEPT !.pc = "loop", !.batch = <<>>]
      <4>1. call'[q] = c
        BY <1>1, <3>2
      <4>2. /\ c.pc = "loop" /\ c.kind = call[q].kind
            /\ c.segs = call[q].segs /\ c.decoded = call[q].decoded
        BY <1>1 DEF Call
      <4> HIDE DEF c
      <4> QED BY <4>1, <4>2 DEF ActivePCs
    <3> QED BY <2>2, <3>1, <3>2, Zenon DEF TakeDst
  <2>3. CASE Enqueue(q)
    <3> DEFINE c == [call[q] EXCEPT !.pc = "dequeue"]
    <3>1. call'[q] = c
      BY <1>1, <2>3 DEF Enqueue
    <3>2. /\ c.pc = "dequeue" /\ c.kind = call[q].kind
          /\ c.segs = call[q].segs /\ c.decoded = call[q].decoded
      BY <1>1 DEF Call
    <3> HIDE DEF c
    <3> QED BY <3>1, <3>2 DEF ActivePCs
  <2>4. CASE Dequeue(q)
    <3> DEFINE n == NumDequeued(q)
               c == [call[q] EXCEPT !.pc = IF n > 0 THEN "burst" ELSE "loop",
                                    !.burst = SubSeq(queue[q], 1, n)]
    <3>1. call'[q] = c
      BY <1>1, <2>4 DEF Dequeue
    <3>2. /\ c.pc \in {"loop", "burst"} /\ c.kind = call[q].kind
          /\ c.segs = call[q].segs /\ c.decoded = call[q].decoded
      BY <1>1 DEF Call
    <3> HIDE DEF c
    <3> QED BY <3>1, <3>2 DEF ActivePCs
  <2> QED BY <2>1, <2>2, <2>3, <2>4
<1>4. Kept(c, buffers[q]) /\ call[q].kind \in {"compress", "decompress"}
  BY <1>1, <1>2, <1>3 DEF Kept, ActivePCs
<1> QED BY <1>2, <1>3, <1>4, Hidden DEF InCompress, InDecompress

\* Nothing pending means that nothing is in flight and nothing waits.
LEMMA EmptyConcat ==
  ASSUME NEW S, NEW s \in Seq(S), NEW t \in Seq(S), NEW u \in Seq(S), NEW v \in Seq(S),
         s \o t \o u \o v = <<>>
  PROVE  t = <<>> /\ u = <<>>
<1>1. \A x \in Seq(S) : Len(x) \in Nat /\ (Len(x) = 0 <=> x = <<>>)
  OBVIOUS
<1>2. \A x, y \in Seq(S) : x \o y \in Seq(S) /\ Len(x \o y) = Len(x) + Len(y)
  OBVIOUS
<1>3. \A x, y \in Seq(S) : x \o y = <<>> => x = <<>> /\ y = <<>>
  <2> SUFFICES ASSUME NEW x \in Seq(S), NEW y \in Seq(S), x \o y = <<>>
               PROVE  x = <<>> /\ y = <<>>
    OBVIOUS
  <2>1. PICK m, n \in Nat : m = Len(x) /\ n = Len(y)
    OBVIOUS
  <2>2. m + n = 0
    BY <1>1, <1>2, <2>1
  <2> QED BY <1>1, <2>1, <2>2
<1>4. s \o t \in Seq(S) /\ s \o t \o u \in Seq(S)
  BY <1>2, Zenon
<1> QED BY <1>3, <1>4, Zenon

\* A call fails: Compress goes on to release what it has, Decompress ends, and
\* leaves the queue pair busy if anything is pending.
LEMMA FailServed ==
  ASSUME SInv, RInv', NEW q \in QueuePairs,
         \/ AssembleFails(q) \/ TakeFails(q) \/ EnqueueFails(q)
         \/ DequeueFails(q) \/ OpFails(q)
  PROVE  SInv' /\ [Service!Next]_(Service!vars)
<1> PICK b : b = buffers[q]
  OBVIOUS
<1>1. /\ call[q] \in Call /\ call \in [QueuePairs -> Call]
      /\ Kept(call[q], b)
      /\ pending[q] \in Seq(Operations) /\ queue[q] \in Seq(Operations)
      /\ operations[q] \in Seq(Operations)
      /\ QMatches(call[q], pending[q], queue[q], operations[q])
  BY SOne
<1>2. /\ Moves(q) /\ call[q].pc \in ActivePCs /\ buffers'[q] = b
      /\ pending'[q] = pending[q] /\ queue'[q] = queue[q]
      /\ operations'[q] = operations[q]
      /\ call'[q] = Failed(q, call[q])
  BY <1>1 DEF Moves, Work, AssembleFails, TakeFails, EnqueueFails, Enqueuing,
         DequeueFails, Dequeuing, OpFails, At, ActivePCs, hwVars
<1>3. PICK c : /\ c = call'[q] /\ c.kind = call[q].kind /\ c.segs = call[q].segs
               /\ c.result = "error"
               /\ c.kind = "decompress" => c.pc = "idle"
               /\ c.kind = "compress" => c.pc = IF b = <<>> THEN "release" ELSE "putback"
  <2> PICK c : c = Failed(q, call[q])
    OBVIOUS
  <2>1. /\ c.kind = call[q].kind /\ c.segs = call[q].segs /\ c.result = "error"
        /\ c.kind = "decompress" => c.pc = "idle"
        /\ c.kind = "compress" => c.pc = IF b = <<>> THEN "release" ELSE "putback"
    BY <1>1 DEF Failed, Call
  <2> QED BY <1>2, <2>1
<1>4. call[q].kind \in {"compress", "decompress"}
  BY <1>1, <1>2 DEF Kept
<1>5. Kept(c, b)
  BY <1>3, <1>4 DEF Kept, ActivePCs
<1>6. CASE call[q].kind = "compress"
  BY <1>2, <1>3, <1>5, <1>6, Hidden DEF InCompress
<1>7. CASE call[q].kind = "decompress"
  <2> PICK v, w : v = ViewAt(q) /\ w = ViewAt(q)'
    OBVIOUS
  <2>1. v = [phase |-> "decompressing", size |-> 0, outcome |-> "none",
             result |-> PiecesOf(b), output |-> {}, health |-> "good"]
    <3>1. InDecompress(call[q])
      BY <1>2, <1>7 DEF InDecompress
    <3>2. View(call[q], b, pending[q], queue[q], operations[q]) =
            [phase |-> "decompressing", size |-> 0, outcome |-> "none",
             result |-> PiecesOf(b), output |-> {}, health |-> "good"]
      BY <3>1, DecompressView, Zenon
    <3> QED BY <3>2, Zenon DEF ViewAt
  <2>2. w = [phase |-> "idle", size |-> 0, outcome |-> "error",
             result |-> PiecesOf(b), output |-> {},
             health |-> HealthIn(pending[q], queue[q], operations[q])]
    <3>1. w = View(c, b, pending[q], queue[q], operations[q])
      BY <1>2, <1>3, Zenon DEF ViewAt
    <3>2. View(c, b, pending[q], queue[q], operations[q]) =
            [phase |-> "idle", size |-> 0, outcome |-> c.result, result |-> PiecesOf(b),
             output |-> IF c.kind = "decompress" /\ c.result = "ok"
                          THEN WrittenIn(c.decoded) ELSE {},
             health |-> HealthIn(pending[q], queue[q], operations[q])]
      <4>1. c.pc = "idle"
        BY <1>3, <1>7
      <4> QED BY <4>1, IdleView, Zenon
    <3> QED BY <1>3, <3>1, <3>2
  <2>3. HealthIn(pending[q], queue[q], operations[q]) \in {"good", "busy"}
    <3>1. pending[q] = call[q].burst \o queue[q] \o operations[q] \o call[q].batch
      BY <1>1, <1>2 DEF QMatches
    <3>2. call[q].burst \in Seq(Operations) /\ call[q].batch \in Seq(Operations)
      BY <1>1 DEF Call
    <3>3. pending[q] = <<>> => queue[q] = <<>> /\ operations[q] = <<>>
      <4>1. ASSUME pending[q] = <<>>
            PROVE  queue[q] = <<>> /\ operations[q] = <<>>
        <5>1. call[q].burst \o queue[q] \o operations[q] \o call[q].batch = <<>>
          BY <3>1, <4>1
        <5>2. \A x, y, z, u \in Seq(Operations) :
                x \o y \o z \o u = <<>> => y = <<>> /\ z = <<>>
          BY EmptyConcat
        <5>3. /\ call[q].burst \in Seq(Operations) /\ queue[q] \in Seq(Operations)
              /\ operations[q] \in Seq(Operations) /\ call[q].batch \in Seq(Operations)
          BY <1>1, <3>2
        <5> QED BY <5>1, <5>2, <5>3, Zenon
      <4> QED BY <4>1
    <3> QED BY <3>3 DEF HealthIn
  <2>4. Serves(v, w)
    <3>1. ViewDecompressFails(v, w)
      BY <2>1, <2>2, <2>3 DEF ViewDecompressFails
    <3> QED BY <3>1 DEF Serves
  <2>5. KeptAt(q)'
    BY <1>2, <1>3, <1>5, Zenon DEF KeptAt
  <2> QED BY <1>2, <2>4, <2>5, Served
<1> QED BY <1>4, <1>6, <1>7

\* The hardware works or stops.
LEMMA HardwareServed ==
  ASSUME SInv, RInv', NEW q \in QueuePairs, Complete(q) \/ Stall(q)
  PROVE  SInv' /\ [Service!Next]_(Service!vars)
<1>1. /\ Moves(q) /\ call' = call /\ buffers' = buffers /\ pending' = pending
      /\ queue' = queue /\ operations' = operations
  BY DEF Moves, Complete, Stall
<1>2. ViewAt(q)' = ViewAt(q)
  BY <1>1, Zenon DEF ViewAt
<1>3. KeptAt(q)
  BY Zenon DEF SInv
<1>4. KeptAt(q)'
  BY <1>1, <1>3, Zenon DEF KeptAt
<1> QED BY <1>1, <1>2, <1>4, Served

\* A call is refused, or the lcore begins to give its result back.
LEMMA IdleServed ==
  ASSUME SInv, RInv', NEW q \in QueuePairs, Cancelled(q) \/ Recycle(q)
  PROVE  SInv' /\ [Service!Next]_(Service!vars)
<1> PICK b : b = buffers[q]
  OBVIOUS
<1>1. /\ call[q] \in Call /\ call \in [QueuePairs -> Call] /\ b \in Seq(Buffer)
      /\ call[q].pc = "idle"
  BY SOne DEF Cancelled, Recycle, At
<1>2. /\ Moves(q) /\ buffers'[q] = b
      /\ pending'[q] = pending[q] /\ queue'[q] = queue[q]
      /\ operations'[q] = operations[q]
  BY DEF Moves, Invoke, Cancelled, Recycle, hwVars
<1>3. PICK c : /\ c = call'[q] /\ c.kind = call[q].kind
               /\ \/ Cancelled(q) /\ c.pc = "idle" /\ c.result = "cancelled"
                  \/ Recycle(q) /\ c.pc = "putback" /\ c.result = "none"
  <2>1. CASE Cancelled(q)
    <3> DEFINE c == [call[q] EXCEPT !.result = "cancelled"]
    <3>1. call'[q] = c
      BY <1>1, <2>1 DEF Cancelled
    <3>2. c.pc = "idle" /\ c.result = "cancelled" /\ c.kind = call[q].kind
      BY <1>1 DEF Call
    <3> HIDE DEF c
    <3> QED BY <2>1, <3>1, <3>2
  <2>2. CASE Recycle(q)
    <3> DEFINE c == [call[q] EXCEPT !.pc = "putback", !.result = "none"]
    <3>1. call'[q] = c
      BY <1>1, <2>2 DEF Recycle
    <3>2. c.pc = "putback" /\ c.result = "none" /\ c.kind = call[q].kind
      BY <1>1 DEF Call
    <3> HIDE DEF c
    <3> QED BY <2>2, <3>1, <3>2
  <2> QED BY <2>1, <2>2
<1> PICK h : h = HealthIn(pending[q], queue[q], operations[q])
  OBVIOUS
<1> PICK v, w : v = ViewAt(q) /\ w = ViewAt(q)'
  OBVIOUS
<1>4. /\ v.phase = "idle" /\ v.size = 0 /\ v.result = PiecesOf(b) /\ v.health = h
  BY <1>1, IdleView DEF ViewAt
<1>5. w = View(c, b, pending[q], queue[q], operations[q])
  BY <1>2, <1>3, Zenon DEF ViewAt
<1>6. CASE Cancelled(q)
  <2>1. c.pc = "idle" /\ c.result = "cancelled"
    BY <1>1, <1>3, <1>6 DEF Cancelled, Recycle
  <2>2. /\ w.phase = "idle" /\ w.outcome = "cancelled" /\ w.output = {}
        /\ w.size = 0 /\ w.result = PiecesOf(b) /\ w.health = h
    BY <1>5, <2>1, IdleView
  <2>3. h = "busy"
    BY <1>6 DEF Cancelled, Busy, HealthIn
  <2>4. Serves(v, w)
    BY <1>4, <2>2, <2>3 DEF Serves, ViewCancelled
  <2>5. Kept(c, b)
    BY <2>1 DEF Kept, ActivePCs
  <2> QED BY <1>2, <1>3, <2>4, <2>5, Served DEF KeptAt
<1>7. CASE Recycle(q)
  <2>1. c.pc = "putback" /\ c.result = "none"
    BY <1>1, <1>3, <1>7 DEF Cancelled, Recycle
  <2>2. /\ w.phase = "recycling" /\ w.outcome = "none" /\ w.output = {}
        /\ w.size = 0 /\ w.result = <<>> /\ w.health = h
    BY <1>5, <2>1, RecyclingView
  <2>3. v.result # <<>>
    BY <1>1, <1>4, <1>7, EmptyPieces DEF Recycle
  <2>4. Serves(v, w)
    BY <1>4, <2>2, <2>3 DEF Serves, ViewRecycle
  <2>5. Kept(c, b)
    BY <2>1 DEF Kept, ActivePCs
  <2> QED BY <1>2, <1>3, <2>4, <2>5, Served DEF KeptAt
<1> QED BY <1>6, <1>7

\* Release works on, or has ended: the failed Compress is over.
LEMMA ReleaseServed ==
  ASSUME SInv, RInv', NEW q \in QueuePairs,
         ReleaseDst(q) \/ ReleaseOp(q) \/ ReleaseEnds(q)
  PROVE  SInv' /\ [Service!Next]_(Service!vars)
<1>1. /\ call[q] \in Call /\ call \in [QueuePairs -> Call]
      /\ Kept(call[q], buffers[q])
  BY SOne
<1>2. /\ Moves(q) /\ call[q].pc = "release" /\ buffers'[q] = buffers[q]
  BY DEF Moves, Work, ReleaseDst, ReleaseOp, ReleaseEnds, At
<1>3. call[q].kind = "compress" /\ call[q].result = "error" /\ buffers[q] = <<>>
  BY <1>1, <1>2, Zenon DEF Kept
<1>4. CASE ReleaseDst(q) \/ ReleaseOp(q)
  <2> PICK freed : call' = [call EXCEPT ![q].freed = freed]
    BY <1>4 DEF ReleaseDst, ReleaseOp
  <2> DEFINE c == [call[q] EXCEPT !.freed = freed]
  <2>1. call'[q] = c
    BY <1>1
  <2>2. /\ c.pc = "release" /\ c.result = "error" /\ c.kind = "compress"
        /\ c.segs = call[q].segs
    BY <1>1, <1>2, <1>3 DEF Call
  <2> HIDE DEF c
  <2>3. Kept(c, buffers[q])
    BY <1>3, <2>2 DEF Kept, ActivePCs
  <2> QED BY <1>2, <1>3, <2>1, <2>2, <2>3, Hidden DEF InCompress
<1>5. CASE ReleaseEnds(q)
  <2> DEFINE c == [call[q] EXCEPT !.pc = "idle"]
  <2>1. /\ call'[q] = c /\ pending'[q] = <<>> /\ queue'[q] = queue[q]
        /\ operations'[q] = operations[q]
    BY <1>1, <1>5 DEF ReleaseEnds, hwVars
  <2>2. /\ c.pc = "idle" /\ c.result = "error" /\ c.kind = "compress"
    BY <1>1, <1>2, <1>3 DEF Call
  <2> HIDE DEF c
  <2>3. Kept(c, buffers[q])
    BY <2>2 DEF Kept, ActivePCs
  <2> PICK v, w : v = ViewAt(q) /\ w = ViewAt(q)'
    OBVIOUS
  <2>4. /\ v.phase = "compressing" /\ v.result = <<>> /\ v.output = {}
    BY <1>2, <1>3, CompressView DEF ViewAt, InCompress
  <2>5. w = View(c, <<>>, <<>>, queue[q], operations[q])
    BY <1>2, <1>3, <2>1, Zenon DEF ViewAt
  <2>6. /\ w.phase = "idle" /\ w.outcome = "error" /\ w.output = {}
        /\ w.size = 0 /\ w.result = PiecesOf(<<>>)
        /\ w.health = HealthIn(<<>>, queue[q], operations[q])
    BY <2>2, <2>5, IdleView
  <2>7. w.health \in {"good", "tainted"} /\ w.result = <<>>
    BY <2>6, NoPieces DEF HealthIn
  <2>8. Serves(v, w)
    BY <2>4, <2>6, <2>7 DEF Serves, ViewCompressFails
  <2> QED BY <1>2, <2>1, <2>3, <2>8, Served DEF KeptAt
<1> QED BY <1>4, <1>5

\* A call starts, or is no longer followed.
LEMMA EnterServed ==
  ASSUME SInv, RInv', NEW q \in QueuePairs,
         \/ \E n \in 1..MaxSegs : Compress(q, n)
         \/ Decompress(q)
  PROVE  SInv' /\ [Service!Next]_(Service!vars)
<1> PICK b : b = buffers[q]
  OBVIOUS
<1>1. /\ call[q] \in Call /\ call \in [QueuePairs -> Call] /\ b \in Seq(Buffer)
      /\ call[q].pc = "idle" /\ pending[q] = <<>>
  BY SOne DEF Compress, Decompress, At, Busy
<1>2. PICK kind \in {"compress", "decompress"}, n \in Nat :
        /\ Enter(q, kind, n)
        /\ \/ kind = "compress" /\ b = <<>> /\ n \in 1..MaxSegs
           \/ kind = "decompress" /\ b # <<>>
  <2>1. CASE \E n \in 1..MaxSegs : Compress(q, n)
    <3>1. PICK n \in 1..MaxSegs : Compress(q, n)
      BY <2>1
    <3>2. n \in Nat
      BY DeviceAssumption
    <3> QED BY <3>1, <3>2 DEF Compress
  <2>2. CASE Decompress(q)
    <3>1. Len(b) \in Nat
      BY <1>1
    <3> QED BY <2>2, <3>1 DEF Decompress
  <2> QED BY <2>1, <2>2
<1>3. /\ Moves(q) /\ buffers'[q] = b
      /\ pending'[q] = <<>> /\ queue'[q] = queue[q] /\ operations'[q] = operations[q]
  BY <1>1, <1>2 DEF Moves, Invoke, Enter, hwVars
<1> PICK h : h = HealthIn(<<>>, queue[q], operations[q])
  OBVIOUS
<1> PICK v, w : v = ViewAt(q) /\ w = ViewAt(q)'
  OBVIOUS
<1>4. /\ v.phase = "idle" /\ v.size = 0 /\ v.result = PiecesOf(b) /\ v.health = h
  BY <1>1, IdleView DEF ViewAt
<1>5. CASE Leftovers(q)
  <2> DEFINE c == [NoCall EXCEPT !.pc = "undefined"]
  <2>1. call'[q] = c
    BY <1>1, <1>2, <1>5 DEF Enter
  <2>2. c.pc = "undefined"
    BY DEF NoCall
  <2> HIDE DEF c
  <2>3. w = View(c, b, <<>>, queue[q], operations[q])
    BY <1>3, <2>1, Zenon DEF ViewAt
  <2>4. /\ w.phase = "undefined" /\ w.outcome = "none" /\ w.output = {}
        /\ w.size = 0 /\ w.result = <<>> /\ w.health = h
    BY <2>2, <2>3, UndefinedView
  <2>5. h = "tainted"
    BY <1>5 DEF Leftovers, HealthIn
  <2>6. Serves(v, w)
    BY <1>4, <2>4, <2>5 DEF Serves, ViewUndefined
  <2>7. Kept(c, b)
    BY <2>2 DEF Kept, ActivePCs
  <2> QED BY <1>3, <2>1, <2>6, <2>7, Served DEF KeptAt
<1>6. CASE ~Leftovers(q)
  <2> DEFINE c == [NoCall EXCEPT !.pc = "loop", !.kind = kind, !.segs = n]
  <2>1. call'[q] = c
    BY <1>1, <1>2, <1>6 DEF Enter
  <2>2. c.pc = "loop" /\ c.kind = kind /\ c.segs = n /\ c.decoded = <<>>
    BY DEF NoCall
  <2> HIDE DEF c
  <2>3. w = View(c, b, <<>>, queue[q], operations[q])
    BY <1>3, <2>1, Zenon DEF ViewAt
  <2>4. h = "good"
    BY <1>6 DEF Leftovers, HealthIn
  <2>5. CASE kind = "compress"
    <3>1. b = <<>> /\ n \in 1..MaxSegs /\ PiecesOf(b) = <<>>
      BY <1>1, <1>2, <2>5, EmptyPieces
    <3>2. /\ w.phase = "compressing" /\ w.outcome = "none" /\ w.output = {}
          /\ w.size = n /\ w.result = <<>> /\ w.health = "good"
      BY <2>2, <2>3, <2>5, CompressView DEF InCompress, ActivePCs
    <3>3. Serves(v, w)
      BY <1>4, <2>4, <3>1, <3>2 DEF Serves, ViewCompress
    <3>4. n # 0 /\ Whole(<<>>, n)
      BY <3>1 DEF Whole
    <3>5. Kept(c, b)
      BY <2>2, <2>5, <3>1, <3>4 DEF Kept, ActivePCs
    <3> QED BY <1>3, <2>1, <3>3, <3>5, Served DEF KeptAt
  <2>6. CASE kind = "decompress"
    <3>1. b # <<>> /\ PiecesOf(b) # <<>>
      BY <1>1, <1>2, <2>6, EmptyPieces
    <3>2. /\ w.phase = "decompressing" /\ w.outcome = "none" /\ w.output = {}
          /\ w.size = 0 /\ w.result = PiecesOf(b) /\ w.health = "good"
      BY <2>2, <2>3, <2>6, DecompressView DEF InDecompress, ActivePCs
    <3>3. Serves(v, w)
      BY <1>4, <2>4, <3>1, <3>2 DEF Serves, ViewDecompress
    <3>4. Origins(<<>>, b)
      <4>1. {k \in DOMAIN b : k < 1} = {}
        BY <1>1
      <4> QED BY <4>1 DEF Origins, Firsts, NextDecoded
    <3>5. Kept(c, b)
      BY <2>2, <2>6, <3>4 DEF Kept, ActivePCs
    <3> QED BY <1>3, <2>1, <3>3, <3>5, Served DEF KeptAt
  <2> QED BY <2>5, <2>6
<1> QED BY <1>5, <1>6

\* A buffer is put back: the call was over, or is still failing.
LEMMA PutBackServed ==
  ASSUME SInv, RInv', NEW q \in QueuePairs, PutBack(q)
  PROVE  SInv' /\ [Service!Next]_(Service!vars)
<1>1. /\ call[q] \in Call /\ call \in [QueuePairs -> Call]
      /\ buffers \in [QueuePairs -> Seq(Buffer)] /\ buffers[q] \in Seq(Buffer)
      /\ Kept(call[q], buffers[q])
  BY SOne
<1>2. /\ Moves(q) /\ call[q].pc = "putback" /\ pending'[q] = pending[q]
      /\ queue'[q] = queue[q] /\ operations'[q] = operations[q]
  BY DEF Moves, Work, PutBack, At, hwVars
<1>0. PICK n \in Nat : n = Len(buffers[q])
  BY <1>1
<1> PICK b : b = buffers'[q]
  OBVIOUS
<1>3. ~(n > 1) => b = <<>>
  <2> SUFFICES ASSUME ~(n > 1) PROVE b = <<>>
    OBVIOUS
  <2>1. b = SubSeq(buffers[q], 1, n - 1)
    BY <1>0, <1>1 DEF PutBack
  <2>2. n = 0 \/ n = 1
    OBVIOUS
  <2> QED BY <1>1, <2>1, <2>2
<1>4. PICK c : /\ c = call'[q] /\ c.kind = call[q].kind /\ c.segs = call[q].segs
               /\ c.result = call[q].result
               /\ n > 1 => c.pc = "putback"
               /\ ~(n > 1) => c.pc = IF call[q].result = "error" THEN "release" ELSE "idle"
  <2>1. CASE n > 1
    BY <1>0, <1>1, <1>2, <2>1 DEF PutBack
  <2>2. CASE ~(n > 1)
    <3> DEFINE c == [call[q] EXCEPT !.pc = IF call[q].result = "error"
                                             THEN "release" ELSE "idle"]
    <3>1. call'[q] = c
      BY <1>0, <1>1, <2>2 DEF PutBack
    <3>2. /\ c.kind = call[q].kind /\ c.segs = call[q].segs
          /\ c.result = call[q].result
          /\ c.pc = IF call[q].result = "error" THEN "release" ELSE "idle"
      BY <1>1 DEF Call
    <3> HIDE DEF c
    <3> QED BY <2>2, <3>1, <3>2
  <2> QED BY <2>1, <2>2
<1>5. /\ call[q].result \in {"none", "error"}
      /\ call[q].result = "error" => call[q].kind = "compress"
  BY <1>1, <1>2, Zenon DEF Kept
<1>6. Kept(c, b)
  BY <1>3, <1>4, <1>5 DEF Kept, ActivePCs
<1>7. CASE call[q].result = "error"
  <2>1. InCompress(call[q]) /\ InCompress(c)
    BY <1>2, <1>4, <1>5, <1>7 DEF InCompress
  <2> QED BY <1>2, <1>4, <1>6, <2>1, Hidden
<1>8. CASE call[q].result = "none"
  <2> PICK h : h = HealthIn(pending[q], queue[q], operations[q])
    OBVIOUS
  <2> PICK v, w : v = ViewAt(q) /\ w = ViewAt(q)'
    OBVIOUS
  <2>1. /\ v.phase = "recycling" /\ v.outcome = "none" /\ v.output = {}
        /\ v.size = 0 /\ v.result = <<>> /\ v.health = h
        /\ v = View(call[q], buffers[q], pending[q], queue[q], operations[q])
    <3>1. call[q].result # "error"
      BY <1>8
    <3> QED BY <1>2, <3>1, RecyclingView DEF ViewAt
  <2>2. w = View(c, b, pending[q], queue[q], operations[q])
    BY <1>2, <1>4, Zenon DEF ViewAt
  <2>3. CASE n > 1
    <3>1. c.pc = "putback" /\ c.result # "error"
      BY <1>4, <1>8, <2>3
    <3>2. call[q].result # "error"
      BY <1>8
    <3>3. w = v
      <4>1. View(call[q], buffers[q], pending[q], queue[q], operations[q]) =
              View(c, b, pending[q], queue[q], operations[q])
        BY <1>2, <3>1, <3>2, RecyclingSame
      <4> QED BY <2>1, <2>2, <4>1, Zenon
    <3> QED BY <1>2, <1>4, <1>6, <3>3, Served DEF KeptAt
  <2>4. CASE ~(n > 1)
    <3>1. c.pc = "idle" /\ c.result = "none" /\ b = <<>>
      BY <1>3, <1>4, <1>8, <2>4
    <3>2. /\ w.phase = "idle" /\ w.outcome = "none" /\ w.output = {}
          /\ w.size = 0 /\ w.result = <<>> /\ w.health = h
      BY <2>2, <3>1, NoPieces, IdleView
    <3>3. Serves(v, w)
      BY <2>1, <3>2 DEF Serves, ViewRecycleEnds
    <3> QED BY <1>2, <1>4, <1>6, <3>3, Served DEF KeptAt
  <2> QED BY <2>3, <2>4
<1> QED BY <1>5, <1>7, <1>8

\* Buffers that are in order, whole, closed and cover the request are the result
\* that the service promises.
LEMMA ResultIsCompression ==
  ASSUME NEW segs \in Nat, segs # 0, NEW b \in Seq(Buffer), Ordered(b), Closed(b),
         Whole(b, segs), Covered(Firsts(b), NextMade(b), segs), NextMade(b) > segs
  PROVE  Service!IsCompression(PiecesOf(b), segs)
<1> DEFINE n == Len(b)
<1>1. MaxSglSegs \in Nat /\ MaxSglSegs > 0 /\ n \in Nat /\ DOMAIN b = 1..n
  BY DeviceAssumption
<1>2. b # <<>>
  <2>1. b = <<>> => NextMade(b) = 1
    BY DEF NextMade
  <2> QED BY <2>1
<1>3. n # 0 /\ 1 \in 1..n /\ n \in 1..n
  BY <1>1, <1>2
<1> HIDE DEF n
<1> PICK r : r = PiecesOf(b)
  OBVIOUS
<1>4. /\ DOMAIN r = 1..n /\ Len(r) = n /\ r # <<>>
      /\ \A i \in 1..n : /\ r[i].first = b[i].first /\ r[i].segs = b[i].segs
                        /\ r[i].part = b[i].part /\ r[i].parts = b[i].parts
  <2>1. r = [i \in 1..n |-> Piece(b[i])]
    BY <1>1 DEF PiecesOf
  <2>2. \A i \in 1..n : r[i] = Piece(b[i])
    BY <2>1
  <2>3. ASSUME NEW i \in 1..n
        PROVE  /\ r[i].first = b[i].first /\ r[i].segs = b[i].segs
               /\ r[i].part = b[i].part /\ r[i].parts = b[i].parts
    <3>1. PICK x : x = b[i]
      OBVIOUS
    <3>2. /\ Piece(x).first = x.first /\ Piece(x).segs = x.segs
          /\ Piece(x).part = x.part /\ Piece(x).parts = x.parts
      BY DEF Piece
    <3> QED BY <2>2, <3>1, <3>2, Zenon
  <2>4. DOMAIN r = 1..n /\ Len(r) = n /\ r # <<>>
    BY <1>1, <1>3, <2>1
  <2> QED BY <2>3, <2>4
<1>5. ASSUME NEW i \in 1..n
      PROVE  /\ b[i].first \in Nat /\ b[i].segs \in Nat
             /\ b[i].part \in Nat /\ b[i].parts \in Nat
             /\ b[i].first <= segs /\ b[i].part <= b[i].parts
             /\ b[i].segs = Least(MaxSglSegs, (segs - b[i].first) + 1)
             /\ i # 1 /\ b[i].part = 1 => b[i - 1].part = b[i - 1].parts
  <2>1. b[i] \in Buffer
    BY <1>1
  <2>2. b[i].first \in Firsts(b)
    BY <1>1 DEF Firsts
  <2>3. b[i].first <= segs
    BY <2>2 DEF Covered, Starts
  <2>4. /\ b[i].segs = Least(MaxSglSegs, (segs - b[i].first) + 1)
        /\ i # 1 /\ b[i].part = 1 => b[i - 1].part = b[i - 1].parts
    BY <1>1 DEF Whole
  <2>5. b[i].part <= b[i].parts
    BY <1>1 DEF Ordered
  <2> QED BY <2>1, <2>3, <2>4, <2>5 DEF Buffer
<1>6. r[1].first = 1 /\ r[1].part = 1
  BY <1>1, <1>3, <1>4 DEF Ordered
<1>7. ASSUME NEW i \in 1..n
      PROVE  /\ r[i].first <= segs
             /\ r[i].segs = IF segs - r[i].first < MaxSglSegs THEN segs - r[i].first + 1
                            ELSE MaxSglSegs
  <2>1. /\ b[i].first \in Nat /\ b[i].first <= segs
        /\ b[i].segs = Least(MaxSglSegs, (segs - b[i].first) + 1)
        /\ r[i].first = b[i].first /\ r[i].segs = b[i].segs
    BY <1>4, <1>5
  <2>2. \A x \in Nat : x <= segs =>
          Least(MaxSglSegs, (segs - x) + 1) =
            IF segs - x < MaxSglSegs THEN segs - x + 1 ELSE MaxSglSegs
    BY <1>1 DEF Least
  <2> QED BY <2>1, <2>2
<1>8. ASSUME NEW i \in 1..(n - 1)
      PROVE  IF r[i].part < r[i].parts
               THEN /\ r[i + 1].first = r[i].first
                    /\ r[i + 1].part = r[i].part + 1
                    /\ r[i + 1].parts = r[i].parts
               ELSE r[i + 1].first = r[i].first + MaxSglSegs /\ r[i + 1].part = 1
  <2>1. PICK k : k = i + 1
    OBVIOUS
  <2>2. k \in 1..n /\ i \in 1..n /\ k # 1 /\ k - 1 = i
    BY <1>1, <2>1
  <2>3. \/ b[k].first = b[i].first /\ b[k].part = b[i].part + 1
        \/ b[k].first = b[i].first + MaxSglSegs /\ b[k].part = 1
    BY <1>1, <2>2 DEF Ordered
  <2>4. b[k].first = b[i].first => b[k].parts = b[i].parts
    BY <1>1, <2>2 DEF Ordered
  <2>5. b[k].part = 1 => b[i].part = b[i].parts
    BY <1>5, <2>2
  <2>6. /\ b[i].part \in Nat /\ b[i].parts \in Nat /\ b[k].part \in Nat
        /\ b[k].parts \in Nat /\ b[i].part <= b[i].parts /\ b[k].part <= b[k].parts
    BY <1>5, <2>2
  <2>7. IF b[i].part < b[i].parts
          THEN /\ b[k].first = b[i].first
               /\ b[k].part = b[i].part + 1
               /\ b[k].parts = b[i].parts
          ELSE b[k].first = b[i].first + MaxSglSegs /\ b[k].part = 1
    BY <2>3, <2>4, <2>5, <2>6
  <2> QED BY <1>4, <2>1, <2>2, <2>7
<1>9. r[n].part = r[n].parts /\ r[n].first + MaxSglSegs > segs
  BY <1>2, <1>3, <1>4 DEF Closed, NextMade, n
<1> QED BY <1>4, <1>6, <1>7, <1>8, <1>9 DEF Service!IsCompression

\* What was decoded in its place, from all the buffers, is all of them.
LEMMA ResultIsWritten ==
  ASSUME NEW b \in Seq(Buffer), NEW d \in Seq(DecodedStream), Origins(d, b),
         NEW next, Decoded(d, next), NextDecoded(d) > Len(b), NextDecoded(d) \in Nat
  PROVE  WrittenIn(d) = {<<PiecesOf(b)[i].first, PiecesOf(b)[i].first>>
                           : i \in DOMAIN PiecesOf(b)}
<1>1. \A i \in DOMAIN d : d[i].slot = d[i].first
  BY DEF Decoded
<1>2. WrittenIn(d) = {<<f, f>> : f \in Firsts(d)}
  BY <1>1 DEF WrittenIn, Elements, Firsts
<1>3. {k \in DOMAIN b : k < NextDecoded(d)} = DOMAIN b
  <2>1. DOMAIN b = 1..Len(b) /\ Len(b) \in Nat
    OBVIOUS
  <2>2. \A k \in 1..Len(b) : k < NextDecoded(d)
    BY <2>1
  <2> QED BY <2>1, <2>2
<1>4. Firsts(d) = {b[i].first : i \in DOMAIN b}
  BY <1>3 DEF Origins
<1>5. /\ DOMAIN PiecesOf(b) = DOMAIN b
      /\ \A i \in DOMAIN b : PiecesOf(b)[i].first = b[i].first
  <2>1. /\ DOMAIN PiecesOf(b) = DOMAIN b
        /\ \A i \in DOMAIN b : PiecesOf(b)[i] = Piece(b[i])
    BY DEF PiecesOf
  <2>2. ASSUME NEW i \in DOMAIN b
        PROVE  PiecesOf(b)[i].first = b[i].first
    <3>1. PICK x : x = b[i]
      OBVIOUS
    <3>2. Piece(x).first = x.first
      BY DEF Piece
    <3> QED BY <2>1, <3>1, <3>2
  <2> QED BY <2>1, <2>2
<1> PICK r : r = PiecesOf(b)
  OBVIOUS
<1>6. DOMAIN r = DOMAIN b /\ \A i \in DOMAIN b : r[i].first = b[i].first
  BY <1>5
<1>7. {<<f, f>> : f \in Firsts(d)} = {<<b[i].first, b[i].first>> : i \in DOMAIN b}
  BY <1>4
<1>8. {<<r[i].first, r[i].first>> : i \in DOMAIN r} =
        {<<b[i].first, b[i].first>> : i \in DOMAIN b}
  BY <1>6
<1> QED BY <1>2, <1>7, <1>8

\* A call ends well: everything it was asked for is there.
LEMMA ReturnServed ==
  ASSUME SInv, RInv', NEW q \in QueuePairs, Return(q)
  PROVE  SInv' /\ [Service!Next]_(Service!vars)
<1>0. PICK b, data : b = buffers[q] /\ data = op[q]
  OBVIOUS
<1>1. /\ call[q] \in Call /\ call \in [QueuePairs -> Call] /\ b \in Seq(Buffer)
      /\ Result(call[q], pending[q], data, b) /\ Kept(call[q], b)
      /\ QMatches(call[q], pending[q], queue[q], operations[q])
      /\ queue[q] \in Seq(Operations) /\ operations[q] \in Seq(Operations)
  BY <1>0, SOne
<1>2. /\ Moves(q) /\ call[q].pc = "loop" /\ buffers'[q] = b
      /\ pending[q] = <<>> /\ pending'[q] = <<>> /\ queue'[q] = queue[q]
      /\ operations'[q] = operations[q] /\ ~CanAssemble(q) /\ operations[q] = <<>>
  BY <1>0 DEF Moves, Work, Return, At, hwVars
<1>3. call[q].index \in Nat /\ call[q].segs \in Nat /\ call[q].index >= call[q].segs
  BY <1>1, <1>2, DeviceAssumption DEF Call, CanAssemble
<1>4. /\ Ordered(b) /\ Closed(b) /\ call[q].kind \in {"compress", "decompress"}
      /\ call[q].kind = "compress" =>
           Making(call[q], <<>>, data, b) /\ call[q].segs # 0 /\ Whole(b, call[q].segs)
      /\ call[q].kind = "decompress" =>
           Decoding(call[q], <<>>, data, b) /\ Origins(call[q].decoded, b)
  <2>1. call[q].pc \in ActivePCs /\ call[q].pc # "putback"
    BY <1>2 DEF ActivePCs
  <2> QED BY <1>1, <1>2, <2>1, Zenon DEF Result, Kept
<1>5. ASSUME NEW next, Chain(next, <<>>, data, call[q].index, call[q].segs)
      PROVE  next \in Nat /\ next > call[q].segs
  <2>1. next \in Nat \ {0} /\ call[q].index = Least(call[q].segs, next - 1)
    BY <1>5 DEF Chain
  <2> QED BY <1>3, <2>1 DEF Least
<1>6. PICK c : /\ c = call'[q] /\ c.pc = "idle" /\ c.result = "ok"
               /\ c.kind = call[q].kind /\ c.decoded = call[q].decoded
  <2> DEFINE c == [call[q] EXCEPT !.pc = "idle", !.result = "ok"]
  <2>1. call'[q] = c
    BY <1>1 DEF Return
  <2>2. /\ c.pc = "idle" /\ c.result = "ok" /\ c.kind = call[q].kind
        /\ c.decoded = call[q].decoded
    BY <1>1 DEF Call
  <2> HIDE DEF c
  <2> QED BY <2>1, <2>2
<1>7. KeptAt(q)'
  <2>1. Kept(c, b)
    BY <1>6 DEF Kept, ActivePCs
  <2> QED BY <1>2, <1>6, <2>1, Zenon DEF KeptAt
<1>8. HealthIn(<<>>, queue[q], operations[q]) = "good"
  <2>1. <<>> = call[q].burst \o queue[q] \o operations[q] \o call[q].batch
    <3>1. call[q].pc \in ActivePCs
      BY <1>2 DEF ActivePCs
    <3>2. pending[q] = call[q].burst \o queue[q] \o operations[q] \o call[q].batch
      BY <1>1, <3>1 DEF QMatches
    <3> QED BY <1>2, <3>2
  <2>2. call[q].burst \in Seq(Operations) /\ call[q].batch \in Seq(Operations)
    BY <1>1 DEF Call
  <2>3. \A x, y, z, u \in Seq(Operations) :
          x \o y \o z \o u = <<>> => y = <<>> /\ z = <<>>
    BY EmptyConcat
  <2>4. queue[q] = <<>>
    BY <1>1, <2>1, <2>2, <2>3, Zenon
  <2> QED BY <1>2, <2>4 DEF HealthIn
<1>9. PICK v, w : v = ViewAt(q) /\ w = ViewAt(q)'
  OBVIOUS
<1>10. /\ w.phase = "idle" /\ w.outcome = "ok" /\ w.size = 0 /\ w.result = PiecesOf(b)
       /\ w.output = IF c.kind = "decompress" THEN WrittenIn(c.decoded) ELSE {}
       /\ w.health = "good"
  <2>1. w = View(c, b, <<>>, queue[q], operations[q])
    BY <1>2, <1>6, <1>9, Zenon DEF ViewAt
  <2>2. c.pc = "idle" /\ c.result = "ok"
    BY <1>6
  <2>3. View(c, b, <<>>, queue[q], operations[q]) =
          [phase |-> "idle", size |-> 0, outcome |-> c.result, result |-> PiecesOf(b),
           output |-> IF c.kind = "decompress" /\ c.result = "ok"
                        THEN WrittenIn(c.decoded) ELSE {},
           health |-> HealthIn(<<>>, queue[q], operations[q])]
    BY <2>2, IdleView, Zenon
  <2> QED BY <1>8, <2>1, <2>2, <2>3
<1>11. CASE call[q].kind = "compress"
  <2>1. Chain(NextMade(b), <<>>, data, call[q].index, call[q].segs)
    BY <1>4, <1>11 DEF Making
  <2>2. NextMade(b) > call[q].segs /\ Covered(Firsts(b), NextMade(b), call[q].segs)
    BY <1>4, <1>5, <1>11, <2>1 DEF Making
  <2>3. Service!IsCompression(PiecesOf(b), call[q].segs)
    BY <1>1, <1>3, <1>4, <1>11, <2>2, ResultIsCompression
  <2>4. /\ v.phase = "compressing" /\ v.size = call[q].segs /\ v.output = {}
        /\ v.health = "good"
    BY <1>2, <1>9, <1>11, CompressView DEF ViewAt, InCompress, ActivePCs
  <2>5. c.kind # "decompress"
    BY <1>6, <1>11
  <2>6. Serves(v, w)
    BY <1>10, <2>3, <2>4, <2>5 DEF Serves, ViewCompressSucceeds
  <2> QED BY <1>2, <1>7, <1>9, <2>6, Served
<1>12. CASE call[q].kind = "decompress"
  <2> DEFINE d == call[q].decoded
  <2>1. /\ call[q].segs = Len(b) /\ Decoded(d, NextDecoded(d)) /\ Origins(d, b)
        /\ Chain(NextDecoded(d), <<>>, data, call[q].index, call[q].segs)
    BY <1>4, <1>12 DEF Decoding
  <2>2. NextDecoded(d) \in Nat /\ NextDecoded(d) > Len(b)
    BY <1>5, <2>1
  <2>3. d \in Seq(DecodedStream)
    BY <1>1 DEF Call, DecodedStream
  <2> HIDE DEF d
  <2>4. WrittenIn(d) = {<<PiecesOf(b)[i].first, PiecesOf(b)[i].first>>
                          : i \in DOMAIN PiecesOf(b)}
    BY <1>1, <2>1, <2>2, <2>3, ResultIsWritten
  <2>5. /\ v.phase = "decompressing" /\ v.size = 0 /\ v.result = PiecesOf(b)
        /\ v.health = "good"
    BY <1>0, <1>2, <1>9, <1>12, DecompressView DEF ViewAt, InDecompress, ActivePCs
  <2>6. w.output = WrittenIn(d)
    BY <1>6, <1>10, <1>12 DEF d
  <2>7. ViewDecompressSucceeds(v, w)
    BY <1>10, <2>4, <2>5, <2>6, Zenon DEF ViewDecompressSucceeds
  <2> QED BY <1>2, <1>7, <1>9, <2>7, Served DEF Serves
<1> QED BY <1>4, <1>11, <1>12

\* A whole stream joins the buffers.
LEMMA WholeAppend ==
  ASSUME NEW segs \in Nat, NEW b \in Seq(Buffer), Closed(b), Whole(b, segs),
         NEW made \in Seq(Buffer), NEW first, NewStream(made, first),
         \A j \in DOMAIN made :
           made[j].segs = Least(MaxSglSegs, (segs - made[j].first) + 1)
  PROVE  Whole(b \o made, segs)
<1> DEFINE all == b \o made
           n == Len(b)
           k == Len(made)
<1>1. /\ n \in Nat /\ k \in Nat /\ k # 0 /\ DOMAIN b = 1..n /\ DOMAIN made = 1..k
      /\ DOMAIN all = 1..(n + k)
      /\ \A i \in 1..n : all[i] = b[i]
      /\ \A j \in 1..k : all[n + j] = made[j]
      /\ n # 0 => b # <<>>
  <2>1. made # <<>>
    BY DEF NewStream
  <2>2. n \in Nat /\ k \in Nat /\ k # 0 /\ DOMAIN b = 1..n /\ DOMAIN made = 1..k
    BY <2>1
  <2>3. DOMAIN all = 1..(n + k)
    OBVIOUS
  <2>4. /\ \A i \in 1..n : all[i] = b[i]
        /\ \A j \in 1..k : all[n + j] = made[j]
    BY <2>2
  <2> QED BY <2>2, <2>3, <2>4
<1>2. n # 0 => b[n].part = b[n].parts
  BY <1>1 DEF Closed
<1> HIDE DEF all, n, k
<1>3. ASSUME NEW i \in 1..(n + k)
      PROVE  /\ all[i].segs = Least(MaxSglSegs, (segs - all[i].first) + 1)
             /\ i # 1 /\ all[i].part = 1 => all[i - 1].part = all[i - 1].parts
  <2>1. CASE i \in 1..n
    <3>1. all[i] = b[i]
      BY <1>1, <2>1
    <3>2. i # 1 => all[i - 1] = b[i - 1]
      <4>1. i # 1 => i - 1 \in 1..n
        BY <1>1, <2>1
      <4> QED BY <1>1, <4>1
    <3>3. /\ b[i].segs = Least(MaxSglSegs, (segs - b[i].first) + 1)
          /\ i # 1 /\ b[i].part = 1 => b[i - 1].part = b[i - 1].parts
      BY <1>1, <2>1 DEF Whole
    <3> QED BY <3>1, <3>2, <3>3
  <2>2. CASE ~(i \in 1..n)
    <3>1. PICK j \in 1..k : i = n + j
      <4>1. i - n \in 1..k /\ i = n + (i - n)
        BY <1>1, <2>2
      <4> QED BY <4>1
    <3>2. all[i] = made[j] /\ made[j].part = j
      BY <1>1, <3>1 DEF NewStream
    <3>3. all[i].segs = Least(MaxSglSegs, (segs - all[i].first) + 1)
      BY <1>1, <3>2
    <3>4. ASSUME i # 1, all[i].part = 1
          PROVE  all[i - 1].part = all[i - 1].parts
      <4>1. j = 1 /\ n # 0 /\ i - 1 = n /\ n \in 1..n
        BY <1>1, <3>1, <3>2, <3>4
      <4>2. all[i - 1] = b[n]
        BY <1>1, <4>1
      <4> QED BY <1>2, <4>1, <4>2
    <3> QED BY <3>3, <3>4
  <2> QED BY <2>1, <2>2
<1> QED BY <1>1, <1>3 DEF Whole, all

\* The stream that starts at "next" is decoded: all of its buffers are dealt with.
LEMMA OriginsNext ==
  ASSUME NEW b \in Seq(Buffer), NEW next \in Nat \ {0}, next <= Len(b),
         NEW len, len = Least(MaxSglSegs, (Len(b) - next) + 1),
         NEW src, src = SubSeq(b, next, (next + len) - 1), WholeStream(src),
         src[1].first = next,
         NEW d, Origins(d, b), NextDecoded(d) = next,
         NEW d2, Firsts(d2) = Firsts(d) \cup {next}, NextDecoded(d2) = next + MaxSglSegs
  PROVE  Origins(d2, b)
<1> DEFINE n == Len(b)
           S == MaxSglSegs
<1>1. n \in Nat /\ DOMAIN b = 1..n /\ S \in Nat /\ S > 0
  BY DeviceAssumption
<1>2. len = Least(S, (n - next) + 1) /\ next <= n
  OBVIOUS
<1>3. Firsts(d) = {b[i].first : i \in {k \in DOMAIN b : k < next}}
  BY DEF Origins
<1> HIDE DEF n, S
<1>4. len \in Nat /\ len # 0 /\ (next + len) - 1 <= n /\ len <= S
      /\ (len < S => next + len = n + 1)
  BY <1>1, <1>2 DEF Least
<1>5. /\ DOMAIN src = 1..len
      /\ \A j \in 1..len : src[j] = b[(next + j) - 1]
  BY <1>1, <1>4 DEF n
<1>6. \A j \in 1..len : src[j].first = next
  BY <1>5 DEF WholeStream
<1>7. ASSUME NEW i \in 1..n, i >= next, i < next + S
      PROVE  b[i].first = next
  <2>1. PICK j \in Nat : j = (i - next) + 1
    BY <1>7
  <2>2. j \in 1..len /\ (next + j) - 1 = i
    BY <1>1, <1>4, <1>7, <2>1
  <2> QED BY <1>5, <1>6, <2>2
<1>8. next \in 1..n /\ next < next + S
  BY <1>1, <1>2
<1>9. \A k \in 1..n : k < next + S <=> k < next \/ (k >= next /\ k < next + S)
  BY <1>1
<1>10. {b[i].first : i \in {k \in 1..n : k < next + S}} =
         {b[i].first : i \in {k \in 1..n : k < next}} \cup {next}
  BY <1>7, <1>8, <1>9
<1> QED BY <1>1, <1>3, <1>10 DEF Origins, S

\* The buffers of the operation at the front of a compression are whole.
LEMMA MakeWhole ==
  ASSUME NEW q \in QueuePairs, NEW c \in Call, NEW pend \in Seq(Operations), pend # <<>>,
         NEW data \in [Operations -> Operation], data = op[q],
         NEW b \in Seq(Buffer), Closed(b), Whole(b, c.segs), Making(c, pend, data, b),
         NEW n \in 1..Len(data[Head(pend)].dst)
  PROVE  Whole(b \o Produced(q, Head(pend), n), c.segs)
<1>1. PICK o \in Operations : o = Head(pend) /\ o = pend[1] /\ 1 \in DOMAIN pend
  OBVIOUS
<1>2. data[o] \in Operation /\ c.segs \in Nat
  BY DEF Call
<1>3. data[o].dst \in Seq(Memzones)
  BY <1>2 DEF Operation
<1>4. n \in Nat /\ n # 0 /\ n \in 1..Len(data[o].dst)
  BY <1>1, <1>3
<1>5. data[o].len = Least(MaxSglSegs, (c.segs - data[o].first) + 1)
  BY <1>1 DEF Making, Chain
<1>6. PICK made : made = Produced(q, o, n)
  OBVIOUS
<1>7. made \in Seq(Buffer)
  <2>1. op[q][o] \in Operation /\ n \in 1..Len(op[q][o].dst)
    BY <1>2, <1>4
  <2> QED BY <1>6, <2>1, ProducedType
<1>8. DOMAIN made = 1..n /\ Len(made) = n /\ made # <<>>
  BY <1>4, <1>6 DEF Produced
<1>9. \A j \in 1..n : /\ made[j].first = data[o].first /\ made[j].segs = data[o].len
                     /\ made[j].part = j /\ made[j].parts = n
  BY <1>6 DEF Produced
<1>10. NewStream(made, data[o].first)
  BY <1>8, <1>9 DEF NewStream
<1>11. \A j \in DOMAIN made :
         made[j].segs = Least(MaxSglSegs, (c.segs - made[j].first) + 1)
  BY <1>5, <1>8, <1>9
<1>12. Whole(b \o made, c.segs)
  BY <1>2, <1>7, <1>10, <1>11, WholeAppend
<1> QED BY <1>1, <1>6, <1>12

\* The buffers that an operation of a decompression takes are there.
LEMMA LeastRest ==
  ASSUME NEW n \in Nat, NEW next \in Nat \ {0}, next <= n,
         NEW len, len = Least(MaxSglSegs, (n - next) + 1)
  PROVE  /\ len \in Nat \ {0} /\ (next + len) - 1 <= n
         /\ next + (len - 1) = (next + len) - 1
<1>1. MaxSglSegs \in Nat \ {0}
  BY DeviceAssumption
<1>2. PICK k \in Nat \ {0} : k = (n - next) + 1 /\ (next + k) - 1 = n
  OBVIOUS
<1>3. len \in Nat \ {0} /\ len <= k
  BY <1>1, <1>2 DEF Least
<1> QED BY <1>2, <1>3

\* The operation at the front of a decompression deals with the next stream.
LEMMA DecodeOrigins ==
  ASSUME NEW q, NEW c \in Call, NEW pend \in Seq(Operations), pend # <<>>,
         NEW data \in [Operations -> Operation], data = op[q],
         NEW b \in Seq(Buffer), b = buffers[q], Decoding(c, pend, data, b),
         Origins(c.decoded, b), Decompressible(q, Head(pend)),
         NEW d2, d2 = Append(c.decoded, [slot  |-> data[Head(pend)].first,
                                         first |-> Source(q, Head(pend))[1].first])
  PROVE  Origins(d2, b)
<1> DEFINE d == c.decoded
           next == NextDecoded(d)
           S == MaxSglSegs
           n == Len(b)
<1>0. PICK o, len, src : o = Head(pend) /\ len = data[o].len /\ src = Source(q, o)
  OBVIOUS
<1>1. /\ c.segs = n /\ n \in Nat /\ S \in Nat /\ S > 0 /\ d \in Seq(DecodedStream)
      /\ Chain(next, pend, data, c.index, c.segs) /\ Decoded(d, next)
      /\ next <= n => b[next].first = next
  BY DeviceAssumption DEF Decoding, Call, DecodedStream
<1>2. 1 \in DOMAIN pend /\ o = pend[1] /\ o \in Operations
  BY <1>0
<1> HIDE DEF d, next, n, S
<1>3. /\ next \in Nat \ {0} /\ data[o].first = next /\ next <= n
      /\ len = Least(S, (n - next) + 1)
  BY <1>0, <1>1, <1>2 DEF Chain, S
<1>4. len \in Nat \ {0} /\ (next + len) - 1 <= n /\ next + (len - 1) = (next + len) - 1
  <2>1. n \in Nat /\ next \in Nat \ {0} /\ next <= n
        /\ len = Least(MaxSglSegs, (n - next) + 1)
    BY <1>1, <1>3 DEF S
  <2> QED BY <2>1, LeastRest, Zenon
<1>5. src = SubSeq(b, next, (next + len) - 1)
  <2>1. Source(q, o) = SubSeq(buffers[q], op[q][o].first,
                              op[q][o].first + (op[q][o].len - 1))
    BY DEF Source
  <2>2. op[q][o].first = next /\ op[q][o].len = len
    BY <1>0, <1>3
  <2>3. next + (len - 1) = (next + len) - 1
    BY <1>4
  <2> QED BY <1>0, <2>1, <2>2, <2>3
<1>6. WholeStream(src)
  BY <1>0 DEF Decompressible, WholeStream
<1>7. src[1].first = next
  <2>1. next \in 1..Len(b) /\ len \in Nat \ {0}
    BY <1>1, <1>3, <1>4 DEF n
  <2>2. SubSeq(b, next, (next + len) - 1)[1] = b[next]
    BY <2>1, FirstOfPart
  <2> QED BY <1>1, <1>3, <1>5, <2>2
<1>8. PICK x : x = [slot |-> next, first |-> next]
  OBVIOUS
<1>9. d2 = Append(d, x)
  BY <1>0, <1>3, <1>7, <1>8 DEF d
<1>10. NextDecoded(d2) = next + S /\ Firsts(d2) = Firsts(d) \cup {next}
  <2>1. next = NextDecoded(d) /\ Decoded(d, next) /\ next \in Nat \ {0}
        /\ d \in Seq(DecodedStream)
    BY <1>1, <1>3 DEF next
  <2>2. /\ NextDecoded(Append(d, x)) = next + S
        /\ Firsts(Append(d, x)) = Firsts(d) \cup {next}
    BY <1>8, <2>1, DecodedAppend, Zenon DEF S
  <2> QED BY <1>9, <2>2
<1>11. Origins(d, b) /\ NextDecoded(d) = next
  BY DEF d, next
<1>12. next <= Len(b) /\ len = Least(MaxSglSegs, (Len(b) - next) + 1)
  BY <1>3 DEF n, S
<1> QED BY <1>3, <1>5, <1>6, <1>7, <1>10, <1>11, <1>12, OriginsNext, Zenon DEF S

\* An operation has been dealt with inside a call.
LEMMA RecycleOpServed ==
  ASSUME SInv, RInv', NEW q \in QueuePairs, RecycleOp(q)
  PROVE  SInv' /\ [Service!Next]_(Service!vars)
<1>1. PICK pend, data, b : pend = pending[q] /\ data = op[q] /\ b = buffers[q]
  OBVIOUS
<1>2. /\ RInv /\ IInv /\ call[q] \in Call /\ call \in [QueuePairs -> Call]
      /\ buffers \in [QueuePairs -> Seq(Buffer)] /\ b \in Seq(Buffer)
      /\ pend \in Seq(Operations) /\ Kept(call[q], b)
  BY <1>1, SOne
<1>3. /\ Moves(q) /\ call[q].pc = "burst" /\ data \in [Operations -> Operation]
      /\ Result(call[q], pend, data, b)
  BY <1>1, <1>2, ROne DEF Moves, Work, RecycleOp, At
<1>4. /\ Closed(b) /\ call[q].kind \in {"compress", "decompress"}
      /\ call[q].kind = "compress" =>
           Making(call[q], pend, data, b) /\ call[q].segs # 0 /\ Whole(b, call[q].segs)
      /\ call[q].kind = "decompress" =>
           Decoding(call[q], pend, data, b) /\ Origins(call[q].decoded, b)
  <2>1. call[q].pc \in ActivePCs /\ call[q].pc # "putback"
    BY <1>3 DEF ActivePCs
  <2> QED BY <1>2, <1>3, <2>1, Zenon DEF Result, Kept
<1>5. pend # <<>> /\ Head(pend) = Head(call[q].burst)
  BY <1>1, <1>2, <1>3, FrontOfBurst
<1>6. PICK o \in Operations : o = Head(pend) /\ o = Head(call[q].burst)
  BY <1>2, <1>5
<1>7. PICK c : /\ c = call'[q] /\ c.pc \in {"loop", "burst"}
               /\ c.kind = call[q].kind /\ c.segs = call[q].segs
               /\ call[q].kind = "decompress" =>
                    c.decoded = Append(call[q].decoded,
                                       [slot  |-> data[o].first,
                                        first |-> Source(q, o)[1].first])
  <2> DEFINE rest == Tail(call[q].burst)
             decoded == IF call[q].kind # "decompress" THEN call[q].decoded ELSE
                Append(call[q].decoded, [slot |-> op[q][Head(call[q].burst)].first,
                                         first |-> Source(q, Head(call[q].burst))[1].first])
             c == [call[q] EXCEPT !.pc = IF rest = <<>> THEN "loop" ELSE "burst",
                                  !.burst = rest, !.decoded = decoded]
  <2>1. call'[q] = c
    BY <1>2 DEF RecycleOp
  <2>2. call[q].kind = "decompress" =>
          decoded = Append(call[q].decoded, [slot  |-> data[o].first,
                                             first |-> Source(q, o)[1].first])
    BY <1>1, <1>6
  <2> HIDE DEF rest, decoded
  <2>3. /\ c.pc \in {"loop", "burst"} /\ c.kind = call[q].kind
        /\ c.segs = call[q].segs /\ c.decoded = decoded
    BY <1>2 DEF Call
  <2> HIDE DEF c
  <2> QED BY <2>1, <2>2, <2>3
<1>8. CASE call[q].kind = "decompress"
  <2>1. buffers'[q] = b /\ Decompressible(q, o)
    BY <1>1, <1>6, <1>8 DEF RecycleOp
  <2>2. Decoding(call[q], pend, data, b) /\ Origins(call[q].decoded, b)
    BY <1>4, <1>8
  <2>3. Decompressible(q, Head(pend))
    BY <1>6, <2>1
  <2>4. c.decoded = Append(call[q].decoded,
                           [slot  |-> data[Head(pend)].first,
                            first |-> Source(q, Head(pend))[1].first])
    BY <1>6, <1>7, <1>8
  <2>5. Origins(c.decoded, b)
    BY <1>1, <1>2, <1>3, <1>5, <2>2, <2>3, <2>4, DecodeOrigins, Zenon
  <2>6. Kept(c, b)
    BY <1>7, <1>8, <2>5 DEF Kept, ActivePCs
  <2>7. InDecompress(call[q]) /\ InDecompress(c)
    BY <1>3, <1>7, <1>8 DEF InDecompress, ActivePCs
  <2> QED BY <1>1, <1>3, <1>7, <2>1, <2>6, <2>7, Hidden
<1>9. CASE call[q].kind = "compress"
  <2>1. PICK n \in 1..Len(data[o].dst) : buffers'[q] = b \o Produced(q, o, n)
    BY <1>1, <1>2, <1>6, <1>9 DEF RecycleOp
  <2>2. PICK b2 : b2 = b \o Produced(q, o, n)
    OBVIOUS
  <2>3. Making(call[q], pend, data, b) /\ Whole(b, call[q].segs) /\ call[q].segs # 0
    BY <1>4, <1>9
  <2>4. n \in 1..Len(data[Head(pend)].dst)
    BY <1>6
  <2>5. Whole(b \o Produced(q, Head(pend), n), call[q].segs)
    BY <1>1, <1>2, <1>3, <1>4, <1>5, <2>3, <2>4, MakeWhole, Zenon
  <2>6. Whole(b2, c.segs) /\ c.segs # 0
    BY <1>6, <1>7, <2>2, <2>3, <2>5
  <2>7. Kept(c, b2)
    BY <1>7, <1>9, <2>6 DEF Kept, ActivePCs
  <2>8. InCompress(call[q]) /\ InCompress(c)
    BY <1>3, <1>7, <1>9 DEF InCompress, ActivePCs
  <2>9. b2 = buffers'[q]
    BY <2>1, <2>2
  <2> QED BY <1>3, <1>7, <2>7, <2>8, <2>9, Hidden
<1> QED BY <1>4, <1>8, <1>9

-----------------------------------------------------------------------------
(* CompressDevice implements CompressionService *)

\* The initial states are those of the service.
LEMMA InitS == Init => SInv /\ Service!Init
<1> SUFFICES ASSUME Init PROVE SInv /\ Service!Init
  OBVIOUS
<1>1. RInv
  BY InitR
<1>2. \A q \in QueuePairs :
        /\ call[q] = NoCall /\ buffers[q] = <<>> /\ pending[q] = <<>>
        /\ queue[q] = <<>> /\ operations[q] = <<>>
  BY DEF Init
<1>3. NoCall.pc = "idle" /\ NoCall.kind = "none" /\ NoCall.result = "none"
  BY DEF NoCall
<1>4. ASSUME NEW q \in QueuePairs
      PROVE  KeptAt(q)
  <2>1. Kept(NoCall, <<>>)
    BY <1>3 DEF Kept, ActivePCs
  <2> QED BY <1>2, <2>1, Zenon DEF KeptAt
<1>5. ASSUME NEW q \in QueuePairs
      PROVE  /\ phaseOf[q] = "idle" /\ sizeOf[q] = 0 /\ outcomeOf[q] = "none"
             /\ resultOf[q] = <<>> /\ outputOf[q] = {} /\ healthOf[q] = "good"
  <2>1. ViewAt(q) = View(NoCall, <<>>, <<>>, <<>>, <<>>)
    BY <1>2, Zenon DEF ViewAt
  <2>2. HealthIn(<<>>, <<>>, <<>>) = "good"
    BY DEF HealthIn
  <2>3. /\ ViewAt(q).phase = "idle" /\ ViewAt(q).size = 0 /\ ViewAt(q).outcome = "none"
        /\ ViewAt(q).result = <<>> /\ ViewAt(q).output = {} /\ ViewAt(q).health = "good"
    BY <1>3, <2>1, <2>2, IdleView, NoPieces
  <2> QED BY <2>3, Viewed
<1>6. /\ phaseOf = [q \in QueuePairs |-> "idle"]
      /\ sizeOf = [q \in QueuePairs |-> 0]
      /\ outcomeOf = [q \in QueuePairs |-> "none"]
      /\ resultOf = [q \in QueuePairs |-> <<>>]
      /\ outputOf = [q \in QueuePairs |-> {}]
      /\ healthOf = [q \in QueuePairs |-> "good"]
  <2>1. /\ phaseOf = [q \in QueuePairs |-> phaseOf[q]]
        /\ sizeOf = [q \in QueuePairs |-> sizeOf[q]]
        /\ outcomeOf = [q \in QueuePairs |-> outcomeOf[q]]
        /\ resultOf = [q \in QueuePairs |-> resultOf[q]]
        /\ outputOf = [q \in QueuePairs |-> outputOf[q]]
        /\ healthOf = [q \in QueuePairs |-> healthOf[q]]
    BY DEF phaseOf, sizeOf, outcomeOf, resultOf, outputOf, healthOf
  <2> QED BY <1>5, <2>1
<1>7. Service!Init
  BY <1>6, Zenon DEF Service!Init, phaseOf, sizeOf, outcomeOf, resultOf, outputOf,
                     healthOf
<1>8. SInv
  BY <1>1, <1>4, Zenon DEF SInv
<1> QED BY <1>7, <1>8

\* Every step is one of the service, or does not show.
LEMMA StepS == SInv /\ [Next]_vars => SInv' /\ [Service!Next]_(Service!vars)
<1> SUFFICES ASSUME SInv, [Next]_vars PROVE SInv' /\ [Service!Next]_(Service!vars)
  OBVIOUS
<1>1. RInv'
  <2>1. RInv
    BY Zenon DEF SInv
  <2> QED BY <2>1, StepR
<1>2. CASE UNCHANGED vars
  <2>1. /\ call' = call /\ buffers' = buffers /\ pending' = pending
        /\ queue' = queue /\ operations' = operations
    BY <1>2 DEF vars, hwVars
  <2>2. ASSUME NEW q \in QueuePairs
        PROVE  KeptAt(q)'
    <3>1. KeptAt(q)
      BY Zenon DEF SInv
    <3> QED BY <2>1, <3>1, Zenon DEF KeptAt
  <2>3. SInv'
    BY <1>1, <2>2, Zenon DEF SInv
  <2>4. UNCHANGED Service!vars
    BY <2>1 DEF Service!vars, ServicePhase, Recycling, At, Pieces, Written, Health,
                InCall, Busy, Leftovers
  <2> QED BY <2>3, <2>4
<1>3. ASSUME NEW q \in QueuePairs, Invoke(q) \/ Complete(q) \/ Stall(q)
      PROVE  SInv' /\ [Service!Next]_(Service!vars)
  <2>1. CASE \/ \E n \in 1..MaxSegs : Compress(q, n)
             \/ Decompress(q)
    BY <1>1, <2>1, EnterServed
  <2>2. CASE Cancelled(q) \/ Recycle(q)
    BY <1>1, <2>2, IdleServed
  <2>3. CASE Complete(q) \/ Stall(q)
    BY <1>1, <2>3, HardwareServed
  <2> QED BY <1>3, <2>1, <2>2, <2>3 DEF Invoke
<1>4. ASSUME NEW q \in QueuePairs, Work(q)
      PROVE  SInv' /\ [Service!Next]_(Service!vars)
  <2>1. CASE Assemble(q) \/ TakeDst(q) \/ Enqueue(q) \/ Dequeue(q)
    BY <1>1, <2>1, BurstServed
  <2>2. CASE \/ AssembleFails(q) \/ TakeFails(q) \/ EnqueueFails(q)
             \/ DequeueFails(q) \/ OpFails(q)
    BY <1>1, <2>2, FailServed
  <2>3. CASE RecycleOp(q)  BY <1>1, <2>3, RecycleOpServed
  <2>4. CASE Return(q)     BY <1>1, <2>4, ReturnServed
  <2>5. CASE PutBack(q)    BY <1>1, <2>5, PutBackServed
  <2>6. CASE ReleaseDst(q) \/ ReleaseOp(q) \/ ReleaseEnds(q)
    BY <1>1, <2>6, ReleaseServed
  <2> QED BY <1>4, <2>1, <2>2, <2>3, <2>4, <2>5, <2>6 DEF Work
<1> QED BY <1>2, <1>3, <1>4 DEF Next

\* Whatever the lcores interleave and whatever fails, a queue pair does for its
\* lcore what CompressionService says: a call that succeeds has the whole result,
\* in order and in its place, one that fails leaves only its error, and nothing
\* inside a call or of another lcore shows.
THEOREM Implementation == Spec => ImplementsService
BY InitS, StepS, PTL DEF Spec, ImplementsService, Service!Spec

=============================================================================
