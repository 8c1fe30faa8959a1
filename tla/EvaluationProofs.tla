--------------------------- MODULE EvaluationProofs ---------------------------
(***************************************************************************)
(* Proofs about AsyncEvaluation, for any number of lcores, devices and     *)
(* rounds: how CreateDevices and Advance agree on who drives which queue   *)
(* pair, and from that the safety of EvaluateAsync.  Then about Evaluation:*)
(* within it EvaluateAsync behaves as it does alone, so all of that holds  *)
(* there, EvaluateSync leaves nothing behind, and the memzones the devices *)
(* are asked to preallocate suffice.                                       *)
(***************************************************************************)
EXTENDS Evaluation, WellFoundedInduction, TLAPS

-----------------------------------------------------------------------------
(* The distribution of lcores over devices *)

\* Quotient and remainder.
LEMMA Division ==
  ASSUME NEW a \in Nat, NEW b \in Nat \ {0}
  PROVE  a = b * (a \div b) + (a % b)
BY SMTT(30)

\* The quotient and the remainder that CreateDevices works with.
LEMMA Shares ==
  /\ NumDevices \in Nat \ {0} /\ NumLcores \in Nat \ {0} /\ NumTests \in Nat \ {0}
  /\ NumLcores \div NumDevices \in Nat \ {0}
  /\ NumLcores % NumDevices \in 0..(NumDevices - 1)
  /\ NumLcores = NumDevices * (NumLcores \div NumDevices) + (NumLcores % NumDevices)
<1>1. /\ NumDevices \in Nat \ {0} /\ NumLcores \in Nat \ {0}
      /\ NumTests \in Nat \ {0} /\ NumLcores >= NumDevices
  BY EvaluationAssumption, SMT DEF EvaluationAssumption
<1>2. NumLcores = NumDevices * (NumLcores \div NumDevices) + (NumLcores % NumDevices)
  BY <1>1, Division
<1>3. /\ NumLcores % NumDevices \in 0..(NumDevices - 1)
      /\ NumLcores \div NumDevices \in Nat
  BY <1>1, SMT
<1>4. NumLcores \div NumDevices # 0
  <2> SUFFICES ASSUME NumLcores \div NumDevices = 0 PROVE FALSE
    OBVIOUS
  <2>1. NumDevices * (NumLcores \div NumDevices) = 0
    BY <1>1, SMT
  <2> QED
    BY <1>1, <1>2, <1>3, <2>1, SMT
<1> QED
  BY <1>1, <1>2, <1>3, <1>4

\* A multiple grows with its factor, by a step at a time.
LEMMA Multiples ==
  ASSUME NEW d \in Nat, NEW e \in Nat, NEW q \in Nat
  PROVE  /\ d * q \in Nat
         /\ (d + 1) * q = d * q + q
         /\ d <= e => d * q <= e * q
<1>1. d * q \in Nat /\ (d + 1) * q = d * q + q
  BY SMT
<1>2. ASSUME d <= e PROVE d * q <= e * q
  <2>1. PICK k \in Nat : e = d + k
    <3>1. e - d \in Nat /\ e = d + (e - d)
      BY <1>2, SMT
    <3> QED
      BY <3>1
  <2>2. e * q = d * q + k * q /\ k * q \in Nat
    BY <2>1, SMT
  <2> QED
    BY <1>1, <2>2, SMT
<1> QED
  BY <1>1, <1>2

\* Each device gets its lcores after those of the devices before it, and the last
\* device gets the last lcore.
LEMMA Consecutive ==
  ASSUME NEW d \in Devices
  PROVE  /\ NumQps(d) \in 1..NumLcores
         /\ NumLcoresBefore(d) \in Nat
         /\ \A e \in Devices : d < e =>
              NumLcoresBefore(d) + NumQps(d) <= NumLcoresBefore(e)
         /\ d + 1 \in Devices =>
              NumLcoresBefore(d + 1) = NumLcoresBefore(d) + NumQps(d)
         /\ NumLcoresBefore(d) + NumQps(d) <= NumLcores
         /\ d + 1 \notin Devices => NumLcoresBefore(d) + NumQps(d) = NumLcores
<1> DEFINE q == NumLcores \div NumDevices
           r == NumLcores % NumDevices
<1>1. /\ NumDevices \in Nat \ {0} /\ NumLcores \in Nat \ {0}
      /\ q \in Nat \ {0} /\ r \in 0..(NumDevices - 1)
      /\ NumLcores = NumDevices * q + r
  BY Shares
<1>2. /\ NumQps(d) = q + (IF d < r THEN 1 ELSE 0)
      /\ \A e : NumLcoresBefore(e) = e * q + (IF e < r THEN e ELSE r)
  BY DEF NumQps, NumLcoresBefore
<1>3. d \in Nat /\ d < NumDevices
  BY <1>1, SMT DEF Devices
<1> HIDE DEF q, r
<1>4. d * q \in Nat /\ (d + 1) * q = d * q + q
  BY <1>1, <1>3, Multiples
<1>5. NumDevices * q \in Nat /\ (d + 1) * q <= NumDevices * q
  BY <1>1, <1>3, Multiples, SMT
<1>6. NumLcoresBefore(d) + NumQps(d) = (d + 1) * q + (IF d < r THEN d + 1 ELSE r)
  <2>1. NumLcoresBefore(d) = d * q + (IF d < r THEN d ELSE r)
    BY <1>2
  <2>2. CASE d < r
    BY <1>1, <1>2, <1>3, <1>4, <2>1, <2>2, SMT
  <2>3. CASE ~(d < r)
    BY <1>1, <1>2, <1>3, <1>4, <2>1, <2>3, SMT
  <2> QED
    BY <2>2, <2>3
<1>7. NumLcoresBefore(d) \in Nat /\ NumQps(d) \in Nat \ {0}
  BY <1>1, <1>2, <1>3, <1>4, SMT
<1>8. NumLcoresBefore(d) + NumQps(d) <= NumLcores
  BY <1>1, <1>3, <1>4, <1>5, <1>6, SMT
<1>9. ASSUME NEW e \in Devices, d < e
      PROVE  NumLcoresBefore(d) + NumQps(d) <= NumLcoresBefore(e)
  <2>1. e \in Nat /\ d + 1 <= e
    BY <1>1, <1>3, <1>9, SMT DEF Devices
  <2>2. (d + 1) * q <= e * q /\ e * q \in Nat
    BY <1>1, <1>3, <2>1, Multiples
  <2>3. NumLcoresBefore(e) = e * q + (IF e < r THEN e ELSE r)
    BY <1>2
  <2> QED
    BY <1>1, <1>3, <1>4, <1>6, <2>1, <2>2, <2>3, SMT
<1>10. ASSUME d + 1 \in Devices
       PROVE  NumLcoresBefore(d + 1) = NumLcoresBefore(d) + NumQps(d)
  <2>1. NumLcoresBefore(d + 1) = (d + 1) * q + (IF d + 1 < r THEN d + 1 ELSE r)
    BY <1>2
  <2> QED
    BY <1>1, <1>3, <1>4, <1>6, <2>1, SMT
<1>11. ASSUME d + 1 \notin Devices
       PROVE  NumLcoresBefore(d) + NumQps(d) = NumLcores
  <2>1. d + 1 = NumDevices
    BY <1>1, <1>3, <1>11, SMT DEF Devices
  <2> QED
    BY <1>1, <1>3, <1>4, <1>6, <2>1, SMT
<1>12. NumQps(d) \in 1..NumLcores
  BY <1>1, <1>7, <1>8, SMT
<1> QED
  BY <1>7, <1>8, <1>9, <1>10, <1>11, <1>12

\* A place is a pair of a device and one of its queue pairs.
LEMMA PlaceFacts ==
  ASSUME NEW p \in Places
  PROVE  /\ p[1] \in Devices /\ p[2] \in Nat /\ p[2] < NumQps(p[1])
         /\ p = <<p[1], p[2]>>
         /\ LcoreOf(p) \in Lcores
<1>1. p \in Devices \X (0..(NumLcores - 1)) /\ p[2] < NumQps(p[1])
  BY DEF Places
<1>2. p[1] \in Devices /\ p[2] \in Nat /\ p = <<p[1], p[2]>>
  BY <1>1, Shares
<1>3. /\ NumLcoresBefore(p[1]) \in Nat /\ NumQps(p[1]) \in 1..NumLcores
      /\ NumLcoresBefore(p[1]) + NumQps(p[1]) <= NumLcores
  BY <1>2, Consecutive
<1> QED
  BY <1>1, <1>2, <1>3, Shares, SMT DEF LcoreOf, Lcores

\* No lcore drives two queue pairs.
LEMMA LcoreOfInjective ==
  ASSUME NEW p \in Places, NEW s \in Places, LcoreOf(p) = LcoreOf(s)
  PROVE  p = s
<1> DEFINE bp == NumLcoresBefore(p[1])
           bs == NumLcoresBefore(s[1])
<1>1. /\ p[1] \in Devices /\ p[2] \in Nat /\ p[2] < NumQps(p[1]) /\ p = <<p[1], p[2]>>
      /\ s[1] \in Devices /\ s[2] \in Nat /\ s[2] < NumQps(s[1]) /\ s = <<s[1], s[2]>>
      /\ p[1] \in Nat /\ s[1] \in Nat
  BY PlaceFacts, Shares DEF Devices
<1>2. /\ bp \in Nat /\ bs \in Nat
      /\ NumQps(p[1]) \in Nat /\ NumQps(s[1]) \in Nat
      /\ p[1] < s[1] => bp + NumQps(p[1]) <= bs
      /\ s[1] < p[1] => bs + NumQps(s[1]) <= bp
  <2>1. \A d \in Devices :
          /\ NumLcoresBefore(d) \in Nat /\ NumQps(d) \in 1..NumLcores
          /\ \A e \in Devices : d < e => NumLcoresBefore(d) + NumQps(d) <= NumLcoresBefore(e)
    BY Consecutive, ZenonT(60)
  <2>2. \A d \in Devices : NumQps(d) \in Nat
    BY <2>1, Shares
  <2>3. p[1] \in Devices /\ s[1] \in Devices
    BY <1>1
  <2> QED
    BY <2>1, <2>2, <2>3, ZenonT(60)
<1>3. bp + p[2] + 1 = bs + s[2] + 1
  BY DEF LcoreOf
<1> HIDE DEF bp, bs
<1>4. p[1] = s[1]
  BY <1>1, <1>2, <1>3, SMT
<1>5. p[2] = s[2]
  <2>1. bp = bs
    BY <1>4 DEF bp, bs
  <2> QED
    BY <1>1, <1>2, <1>3, <2>1, SMT
<1> QED
  BY <1>1, <1>4, <1>5

\* The loops over num_parallel_tests() start at the queue pair of the first lcore.
LEMMA FirstPlace == <<0, 0>> \in Places /\ LcoreOf(<<0, 0>>) = 1
<1>1. 0 \in Devices
  BY Shares, SMT DEF Devices
<1>2. NumQps(0) \in 1..NumLcores
  BY <1>1, Consecutive
<1>3. NumLcoresBefore(0) = 0
  <2>1. NumLcores % NumDevices \in Nat /\ NumLcores \div NumDevices \in Nat
    BY Shares
  <2> QED
    BY <2>1, SMT DEF NumLcoresBefore
<1> QED
  BY <1>1, <1>2, <1>3, Shares, SMT DEF Places, LcoreOf

\* Advance goes to the queue pair of the next lcore, as long as there is one.
LEMMA AdvancedPlace ==
  ASSUME NEW p \in Places, LcoreOf(p) < NumLcores
  PROVE  Advanced(p) \in Places /\ LcoreOf(Advanced(p)) = LcoreOf(p) + 1
<1> DEFINE d == p[1]
           n == NumQps(d)
           b == NumLcoresBefore(d)
<1>1. d \in Devices /\ d \in Nat /\ p[2] \in Nat /\ p[2] < n
  BY PlaceFacts, Shares DEF Devices
<1>2. /\ n \in 1..NumLcores /\ b \in Nat
      /\ d + 1 \in Devices => NumLcoresBefore(d + 1) = b + n
      /\ d + 1 \notin Devices => b + n = NumLcores
      /\ NumLcores \in Nat
  BY <1>1, Consecutive, Shares
<1>3. LcoreOf(p) = b + p[2] + 1
  BY DEF LcoreOf
<1>4. CASE p[2] + 1 = n
  <2>1. Advanced(p) = <<d + 1, 0>>
    BY <1>4 DEF Advanced
  <2>2. d + 1 \in Devices
    BY <1>1, <1>2, <1>3, <1>4, SMT
  <2>3. NumQps(d + 1) \in 1..NumLcores /\ NumLcoresBefore(d + 1) = b + n
    BY <1>2, <2>2, Consecutive
  <2>4. LcoreOf(<<d + 1, 0>>) = b + n + 0 + 1
    BY <2>3 DEF LcoreOf
  <2>5. <<d + 1, 0>> \in Places
    <3>1. 0 \in 0..(NumLcores - 1) /\ 0 < NumQps(d + 1)
      BY <1>2, <2>3, Shares, SMT
    <3> QED
      BY <2>2, <3>1 DEF Places
  <2> QED
    BY <1>1, <1>2, <1>3, <1>4, <2>1, <2>4, <2>5, SMT
<1>5. CASE p[2] + 1 # n
  <2>1. Advanced(p) = <<d, p[2] + 1>>
    BY <1>5 DEF Advanced
  <2>2. p[2] + 1 \in 0..(NumLcores - 1) /\ p[2] + 1 < n
    BY <1>1, <1>2, <1>5, SMT
  <2>3. <<d, p[2] + 1>> \in Places
    BY <1>1, <2>2 DEF Places
  <2>4. LcoreOf(<<d, p[2] + 1>>) = b + (p[2] + 1) + 1
    BY DEF LcoreOf
  <2> QED
    BY <1>1, <1>2, <1>3, <2>1, <2>3, <2>4, SMT
<1> QED
  BY <1>4, <1>5

-----------------------------------------------------------------------------
(* The invariant *)

\* The lcores that the main lcore has given their work in this round.
Assigned(l) == pc = "wait" \/ (pc = "launch" /\ l <= idx)

\* The iteration that follows idx others is about lcore idx + 1, from the first loop on.
PositionOK ==
  /\ idx < NumLcores => LcoreOf(at) = idx + 1
  /\ pc = "prepare" => phase = "compress" /\ idx = 0

\* An lcore works only after it has been launched and before it has been waited for.
WorkersOK ==
  \A l \in Lcores : Working(l) =>
    /\ pc \in {"launch", "wait"}
    /\ pc = "launch" => l <= idx
    /\ pc = "wait" => l > idx

\* What an lcore with work in this round is doing or has done: what it returned, if
\* it has returned, is of this round, and kAsyncReturnOK means that the result is there.
ReturnsOK ==
  \A l \in Lcores : Assigned(l) =>
    /\ lcores[l].work = phase
    /\ LcoreOf(lcores[l].at) = l
    /\ phase = "compress" /\ lcores[l].state # "running"
         /\ lcores[l].ret = AsyncReturnOK => results[lcores[l].at] = "live"

\* Where the results are: there as far as the main lcore has waited successfully,
\* all there while they are decompressed, none before and after the evaluation.
ResultsOK ==
  \A p \in Places :
    /\ pc = "prepare" => results[p] = "empty"
    /\ pc = "wait" /\ phase = "compress" /\ success = TRUE /\ LcoreOf(p) <= idx =>
         results[p] = "live"
    /\ pc = "allocate" \/ (phase = "decompress" /\ pc \in {"launch", "wait"}) =>
         results[p] = "live"
    /\ pc \in {"done", "failed"} => results[p] # "live"

IInv == TypeOK /\ PositionOK /\ WorkersOK /\ ReturnsOK /\ ResultsOK

LcoreType == [state : {"wait", "running", "returned"},
              work : {"none", "compress", "decompress"},
              at : Places,
              ret : {NeverRan, Failed, AsyncReturnOK}]

\* An evaluation that starts satisfies the invariant.
LEMMA InitInv == Init => IInv
<1> SUFFICES ASSUME Init PROVE IInv
  OBVIOUS
<1>1. TypeOK
  <2>1. Idle \in LcoreType
    BY FirstPlace DEF Idle, LcoreType
  <2>2. 1 \in 1..NumTests /\ 0 \in 0..NumLcores
    BY Shares, SMT
  <2> QED
    BY <2>1, <2>2, FirstPlace DEF Init, TypeOK, LcoreType
<1>2. \A l \in Lcores : ~Working(l) /\ ~Assigned(l)
  BY DEF Init, Working, Assigned, Idle
<1>3. PositionOK
  BY FirstPlace DEF Init, PositionOK
<1>4. WorkersOK /\ ReturnsOK
  BY <1>2 DEF WorkersOK, ReturnsOK
<1>5. ResultsOK
  BY DEF Init, ResultsOK
<1> QED
  BY <1>1, <1>3, <1>4, <1>5 DEF IInv

\* When the main lcore is not between a first launch and a last wait, no lcore works.
LEMMA NobodyWorks ==
  ASSUME IInv, pc \notin {"launch", "wait"} \/ Waited, NEW l \in Lcores
  PROVE  ~Working(l)
<1>1. l \in Nat /\ l <= NumLcores /\ NumLcores \in Nat
  BY Shares DEF Lcores
<1>2. CASE Waited
  BY <1>1, <1>2 DEF IInv, WorkersOK, Waited
<1>3. CASE pc \notin {"launch", "wait"}
  BY <1>3 DEF IInv, WorkersOK
<1> QED
  BY <1>2, <1>3

\* A step of the main lcore that is not part of a loop over the lcores: to outside
\* such a loop, or to the start of the launches.
LEMMA OutsideLoops ==
  ASSUME IInv, \A l \in Lcores : ~Working(l), lcores' = lcores, pc' # "prepare",
         pc' \notin {"launch", "wait"} \/ (pc' = "launch" /\ idx' = 0),
         (idx' = 0 /\ at' = <<0, 0>>) \/ (idx' = idx /\ at' = at)
  PROVE  /\ PositionOK' /\ WorkersOK' /\ ReturnsOK'
         /\ idx' \in 0..NumLcores
         /\ idx' < NumLcores => at' \in Places
<1>1. \A l \in Lcores : ~Working(l)'
  BY DEF Working
<1>2. \A l \in Lcores : ~Assigned(l)'
  BY Shares, SMT DEF Assigned, Lcores
<1>3. WorkersOK' /\ ReturnsOK'
  BY <1>1, <1>2 DEF WorkersOK, ReturnsOK
<1>4. 0 \in 0..NumLcores
  BY Shares, SMT
<1>5. /\ idx' \in 0..NumLcores
      /\ idx' < NumLcores => at' \in Places
      /\ idx' < NumLcores => LcoreOf(at') = idx' + 1
  <2>1. CASE idx' = 0 /\ at' = <<0, 0>>
    BY <1>4, <2>1, FirstPlace
  <2>2. CASE idx' = idx /\ at' = at
    BY <2>2 DEF IInv, TypeOK, PositionOK
  <2> QED
    BY <2>1, <2>2
<1>6. PositionOK'
  BY <1>5 DEF PositionOK, LcoreOf, NumLcoresBefore
<1> QED
  BY <1>3, <1>5, <1>6

\* Recycle of all results: whether its check holds or not, none is left.
LEMMA RecycleFacts ==
  ASSUME TypeOK, NEW next, Recycle(next)
  PROVE  /\ pc' \in {"aborted", next}
         /\ results' \in [Places -> {"empty", "live", "stale"}]
         /\ \A p \in Places : results'[p] # "live"
BY DEF TypeOK, Recycle

\* What happens before the first launch, between the rounds and after the last wait
\* keeps the invariant.
LEMMA BetweenRoundsStep ==
  ASSUME IInv,
         \/ Prepare \/ CompressFailed \/ CompressSucceeded \/ LastCompressSucceeded
         \/ Allocate \/ AllocateFails
         \/ DecompressFailed \/ DecompressSucceeded \/ LastDecompressSucceeded
  PROVE  IInv'
<1>1. TypeOK
  BY DEF IInv
<1>2. \A l \in Lcores : ~Working(l)
  BY NobodyWorks DEF Prepare, CompressFailed, CompressSucceeded, LastCompressSucceeded,
     Allocate, AllocateFails, DecompressFailed, DecompressSucceeded,
     LastDecompressSucceeded
<1>3. ASSUME lcores' = lcores, pc' # "prepare",
             pc' \notin {"launch", "wait"} \/ (pc' = "launch" /\ idx' = 0),
             (idx' = 0 /\ at' = <<0, 0>>) \/ (idx' = idx /\ at' = at),
             pc' \in {"launch", "allocate", "done", "failed", "aborted"},
             phase' \in {"compress", "decompress"}, round' \in 1..NumTests,
             success' = success,
             results' \in [Places -> {"empty", "live", "stale"}],
             ResultsOK'
      PROVE  IInv'
  <2>1. /\ PositionOK' /\ WorkersOK' /\ ReturnsOK'
        /\ idx' \in 0..NumLcores
        /\ idx' < NumLcores => at' \in Places
    BY <1>2, <1>3, OutsideLoops
  <2>2. TypeOK'
    BY <1>1, <1>3, <2>1 DEF TypeOK
  <2> QED
    BY <1>3, <2>1, <2>2 DEF IInv
<1>4. round < NumTests => round + 1 \in 1..NumTests
  BY <1>1, Shares, SMT DEF TypeOK
<1>5. 1 \in 1..NumTests
  BY Shares, SMT
<1>6. CASE Prepare
  <2>1. ResultsOK'
    BY <1>1, <1>6 DEF IInv, PositionOK, ResultsOK, Prepare
  <2> QED
    BY <1>1, <1>3, <1>6, <2>1 DEF IInv, PositionOK, TypeOK, Prepare
<1>7. CASE CompressFailed
  <2>1. Recycle("failed")
    BY <1>7 DEF CompressFailed
  <2>2. ResultsOK'
    BY <1>1, <2>1, RecycleFacts DEF ResultsOK
  <2> QED
    BY <1>1, <1>3, <1>7, <2>1, <2>2, RecycleFacts DEF TypeOK, CompressFailed
<1>8. CASE CompressSucceeded
  <2>1. Recycle("launch")
    BY <1>8 DEF CompressSucceeded
  <2>2. ResultsOK'
    BY <1>1, <1>8, <2>1, RecycleFacts DEF ResultsOK, CompressSucceeded
  <2> QED
    BY <1>1, <1>3, <1>4, <1>8, <2>1, <2>2, RecycleFacts DEF TypeOK, CompressSucceeded,
       Restart
<1>9. CASE LastCompressSucceeded
  <2>1. \A p \in Places : results[p] = "live"
    <3>1. \A p \in Places : LcoreOf(p) <= NumLcores
      BY PlaceFacts, Shares, SMT DEF Lcores
    <3>2. /\ idx = NumLcores /\ pc = "wait" /\ phase = "compress" /\ success = TRUE
      BY <1>1, <1>9 DEF LastCompressSucceeded, Waited, TypeOK
    <3> QED
      BY <3>1, <3>2 DEF IInv, ResultsOK
  <2>2. ResultsOK'
    BY <1>9, <2>1 DEF ResultsOK, LastCompressSucceeded
  <2> QED
    BY <1>1, <1>3, <1>9, <2>2 DEF TypeOK, LastCompressSucceeded, Restart
<1>10. CASE Allocate
  <2>1. ResultsOK'
    BY <1>10 DEF IInv, ResultsOK, Allocate
  <2> QED
    BY <1>1, <1>3, <1>5, <1>10, <2>1 DEF TypeOK, Allocate, Restart
<1>11. CASE AllocateFails
  <2>1. Recycle("failed")
    BY <1>11 DEF AllocateFails
  <2>2. ResultsOK'
    BY <1>1, <2>1, RecycleFacts DEF ResultsOK
  <2> QED
    BY <1>1, <1>3, <1>11, <2>1, <2>2, RecycleFacts DEF TypeOK, AllocateFails
<1>12. CASE DecompressFailed
  <2>1. Recycle("failed")
    BY <1>12 DEF DecompressFailed
  <2>2. ResultsOK'
    BY <1>1, <2>1, RecycleFacts DEF ResultsOK
  <2> QED
    BY <1>1, <1>3, <1>12, <2>1, <2>2, RecycleFacts DEF TypeOK, DecompressFailed
<1>13. CASE DecompressSucceeded
  <2>1. ResultsOK'
    BY <1>13 DEF IInv, ResultsOK, DecompressSucceeded, Waited
  <2> QED
    BY <1>1, <1>3, <1>4, <1>13, <2>1 DEF TypeOK, DecompressSucceeded, Restart
<1>14. CASE LastDecompressSucceeded
  <2>1. Recycle("done")
    BY <1>14 DEF LastDecompressSucceeded
  <2>2. ResultsOK'
    BY <1>1, <2>1, RecycleFacts DEF ResultsOK
  <2> QED
    BY <1>1, <1>3, <1>14, <2>1, <2>2, RecycleFacts DEF TypeOK, LastDecompressSucceeded
<1> QED
  BY <1>6, <1>7, <1>8, <1>9, <1>10, <1>11, <1>12, <1>13, <1>14

\* Where the main lcore stands in a loop over the lcores, and where it goes from there.
LEMMA LoopFacts ==
  ASSUME IInv, idx < NumLcores
  PROVE  /\ at \in Places /\ LcoreOf(at) = idx + 1 /\ LcoreOf(at) \in Lcores
         /\ idx \in Nat /\ idx + 1 \in 0..NumLcores
         /\ idx + 1 < NumLcores =>
              Advanced(at) \in Places /\ LcoreOf(Advanced(at)) = idx + 2
<1>1. at \in Places /\ LcoreOf(at) = idx + 1 /\ idx \in 0..NumLcores
  BY DEF IInv, TypeOK, PositionOK
<1>2. LcoreOf(at) \in Lcores
  BY <1>1, PlaceFacts
<1>3. idx \in Nat /\ idx + 1 \in 0..NumLcores
  BY <1>1, Shares, SMT
<1>4. ASSUME idx + 1 < NumLcores
      PROVE  Advanced(at) \in Places /\ LcoreOf(Advanced(at)) = LcoreOf(at) + 1
  BY <1>1, <1>4, AdvancedPlace
<1>5. (idx + 1) + 1 = idx + 2
  BY <1>3, SMT
<1> QED
  BY <1>1, <1>2, <1>3, <1>4, <1>5

\* CompressAsync and DecompressAsync find the lcore waiting, and give it the place
\* that it drives.
LEMMA LaunchStep == ASSUME IInv, Launch PROVE IInv'
<1> DEFINE l == LcoreOf(at)
<1>1. /\ pc = "launch" /\ idx < NumLcores
      /\ success' = TRUE /\ phase' = phase /\ round' = round /\ results' = results
  BY DEF Launch
<1>2. /\ at \in Places /\ l = idx + 1 /\ l \in Lcores
      /\ idx \in Nat /\ idx + 1 \in 0..NumLcores
      /\ idx + 1 < NumLcores => Advanced(at) \in Places /\ LcoreOf(Advanced(at)) = idx + 2
  BY <1>1, LoopFacts
<1>3. ~Working(l)
  <2>1. ~(l <= idx)
    BY <1>2, SMT
  <2> QED
    BY <1>1, <1>2, <2>1 DEF IInv, WorkersOK
<1>4. /\ pc' = "launch" /\ idx' = idx + 1 /\ at' = Advanced(at)
      /\ lcores' = [lcores EXCEPT ![l] = [state |-> "running", work |-> phase,
                                          at |-> at, ret |-> lcores[l].ret]]
  BY <1>1, <1>3 DEF Launch, Working
<1> HIDE DEF l
<1>5. TypeOK
  BY DEF IInv
<1>6. \A m \in Lcores : m # l => lcores'[m] = lcores[m]
  BY <1>4, <1>5 DEF TypeOK
<1>7. lcores'[l] = [state |-> "running", work |-> phase, at |-> at, ret |-> lcores[l].ret]
  BY <1>2, <1>4, <1>5 DEF TypeOK
<1>8. TypeOK'
  <2>1. lcores \in [Lcores -> LcoreType]
    BY <1>5 DEF TypeOK, LcoreType
  <2>2. [state |-> "running", work |-> phase, at |-> at, ret |-> lcores[l].ret] \in LcoreType
    BY <1>2, <1>5, <2>1 DEF TypeOK, LcoreType
  <2>3. lcores' \in [Lcores -> LcoreType]
    BY <1>2, <1>4, <2>1, <2>2
  <2> QED
    BY <1>1, <1>2, <1>4, <1>5, <2>3 DEF TypeOK, LcoreType
<1>9. PositionOK'
  <2>1. idx' < NumLcores => LcoreOf(at') = idx' + 1
    BY <1>2, <1>4, SMT
  <2> QED
    BY <1>4, <2>1 DEF PositionOK, LcoreOf, NumLcoresBefore
<1>10. WorkersOK'
  <2> SUFFICES ASSUME NEW m \in Lcores, Working(m)' PROVE m <= idx + 1
    BY <1>4 DEF WorkersOK
  <2>1. CASE m = l
    BY <1>2, <2>1, SMT
  <2>2. CASE m # l
    <3>1. Working(m)
      BY <1>6, <2>2 DEF Working
    <3>2. m <= idx
      BY <1>1, <3>1 DEF IInv, WorkersOK
    <3> QED
      BY <1>2, <3>2, Shares, SMT DEF Lcores
  <2> QED
    BY <2>1, <2>2
<1>11. ReturnsOK'
  <2> SUFFICES ASSUME NEW m \in Lcores, Assigned(m)'
               PROVE  /\ lcores'[m].work = phase
                      /\ LcoreOf(lcores'[m].at) = m
                      /\ phase = "compress" /\ lcores'[m].state # "running"
                           /\ lcores'[m].ret = AsyncReturnOK
                           => results[lcores'[m].at] = "live"
    BY <1>1 DEF ReturnsOK, LcoreOf, NumLcoresBefore
  <2>1. CASE m = l
    BY <1>7, <2>1 DEF l
  <2>2. CASE m # l
    <3>1. m <= idx
      <4>1. m <= idx + 1
        BY <1>4 DEF Assigned
      <4> QED
        BY <1>2, <2>2, <4>1, Shares, SMT DEF Lcores
    <3>2. Assigned(m)
      BY <1>1, <3>1 DEF Assigned
    <3> QED
      BY <1>6, <2>2, <3>2 DEF IInv, ReturnsOK
  <2> QED
    BY <2>1, <2>2
<1>12. ResultsOK'
  BY <1>1, <1>4 DEF IInv, ResultsOK
<1> QED
  BY <1>8, <1>9, <1>10, <1>11, <1>12 DEF IInv

\* WaitForAsyncCompletion starts when every lcore has its work.
LEMMA LaunchedStep == ASSUME IInv, Launched PROVE IInv'
<1>1. /\ pc = "launch" /\ idx = NumLcores /\ pc' = "wait" /\ success' = TRUE
      /\ idx' = 0 /\ at' = <<0, 0>>
      /\ phase' = phase /\ round' = round /\ lcores' = lcores /\ results' = results
  BY DEF Launched, Restart
<1>2. TypeOK'
  BY <1>1, FirstPlace, Shares, SMT DEF IInv, TypeOK
<1>3. PositionOK'
  <2>1. LcoreOf(at') = idx' + 1
    BY <1>1, FirstPlace
  <2> QED
    BY <1>1, <2>1 DEF PositionOK, LcoreOf, NumLcoresBefore
<1>4. WorkersOK'
  BY <1>1, Shares, SMT DEF WorkersOK, Lcores
<1>5. \A l \in Lcores : Assigned(l)
  BY <1>1, Shares, SMT DEF Assigned, Lcores
<1>6. ReturnsOK'
  <2> SUFFICES ASSUME NEW m \in Lcores
               PROVE  /\ lcores[m].work = phase
                      /\ LcoreOf(lcores[m].at) = m
                      /\ phase = "compress" /\ lcores[m].state # "running"
                           /\ lcores[m].ret = AsyncReturnOK
                           => results[lcores[m].at] = "live"
    BY <1>1 DEF ReturnsOK, LcoreOf, NumLcoresBefore
  <2> QED
    BY <1>5 DEF IInv, ReturnsOK
<1>7. ResultsOK'
  <2>1. \A p \in Places : ~(LcoreOf(p) <= 0)
    BY PlaceFacts, Shares, SMT DEF Lcores
  <2> QED
    BY <1>1, <2>1 DEF IInv, ResultsOK, LcoreOf, NumLcoresBefore
<1> QED
  BY <1>2, <1>3, <1>4, <1>6, <1>7 DEF IInv

\* What an lcore that waits again has returned is of this round, so that a success
\* means that its result is there.
LEMMA WaitLcoreStep == ASSUME IInv, WaitLcore PROVE IInv'
<1> DEFINE l == LcoreOf(at)
<1>1. /\ pc = "wait" /\ idx < NumLcores /\ lcores[l].state = "wait"
      /\ success' = (success /\ lcores[l].ret = AsyncReturnOK)
      /\ idx' = idx + 1 /\ at' = Advanced(at)
      /\ pc' = pc /\ phase' = phase /\ round' = round
      /\ lcores' = lcores /\ results' = results
  BY DEF WaitLcore
<1>2. /\ at \in Places /\ l = idx + 1 /\ l \in Lcores
      /\ idx \in Nat /\ idx + 1 \in 0..NumLcores
      /\ idx + 1 < NumLcores => Advanced(at) \in Places /\ LcoreOf(Advanced(at)) = idx + 2
  BY <1>1, LoopFacts
<1>3. /\ success' \in BOOLEAN
      /\ success' = TRUE => success = TRUE /\ lcores[l].ret = AsyncReturnOK
  BY <1>1 DEF IInv, TypeOK
<1>4. TypeOK'
  BY <1>1, <1>2, <1>3 DEF IInv, TypeOK
<1>5. PositionOK'
  <2>1. idx' < NumLcores => LcoreOf(at') = idx' + 1
    BY <1>1, <1>2, SMT
  <2> QED
    BY <1>1, <2>1 DEF PositionOK, LcoreOf, NumLcoresBefore
<1>6. WorkersOK'
  <2> SUFFICES ASSUME NEW m \in Lcores, Working(m) PROVE m > idx + 1
    BY <1>1 DEF WorkersOK, Working
  <2>1. m > idx /\ m # l
    BY <1>1 DEF IInv, WorkersOK, Working
  <2> QED
    BY <1>2, <2>1, Shares, SMT DEF Lcores
<1>7. ReturnsOK'
  <2> SUFFICES ASSUME NEW m \in Lcores
               PROVE  /\ lcores[m].work = phase
                      /\ LcoreOf(lcores[m].at) = m
                      /\ phase = "compress" /\ lcores[m].state # "running"
                           /\ lcores[m].ret = AsyncReturnOK
                           => results[lcores[m].at] = "live"
    BY <1>1 DEF ReturnsOK, LcoreOf, NumLcoresBefore
  <2> QED
    BY <1>1 DEF IInv, ReturnsOK, Assigned
<1>8. ResultsOK'
  <2>1. ASSUME NEW p \in Places, phase = "compress", success' = TRUE,
               LcoreOf(p) <= idx + 1
        PROVE  results[p] = "live"
    <3>1. CASE LcoreOf(p) <= idx
      BY <1>1, <1>3, <2>1, <3>1 DEF IInv, ResultsOK
    <3>2. CASE LcoreOf(p) = l
      <4>1. /\ LcoreOf(lcores[l].at) = l /\ results[lcores[l].at] = "live"
            /\ lcores[l].at \in Places
        BY <1>1, <1>2, <1>3, <2>1 DEF IInv, ReturnsOK, Assigned, TypeOK
      <4>2. lcores[l].at = p
        BY <3>2, <4>1, LcoreOfInjective
      <4> QED
        BY <4>1, <4>2
    <3>3. LcoreOf(p) \in Lcores
      BY PlaceFacts
    <3> HIDE DEF l
    <3>4. LcoreOf(p) <= idx \/ LcoreOf(p) = l
      BY <1>2, <2>1, <3>3, Shares, SMT DEF Lcores
    <3> QED
      BY <3>1, <3>2, <3>4
  <2> QED
    BY <1>1, <2>1 DEF IInv, ResultsOK, LcoreOf, NumLcoresBefore
<1> QED
  BY <1>4, <1>5, <1>6, <1>7, <1>8 DEF IInv

\* The result callback stores a result in the place of its own lcore, and the results
\* that the main lcore has already waited for stay.
LEMMA CallbackStep == ASSUME IInv, NEW l \in Lcores, Callback(l) PROVE IInv'
<1>1. PICK ret \in {Failed, AsyncReturnOK} :
        /\ lcores' = [lcores EXCEPT ![l].state = "returned", ![l].ret = ret]
        /\ results' = IF ret = AsyncReturnOK /\ lcores[l].work = "compress"
                      THEN [results EXCEPT ![lcores[l].at] = "live"]
                      ELSE results
  BY DEF Callback
<1>2. /\ lcores[l].state = "running"
      /\ pc' = pc /\ phase' = phase /\ round' = round
      /\ idx' = idx /\ at' = at /\ success' = success
  BY DEF Callback
<1>3. TypeOK
  BY DEF IInv
<1>4. lcores \in [Lcores -> LcoreType] /\ lcores[l] \in LcoreType /\ lcores[l].at \in Places
  BY <1>3 DEF TypeOK, LcoreType
<1>5. /\ \A m \in Lcores : m # l => lcores'[m] = lcores[m]
      /\ lcores'[l].state = "returned" /\ lcores'[l].ret = ret
      /\ lcores'[l].work = lcores[l].work /\ lcores'[l].at = lcores[l].at
      /\ lcores' \in [Lcores -> LcoreType]
  BY <1>1, <1>4 DEF LcoreType
<1>6. /\ results' \in [Places -> {"empty", "live", "stale"}]
      /\ \A p \in Places : results[p] = "live" => results'[p] = "live"
  BY <1>1, <1>3, <1>4 DEF TypeOK
<1>7. TypeOK'
  BY <1>2, <1>3, <1>5, <1>6 DEF TypeOK, LcoreType
<1>8. Working(l) /\ pc \in {"launch", "wait"} /\ Assigned(l)
  BY <1>2 DEF IInv, WorkersOK, Working, Assigned
<1>9. \A m \in Lcores : Working(m)' => Working(m)
  BY <1>5, <1>8 DEF Working
<1>10. PositionOK'
  BY <1>2 DEF IInv, PositionOK, LcoreOf, NumLcoresBefore
<1>11. WorkersOK'
  BY <1>2, <1>9 DEF IInv, WorkersOK
<1>12. ReturnsOK'
  <2> SUFFICES ASSUME NEW m \in Lcores, Assigned(m)
               PROVE  /\ lcores'[m].work = phase
                      /\ LcoreOf(lcores'[m].at) = m
                      /\ phase = "compress" /\ lcores'[m].state # "running"
                           /\ lcores'[m].ret = AsyncReturnOK
                           => results'[lcores'[m].at] = "live"
    BY <1>2 DEF ReturnsOK, Assigned, LcoreOf, NumLcoresBefore
  <2>1. /\ lcores[m].work = phase /\ LcoreOf(lcores[m].at) = m
        /\ phase = "compress" /\ lcores[m].state # "running"
             /\ lcores[m].ret = AsyncReturnOK => results[lcores[m].at] = "live"
        /\ lcores[m].at \in Places
    BY <1>3 DEF IInv, ReturnsOK, TypeOK
  <2>2. CASE m = l
    <3>1. phase = "compress" /\ ret = AsyncReturnOK => results'[lcores[l].at] = "live"
      BY <1>1, <1>3, <1>4, <2>1, <2>2 DEF TypeOK
    <3> QED
      BY <1>5, <2>1, <2>2, <3>1
  <2>3. CASE m # l
    BY <1>5, <1>6, <2>1, <2>3
  <2> QED
    BY <2>2, <2>3
<1>13. ResultsOK'
  BY <1>2, <1>6, <1>8 DEF IInv, ResultsOK, LcoreOf, NumLcoresBefore
<1> QED
  BY <1>7, <1>10, <1>11, <1>12, <1>13 DEF IInv

\* The EAL only lets the lcore wait again.
LEMMA ReturnsStep == ASSUME IInv, NEW l \in Lcores, Returns(l) PROVE IInv'
<1>1. /\ lcores[l].state = "returned"
      /\ lcores' = [lcores EXCEPT ![l].state = "wait"]
      /\ pc' = pc /\ phase' = phase /\ round' = round /\ results' = results
      /\ idx' = idx /\ at' = at /\ success' = success
  BY DEF Returns
<1>2. TypeOK
  BY DEF IInv
<1>3. lcores \in [Lcores -> LcoreType]
  BY <1>2 DEF TypeOK, LcoreType
<1>4. /\ lcores' \in [Lcores -> LcoreType]
      /\ \A m \in Lcores :
           /\ lcores'[m].work = lcores[m].work /\ lcores'[m].at = lcores[m].at
           /\ lcores'[m].ret = lcores[m].ret
           /\ lcores'[m].state # "wait" => lcores[m].state # "wait"
           /\ lcores'[m].state # "running" => lcores[m].state # "running"
  BY <1>1, <1>3 DEF LcoreType
<1>5. TypeOK'
  BY <1>1, <1>2, <1>4 DEF TypeOK, LcoreType
<1>6. PositionOK'
  BY <1>1 DEF IInv, PositionOK, LcoreOf, NumLcoresBefore
<1>7. WorkersOK'
  BY <1>1, <1>4 DEF IInv, WorkersOK, Working
<1>8. ReturnsOK'
  BY <1>1, <1>4 DEF IInv, ReturnsOK, Assigned, LcoreOf, NumLcoresBefore
<1>9. ResultsOK'
  BY <1>1 DEF IInv, ResultsOK, LcoreOf, NumLcoresBefore
<1> QED
  BY <1>5, <1>6, <1>7, <1>8, <1>9 DEF IInv

\* Every step keeps the invariant.
LEMMA StepInv == IInv /\ [Next]_vars => IInv'
<1> SUFFICES ASSUME IInv, [Next]_vars PROVE IInv'
  OBVIOUS
<1>1. CASE Launch
  BY <1>1, LaunchStep
<1>2. CASE Launched
  BY <1>2, LaunchedStep
<1>3. CASE WaitLcore
  BY <1>3, WaitLcoreStep
<1>4. CASE \/ Prepare \/ CompressFailed \/ CompressSucceeded \/ LastCompressSucceeded
           \/ Allocate \/ AllocateFails
           \/ DecompressFailed \/ DecompressSucceeded \/ LastDecompressSucceeded
  BY <1>4, BetweenRoundsStep
<1>5. CASE \E l \in Lcores : Worker(l)
  BY <1>5, CallbackStep, ReturnsStep DEF Worker
<1>6. CASE UNCHANGED vars
  BY <1>6 DEF vars, IInv, TypeOK, PositionOK, WorkersOK, ReturnsOK, ResultsOK,
     Working, Assigned, LcoreOf, NumLcoresBefore
<1> QED
  BY <1>1, <1>2, <1>3, <1>4, <1>5, <1>6 DEF Next, Main

\* The main lcore and the worker lcores of EvaluateAsync keep the invariant forever.
THEOREM Invariance == Spec => []IInv
BY InitInv, StepInv, PTL DEF Spec

-----------------------------------------------------------------------------
(* The properties of the runs *)

\* All variables keep their types: Advance never leaves the queue pairs while
\* num_parallel_tests() counts, whatever the numbers of lcores and devices are.
THEOREM TypeCorrect == Spec => []TypeOK
<1>1. IInv => TypeOK
  BY DEF IInv
<1> QED
  BY <1>1, Invariance, PTL

\* No lcore uses the parameters or the callback of a benchmark function that has
\* returned: BenchmarkCompressAsync and BenchmarkDecompressAsync keep them as locals.
THEOREM ParamsAlwaysOutliveWork == Spec => []ParamsOutliveWork
<1>1. IInv => ParamsOutliveWork
  BY DEF IInv, WorkersOK, ReturnsOK, Assigned, ParamsOutliveWork
<1> QED
  BY <1>1, Invariance, PTL

\* CompressAsync and DecompressAsync never find the lcore of a queue pair busy, and
\* no two lcores work on one queue pair.
THEOREM LcoresAlwaysToThemselves == Spec => []LcoresToThemselves
<1>1. ASSUME IInv PROVE LcoresToThemselves
  <2>1. ASSUME NEW l \in Lcores, Working(l) PROVE LcoreOf(lcores[l].at) = l
    BY <1>1, <2>1 DEF IInv, WorkersOK, ReturnsOK, Assigned
  <2>2. ASSUME pc = "launch", idx < NumLcores PROVE ~Working(LcoreOf(at))
    <3>1. LcoreOf(at) = idx + 1 /\ LcoreOf(at) \in Lcores /\ idx \in Nat
      BY <1>1, <2>2, LoopFacts
    <3>2. ~(LcoreOf(at) <= idx)
      BY <3>1, SMT
    <3> QED
      BY <1>1, <2>2, <3>1, <3>2 DEF IInv, WorkersOK
  <2> QED
    BY <2>1, <2>2 DEF LcoresToThemselves
<1> QED
  BY <1>1, Invariance, PTL

\* When WaitForAsyncCompletion reports a success of a round of compressions, the
\* buffers of every queue pair are there.
THEOREM SuccessIsAlwaysComplete == Spec => []SuccessIsComplete
<1>1. ASSUME IInv PROVE SuccessIsComplete
  <2>1. \A p \in Places : LcoreOf(p) <= NumLcores
    BY PlaceFacts, Shares, SMT DEF Lcores
  <2> QED
    BY <1>1, <2>1 DEF IInv, TypeOK, ResultsOK, SuccessIsComplete, Waited
<1> QED
  BY <1>1, Invariance, PTL

\* DecompressAsync is given buffers that nothing has recycled since they were filled.
THEOREM DecompressesAlwaysLive == Spec => []DecompressesLive
<1>1. ASSUME IInv PROVE DecompressesLive
  <2> SUFFICES ASSUME NEW l \in Lcores, Working(l), lcores[l].work = "decompress"
               PROVE  results[lcores[l].at] = "live"
    BY DEF DecompressesLive
  <2>1. pc \in {"launch", "wait"} /\ Assigned(l)
    BY <1>1 DEF IInv, WorkersOK, Assigned
  <2>2. phase = "decompress" /\ lcores[l].at \in Places
    BY <1>1, <2>1 DEF IInv, ReturnsOK, TypeOK
  <2> QED
    BY <1>1, <2>1, <2>2 DEF IInv, ResultsOK
<1> QED
  BY <1>1, Invariance, PTL

\* EvaluateAsync recycles every result that is there before it returns.
THEOREM AlwaysAllRecycled == Spec => []AllRecycled
<1>1. IInv => AllRecycled
  BY DEF IInv, ResultsOK, AllRecycled
<1> QED
  BY <1>1, Invariance, PTL

-----------------------------------------------------------------------------
(* The whole evaluation *)

\* Configuring the devices and EvaluateSync do not touch what EvaluateAsync works
\* with, and its steps are its own.
THEOREM EvaluatesAsync == EvaluationSpec => Spec
<1>1. EvaluationInit => Init
  BY DEF EvaluationInit
<1>2. ASSUME [EvaluationNext]_allVars
      PROVE  [Next]_vars
  <2>1. CASE Configured \/ NotConfigured
    BY <2>1 DEF Configured, NotConfigured
  <2>2. CASE Sync
    BY <2>2 DEF Sync, SyncFails, SyncCompress, SyncCompressFails, SyncCompressed,
                SyncAllocate, SyncAllocateFails, SyncDecompress,
                SyncDecompressFails, SyncCompare, SyncCompareFails
  <2>3. CASE Async
    BY <2>3 DEF Async
  <2>4. CASE UNCHANGED allVars
    BY <2>4 DEF allVars
  <2> QED
    BY <1>2, <2>1, <2>2, <2>3, <2>4 DEF EvaluationNext
<1> QED
  BY <1>1, <1>2, PTL DEF EvaluationSpec, Spec

\* What each place in EvaluateSync knows of its result.
SyncKnows ==
  /\ stage \in {"configure", "sync", "async", "failed"}
  /\ syncPc \in {"compress", "compressed", "allocate", "decompress", "compare"}
  /\ syncResult \in {"empty", "live", "stale"}
  /\ stage = "configure" => syncPc = "compress"
  /\ stage \in {"configure", "sync"} =>
       syncResult = IF syncPc \in {"compress", "compare"} THEN "empty" ELSE "live"
  /\ stage \in {"async", "failed"} => syncResult # "live"

\* Every step of EvaluateSync, and of anything else, keeps it.
LEMMA SyncStep ==
  ASSUME SyncKnows, [EvaluationNext]_allVars
  PROVE  SyncKnows'
<1> USE DEF SyncKnows
<1>1. CASE Configured \/ NotConfigured
  BY <1>1 DEF Configured, NotConfigured, syncVars
<1>2. CASE SyncCompress
  BY <1>2 DEF SyncCompress, SyncAt
<1>3. CASE SyncCompressFails
  BY <1>3 DEF SyncCompressFails, SyncFails, SyncAt
<1>4. CASE SyncCompressed
  BY <1>4 DEF SyncCompressed, SyncAt
<1>5. CASE SyncAllocate
  BY <1>5 DEF SyncAllocate, SyncAt
<1>6. CASE SyncAllocateFails
  BY <1>6 DEF SyncAllocateFails, SyncFails, SyncAt
<1>7. CASE SyncDecompress
  BY <1>7 DEF SyncDecompress, SyncAt
<1>8. CASE SyncDecompressFails
  BY <1>8 DEF SyncDecompressFails, SyncFails, SyncAt
<1>9. CASE SyncCompare
  BY <1>9 DEF SyncCompare, SyncAt, syncVars
<1>10. CASE SyncCompareFails
  BY <1>10 DEF SyncCompareFails, SyncFails, SyncAt
<1>11. CASE Async
  BY <1>11 DEF Async, syncVars
<1>12. CASE UNCHANGED allVars
  BY <1>12 DEF allVars, syncVars
<1> QED
  BY <1>1, <1>2, <1>3, <1>4, <1>5, <1>6, <1>7, <1>8, <1>9, <1>10, <1>11, <1>12
     DEF EvaluationNext, Sync

\* EvaluateSync decompresses what it holds and has given it back when it is over.
THEOREM SyncAlwaysRecycles == EvaluationSpec => []SyncRecycles
<1>1. EvaluationInit => SyncKnows
  BY DEF EvaluationInit, SyncKnows
<1>2. SyncKnows /\ [EvaluationNext]_allVars => SyncKnows'
  BY SyncStep
<1>3. SyncKnows => SyncRecycles
  BY DEF SyncKnows, SyncRecycles, SyncAt
<1> QED
  BY <1>1, <1>2, <1>3, PTL DEF EvaluationSpec

\* In the whole evaluation, too, no lcore works with the parameters of a benchmark
\* function that has returned.
THEOREM ParamsOutliveWorkThroughout == EvaluationSpec => []ParamsOutliveWork
  BY EvaluatesAsync, ParamsAlwaysOutliveWork

\* In the whole evaluation, too, every result of EvaluateAsync is recycled.
THEOREM AllRecycledThroughout == EvaluationSpec => []AllRecycled
  BY EvaluatesAsync, AlwaysAllRecycled

-----------------------------------------------------------------------------
(* The stock *)

\* What the code's division that rounds up returns.
LEMMA DividedUp ==
  ASSUME NEW a \in Nat, NEW b \in Nat \ {0}
  PROVE  /\ DivideUp(a, b) \in Nat
         /\ a <= b * DivideUp(a, b)
         /\ b * DivideUp(a, b) <= a + b - 1
<1> DEFINE c == a + b - 1
<1>1. c \in Nat
  BY SMT
<1>2. /\ c = b * (c \div b) + (c % b)
      /\ c % b \in 0..(b - 1)
      /\ c \div b \in Nat
  <2> HIDE DEF c
  <2>1. c = b * (c \div b) + (c % b)
    BY <1>1, Division
  <2> QED
    BY <1>1, <2>1, SMT
<1>3. b * (c \div b) \in Nat
  BY <1>2, SMT
<1> QED
  BY <1>2, <1>3, SMT DEF DivideUp

\* A product with a positive factor is at least as large as the other factor.
LEMMA Cancel ==
  ASSUME NEW a \in Nat, NEW b \in Nat, NEW k \in Nat \ {0}, k * a < k * (b + 1)
  PROVE  a <= b
<1> SUFFICES ASSUME b + 1 <= a PROVE FALSE
  BY SMT
<1>1. (b + 1) * k <= a * k
  BY Multiples, SMT
<1> QED
  BY <1>1, SMT

\* Splitting the input among the lcores costs each of them at most one segment, so
\* that the shares of all lcores fit in what all devices are asked to preallocate:
\* what num_parallel_tests() is added for.
THEOREM SharesFit ==
  ASSUME input \in Nat
  PROVE  NumLcores * Share
           <= NumDevices * DivideUp(MemzonesTotal(input), NumDevices)
<1> DEFINE L == NumLcores
           S == SegSize
           s == DivideUp(input, L)
           n == DivideUp(input, S)
<1>1. /\ L \in Nat \ {0} /\ NumDevices \in Nat \ {0}
      /\ S \in Nat \ {0}
  BY Shares, SizingAssumption DEF SizingAssumption
<1>2. s \in Nat /\ L * s <= input + L - 1
  BY <1>1, DividedUp
<1>3. n \in Nat /\ input <= S * n
  BY <1>1, DividedUp
<1>4. Share \in Nat /\ S * Share <= s + S - 1
  BY <1>1, <1>2, DividedUp DEF Share
<1>5. S * (L * Share) < S * ((n + L) + 1)
  <2> HIDE DEF L, S, s, n
  <2>1. (S * Share) * L <= (s + S - 1) * L
    <3>1. S * Share \in Nat /\ s + S - 1 \in Nat
      BY <1>1, <1>2, <1>4, SMT
    <3> QED
      BY <1>1, <1>4, <3>1, Multiples
  <2>2. (s + S - 1) * L = L * s + L * S - L
    BY <1>1, <1>2, SMT
  <2>3. (S * Share) * L = S * (L * Share)
    BY <1>1, <1>4, SMT
  <2>4. S * ((n + L) + 1) = S * n + L * S + S
    BY <1>1, <1>3, SMT
  <2>5. /\ L * s \in Nat /\ L * S \in Nat /\ S * n \in Nat /\ S * (L * Share) \in Nat
    BY <1>1, <1>2, <1>3, <1>4, SMT
  <2> QED
    BY <1>1, <1>2, <1>3, <2>1, <2>2, <2>3, <2>4, <2>5, SMT
<1>6. L * Share <= n + L
  <2>1. L * Share \in Nat /\ n + L \in Nat
    BY <1>1, <1>3, <1>4, SMT
  <2> HIDE DEF L, S, s, n
  <2> QED
    BY <1>1, <1>5, <2>1, Cancel
<1>7. MemzonesTotal(input) = n + L /\ n + L \in Nat
  BY <1>1, <1>3, SMT DEF MemzonesTotal
<1>8. /\ DivideUp(n + L, NumDevices) \in Nat
      /\ n + L <= NumDevices * DivideUp(n + L, NumDevices)
  BY <1>1, <1>7, DividedUp
<1>9. L * Share \in Nat /\ NumDevices * DivideUp(n + L, NumDevices) \in Nat
  BY <1>1, <1>4, <1>8, SMT
<1> HIDE DEF n
<1> QED
  BY <1>6, <1>7, <1>8, <1>9, SMT

-----------------------------------------------------------------------------
(* Sums *)

\* A set of natural numbers that is not empty has a least one.
LEMMA NatLeast ==
  ASSUME NEW T, T \subseteq Nat, T # {}
  PROVE  \E x \in T : \A y \in T : ~(y < x)
<1>1. PICK R : R = {ss \in Nat \X Nat : ss[1] < ss[2]}
  OBVIOUS
<1>2. IsWellFoundedOn(R, Nat)
  BY <1>1, NatLessThanWellFounded DEF OpToRel
<1>3. \E x \in T : \A y \in T : ~ (<<y, x>> \in R)
  BY <1>2, WFMin
<1> QED
  BY <1>1, <1>3

\* f adds up w, from 1 to n.
AddsUp(f, w, n) ==
  /\ f \in [0..n -> Nat]
  /\ f[0] = 0
  /\ \A i \in 1..n : f[i] = f[i - 1] + w[i]

\* There is such a sum: otherwise there is a least n without, which is not 0, and
\* the sum up to n - 1 has a next value.
LEMMA SumExists ==
  ASSUME NEW n \in Nat, NEW w, \A i \in 1..n : w[i] \in Nat
  PROVE  \E f : AddsUp(f, w, n)
<1> SUFFICES ASSUME ~ \E f : AddsUp(f, w, n) PROVE FALSE
  OBVIOUS
<1> DEFINE T == {k \in 0..n : ~ \E f : AddsUp(f, w, k)}
<1>1. T \subseteq Nat /\ T # {}
  <2>1. n \in T /\ 0..n \subseteq Nat
    OBVIOUS
  <2> QED
    BY <2>1
<1> HIDE DEF T
<1>2. PICK k \in T : \A j \in T : ~(j < k)
  BY <1>1, NatLeast
<1>3. k \in 0..n /\ ~ \E f : AddsUp(f, w, k)
  BY <1>2 DEF T
<1>4. k # 0
  <2>1. AddsUp([i \in 0..0 |-> 0], w, 0)
    BY DEF AddsUp
  <2> QED
    BY <1>3, <2>1
<1>5. k \in 1..n /\ k - 1 \in 0..n /\ k - 1 < k /\ k - 1 \in Nat
  BY <1>3, <1>4
<1>6. PICK f : AddsUp(f, w, k - 1)
  <2>1. k - 1 \notin T
    BY <1>2, <1>5
  <2> QED
    BY <1>5, <2>1 DEF T
<1> DEFINE g == [i \in 0..k |-> IF i = k THEN f[k - 1] + w[k] ELSE f[i]]
<1>7. /\ f \in [0..(k - 1) -> Nat] /\ f[0] = 0 /\ w[k] \in Nat
      /\ \A i \in 1..(k - 1) : f[i] = f[i - 1] + w[i]
  BY <1>5, <1>6 DEF AddsUp
<1>8. AddsUp(g, w, k)
  <2>1. ASSUME NEW i \in 0..k PROVE g[i] \in Nat
    <3>1. CASE i = k
      BY <1>5, <1>7, <3>1
    <3>2. CASE i # k
      BY <1>5, <1>7, <3>2
    <3> QED
      BY <3>1, <3>2
  <2>2. ASSUME NEW i \in 1..k PROVE g[i] = g[i - 1] + w[i]
    <3>1. i \in 0..k /\ i - 1 \in 0..k /\ i - 1 # k
      BY <1>5
    <3>2. CASE i = k
      BY <3>1, <3>2
    <3>3. CASE i # k
      <4>1. i \in 1..(k - 1)
        BY <1>5, <3>3
      <4> QED
        BY <1>7, <3>1, <3>3, <4>1
    <3> QED
      BY <3>2, <3>3
  <2>3. g[0] = 0
    BY <1>5, <1>7
  <2>4. g \in [0..k -> Nat]
    BY <2>1
  <2> HIDE DEF g
  <2> QED
    BY <2>2, <2>3, <2>4 DEF AddsUp
<1> QED
  BY <1>3, <1>8

\* A sum of n numbers up to b is at most n * b.
LEMMA SumBounded ==
  ASSUME NEW n \in Nat, NEW w, NEW b \in Nat, \A i \in 1..n : w[i] \in 0..b,
         NEW f, AddsUp(f, w, n)
  PROVE  f[n] \in Nat /\ f[n] <= n * b
<1>1. /\ f \in [0..n -> Nat] /\ f[0] = 0
      /\ \A i \in 1..n : f[i] = f[i - 1] + w[i]
  BY DEF AddsUp
<1>2. f[n] \in Nat
  BY <1>1
<1> SUFFICES ASSUME ~(f[n] <= n * b) PROVE FALSE
  BY <1>2
<1> DEFINE T == {k \in 0..n : ~(f[k] <= k * b)}
<1>3. T \subseteq Nat /\ T # {}
  <2>1. n \in T /\ 0..n \subseteq Nat
    OBVIOUS
  <2> QED
    BY <2>1
<1> HIDE DEF T
<1>4. PICK k \in T : \A j \in T : ~(j < k)
  BY <1>3, NatLeast
<1>5. k \in 0..n /\ ~(f[k] <= k * b)
  BY <1>4 DEF T
<1>6. k # 0
  <2>1. 0 * b = 0 /\ 0 <= 0
    OBVIOUS
  <2> QED
    BY <1>1, <1>5, <2>1
<1>7. PICK j \in 0..n : j = k - 1 /\ k = j + 1 /\ j < k /\ k \in 1..n /\ j \in Nat
  BY <1>5, <1>6
<1>8. f[j] <= j * b
  BY <1>4, <1>7 DEF T
<1>9. f[k] = f[j] + w[k] /\ f[j] \in Nat /\ w[k] \in 0..b
  BY <1>1, <1>7
<1>10. k * b = j * b + b /\ j * b \in Nat
  BY <1>7, Multiples
<1> QED
  BY <1>5, <1>8, <1>9, <1>10

-----------------------------------------------------------------------------
(* What a device's lcores take *)

\* Dividing more gives more.
LEMMA DivideUpGrows ==
  ASSUME NEW a \in Nat, NEW c \in Nat, a <= c, NEW b \in Nat \ {0}
  PROVE  DivideUp(a, b) <= DivideUp(c, b)
<1> DEFINE x == DivideUp(a, b)
           y == DivideUp(c, b)
<1>1. x \in Nat /\ b * x <= a + b - 1 /\ y \in Nat /\ c <= b * y
  BY DividedUp
<1>2. b * x \in Nat /\ b * y \in Nat /\ b * (y + 1) = b * y + b
  <2> HIDE DEF x, y
  <2> QED
    BY <1>1, SMT
<1> HIDE DEF x, y
<1>3. b * x < b * (y + 1)
  BY <1>1, <1>2, SMT
<1>4. x <= y
  BY <1>1, <1>3, Cancel
<1> QED
  BY <1>4 DEF x, y

\* No lcore's part of the input is larger than the input divided, rounding up.
LEMMA SegmentAtMost ==
  ASSUME NEW n \in Nat, NEW i \in Nat
  PROVE  SegmentSize(n, i) \in Nat /\ SegmentSize(n, i) <= DivideUp(n, NumLcores)
<1> DEFINE L == NumLcores
           k == n \div L
           r == n % L
           y == DivideUp(n, L)
<1>1. L \in Nat \ {0}
  BY Shares
<1>2. n = L * k + r /\ k \in Nat /\ r \in 0..(L - 1)
  <2>1. n = L * k + r
    BY <1>1, Division
  <2> QED
    BY <1>1, <2>1, SMT
<1>3. y \in Nat /\ n <= L * y
  BY <1>1, DividedUp
<1>4. SegmentSize(n, i) = k + (IF i < r THEN 1 ELSE 0)
  BY DEF SegmentSize
<1> HIDE DEF L, k, r, y
<1>5. L * k \in Nat /\ L * y \in Nat /\ L * (y + 1) = L * y + L
  BY <1>1, <1>2, <1>3, SMT
<1>6. k <= y
  <2>1. L * k < L * (y + 1)
    BY <1>1, <1>2, <1>3, <1>5, SMT
  <2> QED
    BY <1>1, <1>2, <1>3, <2>1, Cancel
<1>7. ASSUME r # 0 PROVE k + 1 <= y
  <2>1. k # y
    BY <1>1, <1>2, <1>3, <1>5, <1>7, SMT
  <2> QED
    BY <1>2, <1>3, <1>6, <2>1, SMT
<1>8. SegmentSize(n, i) \in Nat /\ SegmentSize(n, i) <= y
  <2>1. CASE i < r
    BY <1>2, <1>3, <1>4, <1>7, <2>1, SMT
  <2>2. CASE ~(i < r)
    BY <1>2, <1>4, <1>6, <2>2, SMT
  <2> QED
    BY <2>1, <2>2
<1> QED
  BY <1>8 DEF y, L

\* What one lcore takes is at most a share.
LEMMA HeldByAtMost ==
  ASSUME input \in Nat, NEW p \in Places
  PROVE  HeldBy(p) \in 0..Share
<1>1. LcoreOf(p) \in 1..NumLcores
  BY PlaceFacts DEF Lcores
<1>2. PICK i \in Nat : i = LcoreOf(p) - 1
  BY <1>1, Shares, SMT
<1>3. PICK a \in Nat, c \in Nat : /\ a = SegmentSize(input, i) /\ c = DivideUp(input, NumLcores)
                                 /\ a <= c
  <2>1. DivideUp(input, NumLcores) \in Nat
    BY Shares, DividedUp
  <2> QED
    BY <2>1, SegmentAtMost
<1>4. SegSize \in Nat \ {0}
  BY SizingAssumption DEF SizingAssumption
<1>5. DivideUp(a, SegSize) \in Nat /\ DivideUp(c, SegSize) \in Nat
      /\ DivideUp(a, SegSize) <= DivideUp(c, SegSize)
  BY <1>4, <1>3, DividedUp, DivideUpGrows
<1>6. MemzonesOf(p) = DivideUp(a, SegSize) /\ Share = DivideUp(c, SegSize)
  BY <1>2, <1>3 DEF MemzonesOf, Share
<1> QED
  BY <1>5, <1>6, SMT DEF HeldBy

\* A share is a number of memzones.
LEMMA ShareType == ASSUME input \in Nat PROVE Share \in Nat
<1>1. DivideUp(input, NumLcores) \in Nat
  BY Shares, DividedUp
<1> QED
  BY <1>1, SizingAssumption, DividedUp DEF SizingAssumption, Share

\* What the lcores of a device take together.
LEMMA HeldAtMost ==
  ASSUME input \in Nat, NEW d \in Devices
  PROVE  Held(d) \in Nat /\ Held(d) <= NumQps(d) * Share
<1>1. PICK n \in Nat : n = NumQps(d) /\ n \in 1..NumLcores
  BY Consecutive, Shares, SMT
<1>2. PICK w : w = [i \in 1..n |-> HeldBy(<<d, i - 1>>)]
  OBVIOUS
<1>3. \A i \in 1..n : w[i] = HeldBy(<<d, i - 1>>) /\ w[i] \in 0..Share
  <2> SUFFICES ASSUME NEW i \in 1..n
               PROVE  w[i] = HeldBy(<<d, i - 1>>) /\ w[i] \in 0..Share
    OBVIOUS
  <2>1. i - 1 \in 0..(NumLcores - 1) /\ i - 1 < n
    BY <1>1, Shares, SMT
  <2>2. <<d, i - 1>> \in Places
    BY <1>1, <2>1, SMT DEF Places
  <2> QED
    BY <1>2, <2>2, HeldByAtMost
<1>4. Share \in Nat
  BY ShareType
<1>5. PICK f : AddsUp(f, w, n)
  <2>1. 0..Share \subseteq Nat
    BY <1>4, SMT
  <2>2. \A i \in 1..n : w[i] \in Nat
    BY <1>3, <2>1, Zenon
  <2> QED
    BY <2>2, SumExists
<1> DEFINE Adds(g) == [i \in 0..NumQps(d) |->
                        IF i = 0 THEN 0 ELSE g[i - 1] + HeldBy(<<d, i - 1>>)]
           upTo == CHOOSE g : g = Adds(g)
<1>6. f = Adds(f)
  <2>1. f \in [0..n -> Nat] /\ f[0] = 0 /\ \A i \in 1..n : f[i] = f[i - 1] + w[i]
    BY <1>5 DEF AddsUp
  <2>2. \A i \in 0..n : f[i] = Adds(f)[i]
    <3> SUFFICES ASSUME NEW i \in 0..n PROVE f[i] = Adds(f)[i]
      OBVIOUS
    <3>1. CASE i = 0
      BY <1>1, <2>1, <3>1
    <3>2. CASE i # 0
      <4>1. i \in 1..n
        BY <3>2, SMT
      <4> QED
        BY <1>1, <1>3, <2>1, <3>2, <4>1
    <3> QED
      BY <3>1, <3>2
  <2> QED
    BY <1>1, <2>1, <2>2
<1>7. upTo = Adds(upTo)
  BY <1>6, Zenon
<1>8. Held(d) = upTo[n]
  BY <1>1, Zenon DEF Held
<1> HIDE DEF upTo
<1>9. /\ f \in [0..n -> Nat] /\ f[0] = 0
      /\ \A i \in 1..n : f[i] = f[i - 1] + HeldBy(<<d, i - 1>>)
  <2>1. \A i \in 1..n : f[i] = f[i - 1] + w[i] /\ w[i] = HeldBy(<<d, i - 1>>)
    BY <1>3, <1>5, Zenon DEF AddsUp
  <2> QED
    BY <1>5, <2>1, Zenon DEF AddsUp
<1>10. /\ upTo[0] = 0
       /\ \A i \in 1..n : upTo[i] = upTo[i - 1] + HeldBy(<<d, i - 1>>)
  <2>1. Adds(upTo)[0] = 0
    BY <1>1
  <2>2. ASSUME NEW i \in 1..n
        PROVE  Adds(upTo)[i] = upTo[i - 1] + HeldBy(<<d, i - 1>>)
    BY <1>1
  <2> HIDE DEF Adds
  <2> QED
    BY <1>7, <2>1, <2>2, Zenon
<1>11. upTo[n] = f[n]
  <2> SUFFICES ASSUME upTo[n] # f[n] PROVE FALSE
    OBVIOUS
  <2> DEFINE T == {k \in 0..n : upTo[k] # f[k]}
  <2>1. T \subseteq Nat /\ T # {}
    <3>1. n \in T /\ 0..n \subseteq Nat
      OBVIOUS
    <3> QED
      BY <3>1
  <2> HIDE DEF T
  <2>2. PICK k \in T : \A j \in T : ~(j < k)
    BY <2>1, NatLeast
  <2>3. k \in 0..n /\ upTo[k] # f[k]
    BY <2>2 DEF T
  <2>4. k # 0
    BY <1>9, <1>10, <2>3
  <2>5. k \in 1..n /\ k - 1 \in 0..n /\ k - 1 < k
    BY <2>3, <2>4
  <2>6. upTo[k - 1] = f[k - 1]
    BY <2>2, <2>5 DEF T
  <2> QED
    BY <1>9, <1>10, <2>3, <2>5, <2>6
<1> QED
  BY <1>1, <1>3, <1>4, <1>5, <1>8, <1>11, SumBounded

\* The input of an evaluation stays what it was.
LEMMA InputIsNat == EvaluationSpec => [](input \in Nat)
<1>1. EvaluationInit => input \in Nat
  BY SizingAssumption DEF EvaluationInit, SizingAssumption
<1>2. input \in Nat /\ [EvaluationNext]_allVars => (input \in Nat)'
  BY DEF EvaluationNext, allVars, Configured, NotConfigured, Async, Sync, SyncFails,
         SyncCompress, SyncCompressFails, SyncCompressed, SyncAllocate,
         SyncAllocateFails, SyncDecompress, SyncDecompressFails, SyncCompare,
         SyncCompareFails
<1> QED
  BY <1>1, <1>2, PTL DEF EvaluationSpec

\* What a device is asked to preallocate, cut to 16 bits or not.
LEMMA MaxPreallocateType ==
  ASSUME input \in Nat
  PROVE  /\ DivideUp(MemzonesTotal(input), NumDevices) \in Nat
         /\ MaxPreallocate(input) \in Nat
<1>1. DivideUp(input, SegSize) \in Nat /\ NumLcores \in Nat /\ NumDevices \in Nat \ {0}
  BY Shares, SizingAssumption, DividedUp DEF SizingAssumption
<1>2. MemzonesTotal(input) \in Nat
  BY <1>1, SMT DEF MemzonesTotal
<1>3. PICK m \in Nat : m = DivideUp(MemzonesTotal(input), NumDevices)
  BY <1>1, <1>2, DividedUp
<1>4. m % Width \in Nat
  BY SizingAssumption, SMT DEF SizingAssumption
<1> QED
  BY <1>3, <1>4 DEF MaxPreallocate

\* The stock suffices, whatever the input and however the lcores fall on the
\* devices: no device's lcores together take more than a share each, and the
\* shares of all lcores fit in what all devices were asked for.
THEOREM StockAlwaysSuffices == EvaluationSpec => []StockSuffices
<1>1. input \in Nat => StockSuffices
  <2> SUFFICES ASSUME input \in Nat,
                      DivideUp(MemzonesTotal(input), NumDevices) < Width,
                      NEW d \in Devices
               PROVE  NumDevices * Held(d) + NumLcores * Share
                        <= NumDevices * MaxPreallocate(input)
                             + NumDevices * NumQps(d) * Share
    BY DEF StockSuffices
  <2>1. PICK D \in Nat, L \in Nat, n \in Nat, s \in Nat, h \in Nat :
          /\ D = NumDevices /\ L = NumLcores /\ n = NumQps(d) /\ s = Share /\ h = Held(d)
          /\ h <= n * s
    <3>1. NumDevices \in Nat /\ NumLcores \in Nat
      BY Shares
    <3>2. NumQps(d) \in Nat
      BY <3>1, Consecutive, SMT
    <3>3. Share \in Nat
      BY ShareType
    <3>4. Held(d) \in Nat /\ Held(d) <= NumQps(d) * Share
      BY HeldAtMost
    <3> QED
      BY <3>1, <3>2, <3>3, <3>4, Zenon
  <2>2. PICK m \in Nat : m = MaxPreallocate(input) /\ L * s <= D * m
    <3>1. PICK m : m = DivideUp(MemzonesTotal(input), NumDevices)
      OBVIOUS
    <3>2. m \in Nat
      BY <3>1, MaxPreallocateType
    <3>3. m % Width = m
      <4>1. Width \in Nat
        BY SizingAssumption DEF SizingAssumption
      <4> QED
        BY <3>1, <3>2, <4>1, SMT
    <3>4. m = MaxPreallocate(input)
      BY <3>1, <3>3 DEF MaxPreallocate
    <3> QED
      BY <2>1, <3>1, <3>2, <3>4, SharesFit
  <2>3. D * h <= D * n * s
    <3>1. h * D <= (n * s) * D
      <4>1. n * s \in Nat
        BY <2>1, SMT
      <4> QED
        BY <2>1, <4>1, Multiples
    <3>2. h * D = D * h /\ (n * s) * D = D * n * s
      BY <2>1, SMT
    <3> QED
      BY <3>1, <3>2
  <2>4. PICK x \in Nat, y \in Nat, u \in Nat, v \in Nat :
          x = D * h /\ y = L * s /\ u = D * m /\ v = D * n * s
    <3>1. D * h \in Nat /\ L * s \in Nat /\ D * m \in Nat /\ D * n * s \in Nat
      OBVIOUS
    <3> QED
      BY <3>1
  <2>5. x + y <= u + v
    <3>1. x <= v /\ y <= u
      BY <2>2, <2>3, <2>4, Zenon
    <3> QED
      BY <3>1
  <2> QED
    BY <2>1, <2>2, <2>4, <2>5, Zenon
<1> QED
  BY <1>1, InputIsNat, PTL

\* A device without more than its even share of lcores never takes more memzones
\* than it was asked to preallocate, so that Take need not reserve any.
THEOREM EvenShareSuffices ==
  EvaluationSpec =>
    [](stage = "async" /\ DivideUp(MemzonesTotal(input), NumDevices) < Width =>
         \A d \in Devices : NumDevices * NumQps(d) <= NumLcores =>
                              Held(d) <= MaxPreallocate(input))
<1>1. input \in Nat /\ StockSuffices =>
        (stage = "async" /\ DivideUp(MemzonesTotal(input), NumDevices) < Width =>
           \A d \in Devices : NumDevices * NumQps(d) <= NumLcores =>
                                Held(d) <= MaxPreallocate(input))
  <2> SUFFICES ASSUME input \in Nat, StockSuffices, stage = "async",
                      DivideUp(MemzonesTotal(input), NumDevices) < Width,
                      NEW d \in Devices, NumDevices * NumQps(d) <= NumLcores
               PROVE  Held(d) <= MaxPreallocate(input)
    OBVIOUS
  <2>1. PICK D \in Nat \ {0}, L \in Nat, n \in Nat, s \in Nat, h \in Nat, m \in Nat :
          /\ h = Held(d) /\ m = MaxPreallocate(input)
          /\ D * n <= L /\ D * h + L * s <= D * m + D * n * s
    <3>1. NumDevices \in Nat \ {0} /\ NumLcores \in Nat
      BY Shares
    <3>2. NumQps(d) \in Nat
      BY <3>1, Consecutive, SMT
    <3>3. Share \in Nat /\ Held(d) \in Nat
      BY ShareType, HeldAtMost
    <3>4. MaxPreallocate(input) \in Nat
      BY MaxPreallocateType
    <3>5. NumDevices * Held(d) + NumLcores * Share
            <= NumDevices * MaxPreallocate(input) + NumDevices * NumQps(d) * Share
      BY Zenon DEF StockSuffices
    <3> QED
      BY <3>1, <3>2, <3>3, <3>4, <3>5, Zenon
  <2>2. (D * n) * s <= L * s
    <3>1. D * n \in Nat
      OBVIOUS
    <3> QED
      BY <3>1, <2>1, Multiples
  <2>3. D * h < D * (m + 1)
    <3>1. PICK x \in Nat, y \in Nat, u \in Nat, v \in Nat :
            x = D * h /\ y = L * s /\ u = D * m /\ v = (D * n) * s
      <4>1. D * h \in Nat /\ L * s \in Nat /\ D * m \in Nat /\ (D * n) * s \in Nat
        OBVIOUS
      <4> QED
        BY <4>1
    <3>2. x + y <= u + v /\ v <= y
      BY <2>1, <2>2, <3>1, Zenon
    <3>3. x <= u
      BY <3>2
    <3>4. D * (m + 1) = D * m + D
      OBVIOUS
    <3>5. x < u + D
      BY <3>3
    <3> QED
      BY <3>1, <3>4, <3>5, Zenon
  <2>4. h <= m
    BY <2>3, Cancel
  <2> QED
    BY <2>1, <2>4, Zenon
<1> QED
  BY <1>1, InputIsNat, StockAlwaysSuffices, PTL

=============================================================================
