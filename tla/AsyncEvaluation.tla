-------------------------- MODULE AsyncEvaluation --------------------------
(***************************************************************************)
(* EvaluateAsync of the demo application (apps/demo_app.cc): the main      *)
(* lcore distributes compressions and decompressions over the worker       *)
(* lcores with CompressAsync and DecompressAsync (src/include/util.h),     *)
(* waits for all of them and recycles the results, in several rounds.      *)
(*                                                                         *)
(* Devices are known by their place in the list of devices, which the demo *)
(* takes to be their id.  A compressed result is the vector of buffers of  *)
(* one queue pair: empty, live, or recycled and still in its place.        *)
(***************************************************************************)
EXTENDS Naturals, FiniteSets

CONSTANTS
  NumLcores,  \* worker lcores: num_parallel_tests()
  NumDevices,
  NumTests    \* kNumTests

ASSUME EvaluationAssumption ==
  /\ NumDevices \in Nat \ {0}
  /\ NumLcores \in Nat /\ NumLcores >= NumDevices
  /\ NumTests \in Nat \ {0}

VARIABLES
  pc,       \* where the main lcore is
  phase,    \* "compress" or "decompress"
  round,    \* idx of the loop over kNumTests, from 1
  idx,      \* idx of the loop over num_parallel_tests()
  at,       \* device_id and queue_pair_id
  success,  \* async_success
  lcores,   \* the worker lcores as the EAL sees them
  results   \* device_to_compressed_buffers_vector

vars == <<pc, phase, round, idx, at, success, lcores, results>>

Lcores == 1..NumLcores
Devices == 0..(NumDevices - 1)

\* CreateDevices maps the worker lcores to the devices as evenly as possible, the
\* first devices getting one of the remaining lcores each.
NumQps(d) ==
  NumLcores \div NumDevices + (IF d < NumLcores % NumDevices THEN 1 ELSE 0)

\* A fault for NumLcoresBefore: the remaining lcores are not skipped.
NumLcoresBeforeAtLeast(d) == d * (NumLcores \div NumDevices)

\* Where worker_lcores_iter stands for device d.
NumLcoresBefore(d) ==
  d * (NumLcores \div NumDevices)
    + (IF d < NumLcores % NumDevices THEN d ELSE NumLcores % NumDevices)

\* The queue pairs of all devices, and the lcore of each.
Places == {p \in Devices \X (0..(NumLcores - 1)) : p[2] < NumQps(p[1])}
LcoreOf(p) == NumLcoresBefore(p[1]) + p[2] + 1

\* The values that the function of an lcore returns.
NeverRan == 0
Failed == 1       \* EXIT_FAILURE
AsyncReturnOK == 2

Idle == [state |-> "wait", work |-> "none", at |-> <<0, 0>>, ret |-> NeverRan]

Init ==
  /\ pc = "prepare"
  /\ phase = "compress"
  /\ round = 1
  /\ idx = 0
  /\ at = <<0, 0>>
  /\ success = TRUE
  /\ lcores = [l \in Lcores |-> Idle]
  /\ results = [p \in Places |-> "empty"]

-----------------------------------------------------------------------------
(* The worker lcores *)

\* Compress or Decompress has ended; the result callback stores what Compress
\* returned, in place of what was there.
Callback(l) ==
  /\ lcores[l].state = "running"
  /\ \E ret \in {Failed, AsyncReturnOK} :
       /\ lcores' = [lcores EXCEPT ![l].state = "returned", ![l].ret = ret]
       /\ results' = IF ret = AsyncReturnOK /\ lcores[l].work = "compress"
                     THEN [results EXCEPT ![lcores[l].at] = "live"]
                     ELSE results
  /\ UNCHANGED <<pc, phase, round, idx, at, success>>

\* The EAL stores what the function returned and the lcore waits again.
Returns(l) ==
  /\ lcores[l].state = "returned"
  /\ lcores' = [lcores EXCEPT ![l].state = "wait"]
  /\ UNCHANGED <<pc, phase, round, idx, at, success, results>>

-----------------------------------------------------------------------------
(* The main lcore *)

\* A fault for Advanced: the comparison comes before the increment.
AdvancedLate(p) ==
  IF p[2] = NumQps(p[1]) THEN <<p[1] + 1, 0>> ELSE <<p[1], p[2] + 1>>

\* Advance: the next queue pair, of the next device after the last one.
Advanced(p) == IF p[2] + 1 = NumQps(p[1]) THEN <<p[1] + 1, 0>> ELSE <<p[1], p[2] + 1>>

\* A loop over num_parallel_tests() starts.
Restart == idx' = 0 /\ at' = <<0, 0>>

\* The input buffers and the empty results are allocated.
Prepare ==
  /\ pc = "prepare"
  /\ pc' \in {"launch", "failed"}
  /\ UNCHANGED <<phase, round, idx, at, success, lcores, results>>

\* One iteration that launches; an lcore that does not wait breaks the loop.
Launch ==
  /\ pc = "launch"
  /\ idx < NumLcores
  /\ LET l == LcoreOf(at)
     IN  IF lcores[l].state = "wait"
         THEN /\ lcores' = [lcores EXCEPT ![l] = [state |-> "running", work |-> phase,
                                                  at |-> at, ret |-> lcores[l].ret]]
              /\ idx' = idx + 1
              /\ at' = Advanced(at)
              /\ UNCHANGED pc
         ELSE /\ pc' = "wait"
              /\ Restart
              /\ UNCHANGED lcores
  /\ success' = TRUE
  /\ UNCHANGED <<phase, round, results>>

\* WaitForAsyncCompletion starts with async_success set.
Launched ==
  /\ pc = "launch"
  /\ idx = NumLcores
  /\ pc' = "wait"
  /\ success' = TRUE
  /\ Restart
  /\ UNCHANGED <<phase, round, lcores, results>>

\* A fault for WaitLcore: waiting ends at the first failure.
WaitLcoreNoMore ==
  /\ pc = "wait"
  /\ idx < NumLcores
  /\ lcores[LcoreOf(at)].state = "wait"
  /\ success' = (success /\ lcores[LcoreOf(at)].ret = AsyncReturnOK)
  /\ idx' = IF success' THEN idx + 1 ELSE NumLcores
  /\ at' = Advanced(at)
  /\ UNCHANGED <<pc, phase, round, lcores, results>>

\* A fault for WaitLcore: the last lcore decides.
WaitLcoreLastDecides ==
  /\ pc = "wait"
  /\ idx < NumLcores
  /\ lcores[LcoreOf(at)].state = "wait"
  /\ success' = (lcores[LcoreOf(at)].ret = AsyncReturnOK)
  /\ idx' = idx + 1
  /\ at' = Advanced(at)
  /\ UNCHANGED <<pc, phase, round, lcores, results>>

\* A fault for WaitLcore: an lcore that failed is waited for again.
WaitLcoreUntilOK ==
  /\ pc = "wait"
  /\ idx < NumLcores
  /\ lcores[LcoreOf(at)].state = "wait"
  /\ lcores[LcoreOf(at)].ret = AsyncReturnOK
  /\ idx' = idx + 1
  /\ at' = Advanced(at)
  /\ UNCHANGED <<pc, phase, round, success, lcores, results>>

\* One iteration of WaitForAsyncCompletion: the lcore waits for work, and what its
\* last function returned is read, of this round or not.
WaitLcore ==
  /\ pc = "wait"
  /\ idx < NumLcores
  /\ lcores[LcoreOf(at)].state = "wait"
  /\ success' = (success /\ lcores[LcoreOf(at)].ret = AsyncReturnOK)
  /\ idx' = idx + 1
  /\ at' = Advanced(at)
  /\ UNCHANGED <<pc, phase, round, lcores, results>>

\* Recycle of all results, which stay in their place.  The check that every buffer
\* is recycled fails when some vector was recycled before: its memzones are in the
\* stock, or in a newer result and then recycled once for two vectors.
Recycle(next) ==
  /\ pc' = IF \E p \in Places : results[p] = "stale" THEN "aborted" ELSE next
  /\ results' = [p \in Places |-> IF results[p] = "live" THEN "stale" ELSE results[p]]

Waited == pc = "wait" /\ idx = NumLcores

CompressFailed ==
  /\ Waited /\ phase = "compress" /\ ~success
  /\ Recycle("failed")
  /\ UNCHANGED <<phase, round, idx, at, success, lcores>>

\* The results of a round are recycled, but those of the last are decompressed.
CompressSucceeded ==
  /\ Waited /\ phase = "compress" /\ success
  /\ round < NumTests
  /\ Recycle("launch")
  /\ round' = round + 1
  /\ Restart
  /\ UNCHANGED <<phase, success, lcores>>

\* A fault for LastCompressSucceeded: the last results are recycled as well.
LastCompressRecycled ==
  /\ Waited /\ phase = "compress" /\ success
  /\ round = NumTests
  /\ Recycle("allocate")
  /\ Restart
  /\ UNCHANGED <<phase, round, success, lcores>>

\* The results of the last round stay.
LastCompressSucceeded ==
  /\ Waited /\ phase = "compress" /\ success
  /\ round = NumTests
  /\ pc' = "allocate"
  /\ Restart
  /\ UNCHANGED <<phase, round, success, lcores, results>>

\* The buffers to decompress into are allocated.
Allocate ==
  /\ pc = "allocate"
  /\ pc' = "launch"
  /\ phase' = "decompress"
  /\ round' = 1
  /\ Restart
  /\ UNCHANGED <<success, lcores, results>>

\* A fault for AllocateFails: nothing is recycled.
AllocateFailsOnly ==
  /\ pc = "allocate"
  /\ pc' = "failed"
  /\ UNCHANGED <<phase, round, idx, at, success, lcores, results>>

\* There is no memory for one of them.
AllocateFails ==
  /\ pc = "allocate"
  /\ Recycle("failed")
  /\ UNCHANGED <<phase, round, idx, at, success, lcores>>

DecompressFailed ==
  /\ Waited /\ phase = "decompress" /\ ~success
  /\ Recycle("failed")
  /\ UNCHANGED <<phase, round, idx, at, success, lcores>>
DecompressSucceeded ==
  /\ Waited /\ phase = "decompress" /\ success
  /\ round < NumTests
  /\ pc' = "launch"
  /\ round' = round + 1
  /\ Restart
  /\ UNCHANGED <<phase, success, lcores, results>>
LastDecompressSucceeded ==
  /\ Waited /\ phase = "decompress" /\ success
  /\ round = NumTests
  /\ Recycle("done")
  /\ UNCHANGED <<phase, round, idx, at, success, lcores>>

Main ==
  \/ Prepare
  \/ Launch
  \/ Launched
  \/ WaitLcore
  \/ CompressFailed
  \/ CompressSucceeded
  \/ LastCompressSucceeded
  \/ Allocate
  \/ AllocateFails
  \/ DecompressFailed
  \/ DecompressSucceeded
  \/ LastDecompressSucceeded

Worker(l) == Callback(l) \/ Returns(l)

Next == Main \/ \E l \in Lcores : Worker(l)

Spec == Init /\ [][Next]_vars

-----------------------------------------------------------------------------
(* What should hold *)

\* The loops over num_parallel_tests() stay within the queue pairs: Advance never
\* stands behind the last one while there are lcores left to launch or wait for.
TypeOK ==
  /\ pc \in {"prepare", "launch", "wait", "allocate", "done", "failed", "aborted"}
  /\ phase \in {"compress", "decompress"}
  /\ round \in 1..NumTests
  /\ idx \in 0..NumLcores
  /\ idx < NumLcores => at \in Places
  /\ success \in BOOLEAN
  /\ lcores \in [Lcores -> [state : {"wait", "running", "returned"},
                            work : {"none", "compress", "decompress"},
                            at : Places,
                            ret : {NeverRan, Failed, AsyncReturnOK}]]
  /\ results \in [Places -> {"empty", "live", "stale"}]

Working(l) == lcores[l].state # "wait"

\* The parameters and the callback that an lcore works with are locals of
\* BenchmarkCompressAsync or BenchmarkDecompressAsync: it works for no other call
\* than the one the main lcore is in.
ParamsOutliveWork ==
  \A l \in Lcores : Working(l) => pc \in {"launch", "wait"} /\ lcores[l].work = phase

\* What an lcore works on belongs to its queue pair and to nobody else's, and the
\* main lcore never finds one busy that it wants to launch.
LcoresToThemselves ==
  /\ \A l \in Lcores : Working(l) => LcoreOf(lcores[l].at) = l
  /\ \A l, m \in Lcores : Working(l) /\ Working(m) /\ l # m => lcores[l].at # lcores[m].at
  /\ pc = "launch" /\ idx < NumLcores => ~Working(LcoreOf(at))

\* When a round of compressions counts as a success every result is there, of this
\* round; the EAL returns what an lcore returned last, whenever that was.
SuccessIsComplete ==
  Waited /\ phase = "compress" /\ success => \A p \in Places : results[p] = "live"

\* No lcore decompresses buffers that have been given back to the stock.
DecompressesLive ==
  \A l \in Lcores : Working(l) /\ lcores[l].work = "decompress" =>
                     results[lcores[l].at] = "live"

\* The evaluation gives all memzones back, whether it succeeds or not.
AllRecycled == pc \in {"done", "failed"} => \A p \in Places : results[p] # "live"

\* apps/demo_app.cc waits for all lcores to "Avoid missing the opportunity to
\* recycle" and checks on the way that all buffers are recycled: the check holds.
RecycleCheckHolds == pc # "aborted"
=============================================================================
