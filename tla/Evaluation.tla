------------------------------ MODULE Evaluation ------------------------------
(***************************************************************************)
(* Evaluate of the demo application (apps/demo_app.cc): the devices are    *)
(* configured for the size of the input (apps/app_common.cc), EvaluateSync *)
(* runs on the main lcore with the first device, and EvaluateAsync, which  *)
(* is AsyncEvaluation, with all of them.                                   *)
(***************************************************************************)
EXTENDS AsyncEvaluation

CONSTANTS
  InputSizes,      \* the sizes of the inputs tried, in bytes
  SegSize,         \* kDecompressedSegSize
  MinPreallocate,  \* kMinPreallocateMemzones
  MaxMemzones,     \* RTE_MAX_MEMZONE
  Width            \* values of a std::uint16_t

ASSUME SizingAssumption ==
  /\ InputSizes \subseteq Nat
  /\ SegSize \in Nat \ {0}
  /\ MinPreallocate \in Nat
  /\ MaxMemzones \in Nat
  /\ Width \in Nat /\ Width > MaxMemzones

VARIABLES
  stage,      \* "configure", "sync", "async" or "failed"
  input,      \* input_buffer->size()
  syncPc,     \* where EvaluateSync is
  syncRound,  \* its idx, from 1
  syncResult  \* its compressed_buffers: "empty", "live" or "stale"

syncVars == <<syncPc, syncRound, syncResult>>
allVars == <<vars, stage, input, syncVars>>

-----------------------------------------------------------------------------
(* Sizes *)

\* Division that rounds up, as the code writes it.
DivideUp(a, b) == (a + b - 1) \div b

\* A fault for MemzonesTotal: num_parallel_tests() is not added.
MemzonesTotalUnsplit(n) == DivideUp(n, SegSize)

\* max_preallocate_memzones_total, and its share of one device in 16 bits.
MemzonesTotal(n) == DivideUp(n, SegSize) + NumLcores
MaxPreallocate(n) == DivideUp(MemzonesTotal(n), NumDevices) % Width

\* The input of the lcore with place idx in the loop, from 0.
SegmentSize(n, i) == n \div NumLcores + (IF i < n % NumLcores THEN 1 ELSE 0)

\* The memzones that the compressed segment of an lcore takes.
MemzonesOf(p) == DivideUp(SegmentSize(input, LcoreOf(p) - 1), SegSize)

-----------------------------------------------------------------------------
EvaluationInit ==
  /\ Init
  /\ stage = "configure"
  /\ input \in InputSizes
  /\ syncPc = "compress"
  /\ syncRound = 1
  /\ syncResult = "empty"

\* GetBlueFieldCompressDevices: every Initialize gets the same number.
Configured ==
  /\ stage = "configure"
  /\ MaxPreallocate(input) \in MinPreallocate..MaxMemzones
  /\ stage' = "sync"
  /\ UNCHANGED <<vars, input, syncVars>>

\* ValidateConfiguration rejects the number, or Initialize fails elsewhere.
NotConfigured ==
  /\ stage = "configure"
  /\ stage' = "failed"
  /\ UNCHANGED <<vars, input, syncVars>>

-----------------------------------------------------------------------------
(* EvaluateSync *)

SyncAt(p) == stage = "sync" /\ syncPc = p

SyncFails(result) ==
  /\ stage' = "failed"
  /\ syncResult' = result
  /\ UNCHANGED <<vars, input, syncPc, syncRound>>

SyncCompress ==
  /\ SyncAt("compress")
  /\ syncPc' = "compressed"
  /\ syncResult' = "live"
  /\ UNCHANGED <<vars, stage, input, syncRound>>

SyncCompressFails == SyncAt("compress") /\ SyncFails(syncResult)

\* A fault for SyncCompressed: the last result is recycled with the others.
SyncCompressedAll ==
  /\ SyncAt("compressed")
  /\ syncResult' = "empty"
  /\ IF syncRound < NumTests
       THEN syncPc' = "compress" /\ syncRound' = syncRound + 1
       ELSE syncPc' = "allocate" /\ UNCHANGED syncRound
  /\ UNCHANGED <<vars, stage, input>>

\* The result is recycled and cleared, but the last one is kept.
SyncCompressed ==
  /\ SyncAt("compressed")
  /\ IF syncRound < NumTests
       THEN /\ syncPc' = "compress"
            /\ syncRound' = syncRound + 1
            /\ syncResult' = "empty"
       ELSE syncPc' = "allocate" /\ UNCHANGED <<syncRound, syncResult>>
  /\ UNCHANGED <<vars, stage, input>>

SyncAllocate ==
  /\ SyncAt("allocate")
  /\ syncPc' = "decompress"
  /\ syncRound' = 1
  /\ UNCHANGED <<vars, stage, input, syncResult>>

SyncAllocateFails == SyncAt("allocate") /\ SyncFails("stale")

SyncDecompress ==
  /\ SyncAt("decompress")
  /\ IF syncRound < NumTests
       THEN syncRound' = syncRound + 1 /\ UNCHANGED <<syncPc, syncResult>>
       ELSE syncPc' = "compare" /\ syncResult' = "empty" /\ UNCHANGED syncRound
  /\ UNCHANGED <<vars, stage, input>>

SyncDecompressFails == SyncAt("decompress") /\ SyncFails("stale")

\* EvaluateAsync follows when the decompressed buffer is the input.
SyncCompare ==
  /\ SyncAt("compare")
  /\ stage' = "async"
  /\ UNCHANGED <<vars, input, syncVars>>

SyncCompareFails == SyncAt("compare") /\ SyncFails(syncResult)

Sync ==
  \/ SyncCompress
  \/ SyncCompressFails
  \/ SyncCompressed
  \/ SyncAllocate
  \/ SyncAllocateFails
  \/ SyncDecompress
  \/ SyncDecompressFails
  \/ SyncCompare
  \/ SyncCompareFails

-----------------------------------------------------------------------------
Async ==
  /\ stage = "async"
  /\ Next
  /\ UNCHANGED <<stage, input, syncVars>>

EvaluationNext == Configured \/ NotConfigured \/ Sync \/ Async

EvaluationSpec == EvaluationInit /\ [][EvaluationNext]_allVars

\* The main lcore runs, and so does every lcore that has work.
EvaluationFairSpec ==
  /\ EvaluationSpec
  /\ WF_allVars(Configured \/ NotConfigured \/ Sync \/ (Async /\ Main))
  /\ \A l \in Lcores : WF_allVars(Async /\ Worker(l))

-----------------------------------------------------------------------------
(* What should hold *)

\* EvaluateSync decompresses only what has not been recycled, and the memzones of
\* its results are back in the stock of the first device when EvaluateAsync starts
\* on it, and when it fails.
SyncRecycles ==
  /\ SyncAt("decompress") => syncResult = "live"
  /\ stage \in {"async", "failed"} => syncResult # "live"

Share == DivideUp(DivideUp(input, NumLcores), SegSize)
Taken(p) ==
  \/ results[p] = "live"
  \/ lcores[LcoreOf(p)].state = "running" /\ lcores[LcoreOf(p)].work = "compress"

\* The memzones taken by the lcores of device d, added up over its queue pairs.
HeldBy(p) == IF Taken(p) THEN MemzonesOf(p) ELSE 0
Held(d) ==
  LET upTo[n \in 0..NumQps(d)] == IF n = 0 THEN 0 ELSE upTo[n - 1] + HeldBy(<<d, n - 1>>)
  IN upTo[NumQps(d)]

\* A device whose number of lcores is its even share never takes more memzones for
\* the results of EvaluateAsync than were asked for at its start; for each lcore
\* that it has beyond that share it may take the memzones of that lcore.  The stock
\* of an input that is cut to 16 bits is another matter.
StockSuffices ==
  stage = "async" /\ DivideUp(MemzonesTotal(input), NumDevices) < Width =>
    \A d \in Devices :
      NumDevices * Held(d) + NumLcores * Share
        <= NumDevices * MaxPreallocate(input) + NumDevices * NumQps(d) * Share

\* Evaluate comes to its end, whatever fails.
EvaluateEnds == <>(stage = "failed" \/ pc \in {"done", "failed", "aborted"})

=============================================================================
