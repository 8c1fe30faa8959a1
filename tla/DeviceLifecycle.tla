-------------------------- MODULE DeviceLifecycle --------------------------
(***************************************************************************)
(* The life of a CompressDevice (src/device.cc): Initialize, which may     *)
(* fail at every step and be called again, and the destructor; with the    *)
(* memory of its queue pairs (QueuePairMemory::Preallocate, src/memory.cc) *)
(* and the state of the hardware as DPDK sees it.                          *)
(*                                                                         *)
(* A configuration is reduced to what decides the course of Initialize and *)
(* the size of the pools.  The memzone stock itself is in DeviceMemory.    *)
(***************************************************************************)
EXTENDS Naturals, Sequences, SegmentSizes

CONSTANTS
  NumQps,          \* num_qps(): the number of worker lcores
  BurstSizes,      \* the burst sizes of the configurations tried
  SglSegs,         \* their max_sgl_segs
  SegSizes,        \* their decompressed_seg_size
  Defects,         \* what else may be wrong with them, "none" included
  MaxInflightOps,  \* kMaxInflightOps
  MaxInflightMbufs,\* kMaxInflightMbufs
  MaxCache,        \* RTE_MEMPOOL_CACHE_MAX_SIZE
  MaxAttempts      \* bound: calls of Initialize

ASSUME LifecycleAssumption ==
  /\ NumQps \in Nat \ {0}
  /\ BurstSizes \subseteq Nat
  /\ SglSegs \subseteq Nat
  /\ SegSizes \subseteq Nat
  /\ Defects \subseteq {"none", "type", "value"}
  /\ MaxInflightOps \in Nat \ {0}
  /\ MaxInflightMbufs \in Nat
  /\ MaxInflightMbufs >= 16 * MaxInflightOps
  /\ MaxCache \in Nat
  /\ MaxAttempts \in Nat

VARIABLES
  state,         \* state_
  configuration, \* configuration_
  deviceMemory,  \* device_memory_: "none", or how far its Preallocate came
  qpMemory,      \* qp_memory_
  hardware,      \* DPDK: the device is closed, configured or running
  setUp,         \* DPDK: the queue pairs that are set up
  attempts       \* calls of Initialize so far

vars == <<state, configuration, deviceMemory, qpMemory, hardware, setUp, attempts>>

Qps == 0..(NumQps - 1)

Configuration ==
  [burst : BurstSizes, sgl : SglSegs, seg : SegSizes, defect : Defects]
NoConfiguration == [burst |-> 0, sgl |-> 0, seg |-> 0, defect |-> "unset"]

-----------------------------------------------------------------------------
(* QueuePairMemory::Preallocate *)

Least(a, b) == IF a <= b THEN a ELSE b

\* A burst contains source mbufs and destination mbufs.
NumMbufsInBurst(c) == c.burst * c.sgl * 2

\* A fault for NumMbufsInPool: no room for the burst that is being assembled.
NumMbufsInPoolNoBurst(c) ==
  Least(NumMbufsInBurst(c) * MaxInflightOps, MaxInflightMbufs)
    + Least(NumMbufsInBurst(c) * 2, MaxCache)

\* num_mbufs_in_pool: the inflight mbufs, the cache and one burst.
NumMbufsInPool(c) ==
  Least(NumMbufsInBurst(c) * MaxInflightOps, MaxInflightMbufs)
    + Least(NumMbufsInBurst(c) * 2, MaxCache)
    + NumMbufsInBurst(c)

\* num_ops_in_pool, rounded up.
NumOpsInPool(c) == (NumMbufsInPool(c) \div 2 + c.sgl - 1) \div c.sgl

\* A QueuePairMemory: its queue pair, how far its Preallocate came ("none", the
\* mbuf pool but not everything, "all"), and what its pools and memzones were
\* sized for.
Memory(qp, has, c) ==
  [qp |-> qp, has |-> has, burst |-> c.burst, sgl |-> c.sgl, seg |-> c.seg]
Memories ==
  [qp : Qps, has : {"none", "some", "all"},
   burst : BurstSizes \ {0}, sgl : (SglSegs \ {0}) \cup {1},
   seg : SegSizes \cap MinSegSize..MaxSegSize]

\* The names of mbuf pools, which DPDK wants unique, are made of the device and
\* the queue pair.
NameTaken(memories, qp) ==
  \E i \in DOMAIN memories : memories[i].qp = qp /\ memories[i].has # "none"

-----------------------------------------------------------------------------
(* Initialize *)

\* A fault for Corrected: max_sgl_segs is used as it was set.
CorrectedNever(c) == c

\* A fault for Valid: decompressed_seg_size has a lower bound only.
ValidUnbounded(c) ==
  c.burst > 0 /\ c.seg >= MinSegSize /\ c.defect = "none"

\* ValidateConfiguration: burst_size, decompressed_seg_size and the other values;
\* max_sgl_segs is corrected.
Corrected(c) == [c EXCEPT !.sgl = IF c.sgl < 1 THEN 1 ELSE c.sgl]
Valid(c) ==
  c.burst > 0 /\ c.seg \in MinSegSize..MaxSegSize /\ c.defect = "none"

Init ==
  /\ state = "undefined"
  /\ configuration = NoConfiguration
  /\ deviceMemory = "none"
  /\ qpMemory = <<>>
  /\ hardware = "closed"
  /\ setUp = {}
  /\ attempts = 0

Attempt(c) ==
  /\ state # "destroyed"
  /\ attempts < MaxAttempts
  /\ attempts' = attempts + 1
  /\ c \in Configuration

\* set_configuration rejects the type and leaves the device as it is;
\* ValidateConfiguration rejects a value when configuration_ is set already, the
\* burst size before max_sgl_segs is corrected, the segment size after, other
\* values before or after.
InitializeRejected(c) ==
  /\ Attempt(c)
  /\ ~Valid(c)
  /\ configuration' \in CASE c.defect = "type" -> {configuration}
                         [] c.defect = "value" /\ c.burst > 0 -> {c, Corrected(c)}
                         [] c.defect = "none" /\ c.burst > 0 -> {Corrected(c)}
                         [] OTHER -> {c}
  /\ UNCHANGED <<state, deviceMemory, qpMemory, hardware, setUp>>

\* The configuration is accepted and replaces the last one.
Accepted(c) ==
  /\ Attempt(c)
  /\ Valid(c)
  /\ configuration' = Corrected(c)

\* DeviceMemory::Preallocate fails, in a new object; the old one is destroyed.
InitializeWithoutMemzones(c) ==
  /\ Accepted(c)
  /\ deviceMemory' = "partial"
  /\ UNCHANGED <<state, qpMemory, hardware, setUp>>

\* A fault for Complete: the status of the last queue pair's Preallocate is lost.
CompleteButLast(qp, c) ==
  [i \in 1..qp |-> Memory(i - 1, IF i = NumQps THEN "some" ELSE "all",
                          Corrected(c))]

\* The memory of queue pairs 0..qp-1 of this attempt.
Complete(qp, c) == [i \in 1..qp |-> Memory(i - 1, "all", Corrected(c))]

\* Preallocate of queue pair qp fails: with its mbuf pool, because there is no
\* memory or because an earlier attempt still has a pool of that name, or later.
InitializeWithoutPools(c, qp) ==
  /\ Accepted(c)
  /\ deviceMemory' = "complete"
  /\ \A p \in 0..(qp - 1) : ~NameTaken(qpMemory, p)
  /\ \E has \in IF NameTaken(qpMemory, qp) THEN {"none"} ELSE {"none", "some"} :
       qpMemory' = qpMemory \o Complete(qp, c)
                            \o <<Memory(qp, has, Corrected(c))>>
  /\ UNCHANGED <<state, hardware, setUp>>

\* All memory is there; what follows is up to DPDK.
Allocated(c) ==
  /\ Accepted(c)
  /\ \A p \in Qps : ~NameTaken(qpMemory, p)
  /\ deviceMemory' = "complete"
  /\ qpMemory' = qpMemory \o Complete(NumQps, c)

\* rte_compressdev_configure fails.
InitializeNotConfigured(c) ==
  /\ Allocated(c)
  /\ UNCHANGED <<state, hardware, setUp>>

\* rte_compressdev_configure refuses a device that runs.
Configured(c) ==
  /\ Allocated(c)
  /\ hardware # "running"

\* A fault for InitializeNotSetUp: state_ is set after the queue pairs.
InitializeNotSetUpUnrecorded(c, qp) ==
  /\ Configured(c)
  /\ hardware' = "configured"
  /\ setUp' = 0..(qp - 1)
  /\ UNCHANGED state

\* The queue pairs before qp are set up, qp is not.
InitializeNotSetUp(c, qp) ==
  /\ Configured(c)
  /\ state' = "configured"
  /\ hardware' = "configured"
  /\ setUp' = 0..(qp - 1)

\* rte_compressdev_start fails.
InitializeNotStarted(c) ==
  /\ Configured(c)
  /\ state' = "configured"
  /\ hardware' = "configured"
  /\ setUp' = Qps

Initialize(c) ==
  /\ Configured(c)
  /\ state' = "started"
  /\ hardware' = "running"
  /\ setUp' = Qps

-----------------------------------------------------------------------------
\* ~CompressDevice: stops and closes the device as far as state_ says it has
\* come, then the members go: qp_memory_ before device_memory_.
Destroy ==
  /\ state # "destroyed"
  /\ state' = "destroyed"
  /\ hardware' = IF state \in {"configured", "started"} THEN "closed" ELSE hardware
  /\ setUp' = IF state \in {"configured", "started"} THEN {} ELSE setUp
  /\ qpMemory' = <<>>
  /\ deviceMemory' = "none"
  /\ configuration' = NoConfiguration
  /\ UNCHANGED attempts

Next ==
  \/ \E c \in Configuration :
       \/ InitializeRejected(c)
       \/ InitializeWithoutMemzones(c)
       \/ \E qp \in Qps : InitializeWithoutPools(c, qp)
       \/ InitializeNotConfigured(c)
       \/ \E qp \in Qps : InitializeNotSetUp(c, qp)
       \/ InitializeNotStarted(c)
       \/ Initialize(c)
  \/ Destroy

Spec == Init /\ [][Next]_vars

-----------------------------------------------------------------------------
(* What should hold *)

\* Types: memory is only allocated for a burst of at least one operation of at
\* least one segment of an accepted size, as ValidateConfiguration checks and
\* corrects.
TypeOK ==
  /\ state \in {"undefined", "configured", "started", "destroyed"}
  /\ configuration \in Configuration \cup {NoConfiguration}
                      \cup {Corrected(c) : c \in Configuration}
  /\ deviceMemory \in {"none", "partial", "complete"}
  /\ qpMemory \in Seq(Memories)
  /\ hardware \in {"closed", "configured", "running"}
  /\ setUp \in SUBSET Qps
  /\ attempts \in 0..MaxAttempts

\* state_ tells what the destructor has to undo: the hardware runs exactly when
\* the device is started, with every queue pair set up, and a destroyed device
\* leaves it closed, wherever Initialize failed.
HardwareFollowsState ==
  /\ state = "started" <=> hardware = "running"
  /\ state = "configured" <=> hardware = "configured"
  /\ state = "started" => setUp = Qps
  /\ hardware = "closed" => setUp = {}

\* qp_memory_ of a started device holds the memory of the attempt that succeeded,
\* complete and in the order of the queue pairs; what failed attempts left before
\* or after it holds no pool.
OneAttemptAllocated ==
  state = "started" =>
    \E first \in 0..(Len(qpMemory) - NumQps) :
      /\ \A qp \in Qps : LET m == qpMemory[first + qp + 1]
                        IN  m.qp = qp /\ m.has = "all"
      /\ \A i \in DOMAIN qpMemory :
           i \notin (first + 1)..(first + NumQps) => qpMemory[i].has = "none"

\* The pools of a queue pair hold the operations and mbufs of a full hardware
\* queue and of one more burst, for every configuration of up to 8 segments in
\* an operation.
CoversQueue(m) ==
  LET ops == MaxInflightOps + m.burst
  IN  NumOpsInPool(m) >= ops /\ NumMbufsInPool(m) >= 2 * m.sgl * ops
PoolsCoverQueue ==
  \A i \in DOMAIN qpMemory : qpMemory[i].sgl <= 8 => CoversQueue(qpMemory[i])

\* The memzone of a segment, whose length goes through 16 bits on its way to the
\* mbuf, keeps its size, is the nearest power of two or what an mbuf can show, and
\* misses room for a stored block at sizes just below a power of two only.
SegmentsFit == \A i \in DOMAIN qpMemory : Fits(qpMemory[i].seg)

\* UpdateCompressedSegSize's size "should be enough to store incompressible data"
\* (src/include/config.h:141): of every accepted segment size, one stored block.
IncompressibleFits ==
  \A i \in DOMAIN qpMemory :
    MbufLength(qpMemory[i].seg) >= qpMemory[i].seg + StoredBlock

\* src/include/device.h on Compress and Decompress: "the resources allocated for
\* the queue_pair_id are used".  They take qp_memory_[queue_pair_id].
OwnResourcesUsed ==
  state = "started" =>
    \A qp \in Qps : qpMemory[qp + 1].qp = qp /\ qpMemory[qp + 1].has = "all"

=============================================================================
