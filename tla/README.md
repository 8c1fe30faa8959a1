# A TLA+ verification of bitar

bitar compresses and decompresses Arrow buffers with DPDK compress devices (the
BlueField DPU's accelerator). It is a small library, but its core is the kind of code
that unit tests reach badly: lcores that share a stock of memzones, a hardware queue
that takes only part of what it is offered, operations in flight when a call fails,
pools sized so that they never run dry, and an application that hands work to other
lcores and waits for it. This directory models that code, checks it with TLC and proves
its central invariants with TLAPS.

File names below are relative to the root of the repository.

## 1. The system

| Component | State | Operations | Talks to |
|---|---|---|---|
| `DeviceMemory` (`src/memory.cc`, `memory.h`): stock of memzones of one device | `memzone_pool_` (a stack), `occupied_memzones_`, a mutex | `Preallocate`, `Take`, `Put`, destructor | the memzone allocator; used by all lcores of the device |
| `QueuePairMemory` (`src/memory.cc`): memory of one queue pair | mbuf pool, operation pool, `operations_` with `num_ops_assembled_`, `pending_operations_` | `Preallocate`, `AssembleFrom`, `AccumulateUnused`, `RecycleResources`, `Release` | `DeviceMemory`, DPDK pools |
| `CompressDevice` (`src/device.cc`): one device | `state_`, `configuration_`, `device_memory_`, `qp_memory_`; a static counter in `GetErrorCount` | `Initialize`, `Compress`, `Decompress`, `Recycle`, destructor | queue pair memory, hardware queues |
| the hardware (external) | a queue per queue pair, error counters | accept part of a burst, finish operations, report a status, stop | `CompressDevice` |
| `Configuration` (`src/config.cc`) | burst size, segments per operation, segment sizes, memzones | setters, `UpdateCompressedSegSize` | read by `Initialize` and the data path |
| `RtememzoneMemoryPool`, allocator and tracker (`src/memory_pool.cc`) | `allocated_memzones_`, a mutex | `Allocate`, `Reallocate`, `Free`, `Emplace`, `Of`, `Release` | DPDK memzones; any thread |
| `CompressDriver`, `DeviceManager` (`src/driver.cc`) | none after construction | enumerate devices, `CreateDevices` | the EAL |
| `CompressAsync` / `DecompressAsync` (`src/include/util.h`) | parameters and callbacks of one launch | run on a worker lcore | the EAL |
| demo application (`apps/demo_app.cc`) | result vectors, the lcores it launched | `EvaluateSync`, `EvaluateAsync` | all of the above |

How a compression goes: an lcore calls `Compress(queue_pair_id, buffer)`. `EntryGuard`
refuses a queue pair that still has pending operations. `AssembleFrom` allocates
operations and mbufs for one burst, points the destination mbufs at memzones taken from
the device's stock, and appends the operations to `operations_` and
`pending_operations_`. `EnqueueBurst` offers them; the device takes some, the others move
to the front. `DequeueBurst` takes what is finished; for each success `RecycleResources`
frees the operation *at the front of* `pending_operations_`. The caller owns the
memzones in the result until `Recycle`. Any failure ends in `ReleaseAll`, which recycles
the result and releases everything pending. `Decompress` is the mirror image, without
memzones, and without `ReleaseAll`.

What is hard about it:

* **order**: `RecycleResources` trusts that `pending_operations_` has the order of the
  hardware queue, whatever partial enqueues and dequeues happened (the check of this is
  an `assert`, absent from release builds);
* **failure half way**: memzones run out in the middle of a batch, an operation of a
  burst fails, a queue pair stops, `Initialize` fails after some queue pairs;
* **sharing**: the memzone stock and the tracker are shared by lcores; `GetErrorCount`'s
  counter is one unsynchronised static variable;
* **termination**: a call loops until nothing is pending, and only the error counters
  get it out of the loop when the hardware stops;
* **sizes**: pool sizes are computed so that a full hardware queue and one more burst
  always fit;
* **lifetime**: worker lcores use locals of the main lcore's call.

`PROJECT.json` lists these and the smaller ones as `hazards`, each at its line, with the
properties that cover it or the reason why none does.

### What makes each component correct

* stock: a memzone is in one place; what is reserved is in the stock or taken; a started
  device keeps its minimum;
* data path: pending operations match what is in flight; nothing freed twice or leaked;
  results complete and in order; round trip; no memzone used twice; pools never dry;
  every call returns;
* life of a device: the destructor undoes exactly what was done; one attempt's memory;
* memory pool: a thread's memory is its own; the tracker knows every memzone, and knows it
  by the right descriptor;
* segment sizes: what is compressed into a memzone fits it, in the 16 bits of its length;
* evaluation: no work on dead parameters; success means completeness; everything
  recycled; the stock covers what is asked of it; it ends.

## 2. The modules

| Module | Models | Proofs |
|---|---|---|
| `DeviceMemory` | the memzone stock, every operation an action | `DeviceMemoryProofs` |
| `CompressDevice` (instance `MCCompressDevice`) | the data path of a started device: lcores, queue pair memory, hardware; composes `DeviceMemory` by `INSTANCE` | `CompressDeviceProofs`, `MemzoneProofs`, `ResultProofs`, `PoolProofs` |
| `CompressionService` | the abstract specification: what a queue pair promises its lcore | in `ResultProofs` |
| `CompressRefinement` | the state of the service that a state of `CompressDevice` stands for | in `ResultProofs` |
| `SegmentSizes` | `UpdateCompressedSegSize`, lengths of memzones and mbufs, as operators | in `DeviceLifecycleProofs` |
| `DeviceLifecycle` | `Initialize` with every failure, repeated; destructor; `QueuePairMemory::Preallocate` | `DeviceLifecycleProofs` |
| `MemoryPool` (instance `MCMemoryPool`) | `RtememzoneMemoryPool`, its allocator and tracker, several threads | `MemoryPoolProofs` |
| `AsyncEvaluation` | `EvaluateAsync`, `CompressAsync`/`DecompressAsync`, launch and wait, distribution of lcores | `EvaluationProofs` |
| `Evaluation` | `Evaluate`: the sizes the devices are configured with, `EvaluateSync`, then `AsyncEvaluation`, which it extends | `EvaluationProofs` |

Definitions called "A fault for X" are plausible bugs of `X`. They are part of no
specification; they document, through the `mutants` of `PROJECT.json`, which slip in the
code each property would catch.

### DeviceMemory

`reserved` is what the allocator has handed out, `pool` the stack, `occupied` the taken
memzones. `PreallocateEnds` with fewer than the minimum (`kMinPreallocateMemzones`, 20) is
the failure of `Initialize`; fewer than the maximum is not.

`Take` runs under the mutex from beginning to end and is one step. It returns `nullptr`
(`TakeReturnsNull`) whenever the stack is empty and the reservation fails, which it may do
although there is memory: the name of a memzone is a time stamp and may be in use
(`src/memory_pool.cc:134`).

`Put` is not one critical section. It first asks the tracker for the memzone of its address,
without a lock (`src/memory.cc:193`). What follows under the mutex, erasing and pushing, is
`Put`; an address that is not recorded as taken is ignored, as in the code. A lookup that
runs while another lcore's `Take` inserts its new entry may find nothing, and then nothing
is done: `PutMisses`. In `DeviceMemory` alone a lookup may miss at any time; when it really
can is what `CompressDevice` knows. The lookup itself needs no step of its own: it does
nothing but decide between the two, and nothing can come between a lookup that finds the
memzone and the push that makes a difference, since only the caller puts this memzone back.

The device is taken to be the tracker's only user, so that all insertions are made in `Take`
and exclude each other by its mutex. With a second device, or a `MemoryPool` in the same
process, two insertions may overlap, and `AllocateOne` (`src/memory.cc:72`) may then return an
`OK` whose memzone is `nullptr`; this is not in the model of a device. `MemoryPool` models
the tracker with several users and shows that entries get lost.

### CompressDevice

`call[q].pc` says where the lcore of queue pair `q` is; one action is one stretch of code
between two points at which another lcore or the hardware can be observed:

| pc | code | actions |
|---|---|---|
| `idle` | between calls | `Compress`, `Decompress`, `Cancelled` (EntryGuard), `Recycle` |
| `loop` | the `while` of Compress/Decompress | `Assemble`, `AssembleFails`, `Enqueue`, `EnqueueFails`, `Dequeue`, `DequeueFails`, `Return` |
| `take` | `AssembleFrom` taking memzones, one `Take` per step | `TakeDst`, `TakeFails` |
| `dequeue` | after `EnqueueBurst` | `Dequeue`, `DequeueFails` |
| `burst` | the loop over a dequeued burst | `RecycleOp`, `OpFails` |
| `putback` | `Recycle`'s loop, one `PutZone` per step | `PutBack` |
| `release` | `Release`, one `PutZone` per step | `ReleaseDst`, `ReleaseOp`, `ReleaseEnds` |
| `undefined` | a call entered while the hardware or `operations_` still has operations that were freed | none |

Data is reduced to segment numbers: request `n` is the segments `1..n`, an operation a
range of them, a compressed buffer one part of the stream of an operation. That is enough
to tell whether a result is complete, in order, and decompressible, and nothing about
bytes is claimed. `Decompressible` says when the device can undo what it did: one whole
stream, with room for its segments. That it reports anything else by a status other than
success is an assumption: the code looks at the status only and never at the number of
bytes consumed (`src/device.cc:512`), and would take a device that stops after the first of two
streams of a chain at its word. The documentation of DPDK does not settle what a device
does there.

`PutZone` is `Put`, or, when another lcore is in the `Take` that reserves a memzone
(`LookupMayMiss`), `PutMisses`. `astray` is a history variable: the taken memzones that
nobody will put back any more. There are two ways to get there, a missed lookup and a stream
that ends before the last memzone of its operation (`Unfilled`, `src/device.cc:183`).

The hardware is external. It accepts any number of the offered operations that fit,
finishes them in order, may end one with an error status (`"status"` in `Faults`) or stop
for good (`"device"`). An empty burst asks for the device's error counters every
`NumIgnored`-th time (`kNumIgnoredMaybeNotOKBurst`, 10). With several lcores the static
counter may have any value after an increment, because nothing synchronises it.

After a failed call with operations still in flight the code's behaviour is undefined when
the queue pair is used again (freed operations are enqueued or dequeued). The model marks
that with `undefined` and follows it no further; what leads there is the subject of two
findings.

### CompressionService and CompressRefinement

The service knows calls and results only: no bursts, pools, memzones or hardware. A call
is two steps, its beginning and its end, and between them `phase` says which call it is.
A `Compress` that succeeds has `IsCompression`: the pieces of all streams, complete and in
order. A `Decompress` that succeeds has written every stream to the place of its first
segment. A call that fails leaves no result of its own, and the queue pair in some
`health`: `busy` (a failed `Decompress` has left operations pending and every later call is
cancelled) or `tainted` (a failed `Compress` has released operations that the hardware or
`operations_` still has: nothing is promised for the next call). Both are the code's
behaviour, not an ideal one; a service without them would be violated.

The mapping of `CompressRefinement` hides everything inside a call: a call that has failed
counts as running until `Release` has ended, a `Recycle` has given its result away when it
begins. `ImplementsService` then says that no burst, no step of the hardware, no step of
another lcore and no way to fail shows.

### DeviceLifecycle

One action per way in which an `Initialize` can end, `InitializeRejected` to `Initialize`,
each with every assignment made up to that point, and `Destroy`. The step is atomic: no
document allows two threads in `Initialize`. `hardware` and `setUp` are DPDK's view. Names
of mbuf pools are unique in DPDK (`NameTaken`), and a running device refuses to be
configured. Any state but `destroyed` may be followed by another `Initialize`: the code does
not refuse it. A configuration carries `seg`, the decompressed size of a segment;
`SegmentSizes` has what follows from it: the size of a compressed segment in 16 bits, the
memzone of whole cache lines, the `buf_len` of the mbuf attached to it.

### MemoryPool

A thread owns at most one buffer. DPDK's side, `reserved`, is a set of entries
`<<address, memzone>>`: where the memory starts and which descriptor (`rte_memzone`) it
has. Both are reused, independently of each other. `registry` is the tracker's map, a set
of entries too, and an entry may be out of date: its descriptor may stand for other memory
by now, or for none.

`Emplace`, which changes the map without the mutex, has a beginning (`Reserve`) and an end,
and so has the erase of `Release`. Changes that overlap are a data race, of which either
may be lost: a step starts from the map as it is, or as it was when the call began to
change it (`Bases`). `Emplaced` is `unordered_map::emplace`: a key that is there keeps its
old value, stale or not. `ReleaseFound` does what `src/memory_pool.cc:317` does: it frees
the descriptor found in the map, whatever memory that is. `raced` is a history variable:
some unlocked insertion has met another change. `revived` is the sharper one: such a race
has brought back an entry that had been erased. A crash inside `std::unordered_map` is a
further outcome, not modelled.

### AsyncEvaluation

The main lcore is a program counter over `EvaluateAsync`; a worker lcore is what the EAL
knows of it (`wait`, `running`, `returned`, and the value it returned last, which is not
reset by a launch). A result vector is empty, live, or stale: recycled and still in its
place. The device's id is taken for its place in the list of devices, as the demo does.
Every lcore's part of the input is taken to be non-empty: `Compress` of an empty buffer
returns an empty vector.

### Evaluation

Extends `AsyncEvaluation` by what comes before: `Configured` is the arithmetic of
`GetBlueFieldCompressDevices` with its cut to 16 bits and the range that
`ValidateConfiguration` accepts, the `Sync...` actions are `EvaluateSync` on the main lcore.
`Taken(p)` is the vector of buffers that queue pair `p` holds or is about to hold. `StockSuffices`
compares what the lcores of a device take with what it was asked to preallocate, `D` times
over so that no fraction is needed: with `Held(d)` memzones in use on device `d`, `Share`
the memzones of the largest part of the input, `L` lcores and `D` devices,

    D * Held(d) + L * Share  <=  D * MaxPreallocate + D * NumQps(d) * Share

A device with its even share of lcores (`D * NumQps(d) <= L`) therefore never needs more
than its stock; one with an lcore more may, by the memzones of that lcore, and `Take` then
reserves memzones in the critical path. `EvaluateSync` is not covered: it compresses the
whole input on the first device, whose stock is sized for its share.

## 3. The runs

All of them finish in seconds to two minutes. Passing runs:

| Run | Question | Bounds |
|---|---|---|
| `device_memory` | can the stock lose or duplicate a memzone? | 4 memzones, minimum 2, maximum 3: running out of memory before, between and after the two bounds |
| `device_one_lcore` | do the pools suffice and refill, is the operation that is freed the one that was dequeued, are the streams in order, is this the service that was promised, does every call end? | bursts of 2 on a queue of 3, pools of 5 operations and 10 mbufs, which is what `Preallocate` makes them for these sizes (queue + burst); requests of up to 6 segments, so that a request is longer than the pool and a pool smaller than queue + burst is too small; a burst may exceed the room in the queue, and a dequeued burst may have two operations, one, or part of what is finished; the queue pair may stop at any moment |
| `device_two_lcores` | does the sharing of the stock work on the host side, do streams of several parts come back, what survives failures? | 2 lcores, 3 memzones, 1 of them preallocated: each lcore can starve the other, a `Take` fails in the middle of a batch, and a `Put` misses its memzone while the other lcore reserves one; requests of up to 3 segments in operations of 2 chained ones; error statuses |
| `device_lifecycle` | does every failing `Initialize` leave a consistent device, do memzones keep their sizes? | 2 queue pairs, 3 attempts, burst 0, 64, segments 0, 8, 9, segment sizes 8, 32767, 59460 (the bounds of what is accepted and the last power of two) and 59600 (just too large), three kinds of defect; the real values of `kMaxInflightOps` (512), `kMaxInflightMbufs` (8192) and the cache limit (512) |
| `memory_pool` | is memory exclusive whatever the races on the map lose, is the map exact without races? | 2 threads, 3 addresses and 3 descriptors, so that each is reused while the other thread holds two |
| `async_evaluation` | are parameters alive, is success complete, is everything recycled, does the stock suffice, does it end? | 3 lcores on 2 devices (an uneven distribution), 3 rounds: a stale result and a stale return value survive a full round; segments of 16 bytes instead of 59460, since TLC's integers have 32 bits, inputs of 480 (too few memzones), 627 and 641 (splitting takes two segments, and one, more than the whole), 1048800 (65550 segments: too many) and 2097760 bytes (131110: the 16 bits wrap to 21, which is accepted) |

Two lcores and two threads are enough for what the properties say, which always relates
two users of a memzone, an address or a descriptor. The two runs of the data path divide the
work. `device_one_lcore` has the depth: partial enqueues and dequeues of bursts of several
operations exist from a queue of 2 and bursts of 2 on, and a third place and a sixth segment
make the request longer than the pools. `device_two_lcores` has the breadth: chains, failing
`Take`s, statuses and the interleavings of two lcores, with a queue of one operation. What
only shows with both is left to the proofs, which hold for all of these bounds at once.
Memzones, addresses and operations are symmetric where no liveness is checked and nothing
in the model chooses among them; in `device_one_lcore` memzones are numbers and the initial
stock is in one order instead (`OrderedSpec`). `ImplementsService` is a safety property, so
symmetry is sound for it in `device_two_lcores`.

`CHECK_DEADLOCK FALSE` is set where the system may really stop: a destroyed device, an
evaluation that has ended, a queue pair that is `undefined`, which a failed call leaves
behind. `memory_pool` checks for deadlock.

Fairness is used by two liveness properties.

* `CallsReturn` (`device_one_lcore`): an lcore inside a call keeps running (weak fairness of
  `Work`: it is a busy loop on a dedicated core); the hardware finishes what it accepted
  unless it has stopped (weak fairness of `Complete`); a queue with room that is offered
  operations again and again accepts some eventually (strong fairness of a productive
  `Enqueue`, needed because an empty burst is always allowed). A stalled queue pair is
  under no such obligation: the call returns because the device has counted its error and
  every `NumIgnored`-th empty burst asks for it. This needs the
  lcore to be alone: `GetErrorCount`'s counter is one static variable, and bursts of other
  lcores that move something reset it (`src/device.cc:86`), so that with a second lcore at work a
  call on a stopped queue pair need not ask for the errors, and need not return. A device
  which stops *without* counting an error hangs the call even of a lone lcore; that it
  counts one is an assumption of the model, and of the code.
* `EvaluateEnds` (`async_evaluation`): the main lcore runs (weak fairness of everything it
  does, from the configuration to the last `Recycle`), and a worker's call ends, which
  is assumed here (weak fairness of each worker) and is `CallsReturn` where an
  lcore is alone with the static counter, or no queue pair stops.

## 4. What the model checker found

Six runs are violations: the code does something else than its own documentation says.
Each is in `PROJECT.json` with the quoted line.

1. `finding_taken_memzone`: after a failed `Compress`, `Release` returns to the shared
   stock also the memzones of operations the hardware has not finished. Another lcore
   takes one while the device may still write to it.
2. `finding_released_ops`: `Release` empties `pending_operations_`, not
   `num_ops_assembled_`. If `EnqueueBurst` failed, the next call enqueues freed operations.
3. `finding_failed_attempt`: `PreAllocateMemory` only appends to `qp_memory_`. An
   `Initialize` that succeeds after one that failed leaves queue pair 0 with the empty
   memory of the failed attempt, and every other with its neighbour's.
4. `finding_tracker_race`: `Emplace` and `Of` do not take the mutex of `Release`; an entry
   can be lost, and the memzone is then found by nobody.
5. `finding_stale_results`: the demo leaves recycled vectors in their place. When a
   compression fails in a later round they are recycled again, and the check that all
   buffers were recycled ends the process.
6. `finding_segment_sizes`: a compressed segment "should be enough to store incompressible
   data" (`src/include/config.h:140`). A segment whose decompressed size is one to four below a
   power of two gets that power of two, without room for the five bytes of a stored DEFLATE
   block: 32767 gets 32768. `SegmentsFit`, which holds, says that these are the only sizes.

Seen while modelling, and in the models where their state is, but contradicted by no
statement of the repository:

* a failed `Decompress` never releases its operations (`src/device.cc:275`): the queue
  pair is "busy" for good (`Cancelled` in the model; `CompressLeavesIdle` is therefore
  about `Compress`);
* if a chained operation's stream needs fewer memzones than it was given, the rest stays
  taken (`src/device.cc:183`), and so does a memzone whose `Put` misses it while another lcore's
  `Take` reserves one (`src/memory.cc:193`). `device_two_lcores` reaches both and violates
  `OccupiedIsReferenced`; it checks `OccupiedIsAccounted`, that nothing else loses a memzone,
  and `device_one_lcore`, where neither can happen, checks `OccupiedIsReferenced`;
* once a race has brought an erased entry back into the tracker's map (`revived`), the
  descriptor in it may be that of another thread's memory, and the next `Release` of the
  entry's address frees it (`src/memory_pool.cc:317`). Without its condition `~revived`,
  `HeldExclusively` is violated: thread 1 releases an address; before it erases the entry,
  thread 2 reserves the same address with another descriptor and, not seeing the erase, finds
  the key still there, so that `emplace` keeps the old descriptor; DPDK gives that one to
  thread 1's next memzone, and thread 2's `Release` frees it. This is the same missing lock
  as finding 4;
* several streams that share a chain on the way back fail to decompress
  (`Decompressible`, an assumption on the device), so that with `max_sgl_segs > 1` and short
  streams a round trip may end with an error; `RoundTrip` is about calls that succeed, and
  does not cover a device that reports success there;
* `Take` returning `nullptr` leaks the mbufs allocated for the rest of the batch
  (`src/memory.cc:407`); `PoolsRefilled` is checked where no `Take` fails and proved for calls
  whose `Take`s succeed, which with one segment to an operation and a stock for all lcores is
  every call (`SinglePoolsRefilled`);
* `Initialize` on a started device replaces `configuration_` and `device_memory_` before
  anything refuses it; in the model every such attempt fails on the name of the first mbuf
  pool (`StartedIsTaken` in the proofs), with the old hardware still running;
* the pools cover a full queue only up to 8 segments per operation, which is what
  `kMaxInflightMbufs = 16 * kMaxInflightOps` gives; `PoolsCoverQueue` says so;
* `set_decompressed_seg_size(0)` does not return (`src/config.cc:63`); the byte count of a
  burst overflows a signed `int` when `burst_size` times `max_sgl_segs` exceeds 36116 at the
  largest segment size (`src/memory.cc:359`); the number of mbufs wraps when that product
  reaches 2^22 (`src/memory.cc:251`), which `PoolsCoverQueue`'s eight segments exclude;
* an input of more than about 3.9 GB per device wraps the 16 bits of the number of memzones;
  most of these are rejected, a remainder between 20 and 2560 is accepted (`StockSuffices`
  excludes them);
* the memzone names of `src/memory_pool.cc:134` are time stamps, so two threads can
  collide (`ReserveFails`).

## 5. The proofs

All proofs are checked by TLAPS for every value of the constants that satisfies the
modules' named assumptions.

**DeviceMemoryProofs.** `TypeCorrect`, `ExclusiveAlways`, `NothingLostEver`, `StockIsKept`.
They hold whatever `Put` misses: `NothingLost` is the stock's account, in which a memzone nobody
will put back still counts as taken. `Exclusive` and `NothingLost` prove each other: `TakeFresh` keeps `Exclusive` because a
memzone that is not reserved is neither in the stack nor taken, which is `NothingLost`;
erasing from `occupied` keeps `NothingLost` because the memzone goes to the stack. The
action property `StockIsKept` needs, besides, that the number of memzones never falls.

**CompressDeviceProofs.** The inductive invariant is

    IInv == TypeOK /\ LocalsOK /\ PendingMatches /\ OpsExclusive /\ SourcesInRange

`PendingMatches` is the heart: `pending_operations_` is the concatenation of what was
dequeued, what is in the hardware queue, what waits in `operations_` and the batch being
assembled. It is stated for a call in progress only, since `Release` breaks it on purpose,
and `Enter` restores it because a call starts with nothing pending and nothing left over.
`LocalsOK` says which of the call's sequences are empty at each program counter (otherwise
`RecycleOp` could not know that the burst is at the front), `SourcesInRange` that an
operation of a decompression refers to buffers that exist. From the invariant follow
`TypeCorrect` (with `freeMbufs \in Nat`), `PendingAlwaysMatches`, `RecyclesFrontAlways`
and `OpsExclusiveAlways`. They hold for any number of lcores, any depth and burst, chained
or not, with every fault.

**MemzoneProofs.** `ZonesExclusiveAlways`, `CompressAlwaysLeavesIdle`. To `IInv` the invariant
`ZInv` adds the two of the stock (`Exclusive`, `NothingLost`), and of each queue pair: what is
pending between calls (`Rest`), that it uses none of its memzones twice (`Once`), and that all
of them are in `occupied`; the memzones of different queue pairs are disjoint. `Zones` are
those of the result and of every pending operation, less the ones `Release` has put back
already, since it puts them back one at a time with the other lcores running in between. A
`Take` gives a memzone that was not occupied, so it is nobody's; a `Put` gives back one that
is exactly one queue pair's, so the others keep theirs.

**ResultProofs.** `CompressedInOrderAlways`, `RoundTripAlways`, `Implementation`. `RInv` adds to `IInv` what a
call has of its result at every moment: the buffers so far are `Ordered` and end with a whole
stream (`Closed`), and the pending operations are a `Chain` from the next segment on, without
a gap, up to the batch being assembled. So `EnqueueBurst` may take any part of a batch and
`DequeueBurst` return any part of what is finished: `RecycleOp` appends the stream the result
waits for, because the operation it frees is the front of the pending ones (`PendingMatches`)
and the chain starts there. When the call returns nothing is pending and everything has been
assembled, which leaves completeness. `Making` says this of a compression, `Decoding` of
the places a decompression has written.

`Implementation` is the refinement, `Spec => ImplementsService`. The service's state is split
by queue pair: `View` is what one lcore has of it, made of its call, its buffers, its pending
operations, its hardware queue and `operations_` only, so a step of one lcore cannot show at
another (`MovesAlone`, `ServiceStep`). Then every action of `CompressDevice` is shown to leave
the view as it is or to change it as one action of the service does (the lemmas ending in
`Served`). The invariant `SInv` adds to `RInv` what the service asks of a result beyond the two
properties: every buffer names the segments of its stream, and a stream starts after the last
part of the one before (`Whole`); what has been decoded is the streams of the buffers dealt
with (`Origins`); and only a failed `Compress` gets to `Recycle` and `Release` inside its call,
a failed `Decompress` never does (`Kept`). A failed `Decompress` leaves a queue pair `busy` or
`good` and never `tainted` because of `PendingMatches`: what the hardware or `operations_` still
has is pending.

**PoolProofs.** What the queue pairs share out: their own operations and mbufs, and the
memzones of the common stock.

`MbufsAlwaysBounded`, `PoolsAlwaysSuffice`, `PoolsAlwaysRefilled` keep accounts of each pool. A sum over
the pending operations is a function `due` (`Due`): `due[i]` mbufs come back when the pending
operations from the i-th on are freed, two for each segment. `Balance` says that the free mbufs
and those due make up the pool, corrected by the destination mbufs `Release` has freed already
of the operation at the front. Assembling a batch lengthens `due` (`DueConcat`), `Recycle` and
`Release` shorten it at the front. The accounts come in two modes. In mode "any"
they are an inequality, and hold in every behaviour: nothing is given back twice. In mode
"exact" they are an equation, which the code keeps only while `Take` succeeds
(`TakesSucceed`): when it returns `nullptr` the mbufs of the rest of the batch are lost, as
section 4 says, and no invariant could say otherwise. From the equation, and the bounds on
the hardware queue and on `operations_`, it follows that pools of the sizes that
`QueuePairMemory::Preallocate` gives them (`PoolsCover`, which is what `PoolsAlwaysCover` of
`DeviceLifecycleProofs` proves of these sizes) never run dry, and are full again at rest. Failed
calls and every fault of the device are included.

`TakenIsAccounted`: every taken memzone is in a result or a pending operation, or is `astray`,
which only a missed lookup and an unfilled memzone make it. Its invariant `EachUsed` is the
converse of the part of `ZInv` that says what is used is taken, and needs no hypothesis: chains,
missed `Put`s, failing `Take`s and every fault are included.

`SingleTakenIsReferenced`, `SingleTakesSucceed`, `SinglePoolsSuffice` and `SinglePoolsRefilled`
are about the default configuration, `max_sgl_segs` of 1 (`src/include/config.h:147`; all that
`src/device.cc:373` accepts of a device that cannot chain), and a device that has *preallocated*
`MaxSegs` memzones for each queue pair (`RoomForAll`). That the machine could still provide
memzones is not enough: a reservation may fail although it could be met, and a `Take` that
reserves is what makes another lcore's `Put` miss. The invariant is `Whole`: nothing is
astray, and the stock the device started with is still there. `Room` bounds what a queue pair
has in its results and pending operations by the segments of its request; each taken memzone
lies in one of these places, which are `Slots`, and no two in the same one, so that an lcore
in `Take` always finds the stock non-empty (`StockLasts`). Hence no `Take` fails, none reserves, no
lookup can miss, and `Whole` is kept: a stream fills its only memzone whatever it is. It
follows that neither pool runs dry or leaks. Three memzones for two lcores with two segments
each are already too few, so the bound cannot be improved. A device that has preallocated
fewer, or chains, has only the conditional theorems above.

**DeviceLifecycleProofs.** `IInv == TypeOK /\ HardwareFollowsState /\ OneAttemptAllocated`.
The point is `StartedIsTaken`: from `OneAttemptAllocated` the pool name of queue pair 0 is
taken as long as the device is started, so no later attempt gets past it, whence the
attempt that succeeded stays the only one. `PoolsAlwaysCover` needs no induction: the pool
sizes cover the queue for every burst size and up to eight segments
(`PoolsCover`, arithmetic), using only `MaxInflightMbufs >= 16 * MaxInflightOps`, which is how
`kMaxInflightMbufs` is defined in the code. `SegmentsAlwaysFit` is about every size from 8 to
59460, by the power of two that it lies below: the memzone's length survives its 16 bits, the
compressed size is the nearest greater power of two or what an mbuf can show, and a stored block
fits, except at the sizes of finding 6.

**MemoryPoolProofs.** The inductive invariant is

    IInv == /\ TypeOK /\ LocalsOK /\ OneToOne /\ MutexOK
            /\ ~revived => Live
            /\ SeenCurrent /\ ExactUnlessRaced

`HeldAlwaysExclusively` is about a map with races, as long as none of them has brought an
erased entry back: lost insertions, lost lookups and leaks are included. It cannot be proved
by itself, because `Release` frees the descriptor it finds and not the address it looks up:
`Live` adds `EntriesLive`, that every entry of the map is of a memzone that is reserved, or is about
to be erased by the one thread in the critical section (`MutexOK`). With `OneToOne`, that DPDK
gives an address one descriptor, the descriptor found is then that of the caller's own buffer
(`LocalsOK` ties `old` to it). A lost erase is what breaks `EntriesLive`, and what `revived` records. `ExactUnlessRaced` says that nothing at all goes wrong with the
map until an unlocked insertion meets another change; it needs `SeenCurrent`, that a change
nobody has met started from the map as it is, and that an entry which is about to be
erased and is reserved again is still waiting for its own insertion.

**EvaluationProofs.** First the arithmetic of `CreateDevices`: `Consecutive` (each
device gets its lcores after those of the device before it, the last device gets the last
lcore), from it `LcoreOfInjective` (no lcore drives two queue pairs) and `AdvancedPlace`
(`Advance` goes to the queue pair of the next lcore). Then the invariant

    IInv == TypeOK /\ PositionOK /\ WorkersOK /\ ReturnsOK /\ ResultsOK

`PositionOK` says that after `idx` iterations a loop stands at lcore `idx + 1`, `WorkersOK`
that an lcore works only between its launch and its wait, `ReturnsOK` that the return value
read in `WaitForAsyncCompletion` is of this round although the EAL never resets it, and
`ResultsOK` where the results are. All safety properties of the run follow, for any number
of lcores, devices (at most as many as lcores) and rounds. `AllRecycled` speaks of an
evaluation that ended; one that `aborted` is finding 5.

Of `Evaluation`: `EvaluatesAsync`, within `Evaluate`, `EvaluateAsync` is the machine of
`AsyncEvaluation`, so that what is proved there holds here (`ParamsOutliveWorkThroughout`,
`AllRecycledThroughout`). `SyncAlwaysRecycles` rests on what each place in `EvaluateSync`
knows of its result. `StockAlwaysSuffices` is arithmetic and one sum: the parts of all lcores, each
rounded up to whole segments, fit in what all devices together are asked to preallocate
(`SharesFit`), and the lcores of one device take at most a share each (`HeldAtMost`). The sum over
the queue pairs of a device is a recursive function; that it exists and what bounds it is
shown by a least counterexample (`NatLeast`, from the library's theorem that `<` is
well-founded on `Nat`). `EvenShareSuffices` reads the inequality for one device.

Only model-checked: liveness (`CallsReturn`, `EvaluateEnds`), which TLAPS does not do. Every
invariant and every action property that the passing runs check is stated by a theorem. Three
have hypotheses, because the code needs them: `PoolsSuffice` and `PoolsRefilled` (`Take`s
succeed), `OccupiedIsReferenced` (no chains, and a stock for all).

## 6. Not modelled

* bytes, checksums, the contents of mbufs, time measurement, logging, option parsing;
* `RtemallocMemoryPool`, which wraps `rte_malloc` and has no state of its own, and the
  statistics of the pools;
* enumeration of devices and parsing of PCI addresses (no state; `CreateDevices`'
  distribution is in `AsyncEvaluation`);
* reading the input (`ReadData`) and comparing it with the output: the model tries any size
  of a small set, and lets the comparison end either way;
* two devices, or a device and a `MemoryPool`, on one tracker: `AllocateOne` may then give out
  a `nullptr` as a memzone (hazard at `src/memory.cc:72`); `MemoryPool` shows the lost entry
  that is the cause;
* a call on a queue pair whose hardware queue or `operations_` still has freed operations: the
  model stops at `undefined`, and findings 1 and 2 are about what leads there;
* `EntryGuard` under two threads on one queue pair: the library gives a queue pair to one
  lcore, and so do the models (`LcoresToThemselves`);
* `CreateDevices` with device ids that are not places in the list: the demo's callbacks
  use the one for the other (hazard at `apps/demo_app.cc:378`), and so does the model;
* the choice of the device class and `GetDevices`' checks of its argument, which have no
  state.

## 7. Plan

The modules were written in the order stock, data path, life of a device, memory pool,
asynchronous evaluation, service and refinement, segment sizes, whole evaluation; each was
checked before it was proved. What is left:

* proofs for several segments to an operation: what one call can leave taken, and so how
  many calls with short streams a stock of a given size serves before a `Take` has to reserve;
* the device's stock composed with a tracker that has other users, that is `Take` and `Put` on
  top of `MemoryPool`'s map, `AllocateOne`'s `nullptr` included;
* `CreateDevices` with device ids that are not places in the list.
