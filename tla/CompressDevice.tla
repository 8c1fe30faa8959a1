--------------------------- MODULE CompressDevice ---------------------------
(***************************************************************************)
(* CompressDevice and QueuePairMemory (src/device.cc, src/memory.cc) of a  *)
(* started device: the lcores that call Compress, Decompress and Recycle,  *)
(* one per queue pair, the memory of each queue pair, the DeviceMemory     *)
(* they share, and the hardware queue of each queue pair.                  *)
(*                                                                         *)
(* Data is abstracted to segment numbers.  A request of n segments is      *)
(* 1..n; an operation carries "len" consecutive segments starting at       *)
(* "first".  The stream an operation produces holds "segs" segments from   *)
(* "first" on and lies in "parts" compressed buffers, one memzone each; a  *)
(* buffer is one "part" of its stream.                                     *)
(***************************************************************************)
EXTENDS Naturals, Sequences, FiniteSets

CONSTANTS
  QueuePairs,      \* queue pair ids; each is driven by one lcore
  Operations,      \* the entries of a queue pair's operation pool
  NumMbufs,        \* the size of a queue pair's mbuf pool
  Memzones,        \* every memzone the machine can still provide
  NumPreallocated, \* memzones in the stock when the device starts
  BurstSize,       \* configuration: burst_size
  MaxSglSegs,      \* configuration: max_sgl_segs
  MaxInflightOps,  \* kMaxInflightOps: the depth of a hardware queue
  NumIgnored,      \* kNumIgnoredMaybeNotOKBurst
  MaxSegs,         \* bound: segments of the largest request
  Faults           \* what the device may do: subset of {"status", "device"}

ASSUME DeviceAssumption ==
  /\ IsFiniteSet(Operations)
  /\ NumMbufs \in Nat
  /\ NumPreallocated \in Nat
  /\ BurstSize \in Nat \ {0}
  /\ MaxSglSegs \in Nat \ {0}
  /\ MaxInflightOps \in Nat \ {0}
  /\ NumIgnored \in Nat \ {0}
  /\ MaxSegs \in Nat

VARIABLES
  reserved, pool, occupied,  \* device_memory_, see DeviceMemory
  astray,       \* history: memzones taken that nobody will put back any more
  pending,      \* pending_operations_: assembled or enqueued, not yet dequeued
  operations,   \* operations_[0 .. num_ops_assembled_ - 1]: next to enqueue
  freeOps,      \* the free entries of operation_pool_
  freeMbufs,    \* how many entries of mbuf_pool_ are free
  op,           \* the contents of each operation
  queue,        \* hardware: enqueued and not dequeued, oldest first
  completed,    \* hardware: how many at the head of queue are finished
  stalled,      \* hardware: the queue pair has stopped working
  deviceErrors, \* hardware: an error counter of the device is not zero
  numMaybeNotOk,\* GetErrorCount's static counter, modulo NumIgnored
  call,         \* the call in progress of each lcore, or its last one
  buffers       \* compressed_buffers of each lcore

memoryVars == <<reserved, pool, occupied, astray>>
poolVars   == <<freeOps, freeMbufs, op>>
hwVars     == <<queue, completed, stalled, deviceErrors>>
vars == <<memoryVars, pending, operations, poolVars, hwVars,
          numMaybeNotOk, call, buffers>>

DM == INSTANCE DeviceMemory
        WITH phase <- "ready", MinPreallocate <- 0,
             MaxPreallocate <- NumPreallocated

-----------------------------------------------------------------------------
(* Operators *)

Least(a, b) == IF a <= b THEN a ELSE b

Elements(s) == {s[i] : i \in DOMAIN s}
Distinct(s) == \A i, j \in DOMAIN s : s[i] = s[j] => i = j

Operation == [first : Nat, len : Nat, dst : Seq(Memzones)]
Buffer    == [zone : Memzones, first : Nat, segs : Nat, part : Nat, parts : Nat]

UnusedOp == [first |-> 0, len |-> 0, dst |-> <<>>]

PCs == {"idle", "loop", "take", "dequeue", "burst", "putback", "release",
        "undefined"}

Call == [pc      : PCs,
         kind    : {"none", "compress", "decompress"},
         segs    : Nat,               \* source units of the request
         index   : Nat,               \* source units assembled so far
         batch   : Seq(Operations),   \* assembled by the current AssembleFrom
         burst   : Seq(Operations),   \* dequeued by the current DequeueBurst
         freed   : Nat,               \* dst mbufs of Release's operation freed
         decoded : Seq([slot : Nat, first : Nat]),
         result  : {"none", "ok", "error", "cancelled"}]

NoCall == [pc |-> "idle", kind |-> "none", segs |-> 0, index |-> 0,
           batch |-> <<>>, burst |-> <<>>, freed |-> 0, decoded |-> <<>>,
           result |-> "none"]

At(q, pc) == call[q].pc = pc

Init ==
  /\ pool \in [1..NumPreallocated -> Memzones]
  /\ Distinct(pool)
  /\ reserved = Elements(pool)
  /\ occupied = {}
  /\ astray = {}
  /\ pending = [q \in QueuePairs |-> <<>>]
  /\ operations = [q \in QueuePairs |-> <<>>]
  /\ freeOps = [q \in QueuePairs |-> Operations]
  /\ freeMbufs = [q \in QueuePairs |-> NumMbufs]
  /\ op = [q \in QueuePairs |-> [o \in Operations |-> UnusedOp]]
  /\ queue = [q \in QueuePairs |-> <<>>]
  /\ completed = [q \in QueuePairs |-> 0]
  /\ stalled = [q \in QueuePairs |-> FALSE]
  /\ deviceErrors = FALSE
  /\ numMaybeNotOk = 0
  /\ call = [q \in QueuePairs |-> NoCall]
  /\ buffers = [q \in QueuePairs |-> <<>>]

-----------------------------------------------------------------------------
(* Entering a call *)

\* EntryGuard's only dynamic check.
Busy(q) == pending[q] # <<>>

\* What an earlier failed call left behind: operations that were released but
\* are still in the hardware queue or in the array of the next enqueue.
Leftovers(q) == queue[q] # <<>> \/ operations[q] # <<>>

\* A call that passes EntryGuard starts.  With leftovers it would hand freed
\* operations to the device or take them for its own: its behaviour is
\* undefined and it is not followed any further.
Enter(q, kind, n) ==
  /\ call' = [call EXCEPT ![q] =
       IF Leftovers(q)
         THEN [NoCall EXCEPT !.pc = "undefined"]
         ELSE [NoCall EXCEPT !.pc = "loop", !.kind = kind, !.segs = n]]
  /\ UNCHANGED <<memoryVars, pending, operations, poolVars, hwVars,
                 numMaybeNotOk, buffers>>

\* The lcore compresses a buffer of n segments.  It has recycled the result of
\* its previous Compress first, as the applications do.
Compress(q, n) ==
  /\ At(q, "idle")
  /\ ~Busy(q)
  /\ buffers[q] = <<>>
  /\ Enter(q, "compress", n)

\* The lcore decompresses what its Compress returned.
Decompress(q) ==
  /\ At(q, "idle")
  /\ ~Busy(q)
  /\ buffers[q] # <<>>
  /\ Enter(q, "decompress", Len(buffers[q]))

\* EntryGuard: "Queue pair ... is busy".
Cancelled(q) ==
  /\ At(q, "idle")
  /\ Busy(q)
  /\ call' = [call EXCEPT ![q].result = "cancelled"]
  /\ UNCHANGED <<memoryVars, pending, operations, poolVars, hwVars,
                 numMaybeNotOk, buffers>>

\* Recycle(buffers), called by the owner of the result; PutBack does the work.
Recycle(q) ==
  /\ At(q, "idle")
  /\ buffers[q] # <<>>
  /\ call' = [call EXCEPT ![q].pc = "putback", ![q].result = "none"]
  /\ UNCHANGED <<memoryVars, pending, operations, poolVars, hwVars,
                 numMaybeNotOk, buffers>>

-----------------------------------------------------------------------------
(* Failing *)

\* A fault for Failed: Compress just returns, too.
FailedReturns(q, c) ==
  [c EXCEPT !.pc = "idle", !.result = "error", !.batch = <<>>, !.burst = <<>>,
            !.freed = 0]

\* How a call of q that fails goes on, its record being c: Compress returns
\* what it has produced (ReleaseAll: Recycle, then Release), Decompress just
\* returns.
Failed(q, c) ==
  [c EXCEPT !.pc = CASE c.kind = "decompress" -> "idle"
                     [] c.kind = "compress" /\ buffers[q] = <<>> -> "release"
                     [] OTHER -> "putback",
            !.result = "error",
            !.batch = <<>>,
            !.burst = <<>>,
            !.freed = 0]

-----------------------------------------------------------------------------
(* AssembleFrom *)

CanAssemble(q) ==
  /\ call[q].index < call[q].segs
  /\ Len(operations[q]) < BurstSize

\* How many source units the next burst takes, and in how many operations.
NextUnits(q) == Least(call[q].segs - call[q].index,
                      (BurstSize - Len(operations[q])) * MaxSglSegs)
NextOps(q) == (NextUnits(q) + MaxSglSegs - 1) \div MaxSglSegs

\* What rte_comp_op_bulk_alloc may return for k operations.
Allocations(q, k) == {b \in [1..k -> freeOps[q]] : Distinct(b)}

\* A fault for Assembled: every operation of a burst starts at the same segment.
AssembledAtIndex(q, i) ==
  [first |-> call[q].index + 1,
   len   |-> Least(MaxSglSegs, NextUnits(q) - (i - 1) * MaxSglSegs),
   dst   |-> <<>>]

\* The i-th operation of the next burst: MaxSglSegs source units, or the rest.
Assembled(q, i) ==
  LET before == (i - 1) * MaxSglSegs IN
  [first |-> call[q].index + before + 1,
   len   |-> Least(MaxSglSegs, NextUnits(q) - before),
   dst   |-> <<>>]

\* Source mbufs are filled and every operation becomes pending.  The
\* destination of a decompression is the caller's buffer, filled in the same
\* step; a compression takes memzones first, which other lcores see (TakeDst).
Assemble(q) ==
  /\ At(q, "loop")
  /\ CanAssemble(q)
  /\ NextUnits(q) * 2 <= freeMbufs[q]
  /\ \E b \in Allocations(q, NextOps(q)) :
       /\ freeOps' = [freeOps EXCEPT ![q] = @ \ Elements(b)]
       /\ freeMbufs' = [freeMbufs EXCEPT ![q] = @ - NextUnits(q) * 2]
       /\ op' = [op EXCEPT ![q] =
            [o \in Operations |-> IF \E i \in DOMAIN b : b[i] = o
                                    THEN Assembled(q, CHOOSE i \in DOMAIN b : b[i] = o)
                                    ELSE @[o]]]
       /\ pending' = [pending EXCEPT ![q] = @ \o b]
       /\ IF call[q].kind = "compress"
            THEN /\ call' = [call EXCEPT ![q].pc = "take",
                                         ![q].index = @ + NextUnits(q),
                                         ![q].batch = b]
                 /\ UNCHANGED operations
            ELSE /\ call' = [call EXCEPT ![q].index = @ + NextUnits(q)]
                 /\ operations' = [operations EXCEPT ![q] = @ \o b]
  /\ UNCHANGED <<memoryVars, hwVars, numMaybeNotOk, buffers>>

\* BulkAllocate fails: no operations left, or operations but no mbufs (the
\* operations just allocated are then nobody's).
AssembleFails(q) ==
  /\ At(q, "loop")
  /\ CanAssemble(q)
  /\ \/ /\ Cardinality(freeOps[q]) < NextOps(q)
        /\ UNCHANGED freeOps
     \/ /\ NextUnits(q) * 2 > freeMbufs[q]
        /\ \E b \in Allocations(q, NextOps(q)) :
             freeOps' = [freeOps EXCEPT ![q] = @ \ Elements(b)]
  /\ call' = [call EXCEPT ![q] = Failed(q, @)]
  /\ UNCHANGED <<memoryVars, pending, operations, freeMbufs, op, hwVars,
                 numMaybeNotOk, buffers>>

Filled(q, o) == Len(op[q][o].dst) = op[q][o].len

\* One destination mbuf of the batch gets a memzone; with the last one the
\* whole batch joins the operations to enqueue.
TakeDst(q) ==
  /\ At(q, "take")
  /\ \E i \in DOMAIN call[q].batch, z \in Memzones :
       LET b == call[q].batch
           o == b[i]
       IN /\ ~Filled(q, o)
          /\ \A j \in 1..(i - 1) : Filled(q, b[j])
          /\ DM!Take(z)
          /\ op' = [op EXCEPT ![q][o].dst = Append(@, z)]
          /\ IF i = Len(b) /\ Len(op[q][o].dst) + 1 = op[q][o].len
               THEN /\ operations' = [operations EXCEPT ![q] = @ \o b]
                    /\ call' = [call EXCEPT ![q].pc = "loop", ![q].batch = <<>>]
               ELSE UNCHANGED <<operations, call>>
  /\ UNCHANGED <<astray, pending, freeOps, freeMbufs, hwVars, numMaybeNotOk, buffers>>

\* A fault for TakeFails: the result of Take is not checked.
TakeFailsUnchecked(q) ==
  /\ At(q, "take")
  /\ DM!TakeReturnsNull
  /\ \E o \in Elements(call[q].batch) :
       /\ ~Filled(q, o)
       /\ op' = [op EXCEPT ![q][o].dst = Append(@, "nullptr")]
  /\ UNCHANGED <<memoryVars, pending, operations, freeOps, freeMbufs, hwVars,
                 numMaybeNotOk, call, buffers>>

\* Take() returns nullptr in the middle of a batch.
TakeFails(q) ==
  /\ At(q, "take")
  /\ DM!TakeReturnsNull
  /\ call' = [call EXCEPT ![q] = Failed(q, @)]
  /\ UNCHANGED <<memoryVars, pending, operations, poolVars, hwVars,
                 numMaybeNotOk, buffers>>

-----------------------------------------------------------------------------
(* EnqueueBurst and DequeueBurst *)

\* A fault for Counted: the counter is a local variable.
CountedLocally == {1 % NumIgnored}

\* GetErrorCount's counter after an empty burst.  It is a static variable
\* without synchronisation: with several lcores increments and resets get lost
\* or come back, and it may have any value.
Counted ==
  IF Cardinality(QueuePairs) = 1
    THEN {(numMaybeNotOk + 1) % NumIgnored}
    ELSE 0..(NumIgnored - 1)

\* A burst moved nothing and the device reports no error, or is not asked.
QuietEmptyBurst ==
  \E n \in Counted :
    /\ numMaybeNotOk' = n
    /\ n = 0 => ~deviceErrors

\* A burst moved nothing and the device, asked, has counted errors.
FailedEmptyBurst ==
  /\ 0 \in Counted
  /\ deviceErrors
  /\ numMaybeNotOk' = 0

\* How many operations the hardware queue may accept.
Accepted(q) ==
  IF stalled[q] THEN {0}
  ELSE 0..Least(Len(operations[q]), MaxInflightOps - Len(queue[q]))

\* A fault for Unused: nothing is moved to the front.
UnusedNotMoved(ops, k) == SubSeq(ops, 1, Len(ops) - k)

\* AccumulateUnused(Len(ops) - k): the operations that were not enqueued move to
\* the front of the array, in order.
Unused(ops, k) == SubSeq(ops, k + 1, Len(ops))

Enqueuing(q) == At(q, "loop") /\ ~CanAssemble(q) /\ operations[q] # <<>>

Enqueue(q) ==
  /\ Enqueuing(q)
  /\ \E k \in Accepted(q) :
       /\ IF k > 0 THEN numMaybeNotOk' = 0 ELSE QuietEmptyBurst
       /\ queue' = [queue EXCEPT ![q] = @ \o SubSeq(operations[q], 1, k)]
       /\ operations' = [operations EXCEPT ![q] = Unused(@, k)]
  /\ call' = [call EXCEPT ![q].pc = "dequeue"]
  /\ UNCHANGED <<memoryVars, pending, poolVars, completed, stalled,
                 deviceErrors, buffers>>

EnqueueFails(q) ==
  /\ Enqueuing(q)
  /\ 0 \in Accepted(q)
  /\ FailedEmptyBurst
  /\ call' = [call EXCEPT ![q] = Failed(q, @)]
  /\ UNCHANGED <<memoryVars, pending, operations, poolVars, hwVars, buffers>>

\* After an enqueue; and, once everything is enqueued, while operations pend.
Dequeuing(q) ==
  \/ At(q, "dequeue")
  \/ /\ At(q, "loop")
     /\ ~CanAssemble(q)
     /\ operations[q] = <<>>
     /\ pending[q] # <<>>

\* How many finished operations one burst takes from the hardware queue.
NumDequeued(q) == Least(BurstSize, completed[q])

Dequeue(q) ==
  /\ Dequeuing(q)
  /\ LET n == NumDequeued(q) IN
       /\ IF n > 0 THEN numMaybeNotOk' = 0 ELSE QuietEmptyBurst
       /\ queue' = [queue EXCEPT ![q] = SubSeq(@, n + 1, Len(@))]
       /\ completed' = [completed EXCEPT ![q] = @ - n]
       /\ call' = [call EXCEPT ![q].pc = IF n > 0 THEN "burst" ELSE "loop",
                               ![q].burst = SubSeq(queue[q], 1, n)]
  /\ UNCHANGED <<memoryVars, pending, operations, poolVars, stalled,
                 deviceErrors, buffers>>

DequeueFails(q) ==
  /\ Dequeuing(q)
  /\ NumDequeued(q) = 0
  /\ FailedEmptyBurst
  /\ call' = [call EXCEPT ![q] = Failed(q, @)]
  /\ UNCHANGED <<memoryVars, pending, operations, poolVars, hwVars, buffers>>

-----------------------------------------------------------------------------
(* One dequeued operation *)

\* A fault for NumMbufsOf: only the source chain is freed.
NumSrcMbufsOf(q, o) == op[q][o].len

\* The mbufs of an operation that was assembled completely.
NumMbufsOf(q, o) == 2 * op[q][o].len

\* dequeue_callback of Compress: the buffers of an operation whose stream used
\* the first n memzones; a short stream leaves the last ones unused.
Produced(q, o, n) ==
  [j \in 1..n |-> [zone  |-> op[q][o].dst[j], first |-> op[q][o].first,
                   segs  |-> op[q][o].len,    part  |-> j,  parts |-> n]]

\* The compressed buffers chained as the source of a decompression.
Source(q, o) ==
  SubSeq(buffers[q], op[q][o].first, op[q][o].first + op[q][o].len - 1)

\* The device can decompress one whole stream into a destination with room for
\* all of its segments.  Of anything else it is assumed to report a status other
\* than success: the code looks at the status only, never at what was consumed,
\* and would take a device that stops after the first of two streams at its word.
Decompressible(q, o) ==
  LET src == Source(q, o) IN
  /\ \A i \in DOMAIN src : src[i].first = src[1].first /\ src[i].part = i
  /\ Len(src) = src[1].parts
  /\ src[1].segs <= op[q][o].len

\* The memzones after the first n of an operation: the callback, which follows
\* the chain as far as data was produced, puts them in no buffer.
Unfilled(q, o, n) == {op[q][o].dst[j] : j \in (n + 1)..Len(op[q][o].dst)}

\* A dequeued operation succeeded: dequeue_callback, then RecycleResources,
\* which takes the front of pending_operations_ without looking at it (its
\* check is compiled out of a release build, see PendingMatches).
RecycleOp(q) ==
  /\ At(q, "burst")
  /\ LET o == Head(call[q].burst)
         rest == Tail(call[q].burst)
         decompressing == call[q].kind = "decompress"
     IN /\ IF decompressing
             THEN Decompressible(q, o) /\ UNCHANGED <<astray, buffers>>
             ELSE \E n \in 1..Len(op[q][o].dst) :
                    /\ buffers' = [buffers EXCEPT ![q] = @ \o Produced(q, o, n)]
                    /\ astray' = astray \cup Unfilled(q, o, n)
        /\ call' = [call EXCEPT
             ![q].pc = IF rest = <<>> THEN "loop" ELSE "burst",
             ![q].burst = rest,
             ![q].decoded = IF ~decompressing THEN @ ELSE
                Append(@, [slot |-> op[q][o].first, first |-> Source(q, o)[1].first])]
        /\ pending' = [pending EXCEPT ![q] = Tail(@)]
        /\ freeOps' = [freeOps EXCEPT ![q] = @ \cup {o}]
        /\ freeMbufs' = [freeMbufs EXCEPT ![q] = @ + NumMbufsOf(q, o)]
        /\ op' = [op EXCEPT ![q][o] = UnusedOp]
  /\ UNCHANGED <<reserved, pool, occupied, operations, hwVars, numMaybeNotOk>>

\* A dequeued operation carries a status other than success; the driver may
\* have counted it as an error.  The rest of the burst is dropped.
OpFails(q) ==
  /\ At(q, "burst")
  /\ \/ "status" \in Faults
     \/ /\ call[q].kind = "decompress"
        /\ ~Decompressible(q, Head(call[q].burst))
  /\ deviceErrors' \in {deviceErrors, TRUE}
  /\ call' = [call EXCEPT ![q] = Failed(q, @)]
  /\ UNCHANGED <<memoryVars, pending, operations, poolVars, queue, completed,
                 stalled, numMaybeNotOk, buffers>>

-----------------------------------------------------------------------------
(* The end of a call, Recycle and ReleaseAll *)

\* A fault for Return: the call does not wait for what is in flight.
ReturnEarly(q) ==
  /\ At(q, "loop")
  /\ ~CanAssemble(q)
  /\ operations[q] = <<>>
  /\ call' = [call EXCEPT ![q].pc = "idle", ![q].result = "ok"]
  /\ UNCHANGED <<memoryVars, pending, operations, poolVars, hwVars,
                 numMaybeNotOk, buffers>>

\* Everything assembled, enqueued and dequeued.
Return(q) ==
  /\ At(q, "loop")
  /\ ~CanAssemble(q)
  /\ operations[q] = <<>>
  /\ pending[q] = <<>>
  /\ call' = [call EXCEPT ![q].pc = "idle", ![q].result = "ok"]
  /\ UNCHANGED <<memoryVars, pending, operations, poolVars, hwVars,
                 numMaybeNotOk, buffers>>

\* Put's lookup takes no lock and may miss an entry while another lcore inserts
\* one: while a Take of it, having found the stock empty, reserves a memzone.
LookupMayMiss(q) ==
  \E p \in QueuePairs \ {q} : At(p, "take") /\ pool = <<>>

\* Put(z), called by the lcore of q: when it misses, what was taken stays taken.
PutZone(q, z) ==
  \/ DM!Put(z) /\ UNCHANGED astray
  \/ LookupMayMiss(q) /\ DM!PutMisses /\ astray' = astray \cup (occupied \cap {z})

\* One turn of Recycle's loop over the buffers, from the last to the first.
PutBack(q) ==
  /\ At(q, "putback")
  /\ LET n == Len(buffers[q]) IN
       /\ PutZone(q, buffers[q][n].zone)
       /\ buffers' = [buffers EXCEPT ![q] = SubSeq(@, 1, n - 1)]
       /\ call' = IF n > 1 THEN call
                  ELSE [call EXCEPT ![q].pc = IF call[q].result = "error"
                                                THEN "release" ELSE "idle"]
  /\ UNCHANGED <<pending, operations, poolVars, hwVars, numMaybeNotOk>>

\* A fault for ReleaseDst: the mbuf is freed, its memzone is not put back.
ReleaseDstMbufOnly(q) ==
  /\ At(q, "release")
  /\ pending[q] # <<>>
  /\ call[q].freed < Len(op[q][Head(pending[q])].dst)
  /\ call' = [call EXCEPT ![q].freed = @ + 1]
  /\ freeMbufs' = [freeMbufs EXCEPT ![q] = @ + 1]
  /\ UNCHANGED <<memoryVars, pending, operations, freeOps, op, hwVars,
                 numMaybeNotOk, buffers>>

\* A fault for ReleaseDst: each memzone's mbuf is freed with all that follow it.
ReleaseDstFreesChain(q) ==
  /\ At(q, "release")
  /\ pending[q] # <<>>
  /\ LET dst == op[q][Head(pending[q])].dst
         i   == call[q].freed + 1
     IN /\ i <= Len(dst)
        /\ PutZone(q, dst[i])
        /\ call' = [call EXCEPT ![q].freed = i]
        /\ freeMbufs' = [freeMbufs EXCEPT ![q] = @ + Len(dst) - i + 1]
  /\ UNCHANGED <<pending, operations, freeOps, op, hwVars, numMaybeNotOk, buffers>>

\* Release, on the operation at the front: each memzone of its destination is
\* put back, then the operation is freed.  Its contents are of no interest any
\* more unless the hardware still has it.
ReleaseDst(q) ==
  /\ At(q, "release")
  /\ pending[q] # <<>>
  /\ LET o == Head(pending[q])
         i == call[q].freed + 1
     IN /\ i <= Len(op[q][o].dst)
        /\ PutZone(q, op[q][o].dst[i])
        /\ call' = [call EXCEPT ![q].freed = i]
        /\ freeMbufs' = [freeMbufs EXCEPT ![q] = @ + 1]
  /\ UNCHANGED <<pending, operations, freeOps, op, hwVars, numMaybeNotOk, buffers>>

\* A fault for ReleaseOp: the operation at the back leaves the deque.
ReleaseOpPopsBack(q) ==
  /\ At(q, "release")
  /\ pending[q] # <<>>
  /\ LET o == Head(pending[q]) IN
       /\ call[q].freed = Len(op[q][o].dst)
       /\ pending' = [pending EXCEPT ![q] = SubSeq(@, 1, Len(@) - 1)]
       /\ freeOps' = [freeOps EXCEPT ![q] = @ \cup {o}]
       /\ freeMbufs' = [freeMbufs EXCEPT ![q] = @ + op[q][o].len]
       /\ call' = [call EXCEPT ![q].freed = 0]
       /\ op' = [op EXCEPT ![q][o] = UnusedOp]
  /\ UNCHANGED <<memoryVars, operations, hwVars, numMaybeNotOk, buffers>>

ReleaseOp(q) ==
  /\ At(q, "release")
  /\ pending[q] # <<>>
  /\ LET o == Head(pending[q]) IN
       /\ call[q].freed = Len(op[q][o].dst)
       /\ pending' = [pending EXCEPT ![q] = Tail(@)]
       /\ freeOps' = [freeOps EXCEPT ![q] = @ \cup {o}]
       /\ freeMbufs' = [freeMbufs EXCEPT ![q] = @ + op[q][o].len]
       /\ call' = [call EXCEPT ![q].freed = 0]
       /\ op' = IF o \in Elements(queue[q]) THEN op
                ELSE [op EXCEPT ![q][o] = UnusedOp]
  /\ UNCHANGED <<memoryVars, operations, hwVars, numMaybeNotOk, buffers>>

\* Nothing is pending any more; num_ops_assembled_ stays as it is.
ReleaseEnds(q) ==
  /\ At(q, "release")
  /\ pending[q] = <<>>
  /\ call' = [call EXCEPT ![q].pc = "idle"]
  /\ UNCHANGED <<memoryVars, pending, operations, poolVars, hwVars,
                 numMaybeNotOk, buffers>>

-----------------------------------------------------------------------------
(* The hardware *)

\* The oldest unfinished operation of a queue finishes.
Complete(q) ==
  /\ ~stalled[q]
  /\ completed[q] < Len(queue[q])
  /\ completed' = [completed EXCEPT ![q] = @ + 1]
  /\ UNCHANGED <<memoryVars, pending, operations, poolVars, queue, stalled,
                 deviceErrors, numMaybeNotOk, call, buffers>>

\* A queue pair stops for good, and the device counts the error.
Stall(q) ==
  /\ "device" \in Faults
  /\ ~stalled[q]
  /\ stalled' = [stalled EXCEPT ![q] = TRUE]
  /\ deviceErrors' = TRUE
  /\ UNCHANGED <<memoryVars, pending, operations, poolVars, queue, completed,
                 numMaybeNotOk, call, buffers>>

-----------------------------------------------------------------------------

\* What the lcore does inside a call.
Work(q) ==
  \/ Assemble(q) \/ AssembleFails(q)
  \/ TakeDst(q) \/ TakeFails(q)
  \/ Enqueue(q) \/ EnqueueFails(q)
  \/ Dequeue(q) \/ DequeueFails(q)
  \/ RecycleOp(q) \/ OpFails(q)
  \/ Return(q)
  \/ PutBack(q) \/ ReleaseDst(q) \/ ReleaseOp(q) \/ ReleaseEnds(q)

\* What the lcore decides to call.
Invoke(q) ==
  \/ \E n \in 1..MaxSegs : Compress(q, n)
  \/ Decompress(q)
  \/ Cancelled(q)
  \/ Recycle(q)

Next == \E q \in QueuePairs : Invoke(q) \/ Work(q) \/ Complete(q) \/ Stall(q)

Spec == Init /\ [][Next]_vars

\* The lcore keeps running, the hardware works on what it was given, and a
\* queue pair with room that is offered operations again and again takes some.
Fairness(q) ==
  /\ WF_vars(Work(q))
  /\ WF_vars(Complete(q))
  /\ SF_vars(Enqueue(q) /\ queue' # queue)

FairSpec == Spec /\ \A q \in QueuePairs : Fairness(q)

-----------------------------------------------------------------------------
(* Properties *)

\* Types: operations only hold memzones (never the nullptr of a failed Take), and
\* no path takes mbufs that the pool does not have.
TypeOK ==
  /\ reserved \subseteq Memzones
  /\ pool \in Seq(Memzones)
  /\ occupied \subseteq Memzones
  /\ astray \subseteq Memzones
  /\ pending \in [QueuePairs -> Seq(Operations)]
  /\ operations \in [QueuePairs -> Seq(Operations)]
  /\ freeOps \in [QueuePairs -> SUBSET Operations]
  /\ freeMbufs \in [QueuePairs -> Nat]
  /\ op \in [QueuePairs -> [Operations -> Operation]]
  /\ queue \in [QueuePairs -> Seq(Operations)]
  /\ completed \in [QueuePairs -> Nat]
  /\ stalled \in [QueuePairs -> BOOLEAN]
  /\ deviceErrors \in BOOLEAN
  /\ numMaybeNotOk \in 0..(NumIgnored - 1)
  /\ call \in [QueuePairs -> Call]
  /\ buffers \in [QueuePairs -> Seq(Buffer)]

\* The lcore is between two steps of Compress or Decompress.
Active(q) == call[q].pc \in {"loop", "take", "dequeue", "burst"}

\* While a call runs, pending_operations_ is what was dequeued but not yet
\* recycled, then what the hardware has, then what waits to be enqueued, then
\* the batch being assembled, each in order.
PendingMatches ==
  \A q \in QueuePairs :
    Active(q) => pending[q] = call[q].burst \o queue[q] \o operations[q]
                                \o call[q].batch

\* RecycleResources always gets the operation at the front of
\* pending_operations_: the debug build's check never fires, and the release
\* build never forgets one operation while it frees another.  (The partial
\* enqueue of EnqueueBurst has to keep the order for this.)
RecyclesFront ==
  \A q \in QueuePairs :
    At(q, "burst") => pending[q] # <<>> /\ Head(pending[q]) = Head(call[q].burst)

\* An operation is pending once or free, never both: no operation is freed
\* twice and none is allocated while it is in use.
OpsExclusive ==
  \A q \in QueuePairs :
    /\ Distinct(pending[q])
    /\ Elements(pending[q]) \cap freeOps[q] = {}

\* The segment numbers at which the operations of a request of n segments start.
Starts(n) == {i \in 1..n : (i - 1) % MaxSglSegs = 0}

\* Compress returns the streams of all segments, each once and in order,
\* however the bursts were split by partial enqueues and dequeues.
CompressedInOrder ==
  \A q \in QueuePairs : call[q].kind = "compress" =>
    LET b == buffers[q] IN
    /\ \A i \in DOMAIN b :
         IF i = 1 THEN b[i].first = 1 /\ b[i].part = 1
         ELSE \/ b[i].first = b[i - 1].first /\ b[i].part = b[i - 1].part + 1
              \/ b[i].first = b[i - 1].first + MaxSglSegs /\ b[i].part = 1
    /\ At(q, "idle") /\ call[q].result = "ok" =>
         {b[i].first : i \in DOMAIN b} = Starts(call[q].segs)

\* When Decompress succeeds, every stream has been decompressed once, to the
\* place of its first segment.
RoundTrip ==
  \A q \in QueuePairs :
    call[q].kind = "decompress" /\ At(q, "idle") /\ call[q].result = "ok" =>
      /\ {d.first : d \in Elements(call[q].decoded)} = Starts(call[q].segs)
      /\ \A i, j \in DOMAIN call[q].decoded :
           LET d == call[q].decoded IN
           /\ d[i].slot = d[i].first
           /\ d[i] = d[j] => i = j

\* Where a memzone can be in use: <<q, 0, i>> is the i-th buffer of lcore q,
\* <<q, i, j>> the j-th destination mbuf of its i-th pending operation, unless
\* Release has put it back already.
Uses ==
  UNION {   {<<q, 0, i>> : i \in DOMAIN buffers[q]}
       \cup UNION {{<<q, i, j>> : j \in {j \in DOMAIN op[q][pending[q][i]].dst :
                                            i = 1 => j > call[q].freed}}
                     : i \in DOMAIN pending[q]}
     : q \in QueuePairs}

ZoneOf(u) == IF u[2] = 0 THEN buffers[u[1]][u[3]].zone
                         ELSE op[u[1]][pending[u[1]][u[2]]].dst[u[3]]

\* Whatever the lcores compress, recycle and release concurrently, no memzone
\* is used twice: not by two operations, nor by an operation and a buffer the
\* caller still holds; and a used memzone is not in the stock.
ZonesExclusive ==
  /\ DM!Exclusive
  /\ \A u, v \in Uses : ZoneOf(u) = ZoneOf(v) => u = v
  /\ \A u \in Uses : ZoneOf(u) \in occupied

\* Every memzone taken from the stock is used by someone who will put it back.
\* (Two lcores of a busy device do not keep this, nor do chained operations, see
\* OccupiedIsAccounted; one segment to an operation and a stock that is large
\* enough do.)
OccupiedIsReferenced == occupied \subseteq {ZoneOf(u) : u \in Uses}

\* The memzones taken from the stock are those in use and those that went astray
\* in one of two ways: a Put missed its memzone while another lcore reserved one,
\* or a stream ended before the last memzone of its operation.  No other step
\* loses one: not the failed Take, not Release one by one, not a failed call.
OccupiedIsAccounted == occupied \subseteq {ZoneOf(u) : u \in Uses} \cup astray

\* No mbuf is given back that was not taken: Release, which frees the destination
\* mbufs of an operation one by one and its sources later, also where a failed
\* Take left it with fewer memzones than mbufs, counts none of them twice.  (It does
\* lose the mbufs that had no memzone yet, memory.cc:407.)
MbufsBounded == \A q \in QueuePairs : freeMbufs[q] <= NumMbufs

\* When a queue pair is at rest all of its operations and mbufs are free: no call
\* leaks one as long as its Takes succeed, not one that a stopped device makes fail
\* half way, whose Release frees segment by segment.  (A Take that returns nullptr
\* does leak the mbufs of its batch, see MbufsBounded.)
PoolsRefilled ==
  \A q \in QueuePairs :
    At(q, "idle") /\ ~Busy(q) => /\ freeOps[q] = Operations
                                 /\ freeMbufs[q] = NumMbufs

\* The pools never run dry: the size Preallocate gives them covers a full
\* hardware queue and one burst more.
PoolsSuffice ==
  \A q \in QueuePairs :
    At(q, "loop") /\ CanAssemble(q) => /\ NextOps(q) <= Cardinality(freeOps[q])
                                       /\ NextUnits(q) * 2 <= freeMbufs[q]

\* Compress leaves nothing pending, whether it succeeds or fails: the queue
\* pair is not busy for the next call.
CompressLeavesIdle ==
  \A q \in QueuePairs :
    call[q].kind # "decompress" /\ At(q, "idle") => ~Busy(q)

\* "Take a free memzone from the pool": what an lcore took is not a place the
\* device may still write to on behalf of another lcore.
DeviceTargets(q) ==
  UNION {Elements(op[q][queue[q][i]].dst) : i \in (completed[q] + 1)..Len(queue[q])}
TakenIsFree ==
  \A p, q \in QueuePairs : p # q =>
    {ZoneOf(u) : u \in {u \in Uses : u[1] = p}} \cap DeviceTargets(q) = {}

\* The operations counted by num_ops_assembled_ are assembled and not released.
AssembledArePending ==
  \A q \in QueuePairs : Elements(operations[q]) \subseteq Elements(pending[q])

\* Every call comes to an end, also on a device that stops, as long as its lcore is
\* the only one: the static counter of GetErrorCount then counts every burst without
\* progress.  (With several lcores the successful bursts of one reset it for all.)
CallsReturn ==
  \A q \in QueuePairs : Active(q) ~> (At(q, "idle") \/ At(q, "undefined"))

=============================================================================
