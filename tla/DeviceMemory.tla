---------------------------- MODULE DeviceMemory ----------------------------
(***************************************************************************)
(* DeviceMemory (src/memory.cc, include/memory.h): the stock of memzones   *)
(* of one compress device.  A compression writes its output into memzones  *)
(* taken from the stock; the caller gives them back with Recycle.  All the *)
(* lcores that drive queue pairs of the device share one DeviceMemory.     *)
(*                                                                         *)
(* Take runs under the mutex as a whole and is one step.  Put looks its    *)
(* address up in RtememzoneAllocatorTracker before it takes the mutex: the *)
(* lookup may miss what it looks for, and Put then does nothing            *)
(* (PutMisses); else erasing and pushing are one step under the mutex.     *)
(*                                                                         *)
(* "reserved" is the allocator's side of the story: the memzones it has    *)
(* handed to this device and has not been given back.  The device is taken *)
(* to be the tracker's only user, so that the insertions, all of them in   *)
(* Take, exclude each other and none is lost; what more users do to the    *)
(* tracker is the subject of MemoryPool.                                   *)
(***************************************************************************)
EXTENDS Naturals, Sequences, FiniteSets

CONSTANTS
  Memzones,        \* every memzone the machine can still provide
  MinPreallocate,  \* kMinPreallocateMemzones
  MaxPreallocate   \* configuration: max_preallocate_memzones

ASSUME PreallocateAssumption ==
  /\ MinPreallocate \in Nat
  /\ MaxPreallocate \in Nat
  /\ MinPreallocate <= MaxPreallocate

VARIABLES
  phase,     \* how far the object's life has come
  reserved,  \* memzones obtained from the allocator and not freed
  pool,      \* memzone_pool_, a stack: the top is the head of the sequence
  occupied   \* occupied_memzones_: taken and not put back

vars == <<phase, reserved, pool, occupied>>

Phases == {"preallocating", "ready", "failed", "destroyed"}

Elements(s) == {s[i] : i \in DOMAIN s}

\* The memzones in the free stack.
Pooled == Elements(pool)

Init ==
  /\ phase = "preallocating"
  /\ reserved = {}
  /\ pool = <<>>
  /\ occupied = {}

-----------------------------------------------------------------------------
(* Preallocate *)

\* One turn of the loop: AllocateOne succeeds and the memzone is pushed.
PreallocateOne(z) ==
  /\ phase = "preallocating"
  /\ Len(pool) < MaxPreallocate
  /\ z \notin reserved
  /\ reserved' = reserved \cup {z}
  /\ pool' = <<z>> \o pool
  /\ UNCHANGED <<phase, occupied>>

\* A fault for PreallocateEnds: only an empty stock is a failure.
PreallocateEndsWithAny ==
  /\ phase = "preallocating"
  /\ phase' = IF pool = <<>> THEN "failed" ELSE "ready"
  /\ UNCHANGED <<reserved, pool, occupied>>

\* The loop ends, with all the memzones asked for or because the allocator is
\* out of memory; too few is a failure, fewer than the maximum is not.
PreallocateEnds ==
  /\ phase = "preallocating"
  /\ phase' = IF Len(pool) < MinPreallocate THEN "failed" ELSE "ready"
  /\ UNCHANGED <<reserved, pool, occupied>>

\* Any other error of the allocator is passed to the caller.
PreallocateError ==
  /\ phase = "preallocating"
  /\ Len(pool) < MaxPreallocate
  /\ phase' = "failed"
  /\ UNCHANGED <<reserved, pool, occupied>>

-----------------------------------------------------------------------------
(* Take and Put *)

\* A fault for TakePooled: the memzone is not recorded.
TakePooledUnrecorded(z) ==
  /\ pool # <<>>
  /\ z = Head(pool)
  /\ pool' = Tail(pool)
  /\ UNCHANGED <<reserved, occupied>>

TakePooled(z) ==
  /\ pool # <<>>
  /\ z = Head(pool)
  /\ pool' = Tail(pool)
  /\ occupied' = occupied \cup {z}
  /\ UNCHANGED reserved

\* A fault for TakeFresh: the result of AllocateOne is not checked.
TakeFreshUnchecked(z) ==
  /\ pool = <<>>
  /\ reserved' = reserved \cup {z}
  /\ occupied' = occupied \cup {IF z \in reserved THEN "nullptr" ELSE z}
  /\ UNCHANGED pool

\* The stock is empty: one more memzone is reserved in the critical path.
TakeFresh(z) ==
  /\ pool = <<>>
  /\ z \notin reserved
  /\ reserved' = reserved \cup {z}
  /\ occupied' = occupied \cup {z}
  /\ UNCHANGED pool

\* Take() returns z.
Take(z) ==
  /\ phase = "ready"
  /\ TakePooled(z) \/ TakeFresh(z)
  /\ UNCHANGED phase

\* Take() returns nullptr: the stock is empty and the reservation fails, which it
\* may do for want of memory or of memzones, or because the name is taken.
TakeReturnsNull == phase = "ready" /\ pool = <<>>

\* A fault for Put: the memzone stays recorded as taken.
PutNotErased(z) ==
  /\ phase = "ready"
  /\ IF z \in occupied THEN pool' = <<z>> \o pool ELSE UNCHANGED pool
  /\ UNCHANGED <<phase, reserved, occupied>>

\* Put(z) that finds the memzone of its address: one that is not recorded as
\* taken is ignored.
Put(z) ==
  /\ phase = "ready"
  /\ IF z \in occupied
       THEN /\ occupied' = occupied \ {z}
            /\ pool' = <<z>> \o pool
       ELSE UNCHANGED <<occupied, pool>>
  /\ UNCHANGED <<phase, reserved>>

\* Put whose lookup finds nothing.
PutMisses == phase = "ready" /\ UNCHANGED vars

-----------------------------------------------------------------------------
\* ~DeviceMemory: frees the stock, then what is still occupied.
Destroy ==
  /\ phase \in {"ready", "failed"}
  /\ phase' = "destroyed"
  /\ reserved' = reserved \ (Pooled \cup occupied)
  /\ pool' = <<>>
  /\ occupied' = {}

Next ==
  \/ \E z \in Memzones : PreallocateOne(z)
  \/ PreallocateEnds
  \/ PreallocateError
  \/ \E z \in Memzones : Take(z)
  \/ \E z \in Memzones : Put(z)
  \/ PutMisses
  \/ Destroy

Spec == Init /\ [][Next]_vars

-----------------------------------------------------------------------------
(* Properties *)

\* Types: only memzones are in the stack or recorded as taken, never a nullptr.
TypeOK ==
  /\ phase \in Phases
  /\ reserved \subseteq Memzones
  /\ pool \in Seq(Memzones)
  /\ occupied \subseteq Memzones

\* A memzone is in one place only: once in the stack, or taken, never both.  If
\* it were in two, Take would give the same buffer to two operations (Take,
\* Put and the fresh allocation of Take all have to agree on this).
Exclusive ==
  /\ \A i, j \in DOMAIN pool : pool[i] = pool[j] => i = j
  /\ Pooled \cap occupied = {}

\* What the allocator handed out is in the stack or taken: no sequence of
\* Take, Put, failed preallocation and destruction loses a memzone, so
\* ~DeviceMemory gives all of them back.
NothingLost == reserved = Pooled \cup occupied

\* A device that started has its minimum stock for as long as it lives; the
\* stock grows under pressure and only the destructor shrinks it.
StockKept ==
  [][(phase = "ready" /\ phase' = "ready")
        => /\ Len(pool) + Cardinality(occupied) >= MinPreallocate
           /\ reserved \subseteq reserved']_vars

=============================================================================
