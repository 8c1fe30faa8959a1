----------------------------- MODULE MemoryPool -----------------------------
(***************************************************************************)
(* RtememzoneMemoryPool (src/memory_pool.cc): an arrow::MemoryPool whose   *)
(* buffers are DPDK memzones.  RtememzoneAllocator reserves and frees the  *)
(* memzones; RtememzoneAllocatorTracker remembers which memzone, a pointer *)
(* to its rte_memzone, starts at which address, because Free and           *)
(* DeviceMemory::Put only get the address.                                 *)
(*                                                                         *)
(* The pool and the tracker are one per process and any thread may call    *)
(* them.  The tracker's mutex is held by Release, and by nothing else:     *)
(* Emplace changes and Of reads the map without it.                        *)
(*                                                                         *)
(* Each thread owns at most one buffer.  DPDK reuses both the address and  *)
(* the descriptor (the rte_memzone) of a memzone that is freed, so that a  *)
(* descriptor left in the map may later stand for memory elsewhere.        *)
(***************************************************************************)
EXTENDS Integers

CONSTANTS
  Threads,
  Addresses, \* the addresses of the memory DPDK has
  Memzones,  \* the rte_memzone descriptors DPDK has
  MaxSize    \* bound: the largest size asked for

\* kZeroSizeArea, the address of every buffer of size 0.
ZeroSizeArea == "zero size area"

ASSUME PoolAssumption ==
  /\ MaxSize \in Nat
  /\ {"none", "nullptr", ZeroSizeArea} \cap Addresses = {}
  /\ "none" \notin Memzones

VARIABLES
  reserved,   \* DPDK: <<address, memzone>> of the memzones that are reserved
  registry,   \* allocated_memzones_: its entries <<address, memzone>>
  mutex,      \* the threads in the tracker's critical section
  call,       \* the call in progress of each thread
  buffer,     \* the buffer of each thread
  raced,      \* an unlocked Emplace has met another change of the map
  revived     \* such a race has brought back an entry that was gone

vars == <<reserved, registry, mutex, call, buffer, raced, revived>>

Entries == Addresses \X Memzones
NoEntry == <<"none", "none">>

NoBuffer == [addr |-> "none", size |-> 0]

PCs == {"idle", "reserve", "insert", "release", "erase"}

\* new: the address just reserved; old: the address to release; size: of the
\* buffer when the call has ended, -1 if there is none; entry: the entry of the
\* map to insert or to erase; seen: the map as this call began to change it.
Idle == [pc |-> "idle", new |-> "none", old |-> "none", size |-> 0,
         entry |-> NoEntry, seen |-> {}]

At(t, pc) == call[t].pc = pc

Init ==
  /\ reserved = {}
  /\ registry = {}
  /\ mutex = {}
  /\ call = [t \in Threads |-> Idle]
  /\ buffer = [t \in Threads |-> NoBuffer]
  /\ raced = FALSE
  /\ revived = FALSE

-----------------------------------------------------------------------------
(* Entering a call *)

Enter(t, pc, old, size) ==
  /\ call' = [call EXCEPT ![t] = [Idle EXCEPT !.pc = pc, !.old = old, !.size = size]]
  /\ UNCHANGED <<reserved, registry, mutex, buffer, raced, revived>>

\* The call ends at once, no memzone being concerned.
SetBuffer(t, b) ==
  /\ buffer' = [buffer EXCEPT ![t] = b]
  /\ UNCHANGED <<reserved, registry, mutex, call, raced, revived>>

Allocate(t, size) ==
  /\ At(t, "idle")
  /\ buffer[t] = NoBuffer
  /\ IF size = 0 THEN SetBuffer(t, [addr |-> ZeroSizeArea, size |-> 0])
                 ELSE Enter(t, "reserve", "none", size)

\* A buffer of size 0 has nothing to release, one that shrinks to 0 nothing to
\* reserve; any other one moves, whether it grows or shrinks.
Reallocate(t, size) ==
  LET addr == buffer[t].addr IN
  /\ At(t, "idle")
  /\ addr # "none"
  /\ \/ /\ addr = ZeroSizeArea /\ size > 0
        /\ Enter(t, "reserve", "none", size)
     \/ /\ addr # ZeroSizeArea /\ size = 0
        /\ Enter(t, "release", addr, 0)
     \/ /\ addr # ZeroSizeArea /\ size > 0
        /\ Enter(t, "reserve", addr, size)

Free(t) ==
  LET addr == buffer[t].addr IN
  /\ At(t, "idle")
  /\ addr # "none"
  /\ IF addr = ZeroSizeArea THEN SetBuffer(t, NoBuffer)
                            ELSE Enter(t, "release", addr, -1)

-----------------------------------------------------------------------------
(* RtememzoneAllocator and the tracker *)

\* The call of t returns, its buffer being at addr.
Return(t, addr) ==
  /\ call' = [call EXCEPT ![t] = Idle]
  /\ buffer' = [buffer EXCEPT ![t] =
       IF call[t].size < 0 THEN NoBuffer ELSE [addr |-> addr, size |-> call[t].size]]

\* The addresses and the descriptors of the entries of a map.
AddrsOf(m) == {e[1] : e \in m}
MemzonesOf(m) == {e[2] : e \in m}

\* rte_memzone_reserve_aligned returns descriptor z with memory at a, neither in
\* use, and Emplace begins to insert the entry.
Reserve(t, a, z) ==
  /\ At(t, "reserve")
  /\ a \notin AddrsOf(reserved)
  /\ z \notin MemzonesOf(reserved)
  /\ reserved' = reserved \cup {<<a, z>>}
  /\ call' = [call EXCEPT ![t].pc = "insert", ![t].new = a,
                          ![t].entry = <<a, z>>, ![t].seen = registry]
  /\ UNCHANGED <<registry, mutex, buffer, raced, revived>>

\* A fault for ReserveFails: the result is not checked.
ReserveFailsUnchecked(t) ==
  /\ At(t, "reserve")
  /\ Return(t, "nullptr")
  /\ UNCHANGED <<reserved, registry, mutex, raced, revived>>

\* It fails: no memory, or the name (the time stamp counter) is taken.  The
\* caller keeps the buffer it had.
ReserveFails(t) ==
  /\ At(t, "reserve")
  /\ call' = [call EXCEPT ![t] = Idle]
  /\ UNCHANGED <<reserved, registry, mutex, buffer, raced, revived>>

\* Other threads that are changing the map.
Changing(t) == {u \in Threads \ {t} : At(u, "insert") \/ At(u, "erase")}

\* Changes of the map that overlap are a data race, of which either may be lost:
\* t changes the map as it is, or as it was when t began.
Bases(t) == {registry, call[t].seen}

\* The step of t sets the map to m.  own: the entry it inserts itself.
ChangeMap(t, m, own) ==
  /\ registry' = m
  /\ raced' = (raced \/ Changing(t) # {})
  /\ revived' = (revived \/ ~(m \subseteq registry \cup own))

\* unordered_map::emplace: the entry a key already has stays as it is, descriptor
\* included.
Emplaced(m, e) == IF e[1] \in AddrsOf(m) THEN m ELSE m \cup {e}

\* A fault for Emplace: Reallocate releases the memzone it has just reserved.
EmplaceReleasesNew(t) ==
  /\ At(t, "insert")
  /\ \E m \in Bases(t) : ChangeMap(t, Emplaced(m, call[t].entry), {call[t].entry})
  /\ IF call[t].old = "none"
       THEN Return(t, call[t].new)
       ELSE /\ call' = [call EXCEPT ![t].pc = "release", ![t].old = call[t].new]
            /\ UNCHANGED buffer
  /\ UNCHANGED <<reserved, mutex>>

\* Emplace ends: AllocateAligned returns the new memory, and ReallocateAligned goes
\* on to release the old.
Emplace(t) ==
  /\ At(t, "insert")
  /\ \E m \in Bases(t) : ChangeMap(t, Emplaced(m, call[t].entry), {call[t].entry})
  /\ IF call[t].old = "none"
       THEN Return(t, call[t].new)
       ELSE call' = [call EXCEPT ![t].pc = "release"] /\ UNCHANGED buffer
  /\ UNCHANGED <<reserved, mutex>>

\* Where the caller's buffer is when a release has ended.
AddrAfterRelease(t) == IF call[t].size = 0 THEN ZeroSizeArea ELSE call[t].new

\* Release finds an entry e of the address: rte_memzone_free, still inside the
\* lock, of the descriptor that e holds, whatever memory that is the descriptor of
\* by now; DPDK refuses one that is not reserved.
ReleaseFound(t, e) ==
  /\ At(t, "release")
  /\ mutex = {}
  /\ e \in registry /\ e[1] = call[t].old
  /\ mutex' = {t}
  /\ reserved' = {r \in reserved : r[2] # e[2]}
  /\ call' = [call EXCEPT ![t].pc = "erase", ![t].entry = e, ![t].seen = registry]
  /\ UNCHANGED <<registry, buffer, raced, revived>>

\* It does not: nothing is freed.  A find that overlaps an insertion may miss.
ReleaseNotFound(t) ==
  /\ At(t, "release")
  /\ mutex = {}
  /\ call[t].old \notin AddrsOf(registry) \/ \E u \in Changing(t) : At(u, "insert")
  /\ raced' = (raced \/ Changing(t) # {})
  /\ Return(t, AddrAfterRelease(t))
  /\ UNCHANGED <<reserved, registry, mutex, revived>>

\* A fault for Erase: the entry stays.
EraseNothing(t) ==
  /\ At(t, "erase")
  /\ mutex' = {}
  /\ Return(t, AddrAfterRelease(t))
  /\ UNCHANGED <<reserved, registry, raced, revived>>

\* The entry that was found is erased and the lock released.
Erase(t) ==
  /\ At(t, "erase")
  /\ \E m \in Bases(t) : ChangeMap(t, m \ {call[t].entry}, {})
  /\ mutex' = {}
  /\ Return(t, AddrAfterRelease(t))
  /\ UNCHANGED reserved

Next ==
  \E t \in Threads :
    \/ \E size \in 0..MaxSize : Allocate(t, size) \/ Reallocate(t, size)
    \/ Free(t)
    \/ \E a \in Addresses, z \in Memzones : Reserve(t, a, z)
    \/ ReserveFails(t)
    \/ Emplace(t)
    \/ \E e \in Entries : ReleaseFound(t, e)
    \/ ReleaseNotFound(t)
    \/ Erase(t)

Spec == Init /\ [][Next]_vars

-----------------------------------------------------------------------------
(* Properties *)

BufferAddresses == Addresses \cup {"none", ZeroSizeArea}

\* Types: a buffer is a memzone or the area of size 0, never a nullptr.
TypeOK ==
  /\ reserved \subseteq Entries
  /\ registry \subseteq Entries
  /\ mutex \subseteq Threads
  /\ call \in [Threads -> [pc : PCs, new : Addresses \cup {"none"},
                          old : Addresses \cup {"none"}, size : -1..MaxSize,
                          entry : Entries \cup {NoEntry}, seen : SUBSET Entries]]
  /\ buffer \in [Threads -> [addr : BufferAddresses, size : 0..MaxSize]]
  /\ raced \in BOOLEAN
  /\ revived \in BOOLEAN

\* The addresses thread t relies on: its buffer until Release frees it, and what
\* it has just reserved.
Held(t) ==
  (Addresses \cap {buffer[t].addr, call[t].new})
    \ (IF At(t, "erase") THEN {call[t].old} ELSE {})

\* A thread's memory is its own for as long as it relies on it: it is reserved
\* and no other thread has it, whatever failed reallocations, the reuse of
\* addresses and descriptors and the races on the map do, lost insertions and
\* missed lookups included; all but one that brings an erased entry back, whose
\* descriptor Release would free a second time (memory_pool.cc:317).
HeldExclusively ==
  ~revived =>
    \A t \in Threads :
      /\ Held(t) \subseteq AddrsOf(reserved)
      /\ \A u \in Threads \ {t} : Held(t) \cap Held(u) = {}

\* The entries that are about to be inserted, and about to be erased.
Inserting == {call[t].entry : t \in {u \in Threads : At(u, "insert")}}
Erasing == {call[t].entry : t \in {u \in Threads : At(u, "erase")}}

\* As long as no unlocked insertion has met another change of the map, the map
\* is exact, descriptors included: the reserved memzones except those about to be
\* inserted, and those about to be erased; every reserved memzone has an owner,
\* and no entry that was gone is back.
ExactUnlessRaced ==
  ~raced =>
    /\ registry = (reserved \ Inserting) \cup Erasing
    /\ \A a \in AddrsOf(reserved) : \E t \in Threads : a \in Held(t)
    /\ ~revived

\* "Look up the memzone associated with the virtual address": the owner of a
\* memzone gets it from Of.
OwnedAreRegistered ==
  \A t \in Threads :
    At(t, "idle") => Addresses \cap {buffer[t].addr} \subseteq AddrsOf(registry)

=============================================================================
