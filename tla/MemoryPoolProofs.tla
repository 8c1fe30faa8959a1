-------------------------- MODULE MemoryPoolProofs --------------------------
(***************************************************************************)
(* Proofs about MemoryPool, for any number of threads, addresses and       *)
(* descriptors: a thread's memory is its own until a race on the tracker's *)
(* map brings an erased entry back, and the map is exact until an          *)
(* insertion meets another change of it.                                   *)
(***************************************************************************)
EXTENDS MemoryPool, TLAPS

\* What the program counter of a call says about its locals: the address just
\* reserved and its entry, the address to release and the entry found for it, and
\* the size of the buffer it will return.
LocalOK(c, b) ==
  /\ c.pc = "idle" => c = Idle
  /\ c.pc = "reserve" => c.new = "none" /\ c.size > 0
  /\ c.pc = "insert" => /\ c.new \in Addresses /\ c.size > 0
                        /\ c.entry \in Entries /\ c.entry[1] = c.new
  /\ c.pc \in {"reserve", "insert"} =>
       c.old = IF b.addr \in Addresses THEN b.addr ELSE "none"
  /\ c.pc \in {"release", "erase"} =>
       /\ c.old \in Addresses
       /\ c.old = b.addr
       /\ IF c.size > 0 THEN c.new \in Addresses ELSE c.new = "none"

LocalsOK == \A t \in Threads : LocalOK(call[t], buffer[t])

\* DPDK: one descriptor per reserved address, one address per descriptor.
OneToOne == \A e, f \in reserved : e[1] = f[1] \/ e[2] = f[2] => e = f

\* Only Release holds the mutex, from its find to its erase.
MutexOK == \A t \in Threads : At(t, "erase") => mutex = {t}

\* What HeldExclusively says when no entry has been brought back.
Exclusive ==
  \A t \in Threads :
    /\ Held(t) \subseteq AddrsOf(reserved)
    /\ \A u \in Threads \ {t} : Held(t) \cap Held(u) = {}

\* Every entry of the map is of a memzone that is reserved, or about to be erased;
\* an entry to insert is of a reserved memzone; a reallocation has two addresses.
EntriesLive ==
  /\ registry \subseteq reserved \cup Erasing
  /\ \A t \in Threads : At(t, "insert") => call[t].entry \in reserved
  /\ \A t \in Threads : call[t].new \in Addresses => call[t].new # call[t].old

Live == Exclusive /\ EntriesLive

\* A change of the map that nobody has raced with started from the map as it is;
\* and no entry is about to be erased whose memzone is reserved and has an entry
\* of its own.
SeenCurrent ==
  ~raced => /\ \A t \in Threads :
                 At(t, "insert") \/ At(t, "erase") => call[t].seen = registry
            /\ Erasing \cap (reserved \ Inserting) = {}

IInv == /\ TypeOK /\ LocalsOK /\ OneToOne /\ MutexOK
        /\ ~revived => Live
        /\ SeenCurrent /\ ExactUnlessRaced

-----------------------------------------------------------------------------
(* Steps of one thread *)

CallType == [pc : PCs, new : Addresses \cup {"none"}, old : Addresses \cup {"none"},
             size : -1..MaxSize, entry : Entries \cup {NoEntry}, seen : SUBSET Entries]
BufferType == [addr : BufferAddresses, size : 0..MaxSize]

\* The step is one of t: no other thread's call or buffer changes.
Frame(t) == \A u \in Threads \ {t} : call'[u] = call[u] /\ buffer'[u] = buffer[u]

\* The names of no address are not addresses of memory.
LEMMA NotAddresses ==
  /\ "none" \notin Addresses
  /\ ZeroSizeArea \notin Addresses
  /\ MaxSize \in Nat
  /\ Idle \in CallType
  /\ NoBuffer \in BufferType
<1>1. "none" \notin Addresses /\ ZeroSizeArea \notin Addresses /\ MaxSize \in Nat
  BY PoolAssumption DEF PoolAssumption
<1>2. 0 \in -1..MaxSize /\ 0 \in 0..MaxSize
  BY <1>1, SMT
<1>3. Idle \in CallType
  BY <1>2 DEF Idle, CallType, PCs
<1>4. NoBuffer \in BufferType
  BY <1>2 DEF NoBuffer, BufferType, BufferAddresses
<1> QED
  BY <1>1, <1>3, <1>4

\* The record of a call that has ended.
LEMMA IdleFacts ==
  /\ Idle.pc = "idle" /\ Idle.new = "none" /\ Idle.old = "none"
  /\ NoBuffer.addr = "none"
  /\ \A b : LocalOK(Idle, b)
<1>1. Idle.pc = "idle" /\ Idle.new = "none" /\ Idle.old = "none"
  BY DEF Idle
<1> QED
  BY <1>1 DEF NoBuffer, LocalOK

\* A step that gives call[t] and buffer[t] new values is a step of t.
LEMMA FrameOf ==
  ASSUME TypeOK, NEW t \in Threads, NEW c, NEW b,
         call' = [call EXCEPT ![t] = c], buffer' = [buffer EXCEPT ![t] = b]
  PROVE  /\ Frame(t)
         /\ call'[t] = c
         /\ buffer'[t] = b
         /\ c \in CallType /\ b \in BufferType =>
              /\ call' \in [Threads -> CallType]
              /\ buffer' \in [Threads -> BufferType]
BY DEF Frame, TypeOK, CallType, BufferType

\* The other threads keep their locals in order and rely on the same memory.
LEMMA OthersKeep ==
  ASSUME LocalsOK, NEW t \in Threads, Frame(t), LocalOK(call'[t], buffer'[t])
  PROVE  /\ LocalsOK'
         /\ \A u \in Threads \ {t} : Held(u)' = Held(u)
<1>1. \A u \in Threads \ {t} : Held(u)' = Held(u)
  BY DEF Frame, Held, At
<1>2. ASSUME NEW u \in Threads
      PROVE  LocalOK(call'[u], buffer'[u])
  <2>1. CASE u = t
    BY <2>1
  <2>2. CASE u # t
    BY <2>2 DEF Frame, LocalsOK
  <2> QED
    BY <2>1, <2>2
<1> QED
  BY <1>1, <1>2 DEF LocalsOK

\* A step of t that does not concern the map leaves what is being changed.
LEMMA MapKept ==
  ASSUME NEW t \in Threads, Frame(t),
         call[t].pc \notin {"insert", "erase"},
         call'[t].pc \notin {"insert", "erase"}
  PROVE  /\ Inserting' = Inserting /\ Erasing' = Erasing
         /\ \A u \in Threads : /\ At(u, "insert")' <=> At(u, "insert")
                               /\ At(u, "erase")' <=> At(u, "erase")
                               /\ At(u, "insert") \/ At(u, "erase") => call'[u] = call[u]
<1>1. \A u \in Threads : /\ At(u, "insert")' <=> At(u, "insert")
                         /\ At(u, "erase")' <=> At(u, "erase")
                         /\ At(u, "insert") \/ At(u, "erase") => call'[u] = call[u]
  BY DEF Frame, At
<1>2. Inserting' = Inserting
  BY <1>1 DEF Inserting
<1>3. Erasing' = Erasing
  BY <1>1 DEF Erasing
<1> QED
  BY <1>1, <1>2, <1>3

\* When t relies on the same memory as before, everybody's is still exclusive.
LEMMA HeldKept ==
  ASSUME Exclusive, NEW t \in Threads, reserved' = reserved,
         Held(t)' = Held(t), \A u \in Threads \ {t} : Held(u)' = Held(u)
  PROVE  Exclusive'
BY DEF Exclusive, AddrsOf

\* Entering a call, its end without one, and a failed reservation.
LEMMA QuietStep ==
  ASSUME IInv, NEW t \in Threads, NEW c \in CallType, NEW b \in BufferType,
         call' = [call EXCEPT ![t] = c], buffer' = [buffer EXCEPT ![t] = b],
         UNCHANGED <<reserved, registry, mutex, raced, revived>>,
         call[t].pc \notin {"insert", "erase"}, c.pc \notin {"insert", "erase"},
         LocalOK(c, b), call[t].new = "none", c.new = "none",
         Addresses \cap {b.addr} = Addresses \cap {buffer[t].addr}
  PROVE  IInv'
<1>1. Frame(t) /\ call'[t] = c /\ buffer'[t] = b
  BY FrameOf DEF IInv
<1>2. TypeOK'
  BY FrameOf DEF IInv, TypeOK, CallType, BufferType
<1>3. Held(t)' = Held(t)
  <2>1. /\ Held(t)' = Addresses \cap {b.addr, c.new}
        /\ Held(t) = Addresses \cap {buffer[t].addr, call[t].new}
    BY <1>1 DEF Held, At
  <2> QED
    BY <2>1, NotAddresses
<1>4. LocalsOK' /\ \A u \in Threads \ {t} : Held(u)' = Held(u)
  BY <1>1, OthersKeep DEF IInv
<1>5. /\ Inserting' = Inserting /\ Erasing' = Erasing
      /\ \A u \in Threads : /\ At(u, "insert")' <=> At(u, "insert")
                            /\ At(u, "erase")' <=> At(u, "erase")
                            /\ At(u, "insert") \/ At(u, "erase") => call'[u] = call[u]
  BY <1>1, MapKept
<1>6. ~revived => Exclusive'
  BY <1>3, <1>4, HeldKept DEF IInv, Live
<1>7. ~revived => EntriesLive'
  <2>1. ASSUME ~revived, NEW u \in Threads, call'[u].new \in Addresses
        PROVE  call'[u].new # call'[u].old
    <3>1. u # t
      BY <1>1, <2>1, NotAddresses
    <3> QED
      BY <1>1, <2>1, <3>1 DEF IInv, Live, EntriesLive, Frame
  <2> QED
    BY <1>5, <2>1 DEF IInv, Live, EntriesLive
<1>8. MutexOK' /\ OneToOne'
  BY <1>5 DEF IInv, MutexOK, OneToOne
<1>9. SeenCurrent'
  BY <1>5 DEF IInv, SeenCurrent
<1>10. ExactUnlessRaced'
  <2>1. \A u \in Threads : Held(u)' = Held(u)
    BY <1>3, <1>4
  <2>2. AddrsOf(reserved)' = AddrsOf(reserved)
    BY DEF AddrsOf
  <2> QED
    BY <1>5, <2>1, <2>2 DEF IInv, ExactUnlessRaced
<1> QED
  BY <1>2, <1>4, <1>6, <1>7, <1>8, <1>9, <1>10 DEF IInv, Live

-----------------------------------------------------------------------------
(* The calls *)

\* A new process has no memory and an empty map.
LEMMA InitInv == Init => IInv
<1> SUFFICES ASSUME Init PROVE IInv
  OBVIOUS
<1>1. TypeOK
  BY NotAddresses DEF Init, TypeOK, CallType, BufferType
<1>2. \A t \in Threads : call[t] = Idle /\ buffer[t] = NoBuffer
  BY DEF Init
<1>3. LocalsOK
  BY <1>2, IdleFacts DEF LocalsOK
<1>4. \A t \in Threads : Held(t) = {}
  BY <1>2, NotAddresses, IdleFacts DEF Held
<1>5. Inserting = {} /\ Erasing = {}
  BY <1>2 DEF Inserting, Erasing, At, Idle
<1>6. Live
  <2>1. Exclusive
    BY <1>4 DEF Exclusive
  <2>2. EntriesLive
    BY <1>2, NotAddresses, IdleFacts DEF EntriesLive, Init, At
  <2> QED
    BY <2>1, <2>2 DEF Live
<1>7. OneToOne /\ MutexOK
  BY <1>2, IdleFacts DEF Init, OneToOne, MutexOK, At
<1>8. SeenCurrent
  BY <1>2, <1>5, IdleFacts DEF SeenCurrent, At
<1>9. ExactUnlessRaced
  BY <1>5 DEF ExactUnlessRaced, Init, AddrsOf
<1> QED
  BY <1>1, <1>3, <1>6, <1>7, <1>8, <1>9 DEF IInv

\* Entering AllocateAligned, ReallocateAligned or DeallocateAligned, or changing
\* a buffer of size 0, keeps the invariant.
LEMMA EnterStep ==
  ASSUME IInv, NEW t \in Threads, NEW size \in 0..MaxSize,
         Allocate(t, size) \/ Reallocate(t, size) \/ Free(t)
  PROVE  IInv'
<1> DEFINE b == buffer[t]
<1>1. /\ call \in [Threads -> CallType] /\ buffer \in [Threads -> BufferType]
      /\ call[t] = Idle /\ b \in BufferType /\ call[t].new = "none"
      /\ call[t].pc = "idle" /\ call[t] \in CallType
  BY NotAddresses DEF IInv, TypeOK, LocalsOK, LocalOK, CallType, BufferType, Allocate,
     Reallocate, Free, At, Idle
<1>2. /\ call = [call EXCEPT ![t] = call[t]]
      /\ buffer = [buffer EXCEPT ![t] = b]
  BY <1>1
<1>3. ASSUME NEW n \in {[addr |-> ZeroSizeArea, size |-> 0], NoBuffer}, SetBuffer(t, n),
             b.addr \notin Addresses
      PROVE  IInv'
  <2>1. n \in BufferType /\ n.addr \notin Addresses
    BY NotAddresses DEF BufferType, NoBuffer, BufferAddresses
  <2>2. LocalOK(call[t], n)
    BY <1>1 DEF LocalOK
  <2>3. call' = [call EXCEPT ![t] = call[t]] /\ buffer' = [buffer EXCEPT ![t] = n]
    BY <1>2, <1>3 DEF SetBuffer
  <2> QED
    <3>1. /\ UNCHANGED <<reserved, registry, mutex, raced, revived>>
          /\ call[t].pc \notin {"insert", "erase"}
          /\ Addresses \cap {n.addr} = Addresses \cap {buffer[t].addr}
      BY <1>1, <1>3, <2>1 DEF SetBuffer
    <3> QED
      BY <1>1, <2>1, <2>2, <2>3, <3>1, QuietStep
<1>4. ASSUME NEW pc, NEW old, NEW n \in -1..MaxSize, Enter(t, pc, old, n),
             \/ pc = "reserve" /\ n > 0
                  /\ old = IF b.addr \in Addresses THEN b.addr ELSE "none"
             \/ pc = "release" /\ n <= 0 /\ old = b.addr /\ b.addr \in Addresses
      PROVE  IInv'
  <2> DEFINE c == [Idle EXCEPT !.pc = pc, !.old = old, !.size = n]
  <2>1. c \in CallType /\ c.new = "none" /\ c.pc \in {"reserve", "release"}
    BY <1>4, NotAddresses DEF CallType, Idle, PCs
  <2>2. LocalOK(c, b)
    BY <1>4, NotAddresses DEF LocalOK, Idle
  <2>3. call' = [call EXCEPT ![t] = c] /\ buffer' = [buffer EXCEPT ![t] = b]
    BY <1>2, <1>4 DEF Enter
  <2> QED
    <3>1. /\ UNCHANGED <<reserved, registry, mutex, raced, revived>>
          /\ call[t].pc \notin {"insert", "erase"}
          /\ c.pc \notin {"insert", "erase"}
      BY <1>1, <1>4, <2>1 DEF Enter
    <3> HIDE DEF c
    <3> QED
      BY <1>1, <2>1, <2>2, <2>3, <3>1, QuietStep
<1>5. b.addr \in Addresses \/ b.addr = "none" \/ b.addr = ZeroSizeArea
  BY <1>1 DEF BufferType, BufferAddresses
<1>6. NoBuffer.addr = "none" /\ size \in -1..MaxSize /\ 0 \in -1..MaxSize
      /\ -1 \in -1..MaxSize /\ (size # 0 => size > 0)
  BY NotAddresses DEF NoBuffer
<1>7. CASE Allocate(t, size)
  BY <1>3, <1>4, <1>6, <1>7, NotAddresses DEF Allocate
<1>8. CASE Reallocate(t, size)
  BY <1>3, <1>4, <1>5, <1>6, <1>8, NotAddresses DEF Reallocate
<1>9. CASE Free(t)
  BY <1>3, <1>4, <1>5, <1>6, <1>9, NotAddresses DEF Free
<1> QED
  BY <1>7, <1>8, <1>9

\* A failed reservation leaves the caller the buffer it had.
LEMMA ReserveFailsStep ==
  ASSUME IInv, NEW t \in Threads, ReserveFails(t)
  PROVE  IInv'
<1>1. /\ buffer[t] \in BufferType /\ buffer = [buffer EXCEPT ![t] = buffer[t]]
      /\ call[t].pc = "reserve" /\ call[t].new = "none"
  BY DEF IInv, TypeOK, LocalsOK, LocalOK, BufferType, ReserveFails, At
<1>2. Idle \in CallType /\ LocalOK(Idle, buffer[t]) /\ Idle.new = "none" /\ Idle.pc = "idle"
  BY NotAddresses DEF LocalOK, Idle
<1> QED
  BY <1>1, <1>2, QuietStep DEF ReserveFails

-----------------------------------------------------------------------------
(* The allocator and the tracker *)

\* The entries other threads are inserting and erasing.
OthersInserting(t) == {call[u].entry : u \in {v \in Threads \ {t} : At(v, "insert")}}
OthersErasing(t) == {call[u].entry : u \in {v \in Threads \ {t} : At(v, "erase")}}

\* What all threads insert and erase is what t does and what the others do.
LEMMA Parts ==
  ASSUME NEW t \in Threads
  PROVE  /\ Inserting = OthersInserting(t)
                          \cup (IF At(t, "insert") THEN {call[t].entry} ELSE {})
         /\ Erasing = OthersErasing(t)
                          \cup (IF At(t, "erase") THEN {call[t].entry} ELSE {})
BY DEF Inserting, Erasing, OthersInserting, OthersErasing

\* The same after a step of t, in which the others do what they did.
LEMMA PartsAfter ==
  ASSUME NEW t \in Threads, Frame(t)
  PROVE  /\ Inserting' = OthersInserting(t)
                          \cup (IF At(t, "insert")' THEN {call'[t].entry} ELSE {})
         /\ Erasing' = OthersErasing(t)
                          \cup (IF At(t, "erase")' THEN {call'[t].entry} ELSE {})
<1>1. \A u \in Threads \ {t} : /\ call'[u] = call[u]
                               /\ At(u, "insert")' <=> At(u, "insert")
                               /\ At(u, "erase")' <=> At(u, "erase")
  BY DEF Frame, At
<1>2. Inserting' = OthersInserting(t)
                     \cup (IF At(t, "insert")' THEN {call'[t].entry} ELSE {})
  BY <1>1 DEF Inserting, OthersInserting
<1>3. Erasing' = OthersErasing(t)
                     \cup (IF At(t, "erase")' THEN {call'[t].entry} ELSE {})
  BY <1>1 DEF Erasing, OthersErasing
<1> QED
  BY <1>2, <1>3

\* What t relies on is exclusive after its step when it is reserved and nobody
\* else has it.
LEMMA ExclusiveAfter ==
  ASSUME Exclusive, NEW t \in Threads, NEW used, AddrsOf(reserved)' = used,
         \A u \in Threads \ {t} : Held(u)' = Held(u) /\ Held(u) \subseteq used
                                   /\ Held(t)' \cap Held(u) = {},
         Held(t)' \subseteq used
  PROVE  Exclusive'
<1>1. ASSUME NEW u \in Threads
      PROVE  Held(u)' \subseteq AddrsOf(reserved)'
  BY <1>1
<1>2. ASSUME NEW u \in Threads, NEW v \in Threads \ {u}
      PROVE  Held(u)' \cap Held(v)' = {}
  <2>1. CASE u = t
    BY <2>1
  <2>2. CASE v = t
    BY <2>2
  <2>3. CASE u # t /\ v # t
    BY <2>3 DEF Exclusive
  <2> QED
    BY <2>1, <2>2, <2>3
<1> QED
  BY <1>1, <1>2 DEF Exclusive

\* rte_memzone_reserve_aligned returns an address and a descriptor nobody has: what
\* was exact stays exact, with one more entry to insert.
LEMMA ReserveStep ==
  ASSUME IInv, NEW t \in Threads, NEW a \in Addresses, NEW z \in Memzones,
         Reserve(t, a, z)
  PROVE  IInv'
<1> DEFINE e == <<a, z>>
           c == [call[t] EXCEPT !.pc = "insert", !.new = a, !.entry = e,
                                !.seen = registry]
<1>0. e \in Entries /\ e[1] = a /\ e[2] = z
  BY DEF Entries
<1>1. /\ call[t] \in CallType /\ buffer[t] \in BufferType
      /\ call[t].pc = "reserve" /\ call[t].new = "none"
      /\ LocalOK(call[t], buffer[t])
      /\ registry \subseteq Entries
      /\ buffer' = [buffer EXCEPT ![t] = buffer[t]] /\ call' = [call EXCEPT ![t] = c]
  BY DEF IInv, TypeOK, LocalsOK, LocalOK, CallType, BufferType, Reserve, At
<1>2. /\ a \notin AddrsOf(reserved) /\ z \notin MemzonesOf(reserved)
      /\ reserved' = reserved \cup {e}
      /\ registry' = registry /\ raced' = raced /\ revived' = revived /\ mutex' = mutex
  BY DEF Reserve
<1> HIDE DEF e
<1>3. /\ c \in CallType
      /\ c.pc = "insert" /\ c.new = a /\ c.seen = registry /\ c.entry = e
      /\ c.old = call[t].old /\ c.size = call[t].size
  BY <1>0, <1>1 DEF CallType, PCs
<1> HIDE DEF c
<1>4. Frame(t) /\ call'[t] = c /\ buffer'[t] = buffer[t]
  BY <1>1, FrameOf DEF IInv
<1>5. TypeOK'
  <2>1. call' \in [Threads -> CallType] /\ buffer' \in [Threads -> BufferType]
    BY <1>1, <1>3, FrameOf DEF IInv
  <2> QED
    BY <1>0, <1>2, <2>1 DEF IInv, TypeOK, CallType, BufferType
<1>6. LocalOK(c, buffer[t])
  BY <1>0, <1>1, <1>3 DEF LocalOK
<1>7. LocalsOK' /\ \A u \in Threads \ {t} : Held(u)' = Held(u)
  BY <1>4, <1>6, OthersKeep DEF IInv
<1>8. Held(t)' = Held(t) \cup {a}
  BY <1>1, <1>3, <1>4, NotAddresses DEF Held, At
<1>9. AddrsOf(reserved)' = AddrsOf(reserved) \cup {a}
  BY <1>0, <1>2 DEF AddrsOf
<1>10. OneToOne'
  BY <1>0, <1>2 DEF IInv, OneToOne, AddrsOf, MemzonesOf
<1>11. /\ Inserting' = Inserting \cup {e}
       /\ Erasing' = Erasing
  <2>1. ~At(t, "insert") /\ ~At(t, "erase") /\ At(t, "insert")' /\ ~At(t, "erase")'
    BY <1>1, <1>3, <1>4 DEF At
  <2>2. Inserting = OthersInserting(t) /\ Erasing = OthersErasing(t)
    BY <2>1, Parts
  <2>3. Inserting' = OthersInserting(t) \cup {e} /\ Erasing' = OthersErasing(t)
    BY <1>3, <1>4, <2>1, PartsAfter
  <2> QED
    BY <2>2, <2>3
<1>12. ~revived => Exclusive'
  <2> SUFFICES ASSUME ~revived PROVE Exclusive'
    OBVIOUS
  <2>1. Exclusive
    BY DEF IInv, Live
  <2>2. ASSUME NEW u \in Threads \ {t}
        PROVE  /\ Held(u)' = Held(u) /\ Held(u) \subseteq AddrsOf(reserved) \cup {a}
               /\ Held(t)' \cap Held(u) = {}
    BY <1>2, <1>7, <1>8, <2>1 DEF Exclusive
  <2>3. Held(t)' \subseteq AddrsOf(reserved) \cup {a}
    BY <1>8, <2>1 DEF Exclusive
  <2> QED
    BY <1>9, <2>1, <2>2, <2>3, ExclusiveAfter
<1>13. ~revived => EntriesLive'
  <2> SUFFICES ASSUME ~revived PROVE EntriesLive'
    OBVIOUS
  <2>1. registry' \subseteq reserved' \cup Erasing'
    BY <1>2, <1>11 DEF IInv, Live, EntriesLive
  <2>2. ASSUME NEW u \in Threads, At(u, "insert")'
        PROVE  call'[u].entry \in reserved'
    BY <1>2, <1>3, <1>4, <2>2 DEF IInv, Live, EntriesLive, Frame, At
  <2>3. call'[t].new # call'[t].old
    <3>1. buffer[t].addr \in Addresses => buffer[t].addr \in AddrsOf(reserved)
      BY <1>1 DEF IInv, Live, Exclusive, Held, At
    <3> QED
      BY <1>1, <1>2, <1>3, <1>4, <3>1, NotAddresses DEF LocalOK
  <2>4. \A u \in Threads : call'[u].new \in Addresses => call'[u].new # call'[u].old
    BY <1>4, <2>3 DEF IInv, Live, EntriesLive, Frame
  <2> QED
    BY <2>1, <2>2, <2>4 DEF EntriesLive
<1>14. MutexOK'
  BY <1>2, <1>3, <1>4 DEF IInv, MutexOK, Frame, At
<1>15. SeenCurrent'
  <2>1. ASSUME ~raced
        PROVE  \A u \in Threads : At(u, "insert")' \/ At(u, "erase")'
                                   => call'[u].seen = registry'
    BY <1>2, <1>3, <1>4, <2>1 DEF IInv, SeenCurrent, Frame, At
  <2> QED
    BY <1>2, <1>11, <2>1 DEF IInv, SeenCurrent
<1>16. ExactUnlessRaced'
  <2>1. reserved' \ Inserting' = reserved \ Inserting
    <3>1. e \notin reserved
      BY <1>0, <1>2 DEF AddrsOf
    <3> QED
      BY <1>2, <1>11, <3>1
  <2>2. ASSUME NEW y \in AddrsOf(reserved)',
               \A x \in AddrsOf(reserved) : \E u \in Threads : x \in Held(u)
        PROVE  \E u \in Threads : y \in Held(u)'
    BY <1>7, <1>8, <1>9, <2>2
  <2> QED
    BY <1>2, <1>11, <2>1, <2>2 DEF IInv, ExactUnlessRaced
<1> QED
  BY <1>2, <1>5, <1>7, <1>10, <1>12, <1>13, <1>14, <1>15, <1>16 DEF IInv, Live

\* The end of a call, its buffer being at addr.
LEMMA ReturnFacts ==
  ASSUME TypeOK, NEW t \in Threads, NEW addr \in BufferAddresses, Return(t, addr)
  PROVE  /\ Frame(t)
         /\ call'[t] = Idle
         /\ call' \in [Threads -> CallType] /\ buffer' \in [Threads -> BufferType]
         /\ LocalOK(call'[t], buffer'[t])
         /\ Held(t)' = IF call[t].size < 0 THEN {} ELSE Addresses \cap {addr}
<1> DEFINE b == IF call[t].size < 0 THEN NoBuffer ELSE [addr |-> addr, size |-> call[t].size]
<1>1. call[t].size \in -1..MaxSize
  BY DEF TypeOK
<1>2. b \in BufferType
  <2>1. CASE call[t].size < 0
    BY <2>1, NotAddresses
  <2>2. CASE ~(call[t].size < 0)
    <3>1. call[t].size \in 0..MaxSize
      BY <1>1, <2>2, NotAddresses
    <3> QED
      BY <2>2, <3>1 DEF BufferType
  <2> QED
    BY <2>1, <2>2
<1>3. b.addr = IF call[t].size < 0 THEN "none" ELSE addr
  BY IdleFacts
<1>4. call' = [call EXCEPT ![t] = Idle] /\ buffer' = [buffer EXCEPT ![t] = b]
  BY DEF Return
<1> HIDE DEF b
<1>5. /\ Frame(t) /\ call'[t] = Idle /\ buffer'[t] = b
      /\ call' \in [Threads -> CallType] /\ buffer' \in [Threads -> BufferType]
  BY <1>2, <1>4, NotAddresses, FrameOf
<1>6. Held(t)' = Addresses \cap {b.addr, "none"}
  BY <1>5, IdleFacts DEF Held, At
<1> QED
  BY <1>3, <1>5, <1>6, IdleFacts, NotAddresses

\* When nobody else is changing the map and t has ended its change, no entry is
\* missing and none is there too long.
LEMMA LastChange ==
  ASSUME NEW t \in Threads, Frame(t), Changing(t) = {},
         call'[t].pc \notin {"insert", "erase"}
  PROVE  /\ OthersInserting(t) = {} /\ OthersErasing(t) = {}
         /\ Inserting' = {} /\ Erasing' = {}
         /\ \A u \in Threads : ~At(u, "insert")' /\ ~At(u, "erase")'
<1>1. \A u \in Threads \ {t} : ~At(u, "insert") /\ ~At(u, "erase")
  BY DEF Changing
<1>2. \A u \in Threads : ~At(u, "insert")' /\ ~At(u, "erase")'
  <2>1. \A u \in Threads \ {t} : call'[u] = call[u]
    BY DEF Frame
  <2> QED
    BY <1>1, <2>1 DEF At
<1>3. OthersInserting(t) = {} /\ OthersErasing(t) = {}
  BY <1>1 DEF OthersInserting, OthersErasing
<1>4. Inserting' = {} /\ Erasing' = {}
  BY <1>2 DEF Inserting, Erasing
<1> QED
  BY <1>2, <1>3, <1>4

\* The map is exact when the last change of it, by t, has not been raced with and
\* has made it the set of reserved memzones.
LEMMA ExactAfter ==
  ASSUME IInv, NEW t \in Threads, Frame(t), call'[t].pc \notin {"insert", "erase"},
         \A u \in Threads \ {t} : Held(u)' = Held(u), Held(t)' = Held(t),
         reserved' = reserved, raced' = (raced \/ Changing(t) # {}),
         ~raced' => registry' = reserved /\ ~revived'
  PROVE  SeenCurrent' /\ ExactUnlessRaced'
<1>1. CASE raced'
  BY <1>1 DEF SeenCurrent, ExactUnlessRaced
<1>2. CASE ~raced'
  <2>1. ~raced /\ Changing(t) = {}
    BY <1>2
  <2>2. /\ Inserting' = {} /\ Erasing' = {}
        /\ \A u \in Threads : ~At(u, "insert")' /\ ~At(u, "erase")'
    BY <2>1, LastChange
  <2>3. ASSUME NEW y \in AddrsOf(reserved)'
        PROVE  \E u \in Threads : y \in Held(u)'
    <3>1. y \in AddrsOf(reserved)
      BY <2>3 DEF AddrsOf
    <3>2. PICK u \in Threads : y \in Held(u)
      BY <2>1, <3>1 DEF IInv, ExactUnlessRaced
    <3> QED
      BY <3>2
  <2>4. SeenCurrent'
    BY <2>2 DEF SeenCurrent
  <2>5. registry' = (reserved' \ Inserting') \cup Erasing'
    BY <1>2, <2>2
  <2> QED
    BY <1>2, <2>3, <2>4, <2>5 DEF ExactUnlessRaced
<1> QED
  BY <1>1, <1>2

\* A change of the map by t that nobody has raced with starts from the map as it
\* is, and t is the only one to change it.
LEMMA AloneOnMap ==
  ASSUME IInv, NEW t \in Threads, Frame(t), At(t, "insert") \/ At(t, "erase"),
         call'[t].pc \notin {"insert", "erase"}, ~raced, Changing(t) = {}
  PROVE  /\ Bases(t) = {registry}
         /\ Inserting = (IF At(t, "insert") THEN {call[t].entry} ELSE {})
         /\ Erasing = (IF At(t, "erase") THEN {call[t].entry} ELSE {})
         /\ registry = (reserved \ Inserting) \cup Erasing
         /\ Erasing \cap (reserved \ Inserting) = {}
         /\ Live
<1>1. Bases(t) = {registry}
  BY DEF Bases, IInv, SeenCurrent
<1>2. OthersInserting(t) = {} /\ OthersErasing(t) = {}
  BY LastChange
<1>3. /\ Inserting = (IF At(t, "insert") THEN {call[t].entry} ELSE {})
      /\ Erasing = (IF At(t, "erase") THEN {call[t].entry} ELSE {})
  BY <1>2, Parts
<1>4. /\ registry = (reserved \ Inserting) \cup Erasing
      /\ Erasing \cap (reserved \ Inserting) = {}
  BY DEF IInv, ExactUnlessRaced, SeenCurrent
<1>5. Live
  BY DEF IInv, ExactUnlessRaced
<1> QED
  BY <1>1, <1>3, <1>4, <1>5

\* Emplace without the mutex: nobody loses memory unless an erased entry is back, and
\* if nobody raced, the map is exact.
LEMMA EmplaceStep ==
  ASSUME IInv, NEW t \in Threads, Emplace(t)
  PROVE  IInv'
<1> DEFINE new == call[t].new
           e == call[t].entry
           c == [call[t] EXCEPT !.pc = "release"]
<1>1. /\ call[t] \in CallType /\ buffer[t] \in BufferType
      /\ call[t].pc = "insert" /\ new \in Addresses /\ call[t].size > 0
      /\ e \in Entries /\ e[1] = new
      /\ call[t].seen \subseteq Entries /\ new \in BufferAddresses
      /\ LocalOK(call[t], buffer[t])
  BY DEF IInv, TypeOK, LocalsOK, LocalOK, CallType, BufferType, Emplace, At,
     BufferAddresses
<1>2. /\ Frame(t) /\ call'[t].pc \notin {"insert", "erase"}
      /\ call' \in [Threads -> CallType] /\ buffer' \in [Threads -> BufferType]
      /\ LocalOK(call'[t], buffer'[t])
      /\ Held(t)' = Held(t)
      /\ call'[t].new \in Addresses =>
           call'[t].new = new /\ call'[t].old = call[t].old
  <2>1. CASE call[t].old = "none"
    <3>1. Return(t, new)
      BY <2>1 DEF Emplace
    <3>2. buffer[t].addr \notin Addresses
      BY <1>1, <2>1, NotAddresses DEF LocalOK
    <3>3. Held(t) = {new}
      BY <1>1, <3>2 DEF Held, At
    <3>4. Held(t)' = Addresses \cap {new}
      <4>1. ~(call[t].size < 0)
        BY <1>1, SMT DEF CallType
      <4> QED
        BY <1>1, <3>1, <4>1, ReturnFacts DEF IInv
    <3>5. /\ Frame(t) /\ call'[t] = Idle
          /\ call' \in [Threads -> CallType] /\ buffer' \in [Threads -> BufferType]
          /\ LocalOK(call'[t], buffer'[t])
      BY <1>1, <3>1, ReturnFacts DEF IInv
    <3> QED
      BY <1>1, <3>3, <3>4, <3>5, IdleFacts, NotAddresses
  <2>2. CASE call[t].old # "none"
    <3>1. call' = [call EXCEPT ![t] = c] /\ buffer' = [buffer EXCEPT ![t] = buffer[t]]
      BY <2>2 DEF Emplace, IInv, TypeOK
    <3>2. /\ c \in CallType /\ c.pc = "release" /\ c.new = new
          /\ c.old = call[t].old /\ c.size = call[t].size
      BY <1>1 DEF CallType, PCs
    <3>3. LocalOK(c, buffer[t])
      BY <1>1, <2>2, <3>2 DEF LocalOK
    <3> HIDE DEF c
    <3>4. Frame(t) /\ call'[t] = c /\ buffer'[t] = buffer[t]
      BY <3>1, FrameOf DEF IInv
    <3>5. call' \in [Threads -> CallType] /\ buffer' \in [Threads -> BufferType]
      BY <1>1, <3>1, <3>2, FrameOf DEF IInv
    <3>6. Held(t)' = Held(t)
      BY <1>1, <3>2, <3>4 DEF Held, At
    <3> QED
      BY <3>2, <3>3, <3>4, <3>5, <3>6
  <2> QED
    BY <2>1, <2>2
<1>3. LocalsOK' /\ \A u \in Threads \ {t} : Held(u)' = Held(u)
  BY <1>2, OthersKeep DEF IInv
<1>4. PICK m \in Bases(t) : ChangeMap(t, Emplaced(m, e), {e})
  BY DEF Emplace
<1>5. /\ reserved' = reserved /\ mutex' = mutex
      /\ raced' = (raced \/ Changing(t) # {})
      /\ registry' = Emplaced(m, e)
      /\ revived' = (revived \/ ~(registry' \subseteq registry \cup {e}))
  BY <1>4 DEF Emplace, ChangeMap
<1>6. TypeOK'
  <2>1. registry' \subseteq Entries
    BY <1>1, <1>5 DEF Bases, Emplaced, IInv, TypeOK
  <2> QED
    BY <1>2, <1>5, <2>1 DEF IInv, TypeOK, CallType, BufferType
<1>7. ~revived' => Live'
  <2> SUFFICES ASSUME ~revived' PROVE Live'
    OBVIOUS
  <2>1. Live /\ registry' \subseteq registry \cup {e}
    BY <1>5 DEF IInv
  <2>2. Exclusive'
    BY <1>2, <1>3, <1>5, <2>1, HeldKept DEF Live
  <2>3. e \in reserved
    BY <1>1, <2>1 DEF Live, EntriesLive, At
  <2>4. Erasing' = Erasing
    <3>1. ~At(t, "erase") /\ ~At(t, "erase")'
      BY <1>1, <1>2 DEF At
    <3> QED
      BY <1>2, <3>1, Parts, PartsAfter
  <2>5. registry' \subseteq reserved' \cup Erasing'
    BY <1>5, <2>1, <2>3, <2>4 DEF Live, EntriesLive
  <2>6. ASSUME NEW u \in Threads, At(u, "insert")'
        PROVE  call'[u].entry \in reserved'
    <3>1. u # t
      BY <1>2, <2>6 DEF At
    <3> QED
      BY <1>2, <1>5, <2>1, <2>6, <3>1 DEF Live, EntriesLive, Frame, At
  <2>7. ASSUME NEW u \in Threads, call'[u].new \in Addresses
        PROVE  call'[u].new # call'[u].old
    BY <1>1, <1>2, <2>1, <2>7 DEF Live, EntriesLive, Frame
  <2> QED
    BY <2>2, <2>5, <2>6, <2>7 DEF Live, EntriesLive
<1>8. MutexOK' /\ OneToOne'
  <2>1. MutexOK'
    BY <1>2, <1>5 DEF IInv, MutexOK, Frame, At
  <2>2. OneToOne'
    BY <1>5 DEF IInv, OneToOne
  <2> QED
    BY <2>1, <2>2
<1>9. ASSUME ~raced' PROVE registry' = reserved /\ ~revived'
  <2>1. ~raced /\ Changing(t) = {}
    BY <1>5, <1>9
  <2>2. At(t, "insert") /\ ~At(t, "erase")
    BY <1>1 DEF At
  <2>3. /\ m = registry /\ registry = reserved \ {e}
        /\ Live
    BY <1>2, <2>1, <2>2, AloneOnMap
  <2>4. e \in reserved
    BY <2>2, <2>3 DEF Live, EntriesLive
  <2>5. e[1] \notin AddrsOf(registry)
    BY <2>3, <2>4 DEF AddrsOf, IInv, OneToOne
  <2>6. registry' = registry \cup {e}
    BY <1>5, <2>3, <2>5 DEF Emplaced
  <2>7. ~revived
    BY <2>1 DEF IInv, ExactUnlessRaced
  <2> QED
    BY <1>5, <2>3, <2>4, <2>6, <2>7
<1>10. SeenCurrent' /\ ExactUnlessRaced'
  BY <1>2, <1>3, <1>5, <1>9, ExactAfter
<1> QED
  BY <1>3, <1>6, <1>7, <1>8, <1>10 DEF IInv

\* What the calls that release or have released an address know.
LEMMA ReleaseFacts ==
  ASSUME IInv, NEW t \in Threads, call[t].pc \in {"release", "erase"}
  PROVE  /\ call[t] \in CallType /\ buffer[t] \in BufferType
         /\ call[t].old \in Addresses /\ call[t].old = buffer[t].addr
         /\ AddrAfterRelease(t) \in BufferAddresses
         /\ Addresses \cap {call[t].new}
              = IF call[t].size < 0 THEN {} ELSE Addresses \cap {AddrAfterRelease(t)}
         /\ call[t].pc = "release" =>
              Held(t) = {call[t].old} \cup (Addresses \cap {call[t].new})
         /\ call[t].pc = "erase" =>
              Held(t) = (Addresses \cap {call[t].new}) \ {call[t].old}
<1>1. /\ call[t] \in CallType /\ buffer[t] \in BufferType
      /\ call[t].size \in Int /\ call[t].new \in Addresses \cup {"none"}
  BY DEF IInv, TypeOK, CallType, BufferType
<1>2. /\ call[t].old \in Addresses /\ call[t].old = buffer[t].addr
      /\ IF call[t].size > 0 THEN call[t].new \in Addresses ELSE call[t].new = "none"
  BY DEF IInv, LocalsOK, LocalOK
<1>3. AddrAfterRelease(t) \in BufferAddresses
  BY <1>1 DEF AddrAfterRelease, BufferAddresses
<1>4. Addresses \cap {call[t].new}
        = IF call[t].size < 0 THEN {} ELSE Addresses \cap {AddrAfterRelease(t)}
  <2>1. CASE call[t].size > 0
    <3>1. ~(call[t].size < 0) /\ call[t].size # 0
      BY <1>1, <2>1
    <3> QED
      BY <3>1 DEF AddrAfterRelease
  <2>2. CASE ~(call[t].size > 0)
    <3>1. call[t].size < 0 \/ call[t].size = 0
      BY <1>1, <2>2
    <3>2. Addresses \cap {call[t].new} = {}
      BY <1>2, <2>2, NotAddresses
    <3> QED
      BY <3>1, <3>2, NotAddresses DEF AddrAfterRelease
  <2> QED
    BY <2>1, <2>2
<1>5. call[t].pc = "release" =>
        Held(t) = {call[t].old} \cup (Addresses \cap {call[t].new})
  BY <1>2 DEF Held, At
<1>6. call[t].pc = "erase" => Held(t) = (Addresses \cap {call[t].new}) \ {call[t].old}
  BY <1>2 DEF Held, At
<1> QED
  BY <1>1, <1>2, <1>3, <1>4, <1>5, <1>6

\* What the end of a release leaves: an idle thread that relies on its new memory.
LEMMA ReleaseReturns ==
  ASSUME IInv, NEW t \in Threads, call[t].pc \in {"release", "erase"},
         Return(t, AddrAfterRelease(t))
  PROVE  /\ Frame(t) /\ call'[t] = Idle /\ call'[t].pc = "idle" /\ call'[t].new = "none"
         /\ call' \in [Threads -> CallType] /\ buffer' \in [Threads -> BufferType]
         /\ LocalsOK'
         /\ Held(t)' = Addresses \cap {call[t].new}
         /\ \A u \in Threads \ {t} : Held(u)' = Held(u)
<1>1. AddrAfterRelease(t) \in BufferAddresses
  BY ReleaseFacts
<1>2. /\ Frame(t) /\ call'[t] = Idle
      /\ call' \in [Threads -> CallType] /\ buffer' \in [Threads -> BufferType]
      /\ LocalOK(call'[t], buffer'[t])
      /\ Held(t)' = IF call[t].size < 0 THEN {} ELSE Addresses \cap {AddrAfterRelease(t)}
  BY <1>1, ReturnFacts DEF IInv
<1>3. Held(t)' = Addresses \cap {call[t].new}
  BY <1>2, ReleaseFacts
<1>4. LocalsOK' /\ \A u \in Threads \ {t} : Held(u)' = Held(u)
  BY <1>2, OthersKeep DEF IInv
<1> QED
  BY <1>2, <1>3, <1>4, IdleFacts

\* Freeing the descriptor of an entry that is reserved frees its address, and that
\* one only.
LEMMA FreesOne ==
  ASSUME OneToOne, NEW e \in reserved,
         reserved' = {r \in reserved : r[2] # e[2]}
  PROVE  /\ reserved' = reserved \ {e}
         /\ AddrsOf(reserved)' = AddrsOf(reserved) \ {e[1]}
<1>1. reserved' = reserved \ {e}
  BY DEF OneToOne
<1>2. \A r \in reserved : r # e => r[1] # e[1]
  BY DEF OneToOne
<1> QED
  BY <1>1, <1>2 DEF AddrsOf

\* Release frees the memzone of its caller and of nobody else, as long as the map has
\* no entry that was gone; its entry is now the one to erase.
LEMMA ReleaseFoundStep ==
  ASSUME IInv, NEW t \in Threads, NEW e \in Entries, ReleaseFound(t, e)
  PROVE  IInv'
<1> DEFINE old == call[t].old
           c == [call[t] EXCEPT !.pc = "erase", !.entry = e, !.seen = registry]
<1>1. /\ call[t].pc = "release" /\ mutex = {} /\ mutex' = {t}
      /\ e \in registry /\ e[1] = old
      /\ reserved' = {r \in reserved : r[2] # e[2]}
      /\ registry' = registry /\ raced' = raced /\ revived' = revived
  BY DEF ReleaseFound, At
<1>2. /\ old \in Addresses
      /\ call[t] \in CallType /\ buffer[t] \in BufferType
      /\ LocalOK(call[t], buffer[t])
      /\ Held(t) = {old} \cup (Addresses \cap {call[t].new})
      /\ registry \subseteq Entries
  BY <1>1, ReleaseFacts DEF IInv, LocalsOK, TypeOK
<1>3. /\ c \in CallType /\ c.pc = "erase" /\ c.seen = registry /\ c.entry = e
      /\ c.new = call[t].new /\ c.old = old /\ c.size = call[t].size
  BY <1>2 DEF CallType, PCs
<1>4. LocalOK(c, buffer[t])
  BY <1>1, <1>2, <1>3 DEF LocalOK
<1>5. call' = [call EXCEPT ![t] = c] /\ buffer' = [buffer EXCEPT ![t] = buffer[t]]
  BY DEF ReleaseFound, IInv, TypeOK
<1> HIDE DEF c
<1>6. Frame(t) /\ call'[t] = c /\ buffer'[t] = buffer[t]
  BY <1>5, FrameOf DEF IInv
<1>7. TypeOK'
  <2>1. call' \in [Threads -> CallType] /\ buffer' \in [Threads -> BufferType]
    BY <1>2, <1>3, <1>5, FrameOf DEF IInv
  <2>2. reserved' \subseteq Entries
    BY <1>1 DEF IInv, TypeOK
  <2> QED
    BY <1>1, <2>1, <2>2 DEF IInv, TypeOK, CallType, BufferType
<1>8. LocalsOK' /\ \A u \in Threads \ {t} : Held(u)' = Held(u)
  BY <1>4, <1>6, OthersKeep DEF IInv
<1>9. Held(t)' = (Addresses \cap {call[t].new}) \ {old}
  <2>1. Held(t)' = (Addresses \cap {buffer[t].addr, c.new}) \ {c.old}
    BY <1>3, <1>6 DEF Held, At
  <2> QED
    BY <1>1, <1>2, <1>3, <2>1, ReleaseFacts
<1>10. /\ Inserting' = Inserting /\ Erasing' = Erasing \cup {e} /\ Erasing = {}
  <2>1. ~At(t, "insert") /\ ~At(t, "erase") /\ ~At(t, "insert")' /\ At(t, "erase")'
    BY <1>1, <1>3, <1>6 DEF At
  <2>2. Erasing = {}
    BY <1>1 DEF IInv, MutexOK, Erasing
  <2> QED
    BY <1>3, <1>6, <2>1, <2>2, Parts, PartsAfter
<1>11. OneToOne'
  BY <1>1 DEF IInv, OneToOne
<1>12. MutexOK'
  BY <1>1, <1>3, <1>6 DEF IInv, MutexOK, Frame, At
<1>13. ASSUME ~revived
       PROVE  /\ Live /\ e \in reserved
              /\ reserved' = reserved \ {e}
              /\ AddrsOf(reserved)' = AddrsOf(reserved) \ {old}
  <2>1. Live /\ e \in reserved
    BY <1>1, <1>10, <1>13 DEF IInv, Live, EntriesLive
  <2> QED
    BY <1>1, <2>1, FreesOne DEF IInv
<1>14. ~revived => Exclusive'
  <2> SUFFICES ASSUME ~revived PROVE Exclusive'
    OBVIOUS
  <2>1. Exclusive /\ AddrsOf(reserved)' = AddrsOf(reserved) \ {old}
    BY <1>13 DEF Live
  <2>2. ASSUME NEW u \in Threads \ {t}
        PROVE  /\ Held(u)' = Held(u) /\ Held(u) \subseteq AddrsOf(reserved) \ {old}
               /\ Held(t)' \cap Held(u) = {}
    BY <1>2, <1>8, <1>9, <2>1 DEF Exclusive
  <2>3. Held(t)' \subseteq AddrsOf(reserved) \ {old}
    BY <1>2, <1>9, <2>1 DEF Exclusive
  <2> QED
    BY <2>1, <2>2, <2>3, ExclusiveAfter
<1>15. ~revived => EntriesLive'
  <2> SUFFICES ASSUME ~revived PROVE EntriesLive'
    OBVIOUS
  <2>1. Live /\ reserved' = reserved \ {e}
    BY <1>13
  <2>2. registry' \subseteq reserved' \cup Erasing'
    BY <1>1, <1>10, <2>1 DEF Live, EntriesLive
  <2>3. ASSUME NEW u \in Threads, At(u, "insert")'
        PROVE  call'[u].entry \in reserved'
    <3>1. u # t
      BY <1>3, <1>6, <2>3 DEF At
    <3>2. call'[u] = call[u] /\ At(u, "insert") /\ call[u].entry \in reserved
      BY <1>6, <2>1, <2>3, <3>1 DEF Live, EntriesLive, Frame, At
    <3>3. call[u].entry[1] = call[u].new /\ call[u].new \in Addresses
      BY <3>2 DEF IInv, LocalsOK, LocalOK, At
    <3>4. call[u].new \in Held(u)
      BY <3>2, <3>3 DEF Held, At
    <3>5. call[u].new # old
      BY <1>2, <2>1, <3>1, <3>4 DEF Live, Exclusive
    <3> QED
      BY <1>1, <2>1, <3>2, <3>3, <3>5
  <2>4. \A u \in Threads : call'[u].new \in Addresses => call'[u].new # call'[u].old
    BY <1>3, <1>6, <2>1 DEF Live, EntriesLive, Frame
  <2> QED
    BY <2>2, <2>3, <2>4 DEF EntriesLive
<1>16. SeenCurrent'
  <2>1. ASSUME ~raced
        PROVE  \A u \in Threads : At(u, "insert")' \/ At(u, "erase")'
                                   => call'[u].seen = registry'
    BY <1>1, <1>3, <1>6, <2>1 DEF IInv, SeenCurrent, Frame, At
  <2>2. ASSUME ~raced
        PROVE  Erasing' \cap (reserved' \ Inserting') = {}
    BY <1>1, <1>10
  <2> QED
    BY <1>1, <2>1, <2>2 DEF SeenCurrent
<1>17. ExactUnlessRaced'
  <2> SUFFICES ASSUME ~raced
               PROVE  /\ registry' = (reserved' \ Inserting') \cup Erasing'
                      /\ \A y \in AddrsOf(reserved)' : \E u \in Threads : y \in Held(u)'
                      /\ ~revived'
    BY <1>1 DEF ExactUnlessRaced
  <2>1. ~revived /\ registry = (reserved \ Inserting) \cup Erasing
    BY DEF IInv, ExactUnlessRaced
  <2>2. /\ reserved' = reserved \ {e} /\ e \in reserved
        /\ AddrsOf(reserved)' = AddrsOf(reserved) \ {old}
    BY <1>13, <2>1
  <2>3. registry' = (reserved' \ Inserting') \cup Erasing'
    BY <1>1, <1>10, <2>1, <2>2
  <2>4. ASSUME NEW y \in AddrsOf(reserved)'
        PROVE  \E u \in Threads : y \in Held(u)'
    <3>1. PICK u \in Threads : y \in Held(u)
      BY <2>2 DEF IInv, ExactUnlessRaced
    <3>2. CASE u = t
      BY <1>2, <1>9, <2>2, <3>1, <3>2
    <3>3. CASE u # t
      BY <1>8, <3>1, <3>3
    <3> QED
      BY <3>2, <3>3
  <2> QED
    BY <1>1, <2>1, <2>3, <2>4
<1> QED
  BY <1>1, <1>7, <1>8, <1>11, <1>12, <1>14, <1>15, <1>16, <1>17 DEF IInv, Live

\* Erase, inside the lock: the entry goes that has no memzone any more.
LEMMA EraseStep ==
  ASSUME IInv, NEW t \in Threads, Erase(t)
  PROVE  IInv'
<1> DEFINE old == call[t].old
           e == call[t].entry
<1>1. call[t].pc = "erase" /\ Return(t, AddrAfterRelease(t))
  BY DEF Erase, At
<1>2. /\ call[t] \in CallType /\ old \in Addresses
      /\ call[t].seen \subseteq Entries
      /\ Held(t) = (Addresses \cap {call[t].new}) \ {old}
  BY <1>1, ReleaseFacts DEF CallType
<1>3. /\ Frame(t) /\ call'[t].pc = "idle" /\ call'[t].new = "none"
      /\ call' \in [Threads -> CallType] /\ buffer' \in [Threads -> BufferType]
      /\ LocalsOK'
      /\ Held(t)' = Addresses \cap {call[t].new}
      /\ \A u \in Threads \ {t} : Held(u)' = Held(u)
  BY <1>1, ReleaseReturns
<1>4. PICK m \in Bases(t) : ChangeMap(t, m \ {e}, {})
  BY DEF Erase
<1>5. /\ reserved' = reserved /\ mutex' = {}
      /\ raced' = (raced \/ Changing(t) # {})
      /\ registry' = m \ {e}
      /\ revived' = (revived \/ ~(registry' \subseteq registry))
  BY <1>4 DEF Erase, ChangeMap
<1>6. TypeOK'
  <2>1. registry' \subseteq Entries
    BY <1>2, <1>5 DEF Bases, IInv, TypeOK
  <2> QED
    BY <1>3, <1>5, <2>1 DEF IInv, TypeOK, CallType, BufferType
<1>7. ASSUME Live PROVE Held(t)' = Held(t)
  BY <1>2, <1>3, <1>7 DEF Live, EntriesLive
<1>8. \A u \in Threads : ~At(u, "erase")'
  <2>1. \A u \in Threads \ {t} : ~At(u, "erase")
    BY <1>1 DEF IInv, MutexOK, At
  <2> QED
    BY <1>3, <2>1 DEF Frame, At
<1>9. ~revived' => Live'
  <2> SUFFICES ASSUME ~revived' PROVE Live'
    OBVIOUS
  <2>1. Live /\ registry' \subseteq registry
    BY <1>5 DEF IInv
  <2>2. Exclusive'
    BY <1>3, <1>5, <1>7, <2>1, HeldKept DEF Live
  <2>3. Erasing = {e}
    <3>1. OthersErasing(t) = {}
      BY <1>1 DEF IInv, MutexOK, At, OthersErasing
    <3> QED
      BY <1>1, <3>1, Parts DEF At
  <2>4. registry' \subseteq reserved' \cup Erasing'
    BY <1>5, <2>1, <2>3 DEF Live, EntriesLive
  <2>5. ASSUME NEW u \in Threads, At(u, "insert")'
        PROVE  call'[u].entry \in reserved'
    <3>1. u # t
      BY <1>3, <2>5 DEF At
    <3> QED
      BY <1>3, <1>5, <2>1, <2>5, <3>1 DEF Live, EntriesLive, Frame, At
  <2>6. ASSUME NEW u \in Threads, call'[u].new \in Addresses
        PROVE  call'[u].new # call'[u].old
    <3>1. u # t
      BY <1>3, <2>6, NotAddresses
    <3> QED
      BY <1>3, <2>1, <2>6, <3>1 DEF Live, EntriesLive, Frame
  <2> QED
    BY <2>2, <2>4, <2>5, <2>6 DEF Live, EntriesLive
<1>10. MutexOK' /\ OneToOne'
  <2>1. MutexOK'
    BY <1>8 DEF MutexOK
  <2>2. OneToOne'
    BY <1>5 DEF IInv, OneToOne
  <2> QED
    BY <2>1, <2>2
<1>11. ASSUME ~raced' PROVE registry' = reserved /\ ~revived' /\ Live
  <2>1. ~raced /\ Changing(t) = {}
    BY <1>5, <1>11
  <2>2. At(t, "erase") /\ ~At(t, "insert") /\ call'[t].pc \notin {"insert", "erase"}
    BY <1>1, <1>3 DEF At
  <2>3. /\ Bases(t) = {registry} /\ Inserting = {} /\ Erasing = {e}
        /\ registry = (reserved \ Inserting) \cup Erasing
        /\ Erasing \cap (reserved \ Inserting) = {}
        /\ Live
    BY <1>3, <2>1, <2>2, AloneOnMap
  <2>4. registry = reserved \cup {e} /\ e \notin reserved
    BY <2>3
  <2>5. ~revived
    BY <2>1 DEF IInv, ExactUnlessRaced
  <2> QED
    BY <1>5, <2>3, <2>4, <2>5
<1>12. SeenCurrent' /\ ExactUnlessRaced'
  <2>1. CASE raced'
    BY <2>1 DEF SeenCurrent, ExactUnlessRaced
  <2>2. CASE ~raced'
    <3>1. Held(t)' = Held(t)
      BY <1>7, <1>11, <2>2
    <3>2. call'[t].pc \notin {"insert", "erase"}
      BY <1>3
    <3> QED
      BY <1>3, <1>5, <1>11, <2>2, <3>1, <3>2, ExactAfter
  <2> QED
    BY <2>1, <2>2
<1> QED
  BY <1>3, <1>6, <1>9, <1>10, <1>12 DEF IInv

\* A release that does not find the address: without a race this does not happen,
\* since the caller's memzone has its entry.
LEMMA ReleaseNotFoundStep ==
  ASSUME IInv, NEW t \in Threads, ReleaseNotFound(t)
  PROVE  IInv'
<1> DEFINE old == call[t].old
<1>1. call[t].pc = "release" /\ Return(t, AddrAfterRelease(t))
  BY DEF ReleaseNotFound, At
<1>2. /\ call[t] \in CallType /\ old \in Addresses
      /\ Held(t) = {old} \cup (Addresses \cap {call[t].new})
  BY <1>1, ReleaseFacts
<1>3. /\ Frame(t) /\ call'[t].pc = "idle" /\ call'[t].new = "none"
      /\ call' \in [Threads -> CallType] /\ buffer' \in [Threads -> BufferType]
      /\ LocalsOK'
      /\ Held(t)' = Addresses \cap {call[t].new}
      /\ \A u \in Threads \ {t} : Held(u)' = Held(u)
  BY <1>1, ReleaseReturns
<1>4. /\ reserved' = reserved /\ registry' = registry /\ mutex' = mutex
      /\ revived' = revived
      /\ raced' = (raced \/ Changing(t) # {})
  BY DEF ReleaseNotFound
<1>5. TypeOK'
  BY <1>3, <1>4 DEF IInv, TypeOK, CallType, BufferType
<1>6. /\ Inserting' = Inserting /\ Erasing' = Erasing
      /\ \A u \in Threads : /\ At(u, "insert")' <=> At(u, "insert")
                            /\ At(u, "erase")' <=> At(u, "erase")
                            /\ At(u, "insert") \/ At(u, "erase") => call'[u] = call[u]
  BY <1>1, <1>3, MapKept
<1>7. ~revived => Exclusive'
  <2> SUFFICES ASSUME ~revived PROVE Exclusive'
    OBVIOUS
  <2>1. Exclusive /\ AddrsOf(reserved)' = AddrsOf(reserved)
    BY <1>4 DEF IInv, Live, AddrsOf
  <2>2. ASSUME NEW u \in Threads \ {t}
        PROVE  /\ Held(u)' = Held(u) /\ Held(u) \subseteq AddrsOf(reserved)
               /\ Held(t)' \cap Held(u) = {}
    BY <1>2, <1>3, <2>1 DEF Exclusive
  <2>3. Held(t)' \subseteq AddrsOf(reserved)
    BY <1>2, <1>3, <2>1 DEF Exclusive
  <2> QED
    BY <2>1, <2>2, <2>3, ExclusiveAfter
<1>8. ~revived => EntriesLive'
  <2> SUFFICES ASSUME ~revived PROVE EntriesLive'
    OBVIOUS
  <2>1. EntriesLive
    BY DEF IInv, Live
  <2>2. ASSUME NEW u \in Threads, call'[u].new \in Addresses
        PROVE  call'[u].new # call'[u].old
    <3>1. u # t
      BY <1>3, <2>2, NotAddresses
    <3> QED
      BY <1>3, <2>1, <2>2, <3>1 DEF EntriesLive, Frame
  <2> QED
    BY <1>4, <1>6, <2>1, <2>2 DEF EntriesLive
<1>9. MutexOK' /\ OneToOne'
  BY <1>4, <1>6 DEF IInv, MutexOK, OneToOne
<1>10. raced'
  <2> SUFFICES ASSUME ~raced, Changing(t) = {} PROVE FALSE
    BY <1>4
  <2>1. OthersInserting(t) = {} /\ OthersErasing(t) = {}
    <3>1. call'[t].pc \notin {"insert", "erase"}
      BY <1>3
    <3> QED
      BY <1>3, <3>1, LastChange
  <2>2. Inserting = {} /\ Erasing = {}
    BY <1>1, <2>1, Parts DEF At
  <2>3. registry = reserved /\ ~revived
    BY <2>2 DEF IInv, ExactUnlessRaced
  <2>4. old \in AddrsOf(reserved)
    BY <1>2, <2>3 DEF IInv, Live, Exclusive
  <2>5. old \notin AddrsOf(registry)
    BY DEF ReleaseNotFound
  <2> QED
    BY <2>3, <2>4, <2>5
<1> QED
  BY <1>3, <1>4, <1>5, <1>7, <1>8, <1>9, <1>10 DEF IInv, Live, SeenCurrent,
     ExactUnlessRaced

-----------------------------------------------------------------------------

\* Every step of every thread keeps the invariant.
LEMMA StepInv == IInv /\ [Next]_vars => IInv'
<1> SUFFICES ASSUME IInv, [Next]_vars PROVE IInv'
  OBVIOUS
<1>1. CASE UNCHANGED vars
  <2>1. /\ reserved' = reserved /\ registry' = registry /\ mutex' = mutex
        /\ call' = call /\ buffer' = buffer /\ raced' = raced /\ revived' = revived
    BY <1>1 DEF vars
  <2>2. /\ \A t \in Threads : Held(t)' = Held(t)
        /\ Inserting' = Inserting /\ Erasing' = Erasing
        /\ AddrsOf(reserved)' = AddrsOf(reserved)
    BY <2>1 DEF Held, Inserting, Erasing, AddrsOf, At
  <2>3. TypeOK' /\ LocalsOK' /\ OneToOne' /\ MutexOK'
    BY <2>1 DEF IInv, TypeOK, LocalsOK, OneToOne, MutexOK, At
  <2>4. ~revived' => Live'
    BY <2>1, <2>2 DEF IInv, Live, Exclusive, EntriesLive, At
  <2>5. SeenCurrent' /\ ExactUnlessRaced'
    BY <2>1, <2>2 DEF IInv, SeenCurrent, ExactUnlessRaced, At
  <2> QED
    BY <2>3, <2>4, <2>5 DEF IInv
<1>2. CASE Next
  <2>1. PICK t \in Threads :
          \/ \E size \in 0..MaxSize : Allocate(t, size) \/ Reallocate(t, size)
          \/ Free(t)
          \/ \E a \in Addresses, z \in Memzones : Reserve(t, a, z)
          \/ ReserveFails(t)
          \/ Emplace(t)
          \/ \E e \in Entries : ReleaseFound(t, e)
          \/ ReleaseNotFound(t)
          \/ Erase(t)
    BY <1>2 DEF Next
  <2>2. 0 \in 0..MaxSize
    BY NotAddresses
  <2> QED
    BY <2>1, <2>2, EnterStep, ReserveStep, ReserveFailsStep, EmplaceStep,
       ReleaseFoundStep, ReleaseNotFoundStep, EraseStep
<1> QED
  BY <1>1, <1>2

\* The memory pool satisfies the invariant, whatever its threads do.
THEOREM Invariance == Spec => []IInv
BY InitInv, StepInv, PTL DEF Spec

\* A buffer is always a memzone or the area of size 0 (AllocateAligned checks what
\* rte_memzone_reserve_aligned returns).
THEOREM TypeCorrect == Spec => []TypeOK
<1>1. IInv => TypeOK
  BY DEF IInv
<1> QED
  BY <1>1, Invariance, PTL

\* As long as no race has brought an erased entry back, no thread loses the memory
\* it relies on, and none shares it with another, in any interleaving of Allocate,
\* Reallocate and Free: the insertions that races lose and the lookups that miss cost
\* memory, never its exclusive use.
THEOREM HeldAlwaysExclusively == Spec => []HeldExclusively
<1>1. IInv => HeldExclusively
  BY DEF IInv, Live, Exclusive, HeldExclusively
<1> QED
  BY <1>1, Invariance, PTL

\* Only an insertion by Emplace that meets another change of the map can make the
\* tracker wrong, lose a memzone or bring an entry back.
THEOREM AlwaysExactUnlessRaced == Spec => []ExactUnlessRaced
<1>1. IInv => ExactUnlessRaced
  BY DEF IInv
<1> QED
  BY <1>1, Invariance, PTL

=============================================================================
