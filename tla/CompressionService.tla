-------------------------- MODULE CompressionService --------------------------
(***************************************************************************)
(* What a started CompressDevice (src/include/device.h) promises to the    *)
(* lcores that call it, one per queue pair, without bursts, pools, hardware *)
(* queues or memzones.  A call takes two steps, its beginning and its end; *)
(* everything in between is hidden.                                        *)
(*                                                                         *)
(* A result is the sequence of the compressed buffers, each a "piece": one *)
(* part of the stream of "segs" segments from "first" on.                  *)
(***************************************************************************)
EXTENDS Naturals, Sequences

CONSTANTS
  QueuePairs,
  MaxSglSegs,  \* configuration: segments in one stream
  MaxSegs      \* bound: segments of the largest request

VARIABLES
  phase,    \* what the lcore is in: a call, or none
  size,     \* segments of the buffer being compressed
  outcome,  \* how its last call ended
  result,   \* the result of Compress that the lcore holds
  output,   \* what Decompress wrote: <<place, segment>> of each stream
  health    \* "good", "busy" (calls are cancelled) or "tainted" (undefined)

vars == <<phase, size, outcome, result, output, health>>

Phases == {"idle", "compressing", "decompressing", "recycling", "undefined"}

\* The pieces r are the complete streams of the segments 1..n, in order.
IsCompression(r, n) ==
  /\ r # <<>>
  /\ r[1].first = 1 /\ r[1].part = 1
  /\ \A i \in DOMAIN r :
       /\ r[i].first <= n
       /\ r[i].segs = IF n - r[i].first < MaxSglSegs THEN n - r[i].first + 1
                      ELSE MaxSglSegs
  /\ \A i \in 1..(Len(r) - 1) :
       IF r[i].part < r[i].parts
         THEN /\ r[i + 1].first = r[i].first
              /\ r[i + 1].part = r[i].part + 1
              /\ r[i + 1].parts = r[i].parts
         ELSE r[i + 1].first = r[i].first + MaxSglSegs /\ r[i + 1].part = 1
  /\ r[Len(r)].part = r[Len(r)].parts
  /\ r[Len(r)].first + MaxSglSegs > n

Init ==
  /\ phase = [q \in QueuePairs |-> "idle"]
  /\ size = [q \in QueuePairs |-> 0]
  /\ outcome = [q \in QueuePairs |-> "none"]
  /\ result = [q \in QueuePairs |-> <<>>]
  /\ output = [q \in QueuePairs |-> {}]
  /\ health = [q \in QueuePairs |-> "good"]

\* The lcore of q is between two calls, or in the given one.
In(q, p) == phase[q] = p

Becomes(q, p, o) ==
  /\ phase' = [phase EXCEPT ![q] = p]
  /\ outcome' = [outcome EXCEPT ![q] = o]

\* A call starts; what the previous one wrote is not looked at any more.
Compress(q, n) ==
  /\ In(q, "idle") /\ health[q] = "good"
  /\ result[q] = <<>>
  /\ Becomes(q, "compressing", "none")
  /\ size' = [size EXCEPT ![q] = n]
  /\ output' = [output EXCEPT ![q] = {}]
  /\ UNCHANGED <<result, health>>

\* The result is complete and in order.
CompressSucceeds(q) ==
  /\ In(q, "compressing")
  /\ Becomes(q, "idle", "ok")
  /\ IsCompression(result'[q], size[q])
  /\ result' = [result EXCEPT ![q] = result'[q]]
  /\ size' = [size EXCEPT ![q] = 0]
  /\ UNCHANGED <<output, health>>

\* No result; the queue pair accepts calls, but may be in no state to run them.
CompressFails(q) ==
  /\ In(q, "compressing")
  /\ Becomes(q, "idle", "error")
  /\ size' = [size EXCEPT ![q] = 0]
  /\ \E h \in {"good", "tainted"} : health' = [health EXCEPT ![q] = h]
  /\ UNCHANGED <<result, output>>

Decompress(q) ==
  /\ In(q, "idle") /\ health[q] = "good"
  /\ result[q] # <<>>
  /\ Becomes(q, "decompressing", "none")
  /\ output' = [output EXCEPT ![q] = {}]
  /\ UNCHANGED <<size, result, health>>

\* Every stream of the result is in the place of its first segment.
DecompressSucceeds(q) ==
  /\ In(q, "decompressing")
  /\ Becomes(q, "idle", "ok")
  /\ output' = [output EXCEPT ![q] =
       {<<result[q][i].first, result[q][i].first>> : i \in DOMAIN result[q]}]
  /\ UNCHANGED <<size, result, health>>

\* The lcore keeps the result; the queue pair may be busy for good.
DecompressFails(q) ==
  /\ In(q, "decompressing")
  /\ Becomes(q, "idle", "error")
  /\ \E h \in {"good", "busy"} : health' = [health EXCEPT ![q] = h]
  /\ UNCHANGED <<size, result, output>>

Cancelled(q) ==
  /\ In(q, "idle") /\ health[q] = "busy"
  /\ Becomes(q, "idle", "cancelled")
  /\ output' = [output EXCEPT ![q] = {}]
  /\ UNCHANGED <<size, result, health>>

\* The lcore gives its result back; also on a queue pair that is not good.
Recycle(q) ==
  /\ In(q, "idle")
  /\ result[q] # <<>>
  /\ Becomes(q, "recycling", "none")
  /\ result' = [result EXCEPT ![q] = <<>>]
  /\ output' = [output EXCEPT ![q] = {}]
  /\ UNCHANGED <<size, health>>

RecycleEnds(q) ==
  /\ In(q, "recycling")
  /\ Becomes(q, "idle", "none")
  /\ UNCHANGED <<size, result, output, health>>

\* Nothing is promised for a call on a tainted queue pair, nor after it.
Undefined(q) ==
  /\ In(q, "idle") /\ health[q] = "tainted"
  /\ Becomes(q, "undefined", "none")
  /\ result' = [result EXCEPT ![q] = <<>>]
  /\ output' = [output EXCEPT ![q] = {}]
  /\ UNCHANGED <<size, health>>

Next ==
  \E q \in QueuePairs :
    \/ \E n \in 1..MaxSegs : Compress(q, n)
    \/ CompressSucceeds(q)
    \/ CompressFails(q)
    \/ Decompress(q)
    \/ DecompressSucceeds(q)
    \/ DecompressFails(q)
    \/ Cancelled(q)
    \/ Recycle(q)
    \/ RecycleEnds(q)
    \/ Undefined(q)

Spec == Init /\ [][Next]_vars

=============================================================================
