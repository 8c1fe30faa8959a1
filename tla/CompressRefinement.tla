-------------------------- MODULE CompressRefinement --------------------------
(***************************************************************************)
(* CompressDevice implements CompressionService: which state of the        *)
(* service a state of the device stands for.                               *)
(***************************************************************************)
EXTENDS CompressDevice

Recycling(q) == At(q, "putback") /\ call[q].result # "error"

ServicePhase(q) ==
  CASE At(q, "idle")      -> "idle"
    [] At(q, "undefined") -> "undefined"
    [] Recycling(q)       -> "recycling"
    [] OTHER -> IF call[q].kind = "compress" THEN "compressing" ELSE "decompressing"

\* A call of the service lasts until the failed call has released everything.
InCall(q) == ServicePhase(q) \in {"compressing", "decompressing"}

Health(q) == CASE InCall(q)    -> "good"
               [] ~InCall(q) /\ Busy(q) -> "busy"
               [] ~InCall(q) /\ ~Busy(q) -> IF Leftovers(q) THEN "tainted" ELSE "good"

Piece(b) == [first |-> b.first, segs |-> b.segs, part |-> b.part, parts |-> b.parts]
Pieces(q) == [i \in DOMAIN buffers[q] |-> Piece(buffers[q][i])]
Written(q) == {<<d.slot, d.first>> : d \in Elements(call[q].decoded)}

Service == INSTANCE CompressionService WITH
  phase   <- [q \in QueuePairs |-> ServicePhase(q)],
  size    <- [q \in QueuePairs |->
                IF ServicePhase(q) = "compressing" THEN call[q].segs ELSE 0],
  outcome <- [q \in QueuePairs |-> IF At(q, "idle") THEN call[q].result ELSE "none"],
  result  <- [q \in QueuePairs |->
                IF ServicePhase(q) \in {"idle", "decompressing"} THEN Pieces(q)
                ELSE <<>>],
  output  <- [q \in QueuePairs |->
                IF /\ At(q, "idle")
                   /\ call[q].kind = "decompress" /\ call[q].result = "ok"
                THEN Written(q) ELSE {}],
  health  <- [q \in QueuePairs |-> Health(q)]

\* A queue pair does for its lcore what the service promises: a call that
\* succeeds has the whole result, in order and in its place, one that fails
\* leaves nothing behind but its error, and no step of another lcore, of the
\* hardware or inside a call shows.
ImplementsService == Service!Spec

=============================================================================
