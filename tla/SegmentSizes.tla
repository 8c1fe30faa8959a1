----------------------------- MODULE SegmentSizes -----------------------------
(***************************************************************************)
(* Sizes of segments (src/include/config.h, src/config.cc): how large a    *)
(* memzone a Configuration asks for to hold the compressed form of one     *)
(* segment, and what the library makes of its length.  Bytes; 16 bits wide *)
(* where the code's integers are.                                          *)
(***************************************************************************)
EXTENDS Naturals

PowersOfTwo ==
  {1, 2, 4, 8, 16, 32, 64, 128, 256, 512, 1024, 2048, 4096, 8192, 16384, 32768, 65536}

MaxMbufDataSize == 65407  \* kMaxMbufDataSize: 65535 - RTE_PKTMBUF_HEADROOM
MinSegSize == 8
MaxSegSize == 59460       \* kMaxMbufDataSize / kExpanseRatio

\* A fault for CompressedSegSize: a power of two that may not be greater.
CompressedSegSizeUnshifted(d) ==
  LET num == CHOOSE p \in PowersOfTwo : p <= d /\ d < 2 * p
  IN  IF num > 32768 THEN ((11 * d) \div 10) % 65536 ELSE num

\* UpdateCompressedSegSize, for d > 0: the highest bit of 2 * d, or a tenth more
\* than d when no power of two is left in 16 bits.
CompressedSegSize(d) ==
  LET num == CHOOSE p \in PowersOfTwo : p <= 2 * d /\ 2 * d < 2 * p
  IN  IF num > 32768 THEN ((11 * d) \div 10) % 65536 ELSE num

\* len of a memzone reserved for n bytes: whole cache lines.
MemzoneLength(n) == ((n + 63) \div 64) * 64

\* buf_len of the mbuf that is attached to the memzone.
MbufLength(d) == MemzoneLength(CompressedSegSize(d)) % 65536

\* What DEFLATE adds to data that does not compress: one stored block's header.
StoredBlock == 5

\* The mbuf shows its whole memzone, which holds what was asked for, and a segment
\* that does not compress unless its size is 1 to 4 bytes below a power of two; the
\* size asked for is the nearest greater power of two, or small enough for an mbuf.
Fits(d) ==
  /\ MbufLength(d) = MemzoneLength(CompressedSegSize(d))
  /\ MbufLength(d) >= CompressedSegSize(d)
  /\ CompressedSegSize(d) > d
  /\ MbufLength(d) >= d + StoredBlock \/ \E p \in PowersOfTwo : p - d \in 1..4
  /\ IF d < 32768
       THEN /\ CompressedSegSize(d) \in PowersOfTwo
            /\ \A p \in PowersOfTwo : p > d => p >= CompressedSegSize(d)
       ELSE CompressedSegSize(d) <= MaxMbufDataSize

=============================================================================
