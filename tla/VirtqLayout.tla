---------------------------- MODULE VirtqLayout ----------------------------
(***************************************************************************)
(* Where the parts of a virtqueue lie in the memory virtq_create maps for  *)
(* them (src/src/virtio/virtq.c), in bytes.  A modern queue has a mapping  *)
(* for each part; a legacy queue has one for all three, in which the used  *)
(* ring starts on a page.                                                  *)
(***************************************************************************)
EXTENDS Integers

CONSTANT Page   \* getpagesize()

\* A uint16_t.
Max16 == 65535

\* A power of two is below 2^16 or a multiple of it.
ASSUME PageAssumption ==
  /\ Page \in Nat \ {0}
  /\ Page <= Max16 \/ Page % (Max16 + 1) = 0

Parts == {"desc", "avail", "used"}

DescBytes(n)  == 16 * n
AvailBytes(n) == 6 + 2 * n
UsedBytes(n)  == 6 + 8 * n

Bytes(part, n) == CASE part = "desc"  -> DescBytes(n)
                    [] part = "avail" -> AvailBytes(n)
                    [] part = "used"  -> UsedBytes(n)

\* With an alignment of 0, ALIGN clears every bit.
Aligned(bytes, alignment) ==
  IF alignment = 0 THEN 0 ELSE ((bytes + alignment - 1) \div alignment) * alignment

\* mmap64 maps whole pages.
Mapped(bytes) == Aligned(bytes, Page)

\* virtq_legacy_mem_size takes the page size as a uint16_t.
Alignment == Page % (Max16 + 1)

\* Mutated form: no room for the used ring.
LegacyBytes_short(n) == Aligned(DescBytes(n) + AvailBytes(n), Alignment)

\* The room for the used ring has the size of the available ring.
LegacyBytes(n) ==
  Aligned(DescBytes(n) + AvailBytes(n), Alignment) + Aligned(AvailBytes(n), Alignment)

LegacyOffset(part, n) ==
  CASE part = "desc"  -> 0
    [] part = "avail" -> DescBytes(n)
    [] part = "used"  -> Aligned(DescBytes(n) + AvailBytes(n), Page)

\* A part of a queue of n entries ends within the memory virtq_create maps for
\* it when it makes a queue of m.
Fits(part, n, m, legacy) ==
  IF legacy THEN LegacyOffset(part, n) + Bytes(part, n) <= Mapped(LegacyBytes(m))
            ELSE Bytes(part, n) <= Mapped(Bytes(part, m))
=============================================================================
