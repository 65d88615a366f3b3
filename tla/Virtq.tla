------------------------------- MODULE Virtq -------------------------------
(***************************************************************************)
(* The split virtqueue of src/src/virtio/virtq.c: the descriptor table and *)
(* its driver-side extras, the FIFO of free descriptors, the available     *)
(* ring the driver writes and the used ring the device writes.             *)
(*                                                                         *)
(* The operations are given here as the steps another thread or the device *)
(* can observe; GpioDriver interleaves them.  fifo_get and fifo_put are    *)
(* single steps: module Fifo shows that fifo.c implements them so.         *)
(***************************************************************************)
EXTENDS Integers, Sequences, FiniteSets

CONSTANTS
  Num,        \* vq->num, the queue size
  IdxMod,     \* the number of values of a ring index, 2^16 in the code
  NoContext,  \* the NULL callback context
  Unmapped,   \* contents of a buffer whose vaddr is 0
  Zeroed      \* contents of a buffer fresh from mmap64(MAP_ANON)

\* virtq.h:40 asks for a power of 2; what the ring arithmetic needs of it is
\* that the queue size divides the range of the 16-bit indices.
ASSUME NumAssumption ==
  /\ Num \in Nat \ {0}
  /\ IdxMod \in Nat \ {0}
  /\ \E k \in 1 .. IdxMod : IdxMod = k * Num

VARIABLES
  free_descs,      \* the FIFO of free descriptor indices
  desc,            \* descriptor table and desc_extras
  avail,           \* available ring: [idx, ring]
  used,            \* used ring: [idx, ring]
  last_seen_used,  \* the next used-ring index the driver reads
  lock             \* vq->lock: its holder, or Unlocked

virtqVars == <<free_descs, desc, avail, used, last_seen_used, lock>>

Desc == 0 .. Num - 1
Idx  == 0 .. IdxMod - 1
Flag == {"NEXT", "WRITE"}

Unlocked == "unlocked"

\* Mutated form: the index does not wrap at 2^16.
Inc_unbounded(i) == i + 1

\* uint16_t increment, and the slot an index names.
Inc(i)  == IF i = IdxMod - 1 THEN 0 ELSE i + 1
Slot(i) == i % Num

\* The table entry of a descriptor after calloc or virtq_free_desc.
FreeEntry ==
  [flags |-> {}, next |-> 0, buf |-> Unmapped, context |-> NoContext]

\* virtq_create: every descriptor is free, both rings are empty.
VirtqInit ==
  /\ free_descs = [i \in 1 .. Num |-> i - 1]
  /\ desc = [d \in Desc |-> FreeEntry]
  /\ avail = [idx |-> 0, ring |-> [s \in Desc |-> 0]]
  /\ used  = [idx |-> 0, ring |-> [s \in Desc |-> 0]]
  /\ last_seen_used = 0
  /\ lock = Unlocked

-----------------------------------------------------------------------------
(* The free list.                                                          *)

fifo_get(d) ==
  /\ free_descs # <<>>
  /\ d = Head(free_descs)
  /\ free_descs' = Tail(free_descs)

fifo_put(d) ==
  free_descs' = IF Len(free_descs) < Num THEN Append(free_descs, d)
                                         ELSE free_descs

\* virtq_alloc_desc once fifo_get has given d: the buffer is mapped.
MapDesc(d, writable) ==
  desc' = [desc EXCEPT ![d] = [flags   |-> IF writable THEN {"WRITE"} ELSE {},
                               next    |-> 0,
                               buf     |-> Zeroed,
                               context |-> NoContext]]

\* munmap refuses a buffer that is not mapped: nothing is freed then.
virtq_free_desc(d) ==
  IF desc[d].buf # Unmapped
  THEN /\ desc' = [desc EXCEPT ![d] = FreeEntry]
       /\ fifo_put(d)
  ELSE UNCHANGED <<desc, free_descs>>

-----------------------------------------------------------------------------
(* The spin lock and the driver's side of the rings.                       *)

\* Mutated form: the holder is not waited for.
Acquire_nowait(t) == lock' = t

Acquire(t) == lock = Unlocked /\ lock' = t
Release == lock' = Unlocked

\* virtq_put_desc_chain for a chain of two descriptors: the link between
\* them, the ring entry, and the index that publishes the entry.
Linked(table, h, n) ==
  [table EXCEPT ![h].next = n, ![h].flags = @ \cup {"NEXT"}, ![n].next = 0]

PutRing(h) == avail' = [avail EXCEPT !.ring[Slot(avail.idx)] = h]
PutIdx == avail' = [avail EXCEPT !.idx = Inc(@)]

\* Mutated form: off by one.
UsedEmpty_offbyone == used.idx = Inc(last_seen_used)

\* virtq_get_desc_chain with room for two descriptors.  A chain of one leaves
\* the caller's second index uninitialised: it may be anything.
UsedEmpty == used.idx = last_seen_used
UsedHead  == used.ring[Slot(last_seen_used)]
TooLong(h) == /\ "NEXT" \in desc[h].flags
              /\ "NEXT" \in desc[desc[h].next].flags
Second(h) == IF "NEXT" \in desc[h].flags THEN {desc[h].next} ELSE Desc

-----------------------------------------------------------------------------
(* Positions of a ring between a consumer's index and a producer's.        *)

Dist(from, to) == IF to >= from THEN to - from ELSE to - from + IdxMod

\* Slots of the entries published at `to' and not yet consumed at `from'.
Window(from, to) ==
  {Slot(i) : i \in {j \in Idx : Dist(from, j) < Dist(from, to)}}

VirtqTypeOK ==
  /\ free_descs \in Seq(Desc)
  /\ avail \in [idx : Idx, ring : [Desc -> Desc]]
  /\ used  \in [idx : Idx, ring : [Desc -> Desc]]
  /\ last_seen_used \in Idx
=============================================================================
