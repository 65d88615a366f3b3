--------------------------- MODULE MCGpioDriver ---------------------------
(* Small instances of GpioDriver for TLC.                                  *)
EXTENDS GpioDriver, SequencesExt

CONSTANTS c1, c2, value1

-----------------------------------------------------------------------------
(* Views, sound when loads are performed in order.  They leave out what no *)
(* later step reads - ring entries outside the windows, what finished      *)
(* calls returned - and the names of the descriptors, which are            *)
(* interchangeable: a descriptor is called by the place where it first     *)
(* occurs in the free list, the calls and the interrupt thread.            *)
ClientSeq == SetToSeq(Clients)

\* Where descriptors occur, and where d first does (0: nowhere).
Places ==
  free_descs
    \o FlattenSeq([i \in DOMAIN ClientSeq |->
                    <<idxs[ClientSeq[i]][0], idxs[ClientSeq[i]][1]>>])
    \o <<ist.idxs[0], ist.idxs[1]>>
First(seq, d) == SelectInSeq(seq, LAMBDA e : e = d)

\* The n entries of a ring from an index on.
Entries(ring, from, n) == [k \in 1 .. n |-> ring[Slot((from + k - 1) % IdxMod)]]

\* A buffer without what the request or the reply says.
Kind(b) == IF b \in Requests THEN "request"
           ELSE IF b \in Replies THEN "reply" ELSE b

\* `at' says where the rings' indices are, `unread' whose buffers are not looked at.
StateOf(contents(_), unread, at) ==
  LET places == Places
      place == <<>> @@ [d \in Desc \cup {NoDesc} |-> First(places, d)]
      Named(ds) == [i \in DOMAIN ds |-> place[ds[i]]]
      unpublished == IF \E c \in Clients : pc[c] = "publish" THEN 1 ELSE 0
  IN <<Len(free_descs), Named(places),
       [i \in DOMAIN places |->
          IF places[i] = NoDesc THEN NoDesc
          ELSE LET e == desc[places[i]]
               IN <<e.flags, IF "NEXT" \in e.flags THEN place[e.next] ELSE 0,
                    IF places[i] \in unread THEN Kind(e.buf) ELSE contents(e.buf),
                    e.context>>],
       at,
       Named(Entries(avail.ring, dev.last, Dist(dev.last, avail.idx) + unpublished)),
       Named(Entries(used.ring, last_seen_used, Dist(last_seen_used, used.idx))),
       {place[h] : h \in dev.held}, dev.kick, dev.pc, lock, pc,
       [c \in Clients |-> <<context[c].sem, contents(context[c].reply)>>],
       ist.pc, isr, transport>>

\* What requests and replies say is left out too.
ControlState ==
  StateOf(Kind, {}, <<avail.idx, dev.last, used.idx, last_seen_used>>)

\* A view for faults: every descriptor has a name, also those only the rings of
\* an abandoned call hold, and the used ring counts whole, as an early load may
\* read any of it.  The rings are read from where their consumers are, and where
\* that is is left out: ControlState is for where an index wraps.
FaultState ==
  LET base == Places \o Entries(avail.ring, dev.last, Dist(dev.last, avail.idx))
                     \o <<ist.id>> \o Entries(used.ring, last_seen_used, Num)
      first == <<>> @@ [d \in Desc |-> LET i == First(base, d)
                                       IN IF i = 0 THEN Len(base) + d + 1 ELSE i]
      name == <<>> @@ [d \in Desc \cup {NoDesc} |->
                 IF d = NoDesc THEN NoDesc
                 ELSE Cardinality({e \in Desc : first[e] < first[d]})]
  IN <<Len(free_descs), [i \in DOMAIN base |-> name[base[i]]],
       {<<name[d], desc[d].flags,
          IF "NEXT" \in desc[d].flags THEN name[desc[d].next] ELSE 0,
          Kind(desc[d].buf), desc[d].context>> : d \in Desc},
       Dist(dev.last, avail.idx), Dist(last_seen_used, used.idx),
       IF \E c \in Clients : pc[c] = "publish"
         THEN name[avail.ring[Slot(avail.idx)]] ELSE 0,
       {name[h] : h \in dev.held}, dev.kick, dev.pc, lock, pc,
       [c \in Clients |-> <<context[c].sem, Kind(context[c].reply)>>],
       ist.pc, ist.stale, isr, transport>>

\* Nothing is promised once a stale entry has been handed on.
NotStale == ~ist.stale

\* What the refinement tells apart: everything but where the rings stand and what
\* is not read again - a request that has been carried out, a reply handed over.
Same(b) == b
Spent == UsedHeads \cup IF ist.pc = "post" THEN {ist.idxs[0]} ELSE Some(ist.idxs)
DataState ==
  <<StateOf(Same, Spent, <<Dist(dev.last, avail.idx), Dist(last_seen_used, used.idx)>>),
    [c \in {x \in Clients : Answered(x) = {}} |-> op[c]],
    [c \in {x \in Clients : pc[x] = "free0"} |-> ret[c]], reg>>

-----------------------------------------------------------------------------
Symmetry == Permutations(Clients)
=============================================================================
