------------------------ MODULE GpioOwnershipProofs ------------------------
(* Who holds which descriptor, for any clients, queue size, index width    *)
(* and transports: proofs of the ownership invariants of GpioDriver.       *)
EXTENDS GpioDriverProofs

-----------------------------------------------------------------------------
(* The inductive invariant.  A function gives every descriptor its one     *)
(* holder; it agrees with the free list, with the rings and the device,    *)
(* with what the interrupt thread has in hand and with each caller.        *)

OwnedFree(own) ==
  /\ ListedOnce(free_descs)
  /\ \A d \in Desc : own[d] = "free" <=> d \in Listed(free_descs)

OwnedFlight(own) ==
  \A d \in Desc : own[d] = "flight" <=>
    d \in InFlight \/ \E h \in InFlight : d = desc[h].next

OwnedIst(own) ==
  \A d \in Desc : own[d] = "ist" <=> d = ist.idxs[0] \/ d = ist.idxs[1]

OwnedByClient(own, c) ==
  \A d \in Desc : own[d] = c <=>
    /\ pc[c] \notin {"notify", "wait"}
    /\ d = idxs[c][0] \/ d = idxs[c][1]

Owned(own) ==
  /\ own \in [Desc -> Holders]
  /\ OwnedFree(own) /\ OwnedFlight(own) /\ OwnedIst(own)
  /\ \A c \in Clients : OwnedByClient(own, c)

\* A chain as virtq_put_desc_chain has linked it.
RequestChain(h) ==
  /\ desc[h].flags = {"NEXT"} /\ desc[desc[h].next].flags = {"WRITE"}
  /\ desc[h].buf \in Requests
  /\ desc[h].context \in Clients

\* The rings and the device share the chains in flight.
RingsShared ==
  /\ RingKept(avail.ring, dev.last, avail.idx)
  /\ RingKept(used.ring, last_seen_used, used.idx)
  /\ AvailHeads \cap dev.held = {}
  /\ AvailHeads \cap UsedHeads = {}
  /\ dev.held \cap UsedHeads = {}

FlightChains ==
  /\ \A h \in InFlight : RequestChain(h)
  /\ \A h \in AvailHeads \cup dev.held : desc[desc[h].next].buf = Zeroed
  /\ \A h \in UsedHeads : desc[desc[h].next].buf \in Replies
  /\ \A g, h \in InFlight : desc[g].next = desc[h].next => g = h

\* What a caller has at each statement of virtio_gpio_request.
ClientChain(c) ==
  /\ pc[c] \in {"idle", "alloc0"} => idxs[c] = NoDescs
  /\ pc[c] \in {"putback0", "alloc1", "free0"} => idxs[c][1] = NoDesc
  /\ pc[c] \in {"alloc1", "putback1", "free0", "put"} =>
       desc[idxs[c][0]].buf = Zeroed /\ desc[idxs[c][0]].flags = {}
  /\ pc[c] = "putback1" => idxs[c][0] # idxs[c][1]
  /\ pc[c] = "put" =>
       desc[idxs[c][1]].buf = Zeroed /\ desc[idxs[c][1]].flags = {"WRITE"}
  /\ pc[c] = "publish" =>
       /\ RequestChain(idxs[c][0])
       /\ desc[idxs[c][0]].buf = op[c] /\ desc[idxs[c][0]].context = c
       /\ desc[idxs[c][0]].next = idxs[c][1]
       /\ desc[idxs[c][1]].buf = Zeroed
       /\ avail.ring[Slot(avail.idx)] = idxs[c][0]

\* What virtq_callback has in hand.
IstChain ==
  /\ ist.pc # "crash"
  /\ ist.pc \in {"post", "free0"} =>
       /\ RequestChain(ist.idxs[0])
       /\ ist.idxs[1] = desc[ist.idxs[0]].next
       /\ desc[ist.idxs[1]].buf \in Replies
  /\ ist.pc = "free1" =>
       ist.idxs[0] = NoDesc /\ desc[ist.idxs[1]].buf \in Replies
  /\ ist.pc \notin {"post", "free0", "free1"} => ist.idxs = NoDescs

\* A descriptor is linked to another only as the head of a chain that is about
\* to be published, is in flight or is being answered.
HeadsKnown ==
  \A d \in Desc : "NEXT" \in desc[d].flags =>
    \/ d \in InFlight
    \/ \E c \in Clients : pc[c] = "publish" /\ d = idxs[c][0]
    \/ ist.pc \in {"post", "free0"} /\ d = ist.idxs[0]

LockKept ==
  /\ \A c \in Clients : pc[c] = "publish" => lock = c
  /\ ist.pc = "idx" => lock = "ist"

Ownership ==
  /\ \E own \in [Desc -> Holders] : Owned(own)
  /\ RingsShared /\ FlightChains /\ IstChain /\ HeadsKnown /\ LockKept
  /\ \A c \in Clients : ClientChain(c)

\* Nothing is promised once a stale entry has been taken.
OInv == IInv /\ (~ist.stale => Ownership)

-----------------------------------------------------------------------------
(* What follows from the types.                                            *)

LEMMA HeadsInTable ==
  ASSUME TypeOK
  PROVE  /\ AvailHeads = Between(avail.ring, dev.last, avail.idx)
         /\ UsedHeads = Between(used.ring, last_seen_used, used.idx)
         /\ AvailHeads \subseteq Desc /\ UsedHeads \subseteq Desc
         /\ dev.held \subseteq Desc /\ InFlight \subseteq Desc
         /\ \A d \in Desc : desc[d].next \in Desc
<1>1. /\ avail.ring \in [Desc -> Desc] /\ used.ring \in [Desc -> Desc]
      /\ avail.idx \in Idx /\ used.idx \in Idx /\ dev.last \in Idx
      /\ last_seen_used \in Idx /\ dev.held \subseteq Desc
  BY DEF TypeOK, VirtqTypeOK
<1>2. /\ AvailHeads = Between(avail.ring, dev.last, avail.idx)
      /\ UsedHeads = Between(used.ring, last_seen_used, used.idx)
  BY DEF AvailHeads, UsedHeads, Between
<1>3. AvailHeads \subseteq Desc /\ UsedHeads \subseteq Desc
  BY <1>1, <1>2, BetweenDesc
<1>4. \A d \in Desc : desc[d].next \in Desc
  BY DEF TypeOK, DescTable
<1> QED BY <1>1, <1>2, <1>3, <1>4 DEF InFlight

\* A caller holds what its indices name, until the chain is published.
LEMMA ClientOwns ==
  ASSUME IInv, NEW own, Owned(own), NEW x \in Clients
  PROVE  /\ pc[x] \in {"putback0", "alloc1", "putback1", "free0", "put", "publish"}
              => idxs[x][0] \in Desc /\ own[idxs[x][0]] = x
         /\ pc[x] \in {"putback1", "put", "publish"}
              => idxs[x][1] \in Desc /\ own[idxs[x][1]] = x
BY DEF IInv, ClientIndicesNamed, Owned, OwnedByClient

LEMMA IstOwns ==
  ASSUME IInv, NEW own, Owned(own)
  PROVE  /\ ist.pc \in {"post", "free0"} => ist.idxs[0] \in Desc /\ own[ist.idxs[0]] = "ist"
         /\ ist.pc \in {"post", "free0", "free1"}
              => ist.idxs[1] \in Desc /\ own[ist.idxs[1]] = "ist"
BY DEF IInv, IstIndicesNamed, Owned, OwnedIst

LEMMA FlightOwns ==
  ASSUME TypeOK, NEW own, Owned(own), NEW h \in InFlight
  PROVE  /\ h \in Desc /\ own[h] = "flight"
         /\ desc[h].next \in Desc /\ own[desc[h].next] = "flight"
BY HeadsInTable DEF Owned, OwnedFlight

\* The names of the holders are all different.
LEMMA HoldersDiffer ==
  /\ {"free", "flight", "ist"} \subseteq Holders /\ Clients \subseteq Holders
  /\ \A c \in Clients : c # "free" /\ c # "flight" /\ c # "ist" /\ c # Unlocked
BY MarksAssumption DEF Holders

-----------------------------------------------------------------------------
(* A step that leaves the descriptors of a holder alone leaves alone what  *)
(* the invariant says of them.                                             *)

LEMMA FlightKept ==
  ASSUME TypeOK, NEW own, Owned(own), FlightChains,
         AvailHeads' = AvailHeads, UsedHeads' = UsedHeads, dev'.held = dev.held,
         \A d \in Desc : own[d] = "flight" => desc'[d] = desc[d]
  PROVE  /\ InFlight' = InFlight /\ FlightChains'
         /\ \A h \in InFlight : desc'[h] = desc[h]
<1>1. InFlight' = InFlight
  BY DEF InFlight
<1>2. \A h \in InFlight : desc'[h] = desc[h] /\ desc'[desc[h].next] = desc[desc[h].next]
  BY FlightOwns
<1>3. AvailHeads \cup dev.held \cup UsedHeads = InFlight
  BY DEF InFlight
<1>4. FlightChains'
  BY <1>1, <1>2, <1>3 DEF FlightChains, RequestChain
<1> QED BY <1>1, <1>2, <1>4

LEMMA ClientKept ==
  ASSUME IInv, NEW own, Owned(own), NEW x \in Clients, ClientChain(x),
         pc'[x] = pc[x], idxs'[x] = idxs[x], op'[x] = op[x],
         \A d \in Desc : own[d] = x => desc'[d] = desc[d],
         pc[x] = "publish" => /\ avail'.idx = avail.idx
                              /\ avail'.ring[Slot(avail.idx)] = avail.ring[Slot(avail.idx)]
  PROVE  ClientChain(x)'
<1>1. \A n \in {0, 1} : own[idxs[x][n]] = x /\ idxs[x][n] \in Desc
                          => desc'[idxs[x][n]] = desc[idxs[x][n]]
  OBVIOUS
<1> QED BY <1>1, ClientOwns DEF ClientChain, RequestChain

LEMMA IstKept ==
  ASSUME IInv, NEW own, Owned(own), IstChain, ist' = ist,
         \A d \in Desc : own[d] = "ist" => desc'[d] = desc[d]
  PROVE  IstChain'
BY IstOwns DEF IstChain, RequestChain

\* Steps of the interrupt thread and of the device that move no descriptor.
LEMMA NothingMoves ==
  ASSUME Ownership, LockKept',
         UNCHANGED <<free_descs, desc, avail, used, last_seen_used, pc, idxs, op>>,
         dev'.last = dev.last, dev'.held = dev.held, ist'.idxs = ist.idxs,
         \/ /\ ist.pc \notin {"post", "free0", "free1"}
            /\ ist'.pc \notin {"post", "free0", "free1", "crash"}
         \/ ist.pc = "post" /\ ist'.pc = "free0"
         \/ ist'.pc = ist.pc
  PROVE  Ownership'
<1>1. PICK own \in [Desc -> Holders] : Owned(own)
  BY DEF Ownership
<1>2. AvailHeads' = AvailHeads /\ UsedHeads' = UsedHeads /\ InFlight' = InFlight
  BY DEF AvailHeads, UsedHeads, InFlight
<1>3. Owned(own)'
  BY <1>1, <1>2 DEF Owned, OwnedFree, OwnedFlight, OwnedIst, OwnedByClient
<1>4. RingsShared' /\ FlightChains' /\ IstChain' /\ HeadsKnown'
  BY SMTT(30), <1>2
  DEF Ownership, RingsShared, FlightChains, IstChain, HeadsKnown, RequestChain
<1>5. \A x \in Clients : ClientChain(x)'
  BY DEF Ownership, ClientChain, RequestChain
<1> QED BY <1>1, <1>3, <1>4, <1>5 DEF Ownership

-----------------------------------------------------------------------------
(* The calling thread.                                                     *)

\* A free descriptor is in nobody's hands, and is not linked to another.
LEMMA FreeUnlinked ==
  ASSUME IInv, NEW own, Owned(own), HeadsKnown, NEW d \in Desc, own[d] = "free"
  PROVE  "NEXT" \notin desc[d].flags
<1> SUFFICES ASSUME "NEXT" \in desc[d].flags PROVE FALSE
  OBVIOUS
<1>1. CASE d \in InFlight
  BY <1>1, FlightOwns DEF IInv
<1>2. CASE \E c \in Clients : pc[c] = "publish" /\ d = idxs[c][0]
  BY <1>2, ClientOwns, HoldersDiffer
<1>3. CASE ist.pc \in {"post", "free0"} /\ d = ist.idxs[0]
  BY <1>3, IstOwns
<1> QED BY <1>1, <1>2, <1>3 DEF HeadsKnown

\* virtq_alloc_desc: a descriptor goes from the free list to the caller.
LEMMA TakesKeepOwnership ==
  ASSUME IInv, IInv', Ownership, NEW c \in Clients, NEW n \in {0, 1}, NEW d \in Desc, NEW next,
         pc[c] = IF n = 0 THEN "alloc0" ELSE "alloc1",
         \/ Takes(c, n, d, next) /\ next = (IF n = 0 THEN "alloc1" ELSE "put")
         \/ TakesUnmapped(c, n, d, next) /\ next = (IF n = 0 THEN "putback0" ELSE "putback1"),
         UNCHANGED <<avail, used, last_seen_used, lock>>, ClientOnly
  PROVE  Ownership'
<1>1. PICK own \in [Desc -> Holders] : Owned(own)
  BY DEF Ownership
<1> DEFINE new == [own EXCEPT ![d] = c]
<1>2. /\ TypeOK /\ ClientIndicesNamed /\ IstIndicesNamed
      /\ RingsShared /\ FlightChains /\ IstChain /\ HeadsKnown /\ LockKept
      /\ \A x \in Clients : ClientChain(x)
      /\ OwnedFree(own) /\ OwnedFlight(own) /\ OwnedIst(own)
      /\ \A x \in Clients : OwnedByClient(own, x)
  BY <1>1 DEF IInv, Ownership, Owned
<1>3. /\ free_descs # <<>> /\ d = Head(free_descs) /\ free_descs' = Tail(free_descs)
      /\ pc' = [pc EXCEPT ![c] = next] /\ idxs' = [idxs EXCEPT ![c][n] = d]
      /\ next \in {"alloc1", "put", "putback0", "putback1"}
      /\ UNCHANGED <<avail, used, last_seen_used, lock, ist, dev>>
  BY DEF Takes, TakesUnmapped, fifo_get, GoTo, ClientOnly
<1>4. /\ pc'[c] = next /\ idxs'[c][n] = d /\ idxs'[c][1 - n] = idxs[c][1 - n]
      /\ \A x \in Clients \ {c} : pc'[x] = pc[x] /\ idxs'[x] = idxs[x] /\ op'[x] = op[x]
  BY <1>2, <1>3 DEF TypeOK, Takes, TakesUnmapped
<1>5. \A e \in Desc \ {d} : desc'[e] = desc[e]
  BY <1>2 DEF Takes, TakesUnmapped, MapDesc, TypeOK, DescTable
<1>6. own[d] = "free"
  BY <1>2, <1>3, HeadTaken DEF OwnedFree, TypeOK, VirtqTypeOK
<1>7. new \in [Desc -> Holders] /\ new[d] = c /\ \A e \in Desc \ {d} : new[e] = own[e]
  BY <1>1, HoldersDiffer
<1>8. InFlight' = InFlight /\ FlightChains' /\ \A h \in InFlight : desc'[h] = desc[h]
  <2>1. AvailHeads' = AvailHeads /\ UsedHeads' = UsedHeads /\ dev'.held = dev.held
    BY <1>3 DEF AvailHeads, UsedHeads
  <2> QED BY <1>1, <1>2, <1>5, <1>6, <2>1, FlightKept
<1> HIDE DEF new
<1>9. OwnedFree(new)'
  <2>1. /\ Listed(free_descs') = Listed(free_descs) \ {d} /\ ListedOnce(free_descs')
    BY <1>2, <1>3, HeadTaken DEF OwnedFree, TypeOK, VirtqTypeOK
  <2> QED BY <1>2, <1>7, <2>1, HoldersDiffer DEF OwnedFree
<1>10. OwnedFlight(new)'
  BY <1>2, <1>6, <1>7, <1>8, HoldersDiffer DEF OwnedFlight
<1>11. OwnedIst(new)'
  BY <1>2, <1>3, <1>6, <1>7, HoldersDiffer DEF OwnedIst
<1>12. ASSUME NEW x \in Clients PROVE OwnedByClient(new, x)'
  <2>1. CASE x = c
    <3>1. idxs[c][n] = NoDesc
      <4>1. CASE n = 0
        BY <1>2, <4>1 DEF ClientChain, NoDescs, Pair
      <4>2. CASE n = 1
        BY <1>2, <4>2 DEF ClientChain
      <4> QED BY <4>1, <4>2
    <3> QED
      BY <1>2, <1>3, <1>4, <1>7, <2>1, <3>1, MarksAssumption DEF OwnedByClient
  <2>2. CASE x # c
    BY <1>2, <1>4, <1>6, <1>7, <2>2, HoldersDiffer DEF OwnedByClient
  <2> QED BY <2>1, <2>2
<1>13. RingsShared'
  BY ZenonT(60), <1>2, <1>3 DEF RingsShared, AvailHeads, UsedHeads
<1>14. IstChain'
  BY <1>1, <1>2, <1>3, <1>5, <1>6, IstKept
<1>15. HeadsKnown'
  <2>1. "NEXT" \notin desc'[d].flags
    <3>1. CASE Takes(c, n, d, next)
      BY <1>2, <3>1 DEF Takes, MapDesc, TypeOK, DescTable
    <3>2. CASE TakesUnmapped(c, n, d, next)
      BY <1>1, <1>2, <1>6, <3>2, FreeUnlinked DEF TakesUnmapped
    <3> QED BY <3>1, <3>2
  <2>2. \A x \in Clients : pc[x] = "publish" => pc'[x] = "publish" /\ idxs'[x] = idxs[x]
    BY <1>4
  <2> QED BY <1>2, <1>3, <1>5, <1>8, <2>1, <2>2 DEF HeadsKnown
<1>16. LockKept'
  BY <1>2, <1>3, <1>4 DEF LockKept
<1>17. ASSUME NEW x \in Clients PROVE ClientChain(x)'
  <2>1. CASE x # c
    BY <1>1, <1>2, <1>3, <1>4, <1>5, <1>6, <2>1, ClientKept, HoldersDiffer
  <2>2. CASE x = c
    <3>1. n = 0 => idxs[c][1] = NoDesc
      BY <1>2 DEF ClientChain, NoDescs, Pair
    <3>2. n = 1 => /\ idxs[c][0] # d /\ idxs[c][0] \in Desc
                   /\ desc[idxs[c][0]].buf = Zeroed /\ desc[idxs[c][0]].flags = {}
      BY <1>1, <1>2, <1>6, ClientOwns, HoldersDiffer DEF ClientChain
    <3>3. Takes(c, n, d, next) =>
            /\ desc'[d].buf = Zeroed
            /\ desc'[d].flags = IF n = 1 THEN {"WRITE"} ELSE {}
      BY <1>2 DEF Takes, MapDesc, TypeOK, DescTable
    <3>4. next \in {"alloc1", "put"} => Takes(c, n, d, next)
      OBVIOUS
    <3> QED
      BY <1>3, <1>4, <1>5, <2>2, <3>1, <3>2, <3>3, <3>4 DEF ClientChain
  <2> QED BY <2>1, <2>2
<1>18. Owned(new)'
  BY <1>7, <1>9, <1>10, <1>11, <1>12 DEF Owned
<1> QED BY <1>7, <1>8, <1>13, <1>14, <1>15, <1>16, <1>17, <1>18 DEF Ownership

\* fifo_put: the list has room for a descriptor that is not in it.
LEMMA PutListed ==
  ASSUME TypeOK, NEW own, Owned(own), NEW d \in Desc, own[d] # "free", fifo_put(d)
  PROVE  OwnedFree([own EXCEPT ![d] = "free"])'
<1>1. /\ free_descs \in Seq(Desc) /\ ListedOnce(free_descs) /\ d \notin Listed(free_descs)
  BY DEF TypeOK, VirtqTypeOK, Owned, OwnedFree
<1>2. free_descs' = Append(free_descs, d)
  BY <1>1, ListLength DEF fifo_put
<1>3. /\ Listed(free_descs') = Listed(free_descs) \cup {d}
      /\ ListedOnce(free_descs')
  BY <1>1, <1>2, LastAdded
<1> QED BY <1>3 DEF Owned, OwnedFree

\* A caller gives descriptor n back: the error paths of virtq_alloc_desc and
\* virtio_gpio_request.
LEMMA GivesKeepOwnership ==
  ASSUME IInv, IInv', Ownership, NEW c \in Clients, NEW n \in {0, 1}, NEW d \in Desc,
         d = idxs[c][n], fifo_put(d),
         \A e \in Desc \ {d} : desc'[e] = desc[e],
         "NEXT" \notin desc'[d].flags,
         UNCHANGED <<avail, used, last_seen_used, lock, ist, dev>>,
         \A x \in Clients \ {c} : pc'[x] = pc[x] /\ idxs'[x] = idxs[x] /\ op'[x] = op[x],
         \/ /\ pc[c] \in {"putback0", "free0"} /\ n = 0
            /\ pc'[c] = "idle" /\ idxs'[c] = NoDescs
         \/ /\ pc[c] = "putback1" /\ n = 1 /\ pc'[c] = "free0"
            /\ idxs'[c][0] = idxs[c][0] /\ idxs'[c][1] = NoDesc
  PROVE  Ownership'
<1>1. PICK own \in [Desc -> Holders] : Owned(own)
  BY DEF Ownership
<1> DEFINE new == [own EXCEPT ![d] = "free"]
<1>2. /\ TypeOK /\ RingsShared /\ FlightChains /\ IstChain /\ HeadsKnown /\ LockKept
      /\ \A x \in Clients : ClientChain(x)
      /\ OwnedFree(own) /\ OwnedFlight(own) /\ OwnedIst(own)
      /\ \A x \in Clients : OwnedByClient(own, x)
  BY <1>1 DEF IInv, Ownership, Owned
<1>3. own[d] = c
  BY <1>1, ClientOwns
<1>4. new \in [Desc -> Holders] /\ new[d] = "free" /\ \A e \in Desc \ {d} : new[e] = own[e]
  BY <1>1, HoldersDiffer
<1>5. OwnedFree(new)'
  BY <1>1, <1>2, <1>3, PutListed, HoldersDiffer
<1>6. InFlight' = InFlight /\ FlightChains' /\ \A h \in InFlight : desc'[h] = desc[h]
  <2>1. AvailHeads' = AvailHeads /\ UsedHeads' = UsedHeads /\ dev'.held = dev.held
    BY DEF AvailHeads, UsedHeads
  <2> QED BY <1>1, <1>2, <1>3, <2>1, FlightKept, HoldersDiffer
<1> HIDE DEF new
<1>7. OwnedFlight(new)'
  BY <1>2, <1>3, <1>4, <1>6, HoldersDiffer DEF OwnedFlight
<1>8. OwnedIst(new)'
  BY <1>2, <1>3, <1>4, HoldersDiffer DEF OwnedIst
<1>9. ASSUME NEW x \in Clients PROVE OwnedByClient(new, x)'
  <2>1. CASE x = c
    <3>1. idxs[c][1 - n] # d
      BY <1>1, <1>2, MarksAssumption DEF ClientChain
    <3>2. NoDesc \notin Desc /\ NoDescs[0] = NoDesc /\ NoDescs[1] = NoDesc
      BY MarksAssumption DEF NoDescs, Pair
    <3>3. pc[c] \in {"putback0", "free0"} => idxs[c][1] = NoDesc
      BY <1>2 DEF ClientChain
    <3> QED
      BY <1>2, <1>3, <1>4, <2>1, <3>1, <3>2, <3>3, HoldersDiffer DEF OwnedByClient
  <2>2. CASE x # c
    BY <1>2, <1>3, <1>4, <2>2, HoldersDiffer DEF OwnedByClient
  <2> QED BY <2>1, <2>2
<1>10. RingsShared'
  BY SMTT(30), <1>2 DEF RingsShared, AvailHeads, UsedHeads
<1>11. IstChain'
  BY <1>1, <1>2, <1>3, IstKept, HoldersDiffer
<1>12. HeadsKnown'
  <2>1. \A x \in Clients : pc[x] = "publish" => pc'[x] = "publish" /\ idxs'[x] = idxs[x]
    OBVIOUS
  <2> QED BY <1>2, <1>6, <2>1 DEF HeadsKnown
<1>13. LockKept'
  BY <1>2 DEF LockKept
<1>14. ASSUME NEW x \in Clients PROVE ClientChain(x)'
  <2>1. CASE x # c
    BY <1>1, <1>2, <1>3, <2>1, ClientKept
  <2>2. CASE x = c
    <3>1. pc[c] = "putback1" => desc'[idxs[c][0]] = desc[idxs[c][0]]
      BY <1>1, <1>2, ClientOwns DEF ClientChain
    <3> QED BY <1>2, <2>2, <3>1 DEF ClientChain
  <2> QED BY <2>1, <2>2
<1>15. Owned(new)'
  BY <1>4, <1>5, <1>7, <1>8, <1>9 DEF Owned
<1> QED BY <1>4, <1>6, <1>10, <1>11, <1>12, <1>13, <1>14, <1>15 DEF Ownership

\* Steps of a caller that move no descriptor.
LEMMA CallerKeepsOwnership ==
  ASSUME IInv, IInv', Ownership, NEW c \in Clients,
         UNCHANGED <<free_descs, desc, avail, used, last_seen_used, lock, ist>>,
         dev'.last = dev.last, dev'.held = dev.held,
         \A x \in Clients \ {c} : pc'[x] = pc[x] /\ idxs'[x] = idxs[x] /\ op'[x] = op[x],
         \/ pc[c] = "idle" /\ pc'[c] = "alloc0" /\ idxs'[c] = idxs[c]
         \/ pc[c] = "alloc1" /\ pc'[c] = "free0" /\ idxs'[c] = idxs[c]
         \/ pc[c] = "notify" /\ pc'[c] = "wait"
         \/ pc[c] \in {"alloc0", "wait"} /\ pc'[c] = "idle" /\ idxs'[c] = NoDescs
  PROVE  Ownership'
<1>1. PICK own \in [Desc -> Holders] : Owned(own)
  BY DEF Ownership
<1>2. /\ TypeOK /\ RingsShared /\ FlightChains /\ IstChain /\ HeadsKnown /\ LockKept
      /\ \A x \in Clients : ClientChain(x)
      /\ OwnedFree(own) /\ OwnedFlight(own) /\ OwnedIst(own)
      /\ \A x \in Clients : OwnedByClient(own, x)
  BY <1>1 DEF IInv, Ownership, Owned
<1>3. AvailHeads' = AvailHeads /\ UsedHeads' = UsedHeads /\ InFlight' = InFlight
  BY DEF AvailHeads, UsedHeads, InFlight
<1>4. RingsShared' /\ FlightChains' /\ IstChain'
  BY <1>2, <1>3 DEF RingsShared, FlightChains, IstChain, RequestChain
<1>5. HeadsKnown'
  <2>1. \A x \in Clients : pc[x] = "publish" => pc'[x] = "publish" /\ idxs'[x] = idxs[x]
    OBVIOUS
  <2> QED BY <1>2, <1>3, <2>1 DEF HeadsKnown
<1>6. LockKept'
  BY <1>2 DEF LockKept
<1>7. OwnedFree(own)' /\ OwnedFlight(own)' /\ OwnedIst(own)'
  BY <1>2, <1>3 DEF OwnedFree, OwnedFlight, OwnedIst
<1>8. ASSUME NEW x \in Clients PROVE OwnedByClient(own, x)' /\ ClientChain(x)'
  <2>1. CASE x # c
    BY <1>1, <1>2, <2>1, ClientKept DEF OwnedByClient
  <2>2. CASE x = c
    <3>1. NoDesc \notin Desc /\ NoDescs[0] = NoDesc /\ NoDescs[1] = NoDesc
      BY MarksAssumption DEF NoDescs, Pair
    <3>2. OwnedByClient(own, c)'
      BY <1>2, <3>1 DEF OwnedByClient, ClientChain
    <3>3. ClientChain(c)'
      BY <1>2 DEF ClientChain
    <3> QED BY <2>2, <3>2, <3>3
  <2> QED BY <2>1, <2>2
<1>9. Owned(own)'
  BY <1>1, <1>7, <1>8 DEF Owned
<1> QED BY <1>1, <1>4, <1>5, <1>6, <1>8, <1>9 DEF Ownership

\* virtq_free_desc on a mapped descriptor.
LEMMA MappedFreed ==
  ASSUME TypeOK, NEW d \in Desc, desc[d].buf # Unmapped, virtq_free_desc(d)
  PROVE  /\ fifo_put(d)
         /\ \A e \in Desc \ {d} : desc'[e] = desc[e]
         /\ "NEXT" \notin desc'[d].flags
BY DEF virtq_free_desc, TypeOK, DescTable, FreeEntry

LEMMA FinishIdle ==
  ASSUME TypeOK, NEW c \in Clients, NEW rc, NEW v, Finish(c, rc, v)
  PROVE  /\ pc'[c] = "idle" /\ idxs'[c] = NoDescs
         /\ \A x \in Clients \ {c} : pc'[x] = pc[x] /\ idxs'[x] = idxs[x] /\ op'[x] = op[x]
BY DEF Finish, TypeOK

\* Mapped buffers are mapped: none of their contents is the mark of no buffer.
LEMMA BuffersDiffer ==
  /\ Zeroed # Unmapped
  /\ \A b \in Requests \cup Replies : b # Unmapped /\ b # Zeroed
BY MarksAssumption

\* A caller's descriptors are not linked before it publishes them.
LEMMA ClientLinksNothing ==
  ASSUME IInv, Ownership, NEW c \in Clients, NEW n \in {0, 1}, idxs[c][n] \in Desc,
         pc[c] \in {"putback0", "alloc1", "putback1", "free0", "put"}
  PROVE  "NEXT" \notin desc[idxs[c][n]].flags
<1>1. PICK own \in [Desc -> Holders] : Owned(own)
  BY DEF Ownership
<1>2. own[idxs[c][n]] = c
  BY <1>1 DEF Owned, OwnedByClient
<1> SUFFICES ASSUME "NEXT" \in desc[idxs[c][n]].flags PROVE FALSE
  OBVIOUS
<1>3. CASE idxs[c][n] \in InFlight
  BY <1>1, <1>2, <1>3, FlightOwns, HoldersDiffer DEF IInv
<1>4. CASE \E x \in Clients : pc[x] = "publish" /\ idxs[c][n] = idxs[x][0]
  BY <1>1, <1>2, <1>4, ClientOwns
<1>5. CASE ist.pc \in {"post", "free0"} /\ idxs[c][n] = ist.idxs[0]
  BY <1>1, <1>2, <1>5, IstOwns, HoldersDiffer
<1> QED BY <1>3, <1>4, <1>5 DEF Ownership, HeadsKnown

LEMMA AllocKeepsOwnership ==
  ASSUME IInv, IInv', Ownership, NEW c \in Clients,
         \/ \E q \in Requests : Begin(c, q)
         \/ Alloc0(c) \/ PutBack0(c) \/ Alloc1(c) \/ PutBack1(c) \/ Free0(c)
  PROVE  Ownership'
<1>1. PICK own \in [Desc -> Holders] : Owned(own)
  BY DEF Ownership
<1>2. /\ TypeOK /\ FlightChains /\ HeadsKnown /\ \A x \in Clients : ClientChain(x)
  BY DEF IInv, Ownership
<1> USE DEF ClientOnly, GoTo, virtqVars
<1>3. ASSUME NEW q \in Requests, Begin(c, q) PROVE Ownership'
  BY <1>2, <1>3, CallerKeepsOwnership DEF Begin, TypeOK
<1>4. CASE Alloc0(c)
  <2>1. CASE (NoneLeft /\ Finish(c, "ENOENT", 0)) \/ NoSemaphore(c)
    BY <1>2, <1>4, <2>1, FinishIdle, CallerKeepsOwnership DEF Alloc0, NoneLeft, NoSemaphore
  <2>2. ASSUME NEW d \in Desc,
               Takes(c, 0, d, "alloc1") \/ TakesUnmapped(c, 0, d, "putback0")
        PROVE Ownership'
    BY <1>4, <2>2, TakesKeepOwnership DEF Alloc0
  <2> QED BY <1>4, <2>1, <2>2 DEF Alloc0
<1>5. CASE Alloc1(c)
  <2>1. CASE NoneLeft /\ pc' = [pc EXCEPT ![c] = "free0"] /\ UNCHANGED <<op, idxs>>
    <3>1. /\ pc[c] = "alloc1" /\ pc'[c] = "free0" /\ idxs'[c] = idxs[c]
          /\ \A x \in Clients \ {c} : pc'[x] = pc[x] /\ idxs'[x] = idxs[x] /\ op'[x] = op[x]
      BY <1>2, <1>5, <2>1 DEF Alloc1, NoneLeft, TypeOK
    <3>2. /\ UNCHANGED <<free_descs, desc, avail, used, last_seen_used, lock, ist>>
          /\ dev'.last = dev.last /\ dev'.held = dev.held
      BY <1>5, <2>1 DEF Alloc1, NoneLeft
    <3> QED BY <3>1, <3>2, CallerKeepsOwnership
  <2>2. ASSUME NEW d \in Desc,
               Takes(c, 1, d, "put") \/ TakesUnmapped(c, 1, d, "putback1")
        PROVE Ownership'
    BY <1>5, <2>2, TakesKeepOwnership DEF Alloc1
  <2>3. \/ NoneLeft /\ pc' = [pc EXCEPT ![c] = "free0"] /\ UNCHANGED <<op, idxs>>
        \/ \E d \in Desc : Takes(c, 1, d, "put") \/ TakesUnmapped(c, 1, d, "putback1")
    BY <1>5 DEF Alloc1
  <2> QED BY <2>1, <2>2, <2>3
<1>6. CASE PutBack0(c)
  <2>1. idxs[c][0] \in Desc /\ own[idxs[c][0]] = c
    BY <1>1, <1>6, ClientOwns DEF PutBack0
  <2>2. "NEXT" \notin desc[idxs[c][0]].flags
    BY <1>6, <2>1, ClientLinksNothing DEF PutBack0
  <2> QED
    BY <1>2, <1>6, <2>1, <2>2, FinishIdle, GivesKeepOwnership DEF PutBack0
<1>7. CASE PutBack1(c)
  <2>1. idxs[c][1] \in Desc /\ own[idxs[c][1]] = c
    BY <1>1, <1>7, ClientOwns DEF PutBack1
  <2>2. "NEXT" \notin desc[idxs[c][1]].flags
    BY <1>7, <2>1, ClientLinksNothing DEF PutBack1
  <2>3. /\ pc'[c] = "free0" /\ idxs'[c][0] = idxs[c][0] /\ idxs'[c][1] = NoDesc
        /\ \A x \in Clients \ {c} : pc'[x] = pc[x] /\ idxs'[x] = idxs[x] /\ op'[x] = op[x]
    BY <1>2, <1>7 DEF PutBack1, TypeOK
  <2> QED
    BY <1>2, <1>7, <2>1, <2>2, <2>3, GivesKeepOwnership DEF PutBack1
<1>8. CASE Free0(c)
  <2>1. idxs[c][0] \in Desc /\ desc[idxs[c][0]].buf # Unmapped
    BY <1>1, <1>2, <1>8, ClientOwns, BuffersDiffer DEF Free0, ClientChain
  <2>2. /\ fifo_put(idxs[c][0])
        /\ \A e \in Desc \ {idxs[c][0]} : desc'[e] = desc[e]
        /\ "NEXT" \notin desc'[idxs[c][0]].flags
    BY <1>2, <1>8, <2>1, MappedFreed DEF Free0
  <2>3. PICK rc : Finish(c, rc, 0)
    BY <1>8 DEF Free0
  <2> QED
    BY <1>2, <1>8, <2>1, <2>2, <2>3, FinishIdle, GivesKeepOwnership DEF Free0
<1> QED BY <1>3, <1>4, <1>5, <1>6, <1>7, <1>8

\* A caller's two descriptors are not among the heads of the available ring, so
\* the ring has room for one more.
LEMMA CallerFindsRoom ==
  ASSUME IInv, NEW own, Owned(own), RingsShared, NEW c \in Clients,
         pc[c] \in {"put", "publish"}, idxs[c][0] # idxs[c][1]
  PROVE  /\ idxs[c][0] \notin AvailHeads
         /\ Dist(dev.last, avail.idx) < Num
         /\ Dist(dev.last, avail.idx) + 1 < IdxMod
<1>1. /\ idxs[c][0] \in Desc /\ idxs[c][0] \notin InFlight
      /\ idxs[c][1] \in Desc /\ idxs[c][1] \notin InFlight
  BY ClientOwns, FlightOwns, HoldersDiffer DEF IInv
<1>2. idxs[c][0] \notin AvailHeads /\ idxs[c][1] \notin AvailHeads
  BY <1>1 DEF InFlight
<1>3. /\ avail.ring \in [Desc -> Desc] /\ avail.idx \in Idx /\ dev.last \in Idx
      /\ RingKept(avail.ring, dev.last, avail.idx)
  BY DEF IInv, TypeOK, VirtqTypeOK, RingsShared
<1>4. AvailHeads = Between(avail.ring, dev.last, avail.idx)
  BY DEF AvailHeads, Between
<1> QED BY <1>1, <1>2, <1>3, <1>4, RoomInRing

\* virtq_put_desc_chain up to the ring entry, which is not in the ring yet.
LEMMA PutEffect ==
  ASSUME IInv, Ownership, NEW c \in Clients, Put(c)
  PROVE  LET h == idxs[c][0]
             n == idxs[c][1]
         IN  /\ h \in Desc /\ n \in Desc /\ h # n
             /\ desc'[h].flags = {"NEXT"} /\ desc'[h].next = n /\ desc'[h].buf = op[c]
             /\ desc'[h].context = c
             /\ desc'[n].flags = {"WRITE"} /\ desc'[n].buf = Zeroed
             /\ \A d \in Desc \ {h, n} : desc'[d] = desc[d]
             /\ avail'.idx = avail.idx /\ avail'.ring[Slot(avail.idx)] = h
             /\ AvailHeads' = AvailHeads /\ UsedHeads' = UsedHeads /\ InFlight' = InFlight
             /\ RingKept(avail'.ring, dev.last, avail.idx)
<1>1. PICK own \in [Desc -> Holders] : Owned(own)
  BY DEF Ownership
<1>2. PICK h, n : h = idxs[c][0] /\ n = idxs[c][1]
  OBVIOUS
<1>3. /\ TypeOK /\ ClientIndicesNamed /\ RingsShared /\ ClientChain(c)
  BY DEF IInv, Ownership
<1>4. /\ pc[c] = "put"
      /\ avail' = [avail EXCEPT !.ring[Slot(avail.idx)] = h]
      /\ UNCHANGED <<used, last_seen_used, dev>>
      /\ desc' = Linked([desc EXCEPT ![h].buf = op[c], ![h].context = c], h, n)
  BY <1>2 DEF Put, PutRing, ClientOnly
<1>5. /\ h \in Desc /\ n \in Desc /\ h # n
      /\ desc[h].flags = {} /\ desc[n].flags = {"WRITE"} /\ desc[n].buf = Zeroed
      /\ op[c] \in Requests
  BY <1>1, <1>2, <1>3, <1>4, ClientOwns DEF ClientChain, ClientIndicesNamed
<1>6. /\ desc'[h].flags = {"NEXT"} /\ desc'[h].next = n /\ desc'[h].buf = op[c]
      /\ desc'[h].context = c
      /\ desc'[n].flags = {"WRITE"} /\ desc'[n].buf = Zeroed
      /\ \A d \in Desc \ {h, n} : desc'[d] = desc[d]
  <2>1. desc \in DescTable
    BY <1>3 DEF TypeOK
  <2> QED BY <1>4, <1>5, <2>1 DEF Linked, DescTable
<1>7. /\ Dist(dev.last, avail.idx) < Num /\ Dist(dev.last, avail.idx) + 1 < IdxMod
  BY <1>1, <1>2, <1>3, <1>4, <1>5, CallerFindsRoom
<1>8. /\ avail.ring \in [Desc -> Desc] /\ avail.idx \in Idx /\ dev.last \in Idx
      /\ avail'.idx = avail.idx /\ avail'.ring = [avail.ring EXCEPT ![Slot(avail.idx)] = h]
  BY <1>3, <1>4 DEF TypeOK, VirtqTypeOK
<1>9. /\ avail'.ring[Slot(avail.idx)] = h
      /\ AvailHeads' = AvailHeads
      /\ RingKept(avail'.ring, dev.last, avail.idx)
  <2>1. RingKept(avail.ring, dev.last, avail.idx)
    BY <1>3 DEF RingsShared
  <2>2. /\ avail'.ring[Slot(avail.idx)] = h
        /\ Between(avail'.ring, dev.last, avail.idx) = Between(avail.ring, dev.last, avail.idx)
        /\ RingKept(avail'.ring, dev.last, avail.idx)
    BY <1>5, <1>7, <1>8, <2>1, EntryWritten
  <2> QED BY <1>4, <1>8, <2>2 DEF AvailHeads, Between
<1>10. UsedHeads' = UsedHeads /\ InFlight' = InFlight
  BY <1>4, <1>9 DEF UsedHeads, InFlight
<1> QED BY <1>2, <1>5, <1>6, <1>8, <1>9, <1>10

LEMMA PutKeepsOwnership ==
  ASSUME IInv, IInv', Ownership, NEW c \in Clients, Put(c)
  PROVE  Ownership'
<1>1. PICK own \in [Desc -> Holders] : Owned(own)
  BY DEF Ownership
<1>2. /\ TypeOK /\ ClientIndicesNamed /\ RingsShared /\ FlightChains /\ IstChain
      /\ HeadsKnown /\ LockKept /\ \A x \in Clients : ClientChain(x)
      /\ OwnedFree(own) /\ OwnedFlight(own) /\ OwnedIst(own)
      /\ \A x \in Clients : OwnedByClient(own, x)
  BY <1>1 DEF IInv, Ownership, Owned
<1>3. /\ pc[c] = "put" /\ lock = Unlocked /\ lock' = c
      /\ pc' = [pc EXCEPT ![c] = "publish"]
      /\ UNCHANGED <<free_descs, used, last_seen_used, idxs, op, ist, dev>>
  BY DEF Put, Acquire, GoTo, ClientOnly
<1>4. PICK h, n : h = idxs[c][0] /\ n = idxs[c][1]
  OBVIOUS
<1>5. /\ h \in Desc /\ n \in Desc /\ h # n
      /\ desc'[h].flags = {"NEXT"} /\ desc'[h].next = n /\ desc'[h].buf = op[c]
      /\ desc'[h].context = c
      /\ desc'[n].flags = {"WRITE"} /\ desc'[n].buf = Zeroed
      /\ \A d \in Desc \ {h, n} : desc'[d] = desc[d]
      /\ avail'.idx = avail.idx /\ avail'.ring[Slot(avail.idx)] = h
      /\ AvailHeads' = AvailHeads /\ UsedHeads' = UsedHeads /\ InFlight' = InFlight
      /\ RingKept(avail'.ring, dev.last, avail.idx)
  BY <1>4, PutEffect
<1>6. own[h] = c /\ own[n] = c /\ op[c] \in Requests
  BY <1>1, <1>2, <1>3, <1>4, ClientOwns DEF ClientIndicesNamed
<1>7. FlightChains' /\ \A g \in InFlight : desc'[g] = desc[g]
  BY <1>1, <1>2, <1>3, <1>5, <1>6, FlightKept, HoldersDiffer
<1>8. RingsShared'
  BY <1>2, <1>3, <1>5 DEF RingsShared
<1>9. pc'[c] = "publish" /\ \A x \in Clients \ {c} : pc'[x] = pc[x]
  BY <1>2, <1>3 DEF TypeOK
<1>10. Owned(own)'
  <2>1. OwnedFree(own)' /\ OwnedFlight(own)' /\ OwnedIst(own)'
    BY <1>2, <1>3, <1>5, <1>7 DEF OwnedFree, OwnedFlight, OwnedIst
  <2>2. \A x \in Clients : OwnedByClient(own, x)'
    BY <1>2, <1>3, <1>9 DEF OwnedByClient
  <2> QED BY <1>1, <2>1, <2>2 DEF Owned
<1>11. IstChain'
  BY <1>1, <1>2, <1>3, <1>5, <1>6, IstKept, HoldersDiffer
<1>12. HeadsKnown'
  <2>1. ASSUME NEW d \in Desc, "NEXT" \in desc'[d].flags, d # h
        PROVE "NEXT" \in desc[d].flags
    BY <1>5, <2>1
  <2> QED BY <1>2, <1>3, <1>4, <1>5, <1>9, <2>1 DEF HeadsKnown
<1>13. LockKept'
  BY <1>2, <1>3, <1>9, HoldersDiffer DEF LockKept, Unlocked
<1>14. ASSUME NEW x \in Clients PROVE ClientChain(x)'
  <2>1. CASE x = c
    BY <1>3, <1>4, <1>5, <1>6, <1>9, <2>1 DEF ClientChain, RequestChain
  <2>2. CASE x # c
    <3>1. pc[x] # "publish"
      BY <1>2, <1>3, HoldersDiffer DEF LockKept
    <3> QED
      BY <1>1, <1>2, <1>3, <1>5, <1>6, <1>9, <2>2, <3>1, ClientKept
  <2> QED BY <2>1, <2>2
<1> QED BY <1>1, <1>7, <1>8, <1>10, <1>11, <1>12, <1>13, <1>14 DEF Ownership

\* The index update hands the chain over.
LEMMA PublishEffect ==
  ASSUME IInv, Ownership, NEW c \in Clients, Publish(c)
  PROVE  /\ AvailHeads' = AvailHeads \cup {idxs[c][0]} /\ UsedHeads' = UsedHeads
         /\ InFlight' = InFlight \cup {idxs[c][0]} /\ idxs[c][0] \notin InFlight
         /\ RingKept(avail.ring, dev.last, Inc(avail.idx))
<1>1. PICK own \in [Desc -> Holders] : Owned(own)
  BY DEF Ownership
<1>2. PICK h : h = idxs[c][0]
  OBVIOUS
<1>3. /\ TypeOK /\ RingsShared /\ ClientChain(c)
  BY DEF IInv, Ownership
<1>4. /\ pc[c] = "publish" /\ avail' = [avail EXCEPT !.idx = Inc(@)]
      /\ UNCHANGED <<used, last_seen_used, dev>>
  BY DEF Publish, PutIdx, ClientOnly
<1>5. /\ h \in Desc /\ own[h] = c /\ h # idxs[c][1]
      /\ avail.ring[Slot(avail.idx)] = h
  BY <1>1, <1>2, <1>3, <1>4, ClientOwns DEF ClientChain, RequestChain
<1>6. /\ h \notin AvailHeads /\ Dist(dev.last, avail.idx) < Num
      /\ Dist(dev.last, avail.idx) + 1 < IdxMod
  BY <1>1, <1>2, <1>3, <1>4, <1>5, CallerFindsRoom
<1>7. /\ avail.ring \in [Desc -> Desc] /\ avail.idx \in Idx /\ dev.last \in Idx
      /\ avail'.idx = Inc(avail.idx) /\ avail'.ring = avail.ring
  BY <1>3, <1>4 DEF TypeOK, VirtqTypeOK
<1>8. /\ AvailHeads' = AvailHeads \cup {h}
      /\ RingKept(avail.ring, dev.last, Inc(avail.idx))
  <2>1. RingKept(avail.ring, dev.last, avail.idx)
    BY <1>3 DEF RingsShared
  <2>2. AvailHeads = Between(avail.ring, dev.last, avail.idx)
    BY DEF AvailHeads, Between
  <2>3. /\ Between(avail.ring, dev.last, Inc(avail.idx)) = AvailHeads \cup {h}
        /\ RingKept(avail.ring, dev.last, Inc(avail.idx))
    BY <1>5, <1>6, <1>7, <2>1, <2>2, EntryPublished
  <2> QED BY <1>4, <1>7, <2>3 DEF AvailHeads, Between
<1>9. UsedHeads' = UsedHeads /\ InFlight' = InFlight \cup {h} /\ h \notin InFlight
  BY <1>1, <1>3, <1>4, <1>5, <1>8, FlightOwns, HoldersDiffer DEF UsedHeads, InFlight
<1> QED BY <1>2, <1>8, <1>9

LEMMA PublishKeepsOwnership ==
  ASSUME IInv, IInv', Ownership, NEW c \in Clients, Publish(c)
  PROVE  Ownership'
<1>1. PICK own \in [Desc -> Holders] : Owned(own)
  BY DEF Ownership
<1> PICK h, n : h = idxs[c][0] /\ n = idxs[c][1]
  OBVIOUS
<1> DEFINE new == [own EXCEPT ![h] = "flight", ![n] = "flight"]
<1>2. /\ TypeOK /\ RingsShared /\ FlightChains /\ IstChain
      /\ HeadsKnown /\ LockKept /\ \A x \in Clients : ClientChain(x)
      /\ OwnedFree(own) /\ OwnedFlight(own) /\ OwnedIst(own)
      /\ \A x \in Clients : OwnedByClient(own, x)
  BY <1>1 DEF IInv, Ownership, Owned
<1>3. /\ pc[c] = "publish" /\ lock' = Unlocked
      /\ pc' = [pc EXCEPT ![c] = "notify"]
      /\ avail'.idx = Inc(avail.idx) /\ avail'.ring = avail.ring
      /\ UNCHANGED <<free_descs, desc, used, last_seen_used, idxs, ist, dev>>
  BY <1>2 DEF Publish, Release, PutIdx, GoTo, ClientOnly, TypeOK, VirtqTypeOK
<1>4. /\ h \in Desc /\ own[h] = c /\ n \in Desc /\ own[n] = c
      /\ RequestChain(h) /\ desc[h].next = n /\ desc[n].buf = Zeroed
  BY <1>1, <1>2, <1>3, ClientOwns DEF ClientChain
<1>5. /\ new \in [Desc -> Holders] /\ new[h] = "flight" /\ new[n] = "flight"
      /\ \A d \in Desc \ {h, n} : new[d] = own[d]
  BY <1>1, <1>4, HoldersDiffer
<1> HIDE DEF new
<1>6. /\ AvailHeads' = AvailHeads \cup {h} /\ UsedHeads' = UsedHeads
      /\ InFlight' = InFlight \cup {h} /\ h \notin InFlight
      /\ RingKept(avail.ring, dev.last, Inc(avail.idx))
  BY PublishEffect
<1>7. FlightChains'
  <2>1. \A g \in InFlight : desc[g].next # n
    BY <1>1, <1>2, <1>4, FlightOwns, HoldersDiffer
  <2> QED BY <1>2, <1>3, <1>4, <1>6, <2>1 DEF FlightChains, RequestChain
<1>8. RingsShared'
  <2>1. h \notin dev.held /\ h \notin UsedHeads
    BY <1>6 DEF InFlight
  <2> QED BY <1>2, <1>3, <1>6, <2>1 DEF RingsShared
<1>9. pc'[c] = "notify" /\ \A x \in Clients \ {c} : pc'[x] = pc[x]
  BY <1>2, <1>3 DEF TypeOK
<1>10. Owned(new)'
  <2>1. OwnedFree(new)' /\ OwnedIst(new)'
    BY <1>2, <1>3, <1>4, <1>5, HoldersDiffer DEF OwnedFree, OwnedIst
  <2>2. OwnedFlight(new)'
    BY <1>2, <1>3, <1>4, <1>5, <1>6 DEF OwnedFlight
  <2>3. ASSUME NEW x \in Clients PROVE OwnedByClient(new, x)'
    <3>1. CASE x = c
      BY <1>2, <1>3, <1>4, <1>5, <1>9, <3>1, HoldersDiffer DEF OwnedByClient
    <3>2. CASE x # c
      BY <1>2, <1>3, <1>4, <1>5, <1>9, <3>2, HoldersDiffer DEF OwnedByClient
    <3> QED BY <3>1, <3>2
  <2> QED BY <1>5, <2>1, <2>2, <2>3 DEF Owned
<1>11. IstChain'
  BY <1>2, <1>3 DEF IstChain, RequestChain
<1>12. HeadsKnown'
  BY <1>2, <1>3, <1>6, <1>9 DEF HeadsKnown
<1>13. \A x \in Clients \ {c} : pc[x] # "publish"
  BY <1>2, <1>3 DEF LockKept
<1>14. LockKept'
  BY <1>2, <1>3, <1>9, <1>13, HoldersDiffer DEF LockKept
<1>15. ASSUME NEW x \in Clients PROVE ClientChain(x)'
  BY <1>2, <1>3, <1>9, <1>13 DEF ClientChain
<1> QED BY <1>5, <1>7, <1>8, <1>10, <1>11, <1>12, <1>14, <1>15 DEF Ownership

LEMMA ClientKeepsOwnership ==
  ASSUME IInv, IInv', Ownership, NEW c \in Clients,
         Client(c) \/ \E q \in Requests : Begin(c, q)
  PROVE  Ownership'
<1>1. TypeOK
  BY DEF IInv
<1> USE <1>1 DEF ClientOnly, virtqVars
<1>2. CASE Notify(c)
  BY <1>2, CallerKeepsOwnership DEF Notify, GoTo, TypeOK
<1>3. CASE Wait(c)
  BY <1>3, FinishIdle, CallerKeepsOwnership DEF Wait
<1>4. CASE Interrupted(c)
  BY <1>4, FinishIdle, CallerKeepsOwnership DEF Interrupted
<1> QED
  BY <1>2, <1>3, <1>4, AllocKeepsOwnership, PutKeepsOwnership, PublishKeepsOwnership
  DEF Client

-----------------------------------------------------------------------------
(* The interrupt service thread.                                           *)

\* The callers' own chains, in a step of another thread that leaves their
\* descriptors and the available ring alone.
LEMMA ClientsKept ==
  ASSUME IInv, NEW own, Owned(own), \A x \in Clients : ClientChain(x),
         UNCHANGED <<pc, idxs, op, avail>>,
         \A d \in Desc : own[d] \in Clients => desc'[d] = desc[d]
  PROVE  \A x \in Clients : ClientChain(x)'
BY ClientKept

\* virtq_get_desc_chain takes the oldest entry of the used ring.
LEMMA TakenEffect ==
  ASSUME IInv, Ownership, ~UsedEmpty, last_seen_used' = Inc(last_seen_used),
         UNCHANGED <<avail, used, dev>>
  PROVE  /\ UsedHead \in UsedHeads /\ UsedHeads' = UsedHeads \ {UsedHead}
         /\ UsedHead \in InFlight /\ InFlight' = InFlight \ {UsedHead}
         /\ AvailHeads' = AvailHeads
         /\ RingKept(used.ring, Inc(last_seen_used), used.idx)
<1>1. /\ used.ring \in [Desc -> Desc] /\ used.idx \in Idx /\ last_seen_used \in Idx
      /\ RingKept(used.ring, last_seen_used, used.idx) /\ used.idx # last_seen_used
  BY DEF IInv, TypeOK, VirtqTypeOK, Ownership, RingsShared, UsedEmpty
<1>2. UsedHeads = Between(used.ring, last_seen_used, used.idx)
  BY DEF UsedHeads, Between
<1>3. /\ UsedHead \in UsedHeads
      /\ Between(used.ring, Inc(last_seen_used), used.idx) = UsedHeads \ {UsedHead}
      /\ RingKept(used.ring, Inc(last_seen_used), used.idx)
  BY <1>1, <1>2, EntryTaken DEF UsedHead
<1>4. UsedHeads' = UsedHeads \ {UsedHead}
  BY <1>3 DEF UsedHeads, Between
<1>5. AvailHeads' = AvailHeads
  BY DEF AvailHeads
<1>6. InFlight' = InFlight \ {UsedHead} /\ UsedHead \in InFlight
  BY <1>3, <1>4, <1>5 DEF InFlight, Ownership, RingsShared
<1> QED BY <1>3, <1>4, <1>5, <1>6

LEMMA ChainTakenKeepsOwnership ==
  ASSUME IInv, IInv', Ownership, NEW h \in Desc, NEW n \in Desc, LockKept',
         ~UsedEmpty, h = UsedHead, n = desc[h].next,
         ist'.pc = "post", ist'.idxs = Pair(h, n),
         ist.pc \notin {"post", "free0", "free1"},
         last_seen_used' = Inc(last_seen_used),
         UNCHANGED <<free_descs, desc, avail, used, pc, idxs, op, dev>>
  PROVE  Ownership'
<1>1. PICK own \in [Desc -> Holders] : Owned(own)
  BY DEF Ownership
<1> DEFINE new == [own EXCEPT ![h] = "ist", ![n] = "ist"]
<1>2. /\ TypeOK /\ RingsShared /\ FlightChains /\ IstChain /\ HeadsKnown
      /\ \A x \in Clients : ClientChain(x)
      /\ OwnedFree(own) /\ OwnedFlight(own) /\ OwnedIst(own)
      /\ \A x \in Clients : OwnedByClient(own, x)
  BY <1>1 DEF IInv, Ownership, Owned
<1>3. /\ h \in UsedHeads /\ UsedHeads' = UsedHeads \ {h}
      /\ RingKept(used.ring, Inc(last_seen_used), used.idx)
  BY TakenEffect
<1>4. AvailHeads' = AvailHeads /\ InFlight' = InFlight \ {h} /\ h \in InFlight
  BY TakenEffect
<1>5. /\ RequestChain(h) /\ desc[n].buf \in Replies /\ h # n
      /\ \A g \in InFlight : desc[g].next = n => g = h
  BY <1>2, <1>3, <1>4 DEF FlightChains, RequestChain
<1>6. /\ own[h] = "flight" /\ own[n] = "flight"
      /\ new \in [Desc -> Holders] /\ new[h] = "ist" /\ new[n] = "ist"
      /\ \A d \in Desc \ {h, n} : new[d] = own[d]
  BY <1>1, <1>2, <1>4, FlightOwns, HoldersDiffer
<1>7. n \notin InFlight
  BY <1>2, <1>5 DEF FlightChains, RequestChain
<1> HIDE DEF new
<1>8. Pair(h, n)[0] = h /\ Pair(h, n)[1] = n /\ NoDescs[0] = NoDesc /\ NoDescs[1] = NoDesc
  BY DEF NoDescs, Pair
<1>9. OwnedFree(new)' /\ OwnedFlight(new)'
  <2>1. OwnedFree(new)'
    BY <1>2, <1>6 DEF OwnedFree
  <2>2. ASSUME NEW d \in Desc
        PROVE  new[d] = "flight" <=> d \in InFlight' \/ \E g \in InFlight' : d = desc[g].next
    <3>1. CASE d = h
      BY <1>1, <1>2, <1>4, <1>5, <1>6, <3>1 DEF FlightChains, RequestChain
    <3>2. CASE d = n
      BY <1>4, <1>5, <1>6, <1>7, <3>2
    <3>3. CASE d # h /\ d # n
      BY <1>2, <1>4, <1>6, <3>3 DEF OwnedFlight
    <3> QED BY <3>1, <3>2, <3>3
  <2> QED BY <2>1, <2>2 DEF OwnedFlight
<1>10. OwnedIst(new)'
  BY <1>2, <1>6, <1>8, MarksAssumption DEF OwnedIst, IstChain
<1>11. \A x \in Clients : OwnedByClient(new, x)'
  BY <1>2, <1>6, HoldersDiffer DEF OwnedByClient
<1>12. Owned(new)'
  BY <1>6, <1>9, <1>10, <1>11 DEF Owned
<1>13. FlightChains'
  BY <1>2, <1>3, <1>4 DEF FlightChains, RequestChain
<1>14. RingsShared'
  BY <1>2, <1>3, <1>4 DEF RingsShared
<1>15. IstChain'
  BY <1>5, <1>8 DEF IstChain, RequestChain
<1>16. HeadsKnown'
  BY <1>2, <1>4, <1>8 DEF HeadsKnown
<1>17. \A x \in Clients : ClientChain(x)'
  BY <1>1, <1>2, ClientsKept
<1> QED BY <1>6, <1>12, <1>13, <1>14, <1>15, <1>16, <1>17 DEF Ownership

\* The callback's two virtq_free_desc.
LEMMA AnsweredFreed ==
  ASSUME IInv, IInv', Ownership, NEW n \in {0, 1}, NEW d \in Desc, d = ist.idxs[n],
         virtq_free_desc(d),
         UNCHANGED <<avail, used, last_seen_used, lock, pc, idxs, op, dev>>,
         \/ /\ n = 0 /\ ist.pc = "free0" /\ ist'.pc = "free1"
            /\ ist'.idxs[0] = NoDesc /\ ist'.idxs[1] = ist.idxs[1]
         \/ /\ n = 1 /\ ist.pc = "free1" /\ ist'.pc = "drain" /\ ist'.idxs = NoDescs
  PROVE  Ownership'
<1>1. PICK own \in [Desc -> Holders] : Owned(own)
  BY DEF Ownership
<1> DEFINE new == [own EXCEPT ![d] = "free"]
<1>2. /\ TypeOK /\ RingsShared /\ FlightChains /\ IstChain /\ HeadsKnown /\ LockKept
      /\ \A x \in Clients : ClientChain(x)
      /\ OwnedFree(own) /\ OwnedFlight(own) /\ OwnedIst(own)
      /\ \A x \in Clients : OwnedByClient(own, x)
  BY <1>1 DEF IInv, Ownership, Owned
<1>3. own[d] = "ist"
  BY <1>1, IstOwns
<1>4. desc[d].buf # Unmapped
  BY <1>2, BuffersDiffer DEF IstChain, RequestChain
<1>5. /\ fifo_put(d) /\ \A e \in Desc \ {d} : desc'[e] = desc[e]
      /\ "NEXT" \notin desc'[d].flags
  BY <1>2, <1>4, MappedFreed
<1>6. new \in [Desc -> Holders] /\ new[d] = "free" /\ \A e \in Desc \ {d} : new[e] = own[e]
  BY <1>1, HoldersDiffer
<1>7. OwnedFree(new)'
  BY <1>1, <1>2, <1>3, <1>5, PutListed
<1>8. InFlight' = InFlight /\ FlightChains' /\ \A h \in InFlight : desc'[h] = desc[h]
  <2>1. AvailHeads' = AvailHeads /\ UsedHeads' = UsedHeads /\ dev'.held = dev.held
    BY DEF AvailHeads, UsedHeads
  <2> QED BY <1>1, <1>2, <1>3, <1>5, <2>1, FlightKept
<1> HIDE DEF new
<1>9. OwnedFlight(new)'
  BY <1>2, <1>3, <1>6, <1>8 DEF OwnedFlight
<1>10. /\ NoDescs[0] = NoDesc /\ NoDescs[1] = NoDesc /\ NoDesc \notin Desc
       /\ ist.pc = "free0" => ist.idxs[0] # ist.idxs[1]
  BY <1>2, MarksAssumption DEF NoDescs, Pair, IstChain, RequestChain
<1>11. OwnedIst(new)'
  BY <1>2, <1>3, <1>6, <1>10 DEF OwnedIst, IstChain
<1>12. \A x \in Clients : OwnedByClient(new, x)'
  BY <1>2, <1>3, <1>6, HoldersDiffer DEF OwnedByClient
<1>13. Owned(new)'
  BY <1>6, <1>7, <1>9, <1>11, <1>12 DEF Owned
<1>14. RingsShared'
  BY <1>2 DEF RingsShared, AvailHeads, UsedHeads
<1>15. IstChain'
  <2>1. n = 0 => desc'[ist.idxs[1]] = desc[ist.idxs[1]]
    BY <1>1, <1>5, <1>10, IstOwns
  <2> QED BY <1>2, <1>10, <2>1 DEF IstChain
<1>16. HeadsKnown'
  BY <1>2, <1>5, <1>8 DEF HeadsKnown
<1>17. LockKept'
  BY <1>2 DEF LockKept
<1>18. \A x \in Clients : ClientChain(x)'
  BY <1>1, <1>2, <1>3, <1>5, ClientsKept, HoldersDiffer
<1> QED BY <1>6, <1>8, <1>13, <1>14, <1>15, <1>16, <1>17, <1>18 DEF Ownership

\* virtq_get_desc_chain: an entry that is not stale is the oldest one, and its
\* chain has two descriptors.
LEMMA GetChainKeepsOwnership ==
  ASSUME IInv, IInv', Ownership, NEW h \in Desc, GetChain(h), ~ist'.stale,
         ist.pc \in {"drain", "idx"}, LockKept'
  PROVE  Ownership'
<1> USE DEF GetChain, IstOnly, clientVars
<1>1. TypeOK
  BY DEF IInv
<1>2. CASE UsedEmpty \/ TooLong(h)
  <2>1. ist'.pc = "unmask" /\ ist'.idxs = ist.idxs /\ last_seen_used' = last_seen_used
    BY <1>1, <1>2 DEF TypeOK
  <2> QED BY <2>1, NothingMoves
<1>3. CASE ~(UsedEmpty \/ TooLong(h))
  <2>1. PICK n \in Second(h) :
          ist' = [ist EXCEPT !.pc = "post", !.id = NoDesc, !.idxs = Pair(h, n),
                             !.stale = @ \/ h # UsedHead]
    BY <1>3
  <2>2. h = UsedHead /\ ist'.pc = "post" /\ ist'.idxs = Pair(h, n)
    BY <1>1, <2>1 DEF TypeOK
  <2>3. h \in InFlight
    <3>1. /\ used.idx # last_seen_used /\ used.idx \in Idx /\ last_seen_used \in Idx
      BY <1>1, <1>3 DEF TypeOK, VirtqTypeOK, UsedEmpty
    <3> QED BY <2>2, <3>1, WindowInRing DEF InFlight, UsedHeads, UsedHead
  <2>4. n = desc[h].next /\ n \in Desc
    <3>1. desc[h].flags = {"NEXT"} /\ desc[h].next \in Desc
      BY <1>1, <2>3, HeadsInTable DEF Ownership, FlightChains, RequestChain
    <3> QED BY <2>1, <3>1 DEF Second
  <2> QED BY <1>3, <2>2, <2>4, ChainTakenKeepsOwnership
<1> QED BY <1>2, <1>3

LEMMA IstKeepsOwnership ==
  ASSUME IInv, IInv', Ownership, Ist, ~ist'.stale
  PROVE  Ownership'
<1>1. TypeOK /\ IstIndicesNamed /\ LockKept /\ IstChain
  BY DEF IInv, Ownership
<1> USE DEF IstOnly, IstGoTo, virtqVars, clientVars
<1>2. CASE IstAttach \/ IstUnmask \/ IstWake \/ IstAck
  <2> USE <1>2 DEF IstAttach, IstUnmask, IstWake, IstAck
  <2>1. /\ ist.pc \notin {"post", "free0", "free1"} /\ ist'.idxs = ist.idxs
        /\ ist'.pc \notin {"post", "free0", "free1", "crash", "idx"}
    BY <1>1 DEF TypeOK
  <2>2. LockKept'
    BY <1>1, <2>1 DEF LockKept
  <2> QED BY <2>1, <2>2, NothingMoves
<1>3. UsedHead \in Desc
  BY <1>1, SlotDesc DEF UsedHead, TypeOK, VirtqTypeOK
<1>4. CASE IstDrain
  <2>1. ist'.pc # "idx"
    BY <1>1, <1>4 DEF IstDrain, GetChain, TypeOK
  <2>2. LockKept'
    BY <1>1, <1>4, <2>1 DEF IstDrain, GetChain, LockKept
  <2> QED BY <1>3, <1>4, <2>2, GetChainKeepsOwnership DEF IstDrain
<1>5. CASE IstEarlyLoad
  <2>1. /\ ist.pc = "drain" /\ ist'.pc = "idx" /\ ist'.idxs = ist.idxs
        /\ lock = Unlocked /\ lock' = "ist"
    BY <1>1, <1>5 DEF IstEarlyLoad, Acquire, TypeOK
  <2>2. LockKept'
    BY <1>1, <1>5, <2>1, HoldersDiffer DEF IstEarlyLoad, LockKept
  <2> QED BY <1>5, <2>1, <2>2, NothingMoves DEF IstEarlyLoad
<1>6. CASE IstLateIdx
  <2>1. ist'.pc # "idx" /\ pc' = pc /\ ist.id \in Desc
    BY <1>1, <1>6 DEF IstLateIdx, GetChain, TypeOK, IstIndicesNamed
  <2>2. LockKept'
    BY <1>1, <1>6, <2>1, HoldersDiffer DEF IstLateIdx, LockKept
  <2> QED BY <1>6, <2>1, <2>2, GetChainKeepsOwnership DEF IstLateIdx
<1>7. CASE IstPost
  <2>1. desc[ist.idxs[0]].context # NoContext
    BY <1>1, <1>7, MarksAssumption DEF IstPost, IstChain, RequestChain
  <2>2. ist' = [ist EXCEPT !.pc = "free0"] /\ UNCHANGED <<virtqVars, pc, idxs, op, dev>>
    BY <1>7, <2>1 DEF IstPost
  <2>3. ist.pc = "post" /\ ist'.pc = "free0" /\ ist'.idxs = ist.idxs
    BY <1>1, <1>7, <2>2 DEF IstPost, TypeOK
  <2>4. LockKept'
    BY <1>1, <2>2, <2>3 DEF LockKept
  <2> QED BY <2>2, <2>3, <2>4, NothingMoves
<1>8. CASE IstFree0
  <2>1. /\ ist.idxs[0] \in Desc /\ ist.pc = "free0" /\ ist'.pc = "free1"
        /\ ist'.idxs[0] = NoDesc /\ ist'.idxs[1] = ist.idxs[1]
    BY <1>1, <1>8 DEF IstFree0, IstIndicesNamed, TypeOK
  <2> QED BY <1>8, <2>1, AnsweredFreed DEF IstFree0
<1>9. CASE IstFree1
  <2>1. /\ ist.idxs[1] \in Desc /\ ist.pc = "free1" /\ ist'.pc = "drain"
        /\ ist'.idxs = NoDescs
    BY <1>1, <1>9 DEF IstFree1, IstIndicesNamed, TypeOK
  <2> QED BY <1>9, <2>1, AnsweredFreed DEF IstFree1
<1> QED BY <1>2, <1>4, <1>5, <1>6, <1>7, <1>8, <1>9 DEF Ist

-----------------------------------------------------------------------------
(* The device.                                                             *)

\* It takes the oldest entry of the available ring.
LEMMA PopEffect ==
  ASSUME IInv, Ownership, DevPop
  PROVE  LET h == avail.ring[Slot(dev.last)]
         IN  /\ h \in AvailHeads /\ AvailHeads' = AvailHeads \ {h}
             /\ dev'.held = dev.held \cup {h} /\ dev'.last = Inc(dev.last)
             /\ UsedHeads' = UsedHeads /\ InFlight' = InFlight
             /\ RingKept(avail.ring, Inc(dev.last), avail.idx)
<1>1. PICK h : h = avail.ring[Slot(dev.last)]
  OBVIOUS
<1>2. /\ avail.ring \in [Desc -> Desc] /\ avail.idx \in Idx /\ dev.last \in Idx
      /\ RingKept(avail.ring, dev.last, avail.idx) /\ dev.last # avail.idx
  BY DEF IInv, TypeOK, VirtqTypeOK, Ownership, RingsShared, DevPop
<1>3. /\ dev'.last = Inc(dev.last) /\ dev'.held = dev.held \cup {h}
      /\ UNCHANGED <<avail, used, last_seen_used>>
  BY <1>1 DEF DevPop, DevOnly, IInv, TypeOK
<1>4. AvailHeads = Between(avail.ring, dev.last, avail.idx)
  BY DEF AvailHeads, Between
<1>5. /\ h \in AvailHeads
      /\ Between(avail.ring, Inc(dev.last), avail.idx) = AvailHeads \ {h}
      /\ RingKept(avail.ring, Inc(dev.last), avail.idx)
  BY <1>1, <1>2, <1>4, EntryTaken
<1>6. AvailHeads' = AvailHeads \ {h}
  BY <1>3, <1>5 DEF AvailHeads, Between
<1>7. UsedHeads' = UsedHeads /\ InFlight' = InFlight
  BY <1>3, <1>5, <1>6 DEF UsedHeads, InFlight
<1> QED BY <1>1, <1>3, <1>5, <1>6, <1>7

LEMMA PopKeepsOwnership ==
  ASSUME IInv, IInv', Ownership, DevPop
  PROVE  Ownership'
<1>1. PICK own \in [Desc -> Holders] : Owned(own)
  BY DEF Ownership
<1>2. /\ TypeOK /\ RingsShared /\ FlightChains /\ IstChain /\ HeadsKnown /\ LockKept
      /\ \A x \in Clients : ClientChain(x)
  BY DEF IInv, Ownership
<1>3. UNCHANGED <<free_descs, desc, avail, used, last_seen_used, lock, pc, idxs, op, ist>>
  BY DEF DevPop, DevOnly, clientVars
<1>4. PICK h : /\ h \in AvailHeads /\ AvailHeads' = AvailHeads \ {h}
               /\ dev'.held = dev.held \cup {h} /\ dev'.last = Inc(dev.last)
               /\ UsedHeads' = UsedHeads /\ InFlight' = InFlight
               /\ RingKept(avail.ring, Inc(dev.last), avail.idx)
  BY PopEffect
<1>5. Owned(own)'
  BY <1>1, <1>3, <1>4 DEF Owned, OwnedFree, OwnedFlight, OwnedIst, OwnedByClient
<1>6. RingsShared'
  BY <1>2, <1>3, <1>4 DEF RingsShared
<1>7. FlightChains'
  BY <1>2, <1>3, <1>4 DEF FlightChains, RequestChain
<1>8. IstChain' /\ HeadsKnown' /\ LockKept'
  BY <1>2, <1>3, <1>4 DEF IstChain, HeadsKnown, LockKept, RequestChain
<1>9. \A x \in Clients : ClientChain(x)'
  BY <1>2, <1>3 DEF ClientChain, RequestChain
<1> QED BY <1>1, <1>5, <1>6, <1>7, <1>8, <1>9 DEF Ownership

\* It writes the response of a chain it has and enters the chain in the used
\* ring, which has room for it.
LEMMA CompleteEffect ==
  ASSUME IInv, Ownership, NEW h \in Desc, DevComplete(h)
  PROVE  LET n == desc[h].next
         IN  /\ h \in dev.held /\ h \in InFlight /\ h \notin AvailHeads /\ h \notin UsedHeads
             /\ n \in Desc /\ h # n /\ n \notin InFlight
             /\ \A g \in InFlight : desc[g].next = n => g = h
             /\ desc'[n].buf \in Replies
             /\ Execute(desc[h].buf, desc'[n].buf)
             /\ desc'[n] = [desc[n] EXCEPT !.buf = desc'[n].buf]
             /\ \A d \in Desc \ {n} : desc'[d] = desc[d]
             /\ UsedHeads' = UsedHeads \cup {h} /\ dev'.held = dev.held \ {h}
             /\ AvailHeads' = AvailHeads /\ InFlight' = InFlight
             /\ RingKept(used'.ring, last_seen_used, used'.idx)
<1>1. PICK n : n = desc[h].next
  OBVIOUS
<1>2. /\ TypeOK /\ RingsShared /\ FlightChains
  BY DEF IInv, Ownership
<1>3. /\ UNCHANGED <<avail, last_seen_used>>
      /\ dev'.last = dev.last /\ dev'.held = dev.held \ {h} /\ h \in dev.held
      /\ used'.idx = Inc(used.idx)
      /\ used'.ring = [used.ring EXCEPT ![Slot(used.idx)] = h]
  BY <1>2 DEF DevComplete, DevOnly, TypeOK
<1>4. PICK reply \in Replies : /\ Execute(desc[h].buf, reply)
                              /\ desc' = [desc EXCEPT ![n].buf = reply]
  BY <1>1 DEF DevComplete
<1>5. /\ h \in InFlight /\ h \notin AvailHeads /\ h \notin UsedHeads
      /\ n \in Desc /\ h # n /\ n \notin InFlight
      /\ \A g \in InFlight : desc[g].next = n => g = h
  <2>1. h \in InFlight /\ h \notin AvailHeads /\ h \notin UsedHeads
    BY <1>2, <1>3 DEF RingsShared, InFlight
  <2>2. n \in Desc
    BY <1>1, <1>2, HeadsInTable
  <2> QED BY <1>1, <1>2, <2>1, <2>2 DEF FlightChains, RequestChain
<1>6. /\ \A d \in Desc \ {n} : desc'[d] = desc[d]
      /\ desc'[n].buf = reply /\ desc'[n] = [desc[n] EXCEPT !.buf = reply]
  BY <1>2, <1>4, <1>5 DEF TypeOK, DescTable
<1>7. /\ used.ring \in [Desc -> Desc] /\ used.idx \in Idx /\ last_seen_used \in Idx
      /\ RingKept(used.ring, last_seen_used, used.idx)
  BY <1>2 DEF TypeOK, VirtqTypeOK, RingsShared
<1>8. UsedHeads = Between(used.ring, last_seen_used, used.idx)
  BY DEF UsedHeads, Between
<1>9. /\ Dist(last_seen_used, used.idx) < Num
      /\ Dist(last_seen_used, used.idx) + 1 < IdxMod
  <2>1. h \notin UsedHeads /\ n \notin UsedHeads
    BY <1>5 DEF InFlight
  <2> QED BY <1>5, <1>7, <1>8, <2>1, RoomInRing
<1>10. /\ UsedHeads' = UsedHeads \cup {h}
       /\ RingKept(used'.ring, last_seen_used, used'.idx)
  <2>1. /\ used'.ring[Slot(used.idx)] = h
        /\ Between(used'.ring, last_seen_used, used.idx) = UsedHeads
        /\ RingKept(used'.ring, last_seen_used, used.idx)
    BY <1>3, <1>7, <1>8, <1>9, EntryWritten
  <2>2. used'.ring \in [Desc -> Desc]
    BY <1>3, <1>7
  <2>3. /\ Between(used'.ring, last_seen_used, Inc(used.idx)) = UsedHeads \cup {h}
        /\ RingKept(used'.ring, last_seen_used, Inc(used.idx))
    BY <1>5, <1>7, <1>9, <2>1, <2>2, EntryPublished
  <2> QED BY <1>3, <2>3 DEF UsedHeads, Between
<1>11. AvailHeads' = AvailHeads /\ InFlight' = InFlight
  BY <1>3, <1>10 DEF AvailHeads, InFlight
<1> QED BY <1>1, <1>3, <1>4, <1>5, <1>6, <1>10, <1>11

LEMMA CompleteKeepsOwnership ==
  ASSUME IInv, IInv', Ownership, NEW h \in Desc, DevComplete(h)
  PROVE  Ownership'
<1>1. PICK own \in [Desc -> Holders] : Owned(own)
  BY DEF Ownership
<1>2. PICK n : n = desc[h].next
  OBVIOUS
<1>3. /\ TypeOK /\ RingsShared /\ FlightChains /\ IstChain /\ HeadsKnown /\ LockKept
      /\ \A x \in Clients : ClientChain(x)
  BY DEF IInv, Ownership
<1>4. /\ UNCHANGED <<free_descs, avail, last_seen_used, lock, pc, idxs, op, ist>>
      /\ dev'.last = dev.last
  BY <1>3 DEF DevComplete, DevOnly, clientVars, TypeOK
<1>5. /\ h \in dev.held /\ h \in InFlight /\ h \notin AvailHeads /\ h \notin UsedHeads
      /\ n \in Desc /\ h # n /\ n \notin InFlight
      /\ \A g \in InFlight : desc[g].next = n => g = h
      /\ desc'[n].buf \in Replies /\ desc'[n] = [desc[n] EXCEPT !.buf = desc'[n].buf]
      /\ \A d \in Desc \ {n} : desc'[d] = desc[d]
      /\ UsedHeads' = UsedHeads \cup {h} /\ dev'.held = dev.held \ {h}
      /\ AvailHeads' = AvailHeads /\ InFlight' = InFlight
      /\ RingKept(used'.ring, last_seen_used, used'.idx)
  BY <1>2, CompleteEffect
<1>6. own[h] = "flight" /\ own[n] = "flight"
  BY <1>1, <1>2, <1>3, <1>5, FlightOwns
<1>7. desc'[n].flags = desc[n].flags /\ desc'[n].next = desc[n].next
  BY <1>3, <1>5 DEF TypeOK, DescTable
<1>8. \A d \in Desc : desc'[d].flags = desc[d].flags /\ desc'[d].next = desc[d].next
  BY <1>5, <1>7
<1>9. \A g \in InFlight : g \in Desc /\ desc[g].next \in Desc /\ desc'[g] = desc[g]
  BY <1>3, <1>5, HeadsInTable
<1>10. Owned(own)'
  <2>1. OwnedFlight(own)'
    BY <1>1, <1>5, <1>9 DEF Owned, OwnedFlight
  <2>2. OwnedFree(own)' /\ OwnedIst(own)' /\ \A x \in Clients : OwnedByClient(own, x)'
    BY <1>1, <1>4 DEF Owned, OwnedFree, OwnedIst, OwnedByClient
  <2> QED BY <1>1, <2>1, <2>2 DEF Owned
<1>11. RingsShared'
  BY <1>3, <1>4, <1>5 DEF RingsShared
<1>12. FlightChains'
  <2>1. ASSUME NEW g \in InFlight PROVE RequestChain(g)'
    <3>1. RequestChain(g) /\ desc'[g] = desc[g] /\ desc'[desc[g].next].flags = desc[desc[g].next].flags
      BY <1>3, <1>8, <1>9 DEF FlightChains
    <3> QED BY <3>1 DEF RequestChain
  <2>2. \A g \in AvailHeads' \cup dev'.held : desc'[desc'[g].next].buf = Zeroed
    <3>1. \A g \in AvailHeads' \cup dev'.held :
            g \in InFlight /\ g # h /\ desc[desc[g].next].buf = Zeroed
      BY <1>3, <1>5 DEF FlightChains, InFlight
    <3> QED BY <1>5, <1>9, <3>1
  <2>3. \A g \in UsedHeads' : desc'[desc'[g].next].buf \in Replies
    <3>1. \A g \in UsedHeads' : g \in InFlight /\ (g # h => desc[desc[g].next].buf \in Replies)
      BY <1>3, <1>5 DEF FlightChains, InFlight
    <3> QED BY <1>2, <1>5, <1>9, <3>1
  <2>4. \A f, g \in InFlight' : desc'[f].next = desc'[g].next => f = g
    BY <1>3, <1>5, <1>9 DEF FlightChains
  <2> QED BY <1>5, <2>1, <2>2, <2>3, <2>4 DEF FlightChains
<1>13. IstChain'
  BY <1>1, <1>3, <1>4, <1>5, <1>6, IstKept
<1>14. HeadsKnown'
  BY <1>3, <1>4, <1>5, <1>8 DEF HeadsKnown
<1>15. LockKept'
  BY <1>3, <1>4 DEF LockKept
<1>16. \A x \in Clients : ClientChain(x)'
  BY <1>1, <1>3, <1>4, <1>5, <1>6, ClientsKept, HoldersDiffer
<1> QED BY <1>1, <1>10, <1>11, <1>12, <1>13, <1>14, <1>15, <1>16 DEF Ownership

LEMMA DeviceKeepsOwnership ==
  ASSUME IInv, IInv', Ownership, Device
  PROVE  Ownership'
<1>1. CASE DevIdle \/ DevRaise
  <2>1. /\ UNCHANGED <<free_descs, desc, avail, used, last_seen_used, lock, pc, idxs, op, ist>>
        /\ dev'.last = dev.last /\ dev'.held = dev.held
    BY <1>1 DEF DevIdle, DevRaise, DevOnly, clientVars, IInv, TypeOK
  <2>2. LockKept'
    BY <2>1 DEF Ownership, LockKept
  <2> QED BY <2>1, <2>2, NothingMoves
<1> QED BY <1>1, PopKeepsOwnership, CompleteKeepsOwnership DEF Device

-----------------------------------------------------------------------------
(* The invariant holds from the start on.                                  *)

\* virtq_create puts every descriptor in the free list, once.
LEMMA InitOwned == ASSUME Init PROVE Ownership
<1>1. PICK own \in [Desc -> Holders] : \A d \in Desc : own[d] = "free"
  <2>1. [d \in Desc |-> "free"] \in [Desc -> Holders]
    BY HoldersDiffer
  <2> QED BY <2>1
<1>2. NoDescs[0] = NoDesc /\ NoDescs[1] = NoDesc /\ NoDesc \notin Desc
  BY MarksAssumption DEF NoDescs, Pair
<1>3. /\ RingKept(avail.ring, dev.last, avail.idx) /\ AvailHeads = {}
      /\ RingKept(used.ring, last_seen_used, used.idx) /\ UsedHeads = {}
  BY EmptyRingKept, ZeroIn DEF Init, VirtqInit, AvailHeads, UsedHeads, Between
<1>4. InFlight = {}
  BY <1>3 DEF InFlight, Init
<1>5. OwnedFree(own)
  <2>1. /\ DOMAIN free_descs = 1 .. Num /\ \A i \in 1 .. Num : free_descs[i] = i - 1
    BY NumAssumption DEF Init, VirtqInit
  <2>2. ListedOnce(free_descs)
    BY <2>1 DEF ListedOnce
  <2>3. ASSUME NEW d \in Desc PROVE d \in Listed(free_descs)
    <3>1. d + 1 \in 1 .. Num /\ d = (d + 1) - 1
      BY NumAssumption DEF Desc
    <3> QED BY <2>1, <3>1 DEF Listed
  <2> QED BY <1>1, <2>2, <2>3 DEF OwnedFree
<1>6. OwnedFlight(own) /\ OwnedIst(own) /\ \A c \in Clients : OwnedByClient(own, c)
  BY <1>1, <1>2, <1>4, HoldersDiffer
  DEF OwnedFlight, OwnedIst, OwnedByClient, Init, IstIdle
<1>7. /\ RingsShared /\ FlightChains /\ IstChain /\ LockKept
      /\ \A c \in Clients : ClientChain(c)
  BY <1>3, <1>4 DEF RingsShared, FlightChains, IstChain, LockKept, ClientChain, Init, IstIdle
<1>8. HeadsKnown
  BY DEF HeadsKnown, Init, VirtqInit, FreeEntry
<1> QED BY <1>1, <1>5, <1>6, <1>7, <1>8 DEF Ownership, Owned

\* No step makes up for a stale entry.
LEMMA StaleForGood == ASSUME TypeOK, [Next]_vars, ~ist'.stale PROVE ~ist.stale
<1>1. CASE Ist
  BY <1>1
  DEF Ist, IstAttach, IstUnmask, IstWake, IstAck, IstDrain, IstEarlyLoad, IstLateIdx,
      IstPost, IstFree0, IstFree1, GetChain, IstGoTo, TypeOK
<1>2. CASE ~Ist
  BY <1>2 DEF Next, vars, Client, Begin, Alloc0, PutBack0, Alloc1, PutBack1, Free0, Put,
      Publish, Notify, Wait, Interrupted, ClientOnly,
      Device, DevPop, DevIdle, DevRaise, DevComplete, DevOnly
<1> QED BY <1>1, <1>2

LEMMA StepKeepsOInv == ASSUME OInv, [Next]_vars PROVE OInv'
<1>1. IInv /\ IInv'
  BY NextPreservesIInv DEF OInv
<1>2. SUFFICES ASSUME ~ist'.stale PROVE Ownership'
  BY <1>1 DEF OInv
<1>3. ~ist.stale
  BY <1>1, <1>2, StaleForGood DEF IInv
<1>4. Ownership
  BY <1>3 DEF OInv
<1>5. CASE Next
  BY <1>1, <1>2, <1>4, <1>5, ClientKeepsOwnership, IstKeepsOwnership, DeviceKeepsOwnership
  DEF Next
<1>6. CASE UNCHANGED vars
  <2>1. LockKept'
    BY <1>4, <1>6 DEF vars, virtqVars, clientVars, Ownership, LockKept
  <2> QED BY <1>4, <1>6, <2>1, NothingMoves DEF vars, virtqVars, clientVars
<1> QED BY <1>5, <1>6

\* Each descriptor has one holder, and the rings are what the steps of the
\* callers, the interrupt thread and the device make of them, in every state
\* before a stale entry is taken: virtq_alloc_desc, virtq_put_desc_chain,
\* virtq_get_desc_chain and virtq_free_desc in any interleaving, with any fault.
THEOREM OInvHolds == Spec => []OInv
<1>1. Init => OInv
  BY InitEstablishesIInv, InitOwned DEF OInv
<1> QED BY <1>1, StepKeepsOInv, PTL DEF Spec

-----------------------------------------------------------------------------
(* What the invariant says of the properties that are checked.             *)

LEMMA HeldByOwner ==
  ASSUME TypeOK, NEW own \in [Desc -> Holders], Owned(own), NEW o \in Holders
  PROVE  HeldBy(o) = {d \in Desc : own[d] = o}
<1>1. /\ NoDesc \notin Desc /\ InFlight \subseteq Desc
      /\ \A h \in InFlight : desc[h].next \in Desc
  BY HeadsInTable, MarksAssumption
<1>0. /\ HeldBy("free") = Some(free_descs) /\ HeldBy("ist") = Some(ist.idxs)
      /\ HeldBy("flight") = InFlight \cup {desc[h].next : h \in InFlight}
  BY HoldersDiffer DEF HeldBy
<1>2. CASE o = "free"
  <2>1. Some(free_descs) = Listed(free_descs) /\ Listed(free_descs) \subseteq Desc
    BY <1>1, ListLength DEF Some, Listed, TypeOK, VirtqTypeOK, Owned, OwnedFree
  <2> QED BY <1>0, <1>2, <2>1 DEF Owned, OwnedFree
<1>3. CASE o = "flight"
  BY <1>0, <1>1, <1>3 DEF Owned, OwnedFlight
<1>4. CASE o = "ist"
  <2>1. /\ DOMAIN ist.idxs = {0, 1} /\ ist.idxs[0] \in DescOrNone /\ ist.idxs[1] \in DescOrNone
    BY DEF TypeOK
  <2>2. Some(ist.idxs) = {d \in Desc : d = ist.idxs[0] \/ d = ist.idxs[1]}
    BY <1>1, <2>1 DEF Some, DescOrNone
  <2> QED BY <1>0, <1>4, <2>2 DEF Owned, OwnedIst
<1>5. CASE o \in Clients
  <2>1. /\ DOMAIN idxs[o] = {0, 1} /\ idxs[o][0] \in DescOrNone /\ idxs[o][1] \in DescOrNone
    BY <1>5 DEF TypeOK
  <2>2. Some(idxs[o]) = {d \in Desc : d = idxs[o][0] \/ d = idxs[o][1]}
    BY <1>1, <2>1 DEF Some, DescOrNone
  <2>3. o # "free" /\ o # "flight" /\ o # "ist"
    BY <1>5, HoldersDiffer
  <2> QED BY <1>5, <2>2, <2>3 DEF HeldBy, Owned, OwnedByClient
<1> QED BY <1>2, <1>3, <1>4, <1>5 DEF Holders

\* A descriptor is never lost and never in two hands.
THEOREM DescriptorsConservedHolds == Spec => []DescriptorsConserved
<1>1. OInv => DescriptorsConserved
  <2> SUFFICES ASSUME IInv, Ownership
               PROVE  /\ \A d \in Desc : \E o \in Holders : d \in HeldBy(o)
                      /\ \A o1, o2 \in Holders : o1 # o2 => HeldBy(o1) \cap HeldBy(o2) = {}
                      /\ Cardinality(Some(free_descs)) = Len(free_descs)
    BY DEF OInv, DescriptorsConserved
  <2>1. PICK own \in [Desc -> Holders] : Owned(own)
    BY DEF Ownership
  <2>2. \A o \in Holders : HeldBy(o) = {d \in Desc : own[d] = o}
    BY <2>1, HeldByOwner DEF IInv
  <2>3. Cardinality(Some(free_descs)) = Len(free_descs)
    <3>1. free_descs \in Seq(Desc) /\ ListedOnce(free_descs)
      BY <2>1 DEF IInv, TypeOK, VirtqTypeOK, Owned, OwnedFree
    <3>2. Some(free_descs) = Listed(free_descs)
      BY <3>1, ListLength, MarksAssumption DEF Some, Listed
    <3> QED BY <3>1, <3>2, ListLength
  <2>4. \A d \in Desc : own[d] \in Holders
    BY <2>1
  <2> QED BY <2>2, <2>3, <2>4
<1> QED BY <1>1, OInvHolds, PTL

\* The indices count the chains on their way: none is overwritten, skipped or
\* handed out twice.
THEOREM ChainsInFlightOnceHolds == Spec => []ChainsInFlightOnce
<1>1. OInv => ChainsInFlightOnce
  <2> SUFFICES ASSUME IInv, Ownership
               PROVE  Cardinality(InFlight) = Dist(dev.last, avail.idx)
                        + Cardinality(dev.held) + Dist(last_seen_used, used.idx)
    BY DEF OInv, ChainsInFlightOnce
  <2>1. /\ AvailHeads = Between(avail.ring, dev.last, avail.idx)
        /\ UsedHeads = Between(used.ring, last_seen_used, used.idx)
        /\ AvailHeads \subseteq Desc /\ UsedHeads \subseteq Desc /\ dev.held \subseteq Desc
    BY HeadsInTable DEF IInv
  <2>2. /\ IsFiniteSet(AvailHeads) /\ IsFiniteSet(UsedHeads) /\ IsFiniteSet(dev.held)
    BY <2>1, DescIsFinite, FS_Subset
  <2>3. /\ Cardinality(AvailHeads) = Dist(dev.last, avail.idx)
        /\ Cardinality(UsedHeads) = Dist(last_seen_used, used.idx)
    BY <2>1 DEF Ownership, RingsShared, RingKept
  <2>4. /\ AvailHeads \cap dev.held = {}
        /\ (AvailHeads \cup dev.held) \cap UsedHeads = {}
    BY DEF Ownership, RingsShared
  <2>5. /\ IsFiniteSet(AvailHeads \cup dev.held)
        /\ Cardinality(AvailHeads \cup dev.held) = Cardinality(AvailHeads) + Cardinality(dev.held)
    BY <2>2, <2>4, FS_Union, FS_EmptySet, FS_CardinalityType
  <2>6. Cardinality(InFlight) = Cardinality(AvailHeads \cup dev.held) + Cardinality(UsedHeads)
    <3>1. InFlight = (AvailHeads \cup dev.held) \cup UsedHeads
      BY DEF InFlight
    <3>2. Cardinality(InFlight) =
            Cardinality(AvailHeads \cup dev.held) + Cardinality(UsedHeads)
              - Cardinality((AvailHeads \cup dev.held) \cap UsedHeads)
      BY <2>2, <2>5, <3>1, FS_Union
    <3>3. /\ Cardinality((AvailHeads \cup dev.held) \cap UsedHeads) = 0
          /\ Cardinality(AvailHeads \cup dev.held) \in Nat /\ Cardinality(UsedHeads) \in Nat
      BY <2>2, <2>4, <2>5, FS_EmptySet, FS_CardinalityType
    <3> QED BY <3>2, <3>3
  <2> QED BY <2>3, <2>5, <2>6
<1> QED BY <1>1, OInvHolds, PTL

\* Loads performed in program order never take a stale entry.
LEMMA NeverStale ==
  ASSUME "reorder" \notin Faults
  PROVE  Spec => [](~ist.stale)
<1> DEFINE SInv == ~ist.stale /\ ist.pc # "idx"
<1>1. Init => SInv
  BY DEF Init, IstIdle
<1>2. TypeOK /\ SInv /\ [Next]_vars => SInv'
  <2> SUFFICES ASSUME TypeOK, SInv, [Next]_vars PROVE SInv'
    OBVIOUS
  <2>1. CASE Ist
    BY <2>1
    DEF Ist, IstAttach, IstUnmask, IstWake, IstAck, IstDrain, IstEarlyLoad, IstLateIdx,
        IstPost, IstFree0, IstFree1, GetChain, IstGoTo, TypeOK
  <2>2. CASE ~Ist
    BY <2>2 DEF Next, vars, Client, Begin, Alloc0, PutBack0, Alloc1, PutBack1, Free0, Put,
        Publish, Notify, Wait, Interrupted, ClientOnly,
        Device, DevPop, DevIdle, DevRaise, DevComplete, DevOnly
  <2> QED BY <2>1, <2>2
<1> QED BY <1>1, <1>2, TypeCorrect, PTL DEF Spec

\* A chain in flight stays as it was published, its response is written by the
\* device alone, and the callback is given both of its descriptors - by a
\* processor that performs the two loads of virtq_get_desc_chain in order.
THEOREM GetsCompletedChainHolds ==
  ASSUME "reorder" \notin Faults
  PROVE  Spec => []GetsCompletedChain
<1>1. OInv /\ ~ist.stale => GetsCompletedChain
  <2> SUFFICES ASSUME IInv, Ownership PROVE GetsCompletedChain
    BY DEF OInv
  <2>1. PICK own \in [Desc -> Holders] : Owned(own)
    BY DEF Ownership
  <2>2. FlightChains /\ IstChain /\ RingsShared
    BY DEF Ownership
  <2>3. ASSUME NEW h \in InFlight \cup Returning
        PROVE  /\ RequestChain(h)
               /\ desc[desc[h].next].buf \in
                    IF h \in UsedHeads \cup Returning THEN Replies ELSE {Zeroed}
    <3>1. CASE h \in Returning
      BY <2>2, <3>1 DEF Returning, IstChain
    <3>2. CASE h \in InFlight /\ h \notin Returning
      BY <2>2, <3>2 DEF FlightChains, InFlight, RingsShared
    <3> QED BY <3>1, <3>2
  <2> QED BY <2>2, <2>3 DEF GetsCompletedChain, RequestChain, IstChain
<1> QED BY <1>1, OInvHolds, NeverStale, PTL

-----------------------------------------------------------------------------
(* No interrupt is lost.                                                   *)

\* The thread is about to sleep, or has yet to begin, and the ring has entries.
NInv ==
  ~ist.stale /\ ist.pc \in {"attach", "unmask", "wait"} /\ ~UsedEmpty
    => isr \/ dev.pc = "raise"

\* virtq_get_desc_chain leaves entries in the ring only if it took one: the
\* descriptor it was given, fresh or stale, is not the head of a longer chain.
LEMMA ChainsEnd ==
  ASSUME IInv, Ownership, NEW h \in Desc, ist.pc \in {"drain", "idx"}
  PROVE  ~TooLong(h)
<1> SUFFICES ASSUME "NEXT" \in desc[h].flags PROVE desc[desc[h].next].flags = {"WRITE"}
  BY DEF TooLong
<1>1. CASE h \in InFlight
  BY <1>1 DEF Ownership, FlightChains, RequestChain
<1>2. CASE \E c \in Clients : pc[c] = "publish" /\ h = idxs[c][0]
  BY <1>2 DEF Ownership, ClientChain, RequestChain
<1> QED BY <1>1, <1>2 DEF Ownership, HeadsKnown

LEMMA StepKeepsNInv == ASSUME OInv, NInv, [Next]_vars PROVE NInv'
<1>1. TypeOK /\ IstIndicesNamed
  BY DEF OInv, IInv
<1>2. CASE UNCHANGED vars
  BY <1>2 DEF NInv, UsedEmpty, vars, virtqVars
<1>3. ASSUME NEW c \in Clients, Client(c) \/ \E q \in Requests : Begin(c, q) PROVE NInv'
  <2>1. UNCHANGED <<used, last_seen_used, isr, ist>> /\ dev'.pc = dev.pc
    BY <1>1, <1>3
    DEF Client, Begin, Alloc0, PutBack0, Alloc1, PutBack1, Free0, Put, Publish, Notify,
        Wait, Interrupted, ClientOnly, virtqVars, TypeOK
  <2> QED BY <2>1 DEF NInv, UsedEmpty
<1>4. CASE Ist
  <2> USE <1>1 DEF IstOnly, IstGoTo, virtqVars
  <2>1. CASE IstAttach \/ IstUnmask
    BY <2>1 DEF IstAttach, IstUnmask, NInv, UsedEmpty, TypeOK
  <2>2. CASE IstWake \/ IstAck \/ IstEarlyLoad
    BY <2>2 DEF IstWake, IstAck, IstEarlyLoad, NInv, TypeOK
  <2>3. ASSUME NEW h \in Desc, GetChain(h), ist.pc \in {"drain", "idx"} PROVE NInv'
    <3> SUFFICES ASSUME ~ist'.stale PROVE NInv'
      BY DEF NInv
    <3>1. CASE UsedEmpty \/ TooLong(h)
      <4>1. ist'.stale = ist.stale /\ used' = used /\ last_seen_used' = last_seen_used
        BY <2>3, <3>1 DEF GetChain, TypeOK
      <4>2. UsedEmpty
        BY <2>3, <3>1, <4>1, ChainsEnd DEF OInv
      <4> QED BY <4>1, <4>2 DEF NInv, UsedEmpty
    <3>2. CASE ~(UsedEmpty \/ TooLong(h))
      BY <2>3, <3>2 DEF GetChain, NInv, TypeOK
    <3> QED BY <3>1, <3>2
  <2>4. CASE IstDrain
    BY <2>3, <2>4, SlotDesc DEF IstDrain, UsedHead, TypeOK, VirtqTypeOK
  <2>5. CASE IstLateIdx
    BY <2>3, <2>5 DEF IstLateIdx, IstIndicesNamed
  <2>6. CASE IstPost \/ IstFree0 \/ IstFree1
    BY <2>6 DEF IstPost, IstFree0, IstFree1, NInv, TypeOK
  <2> QED BY <1>4, <2>1, <2>2, <2>4, <2>5, <2>6 DEF Ist
<1>5. CASE Device
  <2>1. CASE DevPop \/ DevIdle
    BY <1>1, <2>1 DEF DevPop, DevIdle, DevOnly, NInv, UsedEmpty, TypeOK
  <2>2. ASSUME NEW h \in Desc, DevComplete(h) PROVE NInv'
    BY <1>1, <2>2 DEF DevComplete, NInv, TypeOK
  <2>3. CASE DevRaise
    BY <2>3 DEF DevRaise, NInv
  <2> QED BY <1>5, <2>1, <2>2, <2>3 DEF Device
<1> QED BY <1>2, <1>3, <1>4, <1>5 DEF Next

\* The interrupt thread never sleeps on a used ring with entries in it unless
\* the interrupt is pending or about to be raised: the acknowledgement comes
\* before the drain, and the drain ends on an empty ring only.
THEOREM NoLostInterruptHolds == Spec => []NoLostInterrupt
<1>1. Init => NInv
  BY DEF Init, VirtqInit, NInv, UsedEmpty
<1>2. NInv => NoLostInterrupt
  BY DEF NInv, NoLostInterrupt
<1> QED BY <1>1, <1>2, StepKeepsNInv, OInvHolds, PTL DEF Spec
=============================================================================
