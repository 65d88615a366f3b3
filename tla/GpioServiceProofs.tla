------------------------- MODULE GpioServiceProofs -------------------------
(* Whom a chain belongs to, and what a call returns, for any clients, queue *)
(* size, registers and transports: proofs that the driver gives its callers *)
(* the service of GpioService.                                              *)
EXTENDS GpioOwnershipProofs

-----------------------------------------------------------------------------
(* The inductive invariant.                                                *)

\* Chains that will end in the callback's post to a semaphore.
OnTheWay == InFlight \cup Returning

\* A caller's context is fresh until the callback has filled it; a call that
\* gives up after its first descriptor knows why.
ContextsMatch ==
  \A c \in Clients :
    /\ context[c].sem = 0 <=> context[c].reply = NoReply
    /\ pc[c] \notin {"notify", "wait"} => context[c].sem = 0
    /\ pc[c] = "free0" => ret[c].rc \in {"ENOENT", "ENOMEM"}

\* The chain is that of a caller that waits for it, with its request.
ForCaller(h) ==
  LET c == desc[h].context IN
    /\ c \in Waiting
    /\ idxs[c][0] = h /\ idxs[c][1] = desc[h].next
    /\ desc[h].buf = op[c]

CallersWait ==
  /\ \A h \in OnTheWay : ForCaller(h)
  /\ \A c \in Waiting : idxs[c][0] \in OnTheWay /\ desc[idxs[c][0]].context = c

Callers == ContextsMatch /\ CallersWait

\* Nothing is promised once a stale entry has been taken.
CInv == OInv /\ (~ist.stale => Callers)

-----------------------------------------------------------------------------
(* The chains on their way.                                                *)

LEMMA WayOwned ==
  ASSUME IInv, Ownership, NEW own \in [Desc -> Holders], Owned(own), NEW h \in OnTheWay
  PROVE  /\ h \in Desc /\ own[h] \in {"flight", "ist"}
         /\ desc[h].next \in Desc /\ own[desc[h].next] \in {"flight", "ist"}
         /\ desc[h].context \in Clients /\ desc[h].buf \in Requests
<1>1. CASE h \in InFlight
  BY <1>1, FlightOwns DEF IInv, Ownership, FlightChains, RequestChain
<1>2. CASE h \in Returning
  BY <1>2, IstOwns DEF Returning, Ownership, IstChain, RequestChain
<1> QED BY <1>1, <1>2 DEF OnTheWay

\* The two chains of two waiting callers are different.
LEMMA WaitingOwned ==
  ASSUME IInv, Ownership, CallersWait,
         NEW own \in [Desc -> Holders], Owned(own), NEW x \in Waiting
  PROVE  /\ idxs[x][0] \in OnTheWay /\ idxs[x][1] \in Desc
         /\ own[idxs[x][1]] \in {"flight", "ist"}
         /\ idxs[x][1] = desc[idxs[x][0]].next /\ desc[idxs[x][0]].context = x
BY WayOwned DEF CallersWait, ForCaller

\* The chain in the callback's hands is not in the rings as well.
LEMMA ReturningApart ==
  ASSUME IInv, Ownership, NEW h \in Returning
  PROVE  h \notin InFlight
<1>1. PICK own \in [Desc -> Holders] : Owned(own)
  BY DEF Ownership
<1> QED BY <1>1, FlightOwns, IstOwns DEF IInv, Returning

\* A step leaves both descriptors of every chain on its way alone.
ChainsLeft ==
  \A h \in OnTheWay :
    desc'[h] = desc[h] /\ desc'[desc[h].next] = desc[desc[h].next]

\* A step that leaves the heads on their way and the waiting callers alone.
LEMMA CallersKept ==
  ASSUME CallersWait, OnTheWay' = OnTheWay, Waiting' = Waiting,
         \A h \in OnTheWay : desc'[h] = desc[h],
         \A x \in Waiting : idxs'[x] = idxs[x] /\ op'[x] = op[x]
  PROVE  CallersWait'
BY DEF CallersWait, ForCaller

\* A step of a caller that is not waiting and does not begin to.
LEMMA CallerStepKeeps ==
  ASSUME IInv, IInv', Callers, NEW c \in Clients, InFlight' = InFlight, ist' = ist,
         ChainsLeft,
         pc[c] \notin {"notify", "wait"}, pc'[c] \notin {"notify", "wait"},
         context'[c] \in {context[c], FreshContext},
         pc'[c] = "free0" => ret'[c].rc \in {"ENOENT", "ENOMEM"},
         \A x \in Clients \ {c} : /\ pc'[x] = pc[x] /\ idxs'[x] = idxs[x] /\ op'[x] = op[x]
                                 /\ ret'[x] = ret[x] /\ context'[x] = context[x]
  PROVE  Callers'
<1>1. Waiting' = Waiting /\ c \notin Waiting
  BY DEF Waiting
<1>2. OnTheWay' = OnTheWay
  BY DEF OnTheWay, Returning
<1>3. CallersWait'
  BY <1>1, <1>2, CallersKept DEF Callers, Waiting, ChainsLeft
<1>4. ContextsMatch'
  BY DEF Callers, ContextsMatch, FreshContext
<1> QED BY <1>3, <1>4 DEF Callers

\* Which descriptors the steps of a caller touch: none of a chain on its way.
LEMMA TakesNoChain ==
  ASSUME IInv, Ownership, NEW c \in Clients, NEW n \in {0, 1}, NEW d \in Desc, NEW next,
         Takes(c, n, d, next) \/ TakesUnmapped(c, n, d, next)
  PROVE  ChainsLeft
<1>1. PICK own \in [Desc -> Holders] : Owned(own)
  BY DEF Ownership
<1>2. own[d] = "free"
  BY <1>1, HeadTaken
  DEF Takes, TakesUnmapped, fifo_get, Owned, OwnedFree, IInv, TypeOK, VirtqTypeOK
<1>3. \A e \in Desc \ {d} : desc'[e] = desc[e]
  BY DEF Takes, TakesUnmapped, MapDesc, IInv, TypeOK, DescTable
<1> QED BY <1>1, <1>2, <1>3, WayOwned DEF ChainsLeft

LEMMA FinishFacts ==
  ASSUME TypeOK, NEW c \in Clients, NEW rc, NEW v, Finish(c, rc, v)
  PROVE  /\ pc'[c] = "idle" /\ context'[c] = FreshContext
         /\ ret'[c] = Reply(rc, v)
         /\ \A x \in Clients \ {c} : /\ pc'[x] = pc[x] /\ idxs'[x] = idxs[x] /\ op'[x] = op[x]
                                    /\ ret'[x] = ret[x] /\ context'[x] = context[x]
BY DEF Finish, TypeOK

\* A step that changes what a caller holds, at most.
LEMMA OwnTouched ==
  ASSUME IInv, Ownership, NEW c \in Clients, pc[c] \notin {"notify", "wait"},
         \A d \in Desc : d # idxs[c][0] /\ d # idxs[c][1] => desc'[d] = desc[d]
  PROVE  ChainsLeft
<1>1. PICK own \in [Desc -> Holders] : Owned(own)
  BY DEF Ownership
<1>2. \A d \in Desc : d = idxs[c][0] \/ d = idxs[c][1] => own[d] = c
  BY <1>1 DEF Owned, OwnedByClient
<1> QED BY <1>1, <1>2, WayOwned, HoldersDiffer DEF ChainsLeft

LEMMA AllocKeepsCallers ==
  ASSUME IInv, IInv', Ownership, Callers, NEW c \in Clients,
         \/ \E q \in Requests : Begin(c, q)
         \/ Alloc0(c) \/ PutBack0(c) \/ Alloc1(c) \/ PutBack1(c) \/ Free0(c) \/ Put(c)
  PROVE  Callers' /\ ChainsLeft
<1>1. TypeOK /\ ContextsMatch /\ ClientIndicesNamed
  BY DEF IInv, Callers
<1>2. InFlight' = InFlight
  <2>1. CASE Put(c)
    BY <2>1, PutEffect
  <2>2. CASE ~Put(c)
    BY <2>2 DEF InFlight, AvailHeads, UsedHeads, Begin, Alloc0, PutBack0, Alloc1, PutBack1,
                Free0, ClientOnly, virtqVars
  <2> QED BY <2>1, <2>2
<1>3. /\ pc[c] \in {"idle", "alloc0", "putback0", "alloc1", "putback1", "free0", "put"}
      /\ ist' = ist
  BY DEF Begin, Alloc0, PutBack0, Alloc1, PutBack1, Free0, Put, ClientOnly
<1>4. ChainsLeft
  <2>1. ASSUME UNCHANGED desc PROVE ChainsLeft
    BY <2>1 DEF ChainsLeft
  <2>2. ASSUME NEW q \in Requests, Begin(c, q) PROVE ChainsLeft
    BY <2>1, <2>2 DEF Begin, virtqVars
  <2>3. CASE PutBack0(c) \/ PutBack1(c)
    BY <2>1, <2>3 DEF PutBack0, PutBack1
  <2>4. CASE Alloc0(c)
    BY <2>1, <2>4, TakesNoChain DEF Alloc0, NoneLeft, NoSemaphore
  <2>5. CASE Alloc1(c)
    BY <2>1, <2>5, TakesNoChain DEF Alloc1, NoneLeft
  <2>6. CASE Free0(c) \/ Put(c)
    <3>1. Free0(c) => \A d \in Desc : d # idxs[c][0] => desc'[d] = desc[d]
      BY <1>1 DEF Free0, virtq_free_desc, TypeOK, DescTable
    <3>2. Put(c) => \A d \in Desc \ {idxs[c][0], idxs[c][1]} : desc'[d] = desc[d]
      BY PutEffect
    <3>3. \A d \in Desc : d # idxs[c][0] /\ d # idxs[c][1] => desc'[d] = desc[d]
      BY <2>6, <3>1, <3>2
    <3> QED BY <1>3, <3>3, OwnTouched
  <2> QED BY <2>2, <2>3, <2>4, <2>5, <2>6
<1>5. /\ pc'[c] \notin {"notify", "wait"}
      /\ context'[c] \in {context[c], FreshContext}
      /\ pc'[c] = "free0" => ret'[c].rc \in {"ENOENT", "ENOMEM"}
      /\ \A x \in Clients \ {c} : /\ pc'[x] = pc[x] /\ idxs'[x] = idxs[x] /\ op'[x] = op[x]
                                 /\ ret'[x] = ret[x] /\ context'[x] = context[x]
  <2> USE <1>1 DEF GoTo, TypeOK
  <2>1. CASE \E q \in Requests : Begin(c, q)
    BY <2>1 DEF Begin
  <2>2. CASE Alloc0(c)
    BY <2>2, FinishFacts DEF Alloc0, NoSemaphore, Takes, TakesUnmapped
  <2>3. CASE Alloc1(c)
    BY <2>3 DEF Alloc1, Takes, TakesUnmapped, Reply
  <2>4. CASE PutBack0(c) \/ Free0(c)
    BY <2>4, FinishFacts DEF PutBack0, Free0
  <2>5. CASE PutBack1(c)
    BY <2>5 DEF PutBack1, Reply
  <2>6. CASE Put(c)
    BY <2>6 DEF Put
  <2> QED BY <2>1, <2>2, <2>3, <2>4, <2>5, <2>6
<1> QED BY <1>2, <1>3, <1>4, <1>5, CallerStepKeeps

\* The published chain is the caller's, who begins to wait.
LEMMA PublishKeepsCallers ==
  ASSUME IInv, IInv', Ownership, Callers, NEW c \in Clients, Publish(c)
  PROVE  Callers'
<1>1. TypeOK /\ ContextsMatch /\ CallersWait /\ ClientChain(c)
  BY DEF IInv, Callers, Ownership
<1>2. PICK h : h = idxs[c][0]
  OBVIOUS
<1>3. /\ pc[c] = "publish" /\ pc'[c] = "notify" /\ \A x \in Clients \ {c} : pc'[x] = pc[x]
      /\ UNCHANGED <<desc, idxs, op, ret, context, ist>>
  BY <1>1 DEF Publish, GoTo, ClientOnly, TypeOK
<1>4. /\ desc[h].context = c /\ desc[h].next = idxs[c][1] /\ desc[h].buf = op[c]
  BY <1>1, <1>2, <1>3 DEF ClientChain
<1>5. OnTheWay' = OnTheWay \cup {h}
  BY <1>2, <1>3, PublishEffect DEF OnTheWay, Returning
<1>6. Waiting' = Waiting \cup {c} /\ c \notin Waiting
  BY <1>1, <1>3 DEF Waiting, ContextsMatch
<1>7. CallersWait'
  BY <1>1, <1>2, <1>3, <1>4, <1>5, <1>6 DEF CallersWait, ForCaller
<1>8. ContextsMatch'
  BY <1>1, <1>3 DEF ContextsMatch
<1> QED BY <1>7, <1>8 DEF Callers

LEMMA ClientKeepsCallers ==
  ASSUME IInv, IInv', Ownership, Callers, NEW c \in Clients, "signal" \notin Faults,
         Client(c) \/ \E q \in Requests : Begin(c, q)
  PROVE  Callers'
<1>1. TypeOK /\ ContextsMatch /\ CallersWait
  BY DEF IInv, Callers
<1>2. CASE Notify(c) \/ Wait(c)
  <2>1. UNCHANGED <<desc, ist>> /\ OnTheWay' = OnTheWay
    <3>1. /\ UNCHANGED <<desc, ist, avail, used, last_seen_used>>
          /\ dev'.last = dev.last /\ dev'.held = dev.held
      BY <1>1, <1>2 DEF Notify, Wait, ClientOnly, virtqVars, TypeOK
    <3> QED BY <3>1 DEF OnTheWay, Returning, InFlight, AvailHeads, UsedHeads
  <2>2. CASE Notify(c)
    <3>1. /\ pc[c] = "notify" /\ pc'[c] = "wait" /\ \A x \in Clients \ {c} : pc'[x] = pc[x]
          /\ UNCHANGED <<idxs, op, ret, context>>
      BY <1>1, <2>2 DEF Notify, GoTo, TypeOK
    <3>2. Waiting' = Waiting
      BY <3>1 DEF Waiting
    <3> QED BY <1>1, <2>1, <3>1, <3>2 DEF Callers, ContextsMatch, CallersWait, ForCaller
  <2>3. CASE Wait(c)
    <3>1. /\ pc'[c] = "idle" /\ context'[c] = FreshContext
          /\ context[c].sem > 0
          /\ \A x \in Clients \ {c} : /\ pc'[x] = pc[x] /\ idxs'[x] = idxs[x] /\ op'[x] = op[x]
                                     /\ ret'[x] = ret[x] /\ context'[x] = context[x]
      BY <1>1, <2>3, FinishFacts DEF Wait
    <3>2. Waiting' = Waiting /\ c \notin Waiting
      BY <3>1 DEF Waiting, FreshContext
    <3>3. CallersWait'
      BY <1>1, <2>1, <3>1, <3>2 DEF CallersWait, ForCaller, Waiting
    <3>4. ContextsMatch'
      BY <1>1, <3>1 DEF ContextsMatch, FreshContext
    <3> QED BY <3>3, <3>4 DEF Callers
  <2> QED BY <1>2, <2>2, <2>3
<1>3. CASE Interrupted(c)
  BY <1>3 DEF Interrupted
<1> QED BY <1>2, <1>3, AllocKeepsCallers, PublishKeepsCallers DEF Client

-----------------------------------------------------------------------------
(* The interrupt service thread and the device.                            *)

\* Steps that change nothing of a caller and keep the chains on their way.
LEMMA OthersKeepCallers ==
  ASSUME Callers, OnTheWay' = OnTheWay, UNCHANGED <<clientVars, context>>,
         \A h \in OnTheWay : desc'[h] = desc[h]
  PROVE  Callers'
<1>1. Waiting' = Waiting
  BY DEF Waiting, clientVars
<1>2. CallersWait'
  BY <1>1, CallersKept DEF Callers, clientVars
<1> QED BY <1>2 DEF Callers, ContextsMatch, clientVars

\* virtq_get_desc_chain moves the chain from the used ring to the callback.
LEMMA GetChainKeepsCallers ==
  ASSUME IInv, IInv', Ownership, Callers, NEW h \in Desc, GetChain(h), ~ist'.stale,
         ist.pc \in {"drain", "idx"}
  PROVE  Callers'
<1>1. TypeOK
  BY DEF IInv
<1>2. Returning = {} /\ UNCHANGED <<desc, avail, used, dev, clientVars, context>>
  BY DEF Returning, GetChain, IstOnly
<1>3. CASE UsedEmpty \/ TooLong(h)
  <2>1. Returning' = {} /\ InFlight' = InFlight
    <3>1. ist'.pc = "unmask" /\ last_seen_used' = last_seen_used
      BY <1>1, <1>3 DEF GetChain, TypeOK
    <3> QED BY <1>2, <3>1 DEF Returning, InFlight, AvailHeads, UsedHeads
  <2> QED BY <1>2, <2>1, OthersKeepCallers DEF OnTheWay
<1>4. CASE ~(UsedEmpty \/ TooLong(h))
  <2>1. PICK n \in Second(h) :
          ist' = [ist EXCEPT !.pc = "post", !.id = NoDesc, !.idxs = Pair(h, n),
                             !.stale = @ \/ h # UsedHead]
    BY <1>4 DEF GetChain
  <2>2. h = UsedHead /\ Returning' = {h}
    <3>1. ist'.pc = "post" /\ ist'.idxs = Pair(h, n) /\ (ist'.stale = FALSE => h = UsedHead)
      BY <1>1, <2>1 DEF TypeOK
    <3>2. ist'.stale = FALSE
      BY DEF IInv, TypeOK
    <3> QED BY <3>1, <3>2 DEF Returning, Pair
  <2>3. last_seen_used' = Inc(last_seen_used) /\ ~UsedEmpty
    BY <1>4 DEF GetChain
  <2>4. InFlight' = InFlight \ {h} /\ h \in InFlight
    BY <1>2, <2>2, <2>3, TakenEffect
  <2>5. OnTheWay' = OnTheWay
    BY <1>2, <2>2, <2>4 DEF OnTheWay
  <2> QED BY <1>2, <2>5, OthersKeepCallers
<1> QED BY <1>3, <1>4

\* What the callback posts, and to whom: the response of the chain in its hands,
\* to the caller that waits for it.
LEMMA PostEffect ==
  ASSUME IInv, Ownership, Callers, IstPost
  PROVE  LET h == ist.idxs[0]
             x == desc[h].context
         IN  /\ Returning = {h} /\ Returning' = {} /\ InFlight' = InFlight /\ h \notin InFlight
             /\ x \in Waiting /\ idxs[x][1] = ist.idxs[1] /\ desc[ist.idxs[1]].buf \in Replies
             /\ context'[x] = [sem |-> context[x].sem + 1, reply |-> desc[ist.idxs[1]].buf]
             /\ \A y \in Clients \ {x} : context'[y] = context[y]
             /\ UNCHANGED <<virtqVars, clientVars, dev, reg>>
<1>1. /\ TypeOK /\ IstChain /\ CallersWait /\ ist.pc = "post"
  BY DEF IInv, Ownership, Callers, IstPost
<1>2. PICK h, n, x : h = ist.idxs[0] /\ n = ist.idxs[1] /\ x = desc[h].context
  OBVIOUS
<1>3. Returning = {h} /\ h \notin InFlight
  BY <1>1, <1>2, ReturningApart DEF Returning
<1>4. x \in Waiting /\ idxs[x][1] = n /\ desc[n].buf \in Replies /\ x \in Clients
  BY <1>1, <1>2, <1>3 DEF CallersWait, ForCaller, OnTheWay, IstChain, Waiting
<1>5. x # NoContext
  BY <1>4, MarksAssumption
<1>6. /\ context' = [context EXCEPT ![x] = [sem |-> @.sem + 1, reply |-> desc[n].buf]]
      /\ ist' = [ist EXCEPT !.pc = "free0"]
      /\ UNCHANGED <<virtqVars, clientVars, dev, reg>>
  BY <1>2, <1>4, <1>5 DEF IstPost, IstGoTo, IstOnly
<1>7. Returning' = {} /\ InFlight' = InFlight
  BY <1>1, <1>6 DEF Returning, InFlight, AvailHeads, UsedHeads, virtqVars, TypeOK
<1>8. /\ context'[x] = [sem |-> context[x].sem + 1, reply |-> desc[n].buf]
      /\ \A y \in Clients \ {x} : context'[y] = context[y]
  BY <1>1, <1>4, <1>6 DEF TypeOK
<1> QED BY <1>2, <1>3, <1>4, <1>6, <1>7, <1>8

LEMMA PostKeepsCallers ==
  ASSUME IInv, IInv', Ownership, Callers, IstPost
  PROVE  Callers'
<1> DEFINE h == ist.idxs[0]
           x == desc[h].context
<1>0. /\ Returning = {h} /\ Returning' = {} /\ InFlight' = InFlight /\ h \notin InFlight
      /\ x \in Waiting /\ desc[ist.idxs[1]].buf \in Replies
      /\ context'[x] = [sem |-> context[x].sem + 1, reply |-> desc[ist.idxs[1]].buf]
      /\ \A y \in Clients \ {x} : context'[y] = context[y]
      /\ UNCHANGED <<virtqVars, clientVars>>
  BY PostEffect, Zenon
<1>1. x = desc[h].context
  OBVIOUS
<1> HIDE DEF h, x
<1>2. /\ Returning = {h} /\ Returning' = {} /\ InFlight' = InFlight /\ h \notin InFlight
      /\ x \in Waiting /\ x \in Clients
      /\ context'[x].sem = context[x].sem + 1 /\ context'[x].reply \in Replies
      /\ \A y \in Clients \ {x} : context'[y] = context[y]
      /\ UNCHANGED <<virtqVars, clientVars>>
  BY <1>0 DEF Waiting
<1>3. context[x].sem \in Nat
  BY <1>2 DEF IInv, TypeOK
<1>4. OnTheWay' = OnTheWay \ {h} /\ h \in OnTheWay
  BY <1>2 DEF OnTheWay
<1>5. Waiting' = Waiting \ {x}
  <2>1. pc' = pc /\ context'[x].sem # 0
    BY <1>2, <1>3 DEF clientVars
  <2> QED BY <1>2, <2>1 DEF Waiting
<1>6. CallersWait'
  <2>1. \A g \in OnTheWay : desc[g].context = x => g = h
    BY <1>1, <1>4 DEF Callers, CallersWait, ForCaller
  <2>2. \A y \in Waiting : idxs[y][0] = h => y = x
    BY <1>1 DEF Callers, CallersWait
  <2> QED BY <1>2, <1>4, <1>5, <2>1, <2>2 DEF Callers, CallersWait, ForCaller, virtqVars, clientVars
<1>7. ContextsMatch'
  <2>1. context'[x].sem # 0 /\ context'[x].reply # NoReply /\ pc[x] \in {"notify", "wait"}
    BY <1>2, <1>3, MarksAssumption DEF Waiting
  <2> QED BY <1>2, <2>1 DEF Callers, ContextsMatch, clientVars
<1> QED BY <1>6, <1>7 DEF Callers

LEMMA FreesNoChain ==
  ASSUME IInv, Ownership, NEW n \in {0, 1},
         (n = 0 /\ ist.pc = "free0") \/ (n = 1 /\ ist.pc = "free1"),
         virtq_free_desc(ist.idxs[n])
  PROVE  ChainsLeft
<1>1. PICK own \in [Desc -> Holders] : Owned(own)
  BY DEF Ownership
<1>2. ist.idxs[n] \in Desc /\ own[ist.idxs[n]] = "ist"
  BY <1>1, IstOwns
<1>3. \A d \in Desc : d # ist.idxs[n] => desc'[d] = desc[d]
  BY <1>2 DEF virtq_free_desc, IInv, TypeOK, DescTable
<1>4. OnTheWay = InFlight
  BY DEF OnTheWay, Returning
<1> QED BY <1>1, <1>2, <1>3, <1>4, FlightOwns DEF ChainsLeft, IInv

LEMMA IstKeepsCallers ==
  ASSUME IInv, IInv', Ownership, Callers, Ist, ~ist'.stale
  PROVE  Callers'
<1>1. TypeOK /\ IstIndicesNamed
  BY DEF IInv
<1>2. CASE IstAttach \/ IstUnmask \/ IstWake \/ IstAck \/ IstEarlyLoad
  <2>1. /\ ist.pc # "post" /\ ist'.pc # "post"
        /\ UNCHANGED <<desc, avail, used, last_seen_used, dev, clientVars, context>>
    BY <1>1, <1>2 DEF IstAttach, IstUnmask, IstWake, IstAck, IstEarlyLoad, IstGoTo, IstOnly,
                      virtqVars, TypeOK
  <2>2. OnTheWay' = OnTheWay
    BY <2>1 DEF OnTheWay, Returning, InFlight, AvailHeads, UsedHeads
  <2> QED BY <2>1, <2>2, OthersKeepCallers
<1>3. CASE IstDrain
  BY <1>1, <1>3, GetChainKeepsCallers, SlotDesc DEF IstDrain, UsedHead, TypeOK, VirtqTypeOK
<1>4. CASE IstLateIdx
  BY <1>1, <1>4, GetChainKeepsCallers DEF IstLateIdx, IstIndicesNamed
<1>5. CASE IstFree0 \/ IstFree1
  <2>1. /\ ist.pc # "post" /\ ist'.pc # "post"
        /\ UNCHANGED <<avail, used, last_seen_used, dev, clientVars, context>>
    BY <1>1, <1>5 DEF IstFree0, IstFree1, IstOnly, TypeOK
  <2>2. OnTheWay' = OnTheWay
    BY <2>1 DEF OnTheWay, Returning, InFlight, AvailHeads, UsedHeads
  <2>3. ChainsLeft
    <3>1. CASE IstFree0
      BY <3>1, FreesNoChain DEF IstFree0
    <3>2. CASE IstFree1
      BY <3>2, FreesNoChain DEF IstFree1
    <3> QED BY <1>5, <3>1, <3>2
  <2> QED BY <2>1, <2>2, <2>3, OthersKeepCallers DEF ChainsLeft
<1> QED BY <1>2, <1>3, <1>4, <1>5, PostKeepsCallers DEF Ist

LEMMA DeviceKeepsCallers ==
  ASSUME IInv, IInv', Ownership, Callers, Device
  PROVE  Callers'
<1>1. UNCHANGED <<clientVars, context, ist>>
  BY DEF Device, DevPop, DevIdle, DevRaise, DevComplete, DevOnly
<1>2. CASE DevIdle \/ DevRaise
  <2>1. /\ UNCHANGED <<desc, avail, used, last_seen_used>>
        /\ dev'.last = dev.last /\ dev'.held = dev.held
    BY <1>2 DEF DevIdle, DevRaise, DevOnly, IInv, TypeOK
  <2>2. OnTheWay' = OnTheWay
    BY <1>1, <2>1 DEF OnTheWay, Returning, InFlight, AvailHeads, UsedHeads
  <2> QED BY <1>1, <2>1, <2>2, OthersKeepCallers
<1>3. CASE DevPop
  <2>1. InFlight' = InFlight /\ UNCHANGED desc
    BY <1>3, PopEffect DEF DevPop
  <2> QED BY <1>1, <2>1, OthersKeepCallers DEF OnTheWay, Returning
<1>4. ASSUME NEW h \in Desc, DevComplete(h) PROVE Callers'
  <2>1. PICK own \in [Desc -> Holders] : Owned(own)
    BY DEF Ownership
  <2>2. InFlight' = InFlight /\ \A g \in InFlight : desc'[g] = desc[g]
    BY <1>4, HeadsInTable, CompleteEffect DEF IInv
  <2>3. desc[h].next \in Desc /\ own[desc[h].next] = "flight"
    BY <1>4, <2>1, CompleteEffect, FlightOwns DEF IInv
  <2>4. \A g \in Returning : desc'[g] = desc[g]
    BY <1>4, <2>1, <2>3, IstOwns, CompleteEffect DEF Returning
  <2> QED BY <1>1, <2>2, <2>4, OthersKeepCallers DEF OnTheWay, Returning
<1> QED BY <1>2, <1>3, <1>4 DEF Device

-----------------------------------------------------------------------------
LEMMA StepKeepsCInv ==
  ASSUME "signal" \notin Faults, CInv, [Next]_vars
  PROVE  CInv'
<1>1. IInv /\ OInv /\ IInv' /\ OInv'
  BY NextPreservesIInv, StepKeepsOInv DEF CInv, OInv
<1>2. SUFFICES ASSUME ~ist'.stale PROVE Callers'
  BY <1>1 DEF CInv
<1>3. Ownership /\ Callers
  BY <1>1, <1>2, StaleForGood DEF CInv, OInv, IInv
<1>4. CASE Next
  BY <1>1, <1>2, <1>3, <1>4, ClientKeepsCallers, IstKeepsCallers, DeviceKeepsCallers DEF Next
<1>5. CASE UNCHANGED vars
  <2>1. OnTheWay' = OnTheWay /\ UNCHANGED <<clientVars, context, desc>>
    BY <1>5 DEF vars, virtqVars, OnTheWay, Returning, InFlight, AvailHeads, UsedHeads
  <2> QED BY <1>3, <2>1, OthersKeepCallers
<1> QED BY <1>4, <1>5

\* Every chain on its way belongs to a caller that waits for it, as long as no
\* call is cut short and no stale entry has been taken.
THEOREM CInvHolds ==
  ASSUME "signal" \notin Faults
  PROVE  Spec => []CInv
<1>1. Init => CInv
  <2> SUFFICES ASSUME Init PROVE CInv
    OBVIOUS
  <2>1. Waiting = {} /\ ContextsMatch
    BY DEF Init, Waiting, ContextsMatch, FreshContext
  <2>2. OnTheWay = {}
    BY WindowInRing, ZeroIn DEF Init, VirtqInit, IstIdle, OnTheWay, Returning, InFlight, AvailHeads, UsedHeads
  <2> QED
    BY <2>1, <2>2, InitEstablishesIInv, InitOwned DEF CInv, OInv, Callers, CallersWait
<1> QED BY <1>1, StepKeepsCInv, PTL DEF Spec

\* The callback never reaches a context whose caller has gone, and no caller
\* waits for a chain that is gone: neither signals nor reordered loads.
THEOREM ContextOutlivesRequestHolds ==
  ASSUME "signal" \notin Faults, "reorder" \notin Faults
  PROVE  Spec => []ContextOutlivesRequest
<1>1. CInv /\ ~ist.stale => ContextOutlivesRequest
  <2> SUFFICES ASSUME IInv, Callers PROVE ContextOutlivesRequest
    BY DEF CInv, OInv
  <2>1. ASSUME NEW c \in Clients, NEW h, NEW n, idxs[c][0] = h, idxs[c][1] = n
        PROVE  idxs[c] = Pair(h, n)
    <3>1. idxs[c] \in [0 .. 1 -> DescOrNone] /\ 0 .. 1 = {0, 1}
      BY DEF IInv, TypeOK
    <3>2. idxs[c] = [i \in 0 .. 1 |-> idxs[c][i]]
      BY <3>1
    <3>3. \A i \in 0 .. 1 : idxs[c][i] = IF i = 0 THEN h ELSE n
      BY <2>1, <3>1
    <3> QED BY <3>2, <3>3 DEF Pair
  <2>2. ASSUME NEW h \in OnTheWay
        PROVE  /\ desc[h].context \in Waiting
               /\ idxs[desc[h].context] = Pair(h, desc[h].next)
    BY <2>1 DEF Callers, CallersWait, ForCaller, Waiting
  <2> QED BY <2>2 DEF ContextOutlivesRequest, Callers, CallersWait, OnTheWay
<1> QED BY <1>1, CInvHolds, NeverStale, PTL

-----------------------------------------------------------------------------
(* Room for every call.                                                    *)

\* Where a descriptor that is not free is named: in a caller's index, or in one
\* of the two the interrupt thread is giving back.
Names == (Clients \X {0, 1}) \cup {<<"ist", 0>>, <<"ist", 1>>}
Named == [t \in Names |-> IF t[1] = "ist" THEN ist.idxs[t[2]] ELSE idxs[t[1]][t[2]]]

LEMMA AllNamed ==
  ASSUME IInv, Ownership, Callers, free_descs = <<>>, NEW d \in Desc
  PROVE  \E t \in Names : Named[t] = d
<1>1. PICK own \in [Desc -> Holders] : Owned(own)
  BY DEF Ownership
<1>2. own[d] # "free"
  BY <1>1 DEF Owned, OwnedFree, Listed
<1>3. ASSUME NEW c \in Clients, NEW n \in {0, 1}, d = idxs[c][n]
      PROVE  \E t \in Names : Named[t] = d
  <2>1. <<c, n>> \in Names /\ c # "ist"
    BY HoldersDiffer DEF Names
  <2> QED BY <1>3, <2>1 DEF Named
<1>4. CASE own[d] = "ist"
  <2>1. PICK n \in {0, 1} : d = ist.idxs[n]
    BY <1>1, <1>4 DEF Owned, OwnedIst
  <2>2. <<"ist", n>> \in Names
    BY DEF Names
  <2> QED BY <2>1, <2>2 DEF Named
<1>5. CASE own[d] \in Clients
  BY <1>1, <1>3, <1>5 DEF Owned, OwnedByClient
<1>6. CASE own[d] = "flight"
  <2>1. PICK h \in InFlight : d = h \/ d = desc[h].next
    BY <1>1, <1>6 DEF Owned, OwnedFlight
  <2>2. PICK c : c \in Clients /\ idxs[c][0] = h /\ idxs[c][1] = desc[h].next
    BY DEF OnTheWay, Callers, CallersWait, ForCaller, Waiting
  <2> QED BY <1>3, <2>1, <2>2
<1> QED BY <1>1, <1>2, <1>4, <1>5, <1>6 DEF Holders

LEMMA FreeWhileAllocating ==
  ASSUME IInv, Ownership, Callers, IsFiniteSet(Clients),
         Num >= 2 * Cardinality(Clients) + 2,
         NEW c \in Clients, pc[c] \in {"alloc0", "alloc1"}
  PROVE  free_descs # <<>>
<1> SUFFICES ASSUME free_descs = <<>> PROVE FALSE
  OBVIOUS
<1> DEFINE used1 == Names \ {<<c, 1>>}
           Image == {Named[t] : t \in used1}
<1>1. <<c, 1>> \in Names /\ Named[<<c, 1>>] = NoDesc
  <2>1. idxs[c][1] = NoDesc
    BY DEF Ownership, ClientChain, NoDescs, Pair
  <2>2. <<c, 1>> \in Names /\ c # "ist"
    BY HoldersDiffer DEF Names
  <2> QED BY <2>1, <2>2 DEF Named
<1>2. /\ IsFiniteSet(used1)
      /\ Cardinality(used1) = 2 * Cardinality(Clients) + 1
  <2>1. IsFiniteSet({0, 1}) /\ Cardinality({0, 1}) = 2
    <3>1. 0 .. 1 = {0, 1} /\ 1 - 0 + 1 = 2 /\ ~(0 > 1) /\ 0 \in Int /\ 1 \in Int
      OBVIOUS
    <3>2. /\ IsFiniteSet(0 .. 1)
          /\ Cardinality(0 .. 1) = IF 0 > 1 THEN 0 ELSE 1 - 0 + 1
      BY <3>1, FS_Interval, Zenon
    <3> QED BY <3>1, <3>2
  <2> DEFINE Pairs == Clients \X {0, 1}
             With0 == Pairs \cup {<<"ist", 0>>}
  <2>2. /\ IsFiniteSet(Pairs) /\ Cardinality(Clients) \in Nat
        /\ Cardinality(Pairs) = Cardinality(Clients) * 2
    BY <2>1, FS_Product, FS_CardinalityType
  <2>3. /\ <<"ist", 0>> \notin Pairs
        /\ <<"ist", 1>> \notin With0
        /\ Names = With0 \cup {<<"ist", 1>>}
    BY HoldersDiffer DEF Names
  <2> HIDE DEF Pairs
  <2>4. IsFiniteSet(With0) /\ Cardinality(With0) = Cardinality(Pairs) + 1
    <3>1. /\ IsFiniteSet(With0)
          /\ Cardinality(With0) = IF <<"ist", 0>> \in Pairs THEN Cardinality(Pairs)
                                   ELSE Cardinality(Pairs) + 1
      BY <2>2, FS_AddElement, Zenon
    <3> QED BY <2>3, <3>1
  <2> HIDE DEF With0
  <2>5. IsFiniteSet(Names) /\ Cardinality(Names) = Cardinality(With0) + 1
    <3>1. /\ IsFiniteSet(With0 \cup {<<"ist", 1>>})
          /\ Cardinality(With0 \cup {<<"ist", 1>>}) =
               IF <<"ist", 1>> \in With0 THEN Cardinality(With0)
               ELSE Cardinality(With0) + 1
      BY <2>4, FS_AddElement, Zenon
    <3> QED BY <2>3, <3>1
  <2>6. /\ IsFiniteSet(used1)
        /\ Cardinality(used1) = IF <<c, 1>> \in Names THEN Cardinality(Names) - 1
                                ELSE Cardinality(Names)
    BY <2>5, FS_RemoveElement, Zenon
  <2> QED BY <1>1, <2>2, <2>4, <2>5, <2>6
<1>3. Desc \subseteq Image
  BY <1>1, AllNamed, MarksAssumption
<1>4. /\ IsFiniteSet(Image) /\ Cardinality(Image) <= Cardinality(used1)
  <2> DEFINE f == [t \in used1 |-> Named[t]]
  <2>1. f \in Surjection(used1, Image)
    BY DEF Surjection
  <2> QED BY <1>2, <2>1, FS_Surjection
<1>5. Num <= Cardinality(Image)
  BY <1>3, <1>4, DescIsFinite, FS_Subset
<1>6. Cardinality(Image) \in Nat /\ Cardinality(Clients) \in Nat
  BY <1>4, FS_CardinalityType
<1> HIDE DEF used1, Image
<1> QED BY <1>2, <1>4, <1>5, <1>6, NumAssumption

\* Two descriptors more than the callers can use are enough, although a caller
\* is woken before its descriptors are freed.
THEOREM NoSpuriousExhaustionHolds ==
  ASSUME "signal" \notin Faults, "reorder" \notin Faults, IsFiniteSet(Clients)
  PROVE  Spec => []NoSpuriousExhaustion
<1>1. CInv /\ ~ist.stale => NoSpuriousExhaustion
  BY FreeWhileAllocating DEF CInv, OInv, NoSpuriousExhaustion
<1> QED BY <1>1, CInvHolds, NeverStale, PTL
-----------------------------------------------------------------------------
(* The service of gpio.h.                                                  *)

\* What a call has come to, by where its caller is, its request, what it last
\* returned, the reply in its context and what its response buffer holds.
CallOf(p, q, r, x, b) ==
  IF p = "idle" THEN [state |-> "idle", rc |-> r.rc, value |-> r.value]
  ELSE IF p \notin {"notify", "wait"} THEN [state |-> "pending", request |-> q]
  ELSE IF x # NoReply THEN [state |-> "done", rc |-> x.rc, value |-> x.value]
  ELSE IF b \in Replies THEN [state |-> "done", rc |-> b.rc, value |-> b.value]
  ELSE [state |-> "pending", request |-> q]

LEMMA CallIs ==
  ASSUME NEW c \in Clients
  PROVE  /\ ServiceCall(c) = CallOf(pc[c], op[c], ret[c], context[c].reply,
                                    desc[idxs[c][1]].buf)
         /\ ServiceCall(c)' = CallOf(pc'[c], op'[c], ret'[c], context'[c].reply,
                                     desc'[idxs'[c][1]].buf)
<1>1. \A a : {a} # {} /\ (CHOOSE x \in {a} : TRUE) = a
  OBVIOUS
<1>2. \A b : {b} \cap Replies = IF b \in Replies THEN {b} ELSE {}
  OBVIOUS
<1>3. Answered(c) = IF pc[c] \notin {"notify", "wait"} THEN {}
                    ELSE IF context[c].reply # NoReply THEN {context[c].reply}
                    ELSE {desc[idxs[c][1]].buf} \cap Replies
  BY DEF Answered
<1>4. Answered(c)' = IF pc'[c] \notin {"notify", "wait"} THEN {}
                     ELSE IF context'[c].reply # NoReply THEN {context'[c].reply}
                     ELSE {desc'[idxs'[c][1]].buf} \cap Replies
  BY DEF Answered
<1>5. ServiceCall(c) = CallOf(pc[c], op[c], ret[c], context[c].reply, desc[idxs[c][1]].buf)
  BY <1>1, <1>2, <1>3 DEF ServiceCall, CallOf
<1>6. ServiceCall(c)' = CallOf(pc'[c], op'[c], ret'[c], context'[c].reply,
                               desc'[idxs'[c][1]].buf)
  BY <1>1, <1>2, <1>4 DEF ServiceCall, CallOf
<1> QED BY <1>5, <1>6

calls == [c \in Clients |-> ServiceCall(c)]

LEMMA Stutters ==
  ASSUME reg' = reg, \A x \in Clients : ServiceCall(x)' = ServiceCall(x)
  PROVE  UNCHANGED <<reg, calls>>
BY DEF calls

LEMMA OneCall ==
  ASSUME NEW c \in Clients, NEW v, ServiceCall(c)' = v,
         \A x \in Clients \ {c} : ServiceCall(x)' = ServiceCall(x)
  PROVE  calls' = [calls EXCEPT ![c] = v] /\ calls[c] = ServiceCall(c)
BY DEF calls

\* The response of a chain on its way is in its caller's second descriptor.
LEMMA SameCall ==
  ASSUME Callers, ChainsLeft, NEW x \in Clients,
         pc'[x] = pc[x], op'[x] = op[x], ret'[x] = ret[x], context'[x] = context[x],
         idxs'[x] = idxs[x]
  PROVE  ServiceCall(x)' = ServiceCall(x)
<1>1. CASE x \in Waiting
  <2>1. idxs[x][0] \in OnTheWay /\ idxs[x][1] = desc[idxs[x][0]].next
    BY <1>1 DEF Callers, CallersWait, ForCaller
  <2>2. desc'[idxs[x][1]] = desc[idxs[x][1]]
    BY <2>1 DEF ChainsLeft
  <2> QED BY <2>2, CallIs
<1>2. CASE pc[x] \in {"notify", "wait"} /\ context[x].reply # NoReply
  BY <1>2, CallIs DEF CallOf
<1>3. CASE pc[x] \notin {"notify", "wait"}
  BY <1>3, CallIs DEF CallOf
<1> QED BY <1>1, <1>2, <1>3 DEF Waiting, Callers, ContextsMatch

LEMMA ServiceSteps ==
  ASSUME NEW c \in Clients
  PROVE  /\ \A q \in Requests :
              calls[c].state = "idle" /\ reg' = reg
              /\ calls' = [calls EXCEPT ![c] = [state |-> "pending", request |-> q]]
              => Service!ServiceNext
         /\ \A e \in {"ENOENT", "ENOMEM", "-1"} :
              calls[c].state = "pending" /\ reg' = reg
              /\ calls' = [calls EXCEPT ![c] = [state |-> "idle", rc |-> e, value |-> 0]]
              => Service!ServiceNext
         /\ calls[c].state = "done" /\ reg' = reg
            /\ calls' = [calls EXCEPT ![c] = [state |-> "idle", rc |-> calls[c].rc,
                                              value |-> calls[c].value]]
            => Service!ServiceNext
         /\ \A a \in Replies :
              calls[c].state = "pending" /\ Execute(calls[c].request, a)
              /\ calls[c].request \in Requests
              /\ calls' = [calls EXCEPT ![c] = [state |-> "done", rc |-> a.rc,
                                                value |-> a.value]]
              => Service!ServiceNext
<1>1. ASSUME NEW q \in Requests, calls[c].state = "idle", reg' = reg,
             calls' = [calls EXCEPT ![c] = [state |-> "pending", request |-> q]]
      PROVE  Service!ServiceNext
  <2>1. Service!Invoke(c, q)
    BY <1>1 DEF calls, Service!Invoke, Service!Pending
  <2> QED BY <2>1 DEF Service!ServiceNext, Service!Requests, Requests
<1>2. ASSUME NEW e \in {"ENOENT", "ENOMEM", "-1"}, calls[c].state = "pending", reg' = reg,
             calls' = [calls EXCEPT ![c] = [state |-> "idle", rc |-> e, value |-> 0]]
      PROVE  Service!ServiceNext
  BY <1>2 DEF calls, Service!ServiceNext, Service!Fail, Service!Idle
<1>3. ASSUME calls[c].state = "done", reg' = reg,
             calls' = [calls EXCEPT ![c] = [state |-> "idle", rc |-> calls[c].rc,
                                            value |-> calls[c].value]]
      PROVE  Service!ServiceNext
  BY <1>3 DEF calls, Service!ServiceNext, Service!Return, Service!Idle
<1>4. ASSUME NEW a \in Replies, calls[c].state = "pending", Execute(calls[c].request, a),
             calls[c].request \in Requests,
             calls' = [calls EXCEPT ![c] = [state |-> "done", rc |-> a.rc, value |-> a.value]]
      PROVE  Service!ServiceNext
  <2>1. CASE a = Reply("EIO", 0) /\ reg' = reg
    BY <1>4, <2>1 DEF calls, Service!ServiceNext, Service!Refuse, Service!Done, Reply
  <2>2. CASE calls[c].request.type = "READ" /\ reg' = reg
             /\ a = Reply("EOK", reg[calls[c].request.reg])
    BY <1>4, <2>2 DEF calls, Service!ServiceNext, Service!Perform, Service!Done, Reply
  <2>3. CASE calls[c].request.type = "WRITE" /\ a = Reply("EOK", 0)
             /\ reg' = [reg EXCEPT ![calls[c].request.reg] = calls[c].request.value]
    BY <1>4, <2>3 DEF calls, Service!ServiceNext, Service!Perform, Service!Done, Reply
  <2> QED BY <1>4, <2>1, <2>2, <2>3 DEF Execute
<1> QED BY <1>1, <1>2, <1>3, <1>4
\* Each caller's step is one of the service, or none.
LEMMA AllocServed ==
  ASSUME IInv, IInv', Ownership, Callers, NEW c \in Clients,
         \/ \E q \in Requests : Begin(c, q)
         \/ Alloc0(c) \/ PutBack0(c) \/ Alloc1(c) \/ PutBack1(c) \/ Free0(c) \/ Put(c)
  PROVE  Service!ServiceNext \/ UNCHANGED <<reg, calls>>
<1>1. TypeOK /\ ContextsMatch
  BY DEF IInv, Callers
<1>2. reg' = reg
  BY DEF Begin, Alloc0, PutBack0, Alloc1, PutBack1, Free0, Put, ClientOnly
<1>3. /\ ChainsLeft
      /\ \A x \in Clients \ {c} : /\ pc'[x] = pc[x] /\ idxs'[x] = idxs[x] /\ op'[x] = op[x]
                                 /\ ret'[x] = ret[x] /\ context'[x] = context[x]
  <2> USE <1>1 DEF GoTo, TypeOK
  <2>1. CASE \E q \in Requests : Begin(c, q)
    BY <2>1, AllocKeepsCallers DEF Begin
  <2>2. CASE Alloc0(c)
    BY <2>2, AllocKeepsCallers, FinishFacts DEF Alloc0, NoSemaphore, Takes, TakesUnmapped
  <2>3. CASE Alloc1(c)
    BY <2>3, AllocKeepsCallers DEF Alloc1, Takes, TakesUnmapped
  <2>4. CASE PutBack0(c) \/ Free0(c)
    BY <2>4, AllocKeepsCallers, FinishFacts DEF PutBack0, Free0
  <2>5. CASE PutBack1(c)
    BY <2>5, AllocKeepsCallers DEF PutBack1
  <2>6. CASE Put(c)
    BY <2>6, AllocKeepsCallers DEF Put
  <2> QED BY <2>1, <2>2, <2>3, <2>4, <2>5, <2>6
<1>4. \A x \in Clients \ {c} : ServiceCall(x)' = ServiceCall(x)
  BY <1>3, SameCall
<1>5. ASSUME NEW q \in Requests, Begin(c, q) PROVE Service!ServiceNext
  <2>1. pc[c] = "idle" /\ pc'[c] = "alloc0" /\ op'[c] = q
    BY <1>1, <1>5 DEF Begin, GoTo, TypeOK
  <2>2. /\ ServiceCall(c).state = "idle"
        /\ ServiceCall(c)' = [state |-> "pending", request |-> q]
    BY <2>1, CallIs DEF CallOf
  <2>3. /\ calls[c].state = "idle"
        /\ calls' = [calls EXCEPT ![c] = [state |-> "pending", request |-> q]]
    BY <1>4, <2>2, OneCall
  <2> QED BY <1>2, <2>3, ServiceSteps
<1>6. ASSUME NEW e \in {"ENOENT", "ENOMEM", "-1"}, Finish(c, e, 0),
             pc[c] \in {"alloc0", "putback0", "free0"}
      PROVE  Service!ServiceNext
  <2>1. pc'[c] = "idle" /\ ret'[c].rc = e /\ ret'[c].value = 0
    <3>1. pc'[c] = "idle" /\ ret'[c] = Reply(e, 0)
      BY <1>1, <1>6, FinishFacts
    <3> QED BY <3>1 DEF Reply
  <2>2. /\ ServiceCall(c).state = "pending"
        /\ ServiceCall(c)' = [state |-> "idle", rc |-> e, value |-> 0]
    BY <1>6, <2>1, CallIs DEF CallOf
  <2>3. /\ calls[c].state = "pending"
        /\ calls' = [calls EXCEPT ![c] = [state |-> "idle", rc |-> e, value |-> 0]]
    BY <1>4, <2>2, OneCall
  <2> QED BY <1>2, <2>3, ServiceSteps
<1>7. ASSUME op'[c] = op[c], pc[c] \notin {"idle", "notify", "wait"},
             pc'[c] \notin {"idle", "notify", "wait"}
      PROVE  UNCHANGED <<reg, calls>>
  <2>1. ServiceCall(c)' = ServiceCall(c)
    BY <1>7, CallIs DEF CallOf
  <2> QED BY <1>2, <1>4, <2>1, Stutters
<1>8. CASE PutBack0(c) \/ Free0(c)
  BY <1>1, <1>6, <1>8 DEF PutBack0, Free0, ContextsMatch
<1>9. CASE Alloc0(c)
  <2>1. CASE Finish(c, "ENOENT", 0) \/ NoSemaphore(c)
    BY <1>6, <1>9, <2>1 DEF Alloc0, NoSemaphore
  <2>2. CASE \E d \in Desc : Takes(c, 0, d, "alloc1") \/ TakesUnmapped(c, 0, d, "putback0")
    BY <1>1, <1>7, <1>9, <2>2 DEF Alloc0, Takes, TakesUnmapped, GoTo, TypeOK
  <2> QED BY <1>9, <2>1, <2>2 DEF Alloc0
<1>10. CASE Alloc1(c) \/ PutBack1(c) \/ Put(c)
  BY <1>1, <1>7, <1>10 DEF Alloc1, Takes, TakesUnmapped, PutBack1, Put, GoTo, TypeOK
<1> QED BY <1>5, <1>8, <1>9, <1>10

\* Publishing and notifying answer nothing; waking up returns the answer.
LEMMA WaitServed ==
  ASSUME IInv, Ownership, Callers, NEW c \in Clients, Publish(c) \/ Notify(c) \/ Wait(c)
  PROVE  Service!ServiceNext \/ UNCHANGED <<reg, calls>>
<1>1. TypeOK /\ ContextsMatch /\ ClientChain(c)
  BY DEF IInv, Callers, Ownership
<1>2. reg' = reg /\ desc' = desc
  BY DEF Publish, Notify, Wait, ClientOnly, virtqVars
<1>3. \A x \in Clients \ {c} : /\ pc'[x] = pc[x] /\ idxs'[x] = idxs[x] /\ op'[x] = op[x]
                              /\ ret'[x] = ret[x] /\ context'[x] = context[x]
  BY <1>1, FinishFacts DEF Publish, Notify, Wait, GoTo, TypeOK
<1>4. \A x \in Clients \ {c} : ServiceCall(x)' = ServiceCall(x)
  BY <1>2, <1>3, SameCall DEF ChainsLeft
<1>5. CASE Publish(c)
  <2>1. /\ pc[c] = "publish" /\ pc'[c] = "notify"
        /\ UNCHANGED <<op, ret, context, idxs>>
    BY <1>1, <1>5 DEF Publish, GoTo, TypeOK
  <2>2. context[c].reply = NoReply /\ desc[idxs[c][1]].buf \notin Replies
    BY <1>1, <2>1, BuffersDiffer DEF ContextsMatch, ClientChain
  <2>3. ServiceCall(c)' = ServiceCall(c)
    BY <1>2, <2>1, <2>2, CallIs DEF CallOf
  <2> QED BY <1>2, <1>4, <2>3, Stutters
<1>6. CASE Notify(c)
  <2>1. /\ pc[c] = "notify" /\ pc'[c] = "wait"
        /\ UNCHANGED <<op, ret, context, idxs>>
    BY <1>1, <1>6 DEF Notify, GoTo, TypeOK
  <2>2. ServiceCall(c)' = ServiceCall(c)
    BY <1>2, <2>1, CallIs DEF CallOf
  <2> QED BY <1>2, <1>4, <2>2, Stutters
<1>7. CASE Wait(c)
  <2>1. pc[c] = "wait" /\ context[c].reply # NoReply /\ context[c].reply \in Replies
    BY <1>1, <1>7 DEF Wait, ContextsMatch, TypeOK
  <2>2. PICK a : a = context[c].reply
    OBVIOUS
  <2>3. pc'[c] = "idle" /\ ret'[c] = Reply(a.rc, a.value)
    BY <1>1, <1>7, <2>1, <2>2, FinishFacts DEF Wait, Answers
  <2>4. /\ ServiceCall(c) = [state |-> "done", rc |-> a.rc, value |-> a.value]
        /\ ServiceCall(c)' = [state |-> "idle", rc |-> a.rc, value |-> a.value]
    BY <2>1, <2>2, <2>3, CallIs DEF CallOf, Reply
  <2>5. /\ calls[c] = [state |-> "done", rc |-> a.rc, value |-> a.value]
        /\ calls' = [calls EXCEPT ![c] = [state |-> "idle", rc |-> a.rc, value |-> a.value]]
    BY <1>4, <2>4, OneCall
  <2>6. calls[c].state = "done" /\ calls[c].rc = a.rc /\ calls[c].value = a.value
    BY <2>5
  <2>7. calls' = [calls EXCEPT ![c] = [state |-> "idle", rc |-> calls[c].rc,
                                       value |-> calls[c].value]]
    BY <2>5, <2>6
  <2> QED BY <1>2, <2>6, <2>7, ServiceSteps
<1> QED BY <1>5, <1>6, <1>7
\* The interrupt thread's steps are none of the service: the callback hands on
\* an answer that the device has already given.
LEMMA IstServed ==
  ASSUME IInv, Ownership, Callers, Ist
  PROVE  UNCHANGED <<reg, calls>>
<1>1. reg' = reg /\ UNCHANGED clientVars
  BY DEF Ist, IstAttach, IstUnmask, IstWake, IstAck, IstDrain, IstEarlyLoad, IstLateIdx,
         IstPost, IstFree0, IstFree1, GetChain, IstOnly
<1>2. ASSUME context' = context, ChainsLeft PROVE UNCHANGED <<reg, calls>>
  <2>1. \A x \in Clients : ServiceCall(x)' = ServiceCall(x)
    BY <1>1, <1>2, SameCall DEF clientVars
  <2> QED BY <1>1, <2>1, Stutters
<1>3. CASE IstAttach \/ IstUnmask \/ IstWake \/ IstAck \/ IstDrain \/ IstEarlyLoad \/ IstLateIdx
  <2>1. context' = context /\ desc' = desc
    BY <1>3 DEF IstAttach, IstUnmask, IstWake, IstAck, IstDrain, IstEarlyLoad, IstLateIdx,
                GetChain, virtqVars
  <2> QED BY <1>2, <2>1 DEF ChainsLeft
<1>4. CASE IstFree0
  BY <1>2, <1>4, FreesNoChain DEF IstFree0
<1>5. CASE IstFree1
  BY <1>2, <1>5, FreesNoChain DEF IstFree1
<1>6. CASE IstPost
  <2>1. PICK h, n, x : h = ist.idxs[0] /\ n = ist.idxs[1] /\ x = desc[h].context
    OBVIOUS
  <2>2. /\ x \in Waiting /\ idxs[x][1] = n /\ desc[n].buf \in Replies
        /\ context'[x] = [sem |-> context[x].sem + 1, reply |-> desc[n].buf]
        /\ \A y \in Clients \ {x} : context'[y] = context[y]
        /\ desc' = desc
    BY <1>6, <2>1, PostEffect DEF virtqVars
  <2>3. /\ pc[x] \in {"notify", "wait"} /\ context[x].reply = NoReply /\ x \in Clients
        /\ context'[x].reply = desc[n].buf /\ desc[n].buf # NoReply
    BY <2>2, MarksAssumption DEF Waiting, Callers, ContextsMatch
  <2>4. ServiceCall(x)' = ServiceCall(x)
    BY <1>1, <2>2, <2>3, CallIs DEF CallOf, clientVars
  <2>5. \A y \in Clients \ {x} : ServiceCall(y)' = ServiceCall(y)
    BY <1>1, <2>2, SameCall DEF ChainsLeft, clientVars
  <2> QED BY <1>1, <2>4, <2>5, Stutters
<1> QED BY <1>3, <1>4, <1>5, <1>6 DEF Ist

\* The device carries a request out, or refuses it, when it completes the chain.
LEMMA DeviceServed ==
  ASSUME IInv, Ownership, Callers, Device
  PROVE  Service!ServiceNext \/ UNCHANGED <<reg, calls>>
<1>1. UNCHANGED <<clientVars, context>>
  BY DEF Device, DevPop, DevIdle, DevRaise, DevComplete, DevOnly
<1>2. CASE DevPop \/ DevIdle \/ DevRaise
  <2>1. reg' = reg /\ desc' = desc
    BY <1>2 DEF DevPop, DevIdle, DevRaise
  <2>2. \A x \in Clients : ServiceCall(x)' = ServiceCall(x)
    BY <1>1, <2>1, SameCall DEF ChainsLeft, clientVars
  <2> QED BY <2>1, <2>2, Stutters
<1>3. ASSUME NEW h \in Desc, DevComplete(h) PROVE Service!ServiceNext
  <2>1. PICK n, c : n = desc[h].next /\ c = desc[h].context
    OBVIOUS
  <2>2. /\ h \in dev.held /\ h \in InFlight
        /\ \A g \in InFlight : desc[g].next = n => g = h
        /\ desc'[n].buf \in Replies /\ Execute(desc[h].buf, desc'[n].buf)
        /\ \A d \in Desc \ {n} : desc'[d] = desc[d]
    BY <1>3, <2>1, CompleteEffect
  <2>3. /\ c \in Clients /\ pc[c] \in {"notify", "wait"} /\ context[c].reply = NoReply
        /\ idxs[c][1] = n /\ op[c] = desc[h].buf /\ desc[h].buf \in Requests
    <3>1. ForCaller(h) /\ RequestChain(h)
      BY <2>2 DEF Callers, CallersWait, OnTheWay, Ownership, FlightChains
    <3> QED BY <2>1, <3>1 DEF ForCaller, RequestChain, Waiting, Callers, ContextsMatch
  <2>4. desc[n].buf = Zeroed /\ desc[n].buf \notin Replies
    BY <2>1, <2>2, BuffersDiffer DEF Ownership, FlightChains
  <2>5. PICK a : a = desc'[n].buf
    OBVIOUS
  <2>6. /\ ServiceCall(c) = [state |-> "pending", request |-> op[c]]
        /\ ServiceCall(c)' = [state |-> "done", rc |-> a.rc, value |-> a.value]
    BY <1>1, <2>2, <2>3, <2>4, <2>5, CallIs DEF CallOf, clientVars
  <2>7. ASSUME NEW x \in Clients \ {c} PROVE ServiceCall(x)' = ServiceCall(x)
    <3>1. CASE x \in Waiting
      <4>1. PICK own \in [Desc -> Holders] : Owned(own)
        BY DEF Ownership
      <4>2. PICK g \in OnTheWay : idxs[x][1] = desc[g].next /\ desc[g].context = x
        BY <3>1 DEF Callers, CallersWait, ForCaller
      <4>3. desc[g].next \in Desc /\ desc[g].next # n
        <5>1. CASE g \in InFlight
          BY <2>1, <2>2, <4>1, <4>2, <5>1, WayOwned
        <5>2. CASE g \in Returning
          <6>1. own[desc[g].next] = "ist" /\ own[n] = "flight" /\ desc[g].next \in Desc
            BY <2>1, <2>2, <4>1, <5>2, IstOwns, FlightOwns
            DEF Returning, Ownership, IstChain, IInv
          <6> QED BY <6>1
        <5> QED BY <5>1, <5>2 DEF OnTheWay
      <4>4. desc'[idxs[x][1]] = desc[idxs[x][1]]
        BY <2>2, <4>2, <4>3
      <4> QED BY <1>1, <4>4, CallIs DEF clientVars
    <3>2. CASE pc[x] \in {"notify", "wait"} /\ context[x].reply # NoReply
      BY <1>1, <3>2, CallIs DEF CallOf, clientVars
    <3>3. CASE pc[x] \notin {"notify", "wait"}
      BY <1>1, <3>3, CallIs DEF CallOf, clientVars
    <3> QED BY <3>1, <3>2, <3>3 DEF Waiting, Callers, ContextsMatch
  <2>8. /\ calls[c] = [state |-> "pending", request |-> op[c]]
        /\ calls' = [calls EXCEPT ![c] = [state |-> "done", rc |-> a.rc, value |-> a.value]]
    BY <2>3, <2>6, <2>7, OneCall
  <2>9. calls[c].state = "pending" /\ calls[c].request = desc[h].buf
    BY <2>3, <2>8
  <2> QED BY <2>2, <2>3, <2>5, <2>8, <2>9, ServiceSteps
<1> QED BY <1>2, <1>3 DEF Device

\* Every call takes effect on the device once, between its start and its return,
\* and returns the device's own answer to it; one that fails in the driver has no
\* effect: neither signals nor reordered loads.
THEOREM ServiceImplemented ==
  ASSUME "signal" \notin Faults, "reorder" \notin Faults
  PROVE  Spec => ImplementsGpioService
<1>1. Init => Service!ServiceInit
  <2> SUFFICES ASSUME Init PROVE Service!ServiceInit
    OBVIOUS
  <2>1. \A c \in Clients : ServiceCall(c) = [state |-> "idle", rc |-> "EOK", value |-> 0]
    BY CallIs DEF Init, CallOf, Reply
  <2> QED BY <2>1 DEF Init, Service!ServiceInit, Service!Idle
<1>2. CInv /\ CInv' /\ ~ist.stale /\ [Next]_vars
        => [Service!ServiceNext]_(Service!serviceVars)
  <2> SUFFICES ASSUME CInv, CInv', ~ist.stale, [Next]_vars
               PROVE  Service!ServiceNext \/ UNCHANGED <<reg, calls>>
    BY DEF calls, Service!serviceVars
  <2>1. IInv /\ IInv' /\ Ownership /\ Callers
    BY DEF CInv, OInv
  <2>2. ASSUME NEW c \in Clients, Client(c) \/ \E q \in Requests : Begin(c, q)
        PROVE  Service!ServiceNext \/ UNCHANGED <<reg, calls>>
    BY <2>1, <2>2, AllocServed, WaitServed DEF Client, Interrupted
  <2>3. CASE UNCHANGED vars
    <3>1. \A x \in Clients : ServiceCall(x)' = ServiceCall(x)
      BY <2>1, <2>3, SameCall DEF vars, virtqVars, clientVars, ChainsLeft
    <3> QED BY <2>3, <3>1, Stutters DEF vars
  <2> QED BY <2>1, <2>2, <2>3, IstServed, DeviceServed DEF Next
<1> QED
  BY <1>1, <1>2, CInvHolds, NeverStale, PTL DEF Spec, ImplementsGpioService, Service!ServiceSpec
=============================================================================
