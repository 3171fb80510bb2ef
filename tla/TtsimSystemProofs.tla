------------------------- MODULE TtsimSystemProofs --------------------------
(***************************************************************************)
(* Proofs about TtsimSystem for all values of its constants, and so for    *)
(* links, rings, clocks, chunks and numbers of requests of any size.       *)
(***************************************************************************)
EXTENDS TtsimSystem, SequenceTheorems, TLAPS

SendPcs == {"dmaSend", "replySend"}

\* A slot is held exactly while the thread is between AllocPcieOut and
\* SendPcieOut, and it is the last one in the ring.
SlotInv ==
  /\ HeldSlotIsLast
  /\ pc \in SendPcs => d2h # <<>> /\ d2h[Len(d2h)].type = "held"

\* A libttsim call is on the stack exactly while libttsim or a callback of
\* its runs; when the process has exited it may be.
CallInv ==
  /\ pc \in LoopPcs \cup ReplyPcs => call = "none"
  /\ pc \in DmaPcs \cup {"lib"} => call # "none"

ProtocolInv == TypeOK /\ SlotInv /\ CallInv

----------------------------------------------------------------------------
(* Lemmas about the link                                                   *)

\* The messages the senders build are messages.
LEMMA PlainType ==
  ASSUME NEW Types, NEW type \in Types, NEW now \in Nat
  PROVE  Plain(type, now) \in Messages(Types)
BY LinkAssumption DEF Plain, Messages, LinkAssumption

\* A message about a request is a message of its ring.
LEMMA TaggedType ==
  ASSUME NEW Types, NEW type \in Types, NEW now \in Nat, NEW id \in Nat, NEW at,
         at.bar \in Nat, at.offset \in Nat, at.len \in Nat
  PROVE  Tagged(type, now, id, at) \in Messages(Types)
BY LinkAssumption DEF Tagged, Messages, LinkAssumption

\* The oldest message of a ring, and what its fields are.
LEMMA HeadType ==
  ASSUME NEW Types, NEW ring \in Seq(Messages(Types)), ring # <<>>
  PROVE  /\ Head(ring) \in Messages(Types)
         /\ Head(ring) = ring[1]
         /\ Tail(ring) \in Seq(Messages(Types))
         /\ Len(Tail(ring)) = Len(ring) - 1
         /\ \A i \in 1 .. Len(Tail(ring)) : Tail(ring)[i] = ring[i + 1]
BY HeadTailProperties

\* What AllocOut waits to place is a sequence of one message.
LEMMA SingletonType ==
  ASSUME NEW S, NEW x \in S
  PROVE  <<x>> \in Seq(S) /\ Len(<<x>>) = 1
OBVIOUS

\* In_timestamp is a time after a poll that found nothing.
LEMMA PeekedType ==
  ASSUME NEW Types, NEW ring \in Seq(Messages(Types)), NEW last \in Nat
  PROVE  PeekedTs(ring, last) \in Nat
BY HeadType DEF PeekedTs, Visible, Messages

\* The earlier of two times is one of them and not after either; likewise
\* the later.
LEMMA EarlierType ==
  ASSUME NEW a \in Nat, NEW b \in Nat
  PROVE  /\ Earlier(a, b) \in Nat /\ Earlier(a, b) <= a /\ Earlier(a, b) <= b
         /\ Later(a, b) \in Nat /\ a <= Later(a, b) /\ b <= Later(a, b)
         /\ Later(a, b) \in {a, b} /\ Earlier(a, b) \in {a, b}
BY DEF Earlier, Later

\* A number of clock steps times their length is a time.
LEMMA ProductType ==
  ASSUME NEW a \in Nat, NEW b \in Nat
  PROVE  a * b \in Nat
OBVIOUS

\* Fewer clock steps take no longer.
LEMMA ProductMonotonic ==
  ASSUME NEW a \in Nat, NEW b \in Nat, NEW c \in Nat, a <= b
  PROVE  a * c <= b * c
<1>1. PICK d \in Nat : b = a + d
  OBVIOUS
<1>2. b * c = a * c + d * c
  BY <1>1
<1>3. a * c \in Nat /\ d * c \in Nat
  BY ProductType
<1>. QED  BY <1>2, <1>3

\* The clock steps that RunClocks fits into a window do fit.
LEMMA QuotientFits ==
  ASSUME NEW a \in Nat, NEW b \in Nat, b > 0
  PROVE  a \div b \in Nat /\ (a \div b) * b <= a
OBVIOUS

\* A time that saturates at the bound is a time.
LEMMA BoundedType ==
  ASSUME NEW t \in Nat
  PROVE  Bounded(t) \in Nat
BY EarlierType, TtsimAssumption DEF Bounded, TtsimAssumption

\* No chunk of a DMA reaches beyond the end of the transfer.
LEMMA ChunkType ==
  ASSUME dma \in Dmas, dma.off <= dma.size
  PROVE  Chunk \in Nat /\ dma.off + Chunk <= dma.size
<1>1. dma.off \in Nat /\ dma.size \in Nat /\ dma.size - dma.off \in Nat
  BY DEF Dmas
<1>2. MaxDmaChunk \in Nat
  BY TtsimAssumption DEF TtsimAssumption
<1>3. Chunk \in Nat /\ Chunk <= dma.size - dma.off
  BY <1>1, <1>2, EarlierType DEF Chunk
<1>. QED  BY <1>1, <1>3

\* Filling the slot at the end of the ring changes nothing else.
LEMMA FillLast ==
  ASSUME NEW Types, NEW ring \in Seq(Messages(Types)), ring # <<>>,
         NEW type \in Types, NEW id \in Nat, NEW at,
         at.bar \in Nat, at.offset \in Nat, at.len \in Nat,
         NEW filled,
         filled = [ring EXCEPT ![Len(ring)] =
                     [type |-> type, ts |-> @.ts, id |-> id,
                      bar |-> at.bar, offset |-> at.offset, len |-> at.len]]
  PROVE  /\ filled \in Seq(Messages(Types))
         /\ Len(filled) = Len(ring)
         /\ \A i \in 1 .. Len(ring) : i # Len(ring) => filled[i] = ring[i]
         /\ filled[Len(ring)].type = type
         /\ \A i \in 1 .. Len(ring) : filled[i].ts = ring[i].ts
<1>. DEFINE last == ring[Len(ring)]
            msg == [type |-> type, ts |-> last.ts, id |-> id,
                    bar |-> at.bar, offset |-> at.offset, len |-> at.len]
<1>1. Len(ring) \in 1 .. Len(ring) /\ last \in Messages(Types)
  BY EmptySeq, LenProperties, ElementOfSeq
<1>2. msg \in Messages(Types)
  BY <1>1 DEF Messages
<1>3. filled = [ring EXCEPT ![Len(ring)] = msg]
  OBVIOUS
<1>4. /\ filled \in Seq(Messages(Types))
      /\ Len(filled) = Len(ring)
      /\ \A i \in 1 .. Len(ring) :
           filled[i] = IF i = Len(ring) THEN msg ELSE ring[i]
  <2>. HIDE DEF msg
  <2>. QED  BY <1>1, <1>2, <1>3, ExceptSeq
<1>. QED  BY <1>1, <1>4

\* The end of a clock call: it lies ahead, and a synchronized one does not
\* lie beyond the deadline it was computed from.
LEMMA RunClocksTarget ==
  ASSUME TypeOK, RunClocks
  PROVE  /\ target' \in Nat
         /\ mainTime <= target'
         /\ IsSync => target' <= NextSimbricksDeadline
<1>. DEFINE n == Earlier(Budget, MaxClocksPerCall)
            window == NextSimbricksDeadline - mainTime
<1>1. /\ PsPerClock \in Nat /\ PsPerClock > 0
      /\ MaxBatch \in Nat /\ MaxClocksPerCall \in Nat
  BY TtsimAssumption DEF TtsimAssumption
<1>2. mainTime \in Nat /\ NextSimbricksDeadline \in Nat
  BY EarlierType DEF TypeOK, NextSimbricksDeadline
<1>3. IsSync => window \in Nat
  BY <1>2 DEF RunClocks
<1>4. Budget \in Nat /\ (IsSync => Budget * PsPerClock <= window)
  <2>1. CASE IsSync
    BY <1>1, <1>3, <2>1, QuotientFits DEF Budget
  <2>2. CASE ~IsSync
    BY <1>1, <2>2 DEF Budget
  <2>. QED  BY <2>1, <2>2
<1>5. n \in Nat /\ n <= Budget
  BY <1>1, <1>4, EarlierType
<1>6. n * PsPerClock \in Nat /\ n * PsPerClock <= Budget * PsPerClock
  BY <1>1, <1>4, <1>5, ProductType, ProductMonotonic
<1>7. target' = mainTime + n * PsPerClock
  BY DEF RunClocks
<1>. HIDE DEF n
<1>8. Budget * PsPerClock \in Nat
  BY <1>1, <1>4, ProductType
<1>. QED  BY <1>2, <1>3, <1>4, <1>6, <1>7, <1>8

----------------------------------------------------------------------------
(* The protocol invariant                                                  *)

\* The protocol invariant holds when the link has come up.
LEMMA ProtocolInit == Init => ProtocolInv
<1>. SUFFICES ASSUME Init PROVE ProtocolInv
  OBVIOUS
<1>. USE DEF Init, LinkInit, DeviceInit, HostInit
<1>1. h2d \in Seq(Messages(H2DTypes))
  <2>. DEFINE m == Plain("devctrl", 0)
  <2>1. m \in Messages(H2DTypes)
    BY PlainType DEF H2DTypes
  <2>. HIDE DEF m
  <2>2. <<m>> \in Seq(Messages(H2DTypes))
    BY <2>1
  <2>. QED  BY <2>2 DEF m
<1>2. hNextSync \in Nat
  BY LinkAssumption DEF LinkAssumption
<1>3. /\ d2h \in Seq(Messages(D2HTypes)) /\ mmioQ \in Seq(MmioReqs)
      /\ hOut \in Seq(Messages(H2DTypes)) /\ Len(hOut) <= 1
      /\ issued \in Seq([type : MmioTypes, bar : Nat, offset : Nat, len : Nat])
  BY EmptySeq
<1>4. r \in MmioReqs /\ dma \in Dmas /\ dma.off <= dma.size
  BY DEF NoReq, MmioReqs, MmioTypes, Dmas
<1>5. TypeOK
  BY <1>1, <1>2, <1>3, <1>4 DEF TypeOK, Pcs, LoopPcs, Outcomes
<1>6. SlotInv
  BY DEF SlotInv, HeldSlotIsLast, SendPcs
<1>7. CallInv
  BY DEF CallInv, LoopPcs, ReplyPcs, DmaPcs, PumpPcs
<1>. QED  BY <1>5, <1>6, <1>7 DEF ProtocolInv

\* A step that leaves the ring alone, outside and into the pcs that do not
\* hold a slot, keeps the slots as they are.
LEMMA SlotsFramed ==
  ASSUME SlotInv, UNCHANGED d2h, pc \notin SendPcs, pc' \notin SendPcs
  PROVE  SlotInv'
BY DEF SlotInv, HeldSlotIsLast, SendPcs

\* The process may exit wherever it holds no slot.
LEMMA ExitProtocol ==
  ASSUME ProtocolInv, NEW how \in Outcomes, Exit(how), pc \notin SendPcs,
         UNCHANGED hostVars
  PROVE  ProtocolInv'
<1>1. TypeOK'
  BY DEF ProtocolInv, TypeOK, Exit, Pcs, hostVars, linkVars, timeVars,
         mmioVars, libVars, dmaVars
<1>2. SlotInv'
  BY SlotsFramed DEF ProtocolInv, Exit, SendPcs, linkVars
<1>3. CallInv'
  BY DEF CallInv, Exit, LoopPcs, ReplyPcs, DmaPcs, PumpPcs
<1>. QED  BY <1>1, <1>2, <1>3 DEF ProtocolInv

\* A message other than a held slot goes to the end of the ring.
LEMMA AppendSent ==
  ASSUME d2h \in Seq(Messages(D2HTypes)), HeldSlotIsLast, pc \notin SendPcs,
         NEW m \in Messages(D2HTypes), d2h' = Append(d2h, m)
  PROVE  /\ d2h' \in Seq(Messages(D2HTypes))
         /\ Len(d2h') = Len(d2h) + 1
         /\ d2h'[Len(d2h')] = m
         /\ \A i \in 1 .. Len(d2h') : d2h'[i].type = "held" => i = Len(d2h')
<1>1. /\ d2h' \in Seq(Messages(D2HTypes))
      /\ Len(d2h') = Len(d2h) + 1
      /\ \A i \in 1 .. Len(d2h) : d2h'[i] = d2h[i]
      /\ d2h'[Len(d2h) + 1] = m
  BY AppendProperties
<1>2. \A i \in 1 .. Len(d2h) : d2h[i].type # "held"
  BY DEF HeldSlotIsLast, SendPcs
<1>. QED  BY <1>1, <1>2, LenProperties

\* Sending the SYNC that is owed, from RunLoop or from the DMA pump.
LEMMA OutSyncProtocol ==
  ASSUME ProtocolInv, UNCHANGED hostVars,
         NEW from, NEW to,
         OutSync(from, to),
         <<from, to>> \in {<<"sync", "poll">>, <<"pumpSync", "pumpPoll">>}
  PROVE  ProtocolInv'
<1>. DEFINE m == Plain("sync", mainTime)
<1>1. CASE SyncOwed /\ d2h' = Append(d2h, m)
           /\ nextSync' = mainTime + SyncInterval /\ UNCHANGED pc
  <2>1. m \in Messages(D2HTypes) /\ m.type = "sync"
    BY PlainType DEF ProtocolInv, TypeOK, D2HTypes, Plain
  <2>2. pc \notin SendPcs
    BY DEF OutSync, SendPcs
  <2>. HIDE DEF m
  <2>3. /\ d2h' \in Seq(Messages(D2HTypes))
        /\ Len(d2h') = Len(d2h) + 1 /\ d2h'[Len(d2h')] = m
        /\ \A i \in 1 .. Len(d2h') : d2h'[i].type = "held" => i = Len(d2h')
    BY <1>1, <2>1, <2>2, AppendSent DEF ProtocolInv, TypeOK, SlotInv
  <2>4. nextSync' \in Nat
    BY <1>1, LinkAssumption DEF ProtocolInv, TypeOK, LinkAssumption
  <2>5. TypeOK'
    BY <1>1, <2>3, <2>4 DEF ProtocolInv, TypeOK, OutSync, mmioVars, libVars,
       dmaVars, endVars, hostVars
  <2>6. SlotInv'
    BY <1>1, <2>1, <2>2, <2>3 DEF SlotInv, HeldSlotIsLast
  <2>7. CallInv'
    BY <1>1 DEF ProtocolInv, CallInv, OutSync, libVars
  <2>. QED  BY <2>5, <2>6, <2>7 DEF ProtocolInv
<1>2. CASE pc' = to /\ UNCHANGED <<d2h, nextSync>>
  <2>1. TypeOK'
    BY <1>2 DEF ProtocolInv, TypeOK, OutSync, mmioVars, libVars, dmaVars,
       endVars, hostVars, Pcs, LoopPcs, DmaPcs, PumpPcs
  <2>2. SlotInv'
    BY <1>2, SlotsFramed DEF ProtocolInv, OutSync, SendPcs
  <2>3. CallInv'
    BY <1>2 DEF ProtocolInv, CallInv, OutSync, libVars, LoopPcs, ReplyPcs,
       DmaPcs, PumpPcs
  <2>. QED  BY <2>1, <2>2, <2>3 DEF ProtocolInv
<1>. QED  BY <1>1, <1>2 DEF OutSync

\* AllocPcieOut, for a completion or a DMA: the new slot is the last one and
\* the thread is about to send it.
LEMMA AllocProtocol ==
  ASSUME ProtocolInv, UNCHANGED hostVars,
         NEW from, NEW to,
         AllocPcieOut(from, to),
         <<from, to>> \in {<<"dmaAlloc", "dmaSend">>,
                           <<"replyAlloc", "replySend">>}
  PROVE  ProtocolInv'
<1>. DEFINE m == Plain("held", mainTime)
<1>0. pc \notin SendPcs
  BY DEF AllocPcieOut, SendPcs
<1>1. CASE Exit("sendCut")
  BY <1>0, <1>1, ExitProtocol DEF Outcomes
<1>2. CASE /\ d2h' = Append(d2h, m)
           /\ nextSync' = mainTime + SyncInterval
           /\ pc' = to
           /\ UNCHANGED <<h2d, peerGone, mainTime, inTs, waiting, mmioVars,
                          libVars, dmaVars, endVars>>
  <2>1. m \in Messages(D2HTypes) /\ m.type = "held"
    BY PlainType DEF ProtocolInv, TypeOK, D2HTypes, Plain
  <2>. HIDE DEF m
  <2>2. /\ d2h' \in Seq(Messages(D2HTypes)) /\ d2h' # <<>>
        /\ Len(d2h') = Len(d2h) + 1 /\ d2h'[Len(d2h')] = m
        /\ \A i \in 1 .. Len(d2h') : d2h'[i].type = "held" => i = Len(d2h')
    <3>1. d2h \in Seq(Messages(D2HTypes)) /\ HeldSlotIsLast /\ Len(d2h) \in Nat
      BY LenProperties DEF ProtocolInv, TypeOK, SlotInv
    <3>2. d2h' = Append(d2h, m)
      BY <1>2
    <3>3. /\ d2h' \in Seq(Messages(D2HTypes))
          /\ Len(d2h') = Len(d2h) + 1 /\ d2h'[Len(d2h')] = m
          /\ \A i \in 1 .. Len(d2h') : d2h'[i].type = "held" => i = Len(d2h')
      BY <1>0, <2>1, <3>1, <3>2, AppendSent
    <3>4. d2h' # <<>>
      BY <2>1, <3>1, <3>2, AppendProperties
    <3>. QED  BY <3>3, <3>4
  <2>3. nextSync' \in Nat
    BY <1>2, LinkAssumption DEF ProtocolInv, TypeOK, LinkAssumption
  <2>4. TypeOK'
    BY <1>2, <2>2, <2>3 DEF ProtocolInv, TypeOK, mmioVars, libVars, dmaVars,
       endVars, hostVars, Pcs, DmaPcs, ReplyPcs
  <2>5. SlotInv'
    BY <1>2, <2>1, <2>2 DEF SlotInv, HeldSlotIsLast, SendPcs
  <2>6. CallInv'
    BY <1>2 DEF ProtocolInv, CallInv, AllocPcieOut, libVars, LoopPcs,
       ReplyPcs, DmaPcs, PumpPcs
  <2>. QED  BY <2>4, <2>5, <2>6 DEF ProtocolInv
<1>. QED  BY <1>1, <1>2 DEF AllocPcieOut

\* SendPcieOut turns the one slot that is held into a message.
LEMMA SendProtocol ==
  ASSUME ProtocolInv, UNCHANGED hostVars,
         NEW from, NEW to, NEW type, NEW id \in Nat, NEW at,
         at.bar \in Nat, at.offset \in Nat, at.len \in Nat,
         type \in D2HTypes \ {"held"},
         SendPcieOut(from, to, type, id, at),
         <<from, to>> \in {<<"dmaSend", "pumpSync">>, <<"replySend", "drain">>}
  PROVE  ProtocolInv'
<1>1. pc = from /\ pc \in SendPcs /\ pc' = to /\ to \notin SendPcs
  BY DEF SendPcieOut, SendPcs
<1>2. d2h \in Seq(Messages(D2HTypes)) /\ d2h # <<>>
  BY <1>1 DEF ProtocolInv, TypeOK, SlotInv
<1>3. d2h' = [d2h EXCEPT ![Len(d2h)] =
               [type |-> type, ts |-> @.ts, id |-> id,
                bar |-> at.bar, offset |-> at.offset, len |-> at.len]]
  BY DEF SendPcieOut
<1>4. /\ d2h' \in Seq(Messages(D2HTypes))
      /\ Len(d2h') = Len(d2h)
      /\ \A i \in 1 .. Len(d2h) : i # Len(d2h) => d2h'[i] = d2h[i]
      /\ d2h'[Len(d2h)].type = type
  BY <1>2, <1>3, FillLast
<1>5. TypeOK'
  BY <1>1, <1>4 DEF ProtocolInv, TypeOK, SendPcieOut, timeVars, mmioVars,
     libVars, dmaVars, endVars, hostVars, Pcs, LoopPcs, DmaPcs, PumpPcs
<1>6. SlotInv'
  BY <1>1, <1>4 DEF ProtocolInv, SlotInv, HeldSlotIsLast
<1>7. CallInv'
  BY <1>1 DEF ProtocolInv, CallInv, SendPcieOut, libVars, LoopPcs, ReplyPcs,
     DmaPcs, PumpPcs
<1>. QED  BY <1>5, <1>6, <1>7 DEF ProtocolInv

\* Polling takes the oldest message off the host's ring.
LEMMA ConsumeType ==
  ASSUME TypeOK, NEW types, Polling(types), Consume
  PROVE  /\ Head(h2d) \in Messages(H2DTypes)
         /\ Head(h2d).type \in types
         /\ h2d' \in Seq(Messages(H2DTypes))
         /\ inTs' \in Nat
         /\ pc \notin SendPcs
         /\ UNCHANGED <<d2h, peerGone, mainTime, nextSync>>
<1>1. h2d # <<>>
  BY DEF Polling, Pollable, Visible
<1>2. Head(h2d) \in Messages(H2DTypes) /\ Tail(h2d) \in Seq(Messages(H2DTypes))
  BY <1>1, HeadType DEF TypeOK
<1>3. Head(h2d).ts \in Nat
  BY <1>2 DEF Messages
<1>. QED  BY <1>2, <1>3 DEF Polling, Consume, SendPcs

\* PollPcie touches neither a slot nor the call on the stack.
LEMMA PollProtocol ==
  ASSUME ProtocolInv, UNCHANGED hostVars, PollPcie
  PROVE  ProtocolInv'
<1>. USE DEF ProtocolInv
<1>1. CASE PollMmio
  <2>. DEFINE m == Head(h2d)
              q == [type |-> m.type, id |-> m.id, bar |-> m.bar,
                    offset |-> m.offset, len |-> m.len]
  <2>1. /\ m \in Messages(H2DTypes) /\ m.type \in MmioTypes
        /\ h2d' \in Seq(Messages(H2DTypes)) /\ inTs' \in Nat
        /\ pc \notin SendPcs
        /\ UNCHANGED <<d2h, peerGone, mainTime, nextSync>>
    BY <1>1, ConsumeType DEF PollMmio
  <2>2. q \in MmioReqs
    BY <2>1 DEF MmioReqs, Messages
  <2>3. mmioQ' = Append(mmioQ, q)
    BY <1>1 DEF PollMmio
  <2>. HIDE DEF q
  <2>4. mmioQ' \in Seq(MmioReqs)
    BY <2>2, <2>3, AppendProperties DEF TypeOK
  <2>5. TypeOK'
    BY <1>1, <2>1, <2>4 DEF TypeOK, PollMmio, libVars, dmaVars, endVars, hostVars
  <2>6. SlotInv'
    BY <1>1, <2>1, SlotsFramed DEF PollMmio
  <2>7. CallInv'
    BY <1>1 DEF CallInv, PollMmio, libVars
  <2>. QED  BY <2>5, <2>6, <2>7
<1>2. CASE PollOversize
  <2>1. Exit("oversize") /\ pc \notin SendPcs
    BY <1>2 DEF PollOversize, Polling, SendPcs
  <2>. QED  BY <2>1, ExitProtocol DEF Outcomes
<1>3. CASE PollCompletion
  <2>1. /\ Head(h2d) \in Messages(H2DTypes)
        /\ h2d' \in Seq(Messages(H2DTypes)) /\ inTs' \in Nat
        /\ pc \notin SendPcs
        /\ UNCHANGED <<d2h, peerGone, mainTime, nextSync>>
    BY <1>3, ConsumeType DEF PollCompletion
  <2>2. Head(h2d).offset \in Nat /\ dma.off \in Nat
    BY <2>1 DEF Messages, TypeOK, Dmas
  <2>3. Chunk \in Nat
    BY ChunkType DEF TypeOK
  <2>4. devBuf' \subseteq Nat \X Nat
    BY <1>3, <2>2, <2>3 DEF PollCompletion, TypeOK
  <2>5. TypeOK'
    BY <1>3, <2>1, <2>4 DEF TypeOK, PollCompletion, mmioVars, libVars, endVars,
       hostVars
  <2>6. SlotInv'
    BY <1>3, <2>1, SlotsFramed DEF PollCompletion
  <2>7. CallInv'
    BY <1>3 DEF CallInv, PollCompletion, libVars
  <2>. QED  BY <2>5, <2>6, <2>7
<1>4. CASE PollControl
  <2>1. /\ h2d' \in Seq(Messages(H2DTypes)) /\ inTs' \in Nat
        /\ pc \notin SendPcs
        /\ UNCHANGED <<d2h, peerGone, mainTime, nextSync>>
    BY <1>4, ConsumeType DEF PollControl
  <2>2. exiting' \in BOOLEAN
    BY <1>4 DEF PollControl, TypeOK
  <2>3. TypeOK'
    BY <1>4, <2>1, <2>2 DEF TypeOK, PollControl, mmioVars, libVars, dmaVars,
       hostVars
  <2>4. SlotInv'
    BY <1>4, <2>1, SlotsFramed DEF PollControl
  <2>5. CallInv'
    BY <1>4 DEF CallInv, PollControl, libVars
  <2>. QED  BY <2>3, <2>4, <2>5
<1>. QED  BY <1>1, <1>2, <1>3, <1>4 DEF PollPcie

\* The steps of a DMA that are not messages, and the end in an overrun.
LEMMA DmaProtocol ==
  ASSUME ProtocolInv, UNCHANGED hostVars,
         \/ \E kind \in {"read", "write"}, size \in DmaSizes : LibDma(kind, size)
         \/ DmaChunkDone \/ DmaCut \/ DrainOverrun \/ DmaPumpAdvance
  PROVE  ProtocolInv'
<1>. USE DEF ProtocolInv
<1>0. PeekedTs(h2d, inTs) \in Nat
  BY PeekedType DEF TypeOK
<1>1. ASSUME NEW kind \in {"read", "write"}, NEW size \in DmaSizes,
             LibDma(kind, size)
      PROVE  ProtocolInv'
  <2>1. dma' \in Dmas /\ dma'.off <= dma'.size
    BY <1>1, TtsimAssumption DEF LibDma, Dmas, TypeOK, TtsimAssumption
  <2>2. TypeOK'
    BY <1>1, <2>1 DEF TypeOK, LibDma, linkVars, timeVars, mmioVars, libVars,
       endVars, hostVars, Pcs, DmaPcs
  <2>3. SlotInv'
    BY <1>1, SlotsFramed DEF LibDma, linkVars, SendPcs
  <2>4. CallInv'
    BY <1>1 DEF CallInv, LibDma, libVars, LoopPcs, ReplyPcs, DmaPcs, PumpPcs
  <2>. QED  BY <2>2, <2>3, <2>4
<1>2. CASE DmaChunkDone
  <2>1. /\ Chunk \in Nat /\ dma.off + Chunk <= dma.size
        /\ dma' = [dma EXCEPT !.off = @ + Chunk]
    BY <1>2, ChunkType DEF TypeOK, DmaChunkDone
  <2>2. dma' \in Dmas /\ dma'.off <= dma'.size
    <3>. HIDE DEF ProtocolInv
    <3>1. dma \in Dmas
      BY DEF ProtocolInv, TypeOK
    <3>. QED  BY <2>1, <3>1 DEF Dmas
  <2>3. pc' \in {"dmaAlloc", "lib"} /\ slotDone' \in BOOLEAN
    BY <1>2 DEF DmaChunkDone, TypeOK
  <2>4. TypeOK'
    BY <1>0, <1>2, <2>2, <2>3 DEF TypeOK, DmaChunkDone, PolledDry, linkVars,
       mmioVars, libVars, endVars, hostVars, Pcs, DmaPcs
  <2>5. SlotInv'
    BY <1>2, <2>3, SlotsFramed DEF DmaChunkDone, PolledDry, linkVars, SendPcs
  <2>6. CallInv'
    BY <1>2, <2>3 DEF CallInv, DmaChunkDone, PolledDry, libVars, LoopPcs,
       ReplyPcs, DmaPcs, PumpPcs
  <2>. QED  BY <2>4, <2>5, <2>6
<1>3. CASE DmaCut
  <2>1. Exit("dmaCut") /\ pc \notin SendPcs
    BY <1>3 DEF DmaCut, SendPcs
  <2>. QED  BY <2>1, ExitProtocol DEF Outcomes
<1>4. CASE DmaPumpAdvance
  <2>. DEFINE cap == mainTime + MaxBatch * PsPerClock
              next == IF IsSync THEN Earlier(Earlier(inTs', nextSync), cap)
                                ELSE cap
  <2>0. MaxBatch * PsPerClock \in Nat
    BY ProductType, TtsimAssumption DEF TtsimAssumption
  <2>1. cap \in Nat /\ inTs' \in Nat /\ nextSync \in Nat /\ mainTime \in Nat
    BY <1>0, <1>4, <2>0 DEF DmaPumpAdvance, PolledDry, TypeOK
  <2>2. mainTime' = Bounded(Later(mainTime, next))
    BY <1>4 DEF DmaPumpAdvance
  <2>. HIDE DEF cap
  <2>3. next \in Nat
    BY <2>1, EarlierType
  <2>. HIDE DEF next
  <2>4. mainTime' \in Nat
    BY <2>1, <2>2, <2>3, EarlierType, BoundedType
  <2>5. TypeOK'
    BY <1>4, <2>1, <2>4 DEF TypeOK, DmaPumpAdvance, linkVars, mmioVars, libVars,
       dmaVars, endVars, hostVars, Pcs, DmaPcs, PumpPcs
  <2>6. SlotInv'
    BY <1>4, SlotsFramed DEF DmaPumpAdvance, PolledDry, linkVars, SendPcs
  <2>7. CallInv'
    BY <1>4 DEF CallInv, DmaPumpAdvance, PolledDry, libVars, LoopPcs, ReplyPcs,
       DmaPcs, PumpPcs
  <2>. QED  BY <2>5, <2>6, <2>7
<1>5. CASE DrainOverrun
  <2>1. Exit("overrun") /\ pc \notin SendPcs
    BY <1>5 DEF DrainOverrun, SendPcs
  <2>. QED  BY <2>1, ExitProtocol DEF Outcomes
<1>. QED  BY <1>1, <1>2, <1>3, <1>4, <1>5

\* The stages of RunLoop that send nothing: DrainDeferredMmio around the
\* libttsim call, RunClocks, and the ends of the stages.
Stages ==
  \/ PollPcieAllEnds \/ DrainRequest \/ MmioReturns \/ DrainEnds
  \/ WaitForPeer \/ JumpToDeadline \/ RunClocks \/ ClockReturns \/ LoopTail

\* The steps that leave the outgoing ring alone.
LEMMA StagesProtocol ==
  ASSUME ProtocolInv, UNCHANGED hostVars, Stages
  PROVE  ProtocolInv'
<1>. USE DEF ProtocolInv
<1>1. SlotInv'
  <2>1. pc \notin SendPcs /\ pc' \notin SendPcs /\ UNCHANGED d2h
    BY DEF Stages, PollPcieAllEnds, PolledDry, DrainRequest, MmioReturns,
       DrainEnds, WaitForPeer, JumpToDeadline, RunClocks, ClockReturns,
       LoopTail, NextOf, SendPcs, linkVars
  <2>. QED  BY <2>1, SlotsFramed
<1>2. CASE PollPcieAllEnds
  <2>1. inTs' \in Nat
    BY <1>2, PeekedType DEF PollPcieAllEnds, PolledDry, TypeOK
  <2>2. TypeOK'
    BY <1>2, <2>1 DEF TypeOK, PollPcieAllEnds, linkVars, mmioVars, libVars,
       dmaVars, endVars, hostVars, Pcs, LoopPcs
  <2>3. CallInv'
    BY <1>2 DEF CallInv, PollPcieAllEnds, PolledDry, libVars, LoopPcs, ReplyPcs,
       DmaPcs, PumpPcs
  <2>. QED  BY <1>1, <2>2, <2>3
<1>3. CASE DrainRequest
  <2>1. r' \in MmioReqs /\ mmioQ' \in Seq(MmioReqs)
    BY <1>3, HeadTailProperties DEF DrainRequest, TypeOK
  <2>2. call' \in {call, "mmio"} /\ pc' \in {"lib", "drain", "replyAlloc"}
        /\ (pc' = "lib" => call' = "mmio") /\ (pc' # "lib" => call' = call)
    BY <1>3 DEF DrainRequest, NextOf
  <2>3. TypeOK'
    BY <1>3, <2>1, <2>2 DEF TypeOK, DrainRequest, linkVars, timeVars, dmaVars,
       endVars, hostVars, Pcs, LoopPcs, ReplyPcs
  <2>4. CallInv'
    BY <1>3, <2>2 DEF CallInv, DrainRequest, LoopPcs, ReplyPcs, DmaPcs, PumpPcs
  <2>. QED  BY <1>1, <2>3, <2>4
<1>4. CASE MmioReturns
  <2>1. pc' \in {"drain", "replyAlloc"} /\ call' = "none"
    BY <1>4 DEF MmioReturns, NextOf
  <2>2. TypeOK'
    BY <1>4, <2>1 DEF TypeOK, MmioReturns, linkVars, timeVars, mmioVars,
       dmaVars, endVars, hostVars, Pcs, LoopPcs, ReplyPcs
  <2>3. CallInv'
    BY <2>1 DEF CallInv, LoopPcs, ReplyPcs, DmaPcs, PumpPcs
  <2>. QED  BY <1>1, <2>2, <2>3
<1>5. CASE DrainEnds
  <2>1. TypeOK'
    BY <1>5 DEF TypeOK, DrainEnds, linkVars, timeVars, mmioVars, libVars,
       dmaVars, endVars, hostVars, Pcs, LoopPcs
  <2>2. CallInv'
    BY <1>5 DEF CallInv, DrainEnds, libVars, LoopPcs, ReplyPcs, DmaPcs, PumpPcs
  <2>. QED  BY <1>1, <2>1, <2>2
<1>6. CASE WaitForPeer
  <2>1. TypeOK'
    BY <1>6 DEF TypeOK, WaitForPeer, linkVars, timeVars, mmioVars, libVars,
       dmaVars, endVars, hostVars, Pcs, LoopPcs
  <2>2. CallInv'
    BY <1>6 DEF CallInv, WaitForPeer, libVars, LoopPcs, ReplyPcs, DmaPcs, PumpPcs
  <2>. QED  BY <1>1, <2>1, <2>2
<1>7. CASE JumpToDeadline
  <2>1. mainTime' \in Nat
    BY <1>7, EarlierType DEF JumpToDeadline, NextSimbricksDeadline, TypeOK
  <2>2. TypeOK'
    BY <1>7, <2>1 DEF TypeOK, JumpToDeadline, linkVars, mmioVars, libVars,
       dmaVars, endVars, hostVars, Pcs, LoopPcs
  <2>3. CallInv'
    BY <1>7 DEF CallInv, JumpToDeadline, libVars, LoopPcs, ReplyPcs, DmaPcs,
       PumpPcs
  <2>. QED  BY <1>1, <2>2, <2>3
<1>8. CASE RunClocks
  <2>1. target' \in Nat
    BY <1>8, RunClocksTarget
  <2>2. TypeOK'
    BY <1>8, <2>1 DEF TypeOK, RunClocks, linkVars, timeVars, mmioVars, dmaVars,
       endVars, hostVars, Pcs
  <2>3. CallInv'
    BY <1>8 DEF CallInv, RunClocks, LoopPcs, ReplyPcs, DmaPcs, PumpPcs
  <2>. QED  BY <1>1, <2>2, <2>3
<1>9. CASE ClockReturns
  <2>1. mainTime' \in Nat
    BY <1>9, EarlierType, BoundedType DEF ClockReturns, TypeOK
  <2>2. TypeOK'
    BY <1>9, <2>1 DEF TypeOK, ClockReturns, linkVars, mmioVars, dmaVars,
       endVars, hostVars, Pcs, LoopPcs
  <2>3. CallInv'
    BY <1>9 DEF CallInv, ClockReturns, LoopPcs, ReplyPcs, DmaPcs, PumpPcs
  <2>. QED  BY <1>1, <2>2, <2>3
<1>10. CASE LoopTail
  <2>1. pc' \in {"sync", "stopped"} /\ exiting' \in BOOLEAN /\ outcome' \in Outcomes
    BY <1>10 DEF LoopTail, TypeOK, endVars, Outcomes
  <2>2. TypeOK'
    BY <1>10, <2>1 DEF TypeOK, LoopTail, linkVars, timeVars, mmioVars, libVars,
       dmaVars, hostVars, Pcs, LoopPcs
  <2>3. CallInv'
    BY <1>10, <2>1 DEF CallInv, LoopTail, libVars, LoopPcs, ReplyPcs, DmaPcs,
       PumpPcs
  <2>. QED  BY <1>1, <2>2, <2>3
<1>. QED
  BY <1>2, <1>3, <1>4, <1>5, <1>6, <1>7, <1>8, <1>9, <1>10 DEF Stages

\* The host takes only sent messages off the adapter's ring.
LEMMA HostProtocol ==
  ASSUME ProtocolInv, UNCHANGED deviceVars, HostNext
  PROVE  ProtocolInv'
<1>. USE DEF ProtocolInv
<1>0. UNCHANGED <<pc, mainTime, inTs, nextSync, waiting, mmioQ, r, call, target,
                  dma, slotDone, devBuf, exiting, outcome>>
  BY DEF deviceVars, timeVars, mmioVars, libVars, dmaVars, endVars
<1>1. CallInv'
  BY <1>0 DEF CallInv
<1>2. ASSUME NEW m \in Messages(H2DTypes), hOut' = <<m>>,
             UNCHANGED <<h2d, d2h, peerGone, hNow, hInTs, hNextSync, answered,
                         hostMem>>,
             issued' \in Seq([type : MmioTypes, bar : Nat, offset : Nat, len : Nat])
      PROVE  ProtocolInv'
  <2>1. hOut' \in Seq(Messages(H2DTypes)) /\ Len(hOut') <= 1
    BY <1>2
  <2>2. TypeOK'
    BY <1>0, <1>2, <2>1 DEF TypeOK
  <2>3. SlotInv'
    BY <1>0, <1>2 DEF SlotInv, HeldSlotIsLast
  <2>. QED  BY <1>1, <2>2, <2>3
<1>3. CASE HostSync
  <2>. DEFINE m == Plain("sync", hNow)
  <2>1. m \in Messages(H2DTypes)
    BY PlainType DEF TypeOK, H2DTypes
  <2>2. hOut' = <<m>> /\ UNCHANGED <<h2d, d2h, peerGone, hNow, hInTs, hNextSync,
                                     issued, answered, hostMem>>
    BY <1>3 DEF HostSync, linkVars
  <2>. HIDE DEF m
  <2>. QED  BY <1>2, <2>1, <2>2 DEF TypeOK
<1>4. CASE HostTerminate
  <2>. DEFINE m == Plain("terminate", hNow)
  <2>1. m \in Messages(H2DTypes)
    BY PlainType DEF TypeOK, H2DTypes
  <2>2. hOut' = <<m>> /\ UNCHANGED <<h2d, d2h, peerGone, hNow, hInTs, hNextSync,
                                     issued, answered, hostMem>>
    BY <1>4 DEF HostTerminate, linkVars
  <2>. HIDE DEF m
  <2>. QED  BY <1>2, <2>1, <2>2 DEF TypeOK
<1>5. ASSUME NEW t \in Targets, HostIssue(t) PROVE ProtocolInv'
  <2>1. t \in [type : MmioTypes, bar : Nat, offset : Nat, len : Nat]
    BY HostAssumption DEF HostAssumption
  <2>2. /\ issued' = Append(issued, t)
        /\ issued' \in Seq([type : MmioTypes, bar : Nat, offset : Nat, len : Nat])
        /\ Len(issued') \in Nat
    BY <1>5, <2>1, AppendProperties, LenProperties DEF HostIssue, TypeOK
  <2>. DEFINE m == Tagged(t.type, hNow, Len(issued'), t)
  <2>3. m \in Messages(H2DTypes)
    BY <2>1, <2>2, TaggedType DEF TypeOK, H2DTypes
  <2>4. hOut' = <<m>> /\ UNCHANGED <<h2d, d2h, peerGone, hNow, hInTs, hNextSync,
                                     answered, hostMem>>
    BY <1>5 DEF HostIssue, linkVars
  <2>. HIDE DEF m
  <2>. QED  BY <1>2, <2>2, <2>3, <2>4
<1>6. CASE HostSend
  <2>1. Head(hOut) \in Messages(H2DTypes)
    BY <1>6, HeadTailProperties DEF HostSend, TypeOK
  <2>2. h2d' \in Seq(Messages(H2DTypes))
    BY <1>6, <2>1, AppendProperties DEF HostSend, TypeOK
  <2>3. hNextSync' \in Nat
    BY <1>6, LinkAssumption DEF HostSend, TypeOK, LinkAssumption
  <2>4. hOut' \in Seq(Messages(H2DTypes)) /\ Len(hOut') <= 1
    BY <1>6, EmptySeq DEF HostSend
  <2>5. TypeOK'
    BY <1>0, <1>6, <2>2, <2>3, <2>4 DEF TypeOK, HostSend
  <2>6. SlotInv'
    BY <1>0, <1>6 DEF SlotInv, HeldSlotIsLast, HostSend
  <2>. QED  BY <1>1, <2>5, <2>6
<1>7. CASE HostPoll
  <2>. DEFINE m == Head(d2h)
  <2>1. d2h # <<>> /\ m.type # "held" /\ d2h' = Tail(d2h)
    BY <1>7 DEF HostPoll, Pollable, Visible
  <2>2. /\ m \in Messages(D2HTypes) /\ m = d2h[1]
        /\ d2h' \in Seq(Messages(D2HTypes))
        /\ Len(d2h') = Len(d2h) - 1
        /\ \A i \in 1 .. Len(d2h') : d2h'[i] = d2h[i + 1]
    BY <2>1, HeadType DEF TypeOK
  <2>3. m.ts \in Nat /\ m.id \in Nat /\ m.bar \in Nat /\ m.offset \in Nat
        /\ m.len \in Nat
    BY <2>2 DEF Messages
  <2>4. hOut' \in Seq(Messages(H2DTypes)) /\ Len(hOut') <= 1
    <3>. DEFINE rc == Tagged("readcomp", hNow, m.id, m)
                wc == Tagged("writecomp", hNow, m.id, m)
    <3>1. rc \in Messages(H2DTypes) /\ wc \in Messages(H2DTypes)
      BY <2>3, TaggedType DEF TypeOK, H2DTypes, CompTypes
    <3>2. hOut' = <<rc>> \/ hOut' = <<wc>> \/ hOut' = <<>>
      BY <1>7 DEF HostPoll
    <3>. HIDE DEF rc, wc
    <3>3. <<rc>> \in Seq(Messages(H2DTypes)) /\ Len(<<rc>>) = 1
      BY <3>1, SingletonType
    <3>4. <<wc>> \in Seq(Messages(H2DTypes)) /\ Len(<<wc>>) = 1
      BY <3>1, SingletonType
    <3>5. <<>> \in Seq(Messages(H2DTypes)) /\ Len(<<>>) = 0
      OBVIOUS
    <3>6. CASE hOut' = <<rc>>
      BY <3>3, <3>6
    <3>7. CASE hOut' = <<wc>>
      BY <3>4, <3>7
    <3>8. CASE hOut' = <<>>
      BY <3>5, <3>8
    <3>. QED  BY <3>2, <3>6, <3>7, <3>8
  <2>5. answered' \subseteq Nat
    BY <1>7, <2>3 DEF HostPoll, TypeOK
  <2>6. hostMem' \subseteq Nat \X Nat
    <3>1. 0 .. (m.len - 1) \subseteq Nat
      BY <2>3
    <3>2. {<<m.id, m.offset + i>> : i \in 0 .. (m.len - 1)} \subseteq Nat \X Nat
      <4>. HIDE DEF m
      <4>. QED  BY <2>3, <3>1
    <3>3. hostMem' \in {hostMem, hostMem \cup {<<m.id, m.offset + i>> :
                                               i \in 0 .. (m.len - 1)}}
      BY <1>7 DEF HostPoll
    <3>. HIDE DEF m
    <3>. QED  BY <3>2, <3>3 DEF TypeOK
  <2>7. hInTs' = m.ts /\ UNCHANGED <<h2d, peerGone, hNow, hNextSync, issued>>
    BY <1>7 DEF HostPoll
  <2>. HIDE DEF m
  <2>8. TypeOK'
    BY <1>0, <2>2, <2>3, <2>4, <2>5, <2>6, <2>7 DEF TypeOK
  <2>9. SlotInv'
    <3>1. Len(d2h) \in Nat /\ Len(d2h) >= 1
      BY <2>1, LenProperties, EmptySeq DEF TypeOK
    <3>2. ASSUME NEW i \in 1 .. Len(d2h'), d2h'[i].type = "held"
          PROVE  i = Len(d2h') /\ pc' \in SendPcs
      <4>1. i + 1 \in 1 .. Len(d2h) /\ d2h[i + 1].type = "held"
        BY <2>2, <3>1, <3>2
      <4>. QED  BY <1>0, <2>2, <3>1, <4>1 DEF SlotInv, HeldSlotIsLast, SendPcs
    <3>3. ASSUME pc' \in SendPcs
          PROVE  d2h' # <<>> /\ d2h'[Len(d2h')].type = "held"
      <4>1. d2h[Len(d2h)].type = "held"
        BY <1>0, <3>3 DEF SlotInv
      <4>2. Len(d2h) # 1
        BY <2>1, <2>2, <4>1
      <4>3. Len(d2h') \in 1 .. Len(d2h') /\ Len(d2h') + 1 = Len(d2h)
        BY <2>2, <3>1, <4>2
      <4>. QED  BY <2>2, <4>1, <4>3, EmptySeq
    <3>. QED  BY <3>2, <3>3 DEF SlotInv, HeldSlotIsLast, SendPcs
  <2>. QED  BY <1>1, <2>8, <2>9
<1>8. CASE HostAdvance
  <2>1. hInTs' \in Nat
    BY <1>8, PeekedType DEF HostAdvance, TypeOK
  <2>2. hNow' \in Nat
    BY <1>8, <2>1, EarlierType, HostAssumption
       DEF HostAdvance, TypeOK, HostAssumption
  <2>3. UNCHANGED <<h2d, d2h, peerGone, hNextSync, hOut, issued, answered,
                    hostMem>>
    BY <1>8 DEF HostAdvance, linkVars
  <2>4. TypeOK'
    BY <1>0, <2>1, <2>2, <2>3 DEF TypeOK
  <2>5. SlotInv'
    BY <1>0, <2>3 DEF SlotInv, HeldSlotIsLast
  <2>. QED  BY <1>1, <2>4, <2>5
<1>. QED
  BY <1>3, <1>4, <1>5, <1>6, <1>7, <1>8 DEF HostNext

\* The protocol invariant is inductive.
LEMMA ProtocolNext == ProtocolInv /\ [Next]_vars => ProtocolInv'
<1>. SUFFICES ASSUME ProtocolInv, [Next]_vars PROVE ProtocolInv'
  OBVIOUS
<1>1. CASE Device
  <2>. UNCHANGED hostVars
    BY <1>1 DEF Device
  <2>1. CASE OutSync("sync", "poll") \/ OutSync("pumpSync", "pumpPoll")
    BY <2>1, OutSyncProtocol
  <2>2. CASE \/ AllocPcieOut("dmaAlloc", "dmaSend")
             \/ AllocPcieOut("replyAlloc", "replySend")
    BY <2>2, AllocProtocol
  <2>3. CASE DmaSend
    <3>. DEFINE at == [bar |-> 0, offset |-> dma.off, len |-> Chunk]
    <3>1. dma.kind \in {"read", "write"} /\ dma.no \in Nat /\ dma.off \in Nat
          /\ Chunk \in Nat
      BY ChunkType DEF ProtocolInv, TypeOK, Dmas
    <3>2. at.bar \in Nat /\ at.offset \in Nat /\ at.len \in Nat
      BY <3>1
    <3>3. SendPcieOut("dmaSend", "pumpSync", dma.kind, dma.no, at)
      BY <2>3 DEF DmaSend
    <3>4. dma.kind \in D2HTypes \ {"held"}
      BY <3>1 DEF D2HTypes
    <3>. HIDE DEF at
    <3>. QED  BY <3>1, <3>2, <3>3, <3>4, SendProtocol
  <2>4. CASE ReplySend
    <3>. DEFINE type == IF r.type = "read" THEN "readcomp" ELSE "writecomp"
    <3>1. r.id \in Nat /\ r.bar \in Nat /\ r.offset \in Nat /\ r.len \in Nat
      BY DEF ProtocolInv, TypeOK, MmioReqs
    <3>2. type \in D2HTypes \ {"held"}
      BY DEF D2HTypes, CompTypes
    <3>3. SendPcieOut("replySend", "drain", type, r.id, r)
      BY <2>4 DEF ReplySend
    <3>. HIDE DEF type
    <3>. QED  BY <3>1, <3>2, <3>3, SendProtocol
  <2>5. CASE PollPcie
    BY <2>5, PollProtocol
  <2>6. CASE \/ \E kind \in {"read", "write"}, size \in DmaSizes : LibDma(kind, size)
             \/ DmaChunkDone \/ DmaCut \/ DrainOverrun \/ DmaPumpAdvance
    BY <2>6, DmaProtocol
  <2>7. CASE Stages
    BY <2>7, StagesProtocol
  <2>. QED
    BY <1>1, <2>1, <2>2, <2>3, <2>4, <2>5, <2>6, <2>7
       DEF Device, DeviceNext, Stages
<1>2. CASE Host
  BY <1>2, HostProtocol DEF Host
<1>3. CASE UNCHANGED vars
  <2>1. UNCHANGED <<h2d, d2h, peerGone, pc, mainTime, inTs, nextSync, waiting,
                    mmioQ, r, call, target, dma, slotDone, devBuf, exiting,
                    outcome, hNow, hInTs, hNextSync, hOut, issued, answered,
                    hostMem>>
    BY <1>3 DEF vars, linkVars, deviceVars, timeVars, mmioVars, libVars, dmaVars,
       endVars, hostVars
  <2>2. TypeOK'
    BY <2>1 DEF ProtocolInv, TypeOK
  <2>3. SlotInv' /\ CallInv'
    BY <2>1 DEF ProtocolInv, SlotInv, HeldSlotIsLast, CallInv
  <2>. QED  BY <2>2, <2>3 DEF ProtocolInv
<1>. QED  BY <1>1, <1>2, <1>3 DEF Next, Finished

\* The protocol invariant holds in every reachable state.
LEMMA ProtocolAlways == Spec => []ProtocolInv
BY ProtocolInit, ProtocolNext, PTL DEF Spec

\* Every variable always holds a value of its kind.
THEOREM TypeCorrect == Spec => []TypeOK
<1>1. ProtocolInv => TypeOK
  BY DEF ProtocolInv
<1>. QED  BY <1>1, ProtocolAlways, PTL

\* No message is ever stuck behind a slot that is not sent: the adapter holds
\* none across a libttsim call, for any ring and any DMA libttsim does.
THEOREM SlotsNeverHeldAcrossCalls == Spec => []HeldSlotIsLast
<1>1. ProtocolInv => HeldSlotIsLast
  BY DEF ProtocolInv, SlotInv
<1>. QED  BY <1>1, ProtocolAlways, PTL

\* libttsim is never entered while a call of it is on the stack.
THEOREM LibttsimNotReentered == Spec => NoNestedCalls
<1>1. ProtocolInv /\ [Next]_vars
        => [r' # r \/ call' \notin {call, "none"} => call = "none"]_vars
  <2>. SUFFICES ASSUME ProtocolInv, Next,
                       r' # r \/ call' \notin {call, "none"}
                PROVE  call = "none"
    OBVIOUS
  <2>1. DrainRequest \/ RunClocks
    BY DEF Next, Device, DeviceNext, Host, Finished, PollPcie, OutSync,
       AllocPcieOut, Exit, PollMmio, PollOversize, PollCompletion, PollControl,
       PollPcieAllEnds, LibDma, SendPcieOut, DmaSend, ReplySend, DmaChunkDone,
       DmaCut, DmaPumpAdvance, DrainOverrun, MmioReturns, DrainEnds, WaitForPeer,
       JumpToDeadline, ClockReturns, LoopTail, vars, deviceVars, mmioVars,
       libVars
  <2>2. pc \in LoopPcs
    BY <2>1 DEF DrainRequest, RunClocks, LoopPcs
  <2>. QED  BY <2>2 DEF ProtocolInv, CallInv
<1>. QED  BY <1>1, ProtocolAlways, PTL DEF Spec, NoNestedCalls
=============================================================================
