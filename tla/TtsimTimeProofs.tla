--------------------------- MODULE TtsimTimeProofs --------------------------
(***************************************************************************)
(* Simulated time on a synchronized link, for every latency, sync          *)
(* interval, clock period and batch: no message is late, and the clocks of *)
(* the two sides stay within the latency of each other.  From this follows *)
(* how much the adapter's ring can hold when it needs a slot, and that the *)
(* system refines TimedLink.                                               *)
(***************************************************************************)
EXTENDS TtsimOrderProofs

\* What the two sides know of each other's time on a synchronized link.  In
\* each ring the timestamps do not decrease; they are at least the one the
\* consumer saw last, and at most a latency ahead of the producer.
Ordered(ring, seen, now) ==
  /\ seen <= now + LinkLatency
  /\ \A i \in 1 .. Len(ring) : seen <= ring[i].ts /\ ring[i].ts <= now + LinkLatency
  /\ \A i, j \in 1 .. Len(ring) : i <= j => ring[i].ts <= ring[j].ts

TimeInv ==
  /\ mainTime <= inTs
  /\ mainTime <= nextSync
  /\ nextSync <= mainTime + SyncInterval
  /\ call = "clock" => target <= inTs /\ target <= nextSync
  /\ hNow <= hInTs
  /\ Ordered(h2d, inTs, hNow)
  /\ Ordered(d2h, hInTs, mainTime)
  /\ \A i \in 1 .. Len(hOut) : hOut[i].ts = hNow + LinkLatency

\* Without synchronization time only keeps to the bound it saturates at.
TimedInv == IF IsSync THEN TimeInv ELSE mainTime <= Horizon

----------------------------------------------------------------------------
(* Lemmas about a ring whose timestamps are ordered                        *)

\* The timestamps of the messages in a ring are times.
LEMMA TimestampType ==
  ASSUME NEW Types, NEW ring \in Seq(Messages(Types))
  PROVE  \A i \in 1 .. Len(ring) : ring[i].ts \in Nat
<1>1. \A i \in 1 .. Len(ring) : ring[i] \in Messages(Types)
  BY ElementOfSeq
<1>. QED  BY <1>1 DEF Messages

\* A ring stays ordered as the time of its producer goes on.
LEMMA OrderedLater ==
  ASSUME NEW Types, NEW ring \in Seq(Messages(Types)), NEW seen \in Nat,
         NEW now \in Nat, NEW later \in Nat, now <= later,
         Ordered(ring, seen, now)
  PROVE  Ordered(ring, seen, later)
<1>1. LinkLatency \in Nat
  BY LinkAssumption DEF LinkAssumption
<1>2. \A i \in 1 .. Len(ring) : ring[i].ts \in Nat
  BY TimestampType
<1>. QED  BY <1>1, <1>2 DEF Ordered

\* A ring stays ordered when its producer puts a message at its end.
LEMMA OrderedAppend ==
  ASSUME NEW Types, NEW ring \in Seq(Messages(Types)), NEW seen \in Nat,
         NEW now \in Nat, NEW m \in Messages(Types), m.ts = now + LinkLatency,
         Ordered(ring, seen, now)
  PROVE  Ordered(Append(ring, m), seen, now)
<1>. DEFINE longer == Append(ring, m)
<1>1. LinkLatency \in Nat
  BY LinkAssumption DEF LinkAssumption
<1>2. \A i \in 1 .. Len(ring) : ring[i].ts \in Nat
  BY TimestampType
<1>3. /\ Len(longer) = Len(ring) + 1 /\ Len(ring) \in Nat
      /\ \A i \in 1 .. Len(ring) : longer[i] = ring[i]
      /\ longer[Len(ring) + 1] = m
  BY AppendProperties, LenProperties
<1>. HIDE DEF longer
<1>4. ASSUME NEW i \in 1 .. Len(longer)
      PROVE  seen <= longer[i].ts /\ longer[i].ts <= now + LinkLatency
  BY <1>1, <1>2, <1>3 DEF Ordered
<1>5. ASSUME NEW i \in 1 .. Len(longer), NEW j \in 1 .. Len(longer), i <= j
      PROVE  longer[i].ts <= longer[j].ts
  <2>1. CASE j = Len(ring) + 1
    BY <1>3, <1>4, <2>1
  <2>2. CASE j # Len(ring) + 1
    BY <1>3, <1>5, <2>2 DEF Ordered
  <2>. QED  BY <2>1, <2>2
<1>6. Ordered(longer, seen, now)
  BY <1>4, <1>5 DEF Ordered
<1>. QED  BY <1>6 DEF longer

\* A ring stays ordered when its consumer takes the oldest message, which
\* is not older than the one before.
LEMMA OrderedTail ==
  ASSUME NEW Types, NEW ring \in Seq(Messages(Types)), ring # <<>>,
         NEW seen \in Nat, NEW now \in Nat,
         Ordered(ring, seen, now)
  PROVE  /\ Head(ring).ts \in Nat /\ seen <= Head(ring).ts
         /\ Ordered(Tail(ring), Head(ring).ts, now)
<1>1. /\ Head(ring) = ring[1] /\ Head(ring).ts \in Nat
      /\ Len(Tail(ring)) = Len(ring) - 1
      /\ \A i \in 1 .. Len(Tail(ring)) : Tail(ring)[i] = ring[i + 1]
  BY HeadType DEF Messages
<1>2. Len(ring) \in Nat /\ Len(ring) >= 1
  BY LenProperties, EmptySeq
<1>3. \A i \in 1 .. Len(Tail(ring)) : i + 1 \in 1 .. Len(ring)
  BY <1>1, <1>2
<1>. QED  BY <1>1, <1>2, <1>3 DEF Ordered

\* A ring stays ordered when its consumer has seen the timestamp of the
\* message waiting to become due.
LEMMA OrderedPeek ==
  ASSUME NEW Types, NEW ring \in Seq(Messages(Types)), NEW seen \in Nat,
         NEW now \in Nat, Ordered(ring, seen, now)
  PROVE  /\ PeekedTs(ring, seen) \in Nat
         /\ seen <= PeekedTs(ring, seen)
         /\ Ordered(ring, PeekedTs(ring, seen), now)
<1>1. CASE ~Visible(ring)
  BY <1>1 DEF PeekedTs
<1>2. CASE Visible(ring)
  <2>0. ring # <<>>
    BY <1>2 DEF Visible
  <2>1. Head(ring) = ring[1] /\ ring[1].ts \in Nat /\ 1 \in 1 .. Len(ring)
    <3>1. Len(ring) \in Nat /\ Len(ring) # 0
      BY <2>0, LenProperties, EmptySeq
    <3>2. 1 \in 1 .. Len(ring)
      BY <3>1
    <3>. QED  BY <2>0, <3>2, HeadType, TimestampType
  <2>2. PeekedTs(ring, seen) = ring[1].ts
    BY <1>2, <2>1 DEF PeekedTs
  <2>. QED  BY <2>1, <2>2 DEF Ordered
<1>. QED  BY <1>1, <1>2

\* Filling a slot keeps the ring ordered: its timestamp is that of the
\* allocation.
LEMMA OrderedSameTs ==
  ASSUME NEW ring, NEW filled, NEW seen, NEW now,
         Len(filled) = Len(ring),
         \A i \in 1 .. Len(ring) : filled[i].ts = ring[i].ts,
         Ordered(ring, seen, now)
  PROVE  Ordered(filled, seen, now)
BY DEF Ordered

----------------------------------------------------------------------------
(* The time invariant                                                      *)

\* The time invariant holds when the link has come up.
LEMMA TimeInit == Init => TimeInv
<1>. SUFFICES ASSUME Init PROVE TimeInv
  OBVIOUS
<1>1. LinkLatency \in Nat /\ SyncInterval \in Nat
  BY LinkAssumption DEF LinkAssumption
<1>2. /\ h2d = <<Plain("devctrl", 0)>> /\ d2h = <<>> /\ hOut = <<>>
      /\ mainTime = 0 /\ inTs = 0 /\ nextSync = 0 /\ call = "none"
      /\ hNow = 0 /\ hInTs = 0
  BY DEF Init, LinkInit, DeviceInit, HostInit
<1>. DEFINE m == Plain("devctrl", 0)
<1>3. m.ts = LinkLatency
  BY <1>1 DEF Plain
<1>. HIDE DEF m
<1>4. Len(h2d) = 1 /\ h2d[1] = m
  BY <1>2 DEF m
<1>5. Ordered(h2d, 0, 0)
  BY <1>1, <1>3, <1>4 DEF Ordered
<1>6. Ordered(d2h, 0, 0)
  BY <1>1, <1>2 DEF Ordered
<1>. QED  BY <1>1, <1>2, <1>5, <1>6 DEF TimeInv

\* What the invariant relates, when a step leaves it alone.
ringTimes == <<h2d, d2h, mainTime, inTs, nextSync, hNow, hInTs, hOut>>

\* A step that neither touches the rings nor the clocks, nor starts a clock
\* call, keeps the time invariant.
LEMMA TimeFramed ==
  ASSUME TimeInv, UNCHANGED ringTimes,
         call' = "clock" => call = "clock" /\ target' = target
  PROVE  TimeInv'
BY DEF TimeInv, ringTimes

\* A slot is allocated: a SYNC, a completion or a DMA.
LEMMA AllocTime ==
  ASSUME TypeOK, TimeInv, NEW type \in D2HTypes,
         d2h' = Append(d2h, Plain(type, mainTime)),
         nextSync' = mainTime + SyncInterval,
         UNCHANGED <<h2d, mainTime, inTs, call, target, hNow, hInTs, hOut>>
  PROVE  TimeInv'
<1>. DEFINE m == Plain(type, mainTime)
<1>1. m \in Messages(D2HTypes) /\ m.ts = mainTime + LinkLatency
  BY PlainType DEF TypeOK, Plain
<1>. HIDE DEF m
<1>2. d2h' = Append(d2h, m)
  BY DEF m
<1>3. Ordered(d2h', hInTs', mainTime')
  BY <1>1, <1>2, OrderedAppend DEF TypeOK, TimeInv
<1>4. SyncInterval \in Nat /\ mainTime \in Nat /\ target \in Nat /\ nextSync \in Nat
  BY LinkAssumption DEF LinkAssumption, TypeOK
<1>. QED  BY <1>3, <1>4 DEF TimeInv

\* SendPcieOut keeps the timestamp of the slot.
LEMMA SendTime ==
  ASSUME ProtocolInv, TimeInv, pc \in SendPcs,
         NEW from, NEW to, NEW type \in D2HTypes, NEW id \in Nat, NEW at,
         at.bar \in Nat, at.offset \in Nat, at.len \in Nat,
         SendPcieOut(from, to, type, id, at), UNCHANGED hostVars
  PROVE  TimeInv'
<1>1. d2h \in Seq(Messages(D2HTypes)) /\ d2h # <<>>
  BY DEF ProtocolInv, TypeOK, SlotInv
<1>2. d2h' = [d2h EXCEPT ![Len(d2h)] =
               [type |-> type, ts |-> @.ts, id |-> id,
                bar |-> at.bar, offset |-> at.offset, len |-> at.len]]
  BY DEF SendPcieOut
<1>3. Len(d2h') = Len(d2h) /\ \A i \in 1 .. Len(d2h) : d2h'[i].ts = d2h[i].ts
  BY <1>1, <1>2, FillLast
<1>4. Ordered(d2h', hInTs, mainTime)
  BY <1>3, OrderedSameTs DEF TimeInv
<1>. QED
  BY <1>4 DEF TimeInv, SendPcieOut, timeVars, libVars, hostVars

\* A message is taken off the host's ring, or seen at its head.
LEMMA ConsumeTime ==
  ASSUME TypeOK, TimeInv, h2d # <<>>, Consume,
         UNCHANGED <<call, target, hNow, hInTs, hOut>>
  PROVE  TimeInv'
<1>1. /\ inTs' \in Nat /\ inTs <= inTs'
      /\ Ordered(h2d', inTs', hNow)
  BY OrderedTail DEF TypeOK, TimeInv, Consume
<1>2. mainTime \in Nat /\ inTs \in Nat /\ target \in Nat
  BY DEF TypeOK
<1>. QED  BY <1>1, <1>2 DEF TimeInv, Consume

\* A poll that finds nothing refreshes the deadline and never moves it back.
LEMMA PolledDryTime ==
  ASSUME TypeOK, TimeInv, NEW from, PolledDry(from),
         UNCHANGED <<h2d, d2h, mainTime, nextSync, call, target, hNow, hInTs,
                     hOut>>
  PROVE  TimeInv'
<1>1. inTs' \in Nat /\ inTs <= inTs' /\ Ordered(h2d, inTs', hNow)
  BY OrderedPeek DEF TypeOK, TimeInv, PolledDry
<1>2. mainTime \in Nat /\ inTs \in Nat /\ target \in Nat
  BY DEF TypeOK
<1>. QED  BY <1>1, <1>2 DEF TimeInv

\* The adapter's time moves on inside the window.
LEMMA AdvanceTime ==
  ASSUME TypeOK, TimeInv, inTs' \in Nat, inTs <= inTs',
         mainTime' \in Nat, mainTime <= mainTime',
         mainTime' <= inTs', mainTime' <= nextSync,
         Ordered(h2d, inTs', hNow),
         call' = "clock" => call = "clock" /\ target' = target,
         UNCHANGED <<h2d, d2h, nextSync, hNow, hInTs, hOut>>
  PROVE  TimeInv'
<1>1. SyncInterval \in Nat /\ nextSync \in Nat /\ mainTime \in Nat
      /\ target \in Nat /\ inTs \in Nat
  BY LinkAssumption DEF LinkAssumption, TypeOK
<1>2. nextSync <= mainTime' + SyncInterval
  <2>1. nextSync <= mainTime + SyncInterval
    BY DEF TimeInv
  <2>2. \A a, b, c, d \in Nat : a <= b + c /\ b <= d => a <= d + c
    OBVIOUS
  <2>. QED  BY <1>1, <2>1, <2>2
<1>3. Ordered(d2h, hInTs, mainTime')
  BY OrderedLater DEF TypeOK, TimeInv
<1>4. call' = "clock" => target' <= inTs' /\ target' <= nextSync
  BY <1>1 DEF TimeInv
<1>. QED  BY <1>2, <1>3, <1>4 DEF TimeInv

\* A step of the adapter keeps the time invariant and does not set its clock
\* back.
LEMMA DeviceTime ==
  ASSUME ProtocolInv, TimeInv, IsSync, DeviceNext, UNCHANGED hostVars
  PROVE  TimeInv' /\ mainTime <= mainTime'
<1>0. TypeOK /\ UNCHANGED <<hNow, hInTs, hNextSync, hOut>>
  BY DEF ProtocolInv, hostVars
<1>n. mainTime \in Nat /\ inTs \in Nat /\ nextSync \in Nat /\ target \in Nat
  BY <1>0 DEF TypeOK
<1>e. ASSUME NEW how, Exit(how) PROVE TimeInv' /\ mainTime <= mainTime'
  <2>1. UNCHANGED ringTimes /\ UNCHANGED <<call, target>>
    BY <1>0, <1>e DEF Exit, ringTimes, linkVars, timeVars, libVars
  <2>. QED  BY <1>n, <2>1, TimeFramed DEF ringTimes
<1>1. ASSUME NEW from, NEW to, OutSync(from, to)
      PROVE  TimeInv' /\ mainTime <= mainTime'
  <2>1. UNCHANGED <<h2d, mainTime, inTs, call, target>>
    BY <1>1 DEF OutSync, libVars
  <2>2. CASE UNCHANGED <<d2h, nextSync>>
    BY <1>0, <1>n, <2>1, <2>2, TimeFramed DEF ringTimes
  <2>3. CASE d2h' = Append(d2h, Plain("sync", mainTime))
             /\ nextSync' = mainTime + SyncInterval
    <3>1. "sync" \in D2HTypes
      BY DEF D2HTypes
    <3>. QED  BY <1>0, <1>n, <2>1, <2>3, <3>1, AllocTime
  <2>. QED  BY <1>1, <2>2, <2>3 DEF OutSync
<1>2. ASSUME NEW from, NEW to, AllocPcieOut(from, to)
      PROVE  TimeInv' /\ mainTime <= mainTime'
  <2>1. CASE Exit("sendCut")
    BY <1>e, <2>1
  <2>2. CASE /\ d2h' = Append(d2h, Plain("held", mainTime))
             /\ nextSync' = mainTime + SyncInterval
             /\ UNCHANGED <<h2d, mainTime, inTs, libVars>>
    <3>1. "held" \in D2HTypes
      BY DEF D2HTypes
    <3>. QED  BY <1>0, <1>n, <2>2, <3>1, AllocTime DEF libVars
  <2>. QED  BY <1>2, <2>1, <2>2 DEF AllocPcieOut
<1>3. ASSUME DmaSend \/ ReplySend PROVE TimeInv' /\ mainTime <= mainTime'
  <2>1. mainTime' = mainTime
    BY <1>3 DEF DmaSend, ReplySend, SendPcieOut, timeVars
  <2>2. CASE DmaSend
    <3>. DEFINE at == [bar |-> 0, offset |-> dma.off, len |-> Chunk]
    <3>1. dma.kind \in {"read", "write"} /\ dma.no \in Nat /\ dma.off \in Nat
          /\ Chunk \in Nat
      BY <1>0, ChunkType DEF TypeOK, Dmas
    <3>2. at.bar \in Nat /\ at.offset \in Nat /\ at.len \in Nat
          /\ dma.kind \in D2HTypes
      BY <3>1 DEF D2HTypes
    <3>3. SendPcieOut("dmaSend", "pumpSync", dma.kind, dma.no, at)
          /\ pc \in SendPcs
      BY <2>2 DEF DmaSend, SendPcieOut, SendPcs
    <3>. HIDE DEF at
    <3>. QED  BY <1>n, <2>1, <3>1, <3>2, <3>3, SendTime
  <2>3. CASE ReplySend
    <3>. DEFINE type == IF r.type = "read" THEN "readcomp" ELSE "writecomp"
    <3>1. r.id \in Nat /\ r.bar \in Nat /\ r.offset \in Nat /\ r.len \in Nat
      BY <1>0 DEF TypeOK, MmioReqs
    <3>2. type \in D2HTypes
      BY DEF D2HTypes, CompTypes
    <3>3. SendPcieOut("replySend", "drain", type, r.id, r) /\ pc \in SendPcs
      BY <2>3 DEF ReplySend, SendPcieOut, SendPcs
    <3>. HIDE DEF type
    <3>. QED  BY <1>n, <2>1, <3>1, <3>2, <3>3, SendTime
  <2>. QED  BY <1>3, <2>2, <2>3
<1>4. ASSUME PollPcie PROVE TimeInv' /\ mainTime <= mainTime'
  <2>1. CASE PollOversize
    BY <1>e, <2>1 DEF PollOversize
  <2>2. CASE PollMmio \/ PollCompletion \/ PollControl
    <3>1. h2d # <<>> /\ Consume /\ UNCHANGED <<call, target>>
      BY <2>2 DEF PollMmio, PollCompletion, PollControl, Polling, Pollable,
         Visible, libVars
    <3>2. mainTime' = mainTime
      BY <3>1 DEF Consume
    <3>. QED  BY <1>0, <1>n, <3>1, <3>2, ConsumeTime
  <2>. QED  BY <1>4, <2>1, <2>2 DEF PollPcie
<1>5. ASSUME PollPcieAllEnds \/ DmaChunkDone
      PROVE  TimeInv' /\ mainTime <= mainTime'
  <2>1. PolledDry("poll") \/ PolledDry("pumpPoll")
    BY <1>5 DEF PollPcieAllEnds, DmaChunkDone
  <2>2. UNCHANGED <<h2d, d2h, mainTime, nextSync, call, target>>
    BY <1>5 DEF PollPcieAllEnds, DmaChunkDone, linkVars, libVars
  <2>. QED  BY <1>0, <1>n, <2>1, <2>2, PolledDryTime
<1>6. ASSUME DmaPumpAdvance PROVE TimeInv' /\ mainTime <= mainTime'
  <2>. DEFINE cap == mainTime + MaxBatch * PsPerClock
              window == Earlier(inTs', nextSync)
              next == Earlier(window, cap)
  <2>1. MaxBatch * PsPerClock \in Nat
    BY ProductType, TtsimAssumption DEF TtsimAssumption
  <2>2. /\ inTs' \in Nat /\ inTs <= inTs' /\ Ordered(h2d, inTs', hNow)
        /\ UNCHANGED <<h2d, d2h, nextSync, call, target>>
    BY <1>0, <1>6, OrderedPeek
       DEF DmaPumpAdvance, PolledDry, TypeOK, TimeInv, linkVars, libVars
  <2>3. mainTime' = Later(mainTime, next)
    BY <1>6 DEF DmaPumpAdvance, Bounded
  <2>4. cap \in Nat
    BY <1>n, <2>1
  <2>. HIDE DEF cap
  <2>5. window \in Nat /\ window <= inTs' /\ window <= nextSync
    BY <1>n, <2>2, EarlierType
  <2>. HIDE DEF window
  <2>6. next \in Nat /\ next <= window
    BY <2>4, <2>5, EarlierType
  <2>. HIDE DEF next
  <2>7. mainTime' \in Nat /\ mainTime <= mainTime' /\ mainTime' \in {mainTime, next}
    BY <1>n, <2>3, <2>6, EarlierType
  <2>8. mainTime <= inTs /\ mainTime <= nextSync
    BY DEF TimeInv
  <2>9. mainTime' <= inTs' /\ mainTime' <= nextSync
    BY <1>n, <2>2, <2>5, <2>6, <2>7, <2>8
  <2>. QED  BY <1>0, <2>2, <2>7, <2>9, AdvanceTime
<1>7. ASSUME JumpToDeadline PROVE TimeInv' /\ mainTime <= mainTime'
  <2>1. mainTime' = Earlier(inTs, nextSync) /\ mainTime <= mainTime'
        /\ UNCHANGED <<h2d, d2h, inTs, nextSync, call, target>>
    BY <1>7, <1>n, EarlierType
       DEF JumpToDeadline, NextSimbricksDeadline, linkVars, libVars
  <2>2. mainTime' \in Nat /\ mainTime' <= inTs' /\ mainTime' <= nextSync
    BY <1>n, <2>1, EarlierType
  <2>3. Ordered(h2d, inTs', hNow)
    BY <2>1 DEF TimeInv
  <2>. QED  BY <1>0, <1>n, <2>1, <2>2, <2>3, AdvanceTime
<1>8. ASSUME RunClocks PROVE TimeInv' /\ mainTime <= mainTime'
  <2>1. target' \in Nat /\ target' <= NextSimbricksDeadline
    BY <1>0, <1>8, RunClocksTarget
  <2>2. target' <= inTs /\ target' <= nextSync
    <3>. DEFINE d == Earlier(inTs, nextSync)
    <3>1. d \in Nat /\ d <= inTs /\ d <= nextSync
      BY <1>n, EarlierType
    <3>2. target' <= d
      BY <2>1 DEF NextSimbricksDeadline
    <3>. HIDE DEF d
    <3>. QED  BY <1>n, <2>1, <3>1, <3>2
  <2>3. UNCHANGED ringTimes
    BY <1>0, <1>8 DEF RunClocks, ringTimes, linkVars, timeVars
  <2>. QED  BY <1>n, <2>2, <2>3 DEF TimeInv, ringTimes
<1>9. ASSUME ClockReturns PROVE TimeInv' /\ mainTime <= mainTime'
  <2>1. mainTime' = Later(mainTime, target) /\ call' = "none"
        /\ UNCHANGED <<h2d, d2h, inTs, nextSync>>
    BY <1>9 DEF ClockReturns, Bounded, linkVars
  <2>2. mainTime <= inTs /\ mainTime <= nextSync
        /\ target <= inTs /\ target <= nextSync /\ Ordered(h2d, inTs', hNow)
    BY <1>9, <2>1 DEF TimeInv, ClockReturns
  <2>3. mainTime' \in Nat /\ mainTime <= mainTime'
        /\ mainTime' <= inTs' /\ mainTime' <= nextSync
    BY <1>n, <2>1, <2>2, EarlierType
  <2>. QED  BY <1>0, <1>n, <2>1, <2>2, <2>3, AdvanceTime
<1>10. ASSUME \/ \E kind \in {"read", "write"}, size \in DmaSizes :
                   LibDma(kind, size)
              \/ DrainRequest \/ MmioReturns \/ DrainEnds \/ WaitForPeer
              \/ LoopTail
       PROVE  TimeInv' /\ mainTime <= mainTime'
  <2>1. UNCHANGED ringTimes
    BY <1>0, <1>10 DEF LibDma, DrainRequest, MmioReturns, DrainEnds,
       WaitForPeer, LoopTail, ringTimes, linkVars, timeVars
  <2>2. call' = "clock" => call = "clock" /\ target' = target
    BY <1>10 DEF LibDma, DrainRequest, MmioReturns, DrainEnds,
       WaitForPeer, LoopTail, libVars
  <2>. QED  BY <1>n, <2>1, <2>2, TimeFramed DEF ringTimes
<1>11. ASSUME DmaCut \/ DrainOverrun PROVE TimeInv' /\ mainTime <= mainTime'
  BY <1>e, <1>11 DEF DmaCut, DrainOverrun
<1>. QED
  BY <1>1, <1>2, <1>3, <1>4, <1>5, <1>6, <1>7, <1>8, <1>9, <1>10, <1>11
     DEF DeviceNext

\* A step of the host changes its own half of the invariant.
LEMMA HostFramed ==
  ASSUME TimeInv, UNCHANGED <<mainTime, inTs, nextSync, call, target>>,
         hNow' <= hInTs',
         Ordered(h2d', inTs, hNow'),
         Ordered(d2h', hInTs', mainTime),
         \A i \in 1 .. Len(hOut') : hOut'[i].ts = hNow' + LinkLatency
  PROVE  TimeInv'
BY DEF TimeInv

\* A step of the host keeps the time invariant.
LEMMA HostTime ==
  ASSUME ProtocolInv, TimeInv, IsSync, HostNext, UNCHANGED deviceVars
  PROVE  TimeInv' /\ mainTime <= mainTime'
<1>0. TypeOK /\ UNCHANGED <<mainTime, inTs, nextSync, call, target>>
  BY DEF ProtocolInv, deviceVars, timeVars, libVars
<1>n. mainTime \in Nat /\ inTs \in Nat /\ hNow \in Nat /\ hInTs \in Nat
      /\ LinkLatency \in Nat
  BY <1>0, LinkAssumption DEF TypeOK, LinkAssumption
<1>1. ASSUME NEW m, hOut' = <<m>>, m.ts = hNow + LinkLatency,
             UNCHANGED <<h2d, d2h, hNow, hInTs>>
      PROVE  TimeInv'
  <2>1. \A i \in 1 .. Len(hOut') : hOut'[i].ts = hNow' + LinkLatency
    BY <1>1
  <2>. QED  BY <1>0, <1>1, <2>1 DEF TimeInv
<1>2. CASE HostSync
  <2>. DEFINE m == Plain("sync", hNow)
  <2>1. m.ts = hNow + LinkLatency
    BY DEF Plain
  <2>2. hOut' = <<m>> /\ UNCHANGED <<h2d, d2h, hNow, hInTs>>
    BY <1>2 DEF HostSync, linkVars
  <2>. HIDE DEF m
  <2>. QED  BY <1>0, <1>n, <1>1, <2>1, <2>2
<1>3. CASE HostTerminate
  <2>. DEFINE m == Plain("terminate", hNow)
  <2>1. m.ts = hNow + LinkLatency
    BY DEF Plain
  <2>2. hOut' = <<m>>
        /\ UNCHANGED <<h2d, d2h, hNow, hInTs>>
    BY <1>3 DEF HostTerminate, linkVars
  <2>. HIDE DEF m
  <2>. QED  BY <1>0, <1>n, <1>1, <2>1, <2>2
<1>4. ASSUME NEW t \in Targets, HostIssue(t) PROVE TimeInv'
  <2>1. Tagged(t.type, hNow, Len(issued'), t).ts = hNow + LinkLatency
    BY DEF Tagged
  <2>2. hOut' = <<Tagged(t.type, hNow, Len(issued'), t)>>
        /\ UNCHANGED <<h2d, d2h, hNow, hInTs>>
    BY <1>4 DEF HostIssue, linkVars
  <2>. QED  BY <1>1, <2>1, <2>2
<1>5. CASE HostSend
  <2>1. /\ hOut # <<>> /\ h2d' = Append(h2d, Head(hOut)) /\ hOut' = <<>>
        /\ UNCHANGED <<d2h, hNow, hInTs>>
    BY <1>5 DEF HostSend
  <2>2. Head(hOut) \in Messages(H2DTypes) /\ Head(hOut) = hOut[1]
        /\ 1 \in 1 .. Len(hOut)
    <3>1. Len(hOut) \in Nat /\ Len(hOut) # 0
      BY <1>0, <2>1, LenProperties, EmptySeq DEF TypeOK
    <3>. QED  BY <1>0, <2>1, <3>1, HeadType DEF TypeOK
  <2>3. Head(hOut).ts = hNow + LinkLatency
    BY <2>2 DEF TimeInv
  <2>4. Ordered(h2d', inTs, hNow)
    BY <1>0, <2>1, <2>2, <2>3, OrderedAppend DEF TypeOK, TimeInv
  <2>5. \A i \in 1 .. Len(hOut') : hOut'[i].ts = hNow' + LinkLatency
    BY <2>1
  <2>6. hNow <= hInTs /\ Ordered(d2h, hInTs, mainTime)
    BY DEF TimeInv
  <2>. QED  BY <1>0, <1>n, <2>1, <2>4, <2>5, <2>6, HostFramed
<1>6. CASE HostPoll
  <2>. DEFINE m == Head(d2h)
  <2>1. /\ d2h # <<>> /\ d2h' = Tail(d2h) /\ hInTs' = m.ts
        /\ UNCHANGED <<h2d, hNow>>
    BY <1>6 DEF HostPoll, Pollable, Visible
  <2>2. m.ts \in Nat /\ hInTs <= m.ts /\ Ordered(d2h', hInTs', mainTime)
    BY <1>0, <2>1, OrderedTail DEF TypeOK, TimeInv
  <2>3. \/ hOut' = <<Tagged("readcomp", hNow, m.id, m)>>
        \/ hOut' = <<Tagged("writecomp", hNow, m.id, m)>>
        \/ hOut' = <<>>
    BY <1>6 DEF HostPoll
  <2>. HIDE DEF m
  <2>4. \A i \in 1 .. Len(hOut') : hOut'[i].ts = hNow' + LinkLatency
    BY <2>1, <2>3 DEF Tagged
  <2>5. hNow <= hInTs'
    BY <1>n, <2>1, <2>2 DEF TimeInv
  <2>6. Ordered(h2d, inTs, hNow)
    BY DEF TimeInv
  <2>. QED  BY <1>0, <1>n, <2>1, <2>2, <2>4, <2>5, <2>6, HostFramed
<1>7. CASE HostAdvance
  <2>1. /\ hInTs' = PeekedTs(d2h, hInTs) /\ hOut = <<>>
        /\ UNCHANGED <<h2d, d2h, hOut>>
    BY <1>7 DEF HostAdvance, Running, linkVars
  <2>2. hInTs' \in Nat /\ Ordered(d2h, hInTs', mainTime)
    BY <1>0, <2>1, OrderedPeek DEF TypeOK, TimeInv
  <2>3. hNextSync \in Nat /\ HostHorizon \in Nat
    BY <1>0, HostAssumption DEF TypeOK, HostAssumption
  <2>4. hNow' \in (hNow + 1) .. Earlier(Earlier(hInTs', hNextSync), HostHorizon)
    BY <1>7 DEF HostAdvance
  <2>5. Earlier(Earlier(hInTs', hNextSync), HostHorizon) \in Nat
        /\ Earlier(Earlier(hInTs', hNextSync), HostHorizon) <= hInTs'
    <3>. DEFINE e == Earlier(hInTs', hNextSync)
    <3>1. e \in Nat /\ e <= hInTs'
      BY <2>2, <2>3, EarlierType
    <3>. HIDE DEF e
    <3>2. Earlier(e, HostHorizon) \in Nat /\ Earlier(e, HostHorizon) <= e
      BY <2>3, <3>1, EarlierType
    <3>3. Earlier(e, HostHorizon) \in Nat /\ Earlier(e, HostHorizon) <= hInTs'
      BY <2>2, <3>1, <3>2
    <3>. QED  BY <3>3 DEF e
  <2>6. hNow' \in Nat /\ hNow <= hNow' /\ hNow' <= hInTs'
    BY <1>n, <2>2, <2>4, <2>5
  <2>7. Ordered(h2d, inTs, hNow')
    BY <1>0, <1>n, <2>6, OrderedLater DEF TypeOK, TimeInv
  <2>8. \A i \in 1 .. Len(hOut') : hOut'[i].ts = hNow' + LinkLatency
    BY <2>1
  <2>. QED  BY <1>0, <1>n, <2>1, <2>2, <2>6, <2>7, <2>8, HostFramed
<1>. QED
  BY <1>0, <1>n, <1>2, <1>3, <1>4, <1>5, <1>6, <1>7 DEF HostNext

\* Without synchronization a time that saturates does not go back either.
LEMMA UnsyncTime ==
  ASSUME TypeOK, ~IsSync, mainTime <= Horizon, Next
  PROVE  mainTime' <= Horizon /\ mainTime <= mainTime'
<1>n. mainTime \in Nat /\ target \in Nat /\ Horizon \in Nat
  BY TtsimAssumption DEF TypeOK, TtsimAssumption
<1>1. CASE UNCHANGED mainTime
  BY <1>n, <1>1
<1>2. ASSUME NEW t \in Nat, mainTime' = Bounded(Later(mainTime, t))
      PROVE  mainTime' <= Horizon /\ mainTime <= mainTime'
  <2>1. mainTime' = Earlier(Later(mainTime, t), Horizon)
    BY <1>2 DEF Bounded
  <2>2. Later(mainTime, t) \in Nat /\ mainTime <= Later(mainTime, t)
    BY <1>n, EarlierType
  <2>3. mainTime' \in {Later(mainTime, t), Horizon} /\ mainTime' <= Horizon
    BY <1>n, <2>1, <2>2, EarlierType
  <2>. QED  BY <1>n, <2>2, <2>3
<1>3. CASE DmaPumpAdvance
  <2>1. MaxBatch * PsPerClock \in Nat
    BY ProductType, TtsimAssumption DEF TtsimAssumption
  <2>2. mainTime + MaxBatch * PsPerClock \in Nat
    BY <1>n, <2>1
  <2>3. mainTime' = Bounded(Later(mainTime, mainTime + MaxBatch * PsPerClock))
    BY <1>3 DEF DmaPumpAdvance
  <2>. QED  BY <1>2, <2>2, <2>3
<1>4. CASE ClockReturns
  BY <1>n, <1>2, <1>4 DEF ClockReturns
<1>5. CASE Next /\ ~DmaPumpAdvance /\ ~ClockReturns
  <2>1. UNCHANGED mainTime
    BY <1>5 DEF Next, Device, DeviceNext, Host, Finished, PollPcie, OutSync,
       AllocPcieOut, Exit, PollMmio, PollOversize, PollCompletion, PollControl,
       Consume, PollPcieAllEnds, LibDma, SendPcieOut, DmaSend, ReplySend,
       DmaChunkDone, DmaCut, MmioReturns, DrainRequest, DrainOverrun, DrainEnds,
       WaitForPeer,
       JumpToDeadline, RunClocks, LoopTail, vars, deviceVars, timeVars
  <2>. QED  BY <1>1, <2>1
<1>. QED  BY <1>3, <1>4, <1>5

\* The time invariant is inductive, given the protocol invariant.
LEMMA TimedNext ==
  ProtocolInv /\ TimedInv /\ [Next]_vars
    => TimedInv' /\ [mainTime' >= mainTime]_vars
<1>. SUFFICES ASSUME ProtocolInv, TimedInv, [Next]_vars
              PROVE  TimedInv' /\ [mainTime' >= mainTime]_vars
  OBVIOUS
<1>n. IsSync \in BOOLEAN /\ TypeOK /\ mainTime \in Nat
  BY LinkAssumption DEF ProtocolInv, TypeOK, LinkAssumption
<1>1. CASE UNCHANGED vars
  <2>1. UNCHANGED ringTimes /\ UNCHANGED <<call, target>>
    BY <1>1 DEF vars, ringTimes, linkVars, deviceVars, timeVars, libVars, hostVars
  <2>2. CASE IsSync
    BY <1>1, <2>1, <2>2, TimeFramed DEF TimedInv
  <2>3. CASE ~IsSync
    BY <1>1, <2>1, <2>3 DEF TimedInv, ringTimes
  <2>. QED  BY <1>n, <2>2, <2>3
<1>2. CASE Next /\ IsSync
  <2>. TimeInv
    BY <1>2 DEF TimedInv
  <2>1. CASE Device
    BY <1>2, <1>n, <2>1, DeviceTime DEF Device, TimedInv
  <2>2. CASE Host
    BY <1>2, <1>n, <2>2, HostTime DEF Host, TimedInv
  <2>3. CASE Finished
    BY <1>1, <2>3 DEF Finished
  <2>. QED  BY <1>2, <2>1, <2>2, <2>3 DEF Next
<1>3. CASE Next /\ ~IsSync
  BY <1>3, <1>n, UnsyncTime DEF TimedInv
<1>. QED  BY <1>1, <1>2, <1>3, <1>n

\* The time invariant holds in every reachable state.
LEMMA TimedAlways == Spec => []TimedInv
<1>1. Init => TimedInv
  BY TimeInit, TtsimAssumption
     DEF TimedInv, Init, DeviceInit, TtsimAssumption
<1>. QED  BY <1>1, ProtocolAlways, TimedNext, PTL DEF Spec

----------------------------------------------------------------------------
(* What follows                                                            *)

\* No message reaches the adapter or the host after its time.
THEOREM MessagesInTime == Spec => []NothingLate
<1>1. ProtocolInv /\ TimedInv => NothingLate
  <2>. SUFFICES ASSUME TypeOK, TimeInv, IsSync PROVE NothingLate
    BY DEF ProtocolInv, TimedInv, NothingLate
  <2>1. mainTime \in Nat /\ inTs \in Nat /\ hNow \in Nat /\ hInTs \in Nat
        /\ mainTime <= inTs /\ hNow <= hInTs
    BY DEF TypeOK, TimeInv
  <2>2. ASSUME NEW i \in 1 .. Len(h2d) PROVE mainTime <= h2d[i].ts
    <3>1. h2d[i].ts \in Nat
      BY TimestampType DEF TypeOK
    <3>2. inTs <= h2d[i].ts
      BY DEF TimeInv, Ordered
    <3>. QED  BY <2>1, <3>1, <3>2
  <2>3. ASSUME NEW i \in 1 .. Len(d2h) PROVE hNow <= d2h[i].ts
    <3>1. d2h[i].ts \in Nat
      BY TimestampType DEF TypeOK
    <3>2. hInTs <= d2h[i].ts
      BY DEF TimeInv, Ordered
    <3>. QED  BY <2>1, <3>1, <3>2
  <2>. QED  BY <2>2, <2>3 DEF NothingLate
<1>. QED  BY <1>1, ProtocolAlways, TimedAlways, PTL

\* The two clocks never drift further apart than the latency of the link.
THEOREM ClocksTogether == Spec => []SkewBounded
<1>1. ProtocolInv /\ TimedInv => SkewBounded
  <2>. SUFFICES ASSUME TypeOK, TimeInv, IsSync PROVE SkewBounded
    BY DEF ProtocolInv, TimedInv, SkewBounded
  <2>1. mainTime \in Nat /\ inTs \in Nat /\ hNow \in Nat /\ hInTs \in Nat
        /\ LinkLatency \in Nat
    BY LinkAssumption DEF TypeOK, LinkAssumption
  <2>2. mainTime <= inTs /\ hNow <= hInTs
    BY DEF TimeInv
  <2>3. inTs <= hNow + LinkLatency /\ hInTs <= mainTime + LinkLatency
    BY DEF TimeInv, Ordered
  <2>. QED  BY <2>1, <2>2, <2>3 DEF SkewBounded
<1>. QED  BY <1>1, ProtocolAlways, TimedAlways, PTL

\* The adapter never runs, and never lets libttsim run, past a sync it owes.
THEOREM SyncsInTime == Spec => []WithinWindow
<1>1. TimedInv => WithinWindow
  BY DEF TimedInv, TimeInv, WithinWindow
<1>. QED  BY <1>1, TimedAlways, PTL

\* Simulated time never goes back.
THEOREM TimeMonotonic == Spec => TimeNeverBack
BY ProtocolAlways, TimedAlways, TimedNext, PTL DEF Spec, TimeNeverBack

----------------------------------------------------------------------------
(* Neither side waits for ever                                             *)

\* The newest timestamp that is known of, on the way or seen already.
Newest(ring, seen) == IF ring = <<>> THEN seen ELSE ring[Len(ring)].ts

\* The newest timestamp is that of the last message the producer sent, and the
\* next sync is counted from the same time.  The adapter sends its first
\* message when it owes the first sync.
SyncInv ==
  /\ Newest(h2d, inTs) + SyncInterval = hNextSync + LinkLatency
  /\ nextSync > 0 => Newest(d2h, hInTs) + SyncInterval = nextSync + LinkLatency

\* Sending, consuming, filling a slot and looking at the ring, as far as the
\* newest timestamp goes.
LEMMA NewestOfRing ==
  ASSUME NEW Types, NEW ring \in Seq(Messages(Types)), NEW seen,
         NEW m \in Messages(Types)
  PROVE  /\ Newest(Append(ring, m), seen) = m.ts
         /\ ring # <<>> =>
              Newest(Tail(ring), Head(ring).ts) = Newest(ring, seen)
         /\ Newest(ring, PeekedTs(ring, seen)) = Newest(ring, seen)
<1>1. Newest(Append(ring, m), seen) = m.ts
  <2>. DEFINE longer == Append(ring, m)
  <2>1. Len(ring) \in Nat /\ Len(longer) = Len(ring) + 1
        /\ longer[Len(ring) + 1] = m /\ longer # <<>>
    BY AppendProperties, LenProperties
  <2>. HIDE DEF longer
  <2>2. Newest(longer, seen) = m.ts
    BY <2>1 DEF Newest
  <2>. QED  BY <2>2 DEF longer
<1>2. ASSUME ring # <<>>
      PROVE  Newest(Tail(ring), Head(ring).ts) = Newest(ring, seen)
  <2>. DEFINE rest == Tail(ring)
  <2>1. /\ Head(ring) = ring[1] /\ rest \in Seq(Messages(Types))
        /\ Len(rest) = Len(ring) - 1
        /\ \A i \in 1 .. Len(rest) : rest[i] = ring[i + 1]
    BY <1>2, HeadType
  <2>2. Len(ring) \in Nat /\ Len(ring) # 0
    BY <1>2, LenProperties, EmptySeq
  <2>. HIDE DEF rest
  <2>3. rest = <<>> <=> Len(rest) = 0
    BY <2>1, EmptySeq
  <2>4. CASE Len(ring) = 1
    BY <1>2, <2>1, <2>3, <2>4 DEF Newest, rest
  <2>5. CASE Len(ring) # 1
    <3>1. Len(rest) \in 1 .. Len(rest) /\ Len(rest) + 1 = Len(ring)
      BY <2>1, <2>2, <2>5
    <3>2. rest[Len(rest)] = ring[Len(ring)] /\ rest # <<>>
      BY <2>1, <2>3, <3>1
    <3>. QED  BY <1>2, <3>2 DEF Newest, rest
  <2>. QED  BY <2>4, <2>5
<1>3. Newest(ring, PeekedTs(ring, seen)) = Newest(ring, seen)
  BY DEF Newest, PeekedTs, Visible
<1>. QED  BY <1>1, <1>2, <1>3

\* A slot that is filled keeps its timestamp.
LEMMA NewestFilled ==
  ASSUME NEW Types, NEW ring \in Seq(Messages(Types)), ring # <<>>,
         NEW filled, NEW seen, filled # <<>>, Len(filled) = Len(ring),
         \A i \in 1 .. Len(ring) : filled[i].ts = ring[i].ts
  PROVE  Newest(filled, seen) = Newest(ring, seen)
<1>1. Len(ring) \in 1 .. Len(ring)
  BY LenProperties, EmptySeq
<1>. QED  BY <1>1 DEF Newest

\* The link has come up with one message of the host's.
LEMMA SyncInit == Init => SyncInv
<1>. SUFFICES ASSUME Init PROVE SyncInv
  OBVIOUS
<1>. DEFINE m == Plain("devctrl", 0)
<1>1. m.ts = LinkLatency /\ LinkLatency \in Nat /\ SyncInterval \in Nat
  BY LinkAssumption DEF Plain, LinkAssumption
<1>2. h2d = <<m>> /\ nextSync = 0 /\ hNextSync = SyncInterval
  BY DEF Init, LinkInit, DeviceInit, HostInit
<1>. HIDE DEF m
<1>3. Newest(h2d, inTs) = LinkLatency
  BY <1>1, <1>2 DEF Newest
<1>. QED  BY <1>1, <1>2, <1>3 DEF SyncInv

\* A message of the adapter's, and the next sync counted from it.
LEMMA SyncAlloc ==
  ASSUME TypeOK, SyncInv, NEW type \in D2HTypes,
         d2h' = Append(d2h, Plain(type, mainTime)),
         nextSync' = mainTime + SyncInterval,
         UNCHANGED <<h2d, inTs, hInTs, hNextSync>>
  PROVE  SyncInv'
<1>. DEFINE m == Plain(type, mainTime)
<1>1. m \in Messages(D2HTypes) /\ m.ts = mainTime + LinkLatency
  BY PlainType DEF TypeOK, Plain
<1>. HIDE DEF m
<1>2. d2h' = Append(d2h, m)
  BY DEF m
<1>3. Newest(d2h', hInTs') = mainTime + LinkLatency
  BY <1>1, <1>2, NewestOfRing DEF TypeOK
<1>4. mainTime \in Nat /\ LinkLatency \in Nat /\ SyncInterval \in Nat
  BY LinkAssumption DEF TypeOK, LinkAssumption
<1>. QED  BY <1>3, <1>4 DEF SyncInv

\* The adapter's steps keep the distance.
LEMMA DeviceSync ==
  ASSUME ProtocolInv, SyncInv, DeviceNext, UNCHANGED hostVars
  PROVE  SyncInv'
<1>0. TypeOK /\ UNCHANGED <<hInTs, hNextSync>>
  BY DEF ProtocolInv, hostVars
<1>u. ASSUME UNCHANGED <<h2d, d2h, inTs, nextSync>> PROVE SyncInv'
  BY <1>0, <1>u DEF SyncInv
<1>e. ASSUME NEW how, Exit(how) PROVE SyncInv'
  BY <1>e, <1>u DEF Exit, linkVars, timeVars
<1>1. ASSUME NEW from, NEW to, OutSync(from, to) PROVE SyncInv'
  <2>1. UNCHANGED <<h2d, inTs>> /\ "sync" \in D2HTypes
    BY <1>1 DEF OutSync, D2HTypes
  <2>2. CASE UNCHANGED <<d2h, nextSync>>
    BY <1>u, <2>1, <2>2
  <2>3. CASE d2h' = Append(d2h, Plain("sync", mainTime))
             /\ nextSync' = mainTime + SyncInterval
    BY <1>0, <2>1, <2>3, SyncAlloc
  <2>. QED  BY <1>1, <2>2, <2>3 DEF OutSync
<1>2. ASSUME NEW from, NEW to, AllocPcieOut(from, to) PROVE SyncInv'
  <2>1. CASE Exit("sendCut")
    BY <1>e, <2>1
  <2>2. CASE /\ d2h' = Append(d2h, Plain("held", mainTime))
             /\ nextSync' = mainTime + SyncInterval
             /\ UNCHANGED <<h2d, inTs>>
    <3>1. "held" \in D2HTypes
      BY DEF D2HTypes
    <3>. QED  BY <1>0, <2>2, <3>1, SyncAlloc
  <2>. QED  BY <1>2, <2>1, <2>2 DEF AllocPcieOut
<1>3. ASSUME NEW from, NEW to, NEW type, NEW id, NEW at,
             SendPcieOut(from, to, type, id, at), pc \in SendPcs
      PROVE  SyncInv'
  <2>1. d2h \in Seq(Messages(D2HTypes)) /\ d2h # <<>>
    BY <1>0, <1>3 DEF ProtocolInv, TypeOK, SlotInv
  <2>2. /\ d2h' = [d2h EXCEPT ![Len(d2h)] =
                    [type |-> type, ts |-> @.ts, id |-> id,
                     bar |-> at.bar, offset |-> at.offset, len |-> at.len]]
        /\ UNCHANGED <<h2d, inTs, nextSync>>
    BY <1>3 DEF SendPcieOut, timeVars
  <2>3. /\ Len(d2h') = Len(d2h) /\ d2h' # <<>>
        /\ \A i \in 1 .. Len(d2h) : d2h'[i].ts = d2h[i].ts
    <3>1. Len(d2h) \in 1 .. Len(d2h) /\ DOMAIN d2h = 1 .. Len(d2h)
      BY <2>1, LenProperties, EmptySeq
    <3>2. DOMAIN d2h' = 1 .. Len(d2h)
          /\ \A i \in 1 .. Len(d2h) : d2h'[i].ts = d2h[i].ts
      BY <2>2, <3>1
    <3>3. Len(d2h') = Len(d2h)
      BY <2>2
    <3>4. d2h' # <<>>
      BY <3>1, <3>3
    <3>. QED  BY <3>2, <3>3, <3>4
  <2>4. Newest(d2h', hInTs) = Newest(d2h, hInTs)
    BY <2>1, <2>3, NewestFilled
  <2>. QED  BY <1>0, <2>2, <2>4 DEF SyncInv
<1>4. CASE DmaSend \/ ReplySend
  <2>1. pc \in SendPcs
    BY <1>4 DEF DmaSend, ReplySend, SendPcieOut, SendPcs
  <2>. QED  BY <1>3, <1>4, <2>1 DEF DmaSend, ReplySend
<1>5. CASE PollPcie
  <2>1. CASE PollOversize
    BY <1>e, <2>1 DEF PollOversize
  <2>2. CASE PollMmio \/ PollCompletion \/ PollControl
    <3>1. h2d # <<>> /\ Consume
      BY <2>2 DEF PollMmio, PollCompletion, PollControl, Polling, Pollable,
         Visible
    <3>2. Head(h2d) \in Messages(H2DTypes)
      BY <1>0, <3>1, HeadType DEF TypeOK
    <3>3. Newest(h2d', inTs') = Newest(h2d, inTs)
      BY <1>0, <3>1, <3>2, NewestOfRing DEF TypeOK, Consume
    <3>. QED  BY <1>0, <3>1, <3>3 DEF SyncInv, Consume
  <2>. QED  BY <1>5, <2>1, <2>2 DEF PollPcie
<1>6. CASE PollPcieAllEnds \/ DmaChunkDone \/ DmaPumpAdvance
  <2>1. inTs' = PeekedTs(h2d, inTs) /\ UNCHANGED <<h2d, d2h, nextSync>>
    BY <1>6 DEF PollPcieAllEnds, DmaChunkDone, DmaPumpAdvance, PolledDry,
       linkVars
  <2>2. Newest(h2d, inTs') = Newest(h2d, inTs)
    BY <2>1 DEF Newest, PeekedTs, Visible
  <2>. QED  BY <1>0, <2>1, <2>2 DEF SyncInv
<1>7. CASE \/ \E kind \in {"read", "write"}, size \in DmaSizes :
                 LibDma(kind, size)
           \/ DrainRequest \/ MmioReturns \/ DrainEnds \/ WaitForPeer
           \/ JumpToDeadline \/ RunClocks \/ ClockReturns \/ LoopTail
  BY <1>7, <1>u DEF LibDma, DrainRequest, MmioReturns, DrainEnds, WaitForPeer,
     JumpToDeadline, RunClocks, ClockReturns, LoopTail, linkVars, timeVars
<1>8. CASE DmaCut \/ DrainOverrun
  BY <1>e, <1>8 DEF DmaCut, DrainOverrun
<1>. QED  BY <1>1, <1>2, <1>4, <1>5, <1>6, <1>7, <1>8 DEF DeviceNext

\* So do the host's.
LEMMA HostSyncs ==
  ASSUME ProtocolInv, TimeInv, SyncInv, HostNext, UNCHANGED deviceVars
  PROVE  SyncInv'
<1>0. TypeOK /\ UNCHANGED <<inTs, nextSync>>
  BY DEF ProtocolInv, deviceVars, timeVars
<1>u. ASSUME UNCHANGED <<h2d, d2h, hInTs, hNextSync>> PROVE SyncInv'
  BY <1>0, <1>u DEF SyncInv
<1>1. CASE HostSync \/ HostTerminate \/ \E t \in Targets : HostIssue(t)
  BY <1>1, <1>u DEF HostSync, HostTerminate, HostIssue, linkVars
<1>2. CASE HostSend
  <2>1. /\ hOut # <<>> /\ h2d' = Append(h2d, Head(hOut))
        /\ hNextSync' = hNow + SyncInterval
        /\ UNCHANGED <<d2h, hInTs>>
    BY <1>2 DEF HostSend
  <2>2. Head(hOut) \in Messages(H2DTypes) /\ Head(hOut) = hOut[1]
        /\ 1 \in 1 .. Len(hOut)
    <3>1. Len(hOut) \in Nat /\ Len(hOut) # 0
      BY <1>0, <2>1, LenProperties, EmptySeq DEF TypeOK
    <3>. QED  BY <1>0, <2>1, <3>1, HeadType DEF TypeOK
  <2>3. Head(hOut).ts = hNow + LinkLatency
    BY <2>2 DEF TimeInv
  <2>4. Newest(h2d', inTs) = hNow + LinkLatency
    BY <1>0, <2>1, <2>2, <2>3, NewestOfRing DEF TypeOK
  <2>5. hNow \in Nat /\ LinkLatency \in Nat /\ SyncInterval \in Nat
    BY <1>0, LinkAssumption DEF TypeOK, LinkAssumption
  <2>. QED  BY <1>0, <2>1, <2>4, <2>5 DEF SyncInv
<1>3. CASE HostPoll
  <2>1. d2h # <<>> /\ d2h' = Tail(d2h) /\ hInTs' = Head(d2h).ts
        /\ UNCHANGED <<h2d, hNextSync>>
    BY <1>3 DEF HostPoll, Pollable, Visible
  <2>2. Head(d2h) \in Messages(D2HTypes)
    BY <1>0, <2>1, HeadType DEF TypeOK
  <2>3. Newest(d2h', hInTs') = Newest(d2h, hInTs)
    BY <1>0, <2>1, <2>2, NewestOfRing DEF TypeOK
  <2>. QED  BY <1>0, <2>1, <2>3 DEF SyncInv
<1>4. CASE HostAdvance
  <2>1. hInTs' = PeekedTs(d2h, hInTs) /\ UNCHANGED <<h2d, d2h, hNextSync>>
    BY <1>4 DEF HostAdvance, linkVars
  <2>2. Newest(d2h, hInTs') = Newest(d2h, hInTs)
    BY <2>1 DEF Newest, PeekedTs, Visible
  <2>. QED  BY <1>0, <2>1, <2>2 DEF SyncInv
<1>. QED  BY <1>1, <1>2, <1>3, <1>4 DEF HostNext

\* With a sync interval within the latency the two sides never both wait for
\* the other: if each has run up to the last timestamp it saw, each is ahead
\* of the other.
THEOREM NobodyWaitsForEver == Spec => []NoMutualWait
<1>1. ProtocolInv /\ TimedInv /\ (IsSync => SyncInv) /\ [Next]_vars
        => (IsSync => SyncInv)'
  <2>. SUFFICES ASSUME ProtocolInv, TimeInv, SyncInv, IsSync, [Next]_vars
                PROVE  SyncInv'
    BY DEF TimedInv
  <2>1. CASE UNCHANGED vars
    BY <2>1 DEF vars, linkVars, deviceVars, timeVars, hostVars, SyncInv
  <2>2. CASE Device
    BY <2>2, DeviceSync DEF Device
  <2>3. CASE Host
    BY <2>3, HostSyncs DEF Host
  <2>. QED  BY <2>1, <2>2, <2>3 DEF Next, Finished
<1>2. ProtocolInv /\ (IsSync => SyncInv) => NoMutualWait
  <2>. SUFFICES ASSUME TypeOK, SyncInv, IsSync, SyncInterval <= LinkLatency,
                       DeviceWaits, HostWaits
                PROVE  FALSE
    BY DEF ProtocolInv, NoMutualWait
  <2>1. /\ mainTime \in Nat /\ nextSync \in Nat /\ inTs \in Nat
        /\ hNow \in Nat /\ hNextSync \in Nat /\ hInTs \in Nat
        /\ LinkLatency \in Nat /\ SyncInterval \in Nat
    BY LinkAssumption DEF TypeOK, LinkAssumption
  <2>2. inTs <= mainTime /\ mainTime < nextSync
        /\ hInTs <= hNow /\ hNow < hNextSync
    BY <2>1 DEF DeviceWaits, HostWaits, SyncOwed, HostSyncOwed
  <2>3. inTs + SyncInterval = hNextSync + LinkLatency
        /\ hInTs + SyncInterval = nextSync + LinkLatency
    BY <2>1, <2>2 DEF SyncInv, Newest, DeviceWaits, HostWaits
  <2>. QED  BY <2>1, <2>2, <2>3
<1>3. Init => (IsSync => SyncInv)
  BY SyncInit
<1>. QED  BY <1>1, <1>2, <1>3, ProtocolAlways, TimedAlways, PTL DEF Spec

----------------------------------------------------------------------------
(* Room in the adapter's ring                                              *)

\* The syncs in the adapter's ring are a sync interval apart, and the next one
\* will be that far from the last.  Without synchronization there are none.
SpacedInv ==
  IF IsSync
    THEN /\ \A i \in 1 .. Len(d2h) :
              d2h[i].type = "sync" =>
                d2h[i].ts + SyncInterval <= nextSync + LinkLatency
         /\ \A i, j \in 1 .. Len(d2h) :
              i < j /\ d2h[i].type = "sync" /\ d2h[j].type = "sync"
                => d2h[i].ts + SyncInterval <= d2h[j].ts
    ELSE NoneOf(d2h, {"sync"})

\* A step that sends no sync and does not set the next one back.
LEMMA SpacedFramed ==
  ASSUME TypeOK, TypeOK', SpacedInv, nextSync <= nextSync' \/ ~IsSync,
         NEW s \in Nat, Keeps(d2h, d2h', {"sync"}, s)
  PROVE  SpacedInv'
<1>1. CASE ~IsSync
  BY <1>1, KeepsFew DEF SpacedInv, NoneOf
<1>2. CASE IsSync
  <2>1. ASSUME NEW i \in 1 .. Len(d2h'), d2h'[i].type = "sync"
        PROVE  d2h'[i].ts + SyncInterval <= nextSync' + LinkLatency
    <3>1. i + s \in 1 .. Len(d2h) /\ d2h'[i] = d2h[i + s]
      BY <2>1 DEF Keeps
    <3>2. d2h'[i].ts + SyncInterval <= nextSync + LinkLatency
      BY <1>2, <2>1, <3>1 DEF SpacedInv
    <3>3. /\ d2h'[i].ts \in Nat /\ nextSync \in Nat /\ nextSync' \in Nat
          /\ SyncInterval \in Nat /\ LinkLatency \in Nat
      BY TimestampType, <3>1, LinkAssumption DEF TypeOK, LinkAssumption
    <3>. QED  BY <1>2, <3>2, <3>3
  <2>2. ASSUME NEW i \in 1 .. Len(d2h'), NEW j \in 1 .. Len(d2h'), i < j,
               d2h'[i].type = "sync", d2h'[j].type = "sync"
        PROVE  d2h'[i].ts + SyncInterval <= d2h'[j].ts
    <3>1. /\ i + s \in 1 .. Len(d2h) /\ d2h'[i] = d2h[i + s]
          /\ j + s \in 1 .. Len(d2h) /\ d2h'[j] = d2h[j + s]
      BY <2>2 DEF Keeps
    <3>2. i + s < j + s
      BY <2>2
    <3>. QED  BY <1>2, <2>2, <3>1, <3>2 DEF SpacedInv
  <2>. QED  BY <1>2, <2>1, <2>2 DEF SpacedInv
<1>. QED  BY <1>1, <1>2

\* A sync that is owed is sent.
LEMMA SpacedSync ==
  ASSUME TypeOK, SpacedInv, SyncOwed,
         d2h' = Append(d2h, Plain("sync", mainTime)),
         nextSync' = mainTime + SyncInterval
  PROVE  SpacedInv'
<1>. DEFINE m == Plain("sync", mainTime)
<1>1. m \in Messages(D2HTypes) /\ m.ts = mainTime + LinkLatency
  BY PlainType DEF TypeOK, D2HTypes, Plain
<1>. HIDE DEF m
<1>2. /\ Len(d2h') = Len(d2h) + 1 /\ Len(d2h) \in Nat
      /\ \A i \in 1 .. Len(d2h) : d2h'[i] = d2h[i]
      /\ d2h'[Len(d2h) + 1] = m
  <2>1. d2h' = Append(d2h, m) /\ d2h \in Seq(Messages(D2HTypes))
    BY DEF m, TypeOK
  <2>. QED  BY <1>1, <2>1, AppendProperties, LenProperties
<1>3. /\ IsSync /\ nextSync <= mainTime
      /\ nextSync \in Nat /\ mainTime \in Nat /\ SyncInterval \in Nat
      /\ LinkLatency \in Nat
  BY LinkAssumption DEF SyncOwed, TypeOK, LinkAssumption
<1>4. ASSUME NEW i \in 1 .. Len(d2h), d2h[i].type = "sync"
      PROVE  d2h[i].ts \in Nat /\ d2h[i].ts + SyncInterval <= m.ts
  <2>1. d2h[i].ts \in Nat
    BY TimestampType DEF TypeOK
  <2>2. d2h[i].ts + SyncInterval <= nextSync + LinkLatency
    BY <1>3, <1>4 DEF SpacedInv
  <2>. QED  BY <1>1, <1>3, <2>1, <2>2
<1>5. ASSUME NEW i \in 1 .. Len(d2h'), d2h'[i].type = "sync"
      PROVE  d2h'[i].ts + SyncInterval <= nextSync' + LinkLatency
  <2>1. CASE i \in 1 .. Len(d2h)
    <3>1. d2h'[i].ts \in Nat /\ d2h'[i].ts + SyncInterval <= m.ts
      BY <1>2, <1>4, <1>5, <2>1
    <3>. QED  BY <1>1, <1>3, <3>1
  <2>2. CASE i = Len(d2h) + 1
    BY <1>1, <1>2, <1>3, <2>2
  <2>. QED  BY <1>2, <2>1, <2>2
<1>6. ASSUME NEW i \in 1 .. Len(d2h'), NEW j \in 1 .. Len(d2h'), i < j,
             d2h'[i].type = "sync", d2h'[j].type = "sync"
      PROVE  d2h'[i].ts + SyncInterval <= d2h'[j].ts
  <2>1. i \in 1 .. Len(d2h)
    BY <1>2, <1>6
  <2>2. CASE j \in 1 .. Len(d2h)
    BY <1>2, <1>3, <1>6, <2>1, <2>2 DEF SpacedInv
  <2>3. CASE j = Len(d2h) + 1
    BY <1>2, <1>4, <1>6, <2>1, <2>3
  <2>. QED  BY <1>2, <2>2, <2>3
<1>. QED  BY <1>3, <1>5, <1>6 DEF SpacedInv

\* The steps of the adapter keep the syncs apart.
LEMMA SpacedDevice ==
  ASSUME ProtocolInv, TypeOK', TimedInv, SpacedInv, DeviceNext
  PROVE  SpacedInv'
<1>0. /\ d2h \in Seq(Messages(D2HTypes)) /\ nextSync \in Nat /\ mainTime \in Nat
      /\ SyncInterval \in Nat /\ LinkLatency \in Nat /\ TypeOK
  BY LinkAssumption DEF ProtocolInv, TypeOK, LinkAssumption
<1>1. CASE UNCHANGED <<d2h, nextSync>>
  <2>1. Keeps(d2h, d2h', {"sync"}, 0)
    BY <1>0, <1>1, KeepsSame
  <2>. QED  BY <1>0, <1>1, <2>1, SpacedFramed
<1>2. CASE /\ SyncOwed
           /\ d2h' = Append(d2h, Plain("sync", mainTime))
           /\ nextSync' = mainTime + SyncInterval
  BY <1>0, <1>2, SpacedSync
<1>3. CASE /\ d2h' = Append(d2h, Plain("held", mainTime))
           /\ nextSync' = mainTime + SyncInterval
  <2>. DEFINE m == Plain("held", mainTime)
  <2>1. m \in Messages(D2HTypes) /\ m.type \notin {"sync"}
    BY <1>0, PlainType DEF D2HTypes, Plain
  <2>. HIDE DEF m
  <2>2. d2h' = Append(d2h, m)
    BY <1>3 DEF m
  <2>3. Keeps(d2h, d2h', {"sync"}, 0)
    BY <1>0, <2>1, <2>2, KeepsAppend
  <2>4. nextSync <= nextSync' \/ ~IsSync
    BY <1>3 DEF TimedInv, TimeInv
  <2>. QED  BY <1>0, <2>3, <2>4, SpacedFramed
<1>4. CASE UNCHANGED nextSync /\ DmaSend
  <2>1. Keeps(d2h, d2h', {"sync"}, 0)
    BY <1>4, AskFillsSlot DEF AskTypes
  <2>. QED  BY <1>0, <1>4, <2>1, SpacedFramed
<1>5. CASE UNCHANGED nextSync /\ ReplySend
  <2>1. Keeps(d2h, d2h', {"sync"}, 0)
    BY <1>5, ReplyFillsSlot DEF CompTypes
  <2>. QED  BY <1>0, <1>5, <2>1, SpacedFramed
<1>. QED  BY <1>1, <1>2, <1>3, <1>4, <1>5, AdapterRing

\* So do those of the host.
LEMMA SpacedHost ==
  ASSUME TypeOK, TypeOK', SpacedInv, HostNext, UNCHANGED nextSync
  PROVE  SpacedInv'
<1>0. d2h \in Seq(Messages(D2HTypes)) /\ nextSync \in Nat
  BY DEF TypeOK
<1>1. CASE HostPoll
  <2>1. d2h # <<>> /\ d2h' = Tail(d2h)
    BY <1>1 DEF HostPoll, Pollable, Visible
  <2>2. Keeps(d2h, d2h', {"sync"}, 1)
    BY <1>0, <2>1, KeepsTail
  <2>. QED  BY <1>0, <2>2, SpacedFramed
<1>2. CASE ~HostPoll
  <2>1. UNCHANGED d2h
    BY <1>2 DEF HostNext, HostSync, HostTerminate, HostSend, HostAdvance,
       HostIssue, linkVars
  <2>2. Keeps(d2h, d2h', {"sync"}, 0)
    BY <1>0, <2>1, KeepsSame
  <2>. QED  BY <1>0, <2>2, SpacedFramed
<1>. QED  BY <1>1, <1>2

\* The syncs are apart in every reachable state.
LEMMA SpacedAlways == Spec => []SpacedInv
<1>1. Init => SpacedInv
  BY DEF Init, LinkInit, SpacedInv, NoneOf
<1>2. ProtocolInv /\ TimedInv /\ SpacedInv /\ [Next]_vars /\ ProtocolInv'
        => SpacedInv'
  <2>. SUFFICES ASSUME ProtocolInv, TimedInv, SpacedInv, [Next]_vars, ProtocolInv'
                PROVE  SpacedInv'
    OBVIOUS
  <2>0. TypeOK /\ TypeOK'
    BY DEF ProtocolInv
  <2>1. CASE Device
    BY <2>0, <2>1, SpacedDevice DEF Device
  <2>2. CASE Host
    <3>1. UNCHANGED nextSync
      BY <2>2 DEF Host, deviceVars, timeVars
    <3>. QED  BY <2>0, <2>2, <3>1, SpacedHost DEF Host
  <2>3. CASE UNCHANGED vars
    BY <2>3 DEF vars, linkVars, deviceVars, timeVars, SpacedInv, NoneOf
  <2>. QED  BY <2>1, <2>2, <2>3 DEF Next, Finished
<1>. QED  BY <1>1, <1>2, ProtocolAlways, TimedAlways, PTL DEF Spec

\* Times that are an interval apart are in different intervals.
LEMMA QuotientsApart ==
  ASSUME NEW a \in Nat, NEW b \in Nat, NEW c \in Nat, c > 0, a + c <= b
  PROVE  a \div c \in Nat /\ b \div c \in Nat /\ a \div c < b \div c
<1>. DEFINE p == a \div c
            q == b \div c
<1>1. /\ p \in Nat /\ q \in Nat
      /\ p * c <= a /\ b < q * c + c
  OBVIOUS
<1>. HIDE DEF p, q
<1>2. p * c \in Nat /\ q * c \in Nat
  BY <1>1, ProductType
<1>3. ~(q * c <= p * c)
  BY <1>1, <1>2
<1>4. ~(q <= p)
  BY <1>1, <1>3, ProductMonotonic
<1>5. p < q
  BY <1>1, <1>4
<1>. QED  BY <1>1, <1>5 DEF p, q

\* Later times are not in an earlier interval.
LEMMA QuotientsOrdered ==
  ASSUME NEW a \in Nat, NEW b \in Nat, NEW c \in Nat, c > 0, a <= b
  PROVE  a \div c \in Nat /\ b \div c \in Nat /\ a \div c <= b \div c
<1>. DEFINE p == a \div c
            q == b \div c
<1>1. /\ p \in Nat /\ q \in Nat
      /\ p * c <= a /\ b < q * c + c
  OBVIOUS
<1>. HIDE DEF p, q
<1>2. p * c \in Nat /\ q * c \in Nat
  BY <1>1, ProductType
<1>3. ~(q + 1 <= p)
  <2>1. (q + 1) * c = q * c + c
    BY <1>1
  <2>2. ASSUME q + 1 <= p PROVE FALSE
    <3>1. (q + 1) * c <= p * c
      BY <1>1, <2>2, ProductMonotonic
    <3>. QED  BY <1>1, <1>2, <2>1, <3>1
  <2>. QED  BY <2>2
<1>4. p <= q
  BY <1>1, <1>3
<1>. QED  BY <1>1, <1>4 DEF p, q

\* The slots of the adapter's ring that hold a message of these types.
SlotsOf(types) == {i \in 1 .. Len(d2h) : d2h[i].type \in types}

\* The completions are at most as many as the host allows itself to wait for.
LEMMA FewCompletions ==
  ASSUME AwaitedInv
  PROVE  /\ IsFiniteSet(SlotsOf(CompTypes))
         /\ Cardinality(SlotsOf(CompTypes)) <= MaxOutstanding
<1>. DEFINE S == SlotsOf(CompTypes)
            f == [i \in S |-> d2h[i].id]
<1>1. f \in [S -> Unanswered]
  BY DEF AwaitedInv, SlotsOf
<1>2. \A i, j \in S : f[i] = f[j] => i = j
  BY DEF AwaitedInv, SlotsOf
<1>. HIDE DEF f, S
<1>3. f \in Injection(S, Unanswered)
  BY <1>1, <1>2, Fun_IsInj
<1>4. IsFiniteSet(S) /\ Cardinality(S) <= Cardinality(Unanswered)
  BY <1>3, FS_Injection DEF AwaitedInv
<1>5. /\ Cardinality(S) \in Nat /\ Cardinality(Unanswered) \in Nat
      /\ MaxOutstanding \in Nat
  BY <1>4, FS_CardinalityType, HostAssumption DEF AwaitedInv, HostAssumption
<1>6. Cardinality(S) <= MaxOutstanding
  BY <1>4, <1>5 DEF AwaitedInv
<1>. QED  BY <1>4, <1>6 DEF S

\* At most one chunk is asked for.
LEMMA FewAsks ==
  ASSUME FlightInv
  PROVE  /\ IsFiniteSet(SlotsOf(AskTypes))
         /\ Cardinality(SlotsOf(AskTypes)) <= 1
         /\ NoAsk => Cardinality(SlotsOf(AskTypes)) = 0
<1>1. CASE SlotsOf(AskTypes) = {}
  BY <1>1, FS_EmptySet
<1>2. CASE SlotsOf(AskTypes) # {}
  <2>1. PICK i : i \in SlotsOf(AskTypes)
    BY <1>2
  <2>2. SlotsOf(AskTypes) = {i}
    BY <2>1 DEF FlightInv, OneOf, SlotsOf
  <2>3. IsFiniteSet({i}) /\ Cardinality({i}) = 1
    BY FS_Singleton
  <2>4. ~NoAsk
    BY <2>1 DEF SlotsOf, NoAsk, NoneOf
  <2>. QED  BY <2>2, <2>3, <2>4
<1>. QED  BY <1>1, <1>2

\* Syncs that all lie in the next k intervals from the host's time on are at
\* most k.
LEMMA SyncsInIntervals ==
  ASSUME TypeOK, IsSync, TimeInv, SpacedInv, NEW k \in Nat,
         \A i \in SlotsOf({"sync"}) : (d2h[i].ts - hNow) \div SyncInterval < k
  PROVE  /\ IsFiniteSet(SlotsOf({"sync"}))
         /\ Cardinality(SlotsOf({"sync"})) <= k
<1>. DEFINE S == SlotsOf({"sync"})
            slot(i) == (d2h[i].ts - hNow) \div SyncInterval
            f == [i \in S |-> slot(i)]
<1>1. SyncInterval \in Nat /\ SyncInterval > 0 /\ hNow \in Nat
  BY LinkAssumption DEF LinkAssumption, TypeOK
<1>2. \A i \in S : d2h[i].ts \in Nat /\ d2h[i].ts - hNow \in Nat
  <2>. SUFFICES ASSUME NEW i \in 1 .. Len(d2h)
                PROVE  d2h[i].ts \in Nat /\ d2h[i].ts - hNow \in Nat
    BY DEF SlotsOf
  <2>1. d2h[i].ts \in Nat /\ hInTs \in Nat
    BY TimestampType DEF TypeOK
  <2>2. hNow <= hInTs /\ hInTs <= d2h[i].ts
    BY DEF TimeInv, Ordered
  <2>. QED  BY <1>1, <2>1, <2>2
<1>3. \A i \in S : slot(i) \in 0 .. (k - 1)
  <2>. SUFFICES ASSUME NEW i \in S PROVE slot(i) \in 0 .. (k - 1)
    OBVIOUS
  <2>1. slot(i) \in Nat /\ slot(i) < k
    BY <1>1, <1>2, QuotientFits
  <2>. QED  BY <2>1
<1>4. ASSUME NEW i \in S, NEW j \in S, i < j
      PROVE  slot(i) # slot(j)
  <2>1. d2h[i].ts + SyncInterval <= d2h[j].ts
    BY <1>4 DEF SpacedInv, SlotsOf
  <2>2. (d2h[i].ts - hNow) + SyncInterval <= d2h[j].ts - hNow
    BY <1>1, <1>2, <2>1
  <2>3. slot(i) \in Nat /\ slot(j) \in Nat /\ slot(i) < slot(j)
    BY <1>1, <1>2, <2>2, QuotientsApart
  <2>. QED  BY <2>3
<1>5. S \subseteq Nat
  BY LenProperties DEF SlotsOf, TypeOK
<1>. HIDE DEF slot
<1>6. \A i, j \in S : slot(i) = slot(j) => i = j
  BY <1>4, <1>5
<1>7. f \in [S -> 0 .. (k - 1)] /\ \A i, j \in S : f[i] = f[j] => i = j
  BY <1>3, <1>6
<1>. HIDE DEF f, S
<1>8. f \in Injection(S, 0 .. (k - 1))
  BY <1>7, Fun_IsInj
<1>9. IsFiniteSet(0 .. (k - 1)) /\ Cardinality(0 .. (k - 1)) = k
  <2>1. 0 \in Int /\ k - 1 \in Int
    OBVIOUS
  <2>2. /\ IsFiniteSet(0 .. (k - 1))
        /\ Cardinality(0 .. (k - 1)) = IF 0 > k - 1 THEN 0 ELSE (k - 1) - 0 + 1
    BY <2>1, FS_Interval
  <2>. QED  BY <2>2
<1>10. IsFiniteSet(S) /\ Cardinality(S) <= k
  BY <1>8, <1>9, FS_Injection
<1>. QED  BY <1>10 DEF S

\* The syncs in the ring are those of two latencies, and one fewer when the
\* next is owed.
LEMMA FewSyncs ==
  ASSUME TypeOK, IsSync, TimeInv, SpacedInv
  PROVE  /\ IsFiniteSet(SlotsOf({"sync"}))
         /\ Cardinality(SlotsOf({"sync"})) <= (2 * LinkLatency) \div SyncInterval + 1
         /\ SyncOwed => Cardinality(SlotsOf({"sync"}))
                          <= (2 * LinkLatency) \div SyncInterval
<1>. DEFINE S == SlotsOf({"sync"})
            q == (2 * LinkLatency) \div SyncInterval
<1>1. /\ SyncInterval \in Nat /\ SyncInterval > 0 /\ LinkLatency \in Nat
      /\ hNow \in Nat /\ mainTime \in Nat /\ nextSync \in Nat /\ inTs \in Nat
      /\ hInTs \in Nat
  BY LinkAssumption DEF LinkAssumption, TypeOK
<1>2. q \in Nat
  BY <1>1, QuotientFits
<1>3. mainTime <= hNow + LinkLatency
  <2>1. mainTime <= inTs /\ inTs <= hNow + LinkLatency
    BY DEF TimeInv, Ordered
  <2>. QED  BY <1>1, <2>1
<1>4. ASSUME NEW i \in S
      PROVE  /\ d2h[i].ts - hNow \in Nat
             /\ d2h[i].ts - hNow <= 2 * LinkLatency
             /\ SyncOwed => (d2h[i].ts - hNow) + SyncInterval <= 2 * LinkLatency
  <2>1. i \in 1 .. Len(d2h) /\ d2h[i].type = "sync"
    BY <1>4 DEF SlotsOf
  <2>2. d2h[i].ts \in Nat
    BY <2>1, TimestampType DEF TypeOK
  <2>3. hNow <= hInTs /\ hInTs <= d2h[i].ts /\ d2h[i].ts <= mainTime + LinkLatency
    BY <2>1 DEF TimeInv, Ordered
  <2>4. SyncOwed => nextSync <= mainTime
    BY DEF SyncOwed
  <2>5. d2h[i].ts + SyncInterval <= nextSync + LinkLatency
    BY <2>1 DEF SpacedInv
  <2>. QED  BY <1>1, <1>3, <2>2, <2>3, <2>4, <2>5
<1>5. IsFiniteSet(S) /\ Cardinality(S) <= q + 1
  <2>1. \A i \in S : (d2h[i].ts - hNow) \div SyncInterval < q + 1
    <3>. SUFFICES ASSUME NEW i \in S
                  PROVE  (d2h[i].ts - hNow) \div SyncInterval < q + 1
      OBVIOUS
    <3>1. /\ (d2h[i].ts - hNow) \div SyncInterval \in Nat
          /\ (d2h[i].ts - hNow) \div SyncInterval <= q
      BY <1>1, <1>4, QuotientsOrdered
    <3>. QED  BY <1>2, <3>1
  <2>2. q + 1 \in Nat
    BY <1>2
  <2>. HIDE DEF q
  <2>. QED  BY <2>1, <2>2, SyncsInIntervals
<1>6. ASSUME SyncOwed PROVE Cardinality(S) <= q
  <2>1. \A i \in S : (d2h[i].ts - hNow) \div SyncInterval < q
    BY <1>1, <1>4, <1>6, QuotientsApart
  <2>. HIDE DEF q
  <2>. QED  BY <1>2, <2>1, SyncsInIntervals
<1>. QED  BY <1>5, <1>6

\* The cardinality of a union is at most the sum of the cardinalities.
LEMMA UnionBound ==
  ASSUME NEW S, IsFiniteSet(S), NEW T, IsFiniteSet(T)
  PROVE  /\ IsFiniteSet(S \cup T)
         /\ Cardinality(S) \in Nat /\ Cardinality(T) \in Nat
         /\ Cardinality(S \cup T) \in Nat
         /\ Cardinality(S \cup T) <= Cardinality(S) + Cardinality(T)
<1>1. /\ IsFiniteSet(S \cup T)
      /\ Cardinality(S \cup T) = Cardinality(S) + Cardinality(T) - Cardinality(S \cap T)
  BY FS_Union
<1>2. IsFiniteSet(S \cap T)
  BY FS_Intersection
<1>3. /\ Cardinality(S) \in Nat /\ Cardinality(T) \in Nat
      /\ Cardinality(S \cap T) \in Nat /\ Cardinality(S \cup T) \in Nat
  BY <1>1, <1>2, FS_CardinalityType
<1>. QED  BY <1>1, <1>3

\* While no slot is held, the ring holds completions, chunks and syncs.
LEMMA RingByType ==
  ASSUME TypeOK, NoneOf(d2h, {"held"}),
         IsFiniteSet(SlotsOf(CompTypes)), IsFiniteSet(SlotsOf(AskTypes)),
         IsFiniteSet(SlotsOf({"sync"})),
         NEW c \in Nat, Cardinality(SlotsOf(CompTypes)) <= c,
         NEW a \in Nat, Cardinality(SlotsOf(AskTypes)) <= a,
         NEW s \in Nat, Cardinality(SlotsOf({"sync"})) <= s
  PROVE  Len(d2h) \in Nat /\ Len(d2h) <= c + a + s
<1>. DEFINE S == SlotsOf(CompTypes) \cup SlotsOf(AskTypes)
            T == S \cup SlotsOf({"sync"})
<1>1. Len(d2h) \in Nat /\ d2h \in Seq(Messages(D2HTypes))
  BY LenProperties DEF TypeOK
<1>2. \A i \in 1 .. Len(d2h) : d2h[i].type \in D2HTypes
  <2>1. \A i \in 1 .. Len(d2h) : d2h[i] \in Messages(D2HTypes)
    BY <1>1, ElementOfSeq
  <2>. QED  BY <2>1 DEF Messages
<1>3. 1 .. Len(d2h) = T
  BY <1>2 DEF SlotsOf, NoneOf, D2HTypes, AskTypes
<1>4. Cardinality(1 .. Len(d2h)) = Len(d2h)
  <2>1. 1 \in Int /\ Len(d2h) \in Int
    BY <1>1
  <2>2. Cardinality(1 .. Len(d2h)) = IF 1 > Len(d2h) THEN 0 ELSE Len(d2h) - 1 + 1
    BY <2>1, FS_Interval
  <2>. QED  BY <1>1, <2>2
<1>5. /\ IsFiniteSet(S)
      /\ Cardinality(SlotsOf(CompTypes)) \in Nat
      /\ Cardinality(SlotsOf(AskTypes)) \in Nat
      /\ Cardinality(S) \in Nat
      /\ Cardinality(S) <= Cardinality(SlotsOf(CompTypes)) + Cardinality(SlotsOf(AskTypes))
  BY UnionBound
<1>. HIDE DEF S
<1>6. /\ Cardinality(SlotsOf({"sync"})) \in Nat
      /\ Cardinality(T) \in Nat
      /\ Cardinality(T) <= Cardinality(S) + Cardinality(SlotsOf({"sync"}))
  BY <1>5, UnionBound
<1>. HIDE DEF T
<1>. QED  BY <1>1, <1>3, <1>4, <1>5, <1>6

\* With room in the ring for what can be on the way, the adapter has a slot
\* whenever it takes one: AllocPcieOut and the loop around OutSync, which wait
\* without polling and without a look at exiting, never wait.
THEOREM AdapterNeverWaits == Spec => []OutputHasRoom
<1>1. ProtocolInv /\ DmaInv /\ AwaitedInv /\ TimedInv /\ SpacedInv => OutputHasRoom
  <2>. SUFFICES ASSUME ProtocolInv, DmaInv, AwaitedInv, TimedInv, SpacedInv,
                       RingSize >= RoomNeeded, SlotWanted
                PROVE  HasRoom(d2h)
    BY DEF OutputHasRoom
  <2>. DEFINE q == (2 * LinkLatency) \div SyncInterval
  <2>0. TypeOK /\ FlightInv
    BY DEF ProtocolInv, DmaInv
  <2>1. NoneOf(d2h, {"held"})
    BY DEF ProtocolInv, SlotInv, HeldSlotIsLast, SlotWanted, NoneOf
  <2>2. RingSize \in Nat /\ MaxOutstanding \in Nat /\ LinkLatency \in Nat /\ SyncInterval \in Nat
        /\ SyncInterval > 0
    BY LinkAssumption, HostAssumption DEF LinkAssumption, HostAssumption
  <2>3. q \in Nat
    <3>1. 2 * LinkLatency \in Nat
      BY <2>2
    <3>. QED  BY <2>2, <3>1, QuotientFits
  <2>4. /\ IsFiniteSet(SlotsOf(CompTypes))
        /\ Cardinality(SlotsOf(CompTypes)) <= MaxOutstanding
    BY FewCompletions
  <2>5. /\ IsFiniteSet(SlotsOf(AskTypes))
        /\ Cardinality(SlotsOf(AskTypes)) <= 1
        /\ NoAsk => Cardinality(SlotsOf(AskTypes)) <= 0
    <3>1. Cardinality(SlotsOf(AskTypes)) = 0 => Cardinality(SlotsOf(AskTypes)) <= 0
      OBVIOUS
    <3>. QED  BY <2>0, <3>1, FewAsks
  <2>6. CASE ~IsSync
    <3>1. SlotsOf({"sync"}) = {}
      BY <2>6 DEF SpacedInv, NoneOf, SlotsOf
    <3>2. IsFiniteSet(SlotsOf({"sync"})) /\ Cardinality(SlotsOf({"sync"})) <= 0
      BY <3>1, FS_EmptySet
    <3>3. NoAsk
      BY <2>0, <2>6, NothingInFlight DEF SlotWanted, SyncOwed, Live, PumpPcs
    <3>4. Len(d2h) \in Nat /\ Len(d2h) <= MaxOutstanding + 0 + 0
      BY <2>0, <2>1, <2>2, <2>4, <2>5, <3>2, <3>3, RingByType
    <3>5. RingSize >= MaxOutstanding + 1
      BY <2>6 DEF RoomNeeded
    <3>. QED  BY <2>2, <3>4, <3>5 DEF HasRoom
  <2>7. CASE IsSync
    <3>1. /\ IsFiniteSet(SlotsOf({"sync"}))
          /\ Cardinality(SlotsOf({"sync"})) <= q + 1
          /\ SyncOwed => Cardinality(SlotsOf({"sync"})) <= q
      BY <2>0, <2>7, FewSyncs DEF TimedInv
    <3>2. RingSize >= MaxOutstanding + 2 + q
      BY <2>7 DEF RoomNeeded
    <3>. HIDE DEF q
    <3>3. CASE SyncOwed
      <4>1. Len(d2h) \in Nat /\ Len(d2h) <= MaxOutstanding + 1 + q
        BY <2>0, <2>1, <2>2, <2>3, <2>4, <2>5, <3>1, <3>3, RingByType
      <4>. QED  BY <2>2, <2>3, <3>2, <4>1 DEF HasRoom
    <3>4. CASE ~SyncOwed
      <4>1. NoAsk
        BY <2>0, <3>4, NothingInFlight DEF SlotWanted, Live, PumpPcs
      <4>2. q + 1 \in Nat
        BY <2>3
      <4>3. Len(d2h) \in Nat /\ Len(d2h) <= MaxOutstanding + 0 + (q + 1)
        BY <2>0, <2>1, <2>2, <2>4, <2>5, <3>1, <4>1, <4>2, RingByType
      <4>. QED  BY <2>2, <2>3, <3>2, <4>3 DEF HasRoom
    <3>. QED  BY <3>3, <3>4
  <2>. QED  BY <2>6, <2>7, LinkAssumption DEF LinkAssumption
<1>. QED  BY <1>1, ProtocolAlways, DmaAlways, AwaitedAlways, TimedAlways,
            SpacedAlways, PTL

----------------------------------------------------------------------------
(* The refinement of TimedLink                                             *)

\* A ring has a timestamp for each of its messages.
LEMMA StampsOf ==
  ASSUME NEW Types, NEW ring \in Seq(Messages(Types))
  PROVE  /\ Len(ring) \in Nat
         /\ Stamps(ring) \in Seq(Nat)
         /\ Len(Stamps(ring)) = Len(ring)
         /\ \A i \in 1 .. Len(ring) : Stamps(ring)[i] = ring[i].ts
<1>1. Len(ring) \in Nat
  BY LenProperties
<1>2. \A i \in 1 .. Len(ring) : ring[i].ts \in Nat
  BY TimestampType
<1>3. Stamps(ring) \in [1 .. Len(ring) -> Nat]
  BY <1>2 DEF Stamps
<1>4. Stamps(ring) \in Seq(Nat)
  BY <1>1, <1>3, SeqDef
<1>5. Len(Stamps(ring)) = Len(ring)
  BY <1>1, <1>3, <1>4, LenProperties
<1>. QED  BY <1>1, <1>4, <1>5 DEF Stamps

\* A message put at the end of a ring puts its timestamp at the end.
LEMMA StampsAppend ==
  ASSUME NEW Types, NEW ring \in Seq(Messages(Types)),
         NEW m \in Messages(Types)
  PROVE  Stamps(Append(ring, m)) = Append(Stamps(ring), m.ts)
<1>. DEFINE longer == Append(ring, m)
            old == Stamps(ring)
            new == Append(old, m.ts)
<1>1. longer \in Seq(Messages(Types)) /\ m.ts \in Nat
  BY AppendProperties DEF Messages
<1>2. /\ Len(ring) \in Nat /\ Len(longer) = Len(ring) + 1
      /\ \A i \in 1 .. Len(ring) : longer[i] = ring[i]
      /\ longer[Len(ring) + 1] = m
  BY AppendProperties, LenProperties
<1>. HIDE DEF longer
<1>3. old \in Seq(Nat) /\ Len(old) = Len(ring)
      /\ \A i \in 1 .. Len(ring) : old[i] = ring[i].ts
  BY StampsOf
<1>. HIDE DEF old
<1>4. /\ new \in Seq(Nat) /\ Len(new) = Len(old) + 1
      /\ \A i \in 1 .. Len(old) : new[i] = old[i]
      /\ new[Len(old) + 1] = m.ts
  BY <1>1, <1>3, AppendProperties
<1>. HIDE DEF new
<1>5. Stamps(longer) \in Seq(Nat) /\ Len(Stamps(longer)) = Len(longer)
      /\ \A i \in 1 .. Len(longer) : Stamps(longer)[i] = longer[i].ts
  BY <1>1, StampsOf
<1>6. \A i \in 1 .. Len(new) : Stamps(longer)[i] = new[i]
  <2>. SUFFICES ASSUME NEW i \in 1 .. Len(new) PROVE Stamps(longer)[i] = new[i]
    OBVIOUS
  <2>1. CASE i = Len(ring) + 1
    BY <1>2, <1>3, <1>4, <1>5, <2>1
  <2>2. CASE i # Len(ring) + 1
    <3>1. i \in 1 .. Len(ring) /\ i \in 1 .. Len(longer)
      BY <1>2, <1>3, <1>4, <2>2
    <3>. QED  BY <1>2, <1>3, <1>4, <1>5, <3>1
  <2>. QED  BY <2>1, <2>2
<1>7. Stamps(longer) = new
  BY <1>2, <1>3, <1>4, <1>5, <1>6, SeqEqual
<1>. QED  BY <1>7 DEF longer, new, old

\* The oldest message taken off a ring takes its timestamp along.
LEMMA StampsTail ==
  ASSUME NEW Types, NEW ring \in Seq(Messages(Types)), ring # <<>>
  PROVE  /\ Stamps(ring) # <<>>
         /\ Head(Stamps(ring)) = Head(ring).ts
         /\ Stamps(Tail(ring)) = Tail(Stamps(ring))
<1>. DEFINE old == Stamps(ring)
            rest == Tail(ring)
<1>1. /\ Head(ring) = ring[1] /\ rest \in Seq(Messages(Types))
      /\ Len(rest) = Len(ring) - 1
      /\ \A i \in 1 .. Len(rest) : rest[i] = ring[i + 1]
  BY HeadType
<1>2. Len(ring) \in Nat /\ Len(ring) >= 1
  BY LenProperties, EmptySeq
<1>. HIDE DEF rest
<1>3. old \in Seq(Nat) /\ Len(old) = Len(ring)
      /\ \A i \in 1 .. Len(ring) : old[i] = ring[i].ts
  BY StampsOf
<1>. HIDE DEF old
<1>4. old # <<>>
  BY <1>2, <1>3, EmptySeq
<1>5. /\ Head(old) = old[1] /\ Tail(old) \in Seq(Nat)
      /\ Len(Tail(old)) = Len(old) - 1
      /\ \A i \in 1 .. Len(Tail(old)) : Tail(old)[i] = old[i + 1]
  BY <1>3, <1>4, HeadTailProperties
<1>6. Head(old) = Head(ring).ts
  BY <1>1, <1>2, <1>3, <1>5
<1>7. Stamps(rest) \in Seq(Nat) /\ Len(Stamps(rest)) = Len(rest)
      /\ \A i \in 1 .. Len(rest) : Stamps(rest)[i] = rest[i].ts
  BY <1>1, StampsOf
<1>8. \A i \in 1 .. Len(rest) : Stamps(rest)[i] = Tail(old)[i]
  <2>. SUFFICES ASSUME NEW i \in 1 .. Len(rest)
                PROVE  Stamps(rest)[i] = Tail(old)[i]
    OBVIOUS
  <2>1. i + 1 \in 1 .. Len(ring) /\ i \in 1 .. Len(Tail(old))
    BY <1>1, <1>2, <1>3, <1>5
  <2>. QED  BY <1>1, <1>3, <1>5, <1>7, <2>1
<1>9. Stamps(rest) = Tail(old)
  BY <1>1, <1>3, <1>5, <1>7, <1>8, SeqEqual
<1>. QED  BY <1>4, <1>6, <1>9 DEF old, rest

\* A ring whose messages keep their timestamps.
LEMMA StampsSame ==
  ASSUME NEW ring, NEW filled, Len(filled) = Len(ring),
         \A i \in 1 .. Len(ring) : filled[i].ts = ring[i].ts
  PROVE  Stamps(filled) = Stamps(ring)
BY DEF Stamps

----------------------------------------------------------------------------
(* The steps of the abstract link                                          *)

\* The adapter allocates a slot: on the abstract link, it sends.
LEMMA AdapterSends ==
  ASSUME TypeOK, NEW type \in D2HTypes,
         d2h' = Append(d2h, Plain(type, mainTime)),
         UNCHANGED <<h2d, mainTime, hNow>>
  PROVE  Timed!Send("device")
<1>1. Plain(type, mainTime) \in Messages(D2HTypes)
      /\ Plain(type, mainTime).ts = mainTime + LinkLatency
  BY PlainType DEF TypeOK, Plain
<1>2. Stamps(d2h') = Append(Stamps(d2h), mainTime + LinkLatency)
  BY <1>1, StampsAppend DEF TypeOK
<1>. QED  BY <1>2 DEF Timed!Send, Timed!Other

\* The host places its message.
LEMMA HostSends ==
  ASSUME TypeOK, NEW m \in Messages(H2DTypes), m.ts = hNow + LinkLatency,
         h2d' = Append(h2d, m),
         UNCHANGED <<d2h, mainTime, hNow>>
  PROVE  Timed!Send("host")
<1>2. Stamps(h2d') = Append(Stamps(h2d), hNow + LinkLatency)
  BY StampsAppend DEF TypeOK
<1>. QED  BY <1>2 DEF Timed!Send, Timed!Other

\* The adapter handles a message at the time it is due.
LEMMA AdapterTakes ==
  ASSUME TypeOK, h2d # <<>>, Head(h2d).ts = mainTime, h2d' = Tail(h2d),
         UNCHANGED <<d2h, mainTime, hNow>>
  PROVE  Timed!Deliver("device")
<1>1. /\ Stamps(h2d) # <<>> /\ Head(Stamps(h2d)) = mainTime
      /\ Stamps(h2d') = Tail(Stamps(h2d))
  BY StampsTail DEF TypeOK
<1>. QED  BY <1>1 DEF Timed!Deliver

\* So does the host.
LEMMA HostTakes ==
  ASSUME TypeOK, d2h # <<>>, Head(d2h).ts = hNow, d2h' = Tail(d2h),
         UNCHANGED <<h2d, mainTime, hNow>>
  PROVE  Timed!Deliver("host")
<1>1. /\ Stamps(d2h) # <<>> /\ Head(Stamps(d2h)) = hNow
      /\ Stamps(d2h') = Tail(Stamps(d2h))
  BY StampsTail DEF TypeOK
<1>. QED  BY <1>1 DEF Timed!Deliver

\* A step that sends and takes nothing leaves the adapter's time alone, or
\* moves it on as far as the abstract link allows.
LEMMA AdapterAdvances ==
  ASSUME TypeOK, TypeOK', TimeInv', mainTime <= mainTime',
         Stamps(h2d') = Stamps(h2d), Stamps(d2h') = Stamps(d2h), hNow' = hNow
  PROVE  [Timed!TimedNext]_(Timed!timedVars)
<1>1. CASE mainTime' = mainTime
  BY <1>1 DEF Timed!timedVars
<1>2. CASE mainTime' # mainTime
  <2>1. /\ mainTime \in Nat /\ mainTime' \in Nat /\ inTs' \in Nat
        /\ hNow \in Nat /\ LinkLatency \in Nat
        /\ h2d \in Seq(Messages(H2DTypes)) /\ h2d' \in Seq(Messages(H2DTypes))
    BY LinkAssumption DEF TypeOK, LinkAssumption
  <2>2. mainTime < mainTime'
    BY <1>2, <2>1
  <2>3. /\ mainTime' <= inTs' /\ inTs' <= hNow + LinkLatency
        /\ (\A i \in 1 .. Len(h2d) : inTs <= h2d[i].ts)'
    BY DEF TimeInv, Ordered
  <2>4. mainTime' <= hNow + LinkLatency
    BY <2>1, <2>3
  <2>5. \A i \in 1 .. Len(Stamps(h2d)) : mainTime' <= Stamps(h2d)[i]
    <3>1. /\ Len(Stamps(h2d')) = Len(h2d')
          /\ \A i \in 1 .. Len(h2d') : Stamps(h2d')[i] = h2d'[i].ts
      BY <2>1, StampsOf
    <3>2. \A i \in 1 .. Len(h2d') : h2d'[i].ts \in Nat
      BY <2>1, TimestampType
    <3>3. \A i \in 1 .. Len(h2d') : mainTime' <= h2d'[i].ts
      BY <2>1, <2>3, <3>2
    <3>. QED  BY <3>1, <3>3
  <2>6. Timed!Advance("device")
    BY <2>2, <2>4, <2>5 DEF Timed!Advance, Timed!Other
  <2>. QED  BY <2>6 DEF Timed!TimedNext, Timed!Sides
<1>. QED  BY <1>1, <1>2

\* The same for the host.
LEMMA HostAdvances ==
  ASSUME TypeOK, TypeOK', TimeInv', hNow <= hNow',
         UNCHANGED <<h2d, d2h, mainTime>>
  PROVE  [Timed!TimedNext]_(Timed!timedVars)
<1>1. CASE hNow' = hNow
  BY <1>1 DEF Timed!timedVars
<1>2. CASE hNow' # hNow
  <2>1. /\ hNow \in Nat /\ hNow' \in Nat /\ hInTs' \in Nat
        /\ mainTime \in Nat /\ LinkLatency \in Nat
        /\ d2h \in Seq(Messages(D2HTypes))
    BY LinkAssumption DEF TypeOK, LinkAssumption
  <2>2. hNow < hNow'
    BY <1>2, <2>1
  <2>3. /\ hNow' <= hInTs' /\ hInTs' <= mainTime + LinkLatency
        /\ \A i \in 1 .. Len(d2h) : hInTs' <= d2h[i].ts
    BY DEF TimeInv, Ordered
  <2>4. hNow' <= mainTime + LinkLatency
    BY <2>1, <2>3
  <2>5. \A i \in 1 .. Len(Stamps(d2h)) : hNow' <= Stamps(d2h)[i]
    <3>1. /\ Len(Stamps(d2h)) = Len(d2h)
          /\ \A i \in 1 .. Len(d2h) : Stamps(d2h)[i] = d2h[i].ts
      BY <2>1, StampsOf
    <3>2. \A i \in 1 .. Len(d2h) : d2h[i].ts \in Nat
      BY <2>1, TimestampType
    <3>3. \A i \in 1 .. Len(d2h) : hNow' <= d2h[i].ts
      BY <2>1, <2>3, <3>2
    <3>. QED  BY <3>1, <3>3
  <2>6. Timed!Advance("host")
    BY <2>2, <2>4, <2>5 DEF Timed!Advance, Timed!Other
  <2>. QED  BY <2>6 DEF Timed!TimedNext, Timed!Sides
<1>. QED  BY <1>1, <1>2

\* A message the adapter takes is due, and the adapter has not gone past it.
LEMMA AdapterPolls ==
  ASSUME TypeOK, TimeInv, IsSync, h2d # <<>>, IsDue(Head(h2d), mainTime),
         Consume, hNow' = hNow
  PROVE  Timed!Deliver("device")
<1>1. /\ Head(h2d).ts \in Nat /\ inTs <= Head(h2d).ts
  BY OrderedTail DEF TypeOK, TimeInv
<1>2. mainTime \in Nat /\ inTs \in Nat /\ mainTime <= inTs
      /\ Head(h2d).ts <= mainTime
  BY DEF TypeOK, TimeInv, IsDue
<1>3. Head(h2d).ts = mainTime
  BY <1>1, <1>2
<1>. QED  BY <1>3, AdapterTakes DEF Consume

\* A slot the adapter fills keeps the timestamp of its allocation.
LEMMA AdapterFills ==
  ASSUME ProtocolInv, pc \in SendPcs,
         NEW from, NEW to, NEW type \in D2HTypes, NEW id \in Nat, NEW at,
         at.bar \in Nat, at.offset \in Nat, at.len \in Nat,
         SendPcieOut(from, to, type, id, at)
  PROVE  /\ Stamps(d2h') = Stamps(d2h) /\ h2d' = h2d
         /\ mainTime' = mainTime
<1>1. d2h \in Seq(Messages(D2HTypes)) /\ d2h # <<>>
  BY DEF ProtocolInv, TypeOK, SlotInv
<1>2. d2h' = [d2h EXCEPT ![Len(d2h)] =
               [type |-> type, ts |-> @.ts, id |-> id,
                bar |-> at.bar, offset |-> at.offset, len |-> at.len]]
  BY DEF SendPcieOut
<1>3. Len(d2h') = Len(d2h) /\ \A i \in 1 .. Len(d2h) : d2h'[i].ts = d2h[i].ts
  BY <1>1, <1>2, FillLast
<1>. QED  BY <1>3, StampsSame DEF SendPcieOut, timeVars

\* The two messages SendPcieOut is called with.
LEMMA SendsFill ==
  ASSUME ProtocolInv, DmaSend \/ ReplySend
  PROVE  /\ Stamps(d2h') = Stamps(d2h) /\ h2d' = h2d
         /\ mainTime' = mainTime
<1>0. TypeOK
  BY DEF ProtocolInv
<1>1. CASE DmaSend
  <2>. DEFINE at == [bar |-> 0, offset |-> dma.off, len |-> Chunk]
  <2>1. dma.kind \in {"read", "write"} /\ dma.no \in Nat /\ dma.off \in Nat
        /\ Chunk \in Nat
    BY <1>0, ChunkType DEF TypeOK, Dmas
  <2>2. at.bar \in Nat /\ at.offset \in Nat /\ at.len \in Nat
        /\ dma.kind \in D2HTypes
    BY <2>1 DEF D2HTypes
  <2>3. SendPcieOut("dmaSend", "pumpSync", dma.kind, dma.no, at)
        /\ pc \in SendPcs
    BY <1>1 DEF DmaSend, SendPcieOut, SendPcs
  <2>. HIDE DEF at
  <2>. QED  BY <2>1, <2>2, <2>3, AdapterFills
<1>2. CASE ReplySend
  <2>. DEFINE type == IF r.type = "read" THEN "readcomp" ELSE "writecomp"
  <2>1. r.id \in Nat /\ r.bar \in Nat /\ r.offset \in Nat /\ r.len \in Nat
    BY <1>0 DEF TypeOK, MmioReqs
  <2>2. type \in D2HTypes
    BY DEF D2HTypes, CompTypes
  <2>3. SendPcieOut("replySend", "drain", type, r.id, r) /\ pc \in SendPcs
    BY <1>2 DEF ReplySend, SendPcieOut, SendPcs
  <2>. HIDE DEF type
  <2>. QED  BY <2>1, <2>2, <2>3, AdapterFills
<1>. QED  BY <1>1, <1>2

\* Every step of the adapter is one of the abstract link, or none.
LEMMA AdapterImplementsLink ==
  ASSUME ProtocolInv, ProtocolInv', TimeInv, IsSync,
         DeviceNext, UNCHANGED hostVars
  PROVE  [Timed!TimedNext]_(Timed!timedVars)
<1>0. TypeOK /\ TypeOK' /\ hNow' = hNow
  BY DEF ProtocolInv, hostVars
<1>t. TimeInv' /\ mainTime <= mainTime'
  BY DeviceTime
<1>s. ASSUME Stamps(h2d') = Stamps(h2d), Stamps(d2h') = Stamps(d2h)
      PROVE  [Timed!TimedNext]_(Timed!timedVars)
  BY <1>0, <1>t, <1>s, AdapterAdvances
<1>q. ASSUME UNCHANGED <<h2d, d2h>> PROVE [Timed!TimedNext]_(Timed!timedVars)
  BY <1>s, <1>q
<1>e. ASSUME NEW how, Exit(how) PROVE [Timed!TimedNext]_(Timed!timedVars)
  BY <1>e, <1>q DEF Exit, linkVars
<1>a. ASSUME NEW type \in D2HTypes, d2h' = Append(d2h, Plain(type, mainTime)),
             UNCHANGED <<h2d, mainTime>>
      PROVE  [Timed!TimedNext]_(Timed!timedVars)
  <2>1. Timed!Send("device")
    BY <1>0, <1>a, AdapterSends
  <2>. QED  BY <2>1 DEF Timed!TimedNext, Timed!Sides
<1>1. ASSUME NEW from, NEW to, OutSync(from, to)
      PROVE  [Timed!TimedNext]_(Timed!timedVars)
  <2>1. "sync" \in D2HTypes
    BY DEF D2HTypes
  <2>. QED  BY <1>1, <1>a, <1>q, <2>1 DEF OutSync
<1>2. ASSUME NEW from, NEW to, AllocPcieOut(from, to)
      PROVE  [Timed!TimedNext]_(Timed!timedVars)
  <2>1. "held" \in D2HTypes
    BY DEF D2HTypes
  <2>. QED  BY <1>2, <1>a, <1>e, <2>1 DEF AllocPcieOut
<1>3. ASSUME DmaSend \/ ReplySend PROVE [Timed!TimedNext]_(Timed!timedVars)
  BY <1>3, <1>s, SendsFill
<1>4. ASSUME PollPcie PROVE [Timed!TimedNext]_(Timed!timedVars)
  <2>1. CASE PollOversize
    BY <1>e, <2>1 DEF PollOversize
  <2>2. CASE PollMmio \/ PollCompletion \/ PollControl
    <3>1. h2d # <<>> /\ IsDue(Head(h2d), mainTime) /\ Consume
      BY <2>2 DEF PollMmio, PollCompletion, PollControl, Polling, Pollable,
         Visible
    <3>2. Timed!Deliver("device")
      BY <1>0, <3>1, AdapterPolls
    <3>. QED  BY <3>2 DEF Timed!TimedNext, Timed!Sides
  <2>. QED  BY <1>4, <2>1, <2>2 DEF PollPcie
<1>5. ASSUME \/ PollPcieAllEnds \/ DmaChunkDone \/ DmaPumpAdvance
             \/ JumpToDeadline \/ RunClocks \/ ClockReturns
      PROVE  [Timed!TimedNext]_(Timed!timedVars)
  BY <1>5, <1>q DEF PollPcieAllEnds, DmaChunkDone, DmaPumpAdvance,
     JumpToDeadline, RunClocks, ClockReturns, linkVars
<1>6. ASSUME \/ \E kind \in {"read", "write"}, size \in DmaSizes :
                  LibDma(kind, size)
             \/ DrainRequest \/ MmioReturns \/ DrainEnds \/ WaitForPeer
             \/ LoopTail
      PROVE  [Timed!TimedNext]_(Timed!timedVars)
  BY <1>6, <1>q DEF LibDma, DrainRequest, MmioReturns, DrainEnds, WaitForPeer,
     LoopTail, linkVars
<1>7. ASSUME DmaCut \/ DrainOverrun PROVE [Timed!TimedNext]_(Timed!timedVars)
  BY <1>7, <1>e DEF DmaCut, DrainOverrun
<1>. QED
  BY <1>1, <1>2, <1>3, <1>4, <1>5, <1>6, <1>7 DEF DeviceNext

\* Every step of the host is one of the abstract link, or none.
LEMMA HostImplementsLink ==
  ASSUME ProtocolInv, ProtocolInv', TimeInv, IsSync,
         HostNext, UNCHANGED deviceVars
  PROVE  [Timed!TimedNext]_(Timed!timedVars)
<1>0. TypeOK /\ TypeOK' /\ mainTime' = mainTime
  BY DEF ProtocolInv, deviceVars, timeVars
<1>t. TimeInv'
  BY HostTime
<1>n. hNow \in Nat /\ hInTs \in Nat
  BY <1>0 DEF TypeOK
<1>q. ASSUME UNCHANGED <<h2d, d2h>>, hNow <= hNow'
      PROVE  [Timed!TimedNext]_(Timed!timedVars)
  BY <1>0, <1>t, <1>q, HostAdvances
<1>1. CASE HostSync \/ HostTerminate \/ \E t \in Targets : HostIssue(t)
  <2>1. UNCHANGED <<h2d, d2h>> /\ hNow' = hNow
    BY <1>1 DEF HostSync, HostTerminate, HostIssue, linkVars
  <2>. QED  BY <1>n, <1>q, <2>1
<1>2. CASE HostSend
  <2>. DEFINE m == Head(hOut)
  <2>1. /\ hOut # <<>> /\ h2d' = Append(h2d, m)
        /\ UNCHANGED <<d2h, hNow>>
    BY <1>2 DEF HostSend
  <2>2. m \in Messages(H2DTypes) /\ m = hOut[1] /\ 1 \in 1 .. Len(hOut)
    <3>1. Len(hOut) \in Nat /\ Len(hOut) # 0
      BY <1>0, <2>1, LenProperties, EmptySeq DEF TypeOK
    <3>. QED  BY <1>0, <2>1, <3>1, HeadType DEF TypeOK
  <2>3. m.ts = hNow + LinkLatency
    BY <2>2 DEF TimeInv
  <2>. HIDE DEF m
  <2>4. Timed!Send("host")
    BY <1>0, <2>1, <2>2, <2>3, HostSends
  <2>. QED  BY <2>4 DEF Timed!TimedNext, Timed!Sides
<1>3. CASE HostPoll
  <2>1. /\ d2h # <<>> /\ d2h' = Tail(d2h) /\ Head(d2h).ts <= hNow
        /\ UNCHANGED <<h2d, hNow>>
    BY <1>3 DEF HostPoll, Pollable, Visible, IsDue
  <2>2. Head(d2h).ts \in Nat /\ hInTs <= Head(d2h).ts
    BY <1>0, <2>1, OrderedTail DEF TypeOK, TimeInv
  <2>3. Head(d2h).ts = hNow
    BY <1>n, <2>1, <2>2 DEF TimeInv
  <2>4. Timed!Deliver("host")
    BY <1>0, <2>1, <2>3, HostTakes
  <2>. QED  BY <2>4 DEF Timed!TimedNext, Timed!Sides
<1>4. CASE HostAdvance
  <2>1. UNCHANGED <<h2d, d2h>>
        /\ hNow' \in (hNow + 1) ..
                     Earlier(Earlier(hInTs', hNextSync), HostHorizon)
    BY <1>4 DEF HostAdvance, linkVars
  <2>2. hNow' \in Nat /\ hNow <= hNow'
    BY <1>0, <1>n, <2>1 DEF TypeOK
  <2>. QED  BY <1>q, <2>1, <2>2
<1>. QED  BY <1>1, <1>2, <1>3, <1>4 DEF HostNext

\* The link comes up as the abstract link does: with a message on the way to
\* the adapter.
LEMMA LinkComesUp == Init => Timed!TimedInit
<1>. SUFFICES ASSUME Init PROVE Timed!TimedInit
  OBVIOUS
<1>1. h2d = <<Plain("devctrl", 0)>> /\ d2h = <<>> /\ mainTime = 0 /\ hNow = 0
  BY DEF Init, LinkInit, DeviceInit, HostInit
<1>2. LinkLatency \in Nat
  BY LinkAssumption DEF LinkAssumption
<1>. DEFINE m == Plain("devctrl", 0)
<1>3. m.ts = LinkLatency
  BY <1>2 DEF Plain
<1>. HIDE DEF m
<1>4. Len(h2d) = 1 /\ h2d[1] = m
  BY <1>1 DEF m
<1>5. Stamps(h2d) = <<LinkLatency>>
  BY <1>3, <1>4 DEF Stamps
<1>6. Stamps(d2h) = <<>>
  BY <1>1 DEF Stamps
<1>. QED  BY <1>1, <1>5, <1>6 DEF Timed!TimedInit, Timed!Sides

\* On a synchronized link both sides handle every message exactly when it is
\* due, in the order of sending: PollPcie finds only what is due now, and no
\* clock goes past a message to come or further than the latency from the
\* other, although RunClocks, DmaPumpUntil and the host know only the last
\* timestamp they have polled.
THEOREM LinkKeepsTime == ASSUME IsSync PROVE Spec => ImplementsTimedLink
<1>1. ASSUME ProtocolInv, ProtocolInv', TimedInv, [Next]_vars
      PROVE  [Timed!TimedNext]_(Timed!timedVars)
  <2>0. TimeInv
    BY <1>1 DEF TimedInv
  <2>1. CASE Device
    BY <1>1, <2>0, <2>1, AdapterImplementsLink DEF Device
  <2>2. CASE Host
    BY <1>1, <2>0, <2>2, HostImplementsLink DEF Host
  <2>3. CASE Finished \/ UNCHANGED vars
    BY <2>3 DEF Finished, vars, linkVars, deviceVars, timeVars, hostVars,
       Timed!timedVars
  <2>. QED  BY <1>1, <2>1, <2>2, <2>3 DEF Next
<1>. QED
  BY <1>1, LinkComesUp, ProtocolAlways, TimedAlways, PTL
     DEF Spec, ImplementsTimedLink, Timed!TimedSpec
=============================================================================
