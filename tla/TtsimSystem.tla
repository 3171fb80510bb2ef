----------------------------- MODULE TtsimSystem ----------------------------
(***************************************************************************)
(* The adapter and the host joined by the link.  Every step is a step of   *)
(* one of the two processes; they share the rings and nothing else.        *)
(***************************************************************************)
EXTENDS TtsimBm, PcieHost

vars == <<linkVars, deviceVars, hostVars>>

Init == LinkInit /\ DeviceInit /\ HostInit

Device == DeviceNext /\ UNCHANGED hostVars
Host == HostNext /\ UNCHANGED deviceVars

\* The adapter has exited: the simulation may be over.
Finished == pc = "stopped" /\ UNCHANGED vars

Next == Device \/ Host \/ Finished

Spec == Init /\ [][Next]_vars

\* Both processes are given the processor.  Each stage of the host's loop
\* comes round, but it need not issue a request or terminate.
FairSpec ==
  /\ Spec
  /\ WF_vars(Device)
  /\ WF_vars(HostSync /\ UNCHANGED deviceVars)
  /\ WF_vars(HostSend /\ UNCHANGED deviceVars)
  /\ WF_vars(HostPoll /\ UNCHANGED deviceVars)
  /\ WF_vars(HostAdvance /\ UNCHANGED deviceVars)

----------------------------------------------------------------------------
(* Types *)

\* Every variable holds a value of its kind.
TypeOK ==
  /\ h2d \in Seq(Messages(H2DTypes))
  /\ d2h \in Seq(Messages(D2HTypes))
  /\ peerGone \in BOOLEAN
  /\ pc \in Pcs
  /\ mainTime \in Nat /\ inTs \in Nat /\ nextSync \in Nat
  /\ waiting \in BOOLEAN
  /\ mmioQ \in Seq(MmioReqs) /\ r \in MmioReqs
  /\ call \in {"none", "mmio", "clock"} /\ target \in Nat
  /\ dma \in Dmas /\ dma.off <= dma.size
  /\ slotDone \in BOOLEAN
  /\ devBuf \subseteq Nat \X Nat
  /\ exiting \in BOOLEAN /\ outcome \in Outcomes
  /\ hNow \in Nat /\ hInTs \in Nat /\ hNextSync \in Nat
  /\ hOut \in Seq(Messages(H2DTypes)) /\ Len(hOut) <= 1
  /\ issued \in Seq([type : MmioTypes, bar : Nat, offset : Nat, len : Nat])
  /\ answered \subseteq Nat
  /\ hostMem \subseteq Nat \X Nat

----------------------------------------------------------------------------
(* The protocol *)

\* Slots leave the ring in the order they were allocated, so a slot that is
\* allocated and not sent hides what is sent behind it.  No slot is held
\* except between AllocPcieOut and SendPcieOut, and none is behind it: in
\* particular none across a libttsim call, which could send a DMA.
HeldSlotIsLast ==
  \A i \in 1 .. Len(d2h) :
    d2h[i].type = "held" => i = Len(d2h) /\ pc \in {"dmaSend", "replySend"}

\* libttsim is not reentrant: while a call is on the stack, the messages
\* handled under it start no other call and take no request off the queue.
NoNestedCalls ==
  [][ \/ r' # r
      \/ call' \notin {call, "none"}
      => call = "none" ]_vars

\* DmaPumpUntil writes through the req_id of a completion without looking
\* at it.  Every completion on its way names the chunk that is in flight
\* now, whose slot is live, and there is at most one.
CompletionFitsSlot(m) ==
  m.type \in CompTypes =>
    /\ pc \in PumpPcs \cup {"stopped"}
    /\ ~slotDone
    /\ m.type = IF dma.kind = "read" THEN "readcomp" ELSE "writecomp"
    /\ m.id = dma.no /\ m.offset = dma.off /\ m.len = Chunk

CompletionsFitLiveSlot ==
  LET coming == h2d \o hOut
  IN  /\ \A i \in 1 .. Len(coming) : CompletionFitsSlot(coming[i])
      /\ \A i, j \in 1 .. Len(coming) :
           coming[i].type \in CompTypes /\ coming[j].type \in CompTypes
             => i = j

\* When a DMA callback has returned to libttsim, the whole transfer has
\* happened, each unit at its place and nothing beyond the end.
DmaSynchronous ==
  dma.no > 0 /\ pc \notin DmaPcs \cup {"stopped"} =>
    /\ dma.kind = "read" => devBuf = {<<i, i>> : i \in 0 .. (dma.size - 1)}
    /\ dma.kind = "write" => {x \in hostMem : x[1] = dma.no}
                               = {<<dma.no, i>> : i \in 0 .. (dma.size - 1)}

\* The abstract DMA port: a callback is on the stack in the stages of a DMA.
Port ==
  INSTANCE DmaPort WITH
    Sizes <- DmaSizes,
    Limit <- MaxDmaChunk,
    mode  <- IF pc \in DmaPcs THEN "moving"
             ELSE IF pc = "stopped" THEN "dead" ELSE "idle",
    no    <- dma.no,
    kind  <- dma.kind,
    size  <- dma.size,
    buf   <- devBuf,
    mem   <- hostMem

\* The callbacks move what they are asked to, in order, and before they return;
\* nothing of a transfer happens after that, on either side.
ImplementsDmaPort == Port!PortSpec

\* A request without an answer is on its way, in mmioQ, being served, or its
\* completion is in the ring.
InRing(ring, types, id) ==
  \E i \in 1 .. Len(ring) : ring[i].type \in types /\ ring[i].id = id

RequestSomewhere(id) ==
  \/ InRing(h2d \o hOut, MmioTypes, id)
  \/ \E i \in 1 .. Len(mmioQ) : mmioQ[i].id = id
  \/ r.id = id /\ (call = "mmio" \/ pc \in ReplyPcs)
  \/ InRing(d2h, CompTypes, id)

ChunkSomewhere ==
  InRing(d2h, {dma.kind}, dma.no) \/ InRing(h2d \o hOut, CompTypes, dma.no)

\* Nothing that somebody waits for is lost: a request that came in while a
\* DMA was pumped is still known when the call has returned, and DmaPumpUntil
\* waits only while its chunk is asked for or its completion on the way.
NothingLost ==
  /\ pc # "stopped" => \A id \in Unanswered : RequestSomewhere(id)
  /\ pc \in PumpPcs /\ ~slotDone => ChunkSomewhere

\* The process ends for a cause.  After TERMINATE it ends normally with
\* libttsim idle, in AllocPcieOut, or in the middle of a DMA with the slot still
\* open.  Without TERMINATE it ends only on a request of the host's that is
\* longer than kMaxMmioLen: by exit(1) on a write, by an overrun on a read.
EndsForCause ==
  pc = "stopped" =>
    \/ outcome = "clean" /\ peerGone /\ call = "none"
    \/ outcome = "sendCut" /\ peerGone
    \/ outcome = "dmaCut" /\ peerGone /\ call # "none" /\ exiting /\ ~slotDone
    \/ outcome = "oversize" /\ \E i \in 1 .. Len(issued) : TooLong(issued[i])
    \/ outcome = "overrun" /\ \E i \in 1 .. Len(issued) : Overruns(issued[i])

\* The abstract endpoint: begun is the id of the request taken last, and a
\* request is replied to from the moment its completion is in the ring.
Endpoint ==
  INSTANCE PcieEndpoint WITH
    Requests <- Targets,
    begun   <- r.id,
    replied <- answered \cup
               {d2h[i].id : i \in {j \in 1 .. Len(d2h) :
                                     d2h[j].type \in CompTypes}}

\* The device executes the requests in order and completes each once.
ImplementsEndpoint == Endpoint!EndpointSpec

\* Every request that waits for a completion gets it, unless the simulation
\* is shut down first.
RequestsAnswered ==
  \A i \in 1 .. MaxReqs :
    i \in Unanswered ~> i \in answered \/ peerGone \/ pc = "stopped"

\* After TERMINATE the adapter exits, whatever it was doing.
TerminateEndsDevice == peerGone ~> pc = "stopped"

----------------------------------------------------------------------------
(* Time, on a synchronized link *)

\* Neither side ever gets a message after its time: nothing on the way to
\* it has a timestamp in its past.
NothingLate ==
  IsSync =>
    /\ \A i \in 1 .. Len(h2d) : mainTime <= h2d[i].ts
    /\ \A i \in 1 .. Len(d2h) : hNow <= d2h[i].ts

\* The two clocks are never further apart than the latency of the link.
SkewBounded ==
  IsSync => mainTime <= hNow + LinkLatency /\ hNow <= mainTime + LinkLatency

\* The adapter does not run past the point where it owes the host a sync,
\* and no clock call is given a window that does.
WithinWindow ==
  IsSync =>
    /\ mainTime <= nextSync
    /\ call = "clock" => target <= nextSync

\* Simulated time does not go back, although a DMA inside a clock call may
\* take it past the end the call was given.
TimeNeverBack == [][mainTime' >= mainTime]_vars

\* The abstract link: of the messages in a ring only the time counts.
Stamps(ring) == [i \in 1 .. Len(ring) |-> ring[i].ts]

Timed ==
  INSTANCE TimedLink WITH
    Latency <- LinkLatency,
    now    <- [s \in {"device", "host"} |->
                 IF s = "device" THEN mainTime ELSE hNow],
    coming <- [s \in {"device", "host"} |->
                 Stamps(IF s = "device" THEN h2d ELSE d2h)]

\* On a synchronized link every message is handled exactly when it is due,
\* although nobody knows the clock of the other side, and DMA moves the
\* adapter's in the middle of a libttsim call.
ImplementsTimedLink == Timed!TimedSpec

\* Simulated time goes on: the adapter reaches every time the host is
\* prepared to go to, unless the simulation is shut down first.
TimeAdvances ==
  IsSync => <>(mainTime >= HostHorizon \/ peerGone \/ pc = "stopped")

\* Neither side waits for a timestamp the other will never send.  Each stops
\* at the last one it saw, so with a sync interval within the latency they
\* cannot both have stopped with nothing on the way and no sync owed.
DeviceWaits == h2d = <<>> /\ inTs <= mainTime /\ ~SyncOwed
HostWaits == Running /\ d2h = <<>> /\ hInTs <= hNow /\ ~HostSyncOwed

NoMutualWait ==
  IsSync /\ SyncInterval <= LinkLatency => ~(DeviceWaits /\ HostWaits)

----------------------------------------------------------------------------
(* Room in the adapter's ring *)

\* What the ring holds when the adapter takes a slot: the completions the host
\* has yet to poll, and on a synchronized link the syncs of two latencies, by
\* which the adapter is ahead of the slowest host, and a chunk or a sync more.
RoomNeeded ==
  IF IsSync THEN MaxOutstanding + 2 + (2 * LinkLatency) \div SyncInterval
            ELSE MaxOutstanding + 1

\* The adapter owes a sync, or is in AllocPcieOut.
SlotWanted ==
  \/ pc \in {"sync", "pumpSync"} /\ SyncOwed
  \/ pc \in {"dmaAlloc", "replyAlloc"}

\* AllocPcieOut waits for a slot without polling, so it would block the host
\* that waits for one itself, and the loop around OutSync does not look for
\* TERMINATE.  With room for what can be on the way neither ever waits.
OutputHasRoom == RingSize >= RoomNeeded /\ SlotWanted => HasRoom(d2h)

----------------------------------------------------------------------------
(* What the comments and the usage text say, and the code does not keep *)

\* "stretches where we have run to the deadline and have nothing left to do
\* until the peer advances": no time spent inside libttsim is counted.
WaitingIsIdle == waiting => call = "none"

\* "device clock frequency": as time goes on the device is clocked.
DeviceIsClocked == <>(call = "clock" \/ peerGone)
=============================================================================
