------------------------------- MODULE TtsimBm ------------------------------
(***************************************************************************)
(* ttsim_bm once the link is up: one thread that runs RunLoop and, inside  *)
(* a libttsim call, the DMA callbacks libttsim makes back into it.  The    *)
(* steps of the thread between two looks at the link are the actions; pc   *)
(* says where the thread is:                                               *)
(*                                                                         *)
(*   sync, poll, drain, clock, tail    the stages of one RunLoop iteration *)
(*   lib                               libttsim has control                *)
(*   replyAlloc, replySend             the completion of an MMIO request   *)
(*   dmaAlloc, dmaSend                 DmaMemRead and DmaMemWrite          *)
(*   pumpSync, pumpPoll                DmaPumpUntil                        *)
(*   stopped                           the process has exited              *)
(*                                                                         *)
(* libttsim is not in the repository: it may start a DMA at any point of   *)
(* any call, and returns when it likes.                                    *)
(***************************************************************************)
EXTENDS SimbricksPcie, BarMap

CONSTANTS
  PsPerClock,        \* ps_per_clock
  MaxBatch,          \* max_batch_clocks
  MaxClocksPerCall,  \* kMaxClocksPerCall
  MaxDmaChunk,       \* max_dma_chunk, in units of data
  MaxMmioLen,        \* kMaxMmioLen
  DmaSizes,          \* sizes libttsim asks for in a DMA, in units of data
  MaxDmas,           \* bound: DMAs libttsim starts
  Horizon            \* bound: where simulated time stops

ASSUME TtsimAssumption ==
  /\ PsPerClock \in Nat \ {0}
  /\ MaxBatch \in Nat \ {0}
  /\ MaxClocksPerCall \in Nat \ {0}
  /\ MaxDmaChunk \in Nat \ {0}
  /\ MaxMmioLen \in Nat
  /\ DmaSizes \subseteq Nat \ {0}
  /\ MaxDmas \in Nat
  /\ Horizon \in Nat

VARIABLES
  pc,        \* where the thread is
  mainTime,  \* main_time
  inTs,      \* SimbricksPcieIfH2DInTimestamp
  nextSync,  \* SimbricksPcieIfD2HOutNextSync
  waiting,   \* waiting_for_peer
  mmioQ,     \* mmio_q
  r,         \* the request DrainDeferredMmio last took off mmioQ
  call,      \* the libttsim entry point on the stack
  target,    \* where a clock call ends: start + n * ps_per_clock
  dma,       \* the arguments and the progress of the last DMA callback
  slotDone,  \* slot.done
  devBuf,    \* what a DMA read has put at dst: pairs <<position, unit>>
  exiting,   \* exiting
  outcome    \* how the process ended

timeVars == <<mainTime, inTs, nextSync>>
mmioVars == <<mmioQ, r>>
libVars  == <<call, target>>
dmaVars  == <<dma, slotDone, devBuf>>
endVars  == <<exiting, outcome>>
deviceVars == <<pc, timeVars, waiting, mmioVars, libVars, dmaVars, endVars>>

LoopPcs == {"sync", "poll", "drain", "clock", "tail"}
ReplyPcs == {"replyAlloc", "replySend"}
PumpPcs == {"pumpSync", "pumpPoll"}
DmaPcs == {"dmaAlloc", "dmaSend"} \cup PumpPcs
Pcs == LoopPcs \cup ReplyPcs \cup DmaPcs \cup {"lib", "stopped"}

Outcomes == {"running", "clean", "dmaCut", "sendCut", "oversize", "overrun"}

MmioReqs == [type : MmioTypes, id : Nat, bar : Nat, offset : Nat, len : Nat]
NoReq == [type |-> "posted", id |-> 0, bar |-> 0, offset |-> 0, len |-> 0]
Dmas == [no : Nat, kind : {"read", "write"}, size : Nat, off : Nat]

DeviceInit ==
  /\ pc = "sync"
  /\ mainTime = 0 /\ inTs = 0 /\ nextSync = 0
  /\ waiting = FALSE
  /\ mmioQ = <<>> /\ r = NoReq
  /\ call = "none" /\ target = 0
  /\ dma = [no |-> 0, kind |-> "read", size |-> 0, off |-> 0]
  /\ slotDone = FALSE /\ devBuf = {}
  /\ exiting = FALSE /\ outcome = "running"

----------------------------------------------------------------------------
(* Helpers *)

\* exit(): the process ends where it stands.
Exit(how) ==
  /\ pc' = "stopped"
  /\ outcome' = how
  /\ UNCHANGED <<linkVars, timeVars, waiting, mmioVars, libVars, dmaVars,
                 exiting>>

\* Fault: only the sync that is owed counts, or only the message to come.
DeadlineSyncOnly == nextSync
DeadlineMessageOnly == inTs

NextSimbricksDeadline == Earlier(inTs, nextSync)

\* Without synchronization nobody reads the time: it saturates at the bound.
Bounded(t) == IF IsSync THEN t ELSE Earlier(t, Horizon)

\* Fault: the last chunk is as long as the others.
ChunkNotShortened == MaxDmaChunk

\* The chunk of the DMA that starts at dma.off, and the units it moves.
Chunk == Earlier(dma.size - dma.off, MaxDmaChunk)

SyncOwed == IsSync /\ nextSync <= mainTime

----------------------------------------------------------------------------
(* Output *)

\* Fault: the next sync is counted from the timestamp of this one.
OutSyncFromStamp(from, to) ==
  /\ pc = from
  /\ \/ /\ SyncOwed
        /\ HasRoom(d2h)
        /\ d2h' = Append(d2h, Plain("sync", mainTime))
        /\ nextSync' = mainTime + LinkLatency + SyncInterval
        /\ UNCHANGED pc
     \/ /\ ~SyncOwed
        /\ pc' = to
        /\ UNCHANGED <<d2h, nextSync>>
  /\ UNCHANGED <<h2d, peerGone, mainTime, inTs, waiting, mmioVars, libVars,
                 dmaVars, endVars>>

\* while (SimbricksPcieIfD2HOutSync(...)) {}: the loop goes round until
\* nothing is owed.  It spins while the ring is full.
OutSync(from, to) ==
  /\ pc = from
  /\ \/ /\ SyncOwed
        /\ HasRoom(d2h)
        /\ d2h' = Append(d2h, Plain("sync", mainTime))
        /\ nextSync' = mainTime + SyncInterval
        /\ UNCHANGED pc
     \/ /\ ~SyncOwed
        /\ pc' = to
        /\ UNCHANGED <<d2h, nextSync>>
  /\ UNCHANGED <<h2d, peerGone, mainTime, inTs, waiting, mmioVars, libVars,
                 dmaVars, endVars>>

\* AllocPcieOut takes the next slot, waiting for one without polling, and
\* gives up when the peer has terminated.  The link has noticed that for
\* certain once TERMINATE was polled, and may notice it when the peer is gone.
AllocPcieOut(from, to) ==
  /\ pc = from
  /\ \/ /\ ~exiting
        /\ HasRoom(d2h)
        /\ d2h' = Append(d2h, Plain("held", mainTime))
        /\ nextSync' = mainTime + SyncInterval
        /\ pc' = to
        /\ UNCHANGED <<h2d, peerGone, mainTime, inTs, waiting, mmioVars,
                       libVars, dmaVars, endVars>>
     \/ /\ exiting \/ peerGone
        /\ Exit("sendCut")

\* SendPcieOut gives the slot allocated last to the host.
SendPcieOut(from, to, type, id, at) ==
  /\ pc = from
  /\ d2h' = [d2h EXCEPT ![Len(d2h)] =
               [type |-> type, ts |-> @.ts, id |-> id,
                bar |-> at.bar, offset |-> at.offset, len |-> at.len]]
  /\ pc' = to
  /\ UNCHANGED <<h2d, peerGone, timeVars, waiting, mmioVars, libVars, dmaVars,
                 endVars>>

----------------------------------------------------------------------------
(* Input: PollPcie handles one due message, from RunLoop or from the pump  *)

Polling(types) ==
  /\ pc \in {"poll", "pumpPoll"}
  /\ Pollable(h2d, mainTime)
  /\ Head(h2d).type \in types

\* InPoll remembered the timestamp; InDone gives the slot back.
Consume ==
  /\ inTs' = Head(h2d).ts
  /\ h2d' = Tail(h2d)
  /\ UNCHANGED <<d2h, peerGone, mainTime, nextSync>>

TooLong(m) == m.type \in {"write", "posted"} /\ m.len > MaxMmioLen

\* Fault: requests that come in while a DMA is pumped are not kept.
PollMmioOnlyInLoop ==
  /\ Polling(MmioTypes)
  /\ ~TooLong(Head(h2d))
  /\ Consume
  /\ LET m == Head(h2d) IN
       mmioQ' = IF pc = "pumpPoll" THEN mmioQ ELSE
                Append(mmioQ, [type |-> m.type, id |-> m.id, bar |-> m.bar,
                               offset |-> m.offset, len |-> m.len])
  /\ UNCHANGED <<pc, waiting, r, libVars, dmaVars, endVars>>

\* An MMIO request is copied out of its slot and left for later.
PollMmio ==
  /\ Polling(MmioTypes)
  /\ ~TooLong(Head(h2d))
  /\ Consume
  /\ LET m == Head(h2d) IN
       mmioQ' = Append(mmioQ, [type |-> m.type, id |-> m.id, bar |-> m.bar,
                               offset |-> m.offset, len |-> m.len])
  /\ UNCHANGED <<pc, waiting, r, libVars, dmaVars, endVars>>

\* A write that does not fit in MmioReq ends the process.
PollOversize ==
  /\ Polling(MmioTypes)
  /\ TooLong(Head(h2d))
  /\ Exit("oversize")

\* READCOMP copies slot->len units of its payload to slot->buf: position
\* dma.off + i of dst gets unit offset + i of the host's memory.  WRITECOMP
\* only marks the slot.  Neither looks at anything but the slot.
PollCompletion ==
  /\ Polling(CompTypes)
  /\ Consume
  /\ slotDone' = TRUE
  /\ devBuf' = IF Head(h2d).type = "readcomp"
               THEN devBuf \cup {<<dma.off + i, Head(h2d).offset + i>> :
                                   i \in 0 .. (Chunk - 1)}
               ELSE devBuf
  /\ UNCHANGED <<pc, waiting, mmioVars, libVars, dma, endVars>>

\* Fault: TERMINATE is taken for a SYNC.
PollControlNoExit ==
  /\ Polling({"devctrl", "sync", "terminate"})
  /\ Consume
  /\ UNCHANGED <<pc, waiting, mmioVars, libVars, dmaVars, endVars>>

\* DEVCTRL only latches flags nobody reads, and SYNC carries only its time.
PollControl ==
  /\ Polling({"devctrl", "sync", "terminate"})
  /\ Consume
  /\ exiting' = (exiting \/ Head(h2d).type = "terminate")
  /\ UNCHANGED <<pc, waiting, mmioVars, libVars, dmaVars, outcome>>

PollPcie == PollMmio \/ PollOversize \/ PollCompletion \/ PollControl

\* PollPcieAll ends on a poll that returns nothing.
PolledDry(from) ==
  /\ pc = from
  /\ ~Pollable(h2d, mainTime)
  /\ inTs' = PeekedTs(h2d, inTs)

PollPcieAllEnds ==
  /\ PolledDry("poll")
  /\ pc' = "drain"
  /\ UNCHANGED <<linkVars, mainTime, nextSync, waiting, mmioVars, libVars,
                 dmaVars, endVars>>

----------------------------------------------------------------------------
(* DMA: libttsim calls back, and gets its answer before it continues       *)

LibDma(kind, size) ==
  /\ pc = "lib"
  /\ dma.no < MaxDmas
  /\ dma' = [no |-> dma.no + 1, kind |-> kind, size |-> size, off |-> 0]
  /\ slotDone' = FALSE
  /\ devBuf' = {}
  /\ pc' = "dmaAlloc"
  /\ UNCHANGED <<linkVars, timeVars, waiting, mmioVars, libVars, endVars>>

\* Fault: every chunk asks for the start of the transfer.
DmaSendNoOffset ==
  SendPcieOut("dmaSend", "pumpSync", dma.kind, dma.no,
              [bar |-> 0, offset |-> 0, len |-> Chunk])

DmaSend ==
  SendPcieOut("dmaSend", "pumpSync", dma.kind, dma.no,
              [bar |-> 0, offset |-> dma.off, len |-> Chunk])

\* Fault: the pump returns without looking at the slot.
DmaChunkNotAwaited ==
  /\ PolledDry("pumpPoll")
  /\ dma' = [dma EXCEPT !.off = @ + Chunk]
  /\ IF dma.off + Chunk < dma.size
       THEN pc' = "dmaAlloc" /\ slotDone' = FALSE
       ELSE pc' = "lib" /\ UNCHANGED slotDone
  /\ UNCHANGED <<linkVars, mainTime, nextSync, waiting, mmioVars, libVars,
                 devBuf, endVars>>

\* The slot completed: on to the next chunk, or back into libttsim.
DmaChunkDone ==
  /\ PolledDry("pumpPoll")
  /\ slotDone
  /\ dma' = [dma EXCEPT !.off = @ + Chunk]
  /\ IF dma.off + Chunk < dma.size
       THEN pc' = "dmaAlloc" /\ slotDone' = FALSE
       ELSE pc' = "lib" /\ UNCHANGED slotDone
  /\ UNCHANGED <<linkVars, mainTime, nextSync, waiting, mmioVars, libVars,
                 devBuf, endVars>>

\* Fault: a transfer that is not complete yet is given up.
DmaCutTooSoon ==
  /\ pc = "pumpPoll"
  /\ ~Pollable(h2d, mainTime)
  /\ ~slotDone
  /\ Exit("dmaCut")

\* exit(0) inside the callback: libttsim cannot be unwound.
DmaCut ==
  /\ pc = "pumpPoll"
  /\ ~Pollable(h2d, mainTime)
  /\ ~slotDone
  /\ exiting
  /\ Exit("dmaCut")

\* Fault: the pump's loop leaves OutSync out.
DmaPumpNoSync ==
  /\ PolledDry("pumpPoll")
  /\ ~slotDone
  /\ ~exiting
  /\ LET cap == mainTime + MaxBatch * PsPerClock
         next == IF IsSync THEN Earlier(Earlier(inTs', nextSync), cap) ELSE cap
     IN  mainTime' = Bounded(Later(mainTime, next))
  /\ UNCHANGED <<linkVars, pc, nextSync, waiting, mmioVars, libVars, dmaVars,
                 endVars>>

\* DmaPumpUntil moves time to the deadline, at most max_batch_clocks away.
DmaPumpAdvance ==
  /\ PolledDry("pumpPoll")
  /\ ~slotDone
  /\ ~exiting
  /\ LET cap == mainTime + MaxBatch * PsPerClock
         next == IF IsSync THEN Earlier(Earlier(inTs', nextSync), cap) ELSE cap
     IN  mainTime' = Bounded(Later(mainTime, next))
  /\ pc' = "pumpSync"
  /\ UNCHANGED <<linkVars, nextSync, waiting, mmioVars, libVars, dmaVars,
                 endVars>>

----------------------------------------------------------------------------
(* MMIO: DrainDeferredMmio executes what PollPcie left in mmioQ            *)

\* Fault: posted writes are answered too.
NextOfAll(req) == "replyAlloc"

\* After the access a read or a non-posted write is answered.
NextOf(req) == IF req.type = "posted" THEN "drain" ELSE "replyAlloc"

\* Fault: the completion slot is allocated before libttsim is called.
DrainHoldsSlot ==
  /\ pc = "drain"
  /\ mmioQ # <<>>
  /\ HasRoom(d2h)
  /\ r' = Head(mmioQ)
  /\ mmioQ' = Tail(mmioQ)
  /\ d2h' = Append(d2h, Plain("held", mainTime))
  /\ call' = "mmio" /\ pc' = "lib"
  /\ UNCHANGED <<h2d, peerGone, timeVars, waiting, target, dmaVars, endVars>>

\* Fault: the pump drains mmioQ too.
DrainInPump ==
  /\ pc \in {"drain", "pumpPoll"}
  /\ mmioQ # <<>>
  /\ r' = Head(mmioQ)
  /\ mmioQ' = Tail(mmioQ)
  /\ IF Mapped(r'.bar, r'.offset, r'.len)
       THEN call' = "mmio" /\ pc' = "lib"
       ELSE UNCHANGED call /\ pc' = NextOf(r')
  /\ UNCHANGED <<linkVars, timeVars, waiting, target, dmaVars, endVars>>

DrainRequest ==
  /\ pc = "drain"
  /\ mmioQ # <<>>
  /\ r' = Head(mmioQ)
  /\ mmioQ' = Tail(mmioQ)
  /\ IF Mapped(r'.bar, r'.offset, r'.len)
       THEN call' = "mmio" /\ pc' = "lib"
       ELSE UNCHANGED call /\ pc' = NextOf(r')
  /\ UNCHANGED <<linkVars, timeVars, waiting, target, dmaVars, endVars>>

\* A read is accepted whatever its length.
Overruns(req) == req.type = "read" /\ req.len > MaxMmioLen

\* Undefined: a read longer than buf is cleared, and copied into, past the end
\* of buf.  Either the process ends there or, as in DrainRequest, nobody notices.
DrainOverrun ==
  /\ pc = "drain"
  /\ mmioQ # <<>>
  /\ Overruns(Head(mmioQ))
  /\ Exit("overrun")

MmioReturns ==
  /\ pc = "lib"
  /\ call = "mmio"
  /\ call' = "none"
  /\ pc' = NextOf(r)
  /\ UNCHANGED <<linkVars, timeVars, waiting, mmioVars, target, dmaVars,
                 endVars>>

ReplySend ==
  SendPcieOut("replySend", "drain",
              IF r.type = "read" THEN "readcomp" ELSE "writecomp", r.id, r)

DrainEnds ==
  /\ pc = "drain"
  /\ mmioQ = <<>>
  /\ pc' = "clock"
  /\ UNCHANGED <<linkVars, timeVars, waiting, mmioVars, libVars, dmaVars,
                 endVars>>

----------------------------------------------------------------------------
(* Clocking: RunClocks                                                     *)

\* Fault: the window is rounded up to whole clock steps.
BudgetRoundedUp ==
  IF IsSync
    THEN (NextSimbricksDeadline - mainTime + PsPerClock - 1) \div PsPerClock
    ELSE MaxBatch

\* Whole clock steps that fit before the deadline.
Budget ==
  IF IsSync THEN (NextSimbricksDeadline - mainTime) \div PsPerClock
            ELSE MaxBatch

\* The deadline has passed: nothing to run until the peer advances.
WaitForPeer ==
  /\ pc = "clock"
  /\ IsSync /\ NextSimbricksDeadline <= mainTime
  /\ waiting' = TRUE
  /\ pc' = "tail"
  /\ UNCHANGED <<linkVars, timeVars, mmioVars, libVars, dmaVars, endVars>>

\* Fault: a window too short for a clock step is returned from unused.
ReturnBeforeDeadline ==
  /\ pc = "clock"
  /\ IsSync /\ NextSimbricksDeadline > mainTime
  /\ Budget = 0
  /\ pc' = "tail"
  /\ UNCHANGED <<linkVars, timeVars, waiting, mmioVars, libVars, dmaVars,
                 endVars>>

\* The deadline is less than a clock step away: jump to it.
JumpToDeadline ==
  /\ pc = "clock"
  /\ IsSync /\ NextSimbricksDeadline > mainTime
  /\ Budget = 0
  /\ mainTime' = NextSimbricksDeadline
  /\ pc' = "tail"
  /\ UNCHANGED <<linkVars, inTs, nextSync, waiting, mmioVars, libVars, dmaVars,
                 endVars>>

RunClocks ==
  /\ pc = "clock"
  /\ IsSync => NextSimbricksDeadline > mainTime
  /\ Budget > 0
  /\ target' = mainTime + Earlier(Budget, MaxClocksPerCall) * PsPerClock
  /\ call' = "clock"
  /\ pc' = "lib"
  /\ waiting' = FALSE
  /\ UNCHANGED <<linkVars, timeVars, mmioVars, dmaVars, endVars>>

\* Fault: the time is set to the target, wherever a DMA has taken it.
ClockReturnsAtTarget ==
  /\ pc = "lib"
  /\ call = "clock"
  /\ call' = "none"
  /\ mainTime' = Bounded(target)
  /\ target' = 0
  /\ pc' = "tail"
  /\ UNCHANGED <<linkVars, inTs, nextSync, waiting, mmioVars, dmaVars, endVars>>

\* A DMA inside the call may have taken the time past the target already.
ClockReturns ==
  /\ pc = "lib"
  /\ call = "clock"
  /\ call' = "none"
  /\ mainTime' = Bounded(Later(mainTime, target))
  /\ target' = 0
  /\ pc' = "tail"
  /\ UNCHANGED <<linkVars, inTs, nextSync, waiting, mmioVars, dmaVars, endVars>>

\* The end of an iteration of RunLoop, and of the loop.
LoopTail ==
  /\ pc = "tail"
  /\ \/ /\ ~exiting
        /\ pc' = "sync"
        /\ UNCHANGED endVars
     \/ /\ exiting \/ peerGone
        /\ exiting' = TRUE
        /\ pc' = "stopped"
        /\ outcome' = "clean"
  /\ UNCHANGED <<linkVars, timeVars, waiting, mmioVars, libVars, dmaVars>>

----------------------------------------------------------------------------
DeviceNext ==
  \/ OutSync("sync", "poll")
  \/ OutSync("pumpSync", "pumpPoll")
  \/ PollPcie
  \/ PollPcieAllEnds
  \/ AllocPcieOut("dmaAlloc", "dmaSend")
  \/ AllocPcieOut("replyAlloc", "replySend")
  \/ \E kind \in {"read", "write"}, size \in DmaSizes : LibDma(kind, size)
  \/ DmaSend
  \/ DmaChunkDone
  \/ DmaCut
  \/ DmaPumpAdvance
  \/ DrainRequest
  \/ DrainOverrun
  \/ MmioReturns
  \/ ReplySend
  \/ DrainEnds
  \/ WaitForPeer
  \/ JumpToDeadline
  \/ RunClocks
  \/ ClockReturns
  \/ LoopTail
=============================================================================
