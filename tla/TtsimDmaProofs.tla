--------------------------- MODULE TtsimDmaProofs ---------------------------
(***************************************************************************)
(* Proofs about the DMA callbacks of TtsimSystem and about its end: each   *)
(* completion finds the slot it was made for, a callback returns when all  *)
(* of its transfer has happened, the callbacks implement DmaPort, and the  *)
(* process ends only after TERMINATE.                                      *)
(***************************************************************************)
EXTENDS TtsimSystemProofs

Live == PumpPcs \cup {"stopped"}
AskTypes == {"read", "write"}

\* The request for a chunk is about the chunk that is in flight now.
AskFits(m) ==
  m.type \in AskTypes =>
    /\ pc \in Live
    /\ ~slotDone
    /\ m.type = dma.kind
    /\ m.id = dma.no /\ m.offset = dma.off /\ m.len = Chunk

NoneOf(ring, types) == \A i \in 1 .. Len(ring) : ring[i].type \notin types
OneOf(ring, types) ==
  \A i, j \in 1 .. Len(ring) :
    ring[i].type \in types /\ ring[j].type \in types => i = j

NoAsk == NoneOf(d2h, AskTypes)
NoAnswer == NoneOf(h2d, CompTypes)
NoReply == NoneOf(hOut, CompTypes)

\* A chunk is asked for by one message, or being answered, or answered by
\* one, and what is on the way is about the chunk in flight.
FlightInv ==
  /\ \A i \in 1 .. Len(d2h) : AskFits(d2h[i])
  /\ \A i \in 1 .. Len(h2d) : CompletionFitsSlot(h2d[i])
  /\ \A i \in 1 .. Len(hOut) : CompletionFitsSlot(hOut[i])
  /\ OneOf(d2h, AskTypes)
  /\ OneOf(h2d, CompTypes)
  /\ NoAsk \/ NoAnswer
  /\ NoAsk \/ NoReply
  /\ NoAnswer \/ NoReply

Units(n) == {<<i, i>> : i \in 0 .. (n - 1)}
Stored(no, n) == {<<no, i>> : i \in 0 .. (n - 1)}
StoredBy(no) == {x \in hostMem : x[1] = no}

\* Where the callback is in its transfer.
PlaceInv ==
  /\ pc \in {"dmaAlloc", "dmaSend"} => ~slotDone
  /\ dma.no > 0 /\ pc \notin DmaPcs \cup {"stopped"}
       => slotDone /\ dma.off = dma.size

\* A read has brought the units before the chunk in flight, and those of the
\* chunk once its slot is done.
ReadInv ==
  dma.no > 0 /\ dma.kind = "read" =>
    devBuf = Units(IF slotDone THEN dma.off + Chunk ELSE dma.off)

\* A write has stored the units before the chunk in flight, and those of the
\* chunk once the host has answered.
WriteInv ==
  dma.no > 0 /\ dma.kind = "write" =>
    /\ slotDone \/ ~NoAnswer \/ ~NoReply
         => StoredBy(dma.no) = Stored(dma.no, dma.off + Chunk)
    /\ pc \in {"dmaAlloc", "dmaSend"} \/ ~NoAsk
         => StoredBy(dma.no) = Stored(dma.no, dma.off)

\* Nothing is stored for a DMA to come.
PastInv == \A x \in hostMem : x[1] <= dma.no

DataInv == PlaceInv /\ ReadInv /\ WriteInv /\ PastInv

DmaInv == FlightInv /\ DataInv

----------------------------------------------------------------------------
(* What a step leaves in the rings                                         *)

\* What new holds of these types was in the ring before, s places later.
Keeps(ring, new, types, s) ==
  \A i \in 1 .. Len(new) :
    new[i].type \in types =>
      i + s \in 1 .. Len(ring) /\ new[i] = ring[i + s]

\* A ring that is not touched keeps what it had.
LEMMA KeepsSame ==
  ASSUME NEW Types, NEW ring \in Seq(Messages(Types)), NEW types
  PROVE  Keeps(ring, ring, types, 0)
<1>1. Len(ring) \in Nat
  BY LenProperties
<1>. QED  BY <1>1 DEF Keeps

\* So does one without its oldest message.
LEMMA KeepsTail ==
  ASSUME NEW Types, NEW ring \in Seq(Messages(Types)), ring # <<>>, NEW types
  PROVE  Keeps(ring, Tail(ring), types, 1)
<1>. DEFINE rest == Tail(ring)
<1>1. Len(rest) = Len(ring) - 1 /\ \A i \in 1 .. Len(rest) : rest[i] = ring[i + 1]
  BY HeadType
<1>2. Len(ring) \in Nat
  BY LenProperties
<1>. HIDE DEF rest
<1>3. Keeps(ring, rest, types, 1)
  BY <1>1, <1>2 DEF Keeps
<1>. QED  BY <1>3 DEF rest

\* So does one with one more message of another type.
LEMMA KeepsAppend ==
  ASSUME NEW Types, NEW ring \in Seq(Messages(Types)),
         NEW m \in Messages(Types), NEW types, m.type \notin types
  PROVE  Keeps(ring, Append(ring, m), types, 0)
<1>. DEFINE new == Append(ring, m)
<1>1. /\ Len(new) = Len(ring) + 1
      /\ \A i \in 1 .. Len(ring) : new[i] = ring[i]
      /\ new[Len(ring) + 1] = m
  BY AppendProperties
<1>2. Len(ring) \in Nat
  BY LenProperties
<1>. HIDE DEF new
<1>3. Keeps(ring, new, types, 0)
  BY <1>1, <1>2 DEF Keeps
<1>. QED  BY <1>3 DEF new

\* A ring that keeps what it had has no more of it than before.
LEMMA KeepsFew ==
  ASSUME NEW ring, NEW new, NEW types, NEW s \in Nat,
         Keeps(ring, new, types, s)
  PROVE  /\ NoneOf(ring, types) => NoneOf(new, types)
         /\ OneOf(ring, types) => OneOf(new, types)
<1>1. ASSUME NoneOf(ring, types), NEW i \in 1 .. Len(new), new[i].type \in types
      PROVE  FALSE
  BY <1>1 DEF Keeps, NoneOf
<1>2. ASSUME OneOf(ring, types), NEW i \in 1 .. Len(new), NEW j \in 1 .. Len(new),
             new[i].type \in types, new[j].type \in types
      PROVE  i = j
  <2>1. i + s = j + s
    BY <1>2 DEF Keeps, OneOf
  <2>. QED  BY <2>1
<1>. QED  BY <1>1, <1>2 DEF NoneOf, OneOf

----------------------------------------------------------------------------
(* Steps that are not about the DMA                                        *)

\* Where such a step may take the thread.
PcKept ==
  /\ pc \in Live => pc' \in Live
  /\ pc' \in {"dmaAlloc", "dmaSend"} => pc \in {"dmaAlloc", "dmaSend"}
  /\ pc' \notin DmaPcs \cup {"stopped"} => pc \notin DmaPcs \cup {"stopped"}

\* The chunk in flight is the same while the DMA is.
LEMMA ChunkKept ==
  ASSUME UNCHANGED dma
  PROVE  Chunk' = Chunk
BY DEF Chunk, Earlier

\* A step that only takes messages about the DMA away, and leaves its slot and
\* its data alone, keeps the invariant.
LEMMA DmaKept ==
  ASSUME DmaInv, PcKept, UNCHANGED <<dma, slotDone, devBuf, hostMem>>,
         NEW a \in Nat, Keeps(d2h, d2h', AskTypes, a),
         NEW b \in Nat, Keeps(h2d, h2d', CompTypes, b),
         NEW c \in Nat, Keeps(hOut, hOut', CompTypes, c)
  PROVE  DmaInv'
<1>. USE DEF DmaInv
<1>1. Chunk' = Chunk
  BY ChunkKept
<1>2. /\ NoAsk => NoAsk'
      /\ NoAnswer => NoAnswer'
      /\ NoReply => NoReply'
      /\ OneOf(d2h, AskTypes) => OneOf(d2h, AskTypes)'
      /\ OneOf(h2d, CompTypes) => OneOf(h2d, CompTypes)'
  <2>1. /\ NoneOf(d2h, AskTypes) => NoneOf(d2h', AskTypes)
        /\ OneOf(d2h, AskTypes) => OneOf(d2h', AskTypes)
    BY KeepsFew
  <2>2. /\ NoneOf(h2d, CompTypes) => NoneOf(h2d', CompTypes)
        /\ OneOf(h2d, CompTypes) => OneOf(h2d', CompTypes)
    BY KeepsFew
  <2>3. NoneOf(hOut, CompTypes) => NoneOf(hOut', CompTypes)
    BY KeepsFew
  <2>. QED  BY <2>1, <2>2, <2>3 DEF NoAsk, NoAnswer, NoReply, OneOf, NoneOf
<1>3. FlightInv'
  <2>1. (\A i \in 1 .. Len(d2h) : AskFits(d2h[i]))'
    BY <1>1 DEF FlightInv, AskFits, Keeps, PcKept
  <2>2. (\A i \in 1 .. Len(h2d) : CompletionFitsSlot(h2d[i]))'
    BY <1>1 DEF FlightInv, CompletionFitsSlot, Keeps, PcKept, Live
  <2>3. (\A i \in 1 .. Len(hOut) : CompletionFitsSlot(hOut[i]))'
    BY <1>1 DEF FlightInv, CompletionFitsSlot, Keeps, PcKept, Live
  <2>4. /\ OneOf(d2h, AskTypes)' /\ OneOf(h2d, CompTypes)'
        /\ (NoAsk \/ NoAnswer)' /\ (NoAsk \/ NoReply)' /\ (NoAnswer \/ NoReply)'
    BY <1>2 DEF FlightInv
  <2>. QED  BY <2>1, <2>2, <2>3, <2>4 DEF FlightInv
<1>4. PlaceInv'
  BY DEF DataInv, PlaceInv, PcKept
<1>5. ReadInv'
  BY <1>1 DEF DataInv, ReadInv, Units
<1>6. WriteInv'
  BY <1>1, <1>2 DEF DataInv, WriteInv, PcKept, Stored, StoredBy
<1>7. PastInv'
  BY DEF DataInv, PastInv
<1>. QED  BY <1>3, <1>4, <1>5, <1>6, <1>7 DEF DataInv

\* A step that leaves rings, slot and data alone keeps the invariant.
LEMMA DmaFramed ==
  ASSUME ProtocolInv, DmaInv, PcKept,
         UNCHANGED <<d2h, h2d, hOut, hostMem, dma, slotDone, devBuf>>
  PROVE  DmaInv'
<1>1. /\ Keeps(d2h, d2h, AskTypes, 0)
      /\ Keeps(h2d, h2d, CompTypes, 0)
      /\ Keeps(hOut, hOut, CompTypes, 0)
  BY KeepsSame DEF ProtocolInv, TypeOK
<1>. QED  BY <1>1, DmaKept

\* The steps of the adapter of that kind.
Aside ==
  \/ Stages \/ PollOversize \/ DmaCut \/ DrainOverrun \/ DmaPumpAdvance

\* They do not start a DMA and do not end one.
LEMMA AsideDma ==
  ASSUME ProtocolInv, DmaInv, UNCHANGED hostVars, Aside
  PROVE  DmaInv'
<1>1. CASE Stages
  <2>1. PcKept
    BY <1>1 DEF Stages, PollPcieAllEnds, PolledDry, DrainRequest, MmioReturns,
       DrainEnds, WaitForPeer, JumpToDeadline, RunClocks, ClockReturns,
       LoopTail, NextOf, PcKept, Live, PumpPcs, DmaPcs
  <2>2. UNCHANGED <<d2h, h2d, hOut, hostMem, dma, slotDone, devBuf>>
    BY <1>1 DEF Stages, PollPcieAllEnds, DrainRequest, MmioReturns,
       DrainEnds, WaitForPeer, JumpToDeadline, RunClocks, ClockReturns,
       LoopTail, linkVars, dmaVars, hostVars
  <2>. QED  BY <2>1, <2>2, DmaFramed
<1>2. CASE PollOversize \/ DmaCut \/ DrainOverrun
  <2>1. pc' = "stopped" /\ UNCHANGED <<linkVars, dmaVars>>
    BY <1>2 DEF PollOversize, DmaCut, DrainOverrun, Exit
  <2>2. PcKept
    BY <2>1 DEF PcKept, Live, DmaPcs
  <2>. QED  BY <2>1, <2>2, DmaFramed DEF linkVars, dmaVars, hostVars
<1>3. CASE DmaPumpAdvance
  <2>1. pc = "pumpPoll" /\ pc' = "pumpSync" /\ UNCHANGED <<linkVars, dmaVars>>
    BY <1>3 DEF DmaPumpAdvance, PolledDry
  <2>2. PcKept
    BY <2>1 DEF PcKept, Live, PumpPcs, DmaPcs
  <2>. QED  BY <2>1, <2>2, DmaFramed DEF linkVars, dmaVars, hostVars
<1>. QED  BY <1>1, <1>2, <1>3 DEF Aside

\* A message of another kind is put into the adapter's ring.
LEMMA AppendDma ==
  ASSUME ProtocolInv, DmaInv, PcKept, NEW m \in Messages(D2HTypes),
         m.type \notin AskTypes, d2h' = Append(d2h, m),
         UNCHANGED <<h2d, dmaVars, hostVars>>
  PROVE  DmaInv'
<1>1. /\ Keeps(d2h, d2h', AskTypes, 0)
      /\ Keeps(h2d, h2d, CompTypes, 0)
      /\ Keeps(hOut, hOut, CompTypes, 0)
  BY KeepsSame, KeepsAppend DEF ProtocolInv, TypeOK
<1>. QED  BY <1>1, DmaKept DEF dmaVars, hostVars

\* A SYNC is no request for a chunk.
LEMMA OutSyncDma ==
  ASSUME ProtocolInv, DmaInv, UNCHANGED hostVars,
         NEW from, NEW to, OutSync(from, to),
         <<from, to>> \in {<<"sync", "poll">>, <<"pumpSync", "pumpPoll">>}
  PROVE  DmaInv'
<1>. DEFINE m == Plain("sync", mainTime)
<1>1. m \in Messages(D2HTypes) /\ m.type = "sync"
  BY PlainType DEF ProtocolInv, TypeOK, D2HTypes, Plain
<1>2. PcKept
  BY DEF OutSync, PcKept, Live, PumpPcs, DmaPcs
<1>3. \/ d2h' = Append(d2h, m)
      \/ UNCHANGED d2h
  BY DEF OutSync
<1>4. UNCHANGED <<h2d, dmaVars>>
  BY DEF OutSync
<1>. HIDE DEF m
<1>5. CASE d2h' = Append(d2h, m)
  BY <1>1, <1>2, <1>4, <1>5, AppendDma DEF AskTypes
<1>6. CASE UNCHANGED d2h
  BY <1>2, <1>4, <1>6, DmaFramed DEF dmaVars, hostVars
<1>. QED  BY <1>3, <1>5, <1>6

\* A slot that was only allocated is no request yet.
LEMMA AllocDma ==
  ASSUME ProtocolInv, DmaInv, UNCHANGED hostVars,
         NEW from, NEW to, AllocPcieOut(from, to),
         <<from, to>> \in {<<"dmaAlloc", "dmaSend">>,
                           <<"replyAlloc", "replySend">>}
  PROVE  DmaInv'
<1>. DEFINE m == Plain("held", mainTime)
<1>1. m \in Messages(D2HTypes) /\ m.type = "held"
  BY PlainType DEF ProtocolInv, TypeOK, D2HTypes, Plain
<1>2. PcKept
  BY DEF AllocPcieOut, Exit, PcKept, Live, PumpPcs, DmaPcs
<1>3. \/ d2h' = Append(d2h, m)
      \/ UNCHANGED d2h
  BY DEF AllocPcieOut, Exit, linkVars
<1>4. UNCHANGED <<h2d, dmaVars>>
  BY DEF AllocPcieOut, Exit, linkVars
<1>. HIDE DEF m
<1>5. CASE d2h' = Append(d2h, m)
  BY <1>1, <1>2, <1>4, <1>5, AppendDma DEF AskTypes
<1>6. CASE UNCHANGED d2h
  BY <1>2, <1>4, <1>6, DmaFramed DEF dmaVars, hostVars
<1>. QED  BY <1>3, <1>5, <1>6

\* The completion of an MMIO request is none either.
LEMMA ReplyDma ==
  ASSUME ProtocolInv, DmaInv, UNCHANGED hostVars, ReplySend
  PROVE  DmaInv'
<1>. DEFINE type == IF r.type = "read" THEN "readcomp" ELSE "writecomp"
<1>1. r.id \in Nat /\ r.bar \in Nat /\ r.offset \in Nat /\ r.len \in Nat
  BY DEF ProtocolInv, TypeOK, MmioReqs
<1>2. type \in D2HTypes /\ type \notin AskTypes
  BY DEF D2HTypes, CompTypes, AskTypes
<1>3. d2h \in Seq(Messages(D2HTypes)) /\ d2h # <<>>
  BY DEF ReplySend, SendPcieOut, ProtocolInv, TypeOK, SlotInv, SendPcs
<1>4. d2h' = [d2h EXCEPT ![Len(d2h)] =
               [type |-> type, ts |-> @.ts, id |-> r.id,
                bar |-> r.bar, offset |-> r.offset, len |-> r.len]]
  BY DEF ReplySend, SendPcieOut
<1>. HIDE DEF type
<1>5. /\ Len(d2h') = Len(d2h)
      /\ \A i \in 1 .. Len(d2h) : i # Len(d2h) => d2h'[i] = d2h[i]
      /\ d2h'[Len(d2h)].type = type
  BY <1>1, <1>2, <1>3, <1>4, FillLast
<1>6. Keeps(d2h, d2h', AskTypes, 0)
  BY <1>2, <1>5 DEF Keeps
<1>7. /\ Keeps(h2d, h2d, CompTypes, 0)
      /\ Keeps(hOut, hOut, CompTypes, 0)
  BY KeepsSame DEF ProtocolInv, TypeOK
<1>8. PcKept
  BY DEF ReplySend, SendPcieOut, PcKept, Live, PumpPcs, DmaPcs
<1>9. UNCHANGED <<h2d, dmaVars>>
  BY DEF ReplySend, SendPcieOut
<1>. QED  BY <1>6, <1>7, <1>8, <1>9, DmaKept DEF dmaVars, hostVars

\* Polling a message that is no completion takes it off the ring.
LEMMA PollOtherDma ==
  ASSUME ProtocolInv, DmaInv, UNCHANGED hostVars, PollMmio \/ PollControl
  PROVE  DmaInv'
<1>1. h2d # <<>> /\ h2d' = Tail(h2d)
  BY DEF PollMmio, PollControl, Polling, Pollable, Visible, Consume
<1>2. UNCHANGED <<pc, d2h, dmaVars>>
  BY DEF PollMmio, PollControl, Consume
<1>3. /\ Keeps(d2h, d2h, AskTypes, 0)
      /\ Keeps(h2d, h2d', CompTypes, 1)
      /\ Keeps(hOut, hOut, CompTypes, 0)
  BY <1>1, KeepsSame, KeepsTail DEF ProtocolInv, TypeOK
<1>4. PcKept
  BY <1>2 DEF PcKept
<1>. QED  BY <1>2, <1>3, <1>4, DmaKept DEF dmaVars, hostVars

----------------------------------------------------------------------------
(* The steps of a DMA                                                      *)

\* Before a chunk is asked for, and when its slot is done, nothing about it
\* is on the way.
LEMMA NothingInFlight ==
  ASSUME FlightInv, pc \notin Live \/ slotDone
  PROVE  NoAsk /\ NoAnswer /\ NoReply
BY DEF FlightInv, AskFits, CompletionFitsSlot, CompTypes, Live, NoAsk, NoAnswer,
   NoReply, NoneOf

\* When nothing is on the way, nothing on the way is wrong.
LEMMA NothingWrong ==
  ASSUME NoAsk', NoAnswer', NoReply'
  PROVE  FlightInv'
<1>1. (\A i \in 1 .. Len(d2h) : AskFits(d2h[i]))'
  BY DEF NoAsk, NoneOf, AskFits
<1>2. (\A i \in 1 .. Len(h2d) : CompletionFitsSlot(h2d[i]))'
  BY DEF NoAnswer, NoneOf, CompletionFitsSlot
<1>3. (\A i \in 1 .. Len(hOut) : CompletionFitsSlot(hOut[i]))'
  BY DEF NoReply, NoneOf, CompletionFitsSlot
<1>4. OneOf(d2h, AskTypes)' /\ OneOf(h2d, CompTypes)'
  BY DEF NoAsk, NoAnswer, NoneOf, OneOf
<1>. QED  BY <1>1, <1>2, <1>3, <1>4 DEF FlightInv

\* The units of one more chunk follow those before it.
LEMMA UnitsGrow ==
  ASSUME NEW n \in Nat, NEW c \in Nat
  PROVE  Units(n) \cup {<<n + i, n + i>> : i \in 0 .. (c - 1)} = Units(n + c)
<1>1. ASSUME NEW i \in 0 .. (n + c - 1), i \notin 0 .. (n - 1)
      PROVE  i - n \in 0 .. (c - 1) /\ n + (i - n) = i
  BY <1>1
<1>2. Units(n + c) \subseteq Units(n) \cup {<<n + i, n + i>> : i \in 0 .. (c - 1)}
  <2>. SUFFICES ASSUME NEW x \in Units(n + c)
                PROVE  \/ x \in Units(n)
                       \/ \E k \in 0 .. (c - 1) : x = <<n + k, n + k>>
    OBVIOUS
  <2>1. PICK i \in 0 .. (n + c - 1) : x = <<i, i>>
    BY DEF Units
  <2>2. CASE i \in 0 .. (n - 1)
    BY <2>1, <2>2 DEF Units
  <2>3. CASE i \notin 0 .. (n - 1)
    BY <1>1, <2>1, <2>3
  <2>. QED  BY <2>2, <2>3
<1>3. Units(n) \subseteq Units(n + c)
  BY DEF Units
<1>4. {<<n + i, n + i>> : i \in 0 .. (c - 1)} \subseteq Units(n + c)
  <2>. SUFFICES ASSUME NEW i \in 0 .. (c - 1)
                PROVE  <<n + i, n + i>> \in Units(n + c)
    OBVIOUS
  <2>1. n + i \in 0 .. (n + c - 1)
    OBVIOUS
  <2>. QED  BY <2>1 DEF Units
<1>. QED  BY <1>2, <1>3, <1>4

\* Likewise in the host's memory.
LEMMA StoredGrow ==
  ASSUME NEW no \in Nat, NEW n \in Nat, NEW c \in Nat
  PROVE  Stored(no, n) \cup {<<no, n + i>> : i \in 0 .. (c - 1)}
           = Stored(no, n + c)
<1>1. ASSUME NEW i \in 0 .. (n + c - 1), i \notin 0 .. (n - 1)
      PROVE  i - n \in 0 .. (c - 1) /\ n + (i - n) = i
  BY <1>1
<1>2. Stored(no, n + c)
        \subseteq Stored(no, n) \cup {<<no, n + i>> : i \in 0 .. (c - 1)}
  <2>. SUFFICES ASSUME NEW x \in Stored(no, n + c)
                PROVE  \/ x \in Stored(no, n)
                       \/ \E k \in 0 .. (c - 1) : x = <<no, n + k>>
    OBVIOUS
  <2>1. PICK i \in 0 .. (n + c - 1) : x = <<no, i>>
    BY DEF Stored
  <2>2. CASE i \in 0 .. (n - 1)
    BY <2>1, <2>2 DEF Stored
  <2>3. CASE i \notin 0 .. (n - 1)
    BY <1>1, <2>1, <2>3
  <2>. QED  BY <2>2, <2>3
<1>3. Stored(no, n) \subseteq Stored(no, n + c)
  BY DEF Stored
<1>4. {<<no, n + i>> : i \in 0 .. (c - 1)} \subseteq Stored(no, n + c)
  <2>. SUFFICES ASSUME NEW i \in 0 .. (c - 1)
                PROVE  <<no, n + i>> \in Stored(no, n + c)
    OBVIOUS
  <2>1. n + i \in 0 .. (n + c - 1)
    OBVIOUS
  <2>. QED  BY <2>1 DEF Stored
<1>. QED  BY <1>2, <1>3, <1>4

\* A transfer of no units has none.
LEMMA NoUnits ==
  ASSUME NEW no
  PROVE  Units(0) = {} /\ Stored(no, 0) = {}
<1>1. 0 .. (0 - 1) = {}
  OBVIOUS
<1>. QED  BY <1>1 DEF Units, Stored

\* libttsim starts a DMA: nothing of it is on the way or has moved.
LEMMA LibDmaDma ==
  ASSUME ProtocolInv, DmaInv, UNCHANGED hostVars,
         NEW kind \in {"read", "write"}, NEW size \in DmaSizes, LibDma(kind, size)
  PROVE  DmaInv'
<1>1. /\ pc = "lib" /\ pc' = "dmaAlloc" /\ ~slotDone' /\ devBuf' = {}
      /\ UNCHANGED <<h2d, d2h, hOut, hostMem>>
  BY DEF LibDma, linkVars, hostVars
<1>2. dma' = [no |-> dma.no + 1, kind |-> kind, size |-> size, off |-> 0]
  BY DEF LibDma
<1>3. dma.no \in Nat /\ hostMem \subseteq Nat \X Nat
  BY DEF ProtocolInv, TypeOK, Dmas
<1>4. NoAsk' /\ NoAnswer' /\ NoReply'
  <2>1. NoAsk /\ NoAnswer /\ NoReply
    BY <1>1, NothingInFlight DEF DmaInv, Live, PumpPcs
  <2>. QED  BY <1>1, <2>1 DEF NoAsk, NoAnswer, NoReply, NoneOf
<1>5. FlightInv'
  BY <1>4, NothingWrong
<1>6. \A x \in hostMem : x[1] <= dma.no
  BY DEF DmaInv, DataInv, PastInv
<1>7. PastInv'
  <2>1. \A x \in hostMem : x[1] \in Nat
    BY <1>3
  <2>. QED  BY <1>1, <1>2, <1>3, <1>6, <2>1 DEF PastInv
<1>8. StoredBy(dma.no)' = {}
  <2>1. \A x \in hostMem : x[1] # dma.no + 1
    BY <1>3, <1>6
  <2>. QED  BY <1>1, <1>2, <2>1 DEF StoredBy
<1>9. PlaceInv'
  BY <1>1 DEF PlaceInv, DmaPcs
<1>10. ReadInv'
  BY <1>1, <1>2, NoUnits DEF ReadInv, Units
<1>11. WriteInv'
  <2>1. Stored(dma.no, dma.off)' = {}
    BY <1>2, NoUnits DEF Stored
  <2>. QED  BY <1>1, <1>4, <1>8, <2>1 DEF WriteInv
<1>. QED  BY <1>5, <1>7, <1>9, <1>10, <1>11 DEF DmaInv, DataInv

\* The request for a chunk is the only message about it.
LEMMA DmaSendDma ==
  ASSUME ProtocolInv, DmaInv, UNCHANGED hostVars, DmaSend
  PROVE  DmaInv'
<1>. DEFINE n == Len(d2h)
            m == [type |-> dma.kind, ts |-> d2h[n].ts, id |-> dma.no,
                  bar |-> 0, offset |-> dma.off, len |-> Chunk]
<1>1. /\ pc = "dmaSend" /\ pc' = "pumpSync"
      /\ d2h' = [d2h EXCEPT ![n] = m]
      /\ UNCHANGED <<h2d, hOut, hostMem, dma, slotDone, devBuf>>
  BY DEF DmaSend, SendPcieOut, dmaVars, hostVars
<1>2. d2h \in Seq(Messages(D2HTypes)) /\ d2h # <<>>
  BY <1>1 DEF ProtocolInv, TypeOK, SlotInv, SendPcs
<1>3. /\ dma.kind \in {"read", "write"} /\ dma.no \in Nat /\ dma.off \in Nat
      /\ Chunk \in Nat
  BY ChunkType DEF ProtocolInv, TypeOK, Dmas
<1>4. m \in Messages(D2HTypes)
  <2>1. n \in 1 .. n /\ d2h[n] \in Messages(D2HTypes)
    BY <1>2, EmptySeq, LenProperties, ElementOfSeq
  <2>. QED  BY <1>3, <2>1 DEF Messages, D2HTypes
<1>5. n \in 1 .. n /\ Chunk' = Chunk
  BY <1>1, <1>2, EmptySeq, LenProperties, ChunkKept
<1>6. NoAsk /\ NoAnswer /\ NoReply /\ ~slotDone
  <2>1. ~slotDone
    BY <1>1 DEF DmaInv, DataInv, PlaceInv
  <2>2. pc \notin Live
    BY <1>1 DEF Live, PumpPcs
  <2>. QED  BY <2>1, <2>2, NothingInFlight DEF DmaInv
<1>7. /\ m.type = dma.kind /\ m.id = dma.no /\ m.offset = dma.off
      /\ m.len = Chunk
  OBVIOUS
<1>. HIDE DEF m
<1>8. Len(d2h') = n /\ \A i \in 1 .. n : d2h'[i] = IF i = n THEN m ELSE d2h[i]
  BY <1>1, <1>2, <1>4, <1>5, ExceptSeq
<1>9. NoAnswer' /\ NoReply'
  BY <1>1, <1>6 DEF NoAnswer, NoReply, NoneOf
<1>10. \A i \in 1 .. n : d2h'[i].type \in AskTypes => i = n
  BY <1>6, <1>8 DEF NoAsk, NoneOf
<1>11. (\A i \in 1 .. Len(d2h) : AskFits(d2h[i]))'
  <2>1. pc' \in Live
    BY <1>1 DEF Live, PumpPcs
  <2>. QED  BY <1>1, <1>5, <1>6, <1>7, <1>8, <1>10, <2>1 DEF AskFits
<1>12. FlightInv'
  <2>1. (\A i \in 1 .. Len(h2d) : CompletionFitsSlot(h2d[i]))'
    BY <1>9 DEF NoAnswer, NoneOf, CompletionFitsSlot
  <2>2. (\A i \in 1 .. Len(hOut) : CompletionFitsSlot(hOut[i]))'
    BY <1>9 DEF NoReply, NoneOf, CompletionFitsSlot
  <2>3. OneOf(d2h, AskTypes)'
    BY <1>8, <1>10 DEF OneOf
  <2>4. OneOf(h2d, CompTypes)'
    BY <1>9 DEF NoAnswer, NoneOf, OneOf
  <2>. QED  BY <1>9, <1>11, <2>1, <2>2, <2>3, <2>4 DEF FlightInv
<1>13. PlaceInv'
  BY <1>1 DEF PlaceInv, DmaPcs, PumpPcs
<1>14. ReadInv'
  BY <1>1, <1>5 DEF DmaInv, DataInv, ReadInv, Units
<1>15. WriteInv'
  BY <1>1, <1>5, <1>6, <1>9 DEF DmaInv, DataInv, WriteInv, Stored, StoredBy
<1>16. PastInv'
  BY <1>1 DEF DmaInv, DataInv, PastInv
<1>. QED  BY <1>12, <1>13, <1>14, <1>15, <1>16 DEF DmaInv, DataInv

\* The answer is about the chunk in flight, and was the only message about it.
LEMMA PollCompletionDma ==
  ASSUME ProtocolInv, DmaInv, UNCHANGED hostVars, PollCompletion
  PROVE  DmaInv'
<1>. DEFINE m == Head(h2d)
<1>1. /\ h2d # <<>> /\ m.type \in CompTypes /\ h2d' = Tail(h2d)
      /\ slotDone'
      /\ UNCHANGED <<pc, d2h, hOut, hostMem, dma>>
  BY DEF PollCompletion, Polling, Pollable, Visible, Consume, hostVars
<1>2. /\ m = h2d[1] /\ 1 \in 1 .. Len(h2d)
      /\ h2d \in Seq(Messages(H2DTypes))
  BY <1>1, HeadType, EmptySeq, LenProperties DEF ProtocolInv, TypeOK
<1>3. /\ pc \in Live /\ ~slotDone
      /\ m.type = IF dma.kind = "read" THEN "readcomp" ELSE "writecomp"
      /\ m.offset = dma.off
  BY <1>1, <1>2 DEF DmaInv, FlightInv, CompletionFitsSlot, Live
<1>4. devBuf' = IF m.type = "readcomp"
                THEN devBuf \cup {<<dma.off + i, m.offset + i>> :
                                    i \in 0 .. (Chunk - 1)}
                ELSE devBuf
  BY DEF PollCompletion
<1>5. /\ dma.kind \in {"read", "write"} /\ dma.no \in Nat /\ dma.off \in Nat
      /\ Chunk \in Nat /\ Chunk' = Chunk
  BY <1>1, ChunkType, ChunkKept DEF ProtocolInv, TypeOK, Dmas
<1>6. ~NoAnswer
  BY <1>1, <1>2 DEF NoAnswer, NoneOf
<1>. HIDE DEF m
<1>7. NoAsk' /\ NoReply'
  BY <1>1, <1>6 DEF DmaInv, FlightInv, NoAsk, NoReply, NoneOf
<1>8. NoAnswer'
  <2>1. Keeps(h2d, h2d', CompTypes, 1)
    BY <1>1, <1>2, KeepsTail
  <2>2. ASSUME NEW i \in 1 .. Len(h2d'), h2d'[i].type \in CompTypes
        PROVE  FALSE
    <3>1. i + 1 \in 1 .. Len(h2d) /\ h2d[i + 1].type \in CompTypes
      BY <2>1, <2>2 DEF Keeps
    <3>2. i + 1 = 1
      BY <1>1, <1>2, <3>1 DEF DmaInv, FlightInv, OneOf
    <3>. QED  BY <3>2
  <2>. QED  BY <2>2 DEF NoAnswer, NoneOf
<1>9. FlightInv'
  BY <1>7, <1>8, NothingWrong
<1>10. PlaceInv'
  BY <1>1, <1>3 DEF PlaceInv, DmaPcs, Live, PumpPcs
<1>11. ReadInv'
  <2>. SUFFICES ASSUME dma.no > 0, dma.kind = "read"
                PROVE  devBuf' = Units(dma.off + Chunk)
    BY <1>1, <1>5 DEF ReadInv, Units
  <2>1. devBuf = Units(dma.off)
    BY <1>3 DEF DmaInv, DataInv, ReadInv
  <2>2. devBuf' = Units(dma.off) \cup {<<dma.off + i, dma.off + i>> :
                                         i \in 0 .. (Chunk - 1)}
    BY <1>3, <1>4, <2>1
  <2>. QED  BY <1>5, <2>2, UnitsGrow
<1>12. WriteInv'
  <2>. SUFFICES ASSUME dma.no > 0, dma.kind = "write"
                PROVE  StoredBy(dma.no) = Stored(dma.no, dma.off + Chunk)
    BY <1>1, <1>3, <1>5, <1>7 DEF WriteInv, StoredBy, Stored, Live, PumpPcs
  <2>. QED  BY <1>6 DEF DmaInv, DataInv, WriteInv
<1>13. PastInv'
  BY <1>1 DEF DmaInv, DataInv, PastInv
<1>. QED  BY <1>9, <1>10, <1>11, <1>12, <1>13 DEF DmaInv, DataInv

\* The chunk that is done was the last, or the next one begins behind it.
LEMMA DmaChunkDoneDma ==
  ASSUME ProtocolInv, DmaInv, UNCHANGED hostVars, DmaChunkDone
  PROVE  DmaInv'
<1>1. /\ slotDone /\ pc = "pumpPoll"
      /\ dma' = [dma EXCEPT !.off = @ + Chunk]
      /\ UNCHANGED <<h2d, d2h, hOut, hostMem, devBuf>>
  BY DEF DmaChunkDone, PolledDry, linkVars, hostVars
<1>2. /\ dma \in Dmas /\ dma.off \in Nat /\ dma.size \in Nat /\ dma.no \in Nat
      /\ Chunk \in Nat /\ dma.off + Chunk <= dma.size
  BY ChunkType DEF ProtocolInv, TypeOK, Dmas
<1>3. /\ dma'.no = dma.no /\ dma'.kind = dma.kind /\ dma'.size = dma.size
      /\ dma'.off = dma.off + Chunk
  BY <1>1, <1>2 DEF Dmas
<1>4. NoAsk' /\ NoAnswer' /\ NoReply'
  <2>1. NoAsk /\ NoAnswer /\ NoReply
    BY <1>1, NothingInFlight DEF DmaInv
  <2>. QED  BY <1>1, <2>1 DEF NoAsk, NoAnswer, NoReply, NoneOf
<1>5. FlightInv'
  BY <1>4, NothingWrong
<1>6. PastInv'
  BY <1>1, <1>3 DEF DmaInv, DataInv, PastInv
<1>7. /\ dma.no > 0 /\ dma.kind = "read" => devBuf = Units(dma.off + Chunk)
      /\ dma.no > 0 /\ dma.kind = "write"
           => StoredBy(dma.no) = Stored(dma.no, dma.off + Chunk)
  BY <1>1 DEF DmaInv, DataInv, ReadInv, WriteInv
<1>8. CASE dma.off + Chunk < dma.size
  <2>1. pc' = "dmaAlloc" /\ ~slotDone'
    BY <1>8 DEF DmaChunkDone
  <2>2. PlaceInv'
    BY <2>1 DEF PlaceInv, DmaPcs
  <2>3. ReadInv'
    BY <1>1, <1>3, <1>7, <2>1 DEF ReadInv, Units
  <2>4. WriteInv'
    BY <1>1, <1>3, <1>4, <1>7, <2>1 DEF WriteInv, StoredBy, Stored
  <2>. QED  BY <1>5, <1>6, <2>2, <2>3, <2>4 DEF DmaInv, DataInv
<1>9. CASE ~(dma.off + Chunk < dma.size)
  <2>1. pc' = "lib" /\ slotDone'
    BY <1>1, <1>9 DEF DmaChunkDone
  <2>2. dma'.off = dma'.size
    BY <1>2, <1>3, <1>9
  <2>3. Chunk' = 0
    <3>1. MaxDmaChunk \in Nat
      BY TtsimAssumption DEF TtsimAssumption
    <3>2. dma'.size - dma'.off = 0
      BY <1>2, <1>3, <2>2
    <3>. QED  BY <3>1, <3>2 DEF Chunk, Earlier
  <2>4. dma'.off + Chunk' = dma.off + Chunk
    BY <1>2, <1>3, <2>3
  <2>5. PlaceInv'
    BY <2>1, <2>2 DEF PlaceInv
  <2>6. ReadInv'
    BY <1>1, <1>3, <1>7, <2>1, <2>4 DEF ReadInv, Units
  <2>7. WriteInv'
    BY <1>1, <1>3, <1>4, <1>7, <2>1, <2>4 DEF WriteInv, StoredBy, Stored
  <2>. QED  BY <1>5, <1>6, <2>5, <2>6, <2>7 DEF DmaInv, DataInv
<1>. QED  BY <1>8, <1>9

----------------------------------------------------------------------------
(* The host's steps                                                        *)

\* The host has a message of its own to place.
LEMMA HostOwnDma ==
  ASSUME ProtocolInv, DmaInv, UNCHANGED deviceVars, NEW m,
         m.type \notin CompTypes, hOut' = <<m>>,
         UNCHANGED <<h2d, d2h, hostMem>>
  PROVE  DmaInv'
<1>1. /\ Keeps(d2h, d2h, AskTypes, 0)
      /\ Keeps(h2d, h2d, CompTypes, 0)
  BY KeepsSame DEF ProtocolInv, TypeOK
<1>2. Keeps(hOut, hOut', CompTypes, 0)
  <2>1. Len(<<m>>) = 1 /\ <<m>>[1] = m
    OBVIOUS
  <2>. QED  BY <2>1 DEF Keeps
<1>3. PcKept /\ UNCHANGED dmaVars
  BY DEF PcKept, deviceVars
<1>. QED  BY <1>1, <1>2, <1>3, DmaKept DEF dmaVars

\* The message goes from the host's hands into its ring.
LEMMA HostSendDma ==
  ASSUME ProtocolInv, DmaInv, UNCHANGED deviceVars, HostSend
  PROVE  DmaInv'
<1>. DEFINE m == Head(hOut)
<1>1. /\ hOut # <<>> /\ h2d' = Append(h2d, m) /\ hOut' = <<>>
      /\ UNCHANGED <<d2h, hostMem, pc, dma, slotDone, devBuf>>
  BY DEF HostSend, deviceVars, dmaVars
<1>2. /\ m = hOut[1] /\ 1 \in 1 .. Len(hOut) /\ m \in Messages(H2DTypes)
      /\ h2d \in Seq(Messages(H2DTypes))
  BY <1>1, HeadType, EmptySeq, LenProperties DEF ProtocolInv, TypeOK
<1>3. Keeps(d2h, d2h, AskTypes, 0)
  BY KeepsSame DEF ProtocolInv, TypeOK
<1>4. NoReply'
  <2>1. Len(<<>>) = 0
    OBVIOUS
  <2>. QED  BY <1>1, <2>1 DEF NoReply, NoneOf
<1>. HIDE DEF m
<1>5. CASE m.type \notin CompTypes
  <2>1. Keeps(h2d, h2d', CompTypes, 0)
    BY <1>1, <1>2, <1>5, KeepsAppend
  <2>2. Keeps(hOut, hOut', CompTypes, 0)
    BY <1>4 DEF Keeps, NoReply, NoneOf
  <2>3. PcKept
    BY <1>1 DEF PcKept
  <2>. QED  BY <1>1, <1>3, <2>1, <2>2, <2>3, DmaKept
<1>6. CASE m.type \in CompTypes
  <2>1. ~NoReply
    BY <1>2, <1>6 DEF NoReply, NoneOf
  <2>2. NoAsk /\ NoAnswer
    BY <2>1 DEF DmaInv, FlightInv
  <2>3. NoAsk' /\ Chunk' = Chunk
    BY <1>1, <2>2, ChunkKept DEF NoAsk, NoneOf
  <2>4. CompletionFitsSlot(m)
    BY <1>2 DEF DmaInv, FlightInv
  <2>5. /\ Len(h2d') = Len(h2d) + 1 /\ h2d'[Len(h2d) + 1] = m
        /\ \A i \in 1 .. Len(h2d) : h2d'[i] = h2d[i]
        /\ Len(h2d) \in Nat
    BY <1>1, <1>2, AppendProperties, LenProperties
  <2>6. \A i \in 1 .. Len(h2d') :
          h2d'[i].type \in CompTypes => i = Len(h2d) + 1 /\ h2d'[i] = m
    BY <2>2, <2>5 DEF NoAnswer, NoneOf
  <2>7. FlightInv'
    <3>1. (\A i \in 1 .. Len(h2d) : CompletionFitsSlot(h2d[i]))'
      BY <1>1, <2>3, <2>4, <2>6 DEF CompletionFitsSlot
    <3>2. (\A i \in 1 .. Len(d2h) : AskFits(d2h[i]))'
      BY <2>3 DEF NoAsk, NoneOf, AskFits
    <3>3. (\A i \in 1 .. Len(hOut) : CompletionFitsSlot(hOut[i]))'
      BY <1>4 DEF NoReply, NoneOf, CompletionFitsSlot
    <3>4. OneOf(d2h, AskTypes)' /\ OneOf(h2d, CompTypes)'
      BY <2>3, <2>6 DEF NoAsk, NoneOf, OneOf
    <3>. QED  BY <1>4, <2>3, <3>1, <3>2, <3>3, <3>4 DEF FlightInv
  <2>8. PlaceInv'
    BY <1>1 DEF DmaInv, DataInv, PlaceInv
  <2>9. ReadInv'
    BY <1>1, <2>3 DEF DmaInv, DataInv, ReadInv, Units
  <2>10. WriteInv'
    BY <1>1, <2>1, <2>3 DEF DmaInv, DataInv, WriteInv, Stored, StoredBy
  <2>11. PastInv'
    BY <1>1 DEF DmaInv, DataInv, PastInv
  <2>. QED  BY <2>7, <2>8, <2>9, <2>10, <2>11 DEF DmaInv, DataInv
<1>. QED  BY <1>5, <1>6

\* The host takes a message that is no request for a chunk.
LEMMA HostPollOther ==
  ASSUME ProtocolInv, DmaInv, UNCHANGED deviceVars, HostPoll,
         Head(d2h).type \notin AskTypes
  PROVE  DmaInv'
<1>1. /\ d2h # <<>> /\ d2h' = Tail(d2h) /\ hOut' = <<>>
      /\ UNCHANGED <<h2d, hostMem>>
  BY DEF HostPoll, Pollable, Visible, AskTypes
<1>2. /\ Keeps(d2h, d2h', AskTypes, 1)
      /\ Keeps(h2d, h2d, CompTypes, 0)
  BY <1>1, KeepsTail, KeepsSame DEF ProtocolInv, TypeOK
<1>3. Keeps(hOut, hOut', CompTypes, 0)
  <2>1. Len(<<>>) = 0
    OBVIOUS
  <2>. QED  BY <1>1, <2>1 DEF Keeps
<1>4. PcKept /\ UNCHANGED dmaVars
  BY DEF PcKept, deviceVars
<1>. QED  BY <1>1, <1>2, <1>3, <1>4, DmaKept DEF dmaVars

\* The host answers the request for a chunk, which was the only message about
\* it, and has stored the chunk if it is one of a write.
LEMMA HostPollAsk ==
  ASSUME ProtocolInv, DmaInv, UNCHANGED deviceVars, HostPoll,
         Head(d2h).type \in AskTypes
  PROVE  DmaInv'
<1>. DEFINE m == Head(d2h)
            c == Tagged(IF m.type = "read" THEN "readcomp" ELSE "writecomp",
                        hNow, m.id, m)
<1>1. /\ d2h # <<>> /\ d2h' = Tail(d2h)
      /\ UNCHANGED <<h2d, pc, dma, slotDone, devBuf>>
  BY DEF HostPoll, Pollable, Visible, deviceVars, dmaVars
<1>2. hOut' = <<c>>
  BY DEF HostPoll, AskTypes
<1>3. hostMem' = IF m.type = "write"
                 THEN hostMem \cup {<<m.id, m.offset + i>> : i \in 0 .. (m.len - 1)}
                 ELSE hostMem
  BY DEF HostPoll
<1>4. /\ m = d2h[1] /\ 1 \in 1 .. Len(d2h)
      /\ d2h \in Seq(Messages(D2HTypes))
  BY <1>1, HeadType, EmptySeq, LenProperties DEF ProtocolInv, TypeOK
<1>5. AskFits(m) /\ ~NoAsk
  BY <1>4 DEF DmaInv, FlightInv, NoAsk, NoneOf
<1>6. /\ pc \in Live /\ ~slotDone /\ m.type = dma.kind /\ m.id = dma.no
      /\ m.offset = dma.off /\ m.len = Chunk
  BY <1>5 DEF AskFits
<1>7. /\ dma.kind \in {"read", "write"} /\ dma.no \in Nat /\ dma.off \in Nat
      /\ Chunk \in Nat /\ Chunk' = Chunk
  BY <1>1, ChunkType, ChunkKept DEF ProtocolInv, TypeOK, Dmas
<1>8. /\ c.type = IF dma.kind = "read" THEN "readcomp" ELSE "writecomp"
      /\ c.id = dma.no /\ c.offset = dma.off /\ c.len = Chunk
  BY <1>6 DEF Tagged
<1>. HIDE DEF m, c
<1>9. NoAnswer /\ NoReply /\ NoAnswer'
  BY <1>1, <1>5 DEF DmaInv, FlightInv, NoAnswer, NoneOf
<1>10. NoAsk'
  <2>1. Keeps(d2h, d2h', AskTypes, 1)
    BY <1>1, <1>4, KeepsTail
  <2>2. m.type \in AskTypes
    BY DEF m
  <2>3. ASSUME NEW i \in 1 .. Len(d2h'), d2h'[i].type \in AskTypes
        PROVE  FALSE
    <3>1. i + 1 \in 1 .. Len(d2h) /\ d2h[i + 1].type \in AskTypes
      BY <2>1, <2>3 DEF Keeps
    <3>2. i + 1 = 1
      BY <1>4, <2>2, <3>1 DEF DmaInv, FlightInv, OneOf
    <3>. QED  BY <3>2
  <2>. QED  BY <2>3 DEF NoAsk, NoneOf
<1>11. Len(hOut') = 1 /\ hOut'[1] = c
  BY <1>2
<1>12. FlightInv'
  <2>1. (\A i \in 1 .. Len(hOut) : CompletionFitsSlot(hOut[i]))'
    BY <1>1, <1>6, <1>7, <1>8, <1>11 DEF CompletionFitsSlot, Live
  <2>2. (\A i \in 1 .. Len(d2h) : AskFits(d2h[i]))'
    BY <1>10 DEF NoAsk, NoneOf, AskFits
  <2>3. (\A i \in 1 .. Len(h2d) : CompletionFitsSlot(h2d[i]))'
    BY <1>9 DEF NoAnswer, NoneOf, CompletionFitsSlot
  <2>4. OneOf(d2h, AskTypes)' /\ OneOf(h2d, CompTypes)'
    BY <1>9, <1>10 DEF NoAsk, NoAnswer, NoneOf, OneOf
  <2>. QED  BY <1>9, <1>10, <2>1, <2>2, <2>3, <2>4 DEF FlightInv
<1>13. PlaceInv'
  BY <1>1 DEF DmaInv, DataInv, PlaceInv
<1>14. ReadInv'
  BY <1>1, <1>7 DEF DmaInv, DataInv, ReadInv, Units
<1>15. WriteInv'
  <2>. SUFFICES ASSUME dma.no > 0, dma.kind = "write"
                PROVE  StoredBy(dma.no)' = Stored(dma.no, dma.off + Chunk)
    BY <1>1, <1>6, <1>7, <1>10 DEF WriteInv, Stored, Live, PumpPcs
  <2>. DEFINE more == {<<dma.no, dma.off + i>> : i \in 0 .. (Chunk - 1)}
  <2>1. StoredBy(dma.no) = Stored(dma.no, dma.off)
    BY <1>5 DEF DmaInv, DataInv, WriteInv
  <2>2. hostMem' = hostMem \cup more
    BY <1>3, <1>6
  <2>3. \A x \in more : x[1] = dma.no
    OBVIOUS
  <2>. HIDE DEF more
  <2>4. StoredBy(dma.no)' = StoredBy(dma.no) \cup more
    BY <1>1, <2>2, <2>3 DEF StoredBy
  <2>5. Stored(dma.no, dma.off) \cup more = Stored(dma.no, dma.off + Chunk)
    BY <1>7, StoredGrow DEF more
  <2>. QED  BY <2>1, <2>4, <2>5
<1>16. PastInv'
  <2>. DEFINE more == {<<m.id, m.offset + i>> : i \in 0 .. (m.len - 1)}
  <2>1. \A x \in more : x[1] = dma.no
    BY <1>6
  <2>2. hostMem' \in {hostMem, hostMem \cup more}
    BY <1>3
  <2>. HIDE DEF more
  <2>. QED  BY <1>1, <1>7, <2>1, <2>2 DEF DmaInv, DataInv, PastInv
<1>. QED  BY <1>12, <1>13, <1>14, <1>15, <1>16 DEF DmaInv, DataInv

\* No step of the host disturbs the DMA.
LEMMA HostDma ==
  ASSUME ProtocolInv, DmaInv, UNCHANGED deviceVars, HostNext
  PROVE  DmaInv'
<1>1. CASE HostSync
  <2>1. Plain("sync", hNow).type \notin CompTypes
    BY DEF Plain, CompTypes
  <2>. QED  BY <1>1, <2>1, HostOwnDma DEF HostSync, linkVars
<1>2. CASE HostTerminate
  <2>1. Plain("terminate", hNow).type \notin CompTypes
    BY DEF Plain, CompTypes
  <2>. QED  BY <1>2, <2>1, HostOwnDma DEF HostTerminate, linkVars
<1>3. ASSUME NEW t \in Targets, HostIssue(t) PROVE DmaInv'
  <2>. DEFINE m == Tagged(t.type, hNow, Len(issued'), t)
  <2>1. t.type \in MmioTypes
    BY HostAssumption DEF HostAssumption
  <2>2. m.type \notin CompTypes
    BY <2>1 DEF Tagged, MmioTypes, CompTypes
  <2>3. hOut' = <<m>> /\ UNCHANGED <<h2d, d2h, hostMem>>
    BY <1>3 DEF HostIssue, linkVars
  <2>. HIDE DEF m
  <2>. QED  BY <2>2, <2>3, HostOwnDma
<1>4. CASE HostSend
  BY <1>4, HostSendDma
<1>5. CASE HostPoll
  BY <1>5, HostPollOther, HostPollAsk
<1>6. CASE HostAdvance
  <2>1. UNCHANGED <<d2h, h2d, hOut, hostMem, dma, slotDone, devBuf, pc>>
    BY <1>6 DEF HostAdvance, linkVars, deviceVars, dmaVars
  <2>2. PcKept
    BY <2>1 DEF PcKept
  <2>. QED  BY <2>1, <2>2, DmaFramed
<1>. QED  BY <1>1, <1>2, <1>3, <1>4, <1>5, <1>6 DEF HostNext

----------------------------------------------------------------------------
(* The theorems about DMA                                                  *)

\* There is no DMA when the link has come up.
LEMMA DmaInit == Init => DmaInv
<1>. SUFFICES ASSUME Init PROVE DmaInv
  OBVIOUS
<1>1. /\ h2d = <<Plain("devctrl", 0)>> /\ d2h = <<>> /\ hOut = <<>>
      /\ dma.no = 0 /\ hostMem = {} /\ pc = "sync"
  BY DEF Init, LinkInit, HostInit, DeviceInit
<1>2. Len(h2d) = 1 /\ h2d[1].type = "devctrl" /\ Len(d2h) = 0 /\ Len(hOut) = 0
  BY <1>1 DEF Plain
<1>3. NoAsk /\ NoAnswer /\ NoReply
  BY <1>2 DEF NoAsk, NoAnswer, NoReply, NoneOf, CompTypes
<1>4. FlightInv
  <2>1. /\ \A i \in 1 .. Len(d2h) : AskFits(d2h[i])
        /\ \A i \in 1 .. Len(hOut) : CompletionFitsSlot(hOut[i])
    BY <1>2
  <2>2. \A i \in 1 .. Len(h2d) : CompletionFitsSlot(h2d[i])
    BY <1>3 DEF NoAnswer, NoneOf, CompletionFitsSlot
  <2>3. OneOf(d2h, AskTypes) /\ OneOf(h2d, CompTypes)
    BY <1>3 DEF NoAsk, NoAnswer, NoneOf, OneOf
  <2>. QED  BY <1>3, <2>1, <2>2, <2>3 DEF FlightInv
<1>5. DataInv
  BY <1>1 DEF DataInv, PlaceInv, ReadInv, WriteInv, PastInv
<1>. QED  BY <1>4, <1>5 DEF DmaInv

\* The invariant is inductive.
LEMMA DmaNext == ProtocolInv /\ DmaInv /\ [Next]_vars => DmaInv'
<1>. SUFFICES ASSUME ProtocolInv, DmaInv, [Next]_vars PROVE DmaInv'
  OBVIOUS
<1>1. CASE Device
  <2>. UNCHANGED hostVars
    BY <1>1 DEF Device
  <2>1. CASE OutSync("sync", "poll") \/ OutSync("pumpSync", "pumpPoll")
    BY <2>1, OutSyncDma
  <2>2. CASE \/ AllocPcieOut("dmaAlloc", "dmaSend")
             \/ AllocPcieOut("replyAlloc", "replySend")
    BY <2>2, AllocDma
  <2>3. CASE PollMmio \/ PollControl
    BY <2>3, PollOtherDma
  <2>4. CASE PollCompletion
    BY <2>4, PollCompletionDma
  <2>5. CASE \E kind \in {"read", "write"}, size \in DmaSizes : LibDma(kind, size)
    BY <2>5, LibDmaDma
  <2>6. CASE DmaSend
    BY <2>6, DmaSendDma
  <2>7. CASE DmaChunkDone
    BY <2>7, DmaChunkDoneDma
  <2>8. CASE ReplySend
    BY <2>8, ReplyDma
  <2>9. CASE Aside
    BY <2>9, AsideDma
  <2>. QED
    BY <1>1, <2>1, <2>2, <2>3, <2>4, <2>5, <2>6, <2>7, <2>8, <2>9
       DEF Device, DeviceNext, PollPcie, Aside, Stages
<1>2. CASE Host
  BY <1>2, HostDma DEF Host
<1>3. CASE UNCHANGED vars
  <2>1. UNCHANGED <<d2h, h2d, hOut, hostMem, dma, slotDone, devBuf, pc>>
    BY <1>3 DEF vars, linkVars, deviceVars, dmaVars, hostVars
  <2>2. PcKept
    BY <2>1 DEF PcKept
  <2>. QED  BY <2>1, <2>2, DmaFramed
<1>. QED  BY <1>1, <1>2, <1>3 DEF Next, Finished

\* The invariant holds in every reachable state.
LEMMA DmaAlways == Spec => []DmaInv
BY ProtocolAlways, DmaInit, DmaNext, PTL DEF Spec

\* What is on its way to the adapter and in the host's hands, as one sequence.
LEMMA ComingFits ==
  ASSUME ProtocolInv, DmaInv
  PROVE  CompletionsFitLiveSlot
<1>. DEFINE coming == h2d \o hOut
<1>1. /\ h2d \in Seq(Messages(H2DTypes)) /\ hOut \in Seq(Messages(H2DTypes))
      /\ Len(h2d) \in Nat /\ Len(hOut) \in Nat /\ Len(hOut) <= 1
  BY LenProperties DEF ProtocolInv, TypeOK
<1>2. /\ Len(coming) = Len(h2d) + Len(hOut)
      /\ \A i \in 1 .. Len(coming) :
           coming[i] = IF i <= Len(h2d) THEN h2d[i] ELSE hOut[i - Len(h2d)]
  BY <1>1, ConcatProperties
<1>. HIDE DEF coming
<1>3. ASSUME NEW i \in 1 .. Len(coming)
      PROVE  \/ i \in 1 .. Len(h2d) /\ coming[i] = h2d[i]
             \/ i = Len(h2d) + 1 /\ 1 \in 1 .. Len(hOut) /\ coming[i] = hOut[1]
  BY <1>1, <1>2
<1>4. ASSUME NEW i \in 1 .. Len(coming) PROVE CompletionFitsSlot(coming[i])
  BY <1>3 DEF DmaInv, FlightInv
<1>5. ASSUME NEW i \in 1 .. Len(coming), NEW j \in 1 .. Len(coming),
             coming[i].type \in CompTypes, coming[j].type \in CompTypes
      PROVE  i = j
  <2>1. NoAnswer \/ NoReply
    BY DEF DmaInv, FlightInv
  <2>2. CASE NoAnswer
    BY <1>3, <1>5, <2>2 DEF NoAnswer, NoneOf
  <2>3. CASE NoReply
    BY <1>3, <1>5, <2>3 DEF NoReply, NoneOf, DmaInv, FlightInv, OneOf
  <2>. QED  BY <2>1, <2>2, <2>3
<1>. QED  BY <1>4, <1>5 DEF CompletionsFitLiveSlot, coming

\* Every completion on its way finds the live slot of the chunk it was asked
\* for, for any rings, transfers and chunk sizes.
THEOREM SlotsAwaitTheirCompletion == Spec => []CompletionsFitLiveSlot
<1>1. ProtocolInv /\ DmaInv => CompletionsFitLiveSlot
  BY ComingFits
<1>. QED  BY <1>1, ProtocolAlways, DmaAlways, PTL

\* When a callback returns all of its transfer has happened, in order.
LEMMA ReturnedWhole ==
  ASSUME ProtocolInv, DmaInv
  PROVE  DmaSynchronous
<1>. SUFFICES ASSUME dma.no > 0, pc \notin DmaPcs \cup {"stopped"}
              PROVE  /\ dma.kind = "read" => devBuf = Units(dma.size)
                     /\ dma.kind = "write"
                          => StoredBy(dma.no) = Stored(dma.no, dma.size)
  BY DEF DmaSynchronous, Units, Stored, StoredBy
<1>1. slotDone /\ dma.off = dma.size
  BY DEF DmaInv, DataInv, PlaceInv
<1>2. Chunk \in Nat /\ dma.off \in Nat /\ dma.off + Chunk <= dma.size
  BY ChunkType DEF ProtocolInv, TypeOK, Dmas
<1>3. dma.off + Chunk = dma.size
  BY <1>1, <1>2
<1>. QED  BY <1>1, <1>3 DEF DmaInv, DataInv, ReadInv, WriteInv

\* DMA is synchronous for libttsim, for transfers of any size in chunks of
\* any size, whatever else comes over the link meanwhile.
THEOREM CallbacksReturnWhole == Spec => []DmaSynchronous
<1>1. ProtocolInv /\ DmaInv => DmaSynchronous
  BY ReturnedWhole
<1>. QED  BY <1>1, ProtocolAlways, DmaAlways, PTL

----------------------------------------------------------------------------
(* The DMA port                                                            *)

\* A callback that runs, and a write, is of a DMA that libttsim has started.
StartedInv ==
  /\ pc \in DmaPcs => dma.no > 0
  /\ dma.kind = "write" => dma.no > 0

\* What the abstract port sees of a step.
PortStep == [Port!PortNext]_Port!portVars

\* The stack the port sees: a callback on it, the end of the process, or
\* neither.
ModeKept ==
  /\ pc' \in DmaPcs <=> pc \in DmaPcs
  /\ pc' = "stopped" <=> pc = "stopped"

\* A step that moves nothing and neither starts nor ends a callback.
LEMMA PortUnseen ==
  ASSUME ModeKept, UNCHANGED <<devBuf, hostMem>>,
         dma'.no = dma.no, dma'.kind = dma.kind, dma'.size = dma.size
  PROVE  PortStep
BY DEF ModeKept, PortStep, Port!portVars

\* The process ends where it stands.
LEMMA PortDies ==
  ASSUME pc # "stopped", pc' = "stopped", UNCHANGED <<dma, devBuf, hostMem>>
  PROVE  PortStep
<1>1. Port!Die
  BY DEF Port!Die, DmaPcs, PumpPcs
<1>. QED  BY <1>1 DEF PortStep, Port!PortNext

\* libttsim starts a DMA.
LEMMA PortStarts ==
  ASSUME ProtocolInv, UNCHANGED hostVars,
         NEW kind \in {"read", "write"}, NEW size \in DmaSizes, LibDma(kind, size)
  PROVE  PortStep
<1>1. /\ pc = "lib" /\ pc' = "dmaAlloc" /\ devBuf' = {} /\ UNCHANGED hostMem
  BY DEF LibDma, hostVars
<1>2. dma' = [no |-> dma.no + 1, kind |-> kind, size |-> size, off |-> 0]
  BY DEF LibDma
<1>3. /\ dma'.no = dma.no + 1 /\ dma'.kind \in {"read", "write"}
      /\ dma'.size \in DmaSizes
  BY <1>2
<1>4. Port!Start
  BY <1>1, <1>3 DEF Port!Start, DmaPcs, PumpPcs
<1>. QED  BY <1>4 DEF PortStep, Port!PortNext

\* A chunk of at least one unit fits in a message.
LEMMA ChunkMoves ==
  ASSUME TypeOK
  PROVE  /\ dma.off \in 0 .. dma.size
         /\ dma.off + Chunk <= dma.size
         /\ Chunk = 0 \/ Chunk \in 1 .. MaxDmaChunk
<1>1. /\ dma.off \in Nat /\ dma.size \in Nat /\ dma.off <= dma.size
      /\ Chunk \in Nat /\ dma.off + Chunk <= dma.size
  BY ChunkType DEF TypeOK, Dmas
<1>2. MaxDmaChunk \in Nat
  BY TtsimAssumption DEF TtsimAssumption
<1>3. Chunk <= MaxDmaChunk
  BY <1>1, <1>2 DEF Chunk, Earlier
<1>. QED  BY <1>1, <1>2, <1>3

\* A completion brings the next units of a read.
LEMMA PortBrings ==
  ASSUME ProtocolInv, DmaInv, StartedInv, UNCHANGED hostVars, PollCompletion
  PROVE  PortStep
<1>. DEFINE m == Head(h2d)
            more == {<<dma.off + i, dma.off + i>> : i \in 0 .. (Chunk - 1)}
<1>1. /\ h2d # <<>> /\ m.type \in CompTypes /\ pc \in {"poll", "pumpPoll"}
      /\ UNCHANGED <<pc, hostMem, dma>>
  BY DEF PollCompletion, Polling, Pollable, Visible, hostVars
<1>2. m = h2d[1] /\ 1 \in 1 .. Len(h2d)
  BY <1>1, HeadType, EmptySeq, LenProperties DEF ProtocolInv, TypeOK
<1>3. /\ pc \in PumpPcs \cup {"stopped"} /\ ~slotDone
      /\ m.type = IF dma.kind = "read" THEN "readcomp" ELSE "writecomp"
      /\ m.offset = dma.off
  BY <1>1, <1>2 DEF DmaInv, FlightInv, CompletionFitsSlot
<1>4. devBuf' = IF m.type = "readcomp"
                THEN devBuf \cup {<<dma.off + i, m.offset + i>> :
                                    i \in 0 .. (Chunk - 1)}
                ELSE devBuf
  BY DEF PollCompletion
<1>5. devBuf' = IF dma.kind = "read" THEN devBuf \cup more ELSE devBuf
  BY <1>3, <1>4
<1>6. dma.no > 0 /\ pc \in DmaPcs /\ ModeKept
  BY <1>1, <1>3 DEF StartedInv, DmaPcs, PumpPcs, ModeKept
<1>7. CASE dma.kind = "read" /\ Chunk # 0
  <2>1. devBuf = {<<i, i>> : i \in 0 .. (dma.off - 1)}
    BY <1>3, <1>6, <1>7 DEF DmaInv, DataInv, ReadInv, Units
  <2>2. /\ dma.off \in 0 .. dma.size /\ Chunk \in 1 .. MaxDmaChunk
        /\ dma.off + Chunk <= dma.size
    BY <1>7, ChunkMoves DEF ProtocolInv
  <2>3. devBuf' = devBuf \cup {<<dma.off + i, dma.off + i>> : i \in 0 .. (Chunk - 1)}
    BY <1>5, <1>7
  <2>4. Port!Moved(dma.off)
    BY <1>7, <2>1 DEF Port!Moved
  <2>. HIDE DEF more
  <2>5. Port!Move
    BY <1>1, <1>6, <1>7, <2>2, <2>3, <2>4 DEF Port!Move
  <2>. QED  BY <2>5 DEF PortStep, Port!PortNext
<1>8. CASE ~(dma.kind = "read" /\ Chunk # 0)
  <2>1. Chunk = 0 => more = {}
    <3>1. 0 .. (0 - 1) = {}
      OBVIOUS
    <3>. QED  BY <3>1
  <2>. HIDE DEF more
  <2>2. UNCHANGED devBuf
    BY <1>5, <1>8, <2>1
  <2>. QED  BY <1>1, <1>6, <2>2, PortUnseen
<1>. QED  BY <1>7, <1>8

\* The host takes in the next units of a write.
LEMMA PortStores ==
  ASSUME ProtocolInv, DmaInv, StartedInv, UNCHANGED deviceVars, HostPoll
  PROVE  PortStep
<1>. DEFINE m == Head(d2h)
            more == {<<dma.no, dma.off + i>> : i \in 0 .. (Chunk - 1)}
<1>1. d2h # <<>> /\ UNCHANGED <<pc, dma, devBuf>> /\ ModeKept
  BY DEF HostPoll, Pollable, Visible, deviceVars, dmaVars, ModeKept
<1>2. hostMem' = IF m.type = "write"
                 THEN hostMem \cup {<<m.id, m.offset + i>> : i \in 0 .. (m.len - 1)}
                 ELSE hostMem
  BY DEF HostPoll
<1>3. m = d2h[1] /\ 1 \in 1 .. Len(d2h)
  BY <1>1, HeadType, EmptySeq, LenProperties DEF ProtocolInv, TypeOK
<1>4. CASE m.type = "write" /\ Chunk # 0
  <2>1. AskFits(m) /\ ~NoAsk
    BY <1>3, <1>4 DEF DmaInv, FlightInv, NoAsk, NoneOf, AskTypes
  <2>2. /\ pc \in Live /\ dma.kind = "write" /\ m.id = dma.no
        /\ m.offset = dma.off /\ m.len = Chunk
    BY <1>4, <2>1 DEF AskFits, AskTypes
  <2>3. {x \in hostMem : x[1] = dma.no} = {<<dma.no, i>> : i \in 0 .. (dma.off - 1)}
    BY <2>1, <2>2 DEF DmaInv, DataInv, WriteInv, StartedInv, StoredBy, Stored
  <2>4. hostMem' = hostMem \cup {<<dma.no, dma.off + i>> : i \in 0 .. (Chunk - 1)}
    BY <1>2, <1>4, <2>2
  <2>5. /\ dma.off \in 0 .. dma.size /\ Chunk \in 1 .. MaxDmaChunk
        /\ dma.off + Chunk <= dma.size
    BY <1>4, ChunkMoves DEF ProtocolInv
  <2>6. Port!Moved(dma.off)
    BY <2>2, <2>3 DEF Port!Moved
  <2>7. Port!Move
    BY <1>1, <2>2, <2>4, <2>5, <2>6 DEF Port!Move, Live, DmaPcs
  <2>. QED  BY <2>7 DEF PortStep, Port!PortNext
<1>5. CASE m.type = "write" /\ Chunk = 0
  <2>1. AskFits(m)
    BY <1>3 DEF DmaInv, FlightInv
  <2>2. m.len = 0
    BY <1>5, <2>1 DEF AskFits, AskTypes
  <2>3. {<<m.id, m.offset + i>> : i \in 0 .. (m.len - 1)} = {}
    <3>1. 0 .. (0 - 1) = {}
      OBVIOUS
    <3>. QED  BY <2>2, <3>1
  <2>4. UNCHANGED hostMem
    BY <1>2, <2>3
  <2>. QED  BY <1>1, <2>4, PortUnseen
<1>6. CASE m.type # "write"
  BY <1>1, <1>2, <1>6, PortUnseen
<1>. QED  BY <1>4, <1>5, <1>6

\* The callback returns when its last chunk is done.
LEMMA PortReturns ==
  ASSUME ProtocolInv, DmaInv, StartedInv, UNCHANGED hostVars, DmaChunkDone
  PROVE  PortStep
<1>1. /\ slotDone /\ pc = "pumpPoll"
      /\ dma' = [dma EXCEPT !.off = @ + Chunk]
      /\ UNCHANGED <<hostMem, devBuf>>
  BY DEF DmaChunkDone, PolledDry, hostVars
<1>2. /\ dma \in Dmas /\ dma.off \in Nat /\ dma.size \in Nat /\ Chunk \in Nat
      /\ dma.off + Chunk <= dma.size
  BY ChunkType DEF ProtocolInv, TypeOK, Dmas
<1>3. /\ dma'.no = dma.no /\ dma'.kind = dma.kind /\ dma'.size = dma.size
  BY <1>1, <1>2 DEF Dmas
<1>4. CASE dma.off + Chunk < dma.size
  <2>1. pc' = "dmaAlloc"
    BY <1>4 DEF DmaChunkDone
  <2>2. ModeKept
    BY <1>1, <2>1 DEF ModeKept, DmaPcs, PumpPcs
  <2>. QED  BY <1>1, <1>3, <2>2, PortUnseen
<1>5. CASE ~(dma.off + Chunk < dma.size)
  <2>1. pc' = "lib"
    BY <1>5 DEF DmaChunkDone
  <2>2. dma.off + Chunk = dma.size
    BY <1>2, <1>5
  <2>3. dma.no > 0 /\ dma.kind \in {"read", "write"}
    BY <1>1, <1>2 DEF StartedInv, DmaPcs, PumpPcs, Dmas
  <2>4. Port!Moved(dma.size)
    <3>1. CASE dma.kind = "read"
      BY <1>1, <2>2, <2>3, <3>1 DEF Port!Moved, DmaInv, DataInv, ReadInv, Units
    <3>2. CASE dma.kind = "write"
      <4>1. StoredBy(dma.no) = Stored(dma.no, dma.size)
        BY <1>1, <2>2, <2>3, <3>2 DEF DmaInv, DataInv, WriteInv
      <4>. QED  BY <3>2, <4>1 DEF Port!Moved, StoredBy, Stored
    <3>. QED  BY <2>3, <3>1, <3>2
  <2>5. Port!Return
    BY <1>1, <1>3, <2>1, <2>4 DEF Port!Return, DmaPcs, PumpPcs
  <2>. QED  BY <2>5 DEF PortStep, Port!PortNext
<1>. QED  BY <1>4, <1>5

\* Every step is a step of the port or one it does not see.
LEMMA PortNextStep ==
  ASSUME ProtocolInv, DmaInv, StartedInv, [Next]_vars
  PROVE  PortStep /\ StartedInv'
<1>. DEFINE Begins == \E kind \in {"read", "write"}, size \in DmaSizes :
                        LibDma(kind, size)
<1>1. CASE Device
  <2>. UNCHANGED hostVars
    BY <1>1 DEF Device
  <2>1. CASE Begins
    <3>1. PortStep
      BY <2>1, PortStarts
    <3>2. dma'.no = dma.no + 1 /\ dma.no \in Nat
      BY <2>1 DEF LibDma, ProtocolInv, TypeOK, Dmas
    <3>. QED  BY <3>1, <3>2 DEF StartedInv
  <2>2. CASE PollCompletion
    <3>1. UNCHANGED <<pc, dma>>
      BY <2>2 DEF PollCompletion
    <3>. QED  BY <2>2, <3>1, PortBrings DEF StartedInv
  <2>3. CASE DmaChunkDone
    <3>1. /\ pc = "pumpPoll" /\ dma \in Dmas
          /\ dma' = [dma EXCEPT !.off = @ + Chunk]
      BY <2>3 DEF DmaChunkDone, PolledDry, ProtocolInv, TypeOK
    <3>2. dma'.no = dma.no /\ dma'.kind = dma.kind
      BY <3>1 DEF Dmas
    <3>. QED  BY <2>3, <3>1, <3>2, PortReturns DEF StartedInv, DmaPcs, PumpPcs
  <2>4. CASE /\ UNCHANGED <<dma, devBuf>>
             /\ ModeKept \/ (pc # "stopped" /\ pc' = "stopped")
    <3>1. UNCHANGED hostMem
      BY DEF hostVars
    <3>2. PortStep
      BY <2>4, <3>1, PortUnseen, PortDies
    <3>3. pc' \in DmaPcs => pc \in DmaPcs
      BY <2>4 DEF ModeKept, DmaPcs, PumpPcs
    <3>. QED  BY <2>4, <3>2, <3>3 DEF StartedInv
  <2>5. \/ Begins \/ PollCompletion \/ DmaChunkDone
        \/ /\ UNCHANGED <<dma, devBuf>>
           /\ ModeKept \/ (pc # "stopped" /\ pc' = "stopped")
    BY <1>1 DEF Device, DeviceNext, OutSync, PollPcie, PollMmio, PollOversize,
       PollControl, Polling, PollPcieAllEnds, PolledDry, AllocPcieOut, Exit,
       DmaSend, SendPcieOut, DmaCut, DmaPumpAdvance, DrainRequest, DrainOverrun,
       MmioReturns, NextOf, ReplySend, DrainEnds, WaitForPeer, JumpToDeadline, RunClocks,
       ClockReturns, LoopTail, dmaVars, ModeKept, DmaPcs, PumpPcs
  <2>. QED  BY <2>1, <2>2, <2>3, <2>4, <2>5
<1>2. CASE Host
  <2>1. UNCHANGED deviceVars /\ UNCHANGED <<pc, dma, devBuf>> /\ ModeKept
    BY <1>2 DEF Host, deviceVars, dmaVars, ModeKept
  <2>2. CASE HostPoll
    BY <2>1, <2>2, PortStores DEF StartedInv
  <2>3. CASE UNCHANGED hostMem
    BY <2>1, <2>3, PortUnseen DEF StartedInv
  <2>. QED
    BY <1>2, <2>2, <2>3 DEF Host, HostNext, HostSync, HostIssue, HostTerminate,
       HostSend, HostAdvance
<1>3. CASE UNCHANGED vars
  <2>1. UNCHANGED <<pc, dma, devBuf, hostMem>> /\ ModeKept
    BY <1>3 DEF vars, deviceVars, dmaVars, hostVars, ModeKept
  <2>. QED  BY <2>1, PortUnseen DEF StartedInv
<1>. QED  BY <1>1, <1>2, <1>3 DEF Next, Finished

\* The callbacks implement the abstract port: for transfers of any size in
\* chunks of any size, whatever comes over the link, the units move in order
\* and before the callback returns, and nothing is moved between callbacks.
THEOREM CallbacksImplementPort == Spec => ImplementsDmaPort
<1>1. Init => StartedInv /\ Port!PortInit
  <2>. SUFFICES ASSUME Init PROVE StartedInv /\ Port!PortInit
    OBVIOUS
  <2>1. /\ dma = [no |-> 0, kind |-> "read", size |-> 0, off |-> 0]
        /\ devBuf = {} /\ hostMem = {} /\ pc = "sync"
    BY DEF Init, HostInit, DeviceInit
  <2>. QED  BY <2>1 DEF StartedInv, Port!PortInit, DmaPcs, PumpPcs
<1>2. ProtocolInv /\ DmaInv /\ StartedInv /\ [Next]_vars
        => StartedInv' /\ [Port!PortNext]_Port!portVars
  BY PortNextStep DEF PortStep
<1>. QED
  BY <1>1, <1>2, ProtocolAlways, DmaAlways, PTL
     DEF Spec, ImplementsDmaPort, Port!PortSpec

----------------------------------------------------------------------------
(* The end of the process                                                  *)

\* The ends that TERMINATE brings about.  The host is gone when it is in its
\* ring or has been polled, and the process has an end when it has stopped.
EndsAfterTerminate ==
  /\ outcome \in {"clean", "dmaCut", "sendCut"} => peerGone
  /\ outcome = "clean" => call = "none"
  /\ outcome = "dmaCut" => call # "none" /\ exiting /\ ~slotDone

EndInv ==
  /\ \A i \in 1 .. Len(h2d) : h2d[i].type = "terminate" => peerGone
  /\ exiting => peerGone
  /\ pc # "stopped" <=> outcome = "running"
  /\ EndsAfterTerminate

\* Nothing has ended when the link has come up.
LEMMA EndInit == Init => EndInv
<1>. SUFFICES ASSUME Init PROVE EndInv
  OBVIOUS
<1>1. /\ h2d = <<Plain("devctrl", 0)>> /\ outcome = "running"
      /\ exiting = FALSE /\ pc = "sync"
  BY DEF Init, LinkInit, DeviceInit
<1>2. Len(h2d) = 1 /\ h2d[1].type = "devctrl"
  BY <1>1 DEF Plain
<1>. QED  BY <1>1, <1>2 DEF EndInv, EndsAfterTerminate

\* The adapter: it polls TERMINATE only from the ring, and each of its exits
\* asks for it.
LEMMA EndDevice ==
  ASSUME ProtocolInv, EndInv, Device
  PROVE  EndInv'
<1>1. pc # "stopped" /\ outcome = "running" /\ UNCHANGED peerGone
  BY DEF Device, DeviceNext, EndInv, OutSync, PollPcie, PollMmio, PollOversize,
     PollCompletion, PollControl, Polling, Consume, PollPcieAllEnds, PolledDry,
     AllocPcieOut, Exit, LibDma, DmaSend, SendPcieOut, DmaChunkDone, DmaCut,
     DmaPumpAdvance, DrainRequest, DrainOverrun, MmioReturns, ReplySend, DrainEnds,
     WaitForPeer, JumpToDeadline, RunClocks, ClockReturns, LoopTail, linkVars
<1>2. \A i \in 1 .. Len(h2d') : h2d'[i].type = "terminate" => peerGone'
  <2>1. CASE PollMmio \/ PollControl \/ PollCompletion
    <3>1. h2d # <<>> /\ h2d' = Tail(h2d)
      BY <2>1 DEF PollMmio, PollControl, PollCompletion, Polling, Pollable,
         Visible, Consume
    <3>2. Keeps(h2d, h2d', {"terminate"}, 1)
      BY <3>1, KeepsTail DEF ProtocolInv, TypeOK
    <3>. QED  BY <1>1, <3>2 DEF Keeps, EndInv
  <2>2. CASE UNCHANGED h2d
    BY <1>1, <2>2 DEF EndInv
  <2>3. \/ PollMmio \/ PollControl \/ PollCompletion
        \/ UNCHANGED h2d
    BY DEF Device, DeviceNext, OutSync, PollPcie, PollOversize,
       PollPcieAllEnds, AllocPcieOut, Exit, LibDma, DmaSend, SendPcieOut,
       DmaChunkDone, DmaCut, DmaPumpAdvance, DrainRequest, DrainOverrun,
       MmioReturns, ReplySend, DrainEnds, WaitForPeer, JumpToDeadline, RunClocks,
       ClockReturns, LoopTail, linkVars
  <2>. QED  BY <2>1, <2>2, <2>3
<1>3. CASE UNCHANGED endVars /\ pc' # "stopped"
  BY <1>1, <1>2, <1>3 DEF EndInv, EndsAfterTerminate, endVars
<1>4. CASE PollControl
  <2>1. Head(h2d) = h2d[1] /\ 1 \in 1 .. Len(h2d)
    BY <1>4, HeadType, EmptySeq, LenProperties
       DEF PollControl, Polling, Pollable, Visible, ProtocolInv, TypeOK
  <2>2. exiting' => peerGone'
    BY <1>1, <1>4, <2>1 DEF PollControl, EndInv
  <2>3. outcome' = "running" /\ pc' # "stopped"
    BY <1>1, <1>4 DEF PollControl, Polling
  <2>. QED  BY <1>2, <2>2, <2>3 DEF EndInv, EndsAfterTerminate
<1>5. CASE PollOversize \/ DrainOverrun
  BY <1>1, <1>2, <1>5 DEF PollOversize, DrainOverrun, Exit, EndInv,
     EndsAfterTerminate
<1>6. CASE DmaCut
  <2>1. /\ pc' = "stopped" /\ outcome' = "dmaCut" /\ exiting /\ ~slotDone
        /\ pc \in DmaPcs
        /\ UNCHANGED <<call, slotDone, exiting>>
    BY <1>6 DEF DmaCut, Exit, libVars, dmaVars, DmaPcs, PumpPcs
  <2>2. call # "none"
    BY <2>1 DEF ProtocolInv, CallInv
  <2>. QED  BY <1>1, <1>2, <2>1, <2>2 DEF EndInv, EndsAfterTerminate
<1>7. CASE \/ AllocPcieOut("dmaAlloc", "dmaSend")
           \/ AllocPcieOut("replyAlloc", "replySend")
  <2>1. \/ UNCHANGED endVars /\ pc' # "stopped"
        \/ /\ exiting \/ peerGone
           /\ pc' = "stopped" /\ outcome' = "sendCut" /\ UNCHANGED exiting
    BY <1>7 DEF AllocPcieOut, Exit
  <2>. QED  BY <1>1, <1>2, <1>3, <2>1 DEF EndInv, EndsAfterTerminate
<1>8. CASE LoopTail
  <2>1. call = "none" /\ UNCHANGED call
    BY <1>8 DEF LoopTail, ProtocolInv, CallInv, LoopPcs, libVars
  <2>2. \/ UNCHANGED endVars /\ pc' # "stopped"
        \/ (exiting \/ peerGone) /\ outcome' = "clean"
    BY <1>8 DEF LoopTail
  <2>. QED  BY <1>1, <1>2, <1>3, <1>8, <2>1, <2>2
         DEF LoopTail, EndInv, EndsAfterTerminate
<1>9. \/ UNCHANGED endVars /\ pc' # "stopped"
      \/ PollControl \/ PollOversize \/ DrainOverrun \/ DmaCut \/ LoopTail
      \/ AllocPcieOut("dmaAlloc", "dmaSend")
      \/ AllocPcieOut("replyAlloc", "replySend")
  BY DEF Device, DeviceNext, OutSync, PollPcie, PollMmio, PollCompletion,
     Polling, PollPcieAllEnds, PolledDry, LibDma, DmaSend, SendPcieOut,
     DmaChunkDone, DmaPumpAdvance, DrainRequest, MmioReturns, NextOf, ReplySend,
     DrainEnds, WaitForPeer, JumpToDeadline, RunClocks, ClockReturns
<1>. QED  BY <1>3, <1>4, <1>5, <1>6, <1>7, <1>8, <1>9

\* The host: it is gone from the moment TERMINATE is in its ring.
LEMMA EndHost ==
  ASSUME ProtocolInv, EndInv, Host
  PROVE  EndInv'
<1>1. UNCHANGED <<pc, call, slotDone, exiting, outcome>>
  BY DEF Host, deviceVars, libVars, dmaVars, endVars
<1>2. ~peerGone
  BY DEF Host, HostNext, HostSync, HostIssue, HostTerminate, HostSend, HostPoll,
     HostAdvance, Running
<1>3. \A i \in 1 .. Len(h2d) : h2d[i].type # "terminate"
  BY <1>2 DEF EndInv
<1>4. CASE HostSend
  <2>. DEFINE m == Head(hOut)
  <2>1. /\ h2d' = Append(h2d, m) /\ peerGone' = (m.type = "terminate")
        /\ hOut # <<>>
    BY <1>4 DEF HostSend
  <2>2. m \in Messages(H2DTypes) /\ h2d \in Seq(Messages(H2DTypes))
    BY <2>1, HeadType DEF ProtocolInv, TypeOK
  <2>. HIDE DEF m
  <2>3. \A i \in 1 .. Len(h2d') : h2d'[i] = m \/ h2d'[i].type # "terminate"
    BY <1>3, <2>1, <2>2, AppendProperties, LenProperties
  <2>. QED  BY <1>1, <1>2, <2>1, <2>3 DEF EndInv, EndsAfterTerminate
<1>5. CASE UNCHANGED <<h2d, peerGone>>
  BY <1>1, <1>5 DEF EndInv, EndsAfterTerminate
<1>6. HostSend \/ UNCHANGED <<h2d, peerGone>>
  BY DEF Host, HostNext, HostSync, HostIssue, HostTerminate, HostPoll,
     HostAdvance, linkVars
<1>. QED  BY <1>4, <1>5, <1>6

\* So it is in every reachable state.
LEMMA EndAlways == Spec => []EndInv
<1>1. ProtocolInv /\ EndInv /\ [Next]_vars => EndInv'
  <2>1. ASSUME EndInv, UNCHANGED vars PROVE EndInv'
    BY <2>1 DEF EndInv, EndsAfterTerminate, vars, linkVars, deviceVars, libVars,
       dmaVars, endVars
  <2>. QED  BY <2>1, EndDevice, EndHost DEF Next, Finished
<1>. QED  BY <1>1, EndInit, ProtocolAlways, PTL DEF Spec

\* A request that is too long was issued as one: it does not grow on its way
\* from the host to mmioQ.
HasLongWrite(reqs) == \E i \in 1 .. Len(reqs) : TooLong(reqs[i])
HasLongRead(reqs) == \E i \in 1 .. Len(reqs) : Overruns(reqs[i])

Caused(m, reqs) ==
  (TooLong(m) => HasLongWrite(reqs)) /\ (Overruns(m) => HasLongRead(reqs))

AllCaused(ring, reqs) == \A i \in 1 .. Len(ring) : Caused(ring[i], reqs)

LongInv ==
  /\ AllCaused(h2d, issued) /\ AllCaused(hOut, issued) /\ AllCaused(mmioQ, issued)
  /\ outcome = "oversize" => HasLongWrite(issued)
  /\ outcome = "overrun" => HasLongRead(issued)

\* What is taken off a sequence, and what is left of it, was issued.
LEMMA CausedTail ==
  ASSUME NEW S, NEW ring \in Seq(S), ring # <<>>, NEW reqs, AllCaused(ring, reqs)
  PROVE  Caused(Head(ring), reqs) /\ AllCaused(Tail(ring), reqs)
<1>. DEFINE rest == Tail(ring)
<1>1. /\ Len(rest) = Len(ring) - 1 /\ Len(ring) \in Nat /\ Len(ring) # 0
      /\ Head(ring) = ring[1]
      /\ \A i \in 1 .. Len(rest) : rest[i] = ring[i + 1]
  BY HeadTailProperties, LenProperties, EmptySeq
<1>. HIDE DEF rest
<1>2. 1 \in 1 .. Len(ring) /\ \A i \in 1 .. Len(rest) : i + 1 \in 1 .. Len(ring)
  BY <1>1
<1>3. Caused(Head(ring), reqs) /\ AllCaused(rest, reqs)
  BY <1>1, <1>2 DEF AllCaused
<1>. QED  BY <1>3 DEF rest

\* So is what is put at the end, if it was before.
LEMMA CausedAppend ==
  ASSUME NEW S, NEW ring \in Seq(S), NEW m \in S, NEW reqs, Caused(m, reqs),
         AllCaused(ring, reqs)
  PROVE  AllCaused(Append(ring, m), reqs)
<1>. DEFINE new == Append(ring, m)
<1>1. /\ Len(new) = Len(ring) + 1 /\ Len(ring) \in Nat
      /\ new[Len(ring) + 1] = m
      /\ \A i \in 1 .. Len(ring) : new[i] = ring[i]
  BY AppendProperties, LenProperties
<1>. HIDE DEF new
<1>2. \A i \in 1 .. Len(new) : i \in 1 .. Len(ring) \/ i = Len(ring) + 1
  BY <1>1
<1>3. AllCaused(new, reqs)
  BY <1>1, <1>2 DEF AllCaused
<1>. QED  BY <1>3 DEF new

\* What was issued stays issued.
LEMMA CausesStay ==
  ASSUME NEW S, NEW reqs \in Seq(S), NEW t \in S
  PROVE  /\ HasLongWrite(reqs) \/ TooLong(t) => HasLongWrite(Append(reqs, t))
         /\ HasLongRead(reqs) \/ Overruns(t) => HasLongRead(Append(reqs, t))
         /\ \A ring : AllCaused(ring, reqs) => AllCaused(ring, Append(reqs, t))
<1>. DEFINE more == Append(reqs, t)
<1>1. /\ Len(more) = Len(reqs) + 1 /\ Len(reqs) \in Nat
      /\ more[Len(reqs) + 1] = t
      /\ \A i \in 1 .. Len(reqs) : more[i] = reqs[i]
  BY AppendProperties, LenProperties
<1>. HIDE DEF more
<1>2. /\ \A i \in 1 .. Len(reqs) : i \in 1 .. Len(more)
      /\ Len(reqs) + 1 \in 1 .. Len(more)
  BY <1>1
<1>3. /\ HasLongWrite(reqs) \/ TooLong(t) => HasLongWrite(more)
      /\ HasLongRead(reqs) \/ Overruns(t) => HasLongRead(more)
  BY <1>1, <1>2 DEF HasLongWrite, HasLongRead
<1>4. \A ring : AllCaused(ring, reqs) => AllCaused(ring, more)
  BY <1>3 DEF AllCaused, Caused
<1>. QED  BY <1>3, <1>4 DEF more

\* The adapter ends on requests it has been sent.
LEMMA LongDevice ==
  ASSUME ProtocolInv, LongInv, Device
  PROVE  LongInv'
<1>0. /\ h2d \in Seq(Messages(H2DTypes)) /\ mmioQ \in Seq(MmioReqs)
      /\ UNCHANGED <<issued, hOut>>
  BY DEF ProtocolInv, TypeOK, Device, hostVars
<1>. DEFINE Ends == /\ outcome' = "oversize" => HasLongWrite(issued)
                    /\ outcome' = "overrun" => HasLongRead(issued)
            Kept == AllCaused(h2d', issued) /\ AllCaused(mmioQ', issued)
<1>1. ASSUME Ends, Kept PROVE LongInv'
  <2>1. AllCaused(h2d, issued)' /\ AllCaused(mmioQ, issued)'
    BY <1>0, <1>1 DEF AllCaused, Caused, HasLongWrite, HasLongRead
  <2>2. AllCaused(hOut, issued)'
    BY <1>0 DEF LongInv, AllCaused, Caused, HasLongWrite, HasLongRead
  <2>3. /\ outcome' = "oversize" => HasLongWrite(issued')
        /\ outcome' = "overrun" => HasLongRead(issued')
    BY <1>0, <1>1
  <2>. QED  BY <2>1, <2>2, <2>3 DEF LongInv, HasLongWrite, HasLongRead
<1>2. CASE PollMmio \/ PollCompletion \/ PollControl
  <2>1. /\ h2d # <<>> /\ h2d' = Tail(h2d) /\ UNCHANGED outcome
    BY <1>2 DEF PollMmio, PollCompletion, PollControl, Polling, Pollable, Visible,
       Consume, endVars
  <2>2. Caused(Head(h2d), issued) /\ AllCaused(h2d', issued)
    BY <1>0, <2>1, CausedTail DEF LongInv
  <2>3. AllCaused(mmioQ', issued)
    <3>1. CASE PollMmio
      <4>. DEFINE m == Head(h2d)
                  q == [type |-> m.type, id |-> m.id, bar |-> m.bar,
                        offset |-> m.offset, len |-> m.len]
      <4>1. m \in Messages(H2DTypes) /\ m.type \in MmioTypes
        BY <1>0, <2>1, <3>1, HeadType DEF PollMmio, Polling
      <4>2. q \in MmioReqs
        BY <4>1 DEF MmioReqs, Messages
      <4>3. Caused(q, issued)
        BY <2>2 DEF Caused, TooLong, Overruns
      <4>4. mmioQ' = Append(mmioQ, q)
        BY <3>1 DEF PollMmio
      <4>. HIDE DEF q
      <4>. QED  BY <1>0, <4>2, <4>3, <4>4, CausedAppend DEF LongInv
    <3>2. CASE UNCHANGED mmioQ
      BY <3>2 DEF LongInv
    <3>. QED  BY <1>2, <3>1, <3>2 DEF PollCompletion, PollControl, mmioVars
  <2>. QED  BY <1>1, <2>1, <2>2, <2>3 DEF LongInv
<1>3. CASE PollOversize
  <2>1. /\ h2d # <<>> /\ TooLong(Head(h2d)) /\ outcome' = "oversize"
        /\ UNCHANGED <<h2d, mmioQ>>
    BY <1>3 DEF PollOversize, Polling, Pollable, Visible, Exit, linkVars, mmioVars
  <2>2. HasLongWrite(issued)
    BY <1>0, <2>1, CausedTail DEF LongInv, Caused
  <2>. QED  BY <1>1, <2>1, <2>2 DEF LongInv
<1>4. CASE DrainOverrun
  <2>1. /\ mmioQ # <<>> /\ Overruns(Head(mmioQ)) /\ outcome' = "overrun"
        /\ UNCHANGED <<h2d, mmioQ>>
    BY <1>4 DEF DrainOverrun, Exit, linkVars, mmioVars
  <2>2. HasLongRead(issued)
    BY <1>0, <2>1, CausedTail DEF LongInv, Caused
  <2>. QED  BY <1>1, <2>1, <2>2 DEF LongInv
<1>5. CASE DrainRequest
  <2>1. /\ mmioQ # <<>> /\ mmioQ' = Tail(mmioQ) /\ UNCHANGED <<h2d, outcome>>
    BY <1>5 DEF DrainRequest, linkVars, endVars
  <2>2. AllCaused(mmioQ', issued)
    BY <1>0, <2>1, CausedTail DEF LongInv
  <2>. QED  BY <1>1, <2>1, <2>2 DEF LongInv
<1>6. CASE /\ UNCHANGED <<h2d, mmioQ>>
           /\ outcome' \in {outcome, "clean", "dmaCut", "sendCut"}
  BY <1>1, <1>6 DEF LongInv
<1>7. \/ PollMmio \/ PollCompletion \/ PollControl \/ PollOversize
      \/ DrainOverrun \/ DrainRequest
      \/ /\ UNCHANGED <<h2d, mmioQ>>
         /\ outcome' \in {outcome, "clean", "dmaCut", "sendCut"}
  BY DEF Device, DeviceNext, OutSync, PollPcie, PollPcieAllEnds, AllocPcieOut,
     Exit, LibDma, DmaSend, SendPcieOut, DmaChunkDone, DmaCut, DmaPumpAdvance,
     MmioReturns, ReplySend, DrainEnds, WaitForPeer, JumpToDeadline, RunClocks,
     ClockReturns, LoopTail, linkVars, mmioVars, endVars
<1>. QED  BY <1>2, <1>3, <1>4, <1>5, <1>6, <1>7

\* The host sends what it issues.
LEMMA LongHost ==
  ASSUME ProtocolInv, LongInv, Host
  PROVE  LongInv'
<1>0. /\ h2d \in Seq(Messages(H2DTypes)) /\ hOut \in Seq(Messages(H2DTypes))
      /\ issued \in Seq([type : MmioTypes, bar : Nat, offset : Nat, len : Nat])
      /\ UNCHANGED <<outcome, mmioQ>>
  BY DEF ProtocolInv, TypeOK, Host, deviceVars, mmioVars, endVars
<1>1. ASSUME UNCHANGED issued,
             AllCaused(h2d', issued) /\ AllCaused(hOut', issued)
      PROVE  LongInv'
  BY <1>0, <1>1 DEF LongInv, AllCaused, Caused, HasLongWrite, HasLongRead
<1>2. AllCaused(<<>>, issued)
  <2>1. Len(<<>>) = 0 OBVIOUS
  <2>. QED  BY <2>1 DEF AllCaused
<1>3. ASSUME NEW m, m.type \notin MmioTypes
      PROVE  AllCaused(<<m>>, issued)
  <2>1. Len(<<m>>) = 1 /\ <<m>>[1] = m
    OBVIOUS
  <2>2. Caused(m, issued)
    BY <1>3 DEF Caused, TooLong, Overruns, MmioTypes
  <2>. QED  BY <2>1, <2>2 DEF AllCaused
<1>4. CASE HostSync \/ HostTerminate
  <2>1. PICK type \in {"sync", "terminate"} :
          hOut' = <<Plain(type, hNow)>> /\ UNCHANGED <<h2d, issued>>
    BY <1>4 DEF HostSync, HostTerminate, linkVars
  <2>2. Plain(type, hNow).type \notin MmioTypes
    BY DEF Plain, MmioTypes
  <2>. QED  BY <1>1, <1>3, <2>1, <2>2 DEF LongInv
<1>5. ASSUME NEW t \in Targets, HostIssue(t) PROVE LongInv'
  <2>. DEFINE m == Tagged(t.type, hNow, Len(issued'), t)
  <2>1. /\ t \in [type : MmioTypes, bar : Nat, offset : Nat, len : Nat]
        /\ issued' = Append(issued, t) /\ hOut' = <<m>> /\ UNCHANGED h2d
    BY <1>5, HostAssumption DEF HostIssue, HostAssumption, linkVars
  <2>2. Caused(m, issued')
    <3>1. (TooLong(m) <=> TooLong(t)) /\ (Overruns(m) <=> Overruns(t))
      BY DEF Tagged, TooLong, Overruns
    <3>. HIDE DEF m
    <3>2. (TooLong(t) => HasLongWrite(issued')) /\ (Overruns(t) => HasLongRead(issued'))
      BY <1>0, <2>1, CausesStay
    <3>. QED  BY <3>1, <3>2 DEF Caused
  <2>. HIDE DEF m
  <2>3. AllCaused(hOut', issued')
    <3>1. Len(hOut') = 1 /\ hOut'[1] = m
      BY <2>1
    <3>. QED  BY <2>2, <3>1 DEF AllCaused
  <2>4. /\ AllCaused(h2d, issued') /\ AllCaused(mmioQ, issued')
        /\ outcome = "oversize" => HasLongWrite(issued')
        /\ outcome = "overrun" => HasLongRead(issued')
    BY <1>0, <2>1, CausesStay DEF LongInv
  <2>. QED  BY <1>0, <2>1, <2>3, <2>4
         DEF LongInv, AllCaused, Caused, HasLongWrite, HasLongRead
<1>6. CASE HostSend
  <2>1. /\ hOut # <<>> /\ h2d' = Append(h2d, Head(hOut)) /\ hOut' = <<>>
        /\ UNCHANGED issued
    BY <1>6 DEF HostSend
  <2>2. Caused(Head(hOut), issued) /\ Head(hOut) \in Messages(H2DTypes)
    BY <1>0, <2>1, CausedTail, HeadType DEF LongInv
  <2>3. AllCaused(h2d', issued)
    BY <1>0, <2>1, <2>2, CausedAppend DEF LongInv
  <2>. QED  BY <1>1, <1>2, <2>1, <2>3
<1>7. CASE HostPoll
  <2>1. \/ hOut' = <<>>
        \/ \E type \in {"readcomp", "writecomp"} : \E m :
             hOut' = <<Tagged(type, hNow, m.id, m)>>
    BY <1>7 DEF HostPoll
  <2>2. UNCHANGED <<h2d, issued>>
    BY <1>7 DEF HostPoll
  <2>3. ASSUME NEW type \in {"readcomp", "writecomp"}, NEW m
        PROVE  Tagged(type, hNow, m.id, m).type \notin MmioTypes
    BY DEF Tagged, MmioTypes
  <2>. QED  BY <1>1, <1>2, <1>3, <2>1, <2>2, <2>3 DEF LongInv
<1>8. CASE HostAdvance
  BY <1>1, <1>8 DEF HostAdvance, linkVars, LongInv
<1>. QED  BY <1>4, <1>5, <1>6, <1>7, <1>8 DEF Host, HostNext

\* The process ends for a cause: after TERMINATE, in the three ways the code
\* has, or on a request that the host has made longer than kMaxMmioLen.
THEOREM EndsAreOrderly == Spec => []EndsForCause
<1>1. Init => LongInv
  <2>1. ASSUME Init PROVE LongInv
    <3>1. /\ h2d = <<Plain("devctrl", 0)>> /\ hOut = <<>> /\ mmioQ = <<>>
          /\ outcome = "running"
      BY <2>1 DEF Init, LinkInit, DeviceInit, HostInit
    <3>2. Len(h2d) = 1 /\ h2d[1].type = "devctrl" /\ Len(hOut) = 0 /\ Len(mmioQ) = 0
      BY <3>1 DEF Plain
    <3>. QED  BY <3>1, <3>2 DEF LongInv, AllCaused, Caused, TooLong, Overruns
  <2>. QED  BY <2>1
<1>2. ProtocolInv /\ LongInv /\ [Next]_vars => LongInv'
  <2>1. ASSUME LongInv, UNCHANGED vars PROVE LongInv'
    BY <2>1 DEF LongInv, AllCaused, Caused, HasLongWrite, HasLongRead, vars,
       linkVars, deviceVars, mmioVars, endVars, hostVars
  <2>. QED  BY <2>1, LongDevice, LongHost DEF Next, Finished
<1>3. ProtocolInv /\ EndInv /\ LongInv => EndsForCause
  BY DEF ProtocolInv, TypeOK, Outcomes, EndInv, EndsAfterTerminate, LongInv,
     HasLongWrite, HasLongRead, EndsForCause
<1>. QED  BY <1>1, <1>2, <1>3, ProtocolAlways, EndAlways, PTL DEF Spec
=============================================================================
