------------------------------ MODULE PcieHost ------------------------------
(***************************************************************************)
(* The other end of the link: QEMU's simbricks-pci, or tt_host_probe.  It  *)
(* issues MMIO, serves the device's DMA out of its memory, keeps its own   *)
(* clock, and ends the simulation with TERMINATE.  The probe has one MMIO  *)
(* in flight at a time; QEMU has one per virtual CPU, and posts writes.    *)
(***************************************************************************)
EXTENDS SimbricksPcie, FiniteSets

CONSTANTS
  Targets,         \* accesses: records [type, bar, offset, len]
  MaxReqs,         \* bound: requests the host issues
  MaxOutstanding,  \* requests the host has unanswered at a time
  LastIssue,       \* bound: the host issues and terminates up to this time
  HostHorizon      \* bound: where the host's clock stops

ASSUME HostAssumption ==
  /\ Targets \subseteq [type : MmioTypes, bar : Nat, offset : Nat, len : Nat]
  /\ MaxReqs \in Nat
  /\ MaxOutstanding \in Nat
  /\ LastIssue \in Nat
  /\ HostHorizon \in Nat

VARIABLES
  hNow,       \* cur_ts
  hInTs,      \* SimbricksPcieIfD2HInTimestamp
  hNextSync,  \* SimbricksPcieIfH2DOutNextSync
  hOut,       \* the message AllocOut is waiting to place: <<>> or <<m>>
  issued,     \* the requests issued; a request's id is its index
  answered,   \* the ids of the requests completed (MmioPending.done)
  hostMem     \* what DMA writes put in memory: pairs <<DMA, unit>>

hostVars == <<hNow, hInTs, hNextSync, hOut, issued, answered, hostMem>>

\* Connect leaves one DEVCTRL in the ring.
HostInit ==
  /\ hNow = 0 /\ hInTs = 0 /\ hNextSync = SyncInterval
  /\ hOut = <<>>
  /\ issued = <<>> /\ answered = {}
  /\ hostMem = {}

LinkInit ==
  /\ h2d = <<Plain("devctrl", 0)>>
  /\ d2h = <<>>
  /\ peerGone = FALSE

\* The host runs and is not stuck in AllocOut.
Running == ~peerGone /\ hOut = <<>>

\* The requests that get no completion count as answered at once.
Unanswered == {i \in 1 .. Len(issued) : issued[i].type # "posted"} \ answered

HostSyncOwed == IsSync /\ hNextSync <= hNow

HostSync ==
  /\ Running
  /\ HostSyncOwed
  /\ hOut' = <<Plain("sync", hNow)>>
  /\ UNCHANGED <<linkVars, hNow, hInTs, hNextSync, issued, answered, hostMem>>

\* MmioRead and MmioWrite.
HostIssue(t) ==
  /\ Running
  /\ hNow <= LastIssue
  /\ Len(issued) < MaxReqs
  /\ Cardinality(Unanswered) < MaxOutstanding
  /\ issued' = Append(issued, t)
  /\ hOut' = <<Tagged(t.type, hNow, Len(issued'), t)>>
  /\ UNCHANGED <<linkVars, hNow, hInTs, hNextSync, answered, hostMem>>

HostTerminate ==
  /\ Running
  /\ hNow <= LastIssue
  /\ hOut' = <<Plain("terminate", hNow)>>
  /\ UNCHANGED <<linkVars, hNow, hInTs, hNextSync, issued, answered, hostMem>>

\* AllocOut got a slot, and the message is sent.  TERMINATE is the last.
HostSend ==
  /\ ~peerGone
  /\ hOut # <<>>
  /\ HasRoom(h2d)
  /\ h2d' = Append(h2d, Head(hOut))
  /\ hOut' = <<>>
  /\ hNextSync' = hNow + SyncInterval
  /\ peerGone' = (Head(hOut).type = "terminate")
  /\ UNCHANGED <<d2h, hNow, hInTs, issued, answered, hostMem>>

\* Poll: a DMA read is answered with the units it names, a DMA write is
\* absorbed and acknowledged, a completion ends the request it names.
HostPoll ==
  /\ Running
  /\ Pollable(d2h, hNow)
  /\ LET m == Head(d2h) IN
       /\ hInTs' = m.ts
       /\ hOut' = CASE m.type = "read"  -> <<Tagged("readcomp", hNow, m.id, m)>>
                    [] m.type = "write" -> <<Tagged("writecomp", hNow, m.id, m)>>
                    [] OTHER            -> <<>>
       /\ hostMem' = IF m.type = "write"
                     THEN hostMem \cup {<<m.id, m.offset + i>> :
                                          i \in 0 .. (m.len - 1)}
                     ELSE hostMem
       /\ answered' = IF m.type \in CompTypes THEN answered \cup {m.id}
                                              ELSE answered
  /\ d2h' = Tail(d2h)
  /\ UNCHANGED <<h2d, peerGone, hNow, hNextSync, issued>>

\* PumpUntil and IdleHold move the clock once nothing is due: at most to the
\* next message, or to where the next sync is owed.
HostAdvance ==
  /\ Running
  /\ IsSync
  /\ ~HostSyncOwed
  /\ ~Pollable(d2h, hNow)
  /\ hInTs' = PeekedTs(d2h, hInTs)
  /\ \E t \in (hNow + 1) .. Earlier(Earlier(hInTs', hNextSync), HostHorizon) :
       hNow' = t
  /\ UNCHANGED <<linkVars, hNextSync, hOut, issued, answered, hostMem>>

HostNext ==
  \/ HostSync
  \/ \E t \in Targets : HostIssue(t)
  \/ HostTerminate
  \/ HostSend
  \/ HostPoll
  \/ HostAdvance
=============================================================================
