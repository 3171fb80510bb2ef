--------------------------- MODULE SimbricksPcie ---------------------------
(***************************************************************************)
(* The SimBricks PCIe link as ttsim_bm and its peer use it: one ring per   *)
(* direction in shared memory, whose slots are handed out, sent and        *)
(* consumed in ring order.  The library itself is not in the repository,   *)
(* so this module is what the calls in ttsim_bm.cc and tt_host_probe.cc    *)
(* take for granted:                                                       *)
(*                                                                         *)
(*   OutAlloc  hands out the next slot when the ring has a free one and    *)
(*             stamps it with the sender's time plus the link latency;     *)
(*   OutSend   gives an allocated slot to the consumer;                    *)
(*   OutSync   sends a SYNC when one is owed;                              *)
(*   InPoll    returns the oldest sent message once it is due and, as a    *)
(*             side effect, remembers its timestamp;                       *)
(*   InDone    returns the slot to the producer.                           *)
(***************************************************************************)
EXTENDS Naturals, Sequences

CONSTANTS
  IsSync,        \* is_sync: the link is synchronized
  LinkLatency,   \* link_latency, in ticks of simulated time
  SyncInterval,  \* sync_interval, in ticks of simulated time
  RingSize       \* slots in each ring

ASSUME LinkAssumption ==
  /\ IsSync \in BOOLEAN
  /\ LinkLatency \in Nat \ {0}
  /\ SyncInterval \in Nat \ {0}
  /\ RingSize \in Nat \ {0}

VARIABLES
  h2d,      \* host to device ring: the messages sent and not yet consumed
  d2h,      \* device to host ring: as h2d, and slots allocated and not sent
  peerGone  \* the host has sent TERMINATE and left

linkVars == <<h2d, d2h, peerGone>>

MmioTypes == {"read", "write", "posted"}
CompTypes == {"readcomp", "writecomp"}
H2DTypes == MmioTypes \cup CompTypes \cup {"devctrl", "sync", "terminate"}

\* A D2H slot of type "held" is allocated and not sent.
D2HTypes == {"read", "write", "sync", "held"} \cup CompTypes

Messages(Types) ==
  [type : Types, ts : Nat, id : Nat, bar : Nat, offset : Nat, len : Nat]

\* A message that carries nothing but its type (SYNC, DEVCTRL, TERMINATE).
Plain(type, now) ==
  [type |-> type, ts |-> now + LinkLatency, id |-> 0,
   bar |-> 0, offset |-> 0, len |-> 0]

\* A message about request id, with the fields of a read or a write.
Tagged(type, now, id, at) ==
  [type |-> type, ts |-> now + LinkLatency, id |-> id,
   bar |-> at.bar, offset |-> at.offset, len |-> at.len]

HasRoom(ring) == Len(ring) < RingSize

\* InPoll's test: the oldest message of the ring is there for the consumer.
Visible(ring) == ring # <<>> /\ Head(ring).type # "held"
IsDue(m, now) == IsSync => m.ts <= now
Pollable(ring, now) == Visible(ring) /\ IsDue(Head(ring), now)

\* In_timestamp after a poll that found nothing: that of the message waiting
\* to become due, or what it was.
PeekedTs(ring, last) == IF Visible(ring) THEN Head(ring).ts ELSE last

Earlier(a, b) == IF a <= b THEN a ELSE b
Later(a, b) == IF a <= b THEN b ELSE a
=============================================================================
