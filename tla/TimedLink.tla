------------------------------ MODULE TimedLink -----------------------------
(***************************************************************************)
(* What a synchronized link promises, with no ring, no SYNC and no last    *)
(* timestamp in it: a message arrives when its receiver's clock shows the  *)
(* time it was sent plus the latency, neither later nor earlier, and in    *)
(* the order of sending.  For this a clock only moves forward, stops at    *)
(* what is on the way to its side, and is never more than the latency      *)
(* ahead of the other, which might still send something.                   *)
(***************************************************************************)
EXTENDS Naturals, Sequences

CONSTANT Latency

VARIABLES
  now,     \* the clocks of the two sides
  coming   \* the times at which the messages on the way to a side are due

Sides == {"device", "host"}
Other(s) == IF s = "device" THEN "host" ELSE "device"

timedVars == <<now, coming>>

\* Both sides may have sent a message when the link came up.
TimedInit ==
  /\ now = [s \in Sides |-> 0]
  /\ coming \in [Sides -> {<<>>, <<Latency>>}]

Send(s) ==
  /\ coming' = [coming EXCEPT ![Other(s)] = Append(@, now[s] + Latency)]
  /\ UNCHANGED now

Deliver(s) ==
  /\ coming[s] # <<>>
  /\ Head(coming[s]) = now[s]
  /\ coming' = [coming EXCEPT ![s] = Tail(@)]
  /\ UNCHANGED now

Advance(s) ==
  /\ now' = [now EXCEPT ![s] = now'[s]]
  /\ now'[s] > now[s]
  /\ now'[s] <= now[Other(s)] + Latency
  /\ \A i \in 1 .. Len(coming[s]) : now'[s] <= coming[s][i]
  /\ UNCHANGED coming

TimedNext == \E s \in Sides : Send(s) \/ Deliver(s) \/ Advance(s)

TimedSpec == TimedInit /\ [][TimedNext]_timedVars
=============================================================================
