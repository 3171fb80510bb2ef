---------------------------- MODULE PcieEndpoint ----------------------------
(***************************************************************************)
(* What the host may expect of the device, whatever happens on the link    *)
(* and inside libttsim: requests are executed one at a time in the order   *)
(* they were issued, and a read or a non-posted write is completed exactly *)
(* once, after it was executed and before the next one is.                 *)
(***************************************************************************)
EXTENDS Naturals, Sequences

CONSTANT Requests  \* the accesses the host makes: records with a type

VARIABLES
  issued,    \* the requests, in the order of issue
  begun,     \* how many of them the device has begun
  replied    \* the requests a completion was sent for

endpointVars == <<issued, begun, replied>>

\* The requests of the first n that the host waits for.
Awaited(n) == {i \in 1 .. n : issued[i].type # "posted"}

EndpointInit == issued = <<>> /\ begun = 0 /\ replied = {}

Issue ==
  /\ \E req \in Requests : issued' = Append(issued, req)
  /\ UNCHANGED <<begun, replied>>

Begin ==
  /\ begun < Len(issued)
  /\ Awaited(begun) \subseteq replied
  /\ begun' = begun + 1
  /\ UNCHANGED <<issued, replied>>

Reply ==
  /\ begun \in Awaited(begun) \ replied
  /\ replied' = replied \cup {begun}
  /\ UNCHANGED <<issued, begun>>

EndpointNext == Issue \/ Begin \/ Reply

EndpointSpec == EndpointInit /\ [][EndpointNext]_endpointVars
=============================================================================
