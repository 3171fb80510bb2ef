------------------------------ MODULE MCTtsim -------------------------------
(***************************************************************************)
(* Values for the constants of TtsimSystem.  BARs and accesses are scaled  *)
(* down: what matters is which accesses hit and which miss.                *)
(***************************************************************************)
EXTENDS TtsimSystem

MCGeometry ==
  [bar \in BarIdx |-> CASE bar = 0 -> [base |-> 100, size |-> 16]
                        [] bar = 2 -> [base |-> 200, size |-> 4]
                        [] bar = 4 -> [base |-> 300, size |-> 8]]

\* A read, a write with a completion and a posted write that hit a BAR; a write
\* that is too long; and a read that is, of a BAR the chip does not have.
ReadHit   == [type |-> "read",   bar |-> 0, offset |-> 8, len |-> 4]
WriteHit  == [type |-> "write",  bar |-> 2, offset |-> 0, len |-> 4]
PostedHit == [type |-> "posted", bar |-> 2, offset |-> 0, len |-> 4]
LongWrite == [type |-> "write",  bar |-> 2, offset |-> 0, len |-> 5]
LongMiss  == [type |-> "read",   bar |-> 1, offset |-> 0, len |-> 5]

ProtocolTargets == {ReadHit, WriteHit, PostedHit, LongWrite, LongMiss}
ShortTargets == {WriteHit, PostedHit}
NoTargets == {}
=============================================================================
