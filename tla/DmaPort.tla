------------------------------- MODULE DmaPort ------------------------------
(***************************************************************************)
(* What libttsim may expect of the DMA callbacks, whatever happens on the  *)
(* link: a callback moves its units in order, in pieces no larger than a   *)
(* message takes, and returns when all have been moved.  Between callbacks *)
(* neither the buffer nor the memory of the host is touched.               *)
(***************************************************************************)
EXTENDS Naturals

CONSTANTS
  Sizes,  \* the sizes of the transfers libttsim asks for
  Limit   \* the units one message takes

VARIABLES
  mode,  \* "idle", "moving" while in a callback, "dead" when the process is
  no,    \* the number of the transfer
  kind,  \* its direction: "read" or "write"
  size,  \* its size
  buf,   \* what a read has brought: places in the buffer, with their units
  mem    \* what writes have stored in the host: transfers, with their units

portVars == <<mode, no, kind, size, buf, mem>>

\* The first n units of this transfer have been moved, and no other.
Moved(n) ==
  IF kind = "read"
    THEN buf = {<<i, i>> : i \in 0 .. (n - 1)}
    ELSE {x \in mem : x[1] = no} = {<<no, i>> : i \in 0 .. (n - 1)}

PortInit ==
  /\ mode = "idle" /\ no = 0 /\ kind = "read" /\ size = 0
  /\ buf = {} /\ mem = {}

Start ==
  /\ mode = "idle"
  /\ mode' = "moving"
  /\ no' = no + 1
  /\ kind' \in {"read", "write"}
  /\ size' \in Sizes
  /\ buf' = {}
  /\ UNCHANGED mem

\* A piece arrives.  The one that was on the way when the process ended may
\* still do so.
Move ==
  /\ mode # "idle"
  /\ \E n \in 0 .. size, c \in 1 .. Limit :
       /\ n + c <= size
       /\ Moved(n)
       /\ IF kind = "read"
            THEN /\ buf' = buf \cup {<<n + i, n + i>> : i \in 0 .. (c - 1)}
                 /\ UNCHANGED mem
            ELSE /\ mem' = mem \cup {<<no, n + i>> : i \in 0 .. (c - 1)}
                 /\ UNCHANGED buf
  /\ UNCHANGED <<mode, no, kind, size>>

Return ==
  /\ mode = "moving"
  /\ Moved(size)
  /\ mode' = "idle"
  /\ UNCHANGED <<no, kind, size, buf, mem>>

\* The process may end at any time, also inside a callback.
Die ==
  /\ mode # "dead"
  /\ mode' = "dead"
  /\ UNCHANGED <<no, kind, size, buf, mem>>

PortNext == Start \/ Move \/ Return \/ Die

PortSpec == PortInit /\ [][PortNext]_portVars
=============================================================================
