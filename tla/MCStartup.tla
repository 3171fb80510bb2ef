----------------------------- MODULE MCStartup ------------------------------
(***************************************************************************)
(* Values for the constants of Startup.  The 32-bit word is scaled down to *)
(* 8 values and a microsecond to 10 picoseconds, so that a batch of 8 is   *)
(* cut to 0 and a frequency may be above one clock per picosecond.  The    *)
(* 64-bit word has 131072 values, twice what the larger BAR4 ends at.      *)
(***************************************************************************)
EXTENDS Startup

\* The rows of the chip table, in MiB: Wormhole and Blackhole differ in the
\* size of BAR4.
Geometry(bar4) ==
  [bar \in BarIdx |->
    CASE bar = 0 -> [base |-> 4096,  size |-> 512]
      [] bar = 2 -> [base |-> 4608,  size |-> 1]
      [] bar = 4 -> [base |-> 32768, size |-> bar4]]

MCChips == [device \in {1, 2} |-> Geometry(IF device = 1 THEN 32 ELSE 32768)]

MCIds == [vendor : {0, 7}, device : {1, 2, 3}]

Symbols == Required \cup Optional
MCLibraries ==
  {Symbols, Required, Symbols \ {"clock"}, Symbols \ {"exit"}}

Url(sync, fields) ==
  [given |-> TRUE, listen |-> TRUE, shm |-> TRUE, sync |-> sync,
   latency |-> fields, interval |-> fields]

MCUrls ==
  {[Url(TRUE, <<>>) EXCEPT !.given = FALSE, !.listen = FALSE, !.shm = FALSE],
   [Url(TRUE, <<>>) EXCEPT !.listen = FALSE],
   [Url(TRUE, <<>>) EXCEPT !.shm = FALSE],
   Url(TRUE, <<5>>), Url(FALSE, <<>>),
   [Url(TRUE, <<0>>) EXCEPT !.interval = <<65536>>]}

MCOptions ==
  [malformed : BOOLEAN, lib : BOOLEAN, selftest : BOOLEAN, url : MCUrls,
   freq : {0, 3, 10, 11}, batch : {0, 7, 8, 9}, bar4 : {0, 16, 98304, 131071}]

\* Shorter than the header of 3, as long, and with room for less and for more
\* than the cap.
MCMsgLens == {2, 3, 5, 8}
MCDefaultParams == [latency |-> 500, interval |-> 500]
=============================================================================
