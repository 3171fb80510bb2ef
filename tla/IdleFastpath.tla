---------------------------- MODULE IdleFastpath ----------------------------
(***************************************************************************)
(* perf/libttsim-idle-fastpath.patch: two counters per chip that say how   *)
(* many Tensix cores and pipes are active anywhere, kept at the four sites *)
(* that change the masks of ChipClock, so that clock_current_chip need not *)
(* look at the tiles to learn that there is nothing to do.                 *)
(***************************************************************************)
EXTENDS ChipClock

CONSTANT WordSize  \* 2^32: the counters are uint32_t

ASSUME WordAssumption ==
  /\ WordSize \in Nat
  /\ NumTiles * Cardinality(Cores) < WordSize
  /\ NumTiles * Cardinality(Pipes) < WordSize

VARIABLES
  activeRv32,  \* t_active_rv32
  activePipes  \* t_active_pipes

vars == <<chipVars, activeRv32, activePipes>>

Init == ChipInit /\ activeRv32 = 0 /\ activePipes = 0

\* Fault: the core is counted, whatever its bit was before.
SetTileCoreUnconditional(t, c, active) ==
  /\ SetTileCore(t, c, active)
  /\ activeRv32' = IF active THEN activeRv32 + 1 ELSE activeRv32 - 1
  /\ UNCHANGED activePipes

\* The difference of the two popcounts is added, modulo the word.
CountTileCore(t, c, active) ==
  /\ SetTileCore(t, c, active)
  /\ LET diff == Cardinality(cores'[t]) - Cardinality(cores[t])
     IN  activeRv32' = (activeRv32 + diff) % WordSize
  /\ UNCHANGED activePipes

\* Fault: every instruction counts.
CountEveryPush(t, p) ==
  /\ PushInst(t, p)
  /\ activePipes' = (activePipes + 1) % WordSize
  /\ UNCHANGED activeRv32

\* Only the first instruction of a queue makes its pipe active.
CountPush(t, p) ==
  /\ PushInst(t, p)
  /\ activePipes' = IF p \in pipes[t] THEN activePipes
                                      ELSE (activePipes + 1) % WordSize
  /\ UNCHANGED activeRv32

CountExec(p) ==
  /\ ExecInst(p)
  /\ activePipes' = IF queued[tile][p] = 1
                      THEN (activePipes + WordSize - 1) % WordSize
                      ELSE activePipes
  /\ UNCHANGED activeRv32

\* Fault: queued instructions are not looked at.
NoCoreActive == activeRv32 = 0

NothingActive == activeRv32 = 0 /\ activePipes = 0

\* goto eth_tiles
SkipSweep ==
  /\ stage = "between"
  /\ NothingActive
  /\ stage' = "eth"
  /\ UNCHANGED <<tile, cores, pipes, queued, ethCores, activeRv32, activePipes>>

Sweep ==
  \/ ~NothingActive /\ SweepBegins
  \/ NextTile
  \/ ClockEnds

Next ==
  \/ \E t \in Tiles, c \in Cores, active \in BOOLEAN : CountTileCore(t, c, active)
  \/ \E t \in Tiles, p \in Pipes : CountPush(t, p)
  \/ \E p \in Pipes : CountExec(p)
  \/ /\ \/ \E e \in EthCores, active \in BOOLEAN : SetEthCore(e, active)
        \/ Sweep
     /\ UNCHANGED <<activeRv32, activePipes>>
  \/ SkipSweep

Spec == Init /\ [][Next]_vars

----------------------------------------------------------------------------
(* Properties *)

\* Every variable holds a value of its kind: the counters stay in their word.
TypeOK ==
  /\ stage \in {"between", "tiles", "eth", "aborted"}
  /\ tile \in Nat /\ (stage = "tiles" => tile \in Tiles)
  /\ cores \in [Tiles -> SUBSET Cores]
  /\ pipes \in [Tiles -> SUBSET Pipes]
  /\ queued \in [Tiles -> [Pipes -> Nat]]
  /\ ethCores \subseteq EthCores
  /\ activeRv32 \in 0 .. (WordSize - 1)
  /\ activePipes \in 0 .. (WordSize - 1)

CoresOn == {x \in Tiles \X Cores : x[2] \in cores[x[1]]}
PipesOn == {x \in Tiles \X Pipes : x[2] \in pipes[x[1]]}

\* "how many Tensix-tile rv32 cores / tensix inst pipes are active anywhere
\* on this chip": the counters are exact, whatever order cores are started,
\* stopped and started again in, and however often a pipe fills and drains.
CountersExact ==
  /\ activeRv32 = Cardinality(CoresOn)
  /\ activePipes = Cardinality(PipesOn)

\* "That is provably equivalent": what the patched library does to the chip,
\* the unpatched one may do too.  The step to look at is SkipSweep, which is
\* one of ChipClock only when every tile is idle.
ImplementsUpstream == ChipSpec
=============================================================================
