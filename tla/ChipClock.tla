------------------------------ MODULE ChipClock -----------------------------
(***************************************************************************)
(* What libttsim does with its activity masks: which cores and instruction *)
(* pipes of the Tensix tiles are active, who sets and clears the bits, and *)
(* the sweep over the tiles that clock_current_chip makes on every clock.  *)
(* libttsim is not in the repository; perf/libttsim-idle-fastpath.patch    *)
(* quotes the lines the patch touches, and the rest is as wide as they     *)
(* allow: a core that runs may do anything a core can do to any tile.      *)
(***************************************************************************)
EXTENDS Naturals, FiniteSets

CONSTANTS
  NumTiles,  \* std::size(g_t_tiles)
  Cores,     \* the rv32 cores of a Tensix tile
  Pipes,     \* its instruction pipes
  EthCores,  \* the cores of all ethernet tiles
  FifoSize   \* TENSIX_INST_FIFO_SIZE

ASSUME ChipAssumption ==
  /\ NumTiles \in Nat
  /\ IsFiniteSet(Cores)
  /\ IsFiniteSet(Pipes)
  /\ FifoSize \in Nat \ {0}

VARIABLES
  stage,     \* between clocks, in the sweep, at the ethernet tiles, aborted
  tile,      \* where the sweep is
  cores,     \* rv32_cores_active of each Tensix tile
  pipes,     \* inst_pipes_active of each Tensix tile
  queued,    \* instructions between inst_rd_ptr and inst_wr_ptr
  ethCores   \* g_rv32_cores_active

chipVars == <<stage, tile, cores, pipes, queued, ethCores>>

Tiles == 0 .. (NumTiles - 1)

ChipInit ==
  /\ stage = "between" /\ tile = 0
  /\ cores = [t \in Tiles |-> {}]
  /\ pipes = [t \in Tiles |-> {}]
  /\ queued = [t \in Tiles |-> [p \in Pipes |-> 0]]
  /\ ethCores = {}

IsIdle(t) == cores[t] = {} /\ pipes[t] = {}

\* Something runs that may write to a tile: the host between clocks, a core
\* of the tile the sweep is at, or an ethernet core.
Writing ==
  \/ stage = "between"
  \/ stage = "tiles" /\ cores[tile] # {}
  \/ stage = "eth" /\ ethCores # {}

----------------------------------------------------------------------------
(* The masks *)

\* A mask with a bit set or cleared.
WithBit(mask, bit, active) == IF active THEN mask \cup {bit} ELSE mask \ {bit}

\* ttsim_rv32_set_core_active for a Tensix tile, and for an ethernet tile.
SetTileCore(t, c, active) ==
  /\ Writing
  /\ cores' = [cores EXCEPT ![t] = WithBit(@, c, active)]
  /\ UNCHANGED <<stage, tile, pipes, queued, ethCores>>

SetEthCore(e, active) ==
  /\ Writing
  /\ ethCores' = WithBit(ethCores, e, active)
  /\ UNCHANGED <<stage, tile, cores, pipes, queued>>

\* An instruction is written to the queue of a pipe.  One entry always stays
\* empty: a write that would fill the queue ends the process.
PushInst(t, p) ==
  /\ Writing
  /\ pipes' = [pipes EXCEPT ![t] = @ \cup {p}]
  /\ queued' = [queued EXCEPT ![t][p] = @ + 1]
  /\ stage' = IF queued[t][p] + 1 = FifoSize THEN "aborted" ELSE stage
  /\ UNCHANGED <<tile, cores, ethCores>>

\* Fault: a queue that was drained stays marked.
ExecInstStaysActive(p) ==
  /\ stage = "tiles"
  /\ p \in pipes[tile]
  /\ queued' = [queued EXCEPT ![tile][p] = @ - 1]
  /\ UNCHANGED <<stage, tile, cores, pipes, ethCores>>

\* The sweep executes an instruction of the tile it is at; the last one of
\* the queue clears the bit.
ExecInst(p) ==
  /\ stage = "tiles"
  /\ p \in pipes[tile]
  /\ queued' = [queued EXCEPT ![tile][p] = @ - 1]
  /\ pipes' = IF queued[tile][p] = 1
                THEN [pipes EXCEPT ![tile] = @ \ {p}]
                ELSE pipes
  /\ UNCHANGED <<stage, tile, cores, ethCores>>

----------------------------------------------------------------------------
(* clock_current_chip *)

SweepBegins ==
  /\ stage = "between"
  /\ stage' = IF NumTiles = 0 THEN "eth" ELSE "tiles"
  /\ tile' = 0
  /\ UNCHANGED <<cores, pipes, queued, ethCores>>

\* A tile is left when it executes nothing more in this clock.
NextTile ==
  /\ stage = "tiles"
  /\ IF tile + 1 < NumTiles
       THEN tile' = tile + 1 /\ UNCHANGED stage
       ELSE tile' = 0 /\ stage' = "eth"
  /\ UNCHANGED <<cores, pipes, queued, ethCores>>

\* A sweep over tiles that are all idle does nothing: no step of it but
\* NextTile is enabled, and a whole clock of them is one step here.
IdleSweep ==
  /\ stage = "between"
  /\ \A t \in Tiles : IsIdle(t)
  /\ stage' = "eth"
  /\ UNCHANGED <<tile, cores, pipes, queued, ethCores>>

ClockEnds ==
  /\ stage = "eth"
  /\ stage' = "between"
  /\ UNCHANGED <<tile, cores, pipes, queued, ethCores>>

ChipNext ==
  \/ \E t \in Tiles, c \in Cores, active \in BOOLEAN : SetTileCore(t, c, active)
  \/ \E e \in EthCores, active \in BOOLEAN : SetEthCore(e, active)
  \/ \E t \in Tiles, p \in Pipes : PushInst(t, p)
  \/ \E p \in Pipes : ExecInst(p)
  \/ SweepBegins \/ NextTile \/ IdleSweep \/ ClockEnds

ChipSpec == ChipInit /\ [][ChipNext]_chipVars

----------------------------------------------------------------------------
(* Properties *)

\* A pipe is marked active exactly when it has instructions to execute, so
\* none is forgotten in its queue and none is read from an empty one.
MarkedIffQueued ==
  \A t \in Tiles : pipes[t] = {p \in Pipes : queued[t][p] > 0}
=============================================================================
