------------------------- MODULE IdleFastpathProofs -------------------------
(***************************************************************************)
(* The counters of the idle fast path are exact and the sweep it skips     *)
(* would have done nothing, for any number of tiles, cores, pipes and      *)
(* queue entries whose counters fit in their word.                         *)
(***************************************************************************)
EXTENDS IdleFastpath, Integers, FiniteSetTheorems, TLAPS

\* What is inductive: the types, the queues behind the marks, the counts.
FastpathInv == TypeOK /\ MarkedIffQueued /\ CountersExact

\* The bits that are set in the masks of all tiles, one pair for each.
On(S, masks) == {x \in Tiles \X S : x[2] \in masks[x[1]]}

----------------------------------------------------------------------------
(* Lemmas *)

\* A number below the word is its own remainder, and so is one word more.
LEMMA ModSmall ==
  ASSUME NEW x \in Nat, NEW w \in Nat, x < w
  PROVE  x % w = x /\ (x + w) % w = x
<1>1. /\ x % w \in 0 .. (w - 1) /\ (x + w) % w \in 0 .. (w - 1)
      /\ x \div w \in Int /\ (x + w) \div w \in Int
      /\ x = w * (x \div w) + (x % w)
      /\ x + w = w * ((x + w) \div w) + ((x + w) % w)
  OBVIOUS
<1>2. ASSUME NEW q \in Int, NEW m \in 0 .. (w - 1), NEW y \in 0 .. (w - 1),
             y = w * q + m
      PROVE  m = y
  <2>1. q >= 1 => w * q >= w
    OBVIOUS
  <2>2. q <= -1 => w * q <= -w
    OBVIOUS
  <2>3. q = 0
    BY <1>2, <2>1, <2>2
  <2> QED
    BY <1>2, <2>3
<1>3. x = w * ((x + w) \div w - 1) + ((x + w) % w)
  BY <1>1
<1>4. (x + w) \div w - 1 \in Int
  BY <1>1
<1> QED
  BY <1>1, <1>2, <1>3, <1>4

\* There are finitely many bits, at most one per tile and core or pipe.
LEMMA OnFinite ==
  ASSUME NEW S, IsFiniteSet(S), NEW masks
  PROVE  /\ IsFiniteSet(On(S, masks))
         /\ Cardinality(On(S, masks)) \in Nat
         /\ Cardinality(On(S, masks)) <= NumTiles * Cardinality(S)
<1>1. IsFiniteSet(Tiles) /\ Cardinality(Tiles) = NumTiles
  <2>1. NumTiles \in Nat
    BY ChipAssumption
  <2> QED
    BY <2>1, FS_Interval DEF Tiles
<1>2. /\ IsFiniteSet(Tiles \X S)
      /\ Cardinality(Tiles \X S) = NumTiles * Cardinality(S)
  BY <1>1, FS_Product
<1>3. On(S, masks) \in SUBSET (Tiles \X S)
  BY DEF On
<1> QED
  BY <1>2, <1>3, FS_Subset, FS_CardinalityType

\* Setting a bit that was clear adds one to the count.
LEMMA BitSet ==
  ASSUME NEW S, IsFiniteSet(S), NEW masks \in [Tiles -> SUBSET S],
         NEW t \in Tiles, NEW s \in S, NEW new,
         new[t] = masks[t] \cup {s}, \A u \in Tiles \ {t} : new[u] = masks[u]
  PROVE  /\ s \in masks[t] => Cardinality(On(S, new)) = Cardinality(On(S, masks))
         /\ s \notin masks[t] =>
              Cardinality(On(S, new)) = Cardinality(On(S, masks)) + 1
<1>1. IsFiniteSet(On(S, masks))
  BY OnFinite
<1>2. On(S, new) = On(S, masks) \cup {<<t, s>>}
  BY DEF On
<1>3. s \in masks[t] <=> <<t, s>> \in On(S, masks)
  BY DEF On
<1>4. /\ <<t, s>> \in On(S, masks) =>
           Cardinality(On(S, new)) = Cardinality(On(S, masks))
      /\ <<t, s>> \notin On(S, masks) =>
           Cardinality(On(S, new)) = Cardinality(On(S, masks)) + 1
  BY <1>1, <1>2, FS_AddElement
<1> QED
  BY <1>3, <1>4

\* A bit that is set is counted.
LEMMA BitCounted ==
  ASSUME NEW S, IsFiniteSet(S), NEW masks \in [Tiles -> SUBSET S],
         NEW t \in Tiles, NEW s \in masks[t]
  PROVE  Cardinality(On(S, masks)) > 0
<1>1. IsFiniteSet(On(S, masks)) /\ Cardinality(On(S, masks)) \in Nat
  BY OnFinite
<1>2. <<t, s>> \in On(S, masks)
  BY DEF On
<1> QED
  BY <1>1, <1>2, FS_EmptySet

\* Clearing one that was set takes one away.
LEMMA BitCleared ==
  ASSUME NEW S, IsFiniteSet(S), NEW masks \in [Tiles -> SUBSET S],
         NEW t \in Tiles, NEW s \in S, NEW new,
         new[t] = masks[t] \ {s}, \A u \in Tiles \ {t} : new[u] = masks[u]
  PROVE  /\ s \in masks[t] =>
              Cardinality(On(S, new)) = Cardinality(On(S, masks)) - 1
         /\ s \notin masks[t] =>
              Cardinality(On(S, new)) = Cardinality(On(S, masks))
<1>1. IsFiniteSet(On(S, masks))
  BY OnFinite
<1>2. On(S, new) = On(S, masks) \ {<<t, s>>}
  BY DEF On
<1>3. s \in masks[t] <=> <<t, s>> \in On(S, masks)
  BY DEF On
<1>4. /\ <<t, s>> \in On(S, masks) =>
           Cardinality(On(S, new)) = Cardinality(On(S, masks)) - 1
      /\ <<t, s>> \notin On(S, masks) =>
           Cardinality(On(S, new)) = Cardinality(On(S, masks))
  BY <1>1, <1>2, FS_RemoveElement
<1> QED
  BY <1>3, <1>4

----------------------------------------------------------------------------
(* The counters, one action after the other *)

\* The counts are in the notation of the lemmas, and fit in their word.
LEMMA Counts ==
  /\ CoresOn = On(Cores, cores) /\ PipesOn = On(Pipes, pipes)
  /\ CountersExact => /\ activeRv32 \in Nat /\ activeRv32 < WordSize
                      /\ activePipes \in Nat /\ activePipes < WordSize
  /\ Cardinality(On(Cores, cores')) < WordSize
  /\ Cardinality(On(Pipes, pipes')) < WordSize
<1>1. CoresOn = On(Cores, cores) /\ PipesOn = On(Pipes, pipes)
  BY DEF CoresOn, PipesOn, On
<1>2. ASSUME NEW masks
      PROVE  /\ Cardinality(On(Cores, masks)) \in Nat
             /\ Cardinality(On(Cores, masks)) < WordSize
             /\ Cardinality(On(Pipes, masks)) \in Nat
             /\ Cardinality(On(Pipes, masks)) < WordSize
  <2>1. /\ Cardinality(On(Cores, masks)) \in Nat
        /\ Cardinality(On(Cores, masks)) <= NumTiles * Cardinality(Cores)
        /\ Cardinality(On(Pipes, masks)) \in Nat
        /\ Cardinality(On(Pipes, masks)) <= NumTiles * Cardinality(Pipes)
    BY OnFinite, ChipAssumption
  <2>2. /\ NumTiles * Cardinality(Cores) \in Nat
        /\ NumTiles * Cardinality(Pipes) \in Nat
    BY ChipAssumption, FS_CardinalityType
  <2> QED
    BY <2>1, <2>2, WordAssumption
<1> QED
  BY <1>1, <1>2 DEF CountersExact

\* A core that is started or stopped.
LEMMA CountTileCoreStep ==
  ASSUME FastpathInv, NEW t \in Tiles, NEW c \in Cores, NEW active \in BOOLEAN,
         CountTileCore(t, c, active)
  PROVE  FastpathInv'
<1>1. WordSize \in Nat /\ IsFiniteSet(Cores)
  BY WordAssumption, ChipAssumption
<1>2. cores \in [Tiles -> SUBSET Cores]
  BY DEF FastpathInv, TypeOK
<1>3. /\ cores' \in [Tiles -> SUBSET Cores]
      /\ \A u \in Tiles \ {t} : cores'[u] = cores[u]
      /\ cores'[t] = IF active THEN cores[t] \cup {c} ELSE cores[t] \ {c}
  BY <1>2 DEF CountTileCore, SetTileCore, WithBit
<1>4. /\ activeRv32 = Cardinality(On(Cores, cores))
      /\ activeRv32 \in Nat
      /\ Cardinality(On(Cores, cores')) < WordSize
  BY Counts DEF FastpathInv, CountersExact
<1>5. Cardinality(cores[t]) \in Nat /\ IsFiniteSet(cores[t])
  BY <1>1, <1>2, FS_Subset, FS_CardinalityType
<1>6. activeRv32' =
        (activeRv32 + (Cardinality(cores'[t]) - Cardinality(cores[t]))) % WordSize
  BY DEF CountTileCore
<1>7. /\ activeRv32 + (Cardinality(cores'[t]) - Cardinality(cores[t]))
           = Cardinality(On(Cores, cores'))
      /\ Cardinality(On(Cores, cores')) \in Nat
  <2>1. CASE active
    <3>1. cores'[t] = cores[t] \cup {c}
      BY <1>3, <2>1
    <3>2. /\ c \in cores[t] => Cardinality(cores'[t]) = Cardinality(cores[t])
          /\ c \notin cores[t] => Cardinality(cores'[t]) = Cardinality(cores[t]) + 1
      BY <1>5, <3>1, FS_AddElement
    <3>3. /\ c \in cores[t] => Cardinality(On(Cores, cores'))
                                 = Cardinality(On(Cores, cores))
          /\ c \notin cores[t] => Cardinality(On(Cores, cores'))
                                    = Cardinality(On(Cores, cores)) + 1
      BY <1>1, <1>2, <1>3, <3>1, BitSet
    <3> QED
      BY <1>4, <1>5, <3>2, <3>3
  <2>2. CASE ~active
    <3>1. cores'[t] = cores[t] \ {c}
      BY <1>3, <2>2
    <3>2. /\ c \in cores[t] => Cardinality(cores'[t]) = Cardinality(cores[t]) - 1
          /\ c \notin cores[t] => Cardinality(cores'[t]) = Cardinality(cores[t])
      BY <1>5, <3>1, FS_RemoveElement
    <3>3. /\ c \in cores[t] => Cardinality(On(Cores, cores'))
                                 = Cardinality(On(Cores, cores)) - 1
          /\ c \notin cores[t] => Cardinality(On(Cores, cores'))
                                    = Cardinality(On(Cores, cores))
      BY <1>1, <1>2, <1>3, <3>1, BitCleared
    <3>4. c \in cores[t] => Cardinality(On(Cores, cores)) > 0
      BY <1>1, <1>2, BitCounted
    <3> QED
      BY <1>4, <1>5, <3>2, <3>3, <3>4
  <2> QED
    BY <2>1, <2>2
<1>8. activeRv32' = Cardinality(On(Cores, cores')) /\ activeRv32' \in 0 .. (WordSize - 1)
  BY <1>1, <1>4, <1>6, <1>7, ModSmall
<1>9. CountersExact'
  BY <1>8, Counts DEF FastpathInv, CountersExact, CoresOn, PipesOn, On,
                      CountTileCore, SetTileCore
<1>10. TypeOK'
  BY <1>3, <1>8 DEF FastpathInv, TypeOK, CountTileCore, SetTileCore
<1>11. MarkedIffQueued'
  BY DEF FastpathInv, MarkedIffQueued, CountTileCore, SetTileCore
<1> QED
  BY <1>9, <1>10, <1>11 DEF FastpathInv

\* An instruction is queued.
LEMMA CountPushStep ==
  ASSUME FastpathInv, NEW t \in Tiles, NEW p \in Pipes, CountPush(t, p)
  PROVE  FastpathInv'
<1>1. WordSize \in Nat /\ IsFiniteSet(Pipes)
  BY WordAssumption, ChipAssumption
<1>2. pipes \in [Tiles -> SUBSET Pipes] /\ queued \in [Tiles -> [Pipes -> Nat]]
  BY DEF FastpathInv, TypeOK
<1>3. /\ pipes' \in [Tiles -> SUBSET Pipes]
      /\ pipes'[t] = pipes[t] \cup {p}
      /\ \A u \in Tiles \ {t} : pipes'[u] = pipes[u]
  BY <1>2 DEF CountPush, PushInst
<1>4. /\ queued' \in [Tiles -> [Pipes -> Nat]]
      /\ queued'[t][p] = queued[t][p] + 1
      /\ \A u \in Tiles, x \in Pipes :
           u # t \/ x # p => queued'[u][x] = queued[u][x]
  BY <1>2 DEF CountPush, PushInst
<1>5. /\ activePipes = Cardinality(On(Pipes, pipes))
      /\ activePipes \in Nat
      /\ Cardinality(On(Pipes, pipes')) < WordSize
  BY Counts DEF FastpathInv, CountersExact
<1>6. /\ p \in pipes[t] => Cardinality(On(Pipes, pipes'))
                             = Cardinality(On(Pipes, pipes))
      /\ p \notin pipes[t] => Cardinality(On(Pipes, pipes'))
                                = Cardinality(On(Pipes, pipes)) + 1
  BY <1>1, <1>2, <1>3, BitSet
<1>7. /\ activePipes' = Cardinality(On(Pipes, pipes'))
      /\ activePipes' \in 0 .. (WordSize - 1)
  <2>1. CASE p \in pipes[t]
    BY <1>1, <1>5, <1>6, <2>1 DEF CountPush
  <2>2. CASE p \notin pipes[t]
    <3>1. activePipes' = (activePipes + 1) % WordSize
      BY <2>2 DEF CountPush
    <3>2. activePipes + 1 \in Nat /\ activePipes + 1 < WordSize
      BY <1>5, <1>6, <2>2
    <3>3. activePipes' = activePipes + 1
      BY <1>1, <3>1, <3>2, ModSmall
    <3> QED
      BY <1>1, <1>5, <1>6, <2>2, <3>2, <3>3
  <2> QED
    BY <2>1, <2>2
<1>8. CountersExact'
  BY <1>7, Counts DEF FastpathInv, CountersExact, CoresOn, PipesOn, On,
                      CountPush, PushInst
<1>9. TypeOK'
  <2>1. stage' \in {"between", "tiles", "eth", "aborted"}
    BY DEF FastpathInv, TypeOK, CountPush, PushInst
  <2>2. stage' = "tiles" => stage = "tiles"
    BY DEF CountPush, PushInst
  <2> QED
    BY <1>3, <1>4, <1>7, <2>1, <2>2 DEF FastpathInv, TypeOK, CountPush, PushInst
<1>10. MarkedIffQueued'
  <2>1. ASSUME NEW u \in Tiles
        PROVE  pipes'[u] = {x \in Pipes : queued'[u][x] > 0}
    <3>1. pipes[u] = {x \in Pipes : queued[u][x] > 0}
      BY DEF FastpathInv, MarkedIffQueued
    <3>2. CASE u = t
      <4>1. queued'[u][p] > 0
        BY <1>2, <1>4, <3>2
      <4> QED
        BY <1>3, <1>4, <3>1, <3>2, <4>1
    <3>3. CASE u # t
      BY <1>3, <1>4, <3>1, <3>3
    <3> QED
      BY <3>2, <3>3
  <2> QED
    BY <2>1 DEF MarkedIffQueued
<1> QED
  BY <1>8, <1>9, <1>10 DEF FastpathInv

\* An instruction is executed.
LEMMA CountExecStep ==
  ASSUME FastpathInv, NEW p \in Pipes, CountExec(p)
  PROVE  FastpathInv'
<1>1. WordSize \in Nat /\ IsFiniteSet(Pipes)
  BY WordAssumption, ChipAssumption
<1>2. /\ tile \in Tiles
      /\ pipes \in [Tiles -> SUBSET Pipes] /\ queued \in [Tiles -> [Pipes -> Nat]]
  BY DEF FastpathInv, TypeOK, CountExec, ExecInst
<1>3. p \in pipes[tile] /\ queued[tile][p] \in Nat /\ queued[tile][p] > 0
  BY <1>2 DEF FastpathInv, MarkedIffQueued, CountExec, ExecInst
<1>4. /\ queued' \in [Tiles -> [Pipes -> Nat]]
      /\ queued'[tile][p] = queued[tile][p] - 1
      /\ \A u \in Tiles, x \in Pipes :
           u # tile \/ x # p => queued'[u][x] = queued[u][x]
  <2>1. queued[tile][p] - 1 \in Nat
    BY <1>3
  <2> QED
    BY <1>2, <2>1 DEF CountExec, ExecInst
<1>5. /\ activePipes = Cardinality(On(Pipes, pipes))
      /\ activePipes \in Nat /\ activePipes < WordSize
  BY Counts DEF FastpathInv, CountersExact
<1>6. /\ pipes' \in [Tiles -> SUBSET Pipes]
      /\ \A u \in Tiles \ {tile} : pipes'[u] = pipes[u]
      /\ pipes'[tile] = IF queued[tile][p] = 1 THEN pipes[tile] \ {p} ELSE pipes[tile]
  BY <1>2 DEF CountExec, ExecInst
<1>7. /\ activePipes' = Cardinality(On(Pipes, pipes'))
      /\ activePipes' \in 0 .. (WordSize - 1)
  <2>1. CASE queued[tile][p] = 1
    <3>1. pipes'[tile] = pipes[tile] \ {p}
      BY <1>6, <2>1
    <3>2. Cardinality(On(Pipes, pipes')) = Cardinality(On(Pipes, pipes)) - 1
      BY <1>1, <1>2, <1>3, <1>6, <3>1, BitCleared
    <3>3. activePipes > 0
      BY <1>1, <1>2, <1>3, <1>5, BitCounted
    <3>4. /\ activePipes - 1 \in Nat /\ activePipes - 1 < WordSize
          /\ (activePipes + WordSize) - 1 = (activePipes - 1) + WordSize
      BY <1>1, <1>5, <3>3
    <3>5. activePipes' = ((activePipes + WordSize) - 1) % WordSize
      BY <1>1, <1>5, <2>1 DEF CountExec
    <3>6. activePipes' = activePipes - 1
      BY <1>1, <3>4, <3>5, ModSmall
    <3> QED
      BY <1>1, <1>5, <3>2, <3>4, <3>6
  <2>2. CASE queued[tile][p] # 1
    BY <1>1, <1>5, <2>2 DEF CountExec, ExecInst
  <2> QED
    BY <2>1, <2>2
<1>8. CountersExact'
  BY <1>7, Counts DEF FastpathInv, CountersExact, CoresOn, PipesOn, On,
                      CountExec, ExecInst
<1>9. TypeOK'
  BY <1>4, <1>6, <1>7 DEF FastpathInv, TypeOK, CountExec, ExecInst
<1>10. MarkedIffQueued'
  <2>1. ASSUME NEW u \in Tiles
        PROVE  pipes'[u] = {x \in Pipes : queued'[u][x] > 0}
    <3>1. pipes[u] = {x \in Pipes : queued[u][x] > 0}
      BY DEF FastpathInv, MarkedIffQueued
    <3>2. CASE u = tile
      <4>1. queued'[u][p] > 0 <=> queued[tile][p] # 1
        BY <1>3, <1>4, <3>2
      <4> QED
        BY <1>3, <1>4, <1>6, <3>1, <3>2, <4>1
    <3>3. CASE u # tile
      BY <1>4, <1>6, <3>1, <3>3
    <3> QED
      BY <3>2, <3>3
  <2> QED
    BY <2>1 DEF MarkedIffQueued
<1> QED
  BY <1>8, <1>9, <1>10 DEF FastpathInv

\* The steps that leave masks, queues and counters alone.
LEMMA SweepStep ==
  ASSUME FastpathInv,
         UNCHANGED <<cores, pipes, queued, activeRv32, activePipes>>,
         (SweepBegins \/ NextTile \/ ClockEnds \/ SkipSweep
            \/ \E e \in EthCores, active \in BOOLEAN : SetEthCore(e, active))
           \/ UNCHANGED vars
  PROVE  FastpathInv'
<1>1. MarkedIffQueued' /\ CountersExact'
  BY DEF FastpathInv, MarkedIffQueued, CountersExact, CoresOn, PipesOn
<1>2. /\ stage' \in {"between", "tiles", "eth", "aborted"}
      /\ tile' \in Nat /\ (stage' = "tiles" => tile' \in Tiles)
      /\ ethCores' \subseteq EthCores
  BY ChipAssumption
     DEF FastpathInv, TypeOK, SweepBegins, NextTile, ClockEnds, SkipSweep,
         SetEthCore, WithBit, vars, chipVars, Tiles
<1>3. TypeOK'
  BY <1>2 DEF FastpathInv, TypeOK
<1> QED
  BY <1>1, <1>3 DEF FastpathInv

----------------------------------------------------------------------------
(* The invariant and the refinement *)

\* The initial states satisfy the invariant.
LEMMA FastpathInit == Init => FastpathInv
<1> SUFFICES ASSUME Init PROVE FastpathInv
  OBVIOUS
<1>1. WordSize \in Nat \ {0}
  <2>1. NumTiles * Cardinality(Cores) \in Nat
    BY ChipAssumption, FS_CardinalityType
  <2> QED
    BY <2>1, WordAssumption
<1>2. TypeOK
  BY <1>1 DEF Init, ChipInit, TypeOK
<1>3. MarkedIffQueued
  BY DEF Init, ChipInit, MarkedIffQueued
<1>4. CoresOn = {} /\ PipesOn = {}
  BY DEF Init, ChipInit, CoresOn, PipesOn
<1>5. CountersExact
  BY <1>4, FS_EmptySet DEF Init, CountersExact
<1> QED
  BY <1>2, <1>3, <1>5 DEF FastpathInv

\* Every step keeps the invariant.
LEMMA FastpathNext == FastpathInv /\ [Next]_vars => FastpathInv'
<1> SUFFICES ASSUME FastpathInv, [Next]_vars PROVE FastpathInv'
  OBVIOUS
<1>1. ASSUME NEW t \in Tiles, NEW c \in Cores, NEW active \in BOOLEAN,
             CountTileCore(t, c, active)
      PROVE  FastpathInv'
  BY <1>1, CountTileCoreStep
<1>2. ASSUME NEW t \in Tiles, NEW p \in Pipes, CountPush(t, p)
      PROVE  FastpathInv'
  BY <1>2, CountPushStep
<1>3. ASSUME NEW p \in Pipes, CountExec(p)
      PROVE  FastpathInv'
  BY <1>3, CountExecStep
<1>4. ASSUME \/ \E e \in EthCores, active \in BOOLEAN : SetEthCore(e, active)
             \/ Sweep,
             UNCHANGED <<activeRv32, activePipes>>
      PROVE  FastpathInv'
  <2>1. UNCHANGED <<cores, pipes, queued>>
    BY <1>4 DEF Sweep, SweepBegins, NextTile, ClockEnds, SetEthCore
  <2> QED
    BY <1>4, <2>1, SweepStep DEF Sweep
<1>5. CASE SkipSweep
  BY <1>5, SweepStep DEF SkipSweep
<1>6. CASE UNCHANGED vars
  BY <1>6, SweepStep DEF vars, chipVars
<1> QED
  BY <1>1, <1>2, <1>3, <1>4, <1>5, <1>6 DEF Next

\* The invariant holds in every reachable state.
LEMMA FastpathAlways == Spec => []FastpathInv
<1> QED
  BY FastpathInit, FastpathNext, PTL DEF Spec

\* The counters stay in their words, the masks and queues in their bounds.
THEOREM FastpathTypes == Spec => []TypeOK
<1>1. FastpathInv => TypeOK
  BY DEF FastpathInv
<1> QED
  BY <1>1, FastpathAlways, PTL

\* No pipe with instructions is forgotten, and none without is read.
THEOREM PipesMarked == Spec => []MarkedIffQueued
<1>1. FastpathInv => MarkedIffQueued
  BY DEF FastpathInv
<1> QED
  BY <1>1, FastpathAlways, PTL

\* The two counters are the numbers of active cores and pipes.
THEOREM CountersRight == Spec => []CountersExact
<1>1. FastpathInv => CountersExact
  BY DEF FastpathInv
<1> QED
  BY <1>1, FastpathAlways, PTL

\* With both counters at zero every tile is idle.
LEMMA NothingActiveMeansIdle ==
  FastpathInv /\ NothingActive => \A t \in Tiles : IsIdle(t)
<1> SUFFICES ASSUME FastpathInv, NothingActive, NEW t \in Tiles
             PROVE  IsIdle(t)
  OBVIOUS
<1>1. cores[t] \subseteq Cores /\ pipes[t] \subseteq Pipes
  BY DEF FastpathInv, TypeOK
<1>2. CoresOn = {} /\ PipesOn = {}
  <2>1. IsFiniteSet(CoresOn) /\ IsFiniteSet(PipesOn)
    BY Counts, OnFinite, ChipAssumption
  <2>2. Cardinality(CoresOn) = 0 /\ Cardinality(PipesOn) = 0
    BY DEF FastpathInv, CountersExact, NothingActive
  <2> QED
    BY <2>1, <2>2, FS_EmptySet
<1>3. ASSUME NEW c \in cores[t] PROVE FALSE
  <2>1. <<t, c>> \in CoresOn
    BY <1>1, <1>3 DEF CoresOn
  <2> QED
    BY <1>2, <2>1
<1>4. ASSUME NEW p \in pipes[t] PROVE FALSE
  <2>1. <<t, p>> \in PipesOn
    BY <1>1, <1>4 DEF PipesOn
  <2> QED
    BY <1>2, <2>1
<1> QED
  BY <1>3, <1>4 DEF IsIdle

\* The patched library does nothing to the chip that the unpatched one could
\* not do: a skipped sweep is one that finds every tile idle.
THEOREM FastpathRefines == Spec => ImplementsUpstream
<1>1. Init => ChipInit
  BY DEF Init
<1>2. FastpathInv /\ [Next]_vars => [ChipNext]_chipVars
  <2> SUFFICES ASSUME FastpathInv, [Next]_vars PROVE [ChipNext]_chipVars
    OBVIOUS
  <2>1. CASE SkipSweep
    BY <2>1, NothingActiveMeansIdle DEF SkipSweep, ChipNext, IdleSweep
  <2>2. CASE Next /\ ~SkipSweep
    BY <2>2 DEF Next, Sweep, ChipNext, CountTileCore, CountPush, CountExec
  <2>3. CASE UNCHANGED vars
    BY <2>3 DEF vars
  <2> QED
    BY <2>1, <2>2, <2>3
<1> QED
  BY <1>1, <1>2, FastpathAlways, PTL DEF Spec, ChipSpec, ImplementsUpstream
=============================================================================
