-------------------------- MODULE WaitClockProofs ---------------------------
(***************************************************************************)
(* The wait statistics, for every interval, every rate of reports and      *)
(* every run of the wall clock.                                            *)
(***************************************************************************)
EXTENDS WaitClock, TLAPS

\* Where a reader would find a wait half recorded.
Between == {"began", "ending", "adding"}

\* Outside the two windows the counters are the truth; inside them, what is
\* still to be stored makes up for it.
WaitInv ==
  /\ began <= now
  /\ pc = "began" => waiting /\ ~marked /\ stores = {} /\ total = idle
  /\ pc \in {"ending", "adding"} =>
       /\ ~marked
       /\ stores # {}
       /\ waiting <=> "waiting" \in stores
       /\ idle = total + (IF "total" \in stores THEN span ELSE 0)
  /\ pc \notin Between => /\ stores = {}
                          /\ marked <=> waiting
                          /\ Waited = idle
  /\ pc \in {"clock", "done"} => ~waiting

\* Since the last line, idle time has grown no faster than time.
LineInv ==
  /\ now > 0
  /\ lines > 0 => lastT > 0 /\ idle - lastWait <= now - lastT
  /\ LaterLinesFit

\* The initial states satisfy all parts of the invariant.
LEMMA WaitInit == Init => TypeOK /\ WaitInv /\ LineInv
<1> SUFFICES ASSUME Init PROVE TypeOK /\ WaitInv /\ LineInv
  OBVIOUS
<1> USE WaitAssumption DEF Init
<1>1. FlagsOK
  BY Zenon DEF FlagsOK
<1>2. TypeOK
  BY <1>1 DEF TypeOK
<1>3. WaitInv
  BY DEF WaitInv, Between, Waited
<1>4. LineInv
  BY DEF LineInv, LaterLinesFit
<1> QED
  BY <1>2, <1>3, <1>4

\* Every step keeps the types of the flags.
LEMMA WaitFlags == FlagsOK /\ [Next]_vars => FlagsOK'
<1> SUFFICES ASSUME FlagsOK, [Next]_vars PROVE FlagsOK'
  OBVIOUS
<1> USE DEF FlagsOK, statVars, reportVars, truthVars
<1>1. CASE RunClocks
  BY <1>1, Zenon
     DEF RunClocks, DeadlinePassed, SetBegan, LessThanAStep, EndWait, Store,
         LibClock
<1>2. CASE MainEnds
  BY <1>2, Zenon DEF MainEnds, EndWait, Store
<1>3. CASE LoopTail \/ DumpProfile \/ WallClock \/ UNCHANGED vars
  BY <1>3, Zenon DEF LoopTail, DumpProfile, WallClock, vars
<1> QED
  BY <1>1, <1>2, <1>3 DEF Next

\* Every step keeps the types.
LEMMA WaitType == TypeOK /\ WaitInv /\ [Next]_vars => TypeOK'
<1> SUFFICES ASSUME TypeOK, WaitInv, [Next]_vars PROVE TypeOK'
  OBVIOUS
<1>0. FlagsOK'
  BY WaitFlags DEF TypeOK
<1> USE <1>0 DEF TypeOK, statVars, reportVars, truthVars
<1>1. CASE DeadlinePassed \/ SetBegan \/ LessThanAStep \/ LibClock
  BY <1>1 DEF DeadlinePassed, SetBegan, LessThanAStep, LibClock
<1>2. ASSUME NEW from, NEW between \in {"ending", "adding"},
             NEW next \in {"clock", "done"}, EndWait(from, between, next)
      PROVE  TypeOK'
  <2>1. CASE waiting
    BY <1>2, <2>1 DEF EndWait, WaitInv
  <2>2. CASE ~waiting
    BY <1>2, <2>2 DEF EndWait
  <2> QED
    BY <2>1, <2>2
<1>3. ASSUME NEW from \in {"ending", "adding"}, NEW next \in {"clock", "done"},
             Store(from, next)
      PROVE  TypeOK'
  BY <1>3 DEF Store
<1>4. CASE LoopTail
  <2>1. tick' \in 0 .. (ReportEvery - 1)
    BY <1>4, WaitAssumption DEF LoopTail
  <2>2. /\ lastT' \in Nat /\ lines' \in 0 .. 2 /\ line' \in [dt : Int, wait : Int]
        /\ lastWait' \in Nat
    <3>1. Waited \in Nat
      BY DEF Waited, WaitInv
    <3> QED
      BY <1>4, <3>1 DEF LoopTail, ReportProgress, PrintLine
  <2>3. /\ now' = now /\ began' = began /\ total' = total /\ span' = span
        /\ idle' = idle /\ stores' = stores /\ pc' \in {"body", "end"}
    BY <1>4 DEF LoopTail
  <2> QED
    BY <2>1, <2>2, <2>3
<1>5. CASE WallClock
  BY <1>5 DEF WallClock
<1>6. CASE DumpProfile
  BY <1>6 DEF DumpProfile
<1>7. CASE UNCHANGED vars
  BY <1>7 DEF vars
<1> QED
  BY <1>1, <1>2, <1>3, <1>4, <1>5, <1>6, <1>7 DEF Next, RunClocks, MainEnds

\* Every step keeps what relates the stores to each other.
LEMMA WaitStep == TypeOK /\ WaitInv /\ [Next]_vars => WaitInv'
<1> SUFFICES ASSUME TypeOK, WaitInv, [Next]_vars PROVE WaitInv'
  OBVIOUS
<1> USE DEF TypeOK, WaitInv, Between, Waited, statVars, reportVars, truthVars
<1>0. CASE DeadlinePassed
  <2>1. CASE waiting
    BY <1>0, <2>1 DEF DeadlinePassed
  <2>2. CASE ~waiting
    BY <1>0, <2>2 DEF DeadlinePassed
  <2> QED
    BY <2>1, <2>2
<1>1. CASE LessThanAStep
  BY <1>1 DEF LessThanAStep
<1>9. CASE LibClock
  BY <1>9 DEF LibClock
<1>2. CASE SetBegan
  BY <1>2 DEF SetBegan
<1>3. ASSUME \/ EndWait("body", "ending", "clock")
             \/ EndWait("end", "adding", "done")
      PROVE  WaitInv'
  <2>1. CASE waiting
    BY <1>3, <2>1 DEF EndWait
  <2>2. CASE ~waiting
    <3>1. /\ pc \in {"body", "end"} /\ pc' \in {"clock", "done"}
          /\ now' = now /\ began' = began /\ total' = total
          /\ stores' = stores /\ idle' = idle
      BY <1>3, <2>2 DEF EndWait
    <3>2. ~waiting' /\ ~marked'
      <4>1. ~marked /\ marked' = marked /\ waiting' = waiting
        BY <1>3, <2>2, <3>1 DEF EndWait
      <4> QED
        BY <4>1, <2>2, Zenon
    <3> QED
      BY <2>2, <3>1, <3>2
  <2> QED
    BY <2>1, <2>2
<1>4. ASSUME Store("ending", "clock") \/ Store("adding", "done")
      PROVE  WaitInv'
  <2>1. PICK s \in stores :
          /\ stores' = stores \ {s}
          /\ total' = total + (IF s = "total" THEN span ELSE 0)
          /\ waiting' = (waiting /\ s # "waiting")
          /\ pc' \in IF stores = {s} THEN {"clock", "done"} ELSE {"ending", "adding"}
    BY <1>4 DEF Store
  <2>2. /\ now' = now /\ began' = began /\ span' = span
        /\ marked' = marked /\ idle' = idle /\ pc \in {"ending", "adding"}
    BY <1>4 DEF Store
  <2>3. waiting' <=> "waiting" \in stores'
    BY <2>1, <2>2
  <2>4. idle' = total' + (IF "total" \in stores' THEN span' ELSE 0)
    BY <2>1, <2>2
  <2> QED
    BY <2>1, <2>2, <2>3, <2>4
<1>5. CASE LoopTail
  BY <1>5 DEF LoopTail
<1>6. CASE WallClock
  BY <1>6 DEF WallClock
<1>7. CASE DumpProfile
  BY <1>7 DEF DumpProfile
<1>8. CASE UNCHANGED vars
  BY <1>8 DEF vars
<1> QED
  BY <1>0, <1>1, <1>2, <1>3, <1>4, <1>5, <1>6, <1>7, <1>8, <1>9
     DEF Next, RunClocks, MainEnds

\* Every step keeps what relates a line to the clock.
LEMMA LineStep == TypeOK /\ WaitInv /\ LineInv /\ [Next]_vars => LineInv'
<1> SUFFICES ASSUME TypeOK, WaitInv, LineInv, [Next]_vars PROVE LineInv'
  OBVIOUS
<1> USE DEF TypeOK, LineInv, LaterLinesFit, statVars, reportVars, truthVars
<1>1. CASE LoopTail
  <2>1. Waited = idle /\ now' = now /\ idle' = idle
    BY <1>1 DEF LoopTail, WaitInv, Between
  <2>2. CASE UNCHANGED <<lastT, lastWait, lines, line>>
    BY <2>1, <2>2
  <2>3. CASE lastT = 0 /\ lastT' = now /\ UNCHANGED <<lastWait, lines, line>>
    BY <2>1, <2>3
  <2>4. CASE PrintLine
    BY <2>1, <2>4 DEF PrintLine
  <2> QED
    BY <1>1, <2>2, <2>3, <2>4 DEF LoopTail, ReportProgress
<1>2. CASE WallClock
  BY <1>2 DEF WallClock
<1>3. ASSUME UNCHANGED <<now, idle, lastT, lastWait, lines, line>>
      PROVE  LineInv'
  BY <1>3
<1>4. CASE RunClocks \/ MainEnds
  BY <1>3, <1>4
     DEF RunClocks, MainEnds, DeadlinePassed, SetBegan, LessThanAStep, EndWait,
         Store, LibClock
<1>5. CASE DumpProfile \/ UNCHANGED vars
  BY <1>3, <1>5 DEF DumpProfile, vars
<1> QED
  BY <1>1, <1>2, <1>4, <1>5 DEF Next

\* Every variable of the statistics holds a value of its kind: the span of a
\* wait is never negative.
THEOREM WaitTypes == Spec => []TypeOK
BY WaitInit, WaitType, WaitStep, PTL DEF Spec

\* The total at the end is the time that was waited, each moment once.
THEOREM TotalExact == Spec => []TotalIsIdle
<1>1. TypeOK /\ WaitInv => TotalIsIdle
  BY DEF TypeOK, WaitInv, TotalIsIdle, Waited, Between
<1> QED
  BY WaitInit, WaitType, WaitStep, <1>1, PTL DEF Spec

\* From the second on, no progress line shows more idle time than it is
\* about.
THEOREM LinesFitLater == Spec => []LaterLinesFit
<1>1. LineInv => LaterLinesFit
  BY DEF LineInv
<1> QED
  BY WaitInit, WaitType, WaitStep, LineStep, <1>1, PTL DEF Spec
=============================================================================
