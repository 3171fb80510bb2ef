----------------------------- MODULE WaitClock ------------------------------
(***************************************************************************)
(* How ttsim_bm measures the time it waits for its peer on a synchronized  *)
(* link: the statements of RunClocks and main that keep stat_wait_peer_s,  *)
(* the two readers of it, ReportProgress and the signal handler            *)
(* DumpProfile, and a wall clock that may move between any two statements. *)
(* When RunClocks has to wait, and how long libttsim takes, is open here;  *)
(* TtsimBm has that side.                                                  *)
(***************************************************************************)
EXTENDS Integers

CONSTANTS
  LinkUpAt,    \* link_up_at: the monotonic clock starts with the machine
  Interval,    \* progress_interval
  ReportEvery, \* 0x1000: iterations of RunLoop between calls of ReportProgress
  MaxNow       \* bound: the wall clock

ASSUME WaitAssumption ==
  /\ LinkUpAt \in Nat \ {0}
  /\ Interval \in Nat \ {0}
  /\ ReportEvery \in Nat \ {0}
  /\ MaxNow \in Nat

VARIABLES
  now,      \* what MonotonicSeconds returns
  pc,       \* the statement the thread is at
  waiting,  \* waiting_for_peer
  began,    \* wait_began
  total,    \* stat_wait_peer_s
  span,     \* a wait that has ended, on its way from a register into total
  stores,   \* the stores that end it and are still to be made
  tick,     \* iterations, modulo ReportEvery
  lastT, lastWait,  \* the statics of ReportProgress
  lines,    \* progress lines printed: 0, 1, or 2 for more
  line,     \* the last one: [dt, wait]
  dumped,   \* the last profile: [t, wait]
  marked,   \* the thread has begun a wait and not yet added it up
  idle      \* the time that passed while marked

statVars == <<waiting, began, total, span, stores>>
reportVars == <<tick, lastT, lastWait, lines, line>>
truthVars == <<marked, idle>>
vars == <<now, pc, statVars, reportVars, dumped, truthVars>>

Init ==
  /\ now = LinkUpAt
  /\ pc = "body"
  /\ waiting = FALSE /\ began = 0 /\ total = 0 /\ span = 0 /\ stores = {}
  /\ tick = 0 /\ lastT = 0 /\ lastWait = 0
  /\ lines = 0 /\ line = [dt |-> 0, wait |-> 0]
  /\ dumped = [t |-> 0, wait |-> 0]
  /\ marked = FALSE /\ idle = 0

\* What both readers make of the counters.
Waited == total + (IF waiting THEN now - began ELSE 0)

----------------------------------------------------------------------------
(* RunClocks *)

\* deadline <= main_time: only the first turn marks the wait, as begun and
\* then with the time.
DeadlinePassed ==
  /\ pc = "body"
  /\ waiting' = TRUE
  /\ pc' = IF waiting THEN "tail" ELSE "began"
  /\ UNCHANGED <<now, began, total, span, stores>>
  /\ UNCHANGED <<reportVars, dumped, truthVars>>

SetBegan ==
  /\ pc = "began"
  /\ began' = now
  /\ marked' = TRUE
  /\ pc' = "tail"
  /\ UNCHANGED <<now, waiting, total, span, stores>>
  /\ UNCHANGED <<reportVars, dumped, idle>>

\* n = 0: time jumps to the deadline and a wait goes on being counted.
LessThanAStep ==
  /\ pc = "body"
  /\ pc' = "tail"
  /\ UNCHANGED <<now, statVars, reportVars, dumped, truthVars>>

\* Fault: the operands are swapped.
EndWaitBackwards(from, between, next) ==
  /\ pc = from
  /\ \/ /\ waiting
        /\ span' = began - now
        /\ stores' = {"total", "waiting"}
        /\ marked' = FALSE
        /\ pc' = between
     \/ /\ ~waiting
        /\ pc' = next
        /\ UNCHANGED <<span, stores, marked>>
  /\ UNCHANGED <<now, waiting, began, total, reportVars, dumped, idle>>

\* The end of a wait, in RunClocks (from "body") and in main (from "end"):
\* the sum is taken, then total and waiting are stored.  Neither is volatile,
\* so the handler may find the stores in either order.
EndWait(from, between, next) ==
  /\ pc = from
  /\ \/ /\ waiting
        /\ span' = now - began
        /\ stores' = {"total", "waiting"}
        /\ marked' = FALSE
        /\ pc' = between
     \/ /\ ~waiting
        /\ pc' = next
        /\ UNCHANGED <<span, stores, marked>>
  /\ UNCHANGED <<now, waiting, began, total, reportVars, dumped, idle>>

Store(from, next) ==
  /\ pc = from
  /\ \E s \in stores :
       /\ stores' = stores \ {s}
       /\ total' = total + (IF s = "total" THEN span ELSE 0)
       /\ waiting' = (waiting /\ s # "waiting")
       /\ pc' = IF stores = {s} THEN next ELSE from
  /\ UNCHANGED <<now, began, span, reportVars, dumped, truthVars>>

LibClock ==
  /\ pc = "clock"
  /\ pc' = "tail"
  /\ UNCHANGED <<now, statVars, reportVars, dumped, truthVars>>

RunClocks ==
  \/ DeadlinePassed \/ SetBegan
  \/ LessThanAStep
  \/ EndWait("body", "ending", "clock") \/ Store("ending", "clock")
  \/ LibClock

----------------------------------------------------------------------------
(* The readers, and the end of the loop *)

\* Fault: a line does not become the start of the next.
PrintLineKeepsWait ==
  /\ line' = [dt |-> now - lastT, wait |-> Waited - lastWait]
  /\ lines' = IF lines < 2 THEN lines + 1 ELSE lines
  /\ lastT' = now
  /\ UNCHANGED lastWait

PrintLine ==
  /\ line' = [dt |-> now - lastT, wait |-> Waited - lastWait]
  /\ lines' = IF lines < 2 THEN lines + 1 ELSE lines
  /\ lastT' = now
  /\ lastWait' = Waited

\* The first call only remembers the time.
ReportProgress ==
  \/ lastT = 0 /\ lastT' = now /\ UNCHANGED <<lastWait, lines, line>>
  \/ lastT # 0 /\ now - lastT < Interval
     /\ UNCHANGED <<lastT, lastWait, lines, line>>
  \/ lastT # 0 /\ now - lastT >= Interval /\ PrintLine

\* The tail of RunLoop: a report every ReportEvery iterations, and out if the
\* peer has terminated.
LoopTail ==
  /\ pc = "tail"
  /\ tick' = (tick + 1) % ReportEvery
  /\ \/ tick' = 0 /\ ReportProgress
     \/ tick' # 0 /\ UNCHANGED <<lastT, lastWait, lines, line>>
  /\ pc' \in {"body", "end"}
  /\ UNCHANGED <<now, statVars, dumped, truthVars>>

\* Fault: a wait that lasts until the end is not added.
MainEndsEarly ==
  /\ pc = "end"
  /\ pc' = "done"
  /\ UNCHANGED <<now, statVars, reportVars, dumped, truthVars>>

MainEnds == EndWait("end", "adding", "done") \/ Store("adding", "done")

\* SIGUSR1, between any two statements.
DumpProfile ==
  /\ dumped' = [t |-> now - LinkUpAt, wait |-> Waited]
  /\ UNCHANGED <<now, pc, statVars, reportVars, truthVars>>

WallClock ==
  /\ now < MaxNow
  /\ pc # "done"
  /\ now' = now + 1
  /\ idle' = IF marked THEN idle + 1 ELSE idle
  /\ UNCHANGED <<pc, statVars, reportVars, dumped, marked>>

Next == RunClocks \/ LoopTail \/ MainEnds \/ DumpProfile \/ WallClock

Spec == Init /\ [][Next]_vars

----------------------------------------------------------------------------
(* Properties *)

FlagsOK == waiting \in BOOLEAN /\ marked \in BOOLEAN

\* The types of the statistics.
TypeOK ==
  /\ FlagsOK
  /\ now \in Nat /\ began \in Nat /\ total \in Nat /\ span \in Nat
  /\ idle \in Nat /\ lastT \in Nat /\ lastWait \in Nat
  /\ pc \in {"body", "began", "ending", "clock", "tail", "end", "adding", "done"}
  /\ stores \subseteq {"total", "waiting"}
  /\ tick \in 0 .. (ReportEvery - 1)
  /\ lines \in 0 .. 2
  /\ line \in [dt : Int, wait : Int]

\* LINK TIME: the total printed at the end is the time that was waited, each
\* moment of it once, however the waits began and ended.
TotalIsIdle ==
  pc = "done" => total = idle

\* From the second progress line on, the idle time of a line fits in the time
\* the line is about.
LaterLinesFit ==
  lines > 1 => line.wait <= line.dt

\* "Rates since the previous call": the idle time of every progress line fits
\* in the time the line is about.
LinesFit == line.wait <= line.dt

\* "how long it has sat idle": a profile never shows more idle time than the
\* link has been up.
ProfileFits == dumped.wait <= dumped.t
=============================================================================
