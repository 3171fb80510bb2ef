--------------------------- MODULE StartupProofs ----------------------------
(***************************************************************************)
(* Theorems about main(): the order of its calls into libttsim, that they  *)
(* go through resolved entry points, that nothing reaches the link before  *)
(* it is up, and that RunLoop gets parameters it can work with.            *)
(***************************************************************************)
EXTENDS Startup, Integers, TLAPS

Entries == Required \cup Optional

\* The stages of main, as far as its checks have come.
Unparsed == {"parse"}
Unloaded == {"load"}
Running == {"initCall", "intro", "introCall", "test", "testCall", "connect",
            "up", "signal", "loop", "loopCall", "exit"}
Linked == {"signal", "loop", "loopCall", "exit", "exitCall", "done"}
Stages == Unparsed \cup Unloaded \cup Running \cup Linked \cup
          {"install", "init"}

\* The calls that were made, by the stage that has been reached.
CallInv ==
  LET called == CalledUpTo(calls, Len(calls)) IN
  /\ at \in Stages
  /\ calls \in Seq(Entries)
  /\ InAbiOrder
  /\ at \in Unparsed \cup Unloaded \cup {"install"} => called = {}
  /\ at = "init" => called = {"callbacks"}
  /\ at \in Running =>
       {"callbacks", "init"} \subseteq called /\ "exit" \notin called
  /\ at \notin Unparsed \cup Unloaded \cup {"done"} => Required \subseteq resolved

\* What InitSimBricks has computed when it succeeds.
LinkReady ==
  /\ msgLen > HeaderLen => chunk > 0 /\ HeaderLen + chunk <= msgLen
  /\ TimesFit(opts.url) => params.latency > 0 /\ params.interval > 0

\* The numbers that were checked, and the link that was not up earlier.
ParamInv ==
  /\ opts \in OptionRecords
  /\ at \notin Unparsed \cup {"done"} =>
       period > 0 /\ batch > 0 /\ batch < WordSize
  /\ at = "connect" => ~opts.selftest
  /\ at = "up" => ~opts.selftest /\ LinkReady
  /\ linkUp => at \in Linked /\ ~opts.selftest /\ LoopParamsUsable
  /\ sent => linkUp

----------------------------------------------------------------------------
(* Lemmas *)

\* A call that may follow those made so far keeps the whole sequence in
\* order.
LEMMA OneMoreCall ==
  ASSUME NEW s \in Seq(Entries), NEW entry \in Entries,
         \A i \in 1 .. Len(s) : MayFollow(s[i], CalledUpTo(s, i - 1)),
         MayFollow(entry, CalledUpTo(s, Len(s)))
  PROVE  LET t == Append(s, entry) IN
         /\ t \in Seq(Entries)
         /\ Len(t) = Len(s) + 1 /\ t[Len(t)] = entry
         /\ CalledUpTo(t, Len(t)) = CalledUpTo(s, Len(s)) \cup {entry}
         /\ \A i \in 1 .. Len(t) : MayFollow(t[i], CalledUpTo(t, i - 1))
<1> DEFINE t == Append(s, entry)
<1>1. /\ t \in Seq(Entries)
      /\ Len(t) = Len(s) + 1 /\ t[Len(t)] = entry
      /\ \A i \in 1 .. Len(s) : t[i] = s[i]
  OBVIOUS
<1>2. Len(s) \in Nat
  OBVIOUS
<1>3. \A n \in 0 .. Len(s) : CalledUpTo(t, n) = CalledUpTo(s, n)
  BY <1>1, <1>2 DEF CalledUpTo
<1>4. CalledUpTo(t, Len(t)) = CalledUpTo(s, Len(s)) \cup {entry}
  BY <1>1, <1>2 DEF CalledUpTo
<1>5. ASSUME NEW i \in 1 .. Len(t)
      PROVE  MayFollow(t[i], CalledUpTo(t, i - 1))
  <2>1. CASE i \in 1 .. Len(s)
    <3>1. t[i] = s[i] /\ CalledUpTo(t, i - 1) = CalledUpTo(s, i - 1)
      BY <1>1, <1>2, <1>3, <2>1
    <3> QED
      BY <3>1, <2>1
  <2>2. CASE i = Len(t)
    <3>1. t[i] = entry /\ CalledUpTo(t, i - 1) = CalledUpTo(s, Len(s))
      BY <1>1, <1>2, <1>3, <2>2
    <3> QED
      BY <3>1
  <2> QED
    BY <1>1, <1>2, <2>1, <2>2
<1> QED
  BY <1>1, <1>4, <1>5

\* A clock step is never shorter than a picosecond.
LEMMA PeriodPositive ==
  ASSUME NEW freq \in Nat \ {0}
  PROVE  PeriodOf(freq) \in Nat \ {0}
<1>1. CASE freq > PsPerUs
  BY <1>1 DEF PeriodOf
<1>2. CASE freq <= PsPerUs
  <2>1. PsPerUs \in Nat
    BY StartupAssumption
  <2>2. /\ PsPerUs \div freq \in Int
        /\ PsPerUs = freq * (PsPerUs \div freq) + (PsPerUs % freq)
        /\ PsPerUs % freq \in 0 .. (freq - 1)
    BY <2>1
  <2>3. PsPerUs \div freq > 0
    BY <1>2, <2>1, <2>2
  <2> QED
    BY <1>2, <2>1, <2>3 DEF PeriodOf
<1> QED
  BY <1>1, <1>2, StartupAssumption

\* A number below the word is its own remainder, and so is one word more.
LEMMA BelowWord ==
  ASSUME NEW x \in Nat, NEW w \in Nat, x < w
  PROVE  x % w = x /\ (w + x) % w = x
<1>1. /\ x % w \in 0 .. (w - 1) /\ (w + x) % w \in 0 .. (w - 1)
      /\ x \div w \in Int /\ (w + x) \div w \in Int
      /\ x = w * (x \div w) + (x % w)
      /\ w + x = w * ((w + x) \div w) + ((w + x) % w)
  OBVIOUS
<1>2. ASSUME NEW q \in Int, NEW rest \in 0 .. (w - 1), x = w * q + rest
      PROVE  rest = x
  <2>1. q >= 1 => w * q >= w
    OBVIOUS
  <2>2. q <= -1 => w * q <= -w
    OBVIOUS
  <2> QED
    BY <1>2, <2>1, <2>2
<1>3. x = w * ((w + x) \div w - 1) + ((w + x) % w)
  BY <1>1
<1>4. (w + x) \div w - 1 \in Int
  BY <1>1
<1> QED
  BY <1>1, <1>2, <1>3, <1>4

\* A message longer than its header gets chunks that are not empty and fit.
LEMMA ChunkFits ==
  ASSUME NEW len \in MsgLens, len > HeaderLen
  PROVE  ChunkOf(len) > 0 /\ HeaderLen + ChunkOf(len) <= len
<1> DEFINE x == len - HeaderLen
<1>1. /\ len \in Nat /\ HeaderLen \in Nat /\ LongSize \in Nat
      /\ len < LongSize /\ MaxChunkCap \in Nat \ {0}
  BY StartupAssumption
<1>2. x \in Nat \ {0} /\ x < LongSize /\ LongSize + len - HeaderLen = LongSize + x
  BY <1>1
<1> HIDE DEF x
<1>3. Payload(len) = x
  BY <1>1, <1>2, BelowWord DEF Payload
<1>4. len = HeaderLen + x
  BY <1>1 DEF x
<1> QED
  BY <1>1, <1>2, <1>3, <1>4 DEF ChunkOf

\* A time of the url that is not 0 and does not wrap is not 0 in picoseconds.
LEMMA TimePositive ==
  ASSUME NEW field \in Seq(Nat), NEW default \in Nat \ {0},
         field # <<>> => field[1] > 0 /\ field[1] * PsPerNs < LongSize
  PROVE  InPs(field, default) > 0
<1>1. CASE field = <<>>
  BY <1>1 DEF InPs
<1>2. CASE field # <<>>
  <2> DEFINE f == field[1]
  <2>1. f \in Nat /\ f > 0 /\ f * PsPerNs < LongSize
    BY <1>2
  <2>2. PsPerNs \in Nat \ {0} /\ LongSize \in Nat
    BY StartupAssumption
  <2>3. InPs(field, default) = (f * PsPerNs) % LongSize
    BY <1>2 DEF InPs
  <2> HIDE DEF f
  <2>4. f * PsPerNs \in Nat /\ f * PsPerNs > 0
    BY <2>1, <2>2
  <2> QED
    BY <2>1, <2>2, <2>3, <2>4, BelowWord
<1> QED
  BY <1>1, <1>2

----------------------------------------------------------------------------
(* The order of the calls *)

\* The call invariant holds at the start.
LEMMA CallInit == Init => CallInv
<1> SUFFICES ASSUME Init PROVE CallInv
  OBVIOUS
<1>1. calls = <<>> /\ at = "parse"
  BY DEF Init
<1>2. CalledUpTo(calls, Len(calls)) = {}
  BY <1>1 DEF CalledUpTo
<1> QED
  BY <1>1, <1>2 DEF CallInv, InAbiOrder, Stages, Unparsed, Unloaded, Running,
                    Linked

\* A call made at a stage at which it may be made leads to a stage that
\* expects it.
LEMMA CallStep ==
  ASSUME CallInv, NEW from, NEW entry \in Required, NEW to, Call(from, entry, to),
         MayFollow(entry, CalledUpTo(calls, Len(calls))),
         from \notin Unparsed \cup Unloaded \cup {"done"},
         to \in Running \cup {"init", "exitCall"},
         to = "init" => from = "install" /\ entry = "callbacks",
         to \in Running => /\ from \in Running \/ (from = "init" /\ entry = "init")
                           /\ entry # "exit"
  PROVE  CallInv' /\ calls'[Len(calls')] \in resolved
<1> DEFINE called == CalledUpTo(calls, Len(calls))
<1>1. /\ at = from /\ at' = to
      /\ calls' = Append(calls, entry) /\ resolved' = resolved
  BY DEF Call, libVars
<1>2. entry \in Entries /\ Required \subseteq resolved
  BY <1>1 DEF CallInv, Entries
<1>3. /\ calls' \in Seq(Entries)
      /\ calls'[Len(calls')] = entry
      /\ CalledUpTo(calls', Len(calls')) = called \cup {entry}
      /\ InAbiOrder'
  <2>1. /\ calls \in Seq(Entries)
        /\ \A i \in 1 .. Len(calls) : MayFollow(calls[i], CalledUpTo(calls, i - 1))
    BY DEF CallInv, InAbiOrder
  <2> HIDE DEF called
  <2> QED
    BY <1>1, <1>2, <2>1, OneMoreCall DEF InAbiOrder, called
<1>4. at' \in Stages /\ at' \notin Unparsed \cup Unloaded \cup {"install", "done"}
  BY <1>1 DEF Stages, Unparsed, Unloaded, Running, Linked
<1>5. at' = "init" => called \cup {entry} = {"callbacks"}
  BY <1>1 DEF CallInv
<1>6. at' \in Running => /\ {"callbacks", "init"} \subseteq called \cup {entry}
                         /\ "exit" \notin called \cup {entry}
  <2>1. CASE from \in Running
    BY <1>1, <2>1 DEF CallInv
  <2>2. CASE from = "init" /\ entry = "init"
    BY <1>1, <2>2 DEF CallInv
  <2> QED
    BY <1>1, <2>1, <2>2
<1>7. CalledUpTo(calls, Len(calls))' = called \cup {entry}
  BY <1>3
<1> HIDE DEF called
<1>8. CallInv'
  BY <1>1, <1>2, <1>3, <1>4, <1>5, <1>6, <1>7 DEF CallInv
<1> QED
  BY <1>2, <1>3, <1>8

\* The calls of the library that have been made were allowed one by one.
LEMMA LibCallsOrder ==
  ASSUME CallInv, LibCalls
  PROVE  CallInv' /\ calls'[Len(calls')] \in resolved
<1> USE DEF MayFollow, Required, Running, Unparsed, Unloaded
<1>1. CASE Call("install", "callbacks", "init")
  <2>1. CalledUpTo(calls, Len(calls)) = {}
    BY <1>1 DEF CallInv, Call
  <2> QED
    BY <1>1, <2>1, CallStep
<1>2. CASE Call("init", "init", "initCall")
  <2>1. CalledUpTo(calls, Len(calls)) = {"callbacks"}
    BY <1>2 DEF CallInv, Call
  <2> QED
    BY <1>2, <2>1, CallStep
<1>3. CASE Call("intro", "config", "introCall")
  <2>1. /\ {"callbacks", "init"} \subseteq CalledUpTo(calls, Len(calls))
        /\ "exit" \notin CalledUpTo(calls, Len(calls))
    BY <1>3 DEF CallInv, Call
  <2> QED
    BY <1>3, <2>1, CallStep
<1>4. CASE Call("test", "clock", "testCall")
  <2>1. /\ {"callbacks", "init"} \subseteq CalledUpTo(calls, Len(calls))
        /\ "exit" \notin CalledUpTo(calls, Len(calls))
    BY <1>4 DEF CallInv, Call
  <2> QED
    BY <1>4, <2>1, CallStep
<1>5. ASSUME NEW entry \in {"read", "write", "clock"},
             Call("loop", entry, "loopCall")
      PROVE  CallInv' /\ calls'[Len(calls')] \in resolved
  <2>1. /\ {"callbacks", "init"} \subseteq CalledUpTo(calls, Len(calls))
        /\ "exit" \notin CalledUpTo(calls, Len(calls))
    BY <1>5 DEF CallInv, Call
  <2> QED
    BY <1>5, <2>1, CallStep
<1>6. CASE Call("exit", "exit", "exitCall")
  <2>1. /\ {"callbacks", "init"} \subseteq CalledUpTo(calls, Len(calls))
        /\ "exit" \notin CalledUpTo(calls, Len(calls))
    BY <1>6 DEF CallInv, Call
  <2> QED
    BY <1>6, <2>1, CallStep
<1> QED
  BY <1>1, <1>2, <1>3, <1>4, <1>5, <1>6 DEF LibCalls, LoopCall

\* Every other step leaves the calls alone and goes on among stages that
\* expect the same ones.
LEMMA CallPreserved ==
  ASSUME CallInv, [Next]_vars
  PROVE  CallInv' /\ (calls' = calls \/ calls'[Len(calls')] \in resolved)
<1>1. CASE LibCalls
  BY <1>1, LibCallsOrder
<1>2. ASSUME calls' = calls, resolved' = resolved, at' \in Stages,
             \/ at' \in {at, "done"}
             \/ at \in Running /\ at' \in Running
             \/ at = "parse" /\ at' = "load"
      PROVE  CallInv'
  <2>1. InAbiOrder'
    BY <1>2 DEF CallInv, InAbiOrder
  <2> QED
    BY <1>2, <2>1 DEF CallInv, Unparsed, Unloaded, Running
<1>3. CASE LibTtsimLoad
  <2>1. calls' = calls /\ InAbiOrder'
    BY <1>3 DEF LibTtsimLoad, CallInv, InAbiOrder
  <2>2. at = "load" /\ CalledUpTo(calls, Len(calls)) = {}
    BY <1>3 DEF LibTtsimLoad, CallInv, Unloaded
  <2>3. CASE at' = "done" /\ resolved' = resolved
    BY <2>1, <2>2, <2>3, <1>2 DEF Stages, Linked
  <2>4. CASE at' = "install" /\ Required \subseteq resolved'
    BY <2>1, <2>2, <2>4
       DEF CallInv, Stages, Unparsed, Unloaded, Running
  <2> QED
    BY <1>3, <2>1, <2>3, <2>4 DEF LibTtsimLoad, Loaded, Return
<1>4. CASE ExitReturns
  <2>1. calls' = calls /\ InAbiOrder' /\ at' = "done"
    BY <1>4 DEF ExitReturns, Return, CallInv, InAbiOrder
  <2> QED
    BY <2>1 DEF CallInv, Stages, Unparsed, Unloaded, Running, Linked
<1> USE DEF libVars, Stages, Unparsed, Unloaded, Running, Linked, Return
<1>5. CASE ParseOptions
  BY <1>5, <1>2 DEF ParseOptions
<1>6. CASE InitReturns \/ SelfTestReturns \/ LoopCallReturns \/ LoopReturns
  BY <1>6, <1>2
     DEF InitReturns, SelfTestReturns, LoopCallReturns, LoopReturns
<1>7. CASE Dma \/ LibAborts \/ LoopExits \/ Sigusr1
  <2>1. at \in Stages
    BY DEF CallInv
  <2> QED
    BY <1>7, <1>2, <2>1 DEF Dma, LibAborts, LoopExits, Sigusr1
<1>8. CASE SetupIntro
  BY <1>8, <1>2 DEF SetupIntro
<1>9. CASE InitSimBricks \/ LinkUp \/ InstallHandler
  BY <1>9, <1>2 DEF InitSimBricks, LinkUp, InstallHandler
<1>10. CASE UNCHANGED vars
  <2>1. at \in Stages
    BY DEF CallInv
  <2> QED
    BY <1>10, <1>2, <2>1 DEF vars
<1> QED
  BY <1>1, <1>3, <1>4, <1>5, <1>6, <1>7, <1>8, <1>9, <1>10 DEF Next, Done

\* libttsim sees its calls in the order its ABI demands, on every path
\* through main.
THEOREM CallsInOrder == Spec => []InAbiOrder
<1>1. CallInv => InAbiOrder
  BY DEF CallInv
<1> QED
  BY CallInit, CallPreserved, <1>1, PTL DEF Spec

\* Every call goes through an entry point that was resolved and is still
\* loaded.
THEOREM EntryPointsThere == Spec => CallsResolved
<1>1. CallInv /\ [Next]_vars =>
        [Len(calls') > Len(calls) => calls'[Len(calls')] \in resolved]_calls
  <2> SUFFICES ASSUME CallInv, [Next]_vars, calls' # calls
               PROVE  calls'[Len(calls')] \in resolved
    OBVIOUS
  <2> QED
    BY CallPreserved
<1> QED
  BY CallInit, CallPreserved, <1>1, PTL DEF Spec, CallsResolved

----------------------------------------------------------------------------
(* The parameters of RunLoop *)

\* The parameter invariant holds at the start.
LEMMA ParamInit == Init => ParamInv
  BY StartupAssumption DEF Init, ParamInv, Unparsed

\* ParseOptions keeps the parameter invariant.
LEMMA ParamParse == ParamInv /\ ParseOptions => ParamInv'
<1> SUFFICES ASSUME ParamInv, ParseOptions PROVE ParamInv'
  OBVIOUS
<1>1. /\ ~linkUp /\ ~sent /\ linkUp' = linkUp /\ sent' = sent /\ opts' = opts
      /\ opts \in OptionRecords
  BY DEF ParamInv, ParseOptions, Linked, linkVars
<1>2. CASE at' = "done"
  BY <1>1, <1>2 DEF ParamInv
<1>3. CASE Valid(opts) /\ at' = "load"
  <2>1. opts.freq \in Nat \ {0} /\ opts.batch \in Nat
    BY <1>1, <1>3 DEF OptionRecords, Valid
  <2>2. period' > 0
    <3>1. period' = PeriodOf(opts.freq)
      BY <1>3 DEF ParseOptions, Return
    <3> QED
      BY <2>1, <3>1, PeriodPositive
  <2>3. batch' > 0 /\ batch' < WordSize
    <3>1. batch' = opts.batch % WordSize /\ opts.batch % WordSize # 0
      BY <1>3 DEF ParseOptions, Return, Valid
    <3> QED
      BY <2>1, <3>1, StartupAssumption
  <2> QED
    BY <1>1, <1>3, <2>2, <2>3 DEF ParamInv
<1> QED
  BY <1>2, <1>3 DEF ParseOptions, Return

\* InitSimBricks keeps the parameter invariant.
LEMMA ParamConnect == ParamInv /\ InitSimBricks => ParamInv'
<1> SUFFICES ASSUME ParamInv, InitSimBricks PROVE ParamInv'
  OBVIOUS
<1>1. /\ at = "connect" /\ ~opts.selftest /\ ~linkUp /\ ~sent
      /\ sent' = sent /\ opts' = opts /\ period' = period /\ batch' = batch
      /\ opts \in OptionRecords
      /\ period > 0 /\ batch > 0 /\ batch < WordSize
  BY DEF ParamInv, InitSimBricks, Linked, Unparsed, optionVars
<1>2. CASE at' = "done" /\ linkUp' = linkUp
  BY <1>1, <1>2 DEF ParamInv
<1>3. CASE /\ at' = "up" /\ linkUp' = linkUp
           /\ params'.latency = InPs(opts.url.latency, DefaultParams.latency)
           /\ params'.interval = InPs(opts.url.interval, DefaultParams.interval)
           /\ \E len \in MsgLens : msgLen' = len /\ chunk' = ChunkOf(len)
  <2>1. msgLen' > HeaderLen => chunk' > 0 /\ HeaderLen + chunk' <= msgLen'
    BY <1>3, ChunkFits
  <2>2. /\ opts.url.latency \in Seq(Nat) /\ opts.url.interval \in Seq(Nat)
        /\ DefaultParams.latency \in Nat \ {0}
        /\ DefaultParams.interval \in Nat \ {0}
    BY <1>1, StartupAssumption DEF OptionRecords, Urls
  <2>3. TimesFit(opts.url) => params'.latency > 0 /\ params'.interval > 0
    BY <1>3, <2>2, TimePositive DEF TimesFit
  <2>4. LinkReady'
    BY <1>1, <2>1, <2>3 DEF LinkReady, TimesFit
  <2> QED
    BY <1>1, <1>3, <2>4 DEF ParamInv
<1> QED
  BY <1>2, <1>3 DEF InitSimBricks, Return

\* When the link is marked up, its parameters are there.
LEMMA ParamLinkUp == ParamInv /\ LinkUp => ParamInv'
<1> SUFFICES ASSUME ParamInv, LinkUp PROVE ParamInv'
  OBVIOUS
<1>1. /\ at = "up" /\ at' = "signal" /\ ~opts.selftest /\ LinkReady
      /\ UNCHANGED <<opts, period, batch, params, msgLen, chunk, sent>>
      /\ period > 0 /\ batch > 0 /\ batch < WordSize
      /\ opts \in OptionRecords /\ ~sent
  BY DEF ParamInv, LinkUp, Unparsed, Linked, optionVars
<1>2. LoopParamsUsable'
  BY <1>1 DEF LoopParamsUsable, LinkReady, TimesFit
<1> QED
  BY <1>1, <1>2 DEF ParamInv, Linked

\* The other steps leave the parameters alone, and a DMA is sent only with
\* the link up.
LEMMA ParamStep == ParamInv /\ [Next]_vars => ParamInv'
<1> SUFFICES ASSUME ParamInv, [Next]_vars PROVE ParamInv'
  OBVIOUS
<1>1. ASSUME UNCHANGED <<optionVars, params, msgLen, chunk, linkUp>>,
             sent' = sent \/ linkUp,
             at' \in {at, "done"} \/ at \notin Unparsed \cup {"done"},
             at' # "connect" \/ ~opts.selftest \/ at' = at,
             at' # "up" \/ at' = at,
             linkUp => at' \in Linked
      PROVE  ParamInv'
  <2>1. LoopParamsUsable' = LoopParamsUsable /\ LinkReady' = LinkReady
    BY <1>1 DEF LoopParamsUsable, LinkReady, TimesFit, optionVars
  <2>2. /\ opts' = opts /\ period' = period /\ batch' = batch
        /\ linkUp' = linkUp
    BY <1>1 DEF optionVars
  <2>3. at' \notin Unparsed \cup {"done"} =>
          period > 0 /\ batch > 0 /\ batch < WordSize
    BY <1>1 DEF ParamInv, Unparsed
  <2> QED
    BY <1>1, <2>1, <2>2, <2>3 DEF ParamInv
<1>2. linkUp => at \in Linked
  BY DEF ParamInv
<1>3. CASE ParseOptions
  BY <1>3, ParamParse
<1>4. CASE InitSimBricks \/ LinkUp
  BY <1>4, ParamConnect, ParamLinkUp
<1> USE DEF Unparsed, Linked, Return, introVars, linkVars
<1>5. CASE LibTtsimLoad
  BY <1>5, <1>1, <1>2 DEF LibTtsimLoad
<1>6. CASE LibCalls
  BY <1>6, <1>1, <1>2 DEF LibCalls, LoopCall, Call
<1>7. CASE \/ InitReturns \/ SelfTestReturns \/ LoopCallReturns \/ LoopReturns
           \/ InstallHandler
  BY <1>7, <1>1, <1>2
     DEF InitReturns, SelfTestReturns, LoopCallReturns, LoopReturns,
         InstallHandler
<1>8. CASE Dma
  BY <1>8, <1>1, <1>2 DEF Dma
<1>9. CASE LibAborts \/ LoopExits \/ Sigusr1 \/ ExitReturns
  BY <1>9, <1>1, <1>2 DEF LibAborts, LoopExits, Sigusr1, ExitReturns
<1>10. CASE SetupIntro
  BY <1>10, <1>1, <1>2 DEF SetupIntro
<1>11. CASE UNCHANGED vars
  BY <1>11, <1>1, <1>2 DEF vars
<1> QED
  BY <1>3, <1>4, <1>5, <1>6, <1>7, <1>8, <1>9, <1>10, <1>11 DEF Next, Done

\* RunLoop never divides by a period of 0 and never stands still for want of a
\* batch; when a message is longer than its header it never sends a chunk that
\* is empty or does not fit, and when the times of the url are neither 0 nor too
\* large the latency and the sync interval are positive.
THEOREM ParametersUsable == Spec => []LoopParamsUsable
<1>1. ParamInv => LoopParamsUsable
  BY DEF ParamInv, LoopParamsUsable
<1> QED
  BY ParamInit, ParamStep, <1>1, PTL DEF Spec

\* Nothing reaches the link before it is up, and nothing at all in a
\* self-test.
THEOREM LinkUntouchedBefore == Spec => []NoMessageBeforeLink
<1>1. ParamInv => NoMessageBeforeLink
  BY DEF ParamInv, NoMessageBeforeLink
<1> QED
  BY ParamInit, ParamStep, <1>1, PTL DEF Spec

----------------------------------------------------------------------------
(* The chip and its BARs *)

\* InitSimBricks is reached with a known chip, and the intro is the chip's.
ChipInv ==
  at \in {"connect", "up"} \/ linkUp =>
    chip \in DOMAIN Chips /\ intro = IntroOf(chip, opts.bar4)

\* Only SetupIntro sets the chip and leads to InitSimBricks, which alone
\* brings up the link.
LEMMA ChipStep == ParamInv /\ ChipInv /\ [Next]_vars => ChipInv'
<1> SUFFICES ASSUME ParamInv, ChipInv, [Next]_vars PROVE ChipInv'
  OBVIOUS
<1>1. ASSUME UNCHANGED <<introVars, opts, linkUp>>,
             at' \notin {"connect", "up"} \/ at' = at
      PROVE  ChipInv'
  BY <1>1 DEF ChipInv, introVars
<1>2. CASE SetupIntro
  <2>1. ~linkUp' /\ opts' = opts
    BY <1>2 DEF SetupIntro, ParamInv, Linked, linkVars, optionVars
  <2>2. CASE at' \in {"exit", "done"}
    BY <2>1, <2>2 DEF ChipInv
  <2>3. CASE \E id \in Ids : /\ Known(id)
                             /\ chip' = id.device
                             /\ intro' = IntroOf(id.device, opts.bar4)
    BY <2>1, <2>3 DEF ChipInv, Known
  <2> QED
    BY <1>2, <2>2, <2>3 DEF SetupIntro
<1>3. CASE InitSimBricks \/ LinkUp
  BY <1>3 DEF InitSimBricks, LinkUp, ChipInv, introVars, optionVars
<1> USE <1>1 DEF Return, optionVars, linkVars, introVars
<1>4. CASE ParseOptions \/ LibTtsimLoad
  BY <1>4 DEF ParseOptions, LibTtsimLoad
<1>5. CASE LibCalls
  BY <1>5 DEF LibCalls, LoopCall, Call
<1>6. CASE \/ InitReturns \/ SelfTestReturns \/ LoopCallReturns \/ LoopReturns
           \/ InstallHandler
  BY <1>6 DEF InitReturns, SelfTestReturns, LoopCallReturns, LoopReturns,
              InstallHandler
<1>7. CASE Dma \/ LibAborts
  BY <1>7 DEF Dma, LibAborts
<1>8. CASE LoopExits \/ Sigusr1 \/ ExitReturns \/ UNCHANGED vars
  BY <1>8 DEF LoopExits, Sigusr1, ExitReturns, vars
<1> QED
  BY <1>2, <1>3, <1>4, <1>5, <1>6, <1>7, <1>8 DEF Next, Done

\* In every reachable state the parameters and the chip are as they should.
LEMMA ChipAlways == Spec => [](ParamInv /\ ChipInv)
<1>1. Init => ChipInv
  BY DEF Init, ChipInv
<1> QED
  BY <1>1, ParamInit, ParamStep, ChipStep, PTL DEF Spec

\* For a chip of the table, whatever the override within the address space, an
\* access that is let through stays in its BAR: the sum of its base and offset
\* does not wrap.
LEMMA BarsDoNotMeet ==
  ASSUME chip \in DOMAIN Chips, opts.bar4 \in Nat, Bar4Fits,
         NEW bar \in 0 .. 5, NEW offset \in Nat, NEW len \in Nat
  PROVE  StaysIn(bar, offset, len)
<1> DEFINE map == Chips[chip]
           Size(b) == Bars(map, opts.bar4)!BarSize(b)
<1>1. /\ map \in [{0, 2, 4} -> [base : Nat, size : Nat \ {0}]]
      /\ map[0].base + map[0].size <= map[2].base
      /\ map[2].base + map[2].size <= map[4].base
      /\ LongSize \in Nat
  BY ChipsAssumption, StartupAssumption
<1>2. /\ Size(0) = map[0].size /\ Size(2) = map[2].size
      /\ Size(4) = IF opts.bar4 # 0 THEN opts.bar4 ELSE map[4].size
  BY DEF Bars!BarSize
<1>3. Size(0) \in Nat /\ Size(2) \in Nat /\ Size(4) \in Nat
  BY <1>1, <1>2
<1>f. map[4].base + Size(4) <= LongSize
  BY DEF Bar4Fits
<1>4. CASE Bars(map, opts.bar4)!Mapped(bar, offset, len) /\ len > 0
  <2>1. bar \in {0, 2, 4} /\ offset <= Size(bar) /\ len <= Size(bar) - offset
    BY <1>4 DEF Bars!Mapped, Bars!BarIdx
  <2>p. Bars(map, opts.bar4)!Paddr(bar, offset)
          = (map[bar].base + offset) % LongSize
    BY DEF Bars!Paddr
  <2> HIDE DEF map, Size
  <2>q. map[bar].base + offset \in Nat /\ map[bar].base + offset < LongSize
    BY <1>1, <1>2, <1>3, <1>4, <1>f, <2>1
  <2>2. Bars(map, opts.bar4)!Paddr(bar, offset) = map[bar].base + offset
    BY <1>1, <2>p, <2>q, BelowWord
  <2>3. ASSUME NEW b \in {0, 2, 4}
        PROVE  LET first == map[bar].base + offset IN
               IF b = bar
                 THEN map[b].base <= first /\ first + len <= map[b].base + Size(b)
                 ELSE first + len <= map[b].base \/ map[b].base + Size(b) <= first
    BY <1>1, <1>2, <1>3, <1>4, <2>1
  <2> QED
    BY <2>2, <2>3 DEF StaysIn, BarIdx, map, Size
<1> QED
  BY <1>4 DEF StaysIn

\* For every chip whose BARs follow each other and every override with which
\* BAR4 ends within the address space, no access of the host reaches an address
\* of another BAR, although offsets and sums of them are words.
THEOREM BarsKeptApart == Spec => []StaysInItsBar
<1>1. ParamInv /\ ChipInv => StaysInItsBar
  <2> SUFFICES ASSUME ParamInv, ChipInv, linkUp, Bar4Fits,
                      NEW bar \in 0 .. 5, NEW offset \in Edges, NEW len \in Edges
               PROVE  StaysIn(bar, offset, len)
    BY DEF StaysInItsBar
  <2>1. chip \in DOMAIN Chips /\ opts.bar4 \in Nat
    BY StartupAssumption DEF ParamInv, ChipInv, OptionRecords
  <2>2. offset \in Nat /\ len \in Nat
    BY DEF Edges
  <2> QED
    BY <2>1, <2>2, BarsDoNotMeet
<1> QED
  BY <1>1, ChipAlways, PTL

\* The BAR lengths in the device intro are those BarTranslate goes by.
THEOREM IntroFitsTranslation == Spec => []IntroIsMapped
<1>1. ParamInv /\ ChipInv => IntroIsMapped
  <2> SUFFICES ASSUME ParamInv, ChipInv, linkUp, NEW bar \in BarIdx,
                      intro[bar] > 0
               PROVE  LET last == intro[bar] - 1
                          Hit(offset) ==
                            Bars(Chips[chip], opts.bar4)!Mapped(bar, offset, 1)
                      IN  Hit(0) /\ Hit(last) /\ ~Hit(last + 1)
    BY DEF IntroIsMapped
  <2> DEFINE size == Bars(Chips[chip], opts.bar4)!BarSize(bar)
  <2>1. /\ intro[bar] = IF bar = 4 /\ opts.bar4 # 0 THEN opts.bar4
                        ELSE Chips[chip][bar].size
        /\ chip \in DOMAIN Chips /\ opts.bar4 \in Nat
    BY StartupAssumption DEF ChipInv, IntroOf, ParamInv, OptionRecords
  <2>2. intro[bar] = size
    BY <2>1 DEF Bars!BarSize
  <2>3. intro[bar] \in Nat
    BY <2>1, ChipsAssumption DEF BarIdx
  <2>4. \A offset : Bars(Chips[chip], opts.bar4)!Mapped(bar, offset, 1)
                      <=> offset <= size /\ 1 <= size - offset
    BY DEF Bars!Mapped, Bars!BarIdx, BarIdx
  <2> HIDE DEF size
  <2> QED
    BY <2>2, <2>3, <2>4
<1> QED
  BY <1>1, ChipAlways, PTL

----------------------------------------------------------------------------
(* The exit code *)

\* A 0 in ret is there for a link or for a self-test that ran its clock.
RetInv ==
  LET called == CalledUpTo(calls, Len(calls)) IN
  /\ ret = 0 => linkUp \/ (opts.selftest /\ "clock" \in called)
  /\ at \in {"test", "testCall"} => opts.selftest
  /\ at = "testCall" => "clock" \in called
  /\ at \in {"signal", "loop", "loopCall"} => linkUp

\* What has been called stays called, and a call is counted.
LEMMA OneMoreCalled ==
  ASSUME NEW s \in Seq(Entries), NEW entry \in Entries
  PROVE  CalledUpTo(Append(s, entry), Len(Append(s, entry)))
           = CalledUpTo(s, Len(s)) \cup {entry}
<1> DEFINE t == Append(s, entry)
<1>1. /\ Len(s) \in Nat /\ Len(t) = Len(s) + 1 /\ t[Len(t)] = entry
      /\ \A i \in 1 .. Len(s) : t[i] = s[i]
  OBVIOUS
<1> HIDE DEF t
<1>2. \A i \in 1 .. Len(t) : t[i] \in {s[j] : j \in 1 .. Len(s)} \cup {entry}
  BY <1>1
<1>3. \A i \in 1 .. Len(s) : s[i] \in {t[j] : j \in 1 .. Len(t)}
  BY <1>1
<1>4. entry \in {t[j] : j \in 1 .. Len(t)}
  BY <1>1
<1> QED
  BY <1>2, <1>3, <1>4 DEF CalledUpTo, t

\* A library call leads on from the self-test only to what the self-test has
\* called.
LEMMA RetCall ==
  ASSUME CallInv, RetInv, LibCalls
  PROVE  RetInv'
<1>1. ASSUME NEW from, NEW entry \in Entries, NEW to, Call(from, entry, to),
             to \notin {"test", "signal", "loop"},
             to = "testCall" => from = "test" /\ entry = "clock",
             to = "loopCall" => from = "loop"
      PROVE  RetInv'
  <2>1. /\ at = from /\ at' = to /\ calls' = Append(calls, entry)
        /\ ret' = ret /\ linkUp' = linkUp /\ opts' = opts
    BY <1>1 DEF Call, optionVars, linkVars
  <2>2. CalledUpTo(calls, Len(calls))' = CalledUpTo(calls, Len(calls)) \cup {entry}
    BY <2>1, OneMoreCalled DEF CallInv
  <2> QED
    BY <1>1, <2>1, <2>2 DEF RetInv
<1> QED
  BY <1>1 DEF LibCalls, LoopCall, Entries, Required

\* Every step keeps it: ret is set to 0 where a self-test or RunLoop returns.
LEMMA RetStep ==
  CallInv /\ ParamInv /\ RetInv /\ [Next]_vars => RetInv'
<1> SUFFICES ASSUME CallInv, ParamInv, RetInv, [Next]_vars PROVE RetInv'
  OBVIOUS
<1>1. CASE LibCalls
  BY <1>1, RetCall
<1>2. ASSUME UNCHANGED <<opts, calls>>, linkUp => linkUp',
             ret' = 0 => ret = 0 \/ linkUp \/ at = "testCall",
             at' \in {"test", "testCall"} => at' = at \/ opts.selftest,
             at' = "testCall" => at' = at,
             at' \in {"signal", "loop", "loopCall"} => linkUp'
      PROVE  RetInv'
  BY <1>2 DEF RetInv
<1> USE <1>2 DEF RetInv, Return, optionVars, libVars, introVars, linkVars
<1>3. CASE ParseOptions \/ LibTtsimLoad \/ InitReturns
  BY <1>3 DEF ParseOptions, LibTtsimLoad, InitReturns
<1>4. CASE Dma \/ LibAborts
  BY <1>4 DEF Dma, LibAborts
<1>5. CASE SetupIntro
  BY <1>5 DEF SetupIntro
<1>6. CASE SelfTestReturns \/ LoopCallReturns \/ LoopReturns
  BY <1>6 DEF SelfTestReturns, LoopCallReturns, LoopReturns
<1>7. CASE InitSimBricks \/ LinkUp \/ InstallHandler
  BY <1>7 DEF InitSimBricks, LinkUp, InstallHandler
<1>8. CASE LoopExits
  BY <1>8 DEF LoopExits
<1>9. CASE ExitReturns
  BY <1>9 DEF ExitReturns
<1>10. CASE Sigusr1
  BY <1>10, StartupAssumption DEF Sigusr1
<1>11. CASE UNCHANGED vars
  BY <1>11 DEF vars
<1> QED
  BY <1>1, <1>3, <1>4, <1>5, <1>6, <1>7, <1>8, <1>9, <1>10, <1>11
     DEF Next, Done

\* An exit code of 0 means that a link was served or the self-test ran.
THEOREM ZeroMeansService == Spec => []SuccessIsService
<1>1. Init => RetInv
  BY DEF Init, RetInv
<1>2. RetInv => SuccessIsService
  BY DEF RetInv, SuccessIsService
<1> QED
  BY <1>1, <1>2, CallInit, CallPreserved, ParamInit, ParamStep, RetStep, PTL
     DEF Spec
=============================================================================
