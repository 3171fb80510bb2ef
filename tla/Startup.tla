------------------------------- MODULE Startup ------------------------------
(***************************************************************************)
(* main() of ttsim_bm: from its arguments to the exit code, with RunLoop   *)
(* reduced to the calls it makes into libttsim and the ways it ends        *)
(* (TtsimBm has the rest of it).  Everything outside the process may fail: *)
(* the arguments, the library file and each of its symbols, the chip it    *)
(* turns out to be, the url and each step of setting up the link.  Runs of *)
(* calls that differ in nothing but what is printed are one call; the      *)
(* start tick only shifts time and is left out.                            *)
(***************************************************************************)
EXTENDS Naturals, Sequences

CONSTANTS
  Options,        \* what may be on the command line, as ParseOptions reads it
  Libraries,      \* library files: the sets of symbols they export
  Ids,            \* [vendor, device] pairs that config space may hold
  Chips,          \* kChips: device -> [{0, 2, 4} -> [base : Nat, size : Nat]]
  VendorId,       \* TTSIM_PCI_VENDOR_ID
  MsgLens,        \* SimbricksPcieIfD2HOutMsgLen: length of an outgoing message
  HeaderLen,      \* sizeof(struct SimbricksProtoPcieD2HWrite)
  DefaultParams,  \* SimbricksPcieIfDefaultParams: [latency, interval]
  PsPerUs,        \* 1000000: picoseconds in a cycle of 1 MHz
  PsPerNs,        \* 1000
  WordSize,       \* 2^32: what a uint32_t cannot hold any more
  LongSize,       \* 2^64: what a uint64_t or a size_t cannot hold any more
  MaxChunkCap,    \* kMaxDmaChunkCap
  Killed,         \* what the shell makes of a process a signal ended
  MaxCalls        \* bound: libttsim calls up to the last one of RunLoop

\* The url is what SimbricksParametersParse makes of it; <<>> stands for a
\* field the url does not have.
Urls == [given : BOOLEAN, listen : BOOLEAN, shm : BOOLEAN, sync : BOOLEAN,
         latency : Seq(Nat), interval : Seq(Nat)]
OptionRecords ==
  [malformed : BOOLEAN, lib : BOOLEAN, selftest : BOOLEAN, url : Urls,
   freq : Nat, batch : Nat, bar4 : 0 .. (LongSize - 1)]

\* The BARs of a chip follow each other, and BAR4 has what is above it.
ASSUME ChipsAssumption ==
  \A device \in DOMAIN Chips :
    LET bars == Chips[device] IN
    /\ bars \in [{0, 2, 4} -> [base : Nat, size : Nat \ {0}]]
    /\ bars[0].base + bars[0].size <= bars[2].base
    /\ bars[2].base + bars[2].size <= bars[4].base
    /\ bars[4].base <= LongSize

ASSUME StartupAssumption ==
  /\ Options \subseteq OptionRecords
  /\ MsgLens \subseteq Nat /\ HeaderLen \in Nat
  /\ DefaultParams \in [latency : Nat \ {0}, interval : Nat \ {0}]
  /\ PsPerUs \in Nat /\ PsPerNs \in Nat \ {0}
  /\ WordSize \in Nat \ {0} /\ LongSize \in Nat \ {0}
  /\ \A len \in MsgLens : len < LongSize
  /\ MaxChunkCap \in Nat \ {0}
  /\ Killed \in Nat \ {0}
  /\ MaxCalls \in Nat

VARIABLES
  at,        \* where main is
  opts,      \* the command line
  period,    \* ps_per_clock
  batch,     \* max_batch_clocks
  resolved,  \* the entry points of lib that are not null
  calls,     \* the calls made into libttsim, in order
  chip,      \* the device id whose row of the chip table chip points to
  intro,     \* the BAR lengths in the device intro
  params,    \* pcie_params: [sync, latency, interval]
  msgLen,    \* SimbricksPcieIfD2HOutMsgLen of the link
  chunk,     \* max_dma_chunk
  linkUp,    \* link_up
  sent,      \* a DMA was put on the link
  ret        \* ret in main; the exit code when the process is done

optionVars == <<opts, period, batch>>
libVars == <<resolved, calls>>
introVars == <<chip, intro>>
linkVars == <<params, msgLen, chunk, linkUp, sent>>
vars == <<at, optionVars, libVars, introVars, linkVars, ret>>

Required == {"init", "exit", "callbacks", "config", "read", "write", "clock"}
Optional == {"configWrite", "tileRead", "tileWrite"}
BarIdx == {0, 2, 4}

NoParams == [sync |-> FALSE, latency |-> 0, interval |-> 0]

Init ==
  /\ at = "parse"
  /\ opts \in Options /\ period = PsPerNs /\ batch = 1
  /\ resolved = {} /\ calls = <<>>
  /\ chip = 0 /\ intro = [bar \in BarIdx |-> 0]
  /\ params = NoParams /\ msgLen = 0 /\ chunk = MaxChunkCap
  /\ linkUp = FALSE /\ sent = FALSE
  /\ ret = 1

Return(code) ==
  /\ at' = "done"
  /\ ret' = code

----------------------------------------------------------------------------
(* The arguments *)

\* Fault: the batch is looked at before it is cut to 32 bits.
ValidUncut(o) ==
  /\ ~o.malformed
  /\ o.lib
  /\ o.selftest \/ o.url.given
  /\ o.freq # 0
  /\ o.batch # 0

\* ParseOptions: max_batch_clocks is a uint32_t.
Valid(o) ==
  /\ ~o.malformed
  /\ o.lib
  /\ o.selftest \/ o.url.given
  /\ o.freq # 0
  /\ o.batch % WordSize # 0

\* A frequency above one clock per picosecond is taken as one.
PeriodOf(freq) == IF freq > PsPerUs THEN 1 ELSE PsPerUs \div freq

ParseOptions ==
  /\ at = "parse"
  /\ \/ /\ Valid(opts)
        /\ batch' = opts.batch % WordSize
        /\ period' = PeriodOf(opts.freq)
        /\ at' = "load"
        /\ UNCHANGED ret
     \/ /\ ~Valid(opts)
        /\ Return(1)
        /\ UNCHANGED <<period, batch>>
  /\ UNCHANGED <<opts, libVars, introVars, linkVars>>

----------------------------------------------------------------------------
(* libttsim *)

\* Fault: the last required symbol decides.
LoadedLast(symbols) == "clock" \in symbols

\* Every required symbol must be there: ok &= Resolve(...).
Loaded(symbols) == Required \subseteq symbols

\* dlopen may fail; a library that lacks a symbol is unloaded again.
LibTtsimLoad ==
  /\ at = "load"
  /\ \/ Return(1) /\ UNCHANGED resolved
     \/ \E symbols \in Libraries :
          \/ /\ Loaded(symbols)
             /\ resolved' = symbols
             /\ at' = "install"
             /\ UNCHANGED ret
          \/ /\ ~Loaded(symbols)
             /\ Return(1)
             /\ UNCHANGED resolved
  /\ UNCHANGED <<optionVars, calls, introVars, linkVars>>

Call(from, entry, to) ==
  /\ at = from
  /\ calls' = Append(calls, entry)
  /\ at' = to
  /\ UNCHANGED <<optionVars, resolved, introVars, linkVars, ret>>

\* Where libttsim has control and may do as it likes.
Calling == {"initCall", "introCall", "testCall", "loopCall", "exitCall"}

InitReturns ==
  /\ at = "initCall"
  /\ at' = "intro"
  /\ UNCHANGED <<optionVars, libVars, introVars, linkVars, ret>>

\* Fault: the callbacks do not look at link_up.
DmaUnchecked ==
  /\ at \in Calling
  /\ sent' = TRUE
  /\ UNCHANGED <<at, ret, optionVars, libVars, introVars>>
  /\ UNCHANGED <<params, msgLen, chunk, linkUp>>

\* DmaMemRead and DmaMemWrite refuse to run before the link is there.
Dma ==
  /\ at \in Calling
  /\ \/ /\ linkUp
        /\ sent' = TRUE
        /\ UNCHANGED <<at, ret>>
     \/ /\ ~linkUp
        /\ Return(1)
        /\ UNCHANGED sent
  /\ UNCHANGED <<optionVars, libVars, introVars>>
  /\ UNCHANGED <<params, msgLen, chunk, linkUp>>

\* A contract violation: libttsim ends the process itself.
LibAborts ==
  /\ at \in Calling
  /\ Return(1)
  /\ UNCHANGED <<optionVars, libVars, introVars, linkVars>>

----------------------------------------------------------------------------
(* SetupIntro *)

Known(id) == id.vendor = VendorId /\ id.device \in DOMAIN Chips

\* Fault: the host is told the size in the chip table.
IntroOfTable(device, override) == [bar \in BarIdx |-> Chips[device][bar].size]

IntroOf(device, override) ==
  [bar \in BarIdx |->
    IF bar = 4 /\ override # 0 THEN override ELSE Chips[device][bar].size]

\* A chip that is not known ends main at once, and the self-test by way of
\* libttsim_exit.
SetupIntro ==
  /\ at = "introCall"
  /\ \E id \in Ids :
       \/ /\ Known(id)
          /\ chip' = id.device
          /\ intro' = IntroOf(id.device, opts.bar4)
          /\ at' = IF opts.selftest THEN "test" ELSE "connect"
          /\ UNCHANGED ret
       \/ /\ ~Known(id)
          /\ UNCHANGED introVars
          /\ ret' = 1
          /\ at' = IF opts.selftest THEN "exit" ELSE "done"
  /\ UNCHANGED <<optionVars, libVars, linkVars>>

SelfTestReturns ==
  /\ at = "testCall"
  /\ at' = "exit" /\ ret' = 0
  /\ UNCHANGED <<optionVars, libVars, introVars, linkVars>>

----------------------------------------------------------------------------
(* InitSimBricks *)

\* The url is in nanoseconds and the interface in picoseconds; a field that
\* is not set keeps its default.  The product is a uint64_t.
InPs(field, default) ==
  IF field = <<>> THEN default ELSE (field[1] * PsPerNs) % LongSize

\* What a message of this length leaves for data, a difference of size_t's.
Payload(len) == (LongSize + len - HeaderLen) % LongSize

\* Fault: the header is forgotten.
ChunkOfMessage(len) == IF len < MaxChunkCap THEN len ELSE MaxChunkCap

ChunkOf(len) == IF Payload(len) < MaxChunkCap THEN Payload(len) ELSE MaxChunkCap

\* The url must name a socket to listen on and a pool; then the pool, the
\* interface, the socket and the handshake may each fail.
InitSimBricks ==
  /\ at = "connect"
  /\ \/ /\ opts.url.listen /\ opts.url.shm
        /\ params' =
             [sync     |-> opts.url.sync,
              latency  |-> InPs(opts.url.latency, DefaultParams.latency),
              interval |-> InPs(opts.url.interval, DefaultParams.interval)]
        /\ \/ /\ \E len \in MsgLens : msgLen' = len /\ chunk' = ChunkOf(len)
              /\ at' = "up"
              /\ UNCHANGED ret
           \/ /\ Return(1)
              /\ UNCHANGED <<msgLen, chunk>>
     \/ /\ Return(1)
        /\ UNCHANGED <<params, msgLen, chunk>>
  /\ UNCHANGED <<optionVars, libVars, introVars, linkUp, sent>>

\* link_up = true
LinkUp ==
  /\ at = "up"
  /\ linkUp' = TRUE
  /\ at' = "signal"
  /\ UNCHANGED <<optionVars, libVars, introVars, params, msgLen, chunk, sent,
                 ret>>

\* signal(SIGUSR1, DumpProfile)
InstallHandler ==
  /\ at = "signal"
  /\ at' = "loop"
  /\ UNCHANGED <<optionVars, libVars, introVars, linkVars, ret>>

----------------------------------------------------------------------------
(* RunLoop and the end *)

LoopCall ==
  /\ Len(calls) < MaxCalls
  /\ \E entry \in {"read", "write", "clock"} : Call("loop", entry, "loopCall")

LoopCallReturns ==
  /\ at = "loopCall"
  /\ at' = "loop"
  /\ UNCHANGED <<optionVars, libVars, introVars, linkVars, ret>>

LoopReturns ==
  /\ at = "loop"
  /\ at' = "exit" /\ ret' = 0
  /\ UNCHANGED <<optionVars, libVars, introVars, linkVars>>

\* exit() in PollPcie, AllocPcieOut or, with 0, in DmaPumpUntil.
LoopExits ==
  /\ linkUp
  /\ \/ at = "loop" /\ Return(1)
     \/ at \in Calling /\ (Return(0) \/ Return(1))
  /\ UNCHANGED <<optionVars, libVars, introVars, linkVars>>

\* Fault: the result of the self-test is lost.
ExitReturnsZero ==
  /\ at = "exitCall"
  /\ resolved' = {}
  /\ Return(0)
  /\ UNCHANGED <<optionVars, calls, introVars, linkVars>>

\* LibTtsimUnload and the return from main.
ExitReturns ==
  /\ at = "exitCall"
  /\ resolved' = {}
  /\ Return(ret)
  /\ UNCHANGED <<optionVars, calls, introVars, linkVars>>

\* SimBricks signals every simulator to have a profile dumped; the handler,
\* which changes nothing here, is there from InstallHandler on.
Sigusr1 ==
  /\ at # "done"
  /\ ~linkUp \/ at = "signal"
  /\ Return(Killed)
  /\ UNCHANGED <<optionVars, libVars, introVars, linkVars>>

Done == at = "done" /\ UNCHANGED vars

\* Fault: the callbacks are installed when libttsim is running already.
LibCallsInitFirst ==
  \/ Call("install", "init", "init")
  \/ Call("init", "callbacks", "initCall")
  \/ Call("intro", "config", "introCall")
  \/ Call("test", "clock", "testCall")
  \/ LoopCall
  \/ Call("exit", "exit", "exitCall")

LibCalls ==
  \/ Call("install", "callbacks", "init")
  \/ Call("init", "init", "initCall")
  \/ Call("intro", "config", "introCall")
  \/ Call("test", "clock", "testCall")
  \/ LoopCall
  \/ Call("exit", "exit", "exitCall")

Next ==
  \/ ParseOptions \/ LibTtsimLoad \/ LibCalls
  \/ InitReturns \/ Dma \/ LibAborts
  \/ SetupIntro \/ SelfTestReturns
  \/ InitSimBricks \/ LinkUp \/ InstallHandler
  \/ LoopCallReturns \/ LoopReturns \/ LoopExits
  \/ ExitReturns \/ Sigusr1 \/ Done

Spec == Init /\ [][Next]_vars

----------------------------------------------------------------------------
(* Properties *)

CalledUpTo(s, n) == {s[i] : i \in 1 .. n}

\* What the ABI demands of a call, given the calls made before it.
MayFollow(entry, before) ==
  /\ "exit" \notin before
  /\ entry = "callbacks" => "init" \notin before
  /\ entry = "init" => "callbacks" \in before
  /\ entry \notin {"callbacks", "init"} => "init" \in before

\* libttsim gets its callbacks before it is started; its config space is
\* read and its clock, its memory and its exit are called only while it runs;
\* nothing is called after its exit.
InAbiOrder ==
  \A i \in 1 .. Len(calls) : MayFollow(calls[i], CalledUpTo(calls, i - 1))

\* Whatever the library file exports, no call goes through a null pointer
\* or into a library that was unloaded.
CallsResolved ==
  [][ Len(calls') > Len(calls) => calls'[Len(calls')] \in resolved ]_calls

\* The DMA that libttsim may start from its first call on reaches the link
\* only once it is up, and the self-test never brings it up.
NoMessageBeforeLink == sent => linkUp /\ ~opts.selftest

Bars(geometry, override) ==
  INSTANCE BarMap WITH Geometry <- geometry, Bar4Override <- override

\* The host is told exactly the part of each BAR that BarTranslate lets
\* through, with and without the override.
IntroIsMapped ==
  linkUp =>
    \A bar \in BarIdx :
      LET last == intro[bar] - 1
          Hit(offset) == Bars(Chips[chip], opts.bar4)!Mapped(bar, offset, 1)
      IN  intro[bar] > 0 => Hit(0) /\ Hit(last) /\ ~Hit(last + 1)

\* An access that BarTranslate lets through touches addresses of the BAR it
\* names and of no other, from its first byte to its last.
StaysIn(bar, offset, len) ==
  LET map == Chips[chip]
      Size(b) == Bars(map, opts.bar4)!BarSize(b)
      first == Bars(map, opts.bar4)!Paddr(bar, offset)
  IN  Bars(map, opts.bar4)!Mapped(bar, offset, len) /\ len > 0 =>
        \A b \in BarIdx :
          IF b = bar
            THEN map[b].base <= first /\ first + len <= map[b].base + Size(b)
            ELSE first + len <= map[b].base \/ map[b].base + Size(b) <= first

\* Zero, the ends of the BARs, the end of the word, and their neighbours.
Ends ==
  {0, LongSize} \cup {Bars(Chips[chip], opts.bar4)!BarSize(b) : b \in BarIdx}
Edges ==
  {n \in UNION {{m - 1, m, m + 1} : m \in Ends} : n \in 0 .. (LongSize - 1)}

\* Nothing checks --bar4-size: BAR4 as declared may end beyond the addresses
\* there are.
Bar4Fits ==
  Chips[chip][4].base + Bars(Chips[chip], opts.bar4)!BarSize(4) <= LongSize

\* BAR-relative addresses never leak from one BAR into another, at the edges
\* of the chip the adapter serves and of the word, whatever BAR4 was declared
\* to be as long as it ends within the address space.
StaysInItsBar ==
  linkUp /\ Bar4Fits =>
    \A bar \in 0 .. 5, offset \in Edges, len \in Edges :
      StaysIn(bar, offset, len)

\* Nothing checks the times of the url: they may be 0, or wrap.
TimesFit(url) ==
  \A field \in {url.latency, url.interval} :
    field # <<>> => field[1] > 0 /\ field[1] * PsPerNs < LongSize

\* What TtsimBm assumes of its parameters: RunClocks divides by the period,
\* time goes on by whole batches, a chunk is not empty and fits in a message,
\* and the latency and the sync interval are not 0.  The last two need a url
\* with such times and a message longer than its header, which the code takes
\* for granted.
LoopParamsUsable ==
  linkUp =>
    /\ period > 0
    /\ batch > 0 /\ batch < WordSize
    /\ msgLen > HeaderLen => chunk > 0 /\ HeaderLen + chunk <= msgLen
    /\ TimesFit(opts.url) => params.latency > 0 /\ params.interval > 0

\* A start that failed is not reported as a success: the code is 0 only after
\* a served link or a self-test that ran.
SuccessIsService ==
  at = "done" /\ ret = 0 =>
    \/ linkUp
    \/ opts.selftest /\ "clock" \in CalledUpTo(calls, Len(calls))

\* The usage text: "latency=<ps>:sync_interval=<ps>".
UrlIsInPicoseconds ==
  linkUp =>
    /\ opts.url.latency # <<>> => params.latency = opts.url.latency[1]
    /\ opts.url.interval # <<>> => params.interval = opts.url.interval[1]
=============================================================================
