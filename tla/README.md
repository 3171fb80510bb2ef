# A TLA+ model of the Tenstorrent component for SimBricks

The repository connects `libttsim.so`, a functional model of a Tenstorrent
chip, to SimBricks: `ttsim_bm` is the adapter process that makes the library a
PCIe endpoint on a SimBricks link. Around it are a patch to the library and a
script that builds the guest images. This directory specifies the adapter, the
link it uses and the host at the other end, the patch and the image builds in
TLA+, checks the specifications with TLC on small instances and proves their
safety properties with TLAPS for every value of the constants.

All paths below are relative to the repository (`src/` here); `ttsim_bm.cc` is
`src/ttsim_bm/ttsim_bm.cc`.

## 1. Inventory

| component | source | state | operations | modelled by |
|---|---|---|---|---|
| adapter core | `ttsim_bm.cc` | `main_time`, `exiting`, `mmio_q`, one `DmaSlot` on the stack, `waiting_for_peer` | `RunLoop`: sync, `PollPcieAll`, `DrainDeferredMmio`, `RunClocks`; the callbacks `DmaMemRead`, `DmaMemWrite` with `DmaPumpUntil` | `TtsimBm`, `TtsimSystem` |
| SimBricks link | external library | two rings of slots, per side the last timestamp received and the time of the next sync | alloc, send, sync, poll, done | `SimbricksPcie` |
| host | `tests/tt_host_probe.cc`; in real runs QEMU's `simbricks-pci` | `cur_ts`, `MmioPending.done`, `host_mem` | `MmioRead`, `MmioWrite`, `Poll`, `PumpUntil`, `IdleHold`, TERMINATE | `PcieHost` |
| endpoint contract | implied by the host's wait for each completion | requests issued, begun, replied to | issue, begin, reply | `PcieEndpoint` |
| DMA contract | "DMA callbacks are SYNCHRONOUS", `ttsim_bm.cc:43-50` | the transfer, the buffer, the host's memory | a callback starts, a piece moves, the callback returns | `DmaPort` |
| time contract | the pacing by `NextSimbricksDeadline`, `ttsim_bm.cc:258-269`, `525-535` | the two clocks, the times at which messages are due | send, deliver, advance a clock | `TimedLink` |
| chip table, `BarTranslate` | `ttsim_bm.cc:186-229`, `ttsim_bm.h` | `chip`, `bar4_size_override` | translation | `BarMap`, instantiated by `TtsimBm` and by `Startup` |
| libttsim | external library | not visible | may call the DMA callbacks inside any call | environment in `TtsimBm` (`LibDma`, `MmioReturns`, `ClockReturns`) |
| start-up | `ttsim_bm.cc:706-1036` | options, `link_up`, device intro | parse, load, callbacks, init, intro, connect, exit | `Startup`, `MCStartup` |
| ABI loader | `libttsim_abi.cc` | function table | `Resolve`, load, unload | `Startup` |
| wait statistics | `ttsim_bm.cc:551-679`, `1002-1005` | `stat_wait_peer_s`, `wait_began`, the statics of `ReportProgress` | begin and end of a wait, progress lines, SIGUSR1 handler | `WaitClock` |
| idle fast path | `perf/libttsim-idle-fastpath.patch` | two counters over per-tile masks | activate, deactivate, push and execute an instruction, sweep or skip | `ChipClock`, `IdleFastpath` |
| image builder | `image/build-tt-image.sh` | work directory, port, QEMU process, output tree | copy, boot, provision, shut down, extract, install, clean up | `ImageBuild` |
| provisioning | `image/provision-*.sh`, `build-tt-kernel.sh`, `install-tt-kmd.sh` | files in the guest | install packages, record kernel version and need of an initrd | the records only (`ImageBuild`) |
| orchestration | `ttsim_sys_py`, `ttsim_sim_bm_py` | parameters | (de)serialise, emit a command line | not modelled: declarative |
| experiments, packaging | `tests/*.py`, `tests/run_probe_test.sh`, `tests/tt_clock_bench.cc`, `conda-recipes`, Makefiles | none | straight-line scripts | not modelled |

### How the parts interact, and what is hard

The adapter is one thread. `RunLoop` sends the SYNC it owes, polls the link
dry, executes the queued MMIO in libttsim and then lets the chip run up to the
next point at which the link needs attention. Inside each libttsim call the
chip may start a DMA; libttsim wants the bytes moved when its callback
returns, while the link offers a request and, some time later, a completion.
`DmaPumpUntil` closes the gap with a second, nested poll loop under a libttsim
call. From that follow the hazards listed in `PROJECT.json`:

* requests arrive in the nested loop, and libttsim is not reentrant
  (`ttsim_bm.cc:36-41`);
* slots are consumed in the order they are allocated, so an unsent one blocks
  what is sent behind it (`ttsim_bm.cc:55-61`);
* a completion carries the address of a stack variable as its id;
* the nested loop moves the same clock as the call it is nested in;
* TERMINATE may be polled at any depth, and the host leaves at once;
* each side waits for the other's time, for the other's answer and for free
  slots, all at once;
* a signal handler reads the statistics between any two statements, and main
  has many ways to fail with libttsim loaded, running or not;
* the idle fast path keeps two unsigned counters in step with masks that change
  at four places, some of them inside the sweep the counters allow to skip;
* an image build talks to a guest it knows only by a port number, next to other
  builds, with commands that fail, hang and leave half of their work behind.

For each component, what makes it correct: the adapter never nests calls and
never holds a slot over one, moves DMA completely, answers every request once
and in order, exits always when told to and otherwise only on an access longer
than it takes, handles no message late and keeps its clock monotonic and within
the window; the link keeps order and timestamps; the BAR map stays inside the BAR
it is given, as long as that BAR ends within the address space;
start-up respects the order the ABI mandates and cleans up when a step fails;
the fast path skips the sweep only when there is nothing to sweep; the image
builder installs images with boot files of their own, as long as nobody builds
under the same name beside it, reads no disk that is in use, leaves no QEMU
behind, and ends.

## 2. Modules

```
SimbricksPcie   BarMap             PcieEndpoint, DmaPort, TimedLink (abstract)
   |    \        /                       :
   |     TtsimBm                         :  refined by
   |        \                            :
 PcieHost --- TtsimSystem . . . . . . . .:
                 |       \
              MCTtsim   TtsimSystemProofs --- TtsimDmaProofs
                                                |
                          TtsimTimeProofs --- TtsimOrderProofs

 Startup (instantiates BarMap) --- MCStartup, StartupProofs
 WaitClock --- WaitClockProofs
 ChipClock (abstract) --- IdleFastpath --- MCIdleFastpath, IdleFastpathProofs
 ImageBuild --- MCImageBuild, ImageBuildProofs
```

**`SimbricksPcie`** is the link: two rings, `h2d` and `d2h`, whose entries have
a type, a timestamp and the fields the properties need. The library is not in
the repository, so the module states what its callers take for granted. A slot
that was allocated and not sent is an entry of type `"held"`; a consumer sees
nothing at or behind one (`Visible`). A poll that finds a message not yet due
remembers its timestamp (`PeekedTs`): `NextSimbricksDeadline` depends on this
side effect (`ttsim_bm.cc:262-265`).

**`TtsimBm`** is the adapter. `pc` is the stage the thread is at and each action
is the code between two looks at shared state:

| action | code |
|---|---|
| `OutSync` | the `while (OutSync)` loops of `RunLoop` and `DmaPumpUntil` |
| `PollMmio`, `PollOversize`, `PollCompletion`, `PollControl` | the cases of `PollPcie` |
| `PollPcieAllEnds` | `PollPcieAll` found nothing: on to the drain |
| `DrainRequest`, `MmioReturns`, `ReplySend`, `DrainEnds` | `DrainDeferredMmio` around its libttsim call |
| `DrainOverrun` | a read longer than the buffer of `DrainDeferredMmio` ends the process there |
| `AllocPcieOut`, `SendPcieOut` | the functions of that name, for completions and DMAs |
| `LibDma` | libttsim calls `DmaMemRead` or `DmaMemWrite` |
| `DmaSend`, `DmaChunkDone` | one turn of their loop over chunks |
| `DmaPumpAdvance`, `DmaCut` | `DmaPumpUntil`: move time, or `exit(0)` after TERMINATE |
| `WaitForPeer`, `JumpToDeadline`, `RunClocks`, `ClockReturns` | the branches of `RunClocks` |
| `LoopTail` | `SimbricksBaseIfInTerminated` and the loop condition |

What is abstracted: the data of MMIO (only its type, target and id remain) and
of DMA (a unit of data is its position, so a unit at the wrong place is seen);
addresses within a BAR; counters and printing. DEVCTRL is consumed and latched
into a variable nobody reads. The length of a write is compared with
`kMaxMmioLen` (308) and that of a read is not, so a read may be longer than the
buffer it is answered from (491-499). That is undefined behaviour, modelled as a
choice: the process ends there (`DrainOverrun`) or nobody notices and the read is
answered like any other (`DrainRequest`).

**`PcieHost`** is the probe, widened to what QEMU may do: several requests in
flight and posted writes. It serves DMA in `Poll`, syncs, and moves its clock to
any time up to the next message or sync, which covers the caps of `PumpUntil`
and of `IdleHold`. A message is placed in two steps (`hOut`, then `HostSend`),
because `AllocOut` waits for a slot without doing anything else. After TERMINATE
the host takes no step.

**`PcieEndpoint`** is what the host may rely on, with no link and no libttsim in
it. **`DmaPort`** is what libttsim may rely on, with no messages in it: between
the start and the return of a callback the units of its transfer move in order,
in pieces no larger than `max_dma_chunk`, and outside of callbacks neither the
buffer nor the host's memory changes. The mode of the port is read off the stage
the adapter is in; buffer and memory are the ones of the detailed system.
**`TimedLink`** is what both sides may rely on when the link is synchronized: a
message is delivered when its receiver's clock shows the time of its sending plus
the latency, neither later nor earlier, and a clock moves on only up to the next
message to its side and up to a latency ahead of the other clock. It has no SYNC
in it and no last timestamp: a SYNC is a message like any other, and of a message
only the time it is due remains (`Stamps`).
**`TtsimSystem`** composes the two processes and states every property.
**`MCTtsim`** gives the constants values.

**`Startup`** is `main()` from the arguments to the exit code. `at` is where it
is; `RunLoop` is reduced to its calls into libttsim and the ways it ends. Every
step may fail, and inside each call libttsim may start a DMA (`Dma`) or end the
process (`LibAborts`).

| action | code |
|---|---|
| `ParseOptions` | `ParseOptions` and the period computed in `main` (876-973) |
| `LibTtsimLoad` | `LibTtsimLoad` and `Resolve` in `libttsim_abi.cc` |
| `LibCalls` | the calls of `main`, `SetupIntro`, `RunSelfTest` and `RunLoop`, in order |
| `InitReturns`, `SelfTestReturns`, `LoopCallReturns` | their returns |
| `SetupIntro` | the identity check and the device intro |
| `InitSimBricks` | the parameters from the url, the handshake, `max_dma_chunk` |
| `LinkUp`, `InstallHandler` | `link_up` is set (995), then the handler for SIGUSR1 (998) |
| `LoopReturns`, `LoopExits`, `ExitReturns` | the ends of the process |
| `Sigusr1` | a profiling signal before line 998 |

The url is what the external parser makes of it. Where the code computes in
64 bits the module does: the times of the url in picoseconds (`InPs`), the data a
message has room for (`Payload`, a difference of two `size_t`) and, in `BarMap`,
the address (`Paddr`) are taken modulo `LongSize`, which stands for 2^64. The
length of a message is whatever the link library says, also one shorter than the
header. Strings, class codes and the
start tick, which only shifts time, are left out; all config reads of a function
are one call.

**`WaitClock`** has the statements that keep `stat_wait_peer_s`, one action per
store where a signal may come between two (`DeadlinePassed`, `SetBegan`;
`EndWait`, `Store`), the readers `ReportProgress` and `DumpProfile`, and a wall
clock. `marked` and `idle` say what really was waited. None of the statistics
is volatile or atomic, so the two stores that end a wait may be seen by the
handler in either order; those that begin one may not, because a call lies
between them. When RunClocks has to wait is open in this module; `TtsimBm` has
the condition.

**`ChipClock`** is what libttsim does with the masks of active cores and pipes:
who sets and clears a bit, and the sweep over the tiles that
`clock_current_chip` makes on each clock. libttsim is not in the repository; the
patch quotes the lines around its changes, and everything else is as wide as
they allow: while a core of the tile at hand runs it may start, stop and feed
any core and pipe of any tile, and so may the host between two clocks.
**`IdleFastpath`** adds the patch:

| action | code (`perf/libttsim-idle-fastpath.patch`) |
|---|---|
| `CountTileCore` | `ttsim_rv32_set_core_active`: the difference of two popcounts (40-47) |
| `CountPush` | an instruction is queued, its pipe becomes active (54-62) |
| `CountExec` | an instruction is executed, a drained pipe becomes idle (80-84) |
| `SkipSweep` | both counters are 0: `goto eth_tiles` (73-75) |
| `Sweep` | the sweep as it was (76-94) |

The counters are words (`WordSize` stands for 2^32) and wrap. What an
instruction does is left out, but that a core may do anything to the masks.

**`ImageBuild`** is `build-tt-image.sh`, run several times at once on one
machine. `at` is the command that comes next. A guest boots, hangs, powers off
or dies when it likes, and each command may fail or be interrupted before it did
anything (`Fails`) or half-way (`FailsHalfway`).

| action | code (`image/build-tt-image.sh`) |
|---|---|
| `Start` | the checks of the options, the choice of `PORT` (65-97) |
| `Copy` | `qemu-img` (108-119) |
| `Boot`, `NotePid` | QEMU is started in the background (122-127), then `QEMU_PID=$!` (128) |
| `QemuBinds`, `GuestRuns` | external: QEMU forwards the port or exits; the guest |
| `Talk` | the loop around `ssh_g true`, and `tar` through ssh (130-147) |
| `Provision`, `Shutdown`, `Halt` | the provisioner, `shutdown -P`, the wait for QEMU and the kill (148-165) |
| `Extract`, `DropInitrd`, `Initrd`, `Install` | kernel put in place (167-174), old initrd removed (180), initrd put in place (181-189), image installed (192) |
| `Cleanup` | the trap (76-94) |
| `GivesUp` | the ends the script itself has: time-outs and failed checks |

An ssh reaches whichever guest has the port (`Reaches`). A disk is what the
provisioners record on it, which of them ran, and nothing more. Several builds may
have the same name, and then share its boot directory; `alone` is a history
variable that says of a build that no other one has written there since its own
`Extract`. An entry of `Builds` is a slot in which one build after another runs; as
a bound, a slot whose QEMU was left behind is used again only when that has ended.

Operators marked `Fault:` are not part of any
specification: each is a plausible mistake in the definition it precedes,
against which a property of the runs is sharp (`mutants` in `PROJECT.json`).

## 3. Runs

| run | question | bounds |
|---|---|---|
| `Unsync.cfg` | the two invariants of `ttsim_bm.cc:36-61`, the DMA contract, the exits, the refinements of `PcieEndpoint` and `DmaPort`; is a request or a chunk lost, is every request answered, does TERMINATE end the adapter | 3 requests out of 5 kinds (a read, a write and a posted write that hit, a write that is too long, a read that is and misses), 2 in flight, 2 DMAs of 3 units in chunks of 2, rings of 2 slots, TERMINATE at any moment; 554 k states |
| `Sync.cfg` | is anything late, is every message handled when it is due (the refinement of `TimedLink`), do the clocks stay together, does time go back, does it go on, is the request answered, does TERMINATE end the adapter, do its syncs find room | latency and interval 4, clock steps of 2, one per call, a DMA of two chunks, a DMA cap of 2, rings of 5, host clock to 34; 251 k states |
| `SlowClock.cfg` | finding: is the chip clocked | clock step 3, window 2, host clock to 8 |
| `WaitAccounting.cfg` | finding: is a counted wait idle | latency and interval 2, clock steps of 1, rings of 6, host clock to 6 |
| `Startup.cfg` | order of the ABI calls, what reaches the link, the intro, what BarTranslate lets through, the parameters, the exit code | 3072 command lines, 4 libraries, 6 identities, both rows of the chip table in MiB, 4 values of `--bar4-size`, 4 message lengths, 5 calls before `lib.exit`; a word of 8 values, a long one of 131072, 10 ps in a microsecond; 275 k states |
| `UrlUnits.cfg` | finding: the unit of the url | as `Startup.cfg` |
| `WaitClock.cfg` | is the total exact, are progress lines consistent | wall clock from 5 to 10, a call every 2 iterations, lines every 2 units; 650 k states |
| `FirstLine.cfg`, `ProfileSignal.cfg` | findings: the first line, the signal between two stores | as `WaitClock.cfg` |
| `IdleFastpath.cfg` | are the counters exact, does the patched library do only what the unpatched one may | 2 tiles of 2 cores and 2 pipes, 1 ethernet core, queues of 3 (2 usable), a word of 8 values; 16 k states |
| `ImageBuild.cfg` | are disks read only when quiet, does a script leave a QEMU behind, are the boot files an image's own, does every build end | 3 builds, 2 at a time, on 2 ports; 3 kinds of builds under 2 names; 517 k states |
| `PortRace.cfg` | finding: does a build talk to its own guest | 2 builds, otherwise as `ImageBuild.cfg` |

Why the bounds are enough. The adapter has one DMA and one request in hand at a
time; what can differ between the second and the third is only what is queued
behind it, and three requests with two in flight put one in the queue while
another is executed with a DMA pumped under it. A DMA of three units in chunks
of two has a full and a short chunk. Rings of two slots fill up. On a synchronized link the host may stop its clock at any
tick, so windows that are no multiple of the clock step occur, with both the
rounding and the jump to the deadline; the cap on the clocks of a call and the
cap of the DMA pump are below the window. A DMA takes two latencies per chunk and
a request two more, so a request issued at 4 that starts a DMA of two chunks is
answered by 34 at the latest, which is the horizon. Rings of 5 are the smallest
with which no run of this instance blocks. `Horizon` is where unsynchronized time,
which nobody reads, saturates.

The options of `Startup.cfg` have a value on each side of every check: a
frequency of 0, below, at and above one step per picosecond, a batch of 0, one
that is cut to 0, one that is cut to 1 and one that is not cut, messages shorter than
their header, as long, and with room for less and for more than the cap, a latency
of 0 and an interval that wraps to 0, a BAR4 that ends within the long word and one
that ends beyond it. In `WaitClock.cfg` two waits, three progress lines and a
signal in each window fit between 5 and 10; the clock starts above 0, as the
monotonic clock does.

In `IdleFastpath.cfg` a pipe fills, drains in the sweep, and fills again from a
core of the tile that is swept, of the other tile or of an ethernet tile; two of
each suffice, as the counters only add over tiles and bits. The word is the
smallest power of two that can count them.

In `ImageBuild.cfg` three builds are what it takes to build a name twice, by two
provisioners of which one leaves an initrd and one does not, while another build
is under way; two ports may or may not be shared. The image a build starts from
may be the one that another build replaces.

Assumptions the runs or the properties make and the code does not check:

* a message is longer than its header (`msgLen > HeaderLen`), and the times in the
  url are not 0 and do not wrap when they are multiplied (`TimesFit`). These are
  the premises of the last two conjuncts of `LoopParamsUsable`. With an empty chunk
  a DMA callback never returns; `TtsimBm` assumes a chunk, a latency and an
  interval of at least 1;
* BAR4 ends within the 64-bit address space (`Bar4Fits`). Otherwise the address
  wraps and `StaysInItsBar` fails; `--bar4-size` is taken as it is (912);
* the sync interval is at most the latency. Otherwise both sides stop at the
  last timestamp they saw with no sync owed. Every configuration in the
  repository uses equal values; `NobodyWaitsForEver` proves that this suffices;
* the rings have room. `AllocPcieOut` and the host's `AllocOut` wait without
  polling, two full rings block both, and the loop at `ttsim_bm.cc:687` does not
  look for TERMINATE. `RoomNeeded` is what the adapter's ring must take: the
  `MaxOutstanding` completions the host may wait for, one chunk, the syncs of two
  latencies, and one more. `OutputHasRoom` says that with this much the adapter
  never waits for a slot. The bound is exact: `Sync.cfg` has it (5), and with 4
  TLC finds the adapter that spins on a full ring after the host has left. Without
  synchronization there are only completions to be polled, and
  `MaxOutstanding + 1` slots suffice; `Unsync.cfg` has one less, where the adapter
  does wait for slots, and is answered. Real rings have thousands of slots.

Deadlock is checked in all runs but those of `IdleFastpath` and `ImageBuild`. `Finished` (in `Startup`: `Done`)
marks the one state in which the system may stop, the adapter having exited. In
`IdleFastpath.cfg` a full queue ends the process, and in the runs of `ImageBuild`
there is nothing to do when `MaxStarts` builds are over and their guests are gone.

### Fairness

`FairSpec` gives weak fairness to the adapter (the thread is scheduled, and a
libttsim call makes progress: it may start only `MaxDmas` DMAs and then returns)
and to each stage of the host's loop, which `PumpUntil` and `IdleHold` run in
turn: sync, send, poll, advance. Nothing makes the host issue a request or
terminate. Weak fairness is enough because each of these stages, once enabled,
stays so until it is taken.

In `ImageBuild`, `FairSpec` gives weak fairness to each build's `Proceeds` (the
shell runs the next command when it can succeed) and `GivesUp` (time-outs pass,
a failed check ends the script). Guests get none: they may hang or be off for
ever, and no build needs to be started.

### What the runs show

All properties listed for the passing runs hold. Six runs show where the code
departs from what it says of itself:

* **A slow device is never clocked** (`SlowClock.cfg`, `ttsim_bm.cc:566`).
  `RunClocks` drops the remainder of window divided by step in every window. If
  the step is longer than the window all of it is remainder, and `libttsim_clock`
  is never called, whatever `--clock-freq-mhz` was asked for. With steps of 1 or
  of 2, the whole window, the property holds. `tests/run_probe_test.sh:99-102`
  runs such a configuration; its DMAs start from MMIO, so it passes.
* **The wait that is counted is not always idle** (`WaitAccounting.cfg`,
  `ttsim_bm.cc:561`). MMIO that arrives at the deadline, and the DMA under it, is
  executed with `waiting_for_peer` set, so "idle waiting on peer" includes time
  spent inside libttsim.
* **The usage text has the wrong unit** (`UrlUnits.cfg`, `ttsim_bm.cc:793`). It
  asks for `latency=<ps>:sync_interval=<ps>` (853-854); both are read as
  nanoseconds, as the comment at 786-791 and the repository's README say.
* **The first progress line is about two different times** (`FirstLine.cfg`,
  `ttsim_bm.cc:641`). The first call of `ReportProgress` remembers the time but
  none of the sums, so the first line divides everything since the link came up
  by the time since that call.
* **A profile may show a wait that never was** (`ProfileSignal.cfg`,
  `ttsim_bm.cc:561`). `waiting_for_peer` is set before `wait_began`; a signal
  between the two adds the time since the previous wait began, or since the
  machine was started.
* **Builds do collide** (`PortRace.cfg`, `image/build-tt-image.sh:97`). The port
  is bound, read and closed again; QEMU binds it after the base image was copied.
  When two builds were given the same port, the second QEMU exits, but the loop
  at 132 tries ssh before it looks at QEMU (138), so the second build provisions
  the first one's guest and shuts it down. The comment at line 96 says the port
  is picked "so concurrent builds do not collide". `BootFilesMatch` holds all
  the same: a build that succeeds reads the records on its own disk.

Noted, but not claimed as a finding: `BuildsEnd` has an exception for a guest
that accepts a connection and then hangs, because `ConnectTimeout` does not cover
the session and three of the four ssh commands have no other time-out (lines
132, 147 and 155); `BOOT_TIMEOUT` is looked at only between two of them.
`LeavesNoQemu` has one for a script that ends between starting QEMU (127) and
`QEMU_PID=$!` (128): the trap does not know of that QEMU, which goes on, on a
deleted disk. `BootFilesMatch` is about a build that is `alone`: nothing keeps two
builds from having the same `NAME`, which has a default (39), and both write to
`$DEST/boot` (174, 180, 186) before they move the image (192), so one may end
beside the other's kernel; TLC finds that at once without the condition. A build
that fails after line 174 leaves its kernel beside the old image. The comment at
`ttsim_bm.cc:91-93` calls `kMaxMmioLen` the largest access that is accepted, but a
read of any length is (295); `DrainOverrun` says where that may end. The handler for SIGUSR1 is installed when the link
is up (`ttsim_bm.cc:998`), and until then the signal ends the adapter (`Sigusr1`
in `Startup`). Whether the orchestration signals that early is not visible in
this repository.

## 4. Proofs

`TtsimSystemProofs` proves, for every instance that satisfies the assumptions
`LinkAssumption`, `GeometryAssumption`, `TtsimAssumption` and `HostAssumption`
(positive latency, interval, ring size, clock step, batch and chunk; the rest
natural numbers):

* `TypeCorrect`: `Spec => []TypeOK`
* `SlotsNeverHeldAcrossCalls`: `Spec => []HeldSlotIsLast`
* `LibttsimNotReentered`: `Spec => NoNestedCalls`

by the inductive invariant `ProtocolInv == TypeOK /\ SlotInv /\ CallInv`.
`HeldSlotIsLast` alone is not inductive: `SendPcieOut` fills the last slot, so
the proof needs that there is one, and that it is the held one, whenever the
thread is about to send (`SlotInv`). `NoNestedCalls` needs to know that the
stages that start a call are reached with none on the stack (`CallInv`), which
holds because the DMA stages lead back to `lib` and the others to the loop. The
step lemma has one case per action; actions that leave the ring alone are
treated together (`StagesProtocol`).

`TtsimTimeProofs` proves

* `MessagesInTime`: `Spec => []NothingLate`
* `ClocksTogether`: `Spec => []SkewBounded`
* `SyncsInTime`: `Spec => []WithinWindow`
* `TimeMonotonic`: `Spec => TimeNeverBack`
* `NobodyWaitsForEver`: `Spec => []NoMutualWait`

The first four follow from `TimedInv`. On a synchronized link each ring is ordered by timestamp, from
the one its consumer saw last to a latency ahead of its producer's clock
(`Ordered`), and each clock is at most at what it saw last; the adapter's is at
most at the sync it owes. A clock call keeps its target inside both limits,
although a DMA under it polls and syncs: `Ordered` makes the timestamps it sees
only later, and a slot allocated under it moves the next sync only later. What
it takes is that the deadline is computed after polling dry, that `Budget`
rounds down, and that `JumpToDeadline` and `DmaPumpAdvance` stop at the
deadline. Neither the latency nor the interval need be related for these.

* `LinkKeepsTime`: `ASSUME IsSync PROVE Spec => ImplementsTimedLink`

is the refinement of `TimedLink`, by `TimeInv` before and after the step. A slot
that `AllocPcieOut` or `OutSync` takes, and the host's `HostSend`, are `Send`: the
timestamp is that of the moment, and `SendPcieOut` keeps it (`SendsFill`). What a
poll takes is at most at the clock, because `InPoll` asks for that, and at least
at it, because the clock has not passed the last timestamp seen and the ring is
ordered from there on; so it is due now (`AdapterPolls`). A step that moves a
clock leaves the rings alone, and the invariant after it says that the clock is
at most at the last timestamp seen, which is at most that of every message to
come and at most a latency ahead of the other clock (`AdapterAdvances`,
`HostAdvances`). It assumes that the link is synchronized: without that, time
means nothing and messages are handled when they are found.

`NobodyWaitsForEver` needs `SyncInv` besides: the newest timestamp on the way to
a side, or the last it saw when there is none, is the one at which the other
side last reset its next sync. If both rings are empty, both clocks have reached
what they saw and neither owes a sync, then each clock is a latency behind the
other's last sync and less than an interval ahead of its own, which an interval
of at most the latency excludes.

* `AdapterNeverWaits`: `Spec => []OutputHasRoom`

counts what the ring can hold when the adapter takes a slot. The completions in
it have different ids, which the host still waits for (`AwaitedInv`, in
`TtsimOrderProofs`), so they are at most `MaxOutstanding` (`FewCompletions`). A
chunk is asked for by at most one message, and by none outside the pump
(`FewAsks`, from `FlightInv`). The syncs are an interval apart and the next one
is that far from the last (`SpacedInv`); their timestamps lie between the host's
clock and the adapter's clock plus the latency, and that clock is itself at most
a latency ahead (`TimeInv`). Counting from the host's clock in intervals, no two
syncs are in the same one (`SyncsInIntervals`), so they are at most
`2 * LinkLatency \div SyncInterval + 1`, and one fewer when a sync is owed
(`FewSyncs`). No slot is held then (`HeldSlotIsLast`), so these are all.

These invariants were checked with TLC on the instances above before they were
proved.

`TtsimDmaProofs` proves, for every size of DMA and every chunk limit,

* `SlotsAwaitTheirCompletion`: `Spec => []CompletionsFitLiveSlot`
* `CallbacksReturnWhole`: `Spec => []DmaSynchronous`

by `DmaInv == FlightInv /\ DataInv`. That a completion fits says nothing of what
may still cause one, so `FlightInv` follows a chunk all the way: it is in at most
one of the request ring, the host's hands and the answer ring, as at most one
message, and that message names the chunk in flight while its slot is open. The
next chunk is only asked for when the slot is done, and then nothing of the last
one is left (`NothingInFlight`). `DataInv` says what has been moved so far: for a
read, what is at `dst` when the slot is done or open; for a write, what the host
holds before and after it has answered. `PastInv` keeps the units of a new write
apart from those of earlier ones.

* `CallbacksImplementPort`: `Spec => ImplementsDmaPort`

is the refinement of `DmaPort`, by the same invariant and `StartedInv`. There is
one lemma per abstract action: `LibDma` starts a callback (`PortStarts`), polling
a READCOMP moves a piece of a read (`PortBrings`), the host's poll of a write
moves one of a write (`PortStores`), the last chunk done returns (`PortReturns`),
and an exit is `Die` wherever it happens (`PortDies`). All other steps are unseen
(`PortUnseen`). The data invariants give `Moved` before each piece; that no ask
is on the way outside of a callback (`FlightInv`) is why the host's memory is
only written under one. A piece may still arrive after the adapter has died on an
oversized request, which is why `Move` does not ask for a live process.

* `EndsAreOrderly`: `Spec => []EndsForCause`

by `EndInv`: a TERMINATE in the ring, or `exiting`, is there only when the peer
has gone; and by `LongInv`: a request that is too long, on its way or in `mmioQ`,
is one that the host issued so.

`TtsimOrderProofs` proves the refinement

* `DeviceIsEndpoint`: `Spec => ImplementsEndpoint`

by `EndpointInv == OrderInv /\ ReplyInv`. `OrderInv` follows a request from the
host to `r`: first it is coming (in the host's hands or in its ring, which are
one sequence, so sending changes nothing), then in `mmioQ`, then in `r`.
`InLine` says that what is coming holds exactly the requests after those in
`mmioQ`, in the order of issue; `mmioQ` holds exactly those after `r`. So the
request taken off `mmioQ` is the next one, even when a DMA callback polled it in
the middle of a libttsim call, which is what `Begin` of `PcieEndpoint` asks for.
`ReplyInv` says that of the requests begun all are replied to but the one in
`r`, and that one is not replied to while `Serving`. It gives the guards of
`Begin` (all that are waited for are replied to) and of `Reply` (not twice).
Each action is shown to be `Issue`, `Begin`, `Reply` or unnoticed
(`Unnoticed`).

* `NothingIsLost`: `Spec => []NothingLost`

is the part of `RequestsAnswered` that can be proved. `PcieEndpoint` allows a
request never to be replied to; this says where each one is meanwhile. The half
about requests is read off `EndpointInv`: the ids in `r`, in `mmioQ` and in what
is coming leave no gap up to the last one issued. The half about the chunk needs
`PendingInv`: `DmaInv` says that a chunk is at most once on the way, and the pump
would wait for ever if it were nowhere. What fairness adds, that each place is
left, is for TLC.

`StartupProofs` proves, from `StartupAssumption` and, for the BARs,
`ChipsAssumption` (the BARs of a chip follow each other, as in the chip table),

* `CallsInOrder`: `Spec => []InAbiOrder`
* `EntryPointsThere`: `Spec => CallsResolved`

by `CallInv`, which says for every stage of main which calls have been made and
that the required entry points are resolved; the order of the sequence is not
inductive without it. `OneMoreCall` is the lemma about appending a call that may
follow.

* `ParametersUsable`: `Spec => []LoopParamsUsable`
* `LinkUntouchedBefore`: `Spec => []NoMessageBeforeLink`

follow from `ParamInv`, which carries what `ParseOptions` checked from stage to
stage up to the link. `PeriodPositive` is the argument about the division at
`ttsim_bm.cc:969`. `ChunkFits` (a message longer than its header leaves room for a
chunk, and the difference of the two `size_t` does not wrap) and `TimePositive` (a
time that is not 0 and does not wrap stays positive) are the ones about
`InitSimBricks`; their premises are premises of the property too.

* `BarsKeptApart`: `Spec => []StaysInItsBar`
* `IntroFitsTranslation`: `Spec => []IntroIsMapped`

follow from `ChipInv` (once the link is up the chip is one of the table and the
intro is its row with the override) and a lemma about `BarTranslate` for every
offset and length, of which the property checks the edges. The comparisons at 224
cannot wrap. The sum at 227 is a `uint64_t`, and does not wrap when BAR4 ends
within the address space (`Bar4Fits`), which is a premise of `StaysInItsBar`.

* `ZeroMeansService`: `Spec => []SuccessIsService`

follows from `RetInv`, which follows `ret` from stage to stage.

`WaitClockProofs` proves

* `WaitTypes`: `Spec => []TypeOK`
* `TotalExact`: `Spec => []TotalIsIdle`
* `LinesFitLater`: `Spec => []LaterLinesFit`

by `WaitInv`: outside the stretches where a wait is half recorded, what a reader
computes is the time that was waited, and inside them what is still to be stored
makes up for it. `ReportProgress` never runs inside one, the signal handler may.

`IdleFastpathProofs` proves, for any finite sets of cores and pipes that the
word can count (`ChipAssumption`, `WordAssumption`),

* `FastpathTypes`: `Spec => []TypeOK`
* `PipesMarked`: `Spec => []MarkedIffQueued`
* `CountersRight`: `Spec => []CountersExact`
* `FastpathRefines`: `Spec => ImplementsUpstream`

by one inductive invariant, the conjunction of the first three. A change of one
mask changes the set of all active bits by at most one element, which gives the
cardinality; `WordAssumption` keeps the sum below the word, so modulo is exact
also for a negative difference. Skipping is a step of `ChipClock` because a set of
cardinality 0 is empty. The library's facts about sums take operators as
parameters, so the counts are stated as cardinalities of sets of pairs.

`ImageBuildProofs` proves, for any number of builds, ports, jobs and starts
(`BuildAssumption`),

* `BuildTypes`: `Spec => []TypeOK`
* `DiskIsQuiet`: `Spec => []QuietDisk`
* `ScriptsLeaveNoQemu`: `Spec => LeavesNoQemu`
* `BootFilesAreItsOwn`: `Spec => BootFilesMatch`

by `Inv == TypeOK /\ Quiet /\ Made`. `Quiet` says where QEMU is off, before `Boot`
and after `Halt`, and that a script at work on a QEMU knows its pid, so that the
trap finds it; between `Boot` and `NotePid` neither holds, which is the exception
in `LeavesNoQemu`. `Made` says what `boot` holds after `Extract`, `DropInitrd` and
`Initrd` of a build that was left `alone`. Names may be shared: whoever writes to a
boot directory ends `alone` for the other builds of that name, which is what the
lemma `KeepsFiles` asks of every step of another build. A disk in those stages does
not change because only a guest that is up is provisioned, which `Quiet` excludes.

Only model-checked: `RequestsAnswered`, `TerminateEndsDevice`, `TimeAdvances` and
`BuildsEnd`, because liveness under fairness is outside the prover. Every
invariant and action property of a passing run, and every refinement, is proved.

## 5. Not modelled

* `ttsim_sys_py`, `ttsim_sim_bm_py`: classes that hold parameters, serialise
  them and emit the command line that is the input of `Startup`. They keep no
  state between calls.
* `tests/*.py`, `image/tt_matmul_demo.py`: each builds one simulation, or runs
  one computation, from top to bottom.
* `tests/run_probe_test.sh`, `tests/tt_clock_bench.cc`: the first chooses
  parameters for runs of the adapter and the probe, the second measures time.
* The provisioning scripts, but for what they record: package installation and a
  kernel build.
* The options of `build-tt-image.sh` that change only where files are, and `-B`,
  whose overlay stops working when the base image is replaced.
* The Makefiles and the conda recipes.
* The composition of `Startup` with `TtsimSystem`. `LoopParamsUsable` is the part of
  `TtsimAssumption` and `LinkAssumption` about what `Startup` computes: period,
  batch, chunk, latency and interval. `Startup` is checked and proved to establish
  it under two conditions that nothing in the code checks: a message longer than
  its header, and times in the url that are not 0 and do not wrap. `TtsimBm`
  and `WaitClock` divide the waits likewise: when one begins and ends is the
  first's, what is counted then is the second's.
* The data of MMIO and DMA, and counters that are only printed.
