# Verification of hypersh

hypersh is a set of plugins for a fork of QEMU and a small guest-side shell.  A
guest program issues a reserved system call (712) with a command string; the
`hypersh` plugin hands the command to another plugin, which observes the guest:
`trace` records instruction streams for an architecture simulator, `mcount`
counts memory accesses in bins of guest memory, `pmem` samples memory accesses,
`slomo` counts instructions and slows the guest down.

This directory holds TLA+ modules that model the program, TLC configurations that
check small instances of them, and proofs that TLAPS checks for every instance.
`PROJECT.json` lists components, runs, the source lines each definition
models, mutants that show that each checked property depends on the code,
findings, hazards and theorems.

To check: `tlc -config TraceSession.cfg MCTraceRecorder` (and so on for each
run; the table under Runs names the module of each), and `tlapm X_proofs.tla` for
the eight proof modules.

## The system

QEMU runs one thread per vCPU (MTTCG).  A thread alternates between translation
blocks (TBs), straight pieces of guest code, and the boundaries between them.
Plugin callbacks run on the thread of the vCPU: inside a TB (instruction, memory
and TB-execution callbacks, system calls) or at a boundary (idle, resume,
interrupt).  Translation calls `vcpu_tb_trans_cb`, which decides what callbacks the
TB carries for as long as it stays in the code cache.  Flushing the cache and
resetting a plugin need all vCPUs stopped: that work is queued on the vCPU that
asked and runs at its next boundary, when every other vCPU has reached one.

| Component | State | Operations | Interacts through |
|---|---|---|---|
| guest library and shell (`guest/`) | command buffer | `hypersh_exec`, `trace_*`, `seg_*`, `user_msg`, the read loop | system call 712 |
| dispatcher (`host/hypersh.cc`) | one static `buf[128]` for all vCPUs | `vcpu_syscall_cb` | `qemu_plugin_send_control`; shares `getopt`'s `optind` with all plugins |
| trace, control (`trace/control.cc`) | `recording`, `current_mode`, `roi_cr3`, `thread_data[].output`, `trace_files` | start, stop, mode, reset, gmm, magic; callbacks of flush and reset | exclusive work of QEMU; globals read by the callbacks; the simulator, through fifos |
| trace, callbacks (`trace/callbacks.cc`) | `thread_data[]`: counters, branch record, flags | one callback per TB, instruction and memory access; idle, resume, interrupt, syscall | `Sift::Writer` of the vCPU; `current_mode`, `roi_cr3`, `magic` |
| basic block vectors (`trace/bbv_count.cc`) | 16 counters | `count`, `clear` | none (unused) |
| mcount (`host/mcount.cc`) | `cfg`, `kmaps`, `umaps`, `acc_cnt`, `acc_io_cnt`, `flush_mtx` | memory callback, `flush`, start, stop, tag | `flush_mtx`; `cfg.mode` read without it |
| pmem (`host/pmem.cc`) | `pmem_file`, `pmem_count`, `mode`, two mutexes | memory callback, start, stop | the two mutexes |
| slomo (`host/slomo.cc`) | atomic `icount` | TB callback, interrupt callback, start, stop | slow-motion rate, which trace sets too |

What is hard in this code, and what makes each part correct:

* **trace, control.**  A command changes `current_mode` while other vCPUs run TBs
  translated for the old mode, and the stop makes every Writer pointer null
  while callbacks use them.  Correct means: TBs carry the right instrumentation
  or are about to be dropped; no callback meets a null Writer; QEMU's rate, the
  simulator and `current_mode` agree; a session starts clean and ends when asked.
* **trace, callbacks.**  A branch record is put together by three callbacks of
  one TB and one of the next; counters are shared between modes; `Sync` keeps the
  vCPU close to the simulator.  Interrupts, exceptions and mode switches come between.
* **mcount.**  Plain integers are incremented while another thread prints and
  zeroes them; a stop closes the file other threads may be about to write to.
  Correct means that counts add up, one thread flushes, nobody writes to a closed
  report, and a stop ends.
* **detailed mode.**  A vCPU blocks in `Sync`, inside a TB, until the simulator has heard
  from every active vCPU; QEMU's exclusive work blocks until every vCPU has left its
  TB.  Each wait is invisible to the other.  Correct means that a stop ends and
  every `Sync` returns.
* **pmem.**  A stop closes the file and switches the mode off without a lock while
  accesses are under way.  Correct means that sampling leaves no gap longer than the interval, that no
  access of one session prints in the next, and that nothing but a stop makes printing fail.
* **slomo.**  The counter is printed and zeroed in two steps, on any vCPU: correct
  means that what is lost or printed twice is confined to overlaps.
* **dispatcher, guest.**  One buffer and one `optind` for all commands of all
  vCPUs.  Correct means that a plugin does what the command line says.

## Modules

### TraceRecorder

The control plane of trace, for any number of vCPUs.  `pc[v]` is where the thread of
vCPU `v` is: at a `"boundary"`, in a `"tb"`, inside a `"writer"` call of a callback, in
the execve loop (`"exec"`), in `recorder_start` before (`"enter"`) or inside
(`"open"`) the blocking open of a fifo, or waiting for exclusivity (`"excl"`).
`tb[v]` is how the TB under execution was instrumented, `cache` the tags present in
the code cache, `work[v]` the exclusive work queued.  A system call ends its TB and
queued work is done before the next TB, so one slot per vCPU is enough.  The other
variables have the names of the source.  `output[v]` is `null`, `open`, `failed`
(constructor returned, `IsOpen()` false) or `ended` (after `End()`).  `dirty[v]` stands
for all statistics of `thread_data[v]`: some counter is not zero.  `told` is the mode last sent
with `Magic` in this session.  `fault` records that a null Writer was dereferenced,
and by what, or that the assert failed; QEMU is then gone and nothing else happens.

One action per command (`recorder_start`, `recorder_mode`, `recorder_stop`,
`recorder_reset`, `recorder_gmm`), early returns included.  Code that does not block is one
step; `recorder_start` is cut at each open of a fifo, where it waits for the simulator
(`openFile`, `openFileDone`) and other vCPUs go on.  The callbacks queued with
`qemu_plugin_vcpu_tb_flush` and `qemu_plugin_reset` are the actions `mode_switch_cb`,
`recorder_reset_cb` and `recorder_stop_cb`; `Exclusive` says that they run with all other
vCPUs at a boundary and drop every TB.  `mkdtemp` and `mkfifo` are assumed to succeed.  Callbacks
at a boundary (`VcpuEvent`) do not run during exclusive work, as the code assumes
("We should be running exclusively in reset callback", control.cc:144).
`ConcurrentCommands` says whether two vCPUs can be inside trace commands at once; the
guest's mutex is commented out (hypersh.h:16), so it is up to the guest program.

### Mcount

mcount for any number of vCPUs, any memory and any sizes a start may ask for (`MemBins`, `AccBins`).  `pc[c]` follows
`hypercall_mcount_cb`: counted (`"count"`), elected to flush and waiting for the lock (`"lock"`),
flushing (`"flush"`, one row of the maps per step, `pos` rows done), past the
flush (`"bin"`), holding the lock shared before the load (`"load"`) and before
the store (`"store"`) of a counter.  Commands are `"init"` (mode published, maps not yet
cleared), `"fini"` (waiting for the lock) and `"close"`.  `exclusive` and `shared` are
`flush_mtx`.  An increment of a map element is a load and a store, for it is a plain
integer; `++acc_cnt` is atomic and one step.  `resetting` holds the vCPUs with a queued
`qemu_plugin_reset`.  `hits`, `reported`, `flushes` and `lost` are history variables that
only the properties read.  Counters are natural numbers: the wrap-around of `uint32_t`
cells after 2^32 accesses between two flushes is not modelled.  `MaxAcc` stops new accesses when
`acc_cnt` or a cell reaches it.  A start takes two sizes from its command line: `mcount_start` sets
`mem_bin` and `acc_bin` and publishes the mode, `mcount_start_finish` gives the rows their new length
(`resize`; `size` is the length of every row, `arg` the parameter it is computed from) and clears them.  A count takes its
index from `mem_bin` and checks it against `size`; beyond it the outcome is fault `"bounds"`.
`RestartWhileRunning` lets a start arrive while a session runs, which replaces the sizes and resizes the maps
without the lock: accesses between the two steps then divide by the new `mem_bin` and index rows of the old length.

The `tag` command changes no state: `-t` is missing in the option string (mcount.cc:191),
so it always fails.  Hypersh models it.

### VcpuStream

The callbacks of trace on one vCPU.  The guest program is the constant `Code`.
`StartTB` is all TB-start callbacks of one TB in registration order (hot blocks,
itlb and icache records excepted), `Insn` those of one instruction and the instruction
itself, `MemAccess` those of one memory access.  `Exception` leaves a TB anywhere,
`Interrupt` diverts between TBs.  `cached` is the mode of older TBs that are still usable between the
direct switch to detailed mode and its flush, as TraceRecorder shows them to be; the
switches to the other modes empty the cache.  `told`, `unsynced`, `setback`, `goal`,
`misled` and `switches` are history variables.  Not modelled: the arguments of
`Translate` and `SendICache`, loads, stores, user and other counts, `pc`, `tb_vaddr1/2`.

### Session and TraceRefinement

`Session` is what the control plane promises, without TBs, code cache or exclusive work: a
session starts when every client has its link; it is in one mode at a time; a request (a
mode, or a stop) is answered once, with the effect asked for; only a stop ends the
session.  `TraceRefinement` maps TraceRecorder to it: `phase`, `mode`, `link` and `asked`
are state functions of `recording`, `current_mode`, `output` and `work`.  Detailed mode is
`Immediate`, for `recorder_mode` sets it in the command; the others are asked
for and granted by the flush callback.  A request may be granted in a
later session than its own: two stops from two vCPUs can end two sessions, and a
request for the mode that is current is dropped, even if another switch is queued.
`Session!Spec` is what the control plane implements (`ImplementsSession`).  `Session!Fairness`, a request that stays grantable is
granted, it implements only if every Writer call returns (`SessionAnswers`), which `CallsReturn` says and the simulator decides.

### TraceSimulator

TraceRecorder with the simulator at the other end of the Writers, for detailed mode.  The new
state is `idle` (`thread_data[v].idle`, of which the simulator is told), `halted` and
`waiting` (inside `Sync`).  `SyncResponse` is external: it answers when every vCPU that is
neither idle nor ended is waiting, which is how the comments at control.cc:134-139 and 279-286
describe the simulator.  The steps of TraceRecorder are taken over, for vCPUs that are not held
up, except those that do not wait for anyone: execution callbacks that only write, interrupts,
execve, reset, gmm.  `Commanders` are the vCPUs whose guest threads send commands.

### Histogram and McountRefinement

`Histogram` counts one access at a time, and a report brings what was printed up to
what was counted, in one step.  In `McountRefinement` a flush counts as done from its first step on:
`printed` adds the rows it has still to print.  That this is a refinement says that the rows,
printed one after the other, are a snapshot of one moment.

### Pmem

`pc[c]` follows `hypercall_pmem_cb`: `"count"` (mode checked, before `count_lock`), `"store"` (holding
it between the load and the store of `pmem_count`), `"match"` (sampled), `"print"`; and
`hypercall_pmem_fini`: `"close"`, `"clear"`, `"off"`, one shared variable per step.  `"start"` is between
the `fopen` and the rest of `hypercall_pmem_init`.  `pmem_count` wraps at `CountMod`.  Commands come
from one vCPU.  `begun`, `since`, `old`, `restarted` and `unopened` are history variables.  The
initial mode is `PMEM_ON`, as static memory is zero.  A filter that names only a direction or only a
privilege prints nothing, since an access must match in both (pmem.cc:69): `Match` does that.

### Slomo

`vcpu_tb_exec_cb` is one atomic step; `vcpu_interrupt_cb` is two, `PrintIcount` and
`ZeroIcount`.  A stop queues the reset and leaves the counter and QEMU's slow-motion rate as they are.

### Hypersh

From a guest's command line to the effect in a plugin.  A line is a sequence of words,
`Meaning` says what each asks for.  `hypersh_exec` is the system call (the shell sends its last line again at the end
of its input, hypersh.c:27-29); `CopyHead` and `CopyRest` fill `buf` in two steps;
`Parse` dispatches; `SendToNobody` is `debug` without pmem, whose control goes to the null plugin id unchecked
(hypersh.cc:54-57), with both outcomes QEMU can have; `getopt` is GNU getopt, with its permutation of the words and its
global `optind`, which counts from where the last scan left it.  `EffectOn(t, words, n, found)` is what
the `qemu_plugin_control` function of plugin `t` does with its permuted words from position `n` on and the
options found; `EffectOf` applies it to what a vCPU has at hand, and `SetsBack` says which plugin resets `optind` when.
The words at `optind` are read when the command acts, so that two scans can interfere.  The shell
quoting of `g_shell_parse_argv` and the cut at 127 bytes are left out.

Two operators give the same functions a meaning without the interleaving.  `Alone(line)` is the effect of a line
that is sent by a lone vCPU, with `optind` at 1.  `AsWritten` says that for every line of `Commands`, `Alone` is what `Meaning`
asks for; it is an assumption of `MeaningTheorem`, and `MCHypersh` makes TLC evaluate it for the lines of the run.

## Runs

| Run | Module | Question | Result |
|---|---|---|---|
| `TraceSession` | MCTraceRecorder | Are code cache, Writers, rate and simulator consistent in every interleaving, does it all implement `Session`, and, if the simulator holds nobody for ever, does a stop end and is every request answered? | holds, about 109,000 states |
| `DetailedStop` | TraceSimulator | With two vCPUs, does every `Sync` keep its Writer, does a stop in detailed mode end, and does every `Sync` return, unless behind a mode switch? | holds, about 5,400 states |
| `FlushStall` | TraceSimulator | Can the flush around detailed mode not deadlock with the simulator (comment control.cc:279-286)? | violated |
| `StopStall` | TraceSimulator | Is nobody blocked on the vCPU that stops (comment control.cc:134-139), with three vCPUs? | violated |
| `TraceAssertOpen` | MCTraceRecorder | Can the assert of control.cc:268-269 fail? | violated |
| `TraceExecveWriter` | MCTraceRecorder | Is an execve safe for other vCPUs' Writers (comment callbacks.cc:430-432)? | violated |
| `McountSession` | McountRefinement | Do counts add up, is there one flusher, is the report used only while open, are the maps indexed within their rows, does a stop end, and is it a `Histogram`, with sizes that change from session to session? | holds, about 402,000 states |
| `VcpuModes` | MCVcpuStream | Are branch records complete, reports nearly right and Syncs no later than a reset makes them, across modes, interrupts and resets? | holds, about 2,728,000 states |
| `VcpuBranchInterrupted` | MCVcpuStream | Is `br_target` the target of the branch (comment callbacks.cc:158-159)? | violated |
| `PmemSession` | MCPmem | Are samples regular, sessions separate, and failures confined to stops? | holds, about 390,000 states |
| `SlomoCount` | Slomo | Is what the printed counts miss or repeat confined to overlaps? | holds, about 24,000 states |
| `HypershCommands` | MCHypersh | Does each plugin do what it does for a vCPU alone, and what its command line says? | holds, about 3,112,000 states |

**Properties of TraceRecorder.**  `InstrumentationMatchesMode`: a TB that can still run carries the
current mode or a flush is queued; none is instrumented outside a session.
`NoDetailedLeftover`: TBs of detailed mode, whose callbacks may block on the simulator, never outlive
it, which is why leaving goes through the exclusive flush.  `CallbacksNeverNull`: callbacks, events, an
execve and a stop never meet a null Writer.  Two operations can: `recorder_gmm`, which does not look at
`recording`, and a mode switch whose flush is queued on one vCPU while the reset of a
stop on another runs first (`fault = "gmm"`, `"switch"`).  `BackendsAgree`: what the simulator was
told, the rate and `current_mode` agree.  `SessionResources`: Writers and fifos exist exactly while a
session or a start is under way.  `SessionStartsClean`: statistics are zero when recording begins.
`StopCompletes`: if the simulator holds nobody for ever (`CallsReturn`), the reset a stop queued is carried out.
`ImplementsSession`: the refinement above.  It holds in the two cases the code does not guard against, a mode switch that finds a null Writer
(a crash of `Session` too) and a stop that ends a later session; it says that nothing else goes wrong.
`SessionAnswers`: if the simulator holds nobody for ever, a request that stays grantable is granted.

**Properties of TraceSimulator.**  `SyncKeepsWriter`: a vCPU that is blocked in `Sync` keeps an open Writer, although a stop
deletes all Writers and does not ask the simulator.  `DetailedStopEnds`: a stop is carried out, and `SyncReturns`: a `Sync` returns,
or else a vCPU is `Stalled`, that is, waits for exclusivity with a flush or a mode switch while
another waits in `Sync` for it.  That exception is the one the code does not
avoid (`FlushStall`).  The run sets `CHECK_DEADLOCK FALSE`, for in that state nothing moves any more.

**Properties of Mcount.**  `NoCountLost`: per cell, accesses counted = printed + still in the map.
`EveryAccessCounted`: `acc_cnt` splits into device accesses, cells, accesses given up by a flush
that found the session stopped, and accesses under way.  `FlushCadence`: flushes done or under way =
`acc_cnt / acc_bin`.  `NoUseAfterClose`: nobody writes to a closed report.  `IndexInBounds`:
an index leaves the maps only for an address in the last, incomplete bin, when the memory is not a whole number of bins (the size
is rounded down), although sessions with different sizes follow each other.
`StopCloses`: a stop gets the lock and ends.  `ImplementsHistogram`: every flush prints a snapshot.

**Properties of VcpuStream.**  `BranchRecordComplete`: the assert on `br_fallthrough` holds.
`ReportErrorBounded`: instructions told and instructions counted differ by at most `FlowControlFF` for
each mode switch plus the remainder not reported; the error is real, because `icount_reported` is
shared by two modes that mean different things by it.  `UnsyncedBound`: at most `FlowControl`
instructions without a `Sync` in detailed mode, and after a `recorder_reset` a bounded number more: it sets
`icount_detailed` back and not `flowcontrol_target`: the next `Sync` is then late by the instructions counted
before the resets since the target was last moved (`setback`), and by no more.

**Properties of Pmem.**  `SampleGap`: never `pmem_int` accesses without a sample (no gap at a wrap of
the counter either, only an early sample).  `NoStrayLine`: an access that passed the mode check in one session is over
before the next begins, since the next start follows the reset, unless the guest starts
twice without a stop.  `FailsOnlyInStop`: pmem divides by zero only if asked to (`-i 0`), and uses a missing file only
in an access that overlaps a stop, or if the file could not be opened.  `StopEnds`: the reset of a stop runs.

**Properties of Slomo.**  `LossBounded`: instructions executed are printed, still counted, or ran on
other vCPUs between a print and its zeroing.  `PrintedOnce`: printed and counted exceed executed only
after two interrupts overlapped.

**Properties of Hypersh.**  `RunsWhatWasSent`: what reaches a plugin is what this vCPU sent, unless another vCPU
wrote to `buf` in between.  `ActsAsAlone`: a command has the effect it has for a lone vCPU, or fails as it does there,
except after such a write, after two overlapping scans, or after an mcount command that left `optind` behind.
`ActsAsWritten`: the effect is the one asked for, except after such a write, after two overlapping scans, after an mcount command that left `optind` behind
(mcount.cc:226: `mcount -a5 start` makes the next `mcount stop` a start, or sends getopt behind the end), or
for mcount's `tag`.  `FailsOnlyDisturbed`: a plugin's control function crashes only in those cases,
or on a `trace magic` without a value (control.cc:360), which hands a null pointer to `strtol`.

### Findings

The five violated runs are described in `PROJECT.json` with the lines they contradict: the flush
after entering detailed mode can wait for a vCPU that waits for the flusher; a stop on three vCPUs can wait
for ever, as only the stopping vCPU's trace is ended; `recorder_start` ignores that a file could not be
opened and a later assert ends QEMU; an execve writes to Writers that other threads are using; the branch record
sent after an interrupt names the handler as the target.

### Bounds

* Two vCPUs: every interaction in control.cc and mcount.cc is between a vCPU and some other one; the
  theorems cover any number.  One guest process in `TraceSession`: `roi_cr3` is only stored there.
* `McountSession`: two vCPUs, `TotalMem` = 3, `MemBins` = {1, 2}, `AccBins` = {1, 2}, `MaxAcc` = 2.  Rows have three bins
  or one, and with `mem_bin` = 2 the address 2 is in an incomplete bin.  With `acc_bin` = 1 every access flushes, also two at once; with 2 the
  second one does while the first is being counted.  `acc_cnt` starts again with each session, so sessions repeat without bound,
  each with sizes of its own.
* `VcpuModes`: `FlowControlFF` = `FlowControl` = 1 so that every limit is passed within
  `MaxInsn` = 4 instructions, and reached again after a `recorder_reset`; two mode switches give every ordered triple of
  modes from `ModeIcount`.  The program has a branch, a straight TB and a
  handler, and the branch may go anywhere.

* `DetailedStop` and `FlushStall`: two vCPUs, commands from one of them; the stall needs one that flushes
  and one that waits.  `StopStall`: three, the least at which a stop can stall, and the reason why `DetailedStop`
  has two.
* `PmemSession`: three vCPUs, so that two accesses can be under way around a stop on the third; `CountMod` = 3 and an
  interval of 2, which does not divide it; an interval of 0; four accesses per session, enough to wrap.
* `SlomoCount`: three vCPUs, TBs of 1 and 3 instructions, six instructions in all: two interrupts overlap while a third
  vCPU counts.
* `HypershCommands`: two vCPUs, all four plugins, twelve command lines with an option of each form
  (`-k`, `-a5`, `-a 5`), before and behind the command; no bound on their number.

### Fairness

`TraceRecorder!Fairness`: a TB is a finite piece of straight code, so a vCPU that is in one again and again leaves it
(strong, because a callback can be entered each time instead); a vCPU that wants exclusivity is woken by QEMU when the
holder is done (strong, because others may take it first); the execve loop and exclusive work go on; and a Writer call
of a TB returns if the TB is not of detailed mode (`UnheldCallbackDone`).  In fast-forward and cache-only mode the simulator holds nobody: control.cc:279-286
speaks of a performance model that is set in detailed mode only.  In a detailed TB `Sync` (callbacks.cc:65, 74, 213) need not return,
and no fairness says that it does.  `CallsReturn` is the assumption that it does, and the two liveness
properties of `TraceSession` name it as their premise.  Whether the premise holds is the question of TraceSimulator: `DetailedStop` shows for two vCPUs that
a stop ends and that a `Sync` returns unless a vCPU is `Stalled`; `FlushStall` shows that it need not behind a flush or a mode switch, and `StopStall`
that with three vCPUs it need not behind a stop.  So a stop ends with two vCPUs, a request in fast-forward or cache-only mode is answered, and for
a switch out of detailed mode, or a stop among three, neither is true of this code.  No fairness for guest commands, for events, or for `openFileDone`: a simulator
may never open its end of a fifo, and the start then waits for ever.  Nothing is recorded while it waits, so
`StopCompletes` does not depend on it.

`Mcount!Fairness`: weak fairness per vCPU for the steps of a callback and of a command that has begun, and for
a queued reset.  `std::shared_mutex` promises no order; `StopCloses` still holds because
flushes and counts are finitely many in the run (`MaxAcc`) and new ones stop once the mode is off.

`TraceSimulator!SimFairSpec`: the same for the steps taken over, for vCPUs that are not held up; strong fairness for `Sync`,
because `flowcontrol_target` makes an active vCPU that keeps executing detailed TBs come to one; the simulator
answers.  Nothing is assumed of guest commands, and a halted vCPU may sleep for ever.

`Pmem!Fairness`: weak fairness for the steps of callbacks and commands that have begun and for the reset; accesses are
finitely many in a session (`MaxAcc`), so nobody waits for `count_lock` for ever.

## Proofs

Eight modules, 5242 obligations, prove facts for every value of the constants that satisfies the `ASSUME`s in the
component's module (at least one vCPU, positive bins, 0 is not a page directory, TBs not empty and so on).  Every invariant and
the action property of the passing runs is a theorem, and so is the safety part of both refinements.

* `TraceRecorder_proofs` (732 obligations).  `TypeCorrect`: the types.  The loop index
  `step[v]` is a vCPU number only at the points that use it, so the invariant adds
  `StepInRange`.  `InstrumentationTheorem`: `TagsMatch` is the property split into the code cache and the
  TBs under execution; a step either translates nothing and leaves the mode alone,
  or queues work, or is exclusive and leaves no TB at all.  It needs nothing about sessions and holds with concurrent
  commands.  `SessionTheorem`, under `~ConcurrentCommands`: `SessionResources` and
  `CallbacksNeverNull`.  `SessionInv` adds what the property does not say: one command at a time; a
  start under way has opened the Writers below its index; a vCPU in the execve loop is in a session.
  `ModeTheorem`, under the same assumption: `BackendsAgree` and `NoDetailedLeftover`, the latter from `DetailedInv`: outside
  detailed mode no TB of detailed mode is in the code cache or under execution.  `StartTheorem` (`SessionStartsClean`, an action
  property) needs no such assumption: `CleanInv`, while a start is under way and nothing is recorded every counter is zero,
  for a TB that counts is instrumented, hence (`TagsMatch`) the callbacks are registered, hence a session is recorded; and the only
  step that ends a session finds no start under way.
* `TraceRefinement_proofs` (851 obligations).  `TraceRefinementTheorem`, under `~ConcurrentCommands`: `ImplementsSession`.  The invariant adds `WorkInv` (work is queued at a boundary only) and `NotYetOpened` (a
  start has not touched the writers from its index on).  One lemma per group of actions says
  which step of `Session` it is, or that it is a stutter.  `SimulatorTheorem`: the recorder with the simulator's waits does
  nothing the recorder does not, `SimSpec => Spec`, so every theorem about the recorder holds of it
  (`SimulatorSessionTheorem` is the one about `Session`).  `SimTypeCorrect`: `WaitInv`, a vCPU in
  `Sync` stays in its detailed TB, because it takes no step and others move only themselves (`OthersStay`).  `SyncTheorem`
  (`SyncKeepsWriter`, under `~ConcurrentCommands`): a vCPU in `Sync` shows that a session is recorded, so no start is under way,
  and that nobody has exclusivity, so nothing is deleted; a stop ends only its own trace.  `StopStallTheorem`: with at most two vCPUs
  `NoStopStall` holds; the run with three violates it.
* `Mcount_proofs` (1172 obligations).  `McountTypeCorrect`.  `LockInv` ties `flush_mtx` to the control
  points; `FlushExcludes` follows.  `McountReportTheorem` (`NoUseAfterClose`, under
  `~ConcurrentCommands`, restarts allowed): mode on means report open, a flusher and the stop found it open, and the
  stop that closes it holds the lock, so nobody flushes.  `McountCountTheorem` (`NoCountLost`, under
  `~ConcurrentCommands` and `~RestartWhileRunning`): `Loaded`, a thread about to store holds the value of its own
  cell, and `Quiet`, no thread is in a callback when a start clears the maps.  `McountAccountTheorem` (`EveryAccessCounted`,
  `FlushCadence`, same assumptions): the sum over the cells is a fold over a finite set, and the lemmas say that it
  exists, that it is zero when every cell is, and that it grows by one with one cell (`SumsExist`, `SumOfZeros`, `SumOfIncrement`); they are proved
  by taking a smallest set on which they fail.  `Accounted` and `Cadence` then say how the numbers of threads at
  each control point change when one thread moves (`OneMoves`).  `McountBoundsTheorem` (`IndexInBounds`, same assumptions): `RowsMatch`, while the
  callbacks are registered, the rows have the length that belongs to `mem_bin`; an index not
  below the quotient then belongs to an address not below its multiple (`BeyondQuotient`).  A restart of a running session
  breaks `RowsMatch`, in the model as in the code.
* `McountRefinement_proofs` (341 obligations).  `McountRefinementTheorem` (`ImplementsHistogram`, under `~ConcurrentCommands` and
  `~RestartWhileRunning`): `RowsPrinted`, the rows a flush has passed are zero and stay so under the lock, and `EveryCellInARow`, so
  that the end of a flush adds nothing to what its start announced.
* `VcpuStream_proofs` (611 obligations).  `StreamTheorem`, for every program: `BranchInv` (a TB that will record a branch has its
  fall-through); `ReportInv`, in which `Told` adds what is still to be reported in fast-forward and `Changes` counts the
  switches that have taken effect in the code cache; `SyncInv`, the next Sync is due when as many instructions are left as may still run, with what resets took from the count
  added (`setback`).
  `StreamTypeCorrect`: the types; no counter becomes negative, as part of the same invariants.
* `Pmem_proofs` (462 obligations).  `SampleGapTheorem`: `Below` bounds `since` by the remainder of the counter, and
  survives the wrap.  `FileTheorem` (`NoStrayLine`, `FailsOnlyInStop`): an access under way keeps the callbacks registered, and a
  registered plugin without a file is in a stop, or its file never opened.  `PmemTypeCorrect`: the types.
* `Slomo_proofs` (95 obligations).  `CountTheorem` (`LossBounded`, `PrintedOnce`): while a print waits for its
  zeroing, the counter is as good as zero.  `SlomoTypeCorrect`: the types, and that a print under way keeps the callbacks registered.
* `Hypersh_proofs` (978 obligations).  `BufferTheorem` (`RunsWhatWasSent`): `Own`, from its copy on `buf` holds what the vCPU sent, as
  far as it has copied it, unless another vCPU has written since.  `HypershTypeCorrect`: the permutation of getopt keeps
  words words, and the position within them.  `InterferenceTheorem` (`ActsAsAlone`), for any set of command lines.  `ScanInv` is its invariant: a vCPU that
  scans or acts has a loaded plugin's name as its target, and options only once it has scanned (`Dispatched`); when getopt's static
  position is past the first word and `mcount` is not what left it there, some vCPU is still between its
  scan and its action (`PositionOwned`); of two vCPUs between their scan and their action both are excused (`OneScan`); a `getopt`
  fault is met only by an excused vCPU that acts (`GetoptExcused`); and `ActsAsAlone` itself.  `MeaningTheorem` (`ActsAsWritten`,
  `FailsOnlyDisturbed`) adds `AsWritten`: what a lone vCPU gets is what its line says, a fact about the plugin's code and the lines, with no
  interleaving left in it; TLC evaluates it for the lines of the run.

Only model-checked: liveness (`StopCompletes`, `StopCloses`, `StopEnds`, `DetailedStopEnds`, `SyncReturns`,
`SessionAnswers`), for the provers know neither fairness nor ENABLED; the assumption `AsWritten`, for given command lines; and that the assumptions
on the guest are needed, which the runs with a violation show for some of them.  What is defined by a fold or a
minimal choice can be proved about through the set-based theorems of the library (a smallest counterexample); what a RECURSIVE operator
computes cannot, and no module uses one.

## Not modelled

* The Sift library, the simulator and QEMU: external.  They appear as the environment, from how
  the code in this repository uses them.
* Basic block vectors (`trace/bbv_count.cc`): dead code.  Nothing calls it, so nothing says what its inputs are.
* `Translate` and `SendICache` records, load, store and user statistics, hot block counts: data without control.
* Formatting and the text of messages; numbers in options.  `-a 0` and `-m 4096` (which shifts to 0) divide by
  zero in mcount; the model assumes positive sizes.
* mcount under concurrent commands and restarts of a running session: the model has them (`ConcurrentCommands`,
  `RestartWhileRunning`), and the theorems say which results need them excluded.

## Plan

1. Done: all components but the dead code; two abstract specifications and their refinements; the simulator's waits;
   proofs of every safety property that a run checks.
2. Proofs left: what remains of the theorems about mcount without `~ConcurrentCommands`, and about writers when two starts overlap.
3. Models left: mcount with two stops at once and with a reset that removes a new session's callbacks, as
   runs of their own.
