--------------------------- MODULE TraceRecorder ---------------------------
(***************************************************************************)
(* Control plane of the trace plugin (src/host/trace/control.cc): the      *)
(* recording session, the instrumentation mode, and the one Sift::Writer   *)
(* per vCPU that every execution callback writes to.                       *)
(*                                                                         *)
(* QEMU runs one thread per vCPU.  A thread alternates between translation *)
(* block (TB) boundaries and TBs.  The callbacks of the plugin run inside  *)
(* a TB, on the thread of that vCPU; so do the commands of the guest,      *)
(* which arrive as the system call that ends a TB.  Work that needs all    *)
(* vCPUs stopped (tb_flush, vcpu_tb_flush, reset) is queued on the vCPU    *)
(* that asks for it, and runs at its next boundary once every other vCPU   *)
(* has finished its current TB.                                            *)
(***************************************************************************)
EXTENDS Naturals

CONSTANTS
  smp_vcpus,          \* number of vCPUs
  Process,            \* page directories the guest may run on (CR3 values)
  ConcurrentCommands  \* may two vCPUs be inside a trace command at once?

ASSUME VcpuAssumption == smp_vcpus \in Nat \ {0}
ASSUME ProcessAssumption == 0 \notin Process /\ Process # {}
ASSUME CommandAssumption == ConcurrentCommands \in BOOLEAN

VCPU == 0 .. smp_vcpus - 1

Mode == {"ModeIcount", "ModeMemory", "ModeDetailed"}

\* How a TB was instrumented when it was translated: for a mode, or not at all.
Tag == Mode \cup {"plain"}

\* A Writer pointer is null, or a writer that is open, that could not open
\* its file, or that was given its End record.
Writer == {"null", "open", "failed", "ended"}

\* Work queued for a vCPU: a mode name stands for vcpu_tb_flush with the
\* do_mode_switch of that mode, "counters" for the one of recorder_reset.
Work == {"none", "flush", "counters", "reset"} \cup (Mode \ {"ModeDetailed"})

VARIABLES
  pc,            \* where each vCPU thread is
  step,          \* loop index of the vCPU in openFile or in the execve loop
  tb,            \* tag of the TB the vCPU is executing
  cache,         \* tags of the translated TBs in QEMU's code cache
  work,          \* exclusive work queued on each vCPU
  registered,    \* the plugin's callbacks are registered with QEMU
  recording,
  current_mode,
  roi_cr3,
  output,        \* thread_data[v].output
  slomo_rate,
  told,          \* last mode sent to the simulator of this session with Magic
  trace_files,   \* fifos exist on disk and are listed for unlinking
  dirty,         \* some statistic counter of thread_data[v] is not zero
  fault          \* the operation that dereferenced a null Writer or failed an assert

threads == <<pc, step, tb, cache>>
session == <<registered, recording, output, trace_files, dirty>>
modes   == <<current_mode, slomo_rate, told>>
vars    == <<threads, work, session, modes, roi_cr3, fault>>

\* Thread states in which the vCPU is inside a TB.
InTB == {"tb", "writer", "exec", "enter", "open"}

\* Thread states in which the vCPU is inside a trace command that may block.
InCommand == {"enter", "open"}

TypeOK ==
  /\ pc \in [VCPU -> InTB \cup {"boundary", "excl"}]
  /\ step \in [VCPU -> 0 .. smp_vcpus]
  /\ tb \in [VCPU -> Tag]
  /\ cache \in SUBSET Tag
  /\ work \in [VCPU -> Work]
  /\ registered \in BOOLEAN
  /\ recording \in BOOLEAN
  /\ current_mode \in Mode
  /\ roi_cr3 \in Process \cup {0}
  /\ output \in [VCPU -> Writer]
  /\ slomo_rate \in {1, 100000}
  /\ told \in Mode \cup {"none"}
  /\ trace_files \in BOOLEAN
  /\ dirty \in [VCPU -> BOOLEAN]
  /\ fault \in {"none", "callback", "event", "execve", "gmm", "stop", "switch", "assert"}

(***************************************************************************)
(* qemu_plugin_install: thread_data is value-initialised, so every output  *)
(* is null; the globals have the values of globals.cc.                     *)
(***************************************************************************)
Init ==
  /\ pc = [v \in VCPU |-> "boundary"]
  /\ step = [v \in VCPU |-> 0]
  /\ tb = [v \in VCPU |-> "plain"]
  /\ cache = {}
  /\ work = [v \in VCPU |-> "none"]
  /\ registered = FALSE
  /\ recording = FALSE
  /\ current_mode = "ModeIcount"
  /\ roi_cr3 = 0
  /\ output = [v \in VCPU |-> "null"]
  /\ slomo_rate = 1
  /\ told = "none"
  /\ trace_files = FALSE
  /\ dirty = [v \in VCPU |-> FALSE]
  /\ fault = "none"

(***************************************************************************)
(* Building blocks.                                                        *)
(***************************************************************************)
Goto(v, from, to) == fault = "none" /\ pc[v] = from /\ pc' = [pc EXCEPT ![v] = to]

\* The operation op calls a method of output[u]; a null pointer ends QEMU.
Deref(u, op) == fault' = IF output[u] = "null" THEN op ELSE fault

Queue(v, w) == work' = [work EXCEPT ![v] = w]

\* A guest command reaches qemu_plugin_control in the middle of a TB ...
Command(v) == ConcurrentCommands \/ \A u \in VCPU : pc[u] \notin InCommand

\* ... and the system call that carried it ends the TB.
Return(v) == Goto(v, "tb", "boundary") /\ UNCHANGED <<step, tb, cache>>

(***************************************************************************)
(* Execution of translation blocks.                                        *)
(***************************************************************************)
\* vcpu_tb_trans_cb instruments a TB for the mode at translation time.
TranslationTag == IF registered THEN current_mode ELSE "plain"

\* A vCPU enters a TB, found in the code cache or translated now.  While a
\* vCPU waits for exclusivity no other one enters a TB.
BeginTB(v) ==
  /\ Goto(v, "boundary", "tb")
  /\ work[v] = "none"
  /\ \A u \in VCPU : pc[u] # "excl"
  /\ \E t \in cache \cup {TranslationTag} :
       /\ tb' = [tb EXCEPT ![v] = t]
       /\ cache' = cache \cup {t}
  /\ UNCHANGED <<step, work, session, modes, roi_cr3, fault>>

\* A callback of an instrumented TB calls into the vCPU's Writer and counts.
TbCallback(v) ==
  /\ Goto(v, "tb", "writer")
  /\ tb[v] # "plain"
  /\ Deref(v, "callback")
  /\ dirty' = [dirty EXCEPT ![v] = TRUE]
  /\ UNCHANGED <<step, tb, cache, work, registered, recording, output,
                 trace_files, modes, roi_cr3>>

TbCallbackDone(v) ==
  /\ Goto(v, "writer", "tb")
  /\ UNCHANGED <<step, tb, cache, work, session, modes, roi_cr3, fault>>

EndTB(v) ==
  /\ Return(v)
  /\ UNCHANGED <<work, session, modes, roi_cr3, fault>>

\* vcpu_idle_cb, vcpu_resume_cb, vcpu_interrupt_cb and vcpu_interrupt_ret_cb
\* run between TBs and write to the vCPU's own Writer.
VcpuEvent(v) ==
  /\ fault = "none"
  /\ pc[v] = "boundary" /\ registered
  /\ Deref(v, "event")
  /\ UNCHANGED <<threads, work, session, modes, roi_cr3>>

\* vcpu_syscall_cb: an execve in detailed mode flushes the instruction cache
\* of every vCPU, through that vCPU's Writer.
vcpu_syscall_cb(v) ==
  /\ Goto(v, "tb", "exec")
  /\ registered /\ current_mode = "ModeDetailed"
  /\ step' = [step EXCEPT ![v] = 0]
  /\ UNCHANGED <<tb, cache, work, session, modes, roi_cr3, fault>>

FlushICache(v) ==
  /\ Goto(v, "exec", IF step[v] = smp_vcpus - 1 THEN "boundary" ELSE "exec")
  /\ Deref(step[v], "execve")
  /\ step' = [step EXCEPT ![v] = step[v] + 1]
  /\ UNCHANGED <<tb, cache, work, session, modes, roi_cr3>>

(***************************************************************************)
(* Commands of the guest.                                                  *)
(***************************************************************************)
\* recorder_start up to the creation of the fifos: thread_data_reset drops
\* every writer pointer and clears every counter.
Mutant_recorder_start(v) ==
  /\ Command(v)
  /\ Goto(v, "tb", "enter")
  /\ step' = [step EXCEPT ![v] = 0]
  /\ trace_files' = TRUE
  /\ UNCHANGED <<tb, cache, work, registered, recording, output, dirty, modes,
                 roi_cr3, fault>>

Mutant_start_keeps_counters(v) ==
  /\ Command(v)
  /\ ~recording
  /\ Goto(v, "tb", "enter")
  /\ step' = [step EXCEPT ![v] = 0]
  /\ output' = [u \in VCPU |-> "null"]
  /\ trace_files' = TRUE
  /\ UNCHANGED <<tb, cache, work, registered, recording, dirty, modes, roi_cr3,
                 fault>>

recorder_start(v) ==
  /\ Command(v)
  /\ \/ /\ recording
        /\ Return(v)
        /\ UNCHANGED <<session, work, modes, roi_cr3, fault>>
     \/ /\ ~recording
        /\ Goto(v, "tb", "enter")
        /\ step' = [step EXCEPT ![v] = 0]
        /\ output' = [u \in VCPU |-> "null"]
        /\ dirty' = [u \in VCPU |-> FALSE]
        /\ trace_files' = TRUE
        /\ UNCHANGED <<tb, cache, work, registered, recording, modes, roi_cr3, fault>>

\* openFile(step[v]): a writer already there is closed, then the constructor
\* of the new one blocks until a reader opens the fifo.
openFile(v) ==
  /\ Goto(v, "enter", "open")
  /\ step[v] < smp_vcpus
  /\ output' = [output EXCEPT ![step[v]] = "null"]
  /\ UNCHANGED <<step, tb, cache, work, registered, recording, trace_files,
                 dirty, modes, roi_cr3, fault>>

\* The constructor returns.  recorder_start ignores the result of openFile.
openFileDone(v) ==
  /\ Goto(v, "open", "enter")
  /\ \E w \in {"open", "failed"} : output' = [output EXCEPT ![step[v]] = w]
  /\ step' = [step EXCEPT ![v] = step[v] + 1]
  /\ UNCHANGED <<tb, cache, work, registered, recording, trace_files, dirty,
                 modes, roi_cr3, fault>>

\* recorder_start once every writer exists.
Mutant_start_no_flush(v) ==
  /\ step[v] = smp_vcpus
  /\ Goto(v, "enter", "boundary")
  /\ recording' = TRUE
  /\ current_mode' = "ModeIcount"
  /\ registered' = TRUE
  /\ UNCHANGED <<step, tb, cache, work, output, trace_files, dirty, slomo_rate,
                 told, roi_cr3, fault>>

Mutant_start_keeps_mode(v) ==
  /\ step[v] = smp_vcpus
  /\ Goto(v, "enter", "boundary")
  /\ recording' = TRUE
  /\ registered' = TRUE
  /\ Queue(v, "flush")
  /\ UNCHANGED <<step, tb, cache, output, trace_files, dirty, modes, roi_cr3, fault>>

recorder_start_finish(v) ==
  /\ step[v] = smp_vcpus
  /\ Goto(v, "enter", "boundary")
  /\ recording' = TRUE
  /\ current_mode' = "ModeIcount"
  /\ registered' = TRUE
  /\ Queue(v, "flush")
  /\ UNCHANGED <<step, tb, cache, output, trace_files, dirty, slomo_rate, told,
                 roi_cr3, fault>>

\* The three do_mode_switch lambdas: Magic to the simulator, then the rate,
\* then the mode.
do_mode_switch(m) ==
  /\ told' = m
  /\ slomo_rate' = IF m = "ModeDetailed" THEN 100000 ELSE 1
  /\ current_mode' = m

\* The asserts that precede the switch to detailed mode.
AssertOpen == fault' = IF \A u \in VCPU : output[u] = "open" THEN fault ELSE "assert"

\* The mode strings recorder_mode accepts.
Mutant_AnyMode(m) == TRUE

KnownMode(m) == m \in Mode

\* Detailed mode is entered by the command, and the flush follows; the other
\* modes are entered by the exclusive flush itself.
Mutant_SwitchNow(m) == TRUE

SwitchNow(m) == m = "ModeDetailed"

recorder_mode(v, m, cr3) ==
  /\ Command(v)
  /\ Return(v)
  /\ \/ /\ ~recording \/ ~KnownMode(m) \/ current_mode = m
        /\ UNCHANGED <<modes, work, roi_cr3, fault>>
     \/ /\ recording /\ KnownMode(m) /\ current_mode # m
        /\ roi_cr3' = cr3
        /\ IF m = "ModeDetailed" THEN AssertOpen ELSE UNCHANGED fault
        /\ IF SwitchNow(m)
           THEN do_mode_switch(m) /\ Queue(v, "flush")
           ELSE Queue(v, m) /\ UNCHANGED modes
  /\ UNCHANGED session

recorder_reset(v, cr3) ==
  /\ Command(v)
  /\ Return(v)
  /\ \/ ~recording /\ UNCHANGED <<roi_cr3, work>>
     \/ recording /\ roi_cr3' = cr3 /\ Queue(v, "counters")
  /\ UNCHANGED <<session, modes, fault>>

\* recorder_stop writes the End record of its own vCPU, then asks for a reset.
Mutant_stop_closes(v) ==
  /\ Command(v)
  /\ Return(v)
  /\ \/ ~recording /\ UNCHANGED <<output, work>>
     \/ recording /\ output' = [u \in VCPU |-> "null"] /\ Queue(v, "reset")
  /\ UNCHANGED <<registered, recording, trace_files, dirty, modes, roi_cr3, fault>>

Mutant_stop_no_end(v) ==
  /\ Command(v)
  /\ Return(v)
  /\ \/ ~recording /\ UNCHANGED work
     \/ recording /\ Queue(v, "reset")
  /\ UNCHANGED <<session, modes, roi_cr3, fault>>

recorder_stop(v) ==
  /\ Command(v)
  /\ Return(v)
  /\ \/ ~recording /\ UNCHANGED <<output, work, fault>>
     \/ /\ recording
        /\ Deref(v, "stop")
        /\ output' = [output EXCEPT ![v] = IF @ = "open" THEN "ended" ELSE @]
        /\ Queue(v, "reset")
  /\ UNCHANGED <<registered, recording, trace_files, dirty, modes, roi_cr3>>

\* recorder_gmm does not look at recording.  "message" and "sync" are sent in
\* detailed mode only, an unknown command is reported and dropped.
recorder_gmm(v, cmd) ==
  /\ Command(v)
  /\ Return(v)
  /\ \/ /\ \/ cmd \in {"create", "assign", "delete"}
           \/ cmd \in {"message", "sync"} /\ current_mode = "ModeDetailed"
        /\ Deref(v, "gmm")
     \/ /\ \/ cmd \in {"message", "sync"} /\ current_mode # "ModeDetailed"
           \/ cmd = "unknown"
        /\ UNCHANGED fault
  /\ UNCHANGED <<work, session, modes, roi_cr3>>

(***************************************************************************)
(* Exclusive work.                                                         *)
(***************************************************************************)
\* The vCPU leaves its loop for the queued work; other vCPUs stop at their
\* next boundary.
StartExclusive(v) ==
  /\ work[v] # "none"
  /\ \A u \in VCPU : pc[u] # "excl"
  /\ Goto(v, "boundary", "excl")
  /\ UNCHANGED <<step, tb, cache, work, session, modes, roi_cr3, fault>>

\* The work w of v runs while every other vCPU is between TBs, and all
\* translated TBs are dropped.
Exclusive(v, w) ==
  /\ work[v] = w
  /\ \A u \in VCPU \ {v} : pc[u] = "boundary"
  /\ Goto(v, "excl", "boundary")
  /\ Queue(v, "none")
  /\ cache' = {}
  /\ UNCHANGED <<step, tb, roi_cr3>>

tb_flush(v) ==
  /\ Exclusive(v, "flush")
  /\ UNCHANGED <<session, modes, fault>>

\* vcpu_tb_flush with the callback queued by recorder_mode.
mode_switch_cb(v, m) ==
  /\ Exclusive(v, m)
  /\ Deref(v, "switch")
  /\ do_mode_switch(m)
  /\ UNCHANGED session

\* vcpu_tb_flush with the callback queued by recorder_reset.
recorder_reset_cb(v) ==
  /\ Exclusive(v, "counters")
  /\ dirty' = [u \in VCPU |-> FALSE]
  /\ UNCHANGED <<registered, recording, output, trace_files, modes, fault>>

\* qemu_plugin_reset removes the callbacks and runs the one of recorder_stop.
\* closeFile aborts and deletes every writer; current_mode is left alone.
Mutant_stop_cb_keeps_rate(v) ==
  /\ Exclusive(v, "reset")
  /\ registered' = FALSE
  /\ output' = [u \in VCPU |-> "null"]
  /\ trace_files' = FALSE
  /\ recording' = FALSE
  /\ told' = "none"
  /\ UNCHANGED <<dirty, current_mode, slomo_rate, fault>>

Mutant_stop_cb_keeps_files(v) ==
  /\ Exclusive(v, "reset")
  /\ registered' = FALSE
  /\ output' = [u \in VCPU |-> "null"]
  /\ recording' = FALSE
  /\ slomo_rate' = 1
  /\ told' = "none"
  /\ UNCHANGED <<trace_files, dirty, current_mode, fault>>

recorder_stop_cb(v) ==
  /\ Exclusive(v, "reset")
  /\ registered' = FALSE
  /\ output' = [u \in VCPU |-> "null"]
  /\ trace_files' = FALSE
  /\ recording' = FALSE
  /\ slomo_rate' = 1
  /\ told' = "none"
  /\ UNCHANGED <<dirty, current_mode, fault>>

\* After a fault the QEMU process is gone.
Aborted == fault # "none" /\ UNCHANGED vars

(***************************************************************************)
(* The specification.                                                      *)
(***************************************************************************)
qemu_plugin_control(v) ==
  \/ recorder_start(v)
  \/ \E m \in Mode \cup {"ModeUnknown"}, cr3 \in Process : recorder_mode(v, m, cr3)
  \/ recorder_stop(v)
  \/ \E cr3 \in Process : recorder_reset(v, cr3)
  \/ \E cmd \in {"create", "assign", "delete", "message", "sync", "unknown"} :
       recorder_gmm(v, cmd)

RunExclusive(v) ==
  \/ tb_flush(v)
  \/ \E m \in Mode \ {"ModeDetailed"} : mode_switch_cb(v, m)
  \/ recorder_reset_cb(v)
  \/ recorder_stop_cb(v)

Next ==
  \/ \E v \in VCPU :
       \/ BeginTB(v) \/ TbCallback(v) \/ TbCallbackDone(v) \/ EndTB(v)
       \/ VcpuEvent(v) \/ vcpu_syscall_cb(v) \/ FlushICache(v)
       \/ qemu_plugin_control(v)
       \/ openFile(v) \/ openFileDone(v) \/ recorder_start_finish(v)
       \/ StartExclusive(v) \/ RunExclusive(v)
  \/ Aborted

Spec == Init /\ [][Next]_vars

(***************************************************************************)
(* Fairness.  A TB is a finite piece of straight-line code, so a vCPU that *)
(* keeps coming back to it finishes it (strong fairness of EndTB, whatever *)
(* the number of callbacks it runs); a vCPU waiting for exclusivity is     *)
(* woken when the current holder is done (strong fairness of               *)
(* StartExclusive).  In fast-forward and cache-only mode the simulator     *)
(* holds nobody, so the Writer calls of a TB return; the Sync of a         *)
(* detailed TB may never return.  Nothing is assumed of the guest's        *)
(* commands, nor of openFileDone: the simulator may never open its end of  *)
(* a fifo.                                                                 *)
(***************************************************************************)
UnheldCallbackDone(v) == tb[v] # "ModeDetailed" /\ TbCallbackDone(v)

Fairness ==
  \A v \in VCPU :
    /\ SF_vars(EndTB(v))
    /\ SF_vars(StartExclusive(v))
    /\ WF_vars(UnheldCallbackDone(v) \/ FlushICache(v) \/ RunExclusive(v))
    /\ WF_vars(openFile(v) \/ recorder_start_finish(v))

FairSpec == Spec /\ Fairness

(***************************************************************************)
(* Properties.                                                             *)
(***************************************************************************)
LiveTags == cache \cup {tb[v] : v \in {u \in VCPU : pc[u] \in InTB}}

\* Every TB that can still execute carries the instrumentation of the current
\* mode, unless a flush that will drop it is already queued; and outside a
\* session no instrumented TB is left (recorder_mode changes current_mode,
\* vcpu_tb_trans_cb reads it, and only the flush brings the two together).
InstrumentationMatchesMode ==
  \A t \in LiveTags :
    IF registered THEN t = current_mode \/ \E v \in VCPU : work[v] # "none"
                  ELSE t = "plain"

\* A TB instrumented for detailed mode never outlives that mode: leaving it
\* goes through the exclusive flush, entering it does not.
NoDetailedLeftover ==
  "ModeDetailed" \in LiveTags => current_mode = "ModeDetailed"

\* The null Writer that recorder_stop and recorder_start leave behind is never
\* reached by an execution callback, a vCPU event, an execve or a stop; only
\* recorder_gmm, which does not check recording, and a mode switch whose flush
\* runs after that of a stop can reach it.
CallbacksNeverNull == fault \notin {"callback", "event", "execve", "stop"}

\* What the simulator was told with Magic and QEMU's slow-motion rate agree
\* with current_mode during a session, and the rate is normal outside one.
BackendsAgree ==
  fault = "none" =>
    /\ IF recording THEN \/ told = current_mode
                         \/ told = "none" /\ current_mode = "ModeIcount"
                    ELSE told = "none"
    /\ slomo_rate = 100000 <=> recording /\ current_mode = "ModeDetailed"

\* Writers and fifos exist exactly while a session is recorded or a start is
\* under way: recorder_stop leaks none, and no session lacks one.
SessionResources ==
  LET starting == \E v \in VCPU : pc[v] \in InCommand
  IN  /\ recording <=> registered
      /\ recording => \A v \in VCPU : output[v] # "null"
      /\ trace_files <=> recording \/ starting
      /\ ~recording /\ ~starting => \A v \in VCPU : output[v] = "null"

\* A session starts with all statistics at zero although recorder_start clears
\* them long before, while it still has to wait for the simulator's readers.
CleanStart == ~recording /\ recording' => \A v \in VCPU : ~dirty'[v]

SessionStartsClean == [][CleanStart]_vars

\* The simulator lets go of every vCPU that calls Sync in a detailed TB.
\* TraceSimulator tells when it does.
CallsReturn == \A v \in VCPU : []<>~(pc[v] = "writer" /\ tb[v] = "ModeDetailed")

\* A stop is carried out if the simulator holds nobody for ever: recorder_stop
\* only queues the reset, and the session ends once every vCPU has reached a
\* boundary.
StopCompletes ==
  CallsReturn =>
    \A v \in VCPU : work[v] = "reset" ~> (~recording \/ fault # "none")

\* control.cc asserts that every writer is open when detailed mode is entered.
WritersOpenForDetailed == fault # "assert"

\* callbacks.cc holds that an execve may safely flush the instruction caches
\* of other vCPUs: no other thread is inside the Writer it uses.
WriterHasOneUser ==
  \A v, u \in VCPU : v # u /\ pc[v] = "exec" /\ step[v] = u => pc[u] # "writer"
=============================================================================
