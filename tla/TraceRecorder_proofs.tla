------------------------ MODULE TraceRecorder_proofs ------------------------
(* Theorems about TraceRecorder, for every number of vCPUs. *)
EXTENDS TraceRecorder, TLAPS

(***************************************************************************)
(* Types.  The flags are kept apart from the rest, and the loop index of   *)
(* openFile and of the execve loop is in range only because of where it is *)
(* used.                                                                   *)
(***************************************************************************)
FlagTypes ==
  /\ registered \in BOOLEAN /\ recording \in BOOLEAN /\ trace_files \in BOOLEAN
  /\ dirty \in [VCPU -> BOOLEAN]

DataTypes ==
  /\ pc \in [VCPU -> InTB \cup {"boundary", "excl"}]
  /\ step \in [VCPU -> 0 .. smp_vcpus]
  /\ tb \in [VCPU -> Tag]
  /\ cache \in SUBSET Tag
  /\ work \in [VCPU -> Work]
  /\ current_mode \in Mode
  /\ roi_cr3 \in Process \cup {0}
  /\ output \in [VCPU -> Writer]
  /\ slomo_rate \in {1, 100000}
  /\ told \in Mode \cup {"none"}
  /\ fault \in {"none", "callback", "event", "execve", "gmm", "stop", "switch", "assert"}

StepInRange == \A v \in VCPU : pc[v] \in {"exec", "open"} => step[v] < smp_vcpus

DataInv == DataTypes /\ StepInRange

TypeInv == FlagTypes /\ DataInv

LEMMA TypeInvTypeOK == TypeInv => TypeOK
BY DEF TypeInv, DataInv, TypeOK, FlagTypes, DataTypes

\* Only recorder_start, the counting callbacks and the callbacks of
\* recorder_reset and recorder_stop change a flag.
LEMMA FlagTypesInductive ==
  ASSUME FlagTypes, [Next]_vars
  PROVE  FlagTypes'
<1> USE DEF FlagTypes, session, modes
<1>1. CASE UNCHANGED session
  BY <1>1
<1>2. ASSUME NEW v \in VCPU, TbCallback(v) PROVE FlagTypes'
  BY <1>2 DEF TbCallback
<1>3. ASSUME NEW v \in VCPU, recorder_start(v) PROVE FlagTypes'
  BY <1>3, Zenon DEF recorder_start
<1>4. ASSUME NEW v \in VCPU,
             \/ recorder_stop(v) \/ openFile(v) \/ openFileDone(v)
      PROVE  FlagTypes'
  BY <1>4, Zenon DEF recorder_stop, openFile, openFileDone
<1>5. ASSUME NEW v \in VCPU, recorder_start_finish(v) PROVE FlagTypes'
  BY <1>5, Zenon DEF recorder_start_finish
<1>6. ASSUME NEW v \in VCPU, recorder_reset_cb(v) \/ recorder_stop_cb(v) PROVE FlagTypes'
  BY <1>6, Zenon DEF recorder_reset_cb, recorder_stop_cb
<1>7. [Next]_vars =>
        \/ UNCHANGED session
        \/ \E v \in VCPU :
             \/ TbCallback(v) \/ recorder_start(v)
             \/ recorder_stop(v) \/ openFile(v) \/ openFileDone(v)
             \/ recorder_start_finish(v)
             \/ recorder_reset_cb(v) \/ recorder_stop_cb(v)
  <2> HIDE DEF FlagTypes, session
  <2> QED
    BY Zenon DEF Next, vars, Aborted, BeginTB, TbCallbackDone, EndTB, VcpuEvent, vcpu_syscall_cb,
       FlushICache, qemu_plugin_control, recorder_mode, recorder_reset, recorder_gmm,
       StartExclusive, RunExclusive, tb_flush, mode_switch_cb
<1> HIDE DEF FlagTypes
<1> QED BY <1>1, <1>2, <1>3, <1>4, <1>5, <1>6, <1>7

\* Every step keeps the control point of each vCPU, its queued work and the
\* modes within the values the code assigns.
LEMMA DataInvInductive ==
  ASSUME DataInv, [Next]_vars
  PROVE  DataInv'
<1> USE VcpuAssumption DEF DataInv, DataTypes, StepInRange, VCPU, Mode, Tag, Writer, Work, InTB
<1>1. CASE UNCHANGED vars
  BY <1>1 DEF vars, threads, session, modes
<1>2. ASSUME NEW v \in VCPU,
             \/ BeginTB(v) \/ TbCallback(v) \/ TbCallbackDone(v) \/ EndTB(v)
             \/ VcpuEvent(v) \/ vcpu_syscall_cb(v) \/ FlushICache(v)
      PROVE  DataInv'
  <2>1. CASE BeginTB(v)
    BY <2>1 DEF BeginTB, Goto, TranslationTag, session, modes
  <2>2. CASE TbCallback(v)
    BY <2>2 DEF TbCallback, Goto, Deref, modes
  <2>3. CASE TbCallbackDone(v)
    BY <2>3 DEF TbCallbackDone, Goto, session, modes
  <2>4. CASE EndTB(v)
    BY <2>4 DEF EndTB, Return, Goto, session, modes
  <2>5. CASE VcpuEvent(v)
    BY <2>5 DEF VcpuEvent, Deref, threads, session, modes
  <2>6. CASE vcpu_syscall_cb(v)
    BY <2>6 DEF vcpu_syscall_cb, Goto, session, modes
  <2>7. CASE FlushICache(v)
    BY <2>7 DEF FlushICache, Goto, Deref, session, modes
  <2> HIDE DEF DataInv
  <2> QED BY <1>2, <2>1, <2>2, <2>3, <2>4, <2>5, <2>6, <2>7
<1>3. ASSUME NEW v \in VCPU, qemu_plugin_control(v)
      PROVE  DataInv'
  <2>1. CASE recorder_start(v)
    <3>1. CASE recording
      <4>1. Return(v) /\ UNCHANGED <<session, work, modes, roi_cr3, fault>>
        BY <2>1, <3>1 DEF recorder_start
      <4> QED BY <4>1 DEF Return, Goto, session, modes
    <3>2. CASE ~recording
      <4>1. /\ Goto(v, "tb", "enter") /\ step' = [step EXCEPT ![v] = 0]
            /\ output' = [u \in VCPU |-> "null"]
            /\ UNCHANGED <<tb, cache, work, modes, roi_cr3, fault>>
        BY <2>1, <3>2 DEF recorder_start
      <4> QED BY <4>1 DEF Goto, modes
    <3> QED BY <3>1, <3>2
  <2>2. ASSUME NEW m \in Mode \cup {"ModeUnknown"}, NEW cr3 \in Process, recorder_mode(v, m, cr3)
        PROVE  DataInv'
    BY <2>2 DEF recorder_mode, Return, Goto, KnownMode, SwitchNow, do_mode_switch, AssertOpen,
                Queue, session, modes
  <2>3. CASE recorder_stop(v)
    <3>1. output' \in [VCPU -> Writer]
      BY <2>3 DEF recorder_stop
    <3>2. work' \in [VCPU -> Work] /\ fault' \in {fault, "stop"}
      BY <2>3 DEF recorder_stop, Queue, Deref
    <3>3. Return(v) /\ UNCHANGED <<modes, roi_cr3>>
      BY <2>3 DEF recorder_stop
    <3> QED BY <3>1, <3>2, <3>3 DEF Return, Goto, modes
  <2>4. ASSUME NEW cr3 \in Process, recorder_reset(v, cr3)
        PROVE  DataInv'
    BY <2>4 DEF recorder_reset, Return, Goto, Queue, session, modes
  <2>5. ASSUME NEW cmd \in {"create", "assign", "delete", "message", "sync", "unknown"},
               recorder_gmm(v, cmd)
        PROVE  DataInv'
    BY <2>5 DEF recorder_gmm, Return, Goto, Deref, session, modes
  <2> HIDE DEF DataInv
  <2> QED BY <1>3, <2>1, <2>2, <2>3, <2>4, <2>5 DEF qemu_plugin_control
<1>4. ASSUME NEW v \in VCPU,
             \/ openFile(v) \/ openFileDone(v) \/ recorder_start_finish(v) \/ StartExclusive(v)
      PROVE  DataInv'
  <2>1. CASE openFile(v)
    BY <2>1 DEF openFile, Goto, modes
  <2>2. CASE openFileDone(v)
    BY <2>2 DEF openFileDone, Goto, modes
  <2>3. CASE recorder_start_finish(v)
    BY <2>3 DEF recorder_start_finish, Goto, Queue
  <2>4. CASE StartExclusive(v)
    BY <2>4 DEF StartExclusive, Goto, session, modes
  <2> HIDE DEF DataInv
  <2> QED BY <1>4, <2>1, <2>2, <2>3, <2>4
<1>5. ASSUME NEW v \in VCPU, RunExclusive(v)
      PROVE  DataInv'
  <2>1. CASE tb_flush(v)
    BY <2>1 DEF tb_flush, Exclusive, Goto, Queue, session, modes
  <2>2. ASSUME NEW m \in Mode \ {"ModeDetailed"}, mode_switch_cb(v, m)
        PROVE  DataInv'
    BY <2>2 DEF mode_switch_cb, Exclusive, Goto, Queue, Deref, do_mode_switch, session
  <2>3. CASE recorder_reset_cb(v)
    BY <2>3 DEF recorder_reset_cb, Exclusive, Goto, Queue, modes
  <2>4. CASE recorder_stop_cb(v)
    <3>1. output' \in [VCPU -> Writer]
      BY <2>4 DEF recorder_stop_cb
    <3>2. told' = "none" /\ slomo_rate' = 1
      BY <2>4 DEF recorder_stop_cb
    <3> QED BY <2>4, <3>1, <3>2 DEF recorder_stop_cb, Exclusive, Goto, Queue
  <2> HIDE DEF DataInv
  <2> QED BY <1>5, <2>1, <2>2, <2>3, <2>4 DEF RunExclusive
<1> HIDE DEF DataInv, DataTypes, StepInRange, VCPU, Mode, Tag, Writer, Work, InTB
<1> QED BY <1>1, <1>2, <1>3, <1>4, <1>5, Zenon DEF Next, Aborted

LEMMA TypeInvInit == Init => TypeInv
<1> SUFFICES ASSUME Init PROVE TypeInv
  OBVIOUS
<1>1. FlagTypes
  BY Zenon DEF Init, FlagTypes
<1>2. output \in [VCPU -> Writer] /\ work \in [VCPU -> Work] /\ tb \in [VCPU -> Tag]
  BY DEF Init, Writer, Work, Tag
<1>3. pc \in [VCPU -> InTB \cup {"boundary", "excl"}] /\ StepInRange
  BY DEF Init, StepInRange
<1>4. step \in [VCPU -> 0 .. smp_vcpus]
  BY VcpuAssumption DEF Init
<1>5. current_mode \in Mode
  BY DEF Init, Mode
<1>6. fault = "none" /\ told = "none" /\ slomo_rate = 1 /\ roi_cr3 = 0 /\ cache = {}
  BY DEF Init
<1> QED BY <1>1, <1>2, <1>3, <1>4, <1>5, <1>6 DEF TypeInv, DataInv, DataTypes

LEMMA TypeInvInductive == TypeInv /\ [Next]_vars => TypeInv'
BY FlagTypesInductive, DataInvInductive DEF TypeInv

\* The types of TraceRecorder are an invariant of the recorder, however many
\* vCPUs send commands at once.
THEOREM TypeCorrect == Spec => []TypeOK
BY TypeInvInit, TypeInvInductive, TypeInvTypeOK, PTL DEF Spec

(***************************************************************************)
(* Instrumentation and mode.                                               *)
(***************************************************************************)
PendingWork == \E v \in VCPU : work[v] # "none"

Fits(t) == IF registered THEN t = current_mode \/ PendingWork ELSE t = "plain"

TagsMatch ==
  /\ \A t \in cache : Fits(t)
  /\ \A v \in VCPU : pc[v] \in InTB => Fits(tb[v])

LEMMA TagsMatchInstrumentation == TagsMatch <=> InstrumentationMatchesMode
BY DEF TagsMatch, InstrumentationMatchesMode, LiveTags, Fits, PendingWork

\* A step that translates nothing and lets no vCPU enter a TB keeps the match
\* if it leaves the mode alone, or if work is queued after it.
LEMMA NothingTranslated ==
  ASSUME TagsMatch,
         UNCHANGED <<cache, tb, registered>>,
         \A v \in VCPU : pc'[v] \in InTB => pc[v] \in InTB,
         \/ UNCHANGED current_mode /\ (PendingWork => PendingWork')
         \/ PendingWork'
  PROVE  TagsMatch'
BY DEF TagsMatch, Fits

\* Queueing work, whatever the vCPU had queued before, leaves work queued.
LEMMA QueueLeavesWork ==
  ASSUME DataInv, NEW v \in VCPU, NEW w \in Work \ {"none"}, Queue(v, w)
  PROVE  PendingWork'
BY DEF DataInv, DataTypes, Queue, PendingWork, Work

\* Exclusive work leaves no TB: the code cache is empty and no vCPU is in one.
LEMMA ExclusiveLeavesNoTB ==
  ASSUME DataInv, NEW v \in VCPU, NEW w, Exclusive(v, w)
  PROVE  TagsMatch'
<1>1. cache' = {} /\ \A u \in VCPU : pc'[u] = "boundary"
  BY DEF Exclusive, Goto, DataInv, DataTypes
<1> QED BY <1>1 DEF TagsMatch, InTB

\* Each step keeps the tags of the live TBs in line with the mode.
LEMMA TagsMatchInductive ==
  ASSUME DataInv, TagsMatch, [Next]_vars
  PROVE  TagsMatch'
<1>1. CASE UNCHANGED vars
  BY <1>1, NothingTranslated DEF vars, threads, session, modes, PendingWork
<1>2. ASSUME NEW v \in VCPU, BeginTB(v)
      PROVE  TagsMatch'
  <2>1. PICK t \in cache \cup {TranslationTag} :
          tb' = [tb EXCEPT ![v] = t] /\ cache' = cache \cup {t}
    BY <1>2 DEF BeginTB
  <2>2. Fits(t)
    BY <2>1 DEF TagsMatch, Fits, TranslationTag
  <2>3. UNCHANGED <<registered, current_mode, work>>
    BY <1>2 DEF BeginTB, session, modes
  <2>4. \A u \in VCPU : u # v => pc'[u] = pc[u]
    BY <1>2 DEF BeginTB, Goto, DataInv, DataTypes
  <2> QED BY <2>1, <2>2, <2>3, <2>4 DEF TagsMatch, Fits, PendingWork, DataInv, DataTypes
<1>3. ASSUME NEW v \in VCPU,
             \/ TbCallback(v) \/ TbCallbackDone(v) \/ EndTB(v) \/ VcpuEvent(v)
             \/ vcpu_syscall_cb(v) \/ FlushICache(v)
             \/ recorder_start(v) \/ openFile(v) \/ openFileDone(v) \/ StartExclusive(v)
      PROVE  TagsMatch'
  <2>1. UNCHANGED <<cache, tb, registered, current_mode, work>>
    BY <1>3, Zenon DEF TbCallback, TbCallbackDone, EndTB, VcpuEvent, vcpu_syscall_cb, FlushICache,
       recorder_start, openFile, openFileDone, StartExclusive, Return, threads, session, modes
  <2>2. \A u \in VCPU : pc'[u] \in InTB => pc[u] \in InTB
    BY <1>3 DEF TbCallback, TbCallbackDone, EndTB, VcpuEvent, vcpu_syscall_cb, FlushICache,
       recorder_start, openFile, openFileDone, StartExclusive, Return, Goto, threads, InTB,
       DataInv, DataTypes
  <2> QED BY <2>1, <2>2, NothingTranslated DEF PendingWork
<1>4. ASSUME NEW v \in VCPU, NEW m \in Mode \cup {"ModeUnknown"}, NEW cr3 \in Process,
             recorder_mode(v, m, cr3)
      PROVE  TagsMatch'
  <2>1. UNCHANGED <<cache, tb, registered>>
    BY <1>4 DEF recorder_mode, Return, session
  <2>2. \A u \in VCPU : pc'[u] \in InTB => pc[u] \in InTB
    BY <1>4 DEF recorder_mode, Return, Goto, InTB, DataInv, DataTypes
  <2>3. UNCHANGED <<current_mode, work>> \/ Queue(v, "flush") \/ (m \in Mode /\ Queue(v, m))
    BY <1>4 DEF recorder_mode, modes, KnownMode
  <2>4. CASE UNCHANGED <<current_mode, work>>
    BY <2>1, <2>2, <2>4, NothingTranslated DEF PendingWork
  <2>5. CASE Queue(v, "flush")
    BY <2>1, <2>2, <2>5, QueueLeavesWork, NothingTranslated DEF Work
  <2>6. CASE m \in Mode /\ Queue(v, m)
    <3>1. PendingWork'
      BY <2>6 DEF Queue, PendingWork, Mode, DataInv, DataTypes
    <3> QED BY <2>1, <2>2, <3>1, NothingTranslated
  <2> QED BY <2>3, <2>4, <2>5, <2>6
<1>5. ASSUME NEW v \in VCPU, recorder_stop(v)
      PROVE  TagsMatch'
  <2>1. UNCHANGED <<cache, tb, registered, current_mode>> /\ Return(v)
    BY <1>5 DEF recorder_stop, Return, modes
  <2>2. UNCHANGED work \/ Queue(v, "reset")
    BY <1>5 DEF recorder_stop
  <2>3. \A u \in VCPU : pc'[u] \in InTB => pc[u] \in InTB
    BY <2>1 DEF Return, Goto, InTB, DataInv, DataTypes
  <2>4. PendingWork => PendingWork'
    BY <2>2, QueueLeavesWork DEF PendingWork, Work
  <2> QED BY <2>1, <2>3, <2>4, NothingTranslated
<1>6. ASSUME NEW v \in VCPU, NEW cr3 \in Process, recorder_reset(v, cr3)
      PROVE  TagsMatch'
  <2>1. UNCHANGED <<cache, tb, registered, current_mode>> /\ Return(v)
    BY <1>6 DEF recorder_reset, Return, modes, session
  <2>2. UNCHANGED work \/ Queue(v, "counters")
    BY <1>6 DEF recorder_reset
  <2>3. \A u \in VCPU : pc'[u] \in InTB => pc[u] \in InTB
    BY <2>1 DEF Return, Goto, InTB, DataInv, DataTypes
  <2>4. PendingWork => PendingWork'
    BY <2>2, QueueLeavesWork DEF PendingWork, Work
  <2> QED BY <2>1, <2>3, <2>4, NothingTranslated
<1>7. ASSUME NEW v \in VCPU, NEW cmd, recorder_gmm(v, cmd)
      PROVE  TagsMatch'
  <2>1. UNCHANGED <<cache, tb, registered, current_mode, work>> /\ Return(v)
    BY <1>7, Zenon DEF recorder_gmm, Return, modes, session
  <2>2. \A u \in VCPU : pc'[u] \in InTB => pc[u] \in InTB
    BY <2>1 DEF Return, Goto, InTB, DataInv, DataTypes
  <2> QED BY <2>1, <2>2, NothingTranslated DEF PendingWork
<1>8. ASSUME NEW v \in VCPU, recorder_start_finish(v)
      PROVE  TagsMatch'
  <2>1. registered' /\ PendingWork'
    BY <1>8, QueueLeavesWork DEF recorder_start_finish, Work
  <2> QED BY <2>1 DEF TagsMatch, Fits
<1>9. ASSUME NEW v \in VCPU, RunExclusive(v)
      PROVE  TagsMatch'
  BY <1>9, ExclusiveLeavesNoTB
     DEF RunExclusive, tb_flush, mode_switch_cb, recorder_reset_cb, recorder_stop_cb
<1> QED BY <1>1, <1>2, <1>3, <1>4, <1>5, <1>6, <1>7, <1>8, <1>9, Zenon
        DEF Next, Aborted, qemu_plugin_control

\* No TB runs with the instrumentation of another mode unless the flush that
\* drops it is already queued, and none is left instrumented outside a session:
\* whatever commands the vCPUs send, one at a time or together.
THEOREM InstrumentationTheorem == Spec => []InstrumentationMatchesMode
<1>1. Init => TypeInv /\ TagsMatch
  BY TypeInvInit DEF Init, TagsMatch, InTB
<1>2. (TypeInv /\ TagsMatch) /\ [Next]_vars => (TypeInv /\ TagsMatch)'
  BY TypeInvInductive, TagsMatchInductive DEF TypeInv
<1>3. TypeInv /\ TagsMatch => InstrumentationMatchesMode
  BY TagsMatchInstrumentation
<1> QED BY <1>1, <1>2, <1>3, PTL DEF Spec

(***************************************************************************)
(* Writers, fifos and sessions, when one command runs at a time.           *)
(***************************************************************************)
NoneNull == \A u \in VCPU : output[u] # "null"
AllNull  == \A u \in VCPU : output[u] = "null"

OneCommand ==
  \A u, v \in VCPU : pc[u] \in InCommand /\ pc[v] \in InCommand => u = v

\* A start under way has opened the writers below its loop index.
OpeningInv ==
  \A v \in VCPU : pc[v] \in InCommand =>
    /\ ~recording /\ trace_files
    /\ \A u \in VCPU : u < step[v] => output[u] # "null"

RecordingInv == recording => trace_files /\ NoneNull

StoppedInv ==
  ~recording /\ (\A v \in VCPU : pc[v] \notin InCommand) => ~trace_files /\ AllNull

ExecInSession == \A v \in VCPU : pc[v] = "exec" => recording

SessionInv ==
  /\ recording <=> registered
  /\ OneCommand /\ OpeningInv /\ RecordingInv /\ StoppedInv /\ ExecInSession
  /\ CallbacksNeverNull

LEMMA SessionInvResources == SessionInv => SessionResources
BY DEF SessionInv, OpeningInv, RecordingInv, StoppedInv, NoneNull, AllNull, SessionResources,
   OneCommand

\* Inside a session no writer is null, and outside one no TB is instrumented:
\* a callback, an event or an execve never finds a null writer.
LEMMA NoNullDeref ==
  ASSUME SessionInv, NEW u \in VCPU, NEW op, recording, Deref(u, op)
  PROVE  fault' = fault
BY DEF SessionInv, RecordingInv, NoneNull, Deref

\* A step that starts or ends no session and no command keeps SessionInv.
LEMMA SessionUntouched ==
  ASSUME SessionInv,
         UNCHANGED <<registered, recording, output, trace_files>>,
         \A u \in VCPU : pc'[u] \in InCommand <=> pc[u] \in InCommand,
         \A u \in VCPU : pc'[u] \in InCommand => step'[u] = step[u],
         \A u \in VCPU : pc'[u] = "exec" => pc[u] = "exec" \/ recording,
         CallbacksNeverNull'
  PROVE  SessionInv'
BY DEF SessionInv, OneCommand, OpeningInv, RecordingInv, StoppedInv, NoneNull, AllNull,
   ExecInSession

LEMMA SessionInvExecution ==
  ASSUME DataInv, TagsMatch, SessionInv, NEW v \in VCPU,
         \/ BeginTB(v) \/ TbCallback(v) \/ TbCallbackDone(v) \/ EndTB(v)
         \/ VcpuEvent(v) \/ vcpu_syscall_cb(v) \/ FlushICache(v) \/ StartExclusive(v)
  PROVE  SessionInv'
<1>1. UNCHANGED <<registered, recording, output, trace_files>>
  BY Zenon DEF BeginTB, TbCallback, TbCallbackDone, EndTB, VcpuEvent, vcpu_syscall_cb,
     FlushICache, StartExclusive, session
<1>2. \A u \in VCPU : /\ pc'[u] \in InCommand <=> pc[u] \in InCommand
                      /\ pc'[u] \in InCommand => step'[u] = step[u]
                      /\ pc'[u] = "exec" => pc[u] = "exec" \/ registered
  BY DEF BeginTB, TbCallback, TbCallbackDone, EndTB, VcpuEvent, vcpu_syscall_cb,
     FlushICache, StartExclusive, Return, Goto, threads, InCommand, DataInv, DataTypes
<1>3. CallbacksNeverNull'
  <2>1. CASE TbCallback(v)
    <3>1. recording
      BY <2>1 DEF TbCallback, Goto, TagsMatch, Fits, InTB, SessionInv
    <3> QED BY <2>1, <3>1, NoNullDeref DEF TbCallback, SessionInv, CallbacksNeverNull
  <2>2. CASE VcpuEvent(v)
    BY <2>2, NoNullDeref DEF VcpuEvent, SessionInv, CallbacksNeverNull
  <2>3. CASE FlushICache(v)
    <3>1. recording /\ step[v] \in VCPU
      BY <2>3, VcpuAssumption
         DEF FlushICache, Goto, SessionInv, ExecInSession, DataInv, DataTypes, StepInRange, VCPU
    <3> QED BY <2>3, <3>1, NoNullDeref DEF FlushICache, SessionInv, CallbacksNeverNull
  <2>4. CASE \/ BeginTB(v) \/ TbCallbackDone(v) \/ EndTB(v) \/ vcpu_syscall_cb(v)
             \/ StartExclusive(v)
    BY <2>4 DEF BeginTB, TbCallbackDone, EndTB, vcpu_syscall_cb, StartExclusive,
       SessionInv, CallbacksNeverNull
  <2> QED BY <2>1, <2>2, <2>3, <2>4
<1> QED BY <1>1, <1>2, <1>3, SessionUntouched DEF SessionInv

\* A return to the guest is no command.
LEMMA ReturnIsNoCommand ==
  ASSUME DataInv, NEW v \in VCPU, Return(v)
  PROVE  \A u \in VCPU : /\ pc'[u] \in InCommand <=> pc[u] \in InCommand
                         /\ step'[u] = step[u]
                         /\ pc'[u] = "exec" => pc[u] = "exec"
BY DEF Return, Goto, InCommand, DataInv, DataTypes

LEMMA SessionInvCommand ==
  ASSUME DataInv, SessionInv, ~ConcurrentCommands, NEW v \in VCPU, qemu_plugin_control(v)
  PROVE  SessionInv'
<1>1. CASE recorder_start(v)
  <2>1. CASE recording
    BY <1>1, <2>1, ReturnIsNoCommand, SessionUntouched
       DEF recorder_start, session, SessionInv, CallbacksNeverNull
  <2>2. CASE ~recording
    <3>1. /\ Goto(v, "tb", "enter") /\ step' = [step EXCEPT ![v] = 0]
          /\ output' = [u \in VCPU |-> "null"] /\ trace_files'
          /\ UNCHANGED <<registered, recording, fault>>
      BY <1>1, <2>2 DEF recorder_start
    <3>2. \A u \in VCPU : pc[u] \notin InCommand
      BY <1>1 DEF recorder_start, Command
    <3>3. \A u \in VCPU : pc'[u] \in InCommand => u = v /\ step'[u] = 0
      BY <3>1, <3>2 DEF Goto, DataInv, DataTypes
    <3>4. pc'[v] \in InCommand /\ \A u \in VCPU : pc'[u] = "exec" => pc[u] = "exec"
      BY <3>1 DEF Goto, InCommand, DataInv, DataTypes
    <3>5. OpeningInv'
      BY <2>2, <3>1, <3>3, VcpuAssumption DEF OpeningInv, VCPU
    <3> QED BY <2>2, <3>1, <3>3, <3>4, <3>5
            DEF SessionInv, OneCommand, RecordingInv, StoppedInv, ExecInSession,
                CallbacksNeverNull
  <2> QED BY <2>1, <2>2
<1>2. ASSUME NEW m \in Mode \cup {"ModeUnknown"}, NEW cr3 \in Process, recorder_mode(v, m, cr3)
      PROVE  SessionInv'
  <2>1. Return(v) /\ UNCHANGED session /\ fault' \in {fault, "assert"}
    BY <1>2 DEF recorder_mode, AssertOpen
  <2> QED BY <2>1, ReturnIsNoCommand, SessionUntouched DEF session, SessionInv, CallbacksNeverNull
<1>3. CASE recorder_stop(v)
  <2>1. CASE ~recording
    BY <1>3, <2>1, ReturnIsNoCommand, SessionUntouched
       DEF recorder_stop, SessionInv, CallbacksNeverNull
  <2>2. CASE recording
    <3>1. Return(v) /\ UNCHANGED <<registered, recording, trace_files, fault>>
      BY <1>3, <2>2, NoNullDeref DEF recorder_stop
    <3>2. NoneNull'
      BY <1>3, <2>2 DEF recorder_stop, SessionInv, RecordingInv, NoneNull, DataInv, DataTypes
    <3> QED BY <2>2, <3>1, <3>2, ReturnIsNoCommand
            DEF SessionInv, OneCommand, OpeningInv, RecordingInv, StoppedInv, ExecInSession,
                CallbacksNeverNull
  <2> QED BY <2>1, <2>2
<1>4. ASSUME NEW cr3 \in Process, recorder_reset(v, cr3)
      PROVE  SessionInv'
  BY <1>4, ReturnIsNoCommand, SessionUntouched
     DEF recorder_reset, session, SessionInv, CallbacksNeverNull
<1>5. ASSUME NEW cmd, recorder_gmm(v, cmd)
      PROVE  SessionInv'
  <2>1. Return(v) /\ UNCHANGED session /\ fault' \in {fault, "gmm"}
    BY <1>5 DEF recorder_gmm, Deref
  <2> QED BY <2>1, ReturnIsNoCommand, SessionUntouched DEF session, SessionInv, CallbacksNeverNull
<1> QED BY <1>1, <1>2, <1>3, <1>4, <1>5 DEF qemu_plugin_control

\* openFile, openFileDone, recorder_start_finish: only one vCPU is starting.
LEMMA SessionInvStart ==
  ASSUME DataInv, SessionInv, NEW v \in VCPU,
         openFile(v) \/ openFileDone(v) \/ recorder_start_finish(v)
  PROVE  SessionInv'
<1>1. pc[v] \in InCommand /\ \A u \in VCPU : pc[u] \in InCommand => u = v
  BY DEF openFile, openFileDone, recorder_start_finish, Goto, SessionInv, OneCommand, InCommand
<1>2. \A u \in VCPU : u # v => pc'[u] = pc[u]
  BY DEF openFile, openFileDone, recorder_start_finish, Goto, DataInv, DataTypes
<1>3. pc'[v] # "exec" /\ UNCHANGED fault /\ ~recording /\ trace_files /\ trace_files'
  BY <1>1 DEF openFile, openFileDone, recorder_start_finish, Goto, DataInv, DataTypes,
     SessionInv, OpeningInv
<1>4. CASE openFile(v)
  <2>1. /\ pc'[v] \in InCommand /\ UNCHANGED <<registered, recording, step>>
        /\ \A u \in VCPU : u < step[v] => output'[u] = output[u]
    BY <1>4 DEF openFile, Goto, InCommand, DataInv, DataTypes, VCPU
  <2> QED BY <1>1, <1>2, <1>3, <2>1
          DEF SessionInv, OneCommand, OpeningInv, RecordingInv, StoppedInv, ExecInSession,
              CallbacksNeverNull
<1>5. CASE openFileDone(v)
  <2>1. step[v] \in VCPU
    BY <1>5, VcpuAssumption DEF openFileDone, Goto, DataInv, DataTypes, StepInRange, VCPU
  <2>2. /\ pc'[v] \in InCommand /\ UNCHANGED <<registered, recording>>
        /\ step'[v] = step[v] + 1
        /\ output'[step[v]] # "null"
        /\ \A u \in VCPU : u < step[v] => output'[u] = output[u]
    BY <1>5, <2>1 DEF openFileDone, Goto, InCommand, DataInv, DataTypes
  <2>3. \A u \in VCPU : u < step[v] + 1 => u < step[v] \/ u = step[v]
    BY <2>1 DEF VCPU
  <2> QED BY <1>1, <1>2, <1>3, <2>2, <2>3
          DEF SessionInv, OneCommand, OpeningInv, RecordingInv, StoppedInv, ExecInSession,
              CallbacksNeverNull
<1>6. CASE recorder_start_finish(v)
  <2>1. /\ pc'[v] \notin InCommand /\ registered' /\ recording' /\ UNCHANGED output
        /\ step[v] = smp_vcpus
    BY <1>6 DEF recorder_start_finish, Goto, InCommand, DataInv, DataTypes
  <2>2. NoneNull'
    BY <1>1, <2>1, VcpuAssumption DEF SessionInv, OpeningInv, NoneNull, VCPU
  <2> QED BY <1>1, <1>2, <1>3, <2>1, <2>2
          DEF SessionInv, OneCommand, OpeningInv, RecordingInv, StoppedInv, ExecInSession,
              CallbacksNeverNull
<1> QED BY <1>4, <1>5, <1>6

LEMMA SessionInvExclusive ==
  ASSUME DataInv, SessionInv, NEW v \in VCPU, RunExclusive(v)
  PROVE  SessionInv'
<1>1. \A u \in VCPU : pc'[u] = "boundary" /\ pc[u] \in {"boundary", "excl"}
  BY DEF RunExclusive, tb_flush, mode_switch_cb, recorder_reset_cb, recorder_stop_cb, Exclusive,
     Goto, DataInv, DataTypes
<1>2. CASE recorder_stop_cb(v)
  <2>1. ~recording' /\ ~registered' /\ ~trace_files' /\ AllNull' /\ UNCHANGED fault
    BY <1>2 DEF recorder_stop_cb, AllNull
  <2> QED BY <1>1, <2>1
          DEF SessionInv, OneCommand, OpeningInv, RecordingInv, StoppedInv, ExecInSession,
              CallbacksNeverNull, InCommand
<1>3. CASE ~recorder_stop_cb(v)
  <2>1. /\ UNCHANGED <<registered, recording, output, trace_files>>
        /\ fault' \in {fault, "switch"}
    BY <1>3 DEF RunExclusive, tb_flush, mode_switch_cb, recorder_reset_cb, session, Deref
  <2> QED BY <1>1, <2>1, SessionUntouched DEF SessionInv, CallbacksNeverNull, InCommand
<1> QED BY <1>2, <1>3

LEMMA SessionInvInductive ==
  ASSUME ~ConcurrentCommands, DataInv, TagsMatch, SessionInv, [Next]_vars
  PROVE  SessionInv'
<1>1. CASE UNCHANGED vars
  BY <1>1, SessionUntouched DEF vars, threads, session, SessionInv, CallbacksNeverNull
<1> QED BY <1>1, SessionInvExecution, SessionInvCommand, SessionInvStart, SessionInvExclusive,
           Zenon DEF Next, Aborted

\* With one trace command at a time, writers and fifos exist exactly while a
\* session is recorded or started, and no callback, event, execve or stop ever
\* finds the null writer of a session that has ended or not begun.
THEOREM SessionTheorem ==
  ASSUME ~ConcurrentCommands
  PROVE  Spec => [](SessionResources /\ CallbacksNeverNull)
<1> DEFINE IInv == TypeInv /\ TagsMatch /\ SessionInv
<1>1. Init => IInv
  <2> SUFFICES ASSUME Init PROVE SessionInv
    BY TypeInvInit DEF Init, TagsMatch, InTB
  <2> QED BY DEF Init, SessionInv, OneCommand, OpeningInv, RecordingInv, StoppedInv, ExecInSession,
             CallbacksNeverNull, AllNull, InCommand
<1>2. IInv /\ [Next]_vars => IInv'
  <2> SUFFICES ASSUME TypeInv, TagsMatch, SessionInv, [Next]_vars PROVE SessionInv'
    BY TypeInvInductive, TagsMatchInductive DEF TypeInv
  <2>1. DataInv
    BY DEF TypeInv
  <2> QED BY <2>1, SessionInvInductive
<1>3. IInv => SessionResources /\ CallbacksNeverNull
  BY SessionInvResources DEF SessionInv
<1> QED BY <1>1, <1>2, <1>3, PTL DEF Spec

(***************************************************************************)
(* The mode: what the simulator was told, the rate, and the instrumented   *)
(* TBs.                                                                    *)
(***************************************************************************)
\* NoDetailedLeftover, of the cache and of the TBs that execute.
DetailedInv ==
  current_mode # "ModeDetailed" =>
    /\ "ModeDetailed" \notin cache
    /\ \A u \in VCPU : pc[u] \in InTB => tb[u] # "ModeDetailed"

LEMMA DetailedInvLeftover == DetailedInv => NoDetailedLeftover
BY DEF DetailedInv, NoDetailedLeftover, LiveTags

\* Only a switch of the simulator, the start and the reset touch the modes.
LEMMA ModesOrStep ==
  ASSUME [Next]_vars
  PROVE  \/ UNCHANGED <<modes, recording>> /\ (fault' = "none" => fault = "none")
         \/ \E v \in VCPU :
              \/ \E m \in Mode \cup {"ModeUnknown"}, cr3 \in Process : recorder_mode(v, m, cr3)
              \/ recorder_start_finish(v) \/ recorder_stop_cb(v)
              \/ \E m \in Mode \ {"ModeDetailed"} : mode_switch_cb(v, m)
<1>1. CASE UNCHANGED vars
  BY <1>1 DEF vars, session
<1>2. ASSUME NEW v \in VCPU,
             \/ BeginTB(v) \/ TbCallback(v) \/ TbCallbackDone(v) \/ EndTB(v)
             \/ VcpuEvent(v) \/ vcpu_syscall_cb(v) \/ FlushICache(v)
             \/ recorder_start(v) \/ recorder_stop(v) \/ openFile(v) \/ openFileDone(v)
             \/ StartExclusive(v) \/ tb_flush(v) \/ recorder_reset_cb(v)
      PROVE  UNCHANGED <<modes, recording>> /\ fault = "none"
  BY <1>2, Zenon DEF BeginTB, TbCallback, TbCallbackDone, EndTB, VcpuEvent, vcpu_syscall_cb,
     FlushICache, recorder_start, recorder_stop, openFile, openFileDone, StartExclusive,
     tb_flush, recorder_reset_cb, Exclusive, Return, Goto, session
<1>3. ASSUME NEW v \in VCPU,
             \/ \E cr3 \in Process : recorder_reset(v, cr3)
             \/ \E cmd \in {"create", "assign", "delete", "message", "sync", "unknown"} :
                  recorder_gmm(v, cmd)
      PROVE  UNCHANGED <<modes, recording>> /\ fault = "none"
  BY <1>3, Zenon DEF recorder_reset, recorder_gmm, Return, Goto, session
<1> QED BY <1>1, <1>2, <1>3, Zenon DEF Next, Aborted, qemu_plugin_control, RunExclusive

\* Backends are told and slowed down in the steps that change the mode.
LEMMA BackendsInductive ==
  ASSUME DataInv, SessionInv, BackendsAgree, [Next]_vars
  PROVE  BackendsAgree'
<1> USE DEF BackendsAgree, modes
<1>1. CASE UNCHANGED <<modes, recording>> /\ (fault' = "none" => fault = "none")
  BY <1>1
<1>2. ASSUME NEW v \in VCPU, NEW m \in Mode \cup {"ModeUnknown"}, NEW cr3 \in Process,
             recorder_mode(v, m, cr3)
      PROVE  BackendsAgree'
  <2>1. fault = "none" /\ recording' = recording
    BY <1>2 DEF recorder_mode, Return, Goto, session
  <2>2. UNCHANGED modes \/ (recording /\ do_mode_switch(m))
    BY <1>2 DEF recorder_mode, KnownMode
  <2> QED BY <2>1, <2>2 DEF do_mode_switch
<1>3. ASSUME NEW v \in VCPU, recorder_start_finish(v) PROVE BackendsAgree'
  <2>1. fault = "none" /\ recording' /\ current_mode' = "ModeIcount" /\ pc[v] \in InCommand
        /\ UNCHANGED <<slomo_rate, told>>
    BY <1>3 DEF recorder_start_finish, Goto, InCommand
  <2>2. ~recording
    BY <2>1 DEF SessionInv, OpeningInv
  <2> QED BY <2>1, <2>2
<1>4. ASSUME NEW v \in VCPU, recorder_stop_cb(v) PROVE BackendsAgree'
  BY <1>4 DEF recorder_stop_cb
<1>5. ASSUME NEW v \in VCPU, NEW m \in Mode \ {"ModeDetailed"}, mode_switch_cb(v, m)
      PROVE  BackendsAgree'
  <2>1. /\ do_mode_switch(m) /\ recording' = recording /\ Deref(v, "switch")
        /\ \A u \in VCPU : pc[u] \notin InCommand
    BY <1>5 DEF mode_switch_cb, Exclusive, session, Goto, InCommand
  <2>2. ~recording => fault' # "none"
    BY <2>1 DEF SessionInv, StoppedInv, AllNull, Deref
  <2> QED BY <2>1, <2>2 DEF do_mode_switch
<1> HIDE DEF BackendsAgree
<1> QED BY <1>1, <1>2, <1>3, <1>4, <1>5, ModesOrStep

LEMMA DetailedInductive ==
  ASSUME DataInv, TagsMatch, SessionInv, DetailedInv, [Next]_vars
  PROVE  DetailedInv'
<1> USE DEF DetailedInv
<1>1. /\ pc \in [VCPU -> InTB \cup {"boundary", "excl"}]
      /\ tb \in [VCPU -> Tag] /\ cache \in SUBSET Tag
  BY DEF DataInv, DataTypes
<1>2. ASSUME NEW v \in VCPU, BeginTB(v) PROVE DetailedInv'
  BY <1>1, <1>2 DEF BeginTB, Goto, TranslationTag, modes, Mode
<1>3. ASSUME UNCHANGED <<tb, cache>>,
             current_mode' = current_mode \/ current_mode' = "ModeDetailed",
             \A u \in VCPU : pc'[u] \in InTB => pc[u] \in InTB
      PROVE  DetailedInv'
  BY <1>3
<1>4. ASSUME NEW v \in VCPU,
             \/ TbCallback(v) \/ TbCallbackDone(v) \/ EndTB(v) \/ VcpuEvent(v)
             \/ vcpu_syscall_cb(v) \/ FlushICache(v) \/ StartExclusive(v)
             \/ recorder_stop(v) \/ openFile(v) \/ openFileDone(v)
      PROVE  DetailedInv'
  <2>1. UNCHANGED <<tb, cache, current_mode>>
    BY <1>4, Zenon DEF TbCallback, TbCallbackDone, EndTB, VcpuEvent, vcpu_syscall_cb,
       FlushICache, StartExclusive, recorder_stop, openFile, openFileDone, Return, threads, modes
  <2>2. \A u \in VCPU : pc'[u] \in InTB => pc[u] \in InTB
    BY <1>1, <1>4 DEF TbCallback, TbCallbackDone, EndTB, VcpuEvent, vcpu_syscall_cb, FlushICache,
       StartExclusive, recorder_stop, openFile, openFileDone, Return, Goto, threads, InTB
  <2> QED BY <1>3, <2>1, <2>2
<1>5. ASSUME NEW v \in VCPU, recorder_start(v) PROVE DetailedInv'
  <2>1. UNCHANGED <<tb, cache, current_mode>>
    BY <1>5, Zenon DEF recorder_start, Return, modes
  <2>2. \A u \in VCPU : pc'[u] \in InTB => pc[u] \in InTB
    BY <1>1, <1>5 DEF recorder_start, Return, Goto, InTB
  <2> QED BY <1>3, <2>1, <2>2
<1>6. ASSUME NEW v \in VCPU, NEW m \in Mode \cup {"ModeUnknown"}, NEW cr3 \in Process,
             recorder_mode(v, m, cr3)
      PROVE  DetailedInv'
  <2>1. UNCHANGED <<tb, cache>> /\ Return(v)
    BY <1>6 DEF recorder_mode, Return
  <2>2. current_mode' = current_mode \/ current_mode' = "ModeDetailed"
    BY <1>6 DEF recorder_mode, SwitchNow, do_mode_switch, modes
  <2>3. \A u \in VCPU : pc'[u] \in InTB => pc[u] \in InTB
    BY <1>1, <2>1 DEF Return, Goto, InTB
  <2> QED BY <1>3, <2>1, <2>2, <2>3
<1>7. ASSUME NEW v \in VCPU, NEW cr3, NEW cmd, recorder_reset(v, cr3) \/ recorder_gmm(v, cmd)
      PROVE  DetailedInv'
  <2>1. UNCHANGED <<tb, cache, current_mode>> /\ Return(v)
    BY <1>7, Zenon DEF recorder_reset, recorder_gmm, Return, modes
  <2>2. \A u \in VCPU : pc'[u] \in InTB => pc[u] \in InTB
    BY <1>1, <2>1 DEF Return, Goto, InTB
  <2> QED BY <1>3, <2>1, <2>2
<1>8. ASSUME NEW v \in VCPU, recorder_start_finish(v) PROVE DetailedInv'
  <2>1. /\ pc[v] \in InCommand /\ UNCHANGED <<tb, cache>>
        /\ \A u \in VCPU : pc'[u] \in InTB => pc[u] \in InTB
    BY <1>1, <1>8 DEF recorder_start_finish, Goto, InCommand, InTB
  <2>2. ~registered
    BY <2>1 DEF SessionInv, OpeningInv
  <2>3. "ModeDetailed" \notin cache /\ \A u \in VCPU : pc[u] \in InTB => tb[u] # "ModeDetailed"
    BY <2>2 DEF TagsMatch, Fits
  <2> QED BY <2>1, <2>3
<1>9. ASSUME NEW v \in VCPU, RunExclusive(v) PROVE DetailedInv'
  <2>1. cache' = {} /\ \A u \in VCPU : pc'[u] = "boundary"
    BY <1>1, <1>9 DEF RunExclusive, tb_flush, mode_switch_cb, recorder_reset_cb,
       recorder_stop_cb, Exclusive, Goto
  <2> QED BY <2>1 DEF InTB
<1>10. CASE UNCHANGED vars
  BY <1>10 DEF vars, threads, modes
<1> HIDE DEF DetailedInv
<1> QED BY <1>2, <1>4, <1>5, <1>6, <1>7, <1>8, <1>9, <1>10, Zenon
        DEF Next, Aborted, qemu_plugin_control

\* With one trace command at a time, the simulator and the rate always follow
\* the mode of the session, whoever switches it and however the switch is
\* carried out, and no TB instrumented for detailed mode outlives that mode.
THEOREM ModeTheorem ==
  ASSUME ~ConcurrentCommands
  PROVE  Spec => [](BackendsAgree /\ NoDetailedLeftover)
<1> DEFINE IInv == TypeInv /\ TagsMatch /\ SessionInv /\ BackendsAgree /\ DetailedInv
<1>1. Init => IInv
  <2> SUFFICES ASSUME Init PROVE IInv
    OBVIOUS
  <2>1. SessionInv
    BY DEF Init, SessionInv, OneCommand, OpeningInv, RecordingInv, StoppedInv, ExecInSession,
       CallbacksNeverNull, AllNull, InCommand
  <2>2. BackendsAgree /\ DetailedInv
    BY DEF Init, BackendsAgree, DetailedInv, InTB
  <2> QED BY <2>1, <2>2, TypeInvInit DEF Init, TagsMatch, InTB
<1>2. IInv /\ [Next]_vars => IInv'
  <2> SUFFICES ASSUME TypeInv, TagsMatch, SessionInv, BackendsAgree, DetailedInv, [Next]_vars
               PROVE  IInv'
    OBVIOUS
  <2>1. DataInv
    BY DEF TypeInv
  <2>2. SessionInv' /\ BackendsAgree' /\ DetailedInv'
    BY <2>1, SessionInvInductive, BackendsInductive, DetailedInductive
  <2> QED BY <2>1, <2>2, TypeInvInductive, TagsMatchInductive
<1>3. IInv => BackendsAgree /\ NoDetailedLeftover
  BY DetailedInvLeftover
<1> QED BY <1>1, <1>2, <1>3, PTL DEF Spec

(***************************************************************************)
(* Statistics.                                                             *)
(***************************************************************************)
\* While a first start is under way no counter moves: recorder_start has
\* cleared them all, and no TB that could count is left.
CleanInv ==
  /\ recording <=> registered
  /\ ~recording => \A v \in VCPU : pc[v] \in InCommand => \A u \in VCPU : ~dirty[u]

\* A step that counts nothing keeps CleanInv unless it begins a start or ends
\* a session.
LEMMA NothingCounted ==
  ASSUME CleanInv,
         UNCHANGED <<registered, recording>>,
         \A u \in VCPU : dirty'[u] => dirty[u],
         \A u \in VCPU : pc'[u] \in InCommand => pc[u] \in InCommand
  PROVE  CleanInv'
BY Zenon DEF CleanInv

LEMMA CleanInvInductive ==
  ASSUME DataInv, TagsMatch, CleanInv, [Next]_vars
  PROVE  CleanInv'
<1>1. pc \in [VCPU -> InTB \cup {"boundary", "excl"}]
  BY DEF DataInv, DataTypes
<1>2. CASE UNCHANGED vars
  <2>1. UNCHANGED <<registered, recording, dirty, pc>>
    BY <1>2, Zenon DEF vars, threads, session
  <2> QED BY <2>1, NothingCounted
<1>3. ASSUME NEW v \in VCPU, TbCallback(v) PROVE CleanInv'
  \* A TB that counts is instrumented, and then the session is recorded.
  <2>1. registered
    BY <1>3 DEF TbCallback, Goto, TagsMatch, Fits, InTB
  <2>2. UNCHANGED <<registered, recording>>
    BY <1>3, Zenon DEF TbCallback
  <2> QED BY <2>1, <2>2 DEF CleanInv
<1>4. ASSUME NEW v \in VCPU,
             \/ BeginTB(v) \/ TbCallbackDone(v) \/ EndTB(v) \/ VcpuEvent(v)
             \/ vcpu_syscall_cb(v) \/ FlushICache(v) \/ StartExclusive(v)
             \/ recorder_stop(v) \/ openFile(v) \/ openFileDone(v)
      PROVE  CleanInv'
  <2>1. UNCHANGED <<registered, recording, dirty>>
    BY <1>4, Zenon DEF BeginTB, TbCallbackDone, EndTB, VcpuEvent, vcpu_syscall_cb, FlushICache,
       StartExclusive, recorder_stop, openFile, openFileDone, session
  <2>2. \A u \in VCPU : pc'[u] \in InCommand => pc[u] \in InCommand
    BY <1>1, <1>4 DEF BeginTB, TbCallbackDone, EndTB, VcpuEvent, vcpu_syscall_cb, FlushICache,
       StartExclusive, recorder_stop, openFile, openFileDone, Return, Goto, threads, InCommand
  <2> QED BY <2>1, <2>2, NothingCounted
<1>5. ASSUME NEW v \in VCPU, NEW m, NEW cr3, NEW cmd,
             recorder_mode(v, m, cr3) \/ recorder_reset(v, cr3) \/ recorder_gmm(v, cmd)
      PROVE  CleanInv'
  <2>1. UNCHANGED <<registered, recording, dirty>> /\ Return(v)
    BY <1>5, Zenon DEF recorder_mode, recorder_reset, recorder_gmm, session
  <2>2. \A u \in VCPU : pc'[u] \in InCommand => pc[u] \in InCommand
    BY <1>1, <2>1 DEF Return, Goto, InCommand
  <2> QED BY <2>1, <2>2, NothingCounted
<1>6. ASSUME NEW v \in VCPU, recorder_start(v) PROVE CleanInv'
  <2>1. CASE recording
    <3>1. UNCHANGED <<registered, recording>>
      BY <1>6, <2>1, Zenon DEF recorder_start, session
    <3> QED BY <2>1, <3>1 DEF CleanInv
  <2>2. CASE ~recording
    <3>1. UNCHANGED <<registered, recording>> /\ \A u \in VCPU : ~dirty'[u]
      BY <1>6, <2>2 DEF recorder_start
    <3> QED BY <2>2, <3>1 DEF CleanInv
  <2> QED BY <2>1, <2>2
<1>7. ASSUME NEW v \in VCPU, recorder_start_finish(v) PROVE CleanInv'
  BY <1>7 DEF recorder_start_finish, CleanInv
<1>8. ASSUME NEW v \in VCPU, RunExclusive(v) PROVE CleanInv'
  \* A stop finds every vCPU at a boundary, so it interrupts no start.
  <2>1. \A u \in VCPU : pc'[u] = "boundary"
    BY <1>1, <1>8 DEF RunExclusive, tb_flush, mode_switch_cb, recorder_reset_cb,
       recorder_stop_cb, Exclusive, Goto
  <2>2. (recording <=> registered)'
    <3>1. CASE recorder_stop_cb(v)
      BY <3>1, Zenon DEF recorder_stop_cb
    <3>2. CASE ~recorder_stop_cb(v)
      <4>1. UNCHANGED <<registered, recording>>
        BY <1>8, <3>2, Zenon DEF RunExclusive, tb_flush, mode_switch_cb, recorder_reset_cb, session
      <4> QED BY <4>1 DEF CleanInv
    <3> QED BY <3>1, <3>2
  <2> QED BY <2>1, <2>2 DEF CleanInv, InCommand
<1> QED BY <1>2, <1>3, <1>4, <1>5, <1>6, <1>7, <1>8, Zenon
        DEF Next, Aborted, qemu_plugin_control

\* Only the end of a start begins a session.
LEMMA OnlyStartRecords ==
  ASSUME DataInv, CleanInv, [Next]_vars
  PROVE  CleanStart
<1> SUFFICES ASSUME ~recording, recording' PROVE \A u \in VCPU : ~dirty'[u]
  BY DEF CleanStart
<1>1. PICK v \in VCPU : recorder_start_finish(v)
  <2>1. CASE UNCHANGED <<modes, recording>>
    BY <2>1
  <2>2. ASSUME NEW v \in VCPU, NEW m \in Mode \cup {"ModeUnknown"}, NEW cr3 \in Process,
               recorder_mode(v, m, cr3)
        PROVE  FALSE
    BY <2>2 DEF recorder_mode, session
  <2>3. ASSUME NEW v \in VCPU, NEW m, recorder_stop_cb(v) \/ mode_switch_cb(v, m) PROVE FALSE
    BY <2>3 DEF recorder_stop_cb, mode_switch_cb, session
  <2> QED BY <2>1, <2>2, <2>3, ModesOrStep
<1>2. pc[v] \in InCommand /\ UNCHANGED dirty
  BY <1>1 DEF recorder_start_finish, Goto, InCommand
<1> QED BY <1>2 DEF CleanInv

\* A session starts with all statistics at zero, although recorder_start
\* clears them long before it has waited for every reader of the simulator,
\* and however many vCPUs start at once.
THEOREM StartTheorem == Spec => SessionStartsClean
<1> DEFINE IInv == TypeInv /\ TagsMatch /\ CleanInv
<1>1. Init => IInv
  <2> SUFFICES ASSUME Init PROVE IInv
    OBVIOUS
  <2>1. CleanInv
    BY DEF Init, CleanInv, InCommand
  <2> QED BY <2>1, TypeInvInit DEF Init, TagsMatch, InTB
<1>2. IInv /\ [Next]_vars => IInv'
  BY TypeInvInductive, TagsMatchInductive, CleanInvInductive DEF TypeInv
<1>3. IInv /\ [Next]_vars => [CleanStart]_vars
  BY OnlyStartRecords DEF TypeInv
<1> QED BY <1>1, <1>2, <1>3, PTL DEF Spec, SessionStartsClean
=============================================================================
