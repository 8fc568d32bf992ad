----------------------- MODULE TraceRefinement_proofs -----------------------
(* The control plane of the trace plugin implements Session, for every     *)
(* number of vCPUs that send commands one at a time.                       *)
EXTENDS TraceRefinement, TraceSimulator, TraceRecorder_proofs

(***************************************************************************)
(* Two more facts about the recorder.                                      *)
(***************************************************************************)
\* Work is queued by the last step of a TB and done before the next TB begins.
WorkInv == \A v \in VCPU : pc[v] \notin {"boundary", "excl"} => work[v] = "none"

\* A start has not touched the writers from its loop index on.
NotYetOpened ==
  \A v \in VCPU : pc[v] \in InCommand =>
    \A u \in VCPU : u >= step[v] => output[u] = "null"

LEMMA WorkInvInductive ==
  ASSUME DataInv, WorkInv, [Next]_vars
  PROVE  WorkInv'
<1> USE DEF WorkInv, Goto, Return
<1>1. pc \in [VCPU -> InTB \cup {"boundary", "excl"}] /\ work \in [VCPU -> Work]
  BY DEF DataInv, DataTypes
<1>2. CASE UNCHANGED vars
  BY <1>2 DEF vars, threads
<1>3. ASSUME NEW v \in VCPU,
             \/ BeginTB(v) \/ TbCallback(v) \/ TbCallbackDone(v) \/ EndTB(v)
             \/ VcpuEvent(v) \/ vcpu_syscall_cb(v) \/ FlushICache(v)
             \/ openFile(v) \/ openFileDone(v) \/ StartExclusive(v)
      PROVE  WorkInv'
  BY <1>1, <1>3 DEF BeginTB, TbCallback, TbCallbackDone, EndTB, VcpuEvent, vcpu_syscall_cb,
     FlushICache, openFile, openFileDone, StartExclusive, threads
<1>4. ASSUME NEW v \in VCPU, pc' = [pc EXCEPT ![v] = "boundary"],
             work' = work \/ \E w : work' = [work EXCEPT ![v] = w]
      PROVE  WorkInv'
  BY <1>1, <1>4
<1>5. ASSUME NEW v \in VCPU, recorder_start(v) PROVE WorkInv'
  <2>1. work' = work /\ pc[v] = "tb"
    BY <1>5 DEF recorder_start
  <2>2. PICK to : pc' = [pc EXCEPT ![v] = to]
    BY <1>5 DEF recorder_start
  <2> QED BY <1>1, <2>1, <2>2
<1>6. ASSUME NEW v \in VCPU, qemu_plugin_control(v), ~recorder_start(v) PROVE WorkInv'
  BY <1>4, <1>6 DEF qemu_plugin_control, recorder_mode, recorder_stop, recorder_reset,
     recorder_gmm, Queue
<1>7. ASSUME NEW v \in VCPU, recorder_start_finish(v) \/ RunExclusive(v) PROVE WorkInv'
  BY <1>4, <1>7 DEF recorder_start_finish, RunExclusive, tb_flush, mode_switch_cb,
     recorder_reset_cb, recorder_stop_cb, Exclusive, Queue
<1> HIDE DEF WorkInv
<1> QED BY <1>2, <1>3, <1>5, <1>6, <1>7, Zenon DEF Next, Aborted

\* Only the start itself changes writers while it is under way.
LEMMA NotYetOpenedInductive ==
  ASSUME ~ConcurrentCommands, DataInv, SessionInv, NotYetOpened, [Next]_vars
  PROVE  NotYetOpened'
<1> USE DEF NotYetOpened
<1>1. /\ pc \in [VCPU -> InTB \cup {"boundary", "excl"}]
      /\ step \in [VCPU -> 0 .. smp_vcpus] /\ output \in [VCPU -> Writer]
  BY DEF DataInv, DataTypes
<1>2. CASE UNCHANGED vars
  BY <1>2 DEF vars, threads, session
<1>3. ASSUME NEW v \in VCPU,
             \/ BeginTB(v) \/ TbCallback(v) \/ TbCallbackDone(v) \/ EndTB(v)
             \/ VcpuEvent(v) \/ vcpu_syscall_cb(v) \/ FlushICache(v) \/ StartExclusive(v)
      PROVE  NotYetOpened'
  <2>1. UNCHANGED output
    BY <1>3, Zenon DEF BeginTB, TbCallback, TbCallbackDone, EndTB, VcpuEvent, vcpu_syscall_cb,
       FlushICache, StartExclusive, session
  <2>2. \A u \in VCPU : pc'[u] \in InCommand => pc[u] \in InCommand /\ step'[u] = step[u]
    BY <1>1, <1>3 DEF BeginTB, TbCallback, TbCallbackDone, EndTB, VcpuEvent, vcpu_syscall_cb,
       FlushICache, StartExclusive, Return, Goto, threads, InCommand
  <2> QED BY <2>1, <2>2
<1>4. ASSUME NEW v \in VCPU, recorder_start(v) PROVE NotYetOpened'
  <2>1. CASE recording
    <3>1. Return(v) /\ UNCHANGED output
      BY <1>4, <2>1 DEF recorder_start, session
    <3> QED BY <3>1, ReturnIsNoCommand
  <2>2. CASE ~recording
    BY <1>4, <2>2 DEF recorder_start
  <2> QED BY <2>1, <2>2
<1>5. ASSUME NEW v \in VCPU, qemu_plugin_control(v), ~recorder_start(v) PROVE NotYetOpened'
  <2>1. Return(v) /\ Command(v)
    BY <1>5 DEF qemu_plugin_control, recorder_mode, recorder_stop, recorder_reset, recorder_gmm
  <2>2. \A u \in VCPU : pc[u] \notin InCommand
    BY <2>1 DEF Command
  <2> QED BY <2>1, <2>2, ReturnIsNoCommand
<1>6. ASSUME NEW v \in VCPU, openFile(v) PROVE NotYetOpened'
  <2>1. \A u \in VCPU : pc[u] \in InCommand => u = v
    BY <1>6 DEF openFile, Goto, SessionInv, OneCommand, InCommand
  <2>2. /\ pc[v] \in InCommand /\ step' = step
        /\ \A u \in VCPU : output'[u] = output[u] \/ output'[u] = "null"
    BY <1>1, <1>6 DEF openFile, Goto, InCommand
  <2>3. \A u \in VCPU : pc'[u] \in InCommand => u = v
    BY <1>1, <1>6, <2>1 DEF openFile, Goto
  <2> QED BY <2>2, <2>3
<1>7. ASSUME NEW v \in VCPU, openFileDone(v) PROVE NotYetOpened'
  <2>1. \A u \in VCPU : pc[u] \in InCommand => u = v
    BY <1>7 DEF openFileDone, Goto, SessionInv, OneCommand, InCommand
  <2>2. /\ pc[v] \in InCommand /\ step'[v] = step[v] + 1
        /\ \A u \in VCPU : u # step[v] => output'[u] = output[u]
    BY <1>1, <1>7 DEF openFileDone, Goto, InCommand
  <2>3. \A u \in VCPU : pc'[u] \in InCommand => u = v
    BY <1>1, <1>7, <2>1 DEF openFileDone, Goto
  <2>4. \A u \in VCPU : u >= step[v] + 1 => u >= step[v] /\ u # step[v]
    BY <1>1 DEF VCPU
  <2> QED BY <2>2, <2>3, <2>4
<1>8. ASSUME NEW v \in VCPU, recorder_start_finish(v) \/ RunExclusive(v) PROVE NotYetOpened'
  <2>1. \A u \in VCPU : pc'[u] \notin InCommand
    <3>1. CASE recorder_start_finish(v)
      BY <1>1, <3>1 DEF recorder_start_finish, Goto, SessionInv, OneCommand, InCommand
    <3>2. CASE RunExclusive(v)
      BY <1>1, <3>2 DEF RunExclusive, tb_flush, mode_switch_cb, recorder_reset_cb,
         recorder_stop_cb, Exclusive, Goto, InCommand
    <3> QED BY <1>8, <3>1, <3>2
  <2> QED BY <2>1
<1> HIDE DEF NotYetOpened
<1> QED BY <1>2, <1>3, <1>4, <1>5, <1>6, <1>7, <1>8, Zenon DEF Next, Aborted

(***************************************************************************)
(* What the state functions of the refinement say of the recorder.         *)
(***************************************************************************)
NobodyStarts == \A u \in VCPU : pc[u] \notin InCommand

\* What a session sees of the work queued on v.
Request(w) == IF w = "reset" THEN "stop" ELSE IF w \in Mode THEN w ELSE "none"

LEMMA AskedIsRequest == fault = "none" => asked = [v \in VCPU |-> Request(work[v])]
BY DEF asked, phase, Request

LEMMA CrashedView ==
  ASSUME fault # "none"
  PROVE  phase = "crashed" /\ mode = "none" /\ link = S!NoLink /\ asked = S!NoRequest
BY DEF phase, mode, link, asked, S!NoLink, S!NoRequest

LEMMA RecordingView ==
  ASSUME fault = "none", recording
  PROVE  phase = "recording" /\ mode = current_mode
BY DEF phase, mode

LEMMA StartingView ==
  ASSUME fault = "none", ~recording, ~NobodyStarts
  PROVE  phase = "starting" /\ mode = "none"
BY DEF phase, mode, NobodyStarts

LEMMA IdleView ==
  ASSUME fault = "none", ~recording, NobodyStarts
  PROVE  phase = "idle" /\ mode = "none"
BY DEF phase, mode, NobodyStarts

\* Outside a crash the link of u is that of its Writer.
LEMMA LinkView ==
  ASSUME fault = "none"
  PROVE  link = [v \in VCPU |-> IF output[v] = "null" THEN "none"
                                ELSE IF output[v] = "open" THEN "up" ELSE "down"]
BY DEF link, phase

\* A step that changes none of the session's business stutters.
LEMMA Unseen ==
  ASSUME UNCHANGED <<recording, output, current_mode, fault>>,
         \A u \in VCPU : pc'[u] \in InCommand <=> pc[u] \in InCommand,
         \A u \in VCPU : Request(work'[u]) = Request(work[u])
  PROVE  UNCHANGED S!vars
<1>1. UNCHANGED <<phase, mode, link>>
  BY DEF phase, mode, link
<1>2. UNCHANGED asked
  BY <1>1 DEF asked, Request
<1> QED BY <1>1, <1>2 DEF S!vars

\* Queueing work on v changes what is asked by v only.
LEMMA QueueAsks ==
  ASSUME DataInv, fault = "none", fault' = "none", NEW v \in VCPU, NEW w, Queue(v, w)
  PROVE  asked' = [asked EXCEPT ![v] = Request(w)]
<1>1. work' = [work EXCEPT ![v] = w] /\ work \in [VCPU -> Work]
  BY DEF Queue, DataInv, DataTypes
<1>2. asked' = [u \in VCPU |-> Request(work'[u])]
  BY AskedIsRequest DEF asked, phase, Request
<1>3. asked = [u \in VCPU |-> Request(work[u])]
  BY AskedIsRequest
<1> QED BY <1>1, <1>2, <1>3

(***************************************************************************)
(* Every step of the recorder is one of the session, or none.              *)
(***************************************************************************)
LEMMA ExecutionUnseen ==
  ASSUME DataInv, TagsMatch, SessionInv, NEW v \in VCPU,
         \/ BeginTB(v) \/ TbCallback(v) \/ TbCallbackDone(v) \/ EndTB(v)
         \/ VcpuEvent(v) \/ vcpu_syscall_cb(v) \/ FlushICache(v) \/ StartExclusive(v)
  PROVE  UNCHANGED S!vars
<1>1. UNCHANGED <<recording, output, current_mode, work>>
  BY Zenon DEF BeginTB, TbCallback, TbCallbackDone, EndTB, VcpuEvent, vcpu_syscall_cb,
     FlushICache, StartExclusive, session, modes
<1>2. \A u \in VCPU : pc'[u] \in InCommand <=> pc[u] \in InCommand
  BY DEF BeginTB, TbCallback, TbCallbackDone, EndTB, VcpuEvent, vcpu_syscall_cb,
     FlushICache, StartExclusive, Return, Goto, threads, InCommand, DataInv, DataTypes
<1>3. fault' = fault
  <2>1. CASE TbCallback(v)
    <3>1. recording
      BY <2>1 DEF TbCallback, Goto, TagsMatch, Fits, InTB, SessionInv
    <3> QED BY <2>1, <3>1, NoNullDeref DEF TbCallback
  <2>2. CASE VcpuEvent(v)
    BY <2>2, NoNullDeref DEF VcpuEvent, SessionInv
  <2>3. CASE FlushICache(v)
    <3>1. recording /\ step[v] \in VCPU
      BY <2>3, VcpuAssumption
         DEF FlushICache, Goto, SessionInv, ExecInSession, DataInv, DataTypes, StepInRange, VCPU
    <3> QED BY <2>3, <3>1, NoNullDeref DEF FlushICache
  <2>4. CASE \/ BeginTB(v) \/ TbCallbackDone(v) \/ EndTB(v) \/ vcpu_syscall_cb(v)
             \/ StartExclusive(v)
    BY <2>4 DEF BeginTB, TbCallbackDone, EndTB, vcpu_syscall_cb, StartExclusive
  <2> QED BY <2>1, <2>2, <2>3, <2>4
<1> QED BY <1>1, <1>2, <1>3, Unseen

\* A fault is a crash of the session: a link was missing, or down while all of
\* them were needed.
LEMMA FaultIsCrash ==
  ASSUME fault = "none", fault' # "none", NEW u \in VCPU,
         \/ ~recording /\ output[u] = "null"
         \/ recording /\ output[u] \notin {"null", "open"}
  PROVE  S!Crash
<1>1. phase' = "crashed" /\ mode' = "none" /\ link' = S!NoLink /\ asked' = S!NoRequest
  BY CrashedView DEF phase, mode, link, asked, S!NoLink, S!NoRequest
<1>2. CASE ~recording /\ output[u] = "null"
  BY <1>1, <1>2, LinkView DEF phase, S!Crash
<1>3. CASE recording /\ output[u] \notin {"null", "open"}
  BY <1>1, <1>3, LinkView, RecordingView DEF S!Crash
<1> QED BY <1>2, <1>3

\* A start finds no writer; one that is refused changes nothing.
LEMMA StartRefines ==
  ASSUME DataInv, SessionInv, ~ConcurrentCommands, NEW v \in VCPU, recorder_start(v)
  PROVE  S!Start \/ UNCHANGED S!vars
<1>1. CASE recording
  BY <1>1, ReturnIsNoCommand, Unseen DEF recorder_start, session, modes
<1>2. CASE ~recording
  <2>1. /\ Goto(v, "tb", "enter") /\ output' = [u \in VCPU |-> "null"]
        /\ UNCHANGED <<recording, work, fault>>
    BY <1>2 DEF recorder_start
  <2>2. NobodyStarts /\ ~NobodyStarts'
    BY <2>1 DEF recorder_start, Command, NobodyStarts, Goto, InCommand, DataInv, DataTypes
  <2>3. output' = output
    BY <1>2, <2>1, <2>2 DEF SessionInv, StoppedInv, AllNull, NobodyStarts, DataInv, DataTypes
  <2>4. fault = "none"
    BY <2>1 DEF Goto
  <2>5. phase = "idle" /\ mode = "none" /\ phase' = "starting" /\ mode' = "none"
    BY <1>2, <2>1, <2>2, <2>4 DEF phase, mode, NobodyStarts
  <2>6. UNCHANGED <<link, asked>>
    BY <2>1, <2>3, <2>5 DEF link, asked
  <2> QED BY <2>5, <2>6 DEF S!Start
<1> QED BY <1>1, <1>2

\* The command switches to detailed mode itself; it asks for the other modes.
LEMMA ModeRefines ==
  ASSUME DataInv, SessionInv, WorkInv, NEW v \in VCPU, NEW m, NEW cr3,
         recorder_mode(v, m, cr3)
  PROVE  UNCHANGED S!vars \/ S!Crash \/ S!Enter(m) \/ S!AskMode(v, m)
<1>1. Return(v) /\ UNCHANGED session /\ fault = "none" /\ work[v] = "none"
  BY DEF recorder_mode, Return, Goto, WorkInv
<1>2. CASE ~recording \/ ~KnownMode(m) \/ current_mode = m
  BY <1>1, <1>2, ReturnIsNoCommand, Unseen DEF recorder_mode, modes, session
<1>3. CASE recording /\ m = "ModeDetailed" /\ current_mode # m
  <2>1. AssertOpen /\ current_mode' = m /\ Queue(v, "flush")
    BY <1>3 DEF recorder_mode, KnownMode, SwitchNow, do_mode_switch, Mode
  <2>2. CASE \A u \in VCPU : output[u] = "open"
    <3>1. fault' = "none"
      BY <1>1, <2>1, <2>2 DEF AssertOpen
    <3>2. asked' = asked
      <4>1. asked' = [asked EXCEPT ![v] = "none"]
        BY <1>1, <2>1, <3>1, QueueAsks DEF Request, Mode
      <4>2. asked[v] = "none"
        BY <1>1, AskedIsRequest DEF Request, Mode
      <4> QED BY <1>1, <4>1, <4>2, AskedIsRequest
    <3>3. phase = "recording" /\ phase' = "recording" /\ mode = current_mode /\ mode' = m
      BY <1>1, <1>3, <2>1, <3>1 DEF phase, mode, session
    <3>4. link' = link
      BY <1>1, <3>3 DEF link, session
    <3>5. \A u \in VCPU : link[u] = "up"
      BY <1>1, <2>2, LinkView
    <3> QED BY <1>3, <3>2, <3>3, <3>4, <3>5 DEF S!Enter
  <2>3. CASE \E u \in VCPU : output[u] # "open"
    <3>1. PICK u \in VCPU : output[u] # "open"
      BY <2>3
    <3>2. output[u] # "null" /\ fault' # "none"
      BY <1>3, <2>1, <2>3, <3>1 DEF SessionInv, RecordingInv, NoneNull, AssertOpen
    <3> QED BY <1>1, <1>3, <3>1, <3>2, FaultIsCrash
  <2> QED BY <2>2, <2>3
<1>4. CASE recording /\ m \in Mode \ {"ModeDetailed"} /\ current_mode # m
  <2>1. Queue(v, m) /\ UNCHANGED <<modes, fault>>
    BY <1>4 DEF recorder_mode, KnownMode, SwitchNow
  <2>2. asked' = [asked EXCEPT ![v] = m] /\ asked[v] = "none"
    <3>1. Request(m) = m
      BY <1>4 DEF Request, Mode
    <3>2. asked[v] = "none"
      BY <1>1, AskedIsRequest DEF Request, Mode
    <3> QED BY <1>1, <2>1, <3>1, <3>2, QueueAsks
  <2>3. /\ phase = "recording" /\ mode = current_mode
        /\ UNCHANGED <<phase, mode, link>>
    BY <1>1, <1>4, <2>1 DEF phase, mode, link, session, modes
  <2> QED BY <1>4, <2>2, <2>3 DEF S!AskMode
<1> QED BY <1>2, <1>3, <1>4 DEF KnownMode

\* The vCPU that stops ends its own trace and asks for the rest.
LEMMA StopRefines ==
  ASSUME DataInv, SessionInv, WorkInv, NEW v \in VCPU, recorder_stop(v)
  PROVE  UNCHANGED S!vars \/ S!AskStop(v)
<1>1. Return(v) /\ fault = "none" /\ work[v] = "none"
  BY DEF recorder_stop, Return, Goto, WorkInv
<1>2. CASE ~recording
  BY <1>1, <1>2, ReturnIsNoCommand, Unseen DEF recorder_stop, modes
<1>3. CASE recording
  <2>1. /\ output' = [output EXCEPT ![v] = IF @ = "open" THEN "ended" ELSE @]
        /\ Queue(v, "reset") /\ UNCHANGED <<recording, current_mode>>
    BY <1>3 DEF recorder_stop, modes
  <2>2. fault' = "none"
    BY <1>1, <1>3, NoNullDeref DEF recorder_stop
  <2>3. output[v] # "null"
    BY <1>3 DEF SessionInv, RecordingInv, NoneNull
  <2>4. asked' = [asked EXCEPT ![v] = "stop"] /\ asked[v] = "none"
    <3>1. asked[v] = "none"
      BY <1>1, AskedIsRequest DEF Request, Mode
    <3> QED BY <1>1, <2>1, <2>2, <3>1, QueueAsks DEF Request
  <2>5. phase = "recording" /\ UNCHANGED <<phase, mode>>
    BY <1>1, <1>3, <2>1, <2>2 DEF phase, mode
  <2>6. link' = [link EXCEPT ![v] = "down"]
    <3>1. output \in [VCPU -> Writer]
      BY DEF DataInv, DataTypes
    <3>2. link' = [u \in VCPU |-> IF output'[u] = "null" THEN "none"
                                  ELSE IF output'[u] = "open" THEN "up" ELSE "down"]
      BY <2>5 DEF link
    <3> QED BY <1>1, <2>1, <2>3, <3>1, <3>2, LinkView
  <2> QED BY <2>4, <2>5, <2>6 DEF S!AskStop
<1> QED BY <1>2, <1>3

\* A message to the simulator ends QEMU when there is no session.
LEMMA MessageRefines ==
  ASSUME DataInv, SessionInv, NEW v \in VCPU, NEW cmd, recorder_gmm(v, cmd)
  PROVE  UNCHANGED S!vars \/ S!Crash
<1>1. Return(v) /\ fault = "none" /\ UNCHANGED <<recording, output, current_mode, work>>
  BY Zenon DEF recorder_gmm, Return, Goto, session, modes
<1>2. CASE fault' = fault
  BY <1>1, <1>2, ReturnIsNoCommand, Unseen
<1>3. CASE fault' # fault
  <2>1. output[v] = "null"
    BY <1>3 DEF recorder_gmm, Deref
  <2>2. ~recording
    BY <2>1 DEF SessionInv, RecordingInv, NoneNull
  <2> QED BY <1>1, <1>3, <2>1, <2>2, FaultIsCrash
<1> QED BY <1>2, <1>3

LEMMA CounterResetUnseen ==
  ASSUME DataInv, WorkInv, NEW v \in VCPU, NEW cr3, recorder_reset(v, cr3)
  PROVE  UNCHANGED S!vars
<1>1. Return(v) /\ UNCHANGED <<recording, output, current_mode, fault>> /\ work[v] = "none"
  BY DEF recorder_reset, Return, Goto, session, modes, WorkInv
<1>2. \A u \in VCPU : Request(work'[u]) = Request(work[u])
  <2>1. work' = work \/ work' = [work EXCEPT ![v] = "counters"]
    BY DEF recorder_reset, Queue
  <2> QED BY <1>1, <2>1 DEF Request, Mode, DataInv, DataTypes
<1> QED BY <1>1, <1>2, ReturnIsNoCommand, Unseen

\* The loop over the fifos opens one link after the other, then the session
\* begins with all of them.
LEMMA OpeningRefines ==
  ASSUME DataInv, SessionInv, NotYetOpened, WorkInv, NEW v \in VCPU,
         openFile(v) \/ openFileDone(v) \/ recorder_start_finish(v)
  PROVE  UNCHANGED S!vars \/ S!Begin \/ \E u \in VCPU : S!Connect(u)
<1>1. /\ pc[v] \in InCommand /\ fault = "none" /\ fault' = "none" /\ ~recording
      /\ step[v] \in 0 .. smp_vcpus /\ output \in [VCPU -> Writer]
  BY DEF openFile, openFileDone, recorder_start_finish, Goto, InCommand, SessionInv, OpeningInv,
     DataInv, DataTypes
<1>2. phase = "starting" /\ mode = "none"
  BY <1>1, StartingView DEF NobodyStarts
<1>3. CASE openFile(v)
  <2>1. step[v] \in VCPU
    BY <1>1, <1>3, VcpuAssumption DEF openFile, VCPU
  <2>2. output[step[v]] = "null"
    BY <1>1, <2>1 DEF NotYetOpened, VCPU
  <2>3. output' = output
    BY <1>1, <1>3, <2>1, <2>2 DEF openFile
  <2>4. \A u \in VCPU : pc'[u] \in InCommand <=> pc[u] \in InCommand
    BY <1>3 DEF openFile, Goto, InCommand, DataInv, DataTypes
  <2> QED BY <1>3, <2>3, <2>4, Unseen DEF openFile, modes
<1>4. CASE openFileDone(v)
  <2>1. step[v] \in VCPU
    BY <1>4, VcpuAssumption DEF openFileDone, Goto, DataInv, DataTypes, StepInRange, VCPU
  <2>2. output[step[v]] = "null"
    BY <1>1, <2>1 DEF NotYetOpened, VCPU
  <2>3. PICK w \in {"open", "failed"} : output' = [output EXCEPT ![step[v]] = w]
    BY <1>4 DEF openFileDone
  <2>4. /\ UNCHANGED <<recording, current_mode, work>> /\ pc'[v] \in InCommand
    BY <1>4 DEF openFileDone, Goto, InCommand, modes, DataInv, DataTypes
  <2>5. phase' = "starting" /\ mode' = "none"
    BY <1>1, <2>4 DEF phase, mode
  <2>6. asked' = asked
    BY <1>2, <2>4, <2>5 DEF asked
  <2>7. link' = [u \in VCPU |-> IF output'[u] = "null" THEN "none"
                                ELSE IF output'[u] = "open" THEN "up" ELSE "down"]
    BY <2>5 DEF link
  <2>8. link[step[v]] = "none"
    BY <1>1, <2>1, <2>2, LinkView
  <2>9. link' = [link EXCEPT ![step[v]] = IF w = "open" THEN "up" ELSE "down"]
    BY <1>1, <2>1, <2>3, <2>7, LinkView
  <2> QED BY <1>2, <2>1, <2>5, <2>6, <2>8, <2>9 DEF S!Connect
<1>5. CASE recorder_start_finish(v)
  <2>1. /\ step[v] = smp_vcpus /\ recording' /\ current_mode' = "ModeIcount"
        /\ Queue(v, "flush") /\ UNCHANGED output /\ work[v] = "none"
    BY <1>1, <1>5 DEF recorder_start_finish, WorkInv, InCommand
  <2>2. \A u \in VCPU : output[u] # "null"
    BY <1>1, <2>1, VcpuAssumption DEF SessionInv, OpeningInv, VCPU
  <2>3. \A u \in VCPU : link[u] # "none"
    BY <1>1, <2>2, LinkView
  <2>4. phase' = "recording" /\ mode' = "ModeIcount"
    BY <1>1, <2>1 DEF phase, mode
  <2>5. link' = link
    BY <1>2, <2>1, <2>4 DEF link
  <2>6. asked' = asked
    <3>1. asked' = [asked EXCEPT ![v] = "none"]
      BY <1>1, <2>1, QueueAsks DEF Request, Mode
    <3>2. asked[v] = "none"
      BY <1>1, <2>1, AskedIsRequest DEF Request, Mode
    <3> QED BY <1>1, <3>1, <3>2, AskedIsRequest
  <2> QED BY <1>2, <2>3, <2>4, <2>5, <2>6 DEF S!Begin
<1> QED BY <1>3, <1>4, <1>5

\* The work that runs while all vCPUs are out of their TBs answers the request
\* it was queued for.
LEMMA ExclusiveRefines ==
  ASSUME DataInv, SessionInv, NEW v \in VCPU, RunExclusive(v)
  PROVE  \/ UNCHANGED S!vars \/ S!Crash
         \/ S!GrantMode(v) \/ S!GrantStop(v)
<1>1. /\ fault = "none" /\ Queue(v, "none") /\ NobodyStarts /\ NobodyStarts'
  BY DEF RunExclusive, tb_flush, mode_switch_cb, recorder_reset_cb, recorder_stop_cb,
     Exclusive, Goto, NobodyStarts, InCommand, DataInv, DataTypes
<1>2. fault' = "none" => asked' = [asked EXCEPT ![v] = "none"]
  BY <1>1, QueueAsks DEF Request, Mode
<1>3. CASE tb_flush(v) \/ recorder_reset_cb(v)
  <2>1. /\ UNCHANGED <<recording, output, current_mode, fault>>
        /\ work[v] \in {"flush", "counters"}
    BY <1>3 DEF tb_flush, recorder_reset_cb, Exclusive, session, modes
  <2>2. \A u \in VCPU : Request(work'[u]) = Request(work[u])
    BY <1>1, <2>1 DEF Queue, Request, Mode, DataInv, DataTypes
  <2> QED BY <1>1, <2>1, <2>2, Unseen DEF NobodyStarts
<1>4. ASSUME NEW m \in Mode \ {"ModeDetailed"}, mode_switch_cb(v, m)
      PROVE  S!Crash \/ S!GrantMode(v)
  <2>1. /\ UNCHANGED session /\ current_mode' = m /\ work[v] = m
        /\ Deref(v, "switch")
    BY <1>4 DEF mode_switch_cb, Exclusive, do_mode_switch
  <2>2. CASE recording
    <3>1. fault' = "none"
      BY <1>1, <2>1, <2>2, NoNullDeref
    <3>2. phase = "recording" /\ phase' = "recording" /\ mode' = m /\ link' = link
      BY <1>1, <2>1, <2>2, <3>1 DEF phase, mode, link, session
    <3>3. asked[v] = m
      BY <1>1, <2>1, AskedIsRequest DEF Request, Mode
    <3> QED BY <1>2, <3>1, <3>2, <3>3 DEF S!GrantMode, S!Answered
  <2>3. CASE ~recording
    <3>1. output[v] = "null"
      BY <1>1, <2>3 DEF SessionInv, StoppedInv, AllNull, NobodyStarts
    <3>2. fault' # "none"
      BY <2>1, <3>1 DEF Deref
    <3> QED BY <1>1, <2>3, <3>1, <3>2, FaultIsCrash
  <2> QED BY <2>2, <2>3
<1>5. CASE recorder_stop_cb(v)
  <2>1. /\ ~recording' /\ output' = [u \in VCPU |-> "null"] /\ fault' = "none"
        /\ work[v] = "reset"
    BY <1>1, <1>5 DEF recorder_stop_cb, Exclusive
  <2>2. phase \in {"idle", "recording"} /\ phase' = "idle" /\ mode' = "none"
    BY <1>1, <2>1 DEF phase, mode, NobodyStarts
  <2>3. link' = S!NoLink
    BY <2>1, <2>2 DEF link, S!NoLink
  <2>4. asked[v] = "stop"
    BY <1>1, <2>1, AskedIsRequest DEF Request
  <2> QED BY <1>2, <2>1, <2>2, <2>3, <2>4 DEF S!GrantStop, S!Answered
<1> QED BY <1>3, <1>4, <1>5 DEF RunExclusive

LEMMA InitRefines == Init => S!Init
<1> SUFFICES ASSUME Init PROVE S!Init
  OBVIOUS
<1>1. phase = "idle" /\ mode = "none"
  BY DEF Init, phase, mode, InCommand
<1>2. link = S!NoLink /\ asked = S!NoRequest
  BY <1>1 DEF Init, link, asked, S!NoLink, S!NoRequest, Mode
<1> QED BY <1>1, <1>2 DEF S!Init

IInv == TypeInv /\ TagsMatch /\ SessionInv /\ WorkInv /\ NotYetOpened

LEMMA StepRefines ==
  ASSUME ~ConcurrentCommands, IInv, [Next]_vars
  PROVE  [S!Next]_(S!vars)
<1> USE DEF IInv, TypeInv
<1>1. CASE UNCHANGED vars
  BY <1>1, Unseen DEF vars, threads, session, modes
<1>2. ASSUME NEW v \in VCPU, qemu_plugin_control(v) PROVE [S!Next]_(S!vars)
  <2>1. CASE recorder_start(v)
    BY <2>1, StartRefines DEF S!Next
  <2>2. ASSUME NEW m \in Mode \cup {"ModeUnknown"}, NEW cr3 \in Process,
               recorder_mode(v, m, cr3)
        PROVE  [S!Next]_(S!vars)
    <3>1. UNCHANGED S!vars \/ S!Crash \/ S!Enter(m) \/ S!AskMode(v, m)
      BY <2>2, ModeRefines
    <3>2. S!Enter(m) \/ S!AskMode(v, m) => m \in Mode
      BY DEF S!Enter, S!AskMode, Mode
    <3> QED BY <3>1, <3>2 DEF S!Next
  <2>3. CASE recorder_stop(v)
    BY <2>3, StopRefines DEF S!Next
  <2>4. ASSUME NEW cr3 \in Process, recorder_reset(v, cr3) PROVE [S!Next]_(S!vars)
    BY <2>4, CounterResetUnseen
  <2>5. ASSUME NEW cmd, recorder_gmm(v, cmd) PROVE [S!Next]_(S!vars)
    BY <2>5, MessageRefines DEF S!Next
  <2> QED BY <1>2, <2>1, <2>2, <2>3, <2>4, <2>5, Zenon DEF qemu_plugin_control
<1>3. ASSUME NEW v \in VCPU,
             openFile(v) \/ openFileDone(v) \/ recorder_start_finish(v)
      PROVE  [S!Next]_(S!vars)
  BY <1>3, OpeningRefines DEF S!Next
<1>4. ASSUME NEW v \in VCPU, RunExclusive(v) PROVE [S!Next]_(S!vars)
  BY <1>4, ExclusiveRefines DEF S!Next
<1>5. ASSUME NEW v \in VCPU,
             \/ BeginTB(v) \/ TbCallback(v) \/ TbCallbackDone(v) \/ EndTB(v)
             \/ VcpuEvent(v) \/ vcpu_syscall_cb(v) \/ FlushICache(v) \/ StartExclusive(v)
      PROVE  [S!Next]_(S!vars)
  BY <1>5, ExecutionUnseen
<1> HIDE DEF IInv, TypeInv
<1> QED BY <1>1, <1>2, <1>3, <1>4, <1>5, Zenon DEF Next, Aborted

LEMMA IInvInit == Init => IInv
<1> SUFFICES ASSUME Init PROVE IInv
  OBVIOUS
<1>1. TypeInv /\ TagsMatch
  BY TypeInvInit DEF Init, TagsMatch, InTB
<1>2. SessionInv
  BY DEF Init, SessionInv, OneCommand, OpeningInv, RecordingInv, StoppedInv, ExecInSession,
     CallbacksNeverNull, AllNull, InCommand
<1>3. WorkInv /\ NotYetOpened
  BY DEF Init, WorkInv, NotYetOpened, InCommand
<1> QED BY <1>1, <1>2, <1>3 DEF IInv

LEMMA IInvInductive ==
  ASSUME ~ConcurrentCommands, IInv, [Next]_vars
  PROVE  IInv'
<1>1. DataInv /\ TypeInv /\ TagsMatch /\ SessionInv /\ WorkInv /\ NotYetOpened
  BY DEF IInv, TypeInv
<1>2. SessionInv'
  BY <1>1, SessionInvInductive
<1> QED BY <1>1, <1>2, TypeInvInductive, TagsMatchInductive, WorkInvInductive,
           NotYetOpenedInductive DEF IInv, TypeInv

\* The control plane keeps the promise of a session, whatever the number of
\* vCPUs and the order of their commands: a mode switch or a stop takes effect
\* once, as it was asked for, and nothing else changes the mode or ends the
\* session.  (That a request is answered, SessionAnswers, is model-checked.)
THEOREM TraceRefinementTheorem ==
  ASSUME ~ConcurrentCommands
  PROVE  Spec => ImplementsSession
<1>1. IInv /\ [Next]_vars => [S!Next]_(S!vars)
  BY StepRefines
<1> QED BY <1>1, IInvInit, IInvInductive, InitRefines, PTL DEF Spec, S!Spec, ImplementsSession

(***************************************************************************)
(* The simulator at the other end.                                         *)
(***************************************************************************)
\* The part of a step that the recorder sees.
RecorderStep(v) ==
  \/ recorder_start(v) \/ Switch(v) \/ recorder_stop(v)
  \/ Starting(v) \/ BeginTB(v) \/ EndTB(v) \/ StartExclusive(v) \/ RunExclusive(v)

\* With the simulator a vCPU does what it does without it, unless it is held
\* up, and everything else is unknown to the recorder.
LEMMA SimStep ==
  ASSUME [SimNext]_allVars
  PROVE  \/ UNCHANGED vars /\ UNCHANGED waiting
         \/ UNCHANGED vars /\ waiting' = {}
         \/ \E v \in VCPU : UNCHANGED vars /\ Sync(v)
         \/ \E v \in VCPU : v \notin waiting /\ UNCHANGED waiting /\ RecorderStep(v)
<1>1. CASE UNCHANGED allVars
  BY <1>1, Zenon DEF allVars, simulator
<1>2. ASSUME NEW v \in VCPU, tb_exec_branch_detailed(v) \/ vcpu_idle_cb(v) \/ vcpu_resume_cb(v)
      PROVE  UNCHANGED vars /\ UNCHANGED waiting
  BY <1>2, Zenon DEF tb_exec_branch_detailed, vcpu_idle_cb, vcpu_resume_cb
<1>3. ASSUME NEW v \in VCPU,
             \/ SimCommand(v)
             \/ Thread(v, Starting) \/ Thread(v, BeginTB) \/ Thread(v, EndTB)
             \/ Thread(v, StartExclusive) \/ Thread(v, RunExclusive)
      PROVE  v \notin waiting /\ UNCHANGED waiting /\ RecorderStep(v)
  BY <1>3 DEF SimCommand, Thread, Running, Start, simulator, RecorderStep
<1>4. CASE SyncResponse
  BY <1>4, Zenon DEF SyncResponse
<1>5. CASE Aborted /\ UNCHANGED simulator
  BY <1>5, Zenon DEF Aborted, simulator
<1>6. ASSUME NEW v \in VCPU, Sync(v) PROVE UNCHANGED vars
  BY <1>6, Zenon DEF Sync
<1> QED BY <1>1, <1>2, <1>3, <1>4, <1>5, <1>6, Zenon DEF SimNext

LEMMA RecorderStepIsStep ==
  ASSUME NEW v \in VCPU, RecorderStep(v)
  PROVE  Next
<1>1. CASE recorder_start(v) \/ recorder_stop(v)
  BY <1>1, Zenon DEF Next, qemu_plugin_control
<1>2. ASSUME NEW m \in Mode, NEW cr3 \in Process, recorder_mode(v, m, cr3) PROVE Next
  <2>1. m \in Mode \cup {"ModeUnknown"}
    OBVIOUS
  <2> QED BY <1>2, <2>1, Zenon DEF Next, qemu_plugin_control
<1>3. CASE Starting(v) \/ BeginTB(v) \/ EndTB(v) \/ StartExclusive(v) \/ RunExclusive(v)
  BY <1>3, Zenon DEF Starting, Next
<1> QED BY <1>1, <1>2, <1>3, Zenon DEF RecorderStep, Switch

LEMMA SimStepIsStep == [SimNext]_allVars => [Next]_vars
BY SimStep, RecorderStepIsStep

\* A vCPU that waits for the simulator is in the middle of a detailed TB, and
\* its trace goes on.
WaitInv ==
  /\ waiting \subseteq {v \in VCPU : pc[v] = "tb" /\ tb[v] = "ModeDetailed"}
  /\ idle \in [VCPU -> BOOLEAN] /\ halted \in SUBSET VCPU

\* A step of one vCPU leaves the others where they are.
LEMMA OthersStay ==
  ASSUME DataInv, NEW v \in VCPU, RecorderStep(v), NEW u \in VCPU, u # v
  PROVE  pc'[u] = pc[u] /\ tb'[u] = tb[u]
<1>1. pc \in [VCPU -> InTB \cup {"boundary", "excl"}] /\ tb \in [VCPU -> Tag]
  BY DEF DataInv, DataTypes
<1>2. CASE recorder_start(v) \/ recorder_stop(v) \/ Switch(v)
  BY <1>1, <1>2 DEF recorder_start, recorder_stop, Switch, recorder_mode, Return, Goto
<1>3. CASE Starting(v) \/ BeginTB(v) \/ EndTB(v) \/ StartExclusive(v)
  BY <1>1, <1>3 DEF Starting, openFile, openFileDone, recorder_start_finish, BeginTB, EndTB,
     StartExclusive, Return, Goto
<1>4. CASE RunExclusive(v)
  BY <1>1, <1>4 DEF RunExclusive, tb_flush, mode_switch_cb, recorder_reset_cb,
     recorder_stop_cb, Exclusive, Goto
<1> QED BY <1>2, <1>3, <1>4 DEF RecorderStep

\* What the recorder knows of a vCPU that waits: a session is recorded, so no
\* start is under way, and nobody has exclusivity.
LEMMA WaitingInSession ==
  ASSUME TagsMatch, SessionInv, WaitInv, NEW u \in waiting
  PROVE  /\ u \in VCPU /\ recording /\ \A v \in VCPU : pc[v] \notin InCommand
         /\ \A v \in VCPU : ~RunExclusive(v)
<1>1. u \in VCPU /\ pc[u] = "tb" /\ tb[u] = "ModeDetailed"
  BY DEF WaitInv
<1>2. recording
  BY <1>1 DEF TagsMatch, Fits, InTB, SessionInv
<1>3. \A v \in VCPU : ~RunExclusive(v)
  BY <1>1 DEF RunExclusive, tb_flush, mode_switch_cb, recorder_reset_cb, recorder_stop_cb,
     Exclusive, Goto
<1> QED BY <1>1, <1>2, <1>3 DEF SessionInv, OpeningInv

LEMMA SimTypesInductive ==
  ASSUME WaitInv, [SimNext]_allVars
  PROVE  idle' \in [VCPU -> BOOLEAN] /\ halted' \in SUBSET VCPU
<1>1. idle \in [VCPU -> BOOLEAN] /\ halted \in SUBSET VCPU
  BY DEF WaitInv
<1>2. CASE UNCHANGED <<idle, halted>>
  BY <1>1, <1>2
<1>3. ASSUME NEW v \in VCPU, tb_exec_branch_detailed(v)
      PROVE  idle' \in [VCPU -> BOOLEAN] /\ halted' \in SUBSET VCPU
  BY <1>1, <1>3, Zenon DEF tb_exec_branch_detailed
<1>4. ASSUME NEW v \in VCPU, vcpu_idle_cb(v) \/ vcpu_resume_cb(v)
      PROVE  idle' \in [VCPU -> BOOLEAN] /\ halted' \in SUBSET VCPU
  <2>1. halted' \in {halted \cup {v}, halted \ {v}}
    BY <1>4, Zenon DEF vcpu_idle_cb, vcpu_resume_cb
  <2>2. idle' = idle \/ \E b \in BOOLEAN : idle' = [idle EXCEPT ![v] = b]
    BY <1>4, Zenon DEF vcpu_idle_cb, vcpu_resume_cb
  <2>3. idle' \in [VCPU -> BOOLEAN]
    BY <1>1, <2>2, Zenon
  <2>4. halted' \in SUBSET VCPU
    BY <1>1, <2>1
  <2> QED BY <2>3, <2>4
<1>5. ASSUME NEW v \in VCPU, Start(v)
      PROVE  idle' \in [VCPU -> BOOLEAN] /\ halted' \in SUBSET VCPU
  <2>1. idle' = idle \/ idle' = [u \in VCPU |-> TRUE]
    BY <1>5, Zenon DEF Start
  <2>2. idle' \in [VCPU -> BOOLEAN]
    BY <1>1, <2>1, Zenon
  <2>3. UNCHANGED halted
    BY <1>5, Zenon DEF Start
  <2> QED BY <1>1, <2>2, <2>3
<1>6. \/ UNCHANGED <<idle, halted>>
      \/ \E v \in VCPU : \/ tb_exec_branch_detailed(v) \/ Start(v)
                         \/ vcpu_idle_cb(v) \/ vcpu_resume_cb(v)
  BY DEF SimNext, allVars, simulator, Sync, SyncResponse, SimCommand, Thread
<1> QED BY <1>2, <1>3, <1>4, <1>5, <1>6

LEMMA WaitInvInductive ==
  ASSUME DataInv, WaitInv, [SimNext]_allVars
  PROVE  WaitInv'
<1> DEFINE Held == {v \in VCPU : pc[v] = "tb" /\ tb[v] = "ModeDetailed"}
<1>1. waiting \subseteq Held
  BY DEF WaitInv
<1>2. ASSUME UNCHANGED vars PROVE Held' = Held
  BY <1>2 DEF vars, threads
<1>3. ASSUME NEW v \in VCPU, UNCHANGED vars, Sync(v) PROVE waiting' \subseteq Held'
  <2>1. v \in Held /\ waiting' = waiting \cup {v}
    BY <1>3 DEF Sync
  <2> QED BY <1>1, <1>2, <1>3, <2>1
<1>4. ASSUME NEW v \in VCPU, v \notin waiting, UNCHANGED waiting, RecorderStep(v)
      PROVE  waiting' \subseteq Held'
  BY <1>1, <1>4, OthersStay
<1>5. waiting' \subseteq Held'
  <2> HIDE DEF Held
  <2>1. CASE UNCHANGED vars /\ UNCHANGED waiting
    BY <1>1, <1>2, <2>1
  <2>2. CASE UNCHANGED vars /\ waiting' = {}
    BY <2>2
  <2> QED BY <1>3, <1>4, <2>1, <2>2, SimStep
<1> QED BY <1>5, SimTypesInductive DEF WaitInv

\* Only a start, a stop and the reset touch the Writers, and a stop only its
\* own.
LEMMA OthersKeepWriters ==
  ASSUME DataInv, NEW v \in VCPU, RecorderStep(v), recording,
         pc[v] \notin InCommand, ~RunExclusive(v), NEW u \in VCPU, u # v
  PROVE  output'[u] = output[u]
<1>1. output \in [VCPU -> Writer]
  BY DEF DataInv, DataTypes
<1>2. CASE recorder_start(v) \/ Switch(v) \/ BeginTB(v) \/ EndTB(v) \/ StartExclusive(v)
  <2>1. UNCHANGED output
    BY <1>2 DEF recorder_start, Switch, recorder_mode, BeginTB, EndTB, StartExclusive, session
  <2> QED BY <2>1
<1>3. CASE recorder_stop(v)
  BY <1>1, <1>3 DEF recorder_stop
<1>4. ~Starting(v)
  BY DEF Starting, openFile, openFileDone, recorder_start_finish, Goto, InCommand
<1> QED BY <1>2, <1>3, <1>4 DEF RecorderStep

LEMMA SyncKeepsWriterInductive ==
  ASSUME DataInv, TagsMatch, SessionInv, WaitInv, SyncKeepsWriter, [SimNext]_allVars
  PROVE  SyncKeepsWriter'
<1> USE DEF SyncKeepsWriter
<1>1. ASSUME UNCHANGED vars PROVE UNCHANGED output
  BY <1>1, Zenon DEF vars, session
<1>2. CASE UNCHANGED vars /\ UNCHANGED waiting
  BY <1>1, <1>2
<1>3. CASE UNCHANGED vars /\ waiting' = {}
  BY <1>3
<1>4. ASSUME NEW v \in VCPU, UNCHANGED vars, Sync(v) PROVE SyncKeepsWriter'
  <2>1. waiting' = waiting \cup {v} /\ output[v] = "open"
    BY <1>4 DEF Sync, Active
  <2> QED BY <1>1, <1>4, <2>1
<1>5. ASSUME NEW v \in VCPU, v \notin waiting, UNCHANGED waiting, RecorderStep(v)
      PROVE  SyncKeepsWriter'
  <2> SUFFICES ASSUME NEW u \in waiting PROVE output'[u] = output[u]
    BY <1>5
  <2> QED BY <1>5, WaitingInSession, OthersKeepWriters
<1> HIDE DEF SyncKeepsWriter
<1> QED BY <1>2, <1>3, <1>4, <1>5, SimStep

\* What holds of the recorder holds of it together with a simulator that keeps
\* vCPUs waiting in the middle of TBs: the simulator only takes steps away.
THEOREM SimulatorTheorem == SimSpec => Spec
<1>1. SimInit => Init
  BY DEF SimInit
<1> QED BY <1>1, SimStepIsStep, PTL DEF SimSpec, Spec

\* A vCPU inside Sync stays in its detailed TB, whatever the other vCPUs do.
THEOREM SimTypeCorrect == SimSpec => []SimTypeOK
<1>1. SimInit => TypeInv /\ WaitInv
  BY TypeInvInit, Zenon DEF SimInit, WaitInv
<1>2. (TypeInv /\ WaitInv) /\ [SimNext]_allVars => (TypeInv /\ WaitInv)'
  BY SimStepIsStep, TypeInvInductive, WaitInvInductive DEF TypeInv
<1>3. TypeInv /\ WaitInv => SimTypeOK
  BY TypeInvTypeOK DEF WaitInv, SimTypeOK
<1> QED BY <1>1, <1>2, <1>3, PTL DEF SimSpec

\* With one trace command at a time, the Writer a vCPU is blocked in is
\* neither closed nor deleted under the call: a stop waits for the call to
\* return before it resets, and no start is under way in the session.
THEOREM SyncTheorem ==
  ASSUME ~ConcurrentCommands
  PROVE  SimSpec => []SyncKeepsWriter
<1> DEFINE Inv == IInv /\ WaitInv /\ SyncKeepsWriter
<1>1. SimInit => Inv
  <2> SUFFICES ASSUME SimInit PROVE Inv
    OBVIOUS
  <2>1. WaitInv /\ SyncKeepsWriter
    BY Zenon DEF SimInit, WaitInv, SyncKeepsWriter
  <2> QED BY <2>1, IInvInit DEF SimInit
<1>2. Inv /\ [SimNext]_allVars => Inv'
  <2> SUFFICES ASSUME Inv, [SimNext]_allVars PROVE Inv'
    OBVIOUS
  <2>1. DataInv /\ TagsMatch /\ SessionInv
    BY DEF IInv, TypeInv
  <2> QED BY <2>1, SimStepIsStep, IInvInductive, WaitInvInductive, SyncKeepsWriterInductive
<1> QED BY <1>1, <1>2, PTL DEF SimSpec

\* The session that the guest controls is one whatever the simulator does.
THEOREM SimulatorSessionTheorem ==
  ASSUME ~ConcurrentCommands
  PROVE  SimSpec => ImplementsSession
BY SimulatorTheorem, TraceRefinementTheorem

\* It takes a third vCPU to be blocked on the one that stops: of two, one is in
\* Sync and the other wants its reset.
THEOREM StopStallTheorem ==
  ASSUME smp_vcpus <= 2
  PROVE  SimSpec => []NoStopStall
<1>1. SimTypeOK => NoStopStall
  <2> SUFFICES ASSUME SimTypeOK,
                      NEW v \in VCPU, NEW u \in VCPU, NEW w \in waiting,
                      pc[v] = "excl", pc[u] = "boundary"
               PROVE  FALSE
    BY DEF NoStopStall
  <2>1. w \in VCPU /\ pc[w] = "tb"
    BY DEF SimTypeOK
  <2>2. v # u /\ v # w /\ u # w
    BY <2>1
  <2> QED BY <2>1, <2>2, VcpuAssumption DEF VCPU
<1> QED BY <1>1, SimTypeCorrect, PTL
=============================================================================
