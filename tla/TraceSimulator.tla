--------------------------- MODULE TraceSimulator ---------------------------
(***************************************************************************)
(* The control plane of TraceRecorder together with the simulator at the   *)
(* other end of the Writers, in detailed mode.  A vCPU calls Sync in the   *)
(* middle of a TB, and the simulator answers when every vCPU it holds for  *)
(* active has called.  QEMU knows nothing of that wait, nor the simulator  *)
(* of QEMU's: exclusive work waits until every vCPU has left its TB, and   *)
(* keeps the others from entering one.  The simulator is not part of the   *)
(* repository; it is modelled from what control.cc says of it.             *)
(***************************************************************************)
EXTENDS TraceRecorder

CONSTANT Commanders  \* vCPUs whose guest threads send commands

ASSUME CommanderAssumption == Commanders \subseteq VCPU

VARIABLES
  idle,     \* thread_data[v].idle, which the simulator is told of
  halted,   \* vCPUs that execute nothing
  waiting   \* vCPUs inside Sync

simulator == <<idle, halted, waiting>>
allVars   == <<vars, simulator>>

SimTypeOK ==
  /\ TypeOK
  /\ idle \in [VCPU -> BOOLEAN]
  /\ halted \in SUBSET VCPU
  /\ waiting \in SUBSET {v \in VCPU : pc[v] = "tb" /\ tb[v] = "ModeDetailed"}

SimInit ==
  /\ Init
  /\ idle = [v \in VCPU |-> TRUE] /\ halted = {} /\ waiting = {}

\* The simulator waits for v: it was told neither that v is idle nor that its
\* trace has ended.
Active(v) == ~idle[v] /\ output[v] = "open"

Running(v) == v \notin waiting /\ v \notin halted

(***************************************************************************)
(* The callbacks that concern the simulator's wait.                        *)
(***************************************************************************)
\* insn_exec_update_pc, insn_exec_pause or insn_exec_cmpxchg calls Sync.
Mutant_Sync(v) ==
  /\ Running(v)
  /\ fault = "none" /\ pc[v] = "tb"
  /\ Active(v)
  /\ waiting' = waiting \cup {v}
  /\ UNCHANGED <<vars, idle, halted>>

Sync(v) ==
  /\ Running(v)
  /\ fault = "none" /\ pc[v] = "tb" /\ tb[v] = "ModeDetailed"
  /\ Active(v)
  /\ waiting' = waiting \cup {v}
  /\ UNCHANGED <<vars, idle, halted>>

SyncResponse ==
  /\ fault = "none"
  /\ waiting # {} /\ \A v \in VCPU : Active(v) => v \in waiting
  /\ waiting' = {}
  /\ UNCHANGED <<vars, idle, halted>>

\* The vCPU has entered or left the region of interest.
tb_exec_branch_detailed(v) ==
  /\ Running(v)
  /\ fault = "none" /\ pc[v] = "tb" /\ tb[v] = "ModeDetailed"
  /\ idle' = [idle EXCEPT ![v] = ~@]
  /\ UNCHANGED <<vars, halted, waiting>>

\* The vCPU halts, and is woken; without a session nobody is told.
Mutant_vcpu_idle_cb(v) ==
  /\ Running(v)
  /\ fault = "none" /\ pc[v] = "boundary" /\ work[v] = "none"
  /\ halted' = halted \cup {v}
  /\ UNCHANGED <<vars, idle, waiting>>

vcpu_idle_cb(v) ==
  /\ Running(v)
  /\ fault = "none" /\ pc[v] = "boundary" /\ work[v] = "none"
  /\ halted' = halted \cup {v}
  /\ idle' = IF registered THEN [idle EXCEPT ![v] = TRUE] ELSE idle
  /\ UNCHANGED <<vars, waiting>>

vcpu_resume_cb(v) ==
  /\ fault = "none" /\ v \in halted
  /\ halted' = halted \ {v}
  /\ idle' = IF registered THEN [idle EXCEPT ![v] = FALSE] ELSE idle
  /\ UNCHANGED <<vars, waiting>>

(***************************************************************************)
(* Steps of TraceRecorder, by vCPUs that are not held up.                  *)
(***************************************************************************)
\* thread_data_reset holds every vCPU for idle.
Start(v) ==
  /\ recorder_start(v)
  /\ idle' = IF recording THEN idle ELSE [u \in VCPU |-> TRUE]
  /\ UNCHANGED <<halted, waiting>>

Switch(v) == \E m \in Mode, cr3 \in Process : recorder_mode(v, m, cr3)

Thread(v, Step(_)) == Running(v) /\ Step(v) /\ UNCHANGED simulator

SimCommand(v) ==
  /\ v \in Commanders
  /\ \/ Running(v) /\ Start(v)
     \/ Thread(v, Switch)
     \/ Thread(v, recorder_stop)

Starting(v) == openFile(v) \/ openFileDone(v) \/ recorder_start_finish(v)

SimNext ==
  \/ \E v \in VCPU :
       \/ Sync(v) \/ tb_exec_branch_detailed(v)
       \/ vcpu_idle_cb(v) \/ vcpu_resume_cb(v)
       \/ SimCommand(v)
       \/ Thread(v, Starting)
       \/ Thread(v, BeginTB) \/ Thread(v, EndTB)
       \/ Thread(v, StartExclusive) \/ Thread(v, RunExclusive)
  \/ SyncResponse
  \/ Aborted /\ UNCHANGED simulator

SimSpec == SimInit /\ [][SimNext]_allVars

(***************************************************************************)
(* Fairness: that of TraceRecorder; a vCPU that is not halted runs; one    *)
(* that keeps executing detailed TBs while it is active comes to a Sync    *)
(* again and again (flowcontrol_target); the simulator answers.  Nothing   *)
(* is assumed of the guest's commands, and a halted vCPU may sleep for     *)
(* ever.                                                                   *)
(***************************************************************************)
SimFairSpec ==
  /\ SimSpec
  /\ \A v \in VCPU :
       /\ SF_allVars(Thread(v, BeginTB)) /\ SF_allVars(Thread(v, EndTB))
       /\ SF_allVars(Sync(v))
       /\ SF_allVars(Thread(v, StartExclusive))
       /\ WF_allVars(Thread(v, RunExclusive))
       /\ WF_allVars(Thread(v, Starting))
  /\ WF_allVars(SyncResponse)

(***************************************************************************)
(* Properties.                                                             *)
(***************************************************************************)
\* v has left its TB for a flush or a mode switch, and the simulator holds
\* another vCPU inside a TB until v goes on: neither ever will.
Stalled(v) == pc[v] = "excl" /\ work[v] # "reset" /\ Active(v) /\ waiting # {}

\* A vCPU inside Sync keeps its Writer to the end of the call: neither the
\* stop of another vCPU nor the start of the next session closes or deletes it
\* under the call.
SyncKeepsWriter == \A v \in waiting : output[v] = "open"

\* A stop is carried out in detailed mode: since recorder_stop writes the End
\* record before it asks for exclusivity, the vCPU that stops is not waited
\* for.  Two vCPUs at most: with three the other two wait for each other
\* (NoStopStall).
DetailedStopEnds ==
  \A v \in VCPU :
    work[v] = "reset" ~>
      (~recording \/ fault # "none" \/ \E u \in VCPU : Stalled(u))

\* Every Sync returns: a vCPU that sleeps, leaves the region of interest or
\* stops the session holds nobody up for ever, and only a mode switch does.
SyncReturns ==
  \A v \in VCPU :
    v \in waiting ~>
      (v \notin waiting \/ fault # "none" \/ \E u \in VCPU : Stalled(u))

\* control.cc: TBs are flushed before detailed mode is entered and after it is
\* left, so that waiting for exclusivity cannot deadlock with the simulator.
NoFlushStall == \A v \in VCPU : ~Stalled(v)

\* control.cc: once the vCPU that stops has closed its trace, no other tracer
\* thread is blocked on it, so the reset gets its exclusivity.
NoStopStall ==
  ~ \E v, u \in VCPU :
      /\ pc[v] = "excl" /\ work[v] = "reset"
      /\ waiting # {} /\ Active(u) /\ pc[u] = "boundary"
=============================================================================
