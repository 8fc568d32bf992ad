----------------------------- MODULE VcpuStream -----------------------------
(***************************************************************************)
(* The execution callbacks of the trace plugin on one vCPU                 *)
(* (src/host/trace/callbacks.cc): what thread_data[threadid] counts and    *)
(* what the vCPU's Sift::Writer tells the simulator while the guest runs   *)
(* TBs instrumented for one mode after the other.                          *)
(*                                                                         *)
(* The guest program is Code: for the address of each TB, its number of    *)
(* instructions, the address that follows it, and whether it ends in a     *)
(* branch.  Interrupts are taken between TBs, exceptions inside them; both *)
(* go to Handler.  Address translation (Translate), the instruction cache  *)
(* records and the load, store and user statistics are not modelled.       *)
(***************************************************************************)
EXTENDS Integers

CONSTANTS
  Code,            \* the guest program: address |-> [len, fallthrough, branch]
  Entry, Handler,  \* first TB of the program, and TB of the interrupt handler
  FlowControlFF,   \* instructions between two reports, functional modes
  FlowControl,     \* instructions between two Syncs, detailed mode
  Interrupts,      \* do interrupts and exceptions happen?
  Modes,           \* the modes the guest switches between
  MaxInsn,         \* bound: no TB starts once MaxInsn instructions were counted,
                   \* or once the last Sync is MaxInsn instructions ago
  MaxSwitch        \* bound on mode switches

PC == DOMAIN Code
SiftMode == {"ModeIcount", "ModeMemory", "ModeDetailed"}

ASSUME CodeAssumption ==
  /\ Code \in [PC -> [len : Nat \ {0}, fallthrough : PC, branch : BOOLEAN]]
  /\ PC \subseteq Nat \ {0}
  /\ Entry \in PC /\ Handler \in PC
ASSUME FlowControlAssumption == FlowControlFF \in Nat /\ FlowControl \in Nat \ {0}
ASSUME GuestAssumption ==
  /\ Interrupts \in BOOLEAN
  /\ Modes \subseteq SiftMode
  /\ MaxInsn \in Nat /\ MaxSwitch \in Nat

NoTB == 0

VARIABLES
  next,          \* TB the guest executes next
  tb, tag,       \* TB under execution, or NoTB, and the mode it was instrumented for
  left,          \* instructions of it not yet begun
  in_roi,        \* the vCPU is in the region of interest
  current_mode,
  cached,        \* mode of the oldest TBs in the code cache
  br_addr, br_target, br_fallthrough,
  icount, icount_cacheonly, icount_cacheonly_pending, icount_detailed,
  icount_reported, flowcontrol_target,
  idle, capturing,
  failed,        \* assert(br_fallthrough != 0) failed
  told,          \* history: instructions told with InstructionCount and CacheOnly
  unsynced,      \* history: detailed instructions since the last Sync
  setback,       \* history: by how much icount_detailed was set back since
                 \* flowcontrol_target was last moved
  goal,          \* history: target of the branch at br_addr
  misled,        \* history: some branch was sent with another target than its own
  switches       \* history: mode switches

guest    == <<next, tb, tag, left, in_roi>>
modes    == <<current_mode, cached, switches>>
branches == <<br_addr, br_target, br_fallthrough, goal, misled, failed>>
counts   == <<icount, icount_cacheonly, icount_cacheonly_pending, icount_reported, told>>
detailed == <<icount_detailed, flowcontrol_target, unsynced, setback>>
flags    == <<idle, capturing>>
vars     == <<guest, modes, branches, counts, detailed, flags>>

TypeOK ==
  /\ next \in PC /\ tb \in PC \cup {NoTB} /\ tag \in SiftMode /\ left \in Nat
  /\ in_roi \in BOOLEAN
  /\ current_mode \in SiftMode /\ cached \in SiftMode /\ switches \in Nat
  /\ {br_addr, br_target, br_fallthrough, goal} \subseteq PC \cup {0}
  /\ {icount, icount_cacheonly, icount_cacheonly_pending, icount_detailed} \subseteq Nat
  /\ {icount_reported, flowcontrol_target, told, unsynced, setback} \subseteq Nat
  /\ {idle, capturing, failed, misled} \subseteq BOOLEAN

\* thread_data_reset, with the session starting in ModeIcount.
Init ==
  /\ next = Entry /\ tb = NoTB /\ tag = "ModeIcount" /\ left = 0
  /\ in_roi \in BOOLEAN
  /\ current_mode = "ModeIcount" /\ cached = "ModeIcount" /\ switches = 0
  /\ br_addr = 0 /\ br_target = 0 /\ br_fallthrough = 0
  /\ icount = 0 /\ icount_cacheonly = 0 /\ icount_cacheonly_pending = 0
  /\ icount_detailed = 0 /\ icount_reported = 0 /\ flowcontrol_target = 0
  /\ idle = TRUE /\ capturing = FALSE
  /\ failed = FALSE
  /\ told = 0 /\ unsynced = 0 /\ setback = 0 /\ goal = 0 /\ misled = FALSE

(***************************************************************************)
(* Callbacks at the start of a TB.                                         *)
(***************************************************************************)
\* tb_exec_count_insns: the whole TB is counted, and the count is reported
\* once it exceeds FlowControlFF.
Mutant_count_insns(count) ==
  LET r == icount_reported + count
  IN  /\ icount' = icount + count
      /\ told' = IF r > FlowControlFF THEN told + r ELSE told
      /\ icount_reported' = r
      /\ UNCHANGED <<icount_cacheonly, icount_cacheonly_pending>>

tb_exec_count_insns(count) ==
  LET r == icount_reported + count
  IN  /\ icount' = icount + count
      /\ \/ r > FlowControlFF /\ told' = told + r /\ icount_reported' = 0
         \/ r <= FlowControlFF /\ icount_reported' = r /\ UNCHANGED told
      /\ UNCHANGED <<icount_cacheonly, icount_cacheonly_pending>>

\* What mem_send_cacheonly and tb_exec_branch_cacheonly share: CacheOnly tells
\* the pending instructions, and a Sync follows a long enough stretch.
Mutant_SendPending ==
  LET r == icount_reported + icount_cacheonly_pending
  IN  /\ told' = told + icount_cacheonly_pending
      /\ icount_cacheonly' = icount_cacheonly + icount_cacheonly_pending
      /\ icount_cacheonly_pending' = icount_cacheonly_pending - 1
      /\ icount_reported' = IF r > FlowControlFF THEN 0 ELSE r
      /\ unsynced' = IF r > FlowControlFF THEN 0 ELSE unsynced
      /\ UNCHANGED <<icount, icount_detailed, flowcontrol_target, setback>>

SendPending ==
  LET r == icount_reported + icount_cacheonly_pending
  IN  /\ told' = told + icount_cacheonly_pending
      /\ icount_cacheonly' = icount_cacheonly + icount_cacheonly_pending
      /\ icount_cacheonly_pending' = 0
      /\ icount_reported' = IF r > FlowControlFF THEN 0 ELSE r
      /\ unsynced' = IF r > FlowControlFF THEN 0 ELSE unsynced
      /\ UNCHANGED <<icount, icount_detailed, flowcontrol_target, setback>>

\* tb_exec_update_target, then the branch callback sends the record of the
\* last branch, if there is one, with this TB as its target, then
\* tb_exec_update_fallthrough prepares for the branch that ends this TB.
Mutant_SendBranch_order(pc) ==
  /\ br_target' = pc
  /\ failed' = (failed \/ (br_addr # 0 /\ br_fallthrough = 0))
  /\ misled' = (misled \/ (br_addr # 0 /\ pc # goal))
  /\ br_addr' = 0
  /\ br_fallthrough' = IF br_addr # 0 THEN 0
                       ELSE IF Code[pc].branch THEN Code[pc].fallthrough ELSE br_fallthrough
  /\ UNCHANGED goal

SendBranch(pc) ==
  /\ br_target' = pc
  /\ failed' = (failed \/ (br_addr # 0 /\ br_fallthrough = 0))
  /\ misled' = (misled \/ (br_addr # 0 /\ pc # goal))
  /\ br_addr' = 0
  /\ br_fallthrough' = IF Code[pc].branch THEN Code[pc].fallthrough
                       ELSE IF br_addr # 0 THEN 0 ELSE br_fallthrough
  /\ UNCHANGED goal

\* tb_exec_branch_detailed also tells the simulator that the vCPU has entered
\* or left the region of interest.
BranchIdle(roi) == IF br_addr # 0 THEN ~roi ELSE idle

StartTB(pc, t, roi) ==
  /\ ~failed
  /\ tb = NoTB /\ pc = next
  /\ icount + icount_cacheonly + icount_cacheonly_pending + icount_detailed < MaxInsn
  /\ unsynced < MaxInsn
  /\ t \in {current_mode, cached}
  /\ tb' = pc /\ tag' = t /\ left' = Code[pc].len /\ in_roi' = roi
  /\ \/ /\ t = "ModeIcount"
        /\ tb_exec_count_insns(Code[pc].len)
        /\ UNCHANGED <<branches, detailed, idle>>
     \/ /\ t = "ModeMemory"
        /\ SendBranch(pc)
        /\ IF br_addr # 0 THEN SendPending ELSE UNCHANGED <<counts, detailed>>
        /\ UNCHANGED idle
     \/ /\ t = "ModeDetailed"
        /\ SendBranch(pc)
        /\ idle' = BranchIdle(roi)
        /\ UNCHANGED <<counts, detailed>>
  /\ UNCHANGED <<next, modes, capturing>>

(***************************************************************************)
(* Callbacks of an instruction.                                            *)
(***************************************************************************)
\* Sync, after which the next one is due when icount_detailed exceeds target.
Sync(target) == flowcontrol_target' = target /\ unsynced' = 0 /\ setback' = 0

NoSync == unsynced' = unsynced + (icount_detailed' - icount_detailed)
          /\ UNCHANGED <<flowcontrol_target, setback>>

\* insn_exec_update_pc counts the instruction and syncs when the target is
\* passed; insn_exec_cmpxchg and insn_exec_pause sync at once.
Mutant_insn_exec_detailed(kind) ==
  LET n == icount_detailed + (IF idle THEN 0 ELSE 1)
      wait == ~idle /\ (kind = "pause" \/ (kind = "cmpxchg" /\ ~capturing))
  IN  /\ icount_detailed' = n
      /\ \/ wait /\ Sync(n + FlowControl)
         \/ ~wait /\ ~idle /\ n > flowcontrol_target /\ Sync(n + 2 * FlowControl)
         \/ ~wait /\ (idle \/ n <= flowcontrol_target) /\ NoSync

insn_exec_detailed(kind) ==
  LET n == icount_detailed + (IF idle THEN 0 ELSE 1)
      wait == ~idle /\ (kind = "pause" \/ (kind = "cmpxchg" /\ ~capturing))
  IN  /\ icount_detailed' = n
      /\ \/ wait /\ Sync(n + FlowControl)
         \/ ~wait /\ ~idle /\ n > flowcontrol_target /\ Sync(flowcontrol_target + FlowControl)
         \/ ~wait /\ (idle \/ n <= flowcontrol_target) /\ NoSync

\* insn_exec_branch: the last instruction of the TB branches to target.
insn_exec_branch(target) ==
  /\ br_addr' = tb /\ goal' = target
  /\ UNCHANGED <<br_target, br_fallthrough, misled, failed>>

\* The callbacks that precede an instruction, then the instruction itself; a
\* branch, taken or not, decides where the guest goes on.
Insn(kind, target) ==
  /\ ~failed
  /\ tb # NoTB /\ left > 0
  /\ left' = left - 1
  /\ kind = "pause" => left = 1
  /\ IF left = 1 /\ Code[tb].branch THEN next' = target
     ELSE IF left = 1 THEN next' = Code[tb].fallthrough ELSE UNCHANGED next
  /\ IF left = 1 /\ Code[tb].branch /\ tag # "ModeIcount" THEN insn_exec_branch(target)
                                                          ELSE UNCHANGED branches
  /\ IF tag = "ModeMemory"   \* insn_exec_count_insn
     THEN icount_cacheonly_pending' = icount_cacheonly_pending + 1
     ELSE UNCHANGED icount_cacheonly_pending
  /\ IF tag = "ModeDetailed" THEN insn_exec_detailed(kind) ELSE UNCHANGED detailed
  /\ UNCHANGED <<tb, tag, in_roi, modes, icount, icount_cacheonly, icount_reported,
                 told, flags>>

\* A memory access of the instruction begun last: mem_send_cacheonly sends the
\* pending instructions with it; in mem_send_detailed a store to the magic
\* address, in the region of interest, starts or ends a capture.
MemAccess(toMagic) ==
  /\ ~failed
  /\ tb # NoTB /\ left < Code[tb].len
  /\ \/ /\ tag = "ModeMemory" /\ SendPending
        /\ UNCHANGED capturing
     \/ /\ tag = "ModeDetailed"
        /\ capturing' = (IF in_roi /\ toMagic THEN ~capturing ELSE capturing)
        /\ UNCHANGED <<counts, detailed>>
  /\ UNCHANGED <<guest, modes, branches, idle>>

EndTB ==
  /\ ~failed
  /\ tb # NoTB /\ left = 0
  /\ tb' = NoTB
  /\ UNCHANGED <<next, tag, left, in_roi, modes, branches, counts, detailed, flags>>

(***************************************************************************)
(* Events.                                                                 *)
(***************************************************************************)
\* An exception leaves the TB in the middle of an instruction or before one.
Exception ==
  /\ Interrupts /\ ~failed
  /\ tb # NoTB
  /\ tb' = NoTB /\ next' = Handler
  /\ UNCHANGED <<tag, left, in_roi, modes, branches, counts, detailed, flags>>

\* An interrupt is taken between TBs.
Interrupt ==
  /\ Interrupts /\ ~failed
  /\ tb = NoTB
  /\ next' = Handler
  /\ UNCHANGED <<tb, tag, left, in_roi, modes, branches, counts, detailed, flags>>

vcpu_idle_cb ==
  /\ ~failed
  /\ tb = NoTB
  /\ idle' = TRUE
  /\ UNCHANGED <<guest, modes, branches, counts, detailed, capturing>>

vcpu_resume_cb ==
  /\ ~failed
  /\ tb = NoTB
  /\ idle' = FALSE
  /\ UNCHANGED <<guest, modes, branches, counts, detailed, capturing>>

\* Detailed mode is entered at once and the code cache flushed later; the
\* other modes begin with an empty code cache.  No counter is touched.
recorder_mode(m) ==
  /\ ~failed
  /\ tb = NoTB /\ m # current_mode
  /\ switches < MaxSwitch
  /\ switches' = switches + 1
  /\ current_mode' = m
  /\ cached' = IF m = "ModeDetailed" THEN cached ELSE m
  /\ UNCHANGED <<guest, branches, counts, detailed, flags>>

tb_flush ==
  /\ ~failed
  /\ tb = NoTB
  /\ cached' = current_mode
  /\ UNCHANGED <<guest, current_mode, switches, branches, counts, detailed, flags>>

\* The callback of recorder_reset clears the counters, not flowcontrol_target.
recorder_reset ==
  /\ ~failed
  /\ tb = NoTB
  /\ icount' = 0 /\ icount_cacheonly' = 0 /\ icount_cacheonly_pending' = 0
  /\ icount_detailed' = 0 /\ icount_reported' = 0
  /\ told' = 0
  /\ setback' = setback + icount_detailed
  /\ cached' = current_mode
  /\ UNCHANGED <<guest, current_mode, switches, branches, flowcontrol_target, unsynced,
                 flags>>

Next ==
  \/ \E t \in SiftMode, roi \in BOOLEAN : StartTB(next, t, roi)
  \/ \E kind \in {"plain", "cmpxchg", "pause"}, target \in PC : Insn(kind, target)
  \/ \E toMagic \in BOOLEAN : MemAccess(toMagic)
  \/ EndTB \/ Exception \/ Interrupt
  \/ vcpu_idle_cb \/ vcpu_resume_cb
  \/ \E m \in Modes : recorder_mode(m)
  \/ tb_flush \/ recorder_reset

Spec == Init /\ [][Next]_vars

(***************************************************************************)
(* Properties.                                                             *)
(***************************************************************************)
\* The assert of tb_exec_branch_cacheonly and tb_exec_branch_detailed: a branch
\* that is sent has its fall-through address, whatever exceptions, mode
\* switches and uninstrumented stretches lie between the TB that recorded it,
\* in three callbacks, and the one that sends it.
BranchRecordComplete == ~failed

\* The instructions the simulator was told of and the instructions counted
\* differ by at most FlowControlFF for every mode switch, and by the count not
\* reported yet: icount_reported is shared by both functional modes, and a
\* remainder crosses each switch into a mode that means something else by it.
ReportErrorBounded ==
  /\ told <= icount + icount_cacheonly + FlowControlFF * switches
  /\ told + FlowControlFF * (switches + 1) >= icount + icount_cacheonly

\* A vCPU in detailed mode never runs more than FlowControl instructions
\* ahead of the simulator: the periodic Sync of insn_exec_update_pc and the
\* Syncs of pause and cmpxchg, which move its target, together leave no gap.
\* recorder_reset sets icount_detailed back and leaves the target: the next
\* Sync is late by the instructions that were counted until then, and by no
\* more, however many resets, switches and cache-only Syncs come in between.
UnsyncedBound == unsynced <= FlowControl + setback

\* callbacks.cc: br_addr is the address of a branch and br_target the address
\* of its target in every branch record that is sent.
BranchTargetIsReal == ~misled
=============================================================================
