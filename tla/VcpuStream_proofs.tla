-------------------------- MODULE VcpuStream_proofs --------------------------
(* Theorems about VcpuStream, for every guest program and every flow        *)
(* control interval.                                                        *)
EXTENDS VcpuStream, TLAPS

(***************************************************************************)
(* The guest: where it is, and by which modes its TBs are instrumented.    *)
(***************************************************************************)
GuestInv ==
  /\ next \in PC /\ tb \in PC \cup {NoTB}
  /\ current_mode \in SiftMode /\ cached \in SiftMode
  /\ current_mode # "ModeDetailed" => cached = current_mode
  /\ tb # NoTB => tag \in {current_mode, cached}

CountTypes ==
  /\ icount \in Nat /\ icount_cacheonly \in Nat /\ icount_cacheonly_pending \in Nat
  /\ icount_reported \in 0 .. FlowControlFF
  /\ told \in Nat /\ switches \in Nat

LEMMA CodeTypes ==
  ASSUME NEW pc \in PC
  PROVE  Code[pc].len \in Nat /\ Code[pc].fallthrough \in PC
BY CodeAssumption

LEMMA GuestInvInductive == GuestInv /\ [Next]_vars => GuestInv'
<1> SUFFICES ASSUME GuestInv, [Next]_vars PROVE GuestInv'
  OBVIOUS
<1> USE DEF GuestInv, SiftMode
<1>1. CASE UNCHANGED <<guest, modes>>
  BY <1>1 DEF guest, modes
<1>2. ASSUME NEW t \in SiftMode, NEW roi \in BOOLEAN, StartTB(next, t, roi) PROVE GuestInv'
  <2>1. /\ t \in {current_mode, cached} /\ tb' = next /\ tag' = t
        /\ UNCHANGED <<next, current_mode, cached>>
    BY <1>2 DEF StartTB, modes
  <2> QED BY <2>1
<1>3. ASSUME NEW kind \in {"plain", "cmpxchg", "pause"}, NEW target \in PC, Insn(kind, target)
      PROVE  GuestInv'
  <2>1. tb \in PC /\ UNCHANGED <<tb, tag, current_mode, cached>>
        /\ next' \in {target, Code[tb].fallthrough, next}
    BY <1>3 DEF Insn, modes
  <2> QED BY <2>1, CodeTypes
<1>4. CASE EndTB \/ Exception \/ Interrupt
  <2>1. next' \in {next, Handler} /\ tb' = NoTB /\ UNCHANGED <<current_mode, cached>>
    BY <1>4 DEF EndTB, Exception, Interrupt, modes
  <2> QED BY <2>1, CodeAssumption
<1>5. ASSUME NEW m \in Modes, recorder_mode(m) PROVE GuestInv'
  <2>1. /\ tb = NoTB /\ m # current_mode /\ current_mode' = m
        /\ cached' = IF m = "ModeDetailed" THEN cached ELSE m
        /\ UNCHANGED <<next, tb>>
    BY <1>5 DEF recorder_mode, guest
  <2> QED BY <2>1, GuestAssumption
<1>6. CASE tb_flush \/ recorder_reset
  <2>1. /\ tb = NoTB /\ cached' = current_mode /\ UNCHANGED <<next, tb, current_mode>>
    BY <1>6 DEF tb_flush, recorder_reset, guest
  <2> QED BY <2>1
<1>7. ASSUME \/ \E toMagic \in BOOLEAN : MemAccess(toMagic)
             \/ vcpu_idle_cb \/ vcpu_resume_cb \/ UNCHANGED vars
      PROVE  UNCHANGED <<guest, modes>>
  BY <1>7, Zenon DEF MemAccess, vcpu_idle_cb, vcpu_resume_cb, vars
<1> HIDE DEF GuestInv, SiftMode
<1> QED BY <1>1, <1>2, <1>3, <1>4, <1>5, <1>6, <1>7, Zenon DEF Next

(***************************************************************************)
(* The branch record: from the start of a TB that ends in a branch on, and *)
(* from the branch to the TB that sends it, the fall-through is there.     *)
(***************************************************************************)
BranchInv ==
  /\ ~failed
  /\ br_addr # 0 => br_fallthrough # 0
  /\ tb # NoTB /\ tag # "ModeIcount" /\ Code[tb].branch => br_fallthrough # 0

LEMMA BranchInvInductive == GuestInv /\ BranchInv /\ [Next]_vars => BranchInv'
<1> SUFFICES ASSUME GuestInv, BranchInv, [Next]_vars PROVE BranchInv'
  OBVIOUS
<1> USE DEF BranchInv
<1>1. CASE UNCHANGED <<branches, tb, tag>>
  BY <1>1 DEF branches
<1>2. ASSUME NEW t \in SiftMode, NEW roi \in BOOLEAN, StartTB(next, t, roi) PROVE BranchInv'
  <2>1. tb' = next /\ tag' = t /\ next \in PC
    BY <1>2 DEF StartTB, GuestInv
  <2>2. CASE t = "ModeIcount"
    <3>1. UNCHANGED branches
      BY <1>2, <2>2 DEF StartTB
    <3> QED BY <2>1, <2>2, <3>1 DEF branches
  <2>3. CASE t # "ModeIcount"
    <3>1. SendBranch(next)
      BY <1>2, <2>3 DEF StartTB
    <3>2. br_addr' = 0
      BY <3>1 DEF SendBranch
    <3>3. ~failed'
      BY <3>1 DEF SendBranch
    <3>4. Code[next].branch => br_fallthrough' # 0
      <4>1. Code[next].branch => br_fallthrough' = Code[next].fallthrough
        BY <3>1 DEF SendBranch
      <4>2. Code[next].fallthrough # 0
        BY <2>1, CodeTypes, CodeAssumption
      <4> QED BY <4>1, <4>2
    <3> QED BY <2>1, <3>2, <3>3, <3>4
  <2> QED BY <2>2, <2>3
<1>3. ASSUME NEW kind \in {"plain", "cmpxchg", "pause"}, NEW target \in PC, Insn(kind, target)
      PROVE  BranchInv'
  <2>1. tb # NoTB /\ UNCHANGED <<tb, tag>>
    BY <1>3 DEF Insn
  <2>2. \/ UNCHANGED branches
        \/ Code[tb].branch /\ tag # "ModeIcount" /\ insn_exec_branch(target)
    BY <1>3 DEF Insn
  <2> QED BY <2>1, <2>2 DEF insn_exec_branch, branches
<1>4. CASE EndTB \/ Exception \/ Interrupt
  <2>1. tb' = NoTB /\ UNCHANGED branches
    BY <1>4 DEF EndTB, Exception, Interrupt
  <2> QED BY <2>1 DEF branches
<1>5. ASSUME \/ \E m \in Modes : recorder_mode(m)
             \/ tb_flush \/ recorder_reset
             \/ \E toMagic \in BOOLEAN : MemAccess(toMagic)
             \/ vcpu_idle_cb \/ vcpu_resume_cb \/ UNCHANGED vars
      PROVE  UNCHANGED <<branches, tb, tag>>
  BY <1>5, Zenon DEF recorder_mode, tb_flush, recorder_reset, MemAccess, vcpu_idle_cb,
     vcpu_resume_cb, vars, guest
<1> HIDE DEF BranchInv
<1> QED BY <1>1, <1>2, <1>3, <1>4, <1>5, Zenon DEF Next

(***************************************************************************)
(* The report.  In fast-forward, what was told and what is still to be     *)
(* reported moves with the count; with cache-only records, what was told   *)
(* does.  So does their difference from one switch to the next, and each   *)
(* change from one meaning of icount_reported to the other adds at most    *)
(* FlowControlFF.  After a switch to detailed mode that change is still to *)
(* come, with the flush.                                                   *)
(***************************************************************************)
Told == told + (IF cached = "ModeIcount" THEN icount_reported ELSE 0)

Changes == IF current_mode = "ModeDetailed" /\ cached # "ModeDetailed" THEN switches - 1
                                                                       ELSE switches

\* What was told, t, and what was counted, c, are n changes apart at most.
Within(t, c, n) == t <= c + FlowControlFF * n /\ t + FlowControlFF * n >= c

ReportInv ==
  /\ CountTypes
  /\ current_mode = "ModeDetailed" /\ cached # "ModeDetailed" => switches > 0
  /\ Within(Told, icount + icount_cacheonly, Changes)

LEMMA WithinShift ==
  ASSUME NEW t \in Int, NEW c \in Int, NEW n \in Int, NEW d \in Int, Within(t, c, n)
  PROVE  Within(t + d, c + d, n)
<1>1. FlowControlFF * n \in Int
  BY FlowControlAssumption
<1> QED BY <1>1 DEF Within

LEMMA WithinGrows ==
  ASSUME NEW t \in Int, NEW c \in Int, NEW n \in Int, NEW u \in Int,
         u <= t + FlowControlFF, t <= u + FlowControlFF, Within(t, c, n)
  PROVE  Within(u, c, n + 1)
<1>1. FlowControlFF * n \in Int /\ FlowControlFF * (n + 1) = FlowControlFF * n + FlowControlFF
  BY FlowControlAssumption
<1> QED BY <1>1, FlowControlAssumption DEF Within

LEMMA WithinZero ==
  ASSUME NEW n \in Nat
  PROVE  Within(0, 0, n)
<1>1. FlowControlFF * n \in Nat
  BY FlowControlAssumption
<1> QED BY <1>1 DEF Within

LEMMA ReportTypes ==
  ASSUME CountTypes
  PROVE  Told \in Int /\ icount + icount_cacheonly \in Int /\ Changes \in Int
BY FlowControlAssumption DEF CountTypes, Told, Changes

LEMMA ReportBound == ReportInv => ReportErrorBounded
<1> SUFFICES ASSUME ReportInv PROVE ReportErrorBounded
  OBVIOUS
<1> DEFINE c == icount + icount_cacheonly
<1>1. CountTypes /\ FlowControlFF \in Nat /\ switches \in Int
  BY FlowControlAssumption DEF ReportInv, CountTypes
<1>2. Told \in Int /\ c \in Int
  BY <1>1, ReportTypes
<1>3. Within(Told, c, switches)
  <2>1. CASE Changes = switches
    BY <2>1 DEF ReportInv
  <2>2. CASE Changes = switches - 1
    <3>1. Within(Told, c, switches - 1) /\ switches - 1 \in Int /\ switches - 1 + 1 = switches
      BY <1>1, <2>2 DEF ReportInv
    <3> QED BY <1>1, <1>2, <3>1, WithinGrows
  <2> QED BY <2>1, <2>2 DEF Changes
<1>4. told <= Told /\ Told <= told + FlowControlFF /\ told \in Int
  BY <1>1 DEF Told, CountTypes
<1>5. /\ FlowControlFF * switches \in Int
      /\ FlowControlFF * (switches + 1) = FlowControlFF * switches + FlowControlFF
  BY <1>1
<1> QED BY <1>1, <1>2, <1>3, <1>4, <1>5 DEF Within, ReportErrorBounded

\* A step in which the count and what was told of it move together.
LEMMA TogetherKeepsReport ==
  ASSUME ReportInv, CountTypes', UNCHANGED <<current_mode, cached, switches>>,
         NEW d \in Int, Told' = Told + d,
         icount' + icount_cacheonly' = icount + icount_cacheonly + d
  PROVE  ReportInv'
<1>1. Changes' = Changes
  BY DEF Changes
<1>2. Within(Told + d, icount + icount_cacheonly + d, Changes)
  BY ReportTypes, WithinShift DEF ReportInv
<1>3. Within(Told', icount' + icount_cacheonly', Changes')
  BY <1>1, <1>2, Zenon
<1>4. Within(Told, icount + icount_cacheonly, Changes)'
  BY <1>3 DEF Within
<1> QED BY <1>4 DEF ReportInv

LEMMA ReportInvInductive == GuestInv /\ ReportInv /\ [Next]_vars => ReportInv'
<1> SUFFICES ASSUME GuestInv, ReportInv, [Next]_vars PROVE ReportInv'
  OBVIOUS
<1>1. CountTypes /\ FlowControlFF \in Nat
  BY FlowControlAssumption DEF ReportInv
<1>2. CASE UNCHANGED <<icount, icount_cacheonly, icount_reported, told, modes>>
           /\ icount_cacheonly_pending' \in Nat
  <2>1. /\ CountTypes' /\ Told' = Told + 0
        /\ icount' + icount_cacheonly' = icount + icount_cacheonly + 0
    BY <1>1, <1>2 DEF CountTypes, Told, modes
  <2> QED BY <1>2, <2>1, TogetherKeepsReport DEF modes
<1>3. ASSUME NEW n \in Nat, cached = "ModeIcount", tb_exec_count_insns(n), UNCHANGED modes
      PROVE  ReportInv'
  <2>1. /\ icount' = icount + n
        /\ told' + icount_reported' = told + icount_reported + n
        /\ icount_reported' \in 0 .. FlowControlFF /\ told' \in Nat
        /\ UNCHANGED <<icount_cacheonly, icount_cacheonly_pending>>
    BY <1>1, <1>3 DEF tb_exec_count_insns, CountTypes
  <2>2. CountTypes'
    BY <1>1, <1>3, <2>1 DEF CountTypes, modes
  <2>3. Told = told + icount_reported /\ Told' = told' + icount_reported'
    BY <1>3 DEF Told, modes
  <2>4. Told' = Told + n
    BY <2>1, <2>3
  <2>5. icount \in Nat /\ icount_cacheonly \in Nat
    BY <1>1 DEF CountTypes
  <2>6. icount' + icount_cacheonly' = icount + icount_cacheonly + n
    BY <2>1, <2>5
  <2> QED BY <1>3, <2>2, <2>4, <2>6, TogetherKeepsReport DEF modes
<1>4. ASSUME cached = "ModeMemory", SendPending, UNCHANGED modes
      PROVE  ReportInv'
  <2>1. /\ told' = told + icount_cacheonly_pending
        /\ icount_cacheonly' = icount_cacheonly + icount_cacheonly_pending
        /\ icount_cacheonly_pending' = 0 /\ icount' = icount
        /\ icount_reported' \in 0 .. FlowControlFF
    BY <1>1, <1>4 DEF SendPending, CountTypes
  <2>2. CountTypes'
    BY <1>1, <1>4, <2>1 DEF CountTypes, modes
  <2>3. Told = told + 0 /\ Told' = told' + 0
    BY <1>4 DEF Told, modes
  <2>4. /\ Told' = Told + icount_cacheonly_pending /\ icount_cacheonly_pending \in Int
        /\ icount' + icount_cacheonly' = icount + icount_cacheonly + icount_cacheonly_pending
    BY <1>1, <2>1, <2>3 DEF CountTypes
  <2> QED BY <1>4, <2>2, <2>4, TogetherKeepsReport DEF modes
<1>5. ASSUME NEW t \in SiftMode, NEW roi \in BOOLEAN, StartTB(next, t, roi) PROVE ReportInv'
  <2>1. t \in {current_mode, cached} /\ UNCHANGED modes /\ Code[next].len \in Nat
    BY <1>5, CodeTypes DEF StartTB, GuestInv
  <2>2. t # "ModeDetailed" => t = cached
    BY <2>1 DEF GuestInv
  <2>3. CASE t = "ModeIcount"
    <3>1. tb_exec_count_insns(Code[next].len)
      BY <1>5, <2>3 DEF StartTB
    <3> QED BY <1>3, <2>1, <2>2, <2>3, <3>1
  <2>4. CASE t = "ModeMemory" /\ br_addr # 0
    <3>1. SendPending
      BY <1>5, <2>4 DEF StartTB
    <3> QED BY <1>4, <2>1, <2>2, <2>4, <3>1
  <2>5. CASE t = "ModeDetailed" \/ (t = "ModeMemory" /\ br_addr = 0)
    <3>1. UNCHANGED counts
      BY <1>5, <2>5 DEF StartTB
    <3> QED BY <1>1, <1>2, <2>1, <3>1 DEF counts, CountTypes
  <2> QED BY <2>3, <2>4, <2>5 DEF SiftMode
<1>6. ASSUME NEW kind \in {"plain", "cmpxchg", "pause"}, NEW target \in PC, Insn(kind, target)
      PROVE  ReportInv'
  <2>1. UNCHANGED <<icount, icount_cacheonly, icount_reported, told, modes>>
    BY <1>6 DEF Insn
  <2>2. icount_cacheonly_pending' \in Nat
    BY <1>1, <1>6 DEF Insn, CountTypes
  <2> QED BY <1>2, <2>1, <2>2
<1>7. ASSUME NEW toMagic \in BOOLEAN, MemAccess(toMagic) PROVE ReportInv'
  <2>1. UNCHANGED modes /\ tag \in {current_mode, cached}
        /\ (UNCHANGED counts \/ (tag = "ModeMemory" /\ SendPending))
    BY <1>7 DEF MemAccess, GuestInv
  <2>2. tag = "ModeMemory" => cached = "ModeMemory"
    BY <2>1 DEF GuestInv
  <2> QED BY <1>1, <1>2, <1>4, <2>1, <2>2 DEF counts, CountTypes
<1>8. ASSUME NEW m \in Modes, recorder_mode(m) PROVE ReportInv'
  <2>1. /\ m # current_mode /\ switches' = switches + 1 /\ current_mode' = m
        /\ cached' = IF m = "ModeDetailed" THEN cached ELSE m
        /\ UNCHANGED counts
    BY <1>8 DEF recorder_mode
  <2>2. /\ CountTypes' /\ switches' > 0
        /\ UNCHANGED <<icount, icount_cacheonly, icount_reported, told>>
    BY <1>1, <2>1 DEF CountTypes, counts
  <2>3. Within(Told, icount + icount_cacheonly, Changes)
    BY DEF ReportInv
  <2>4. CASE m = "ModeDetailed"
    <3>1. Changes' = Changes /\ Told' = Told
      BY <1>1, <2>1, <2>2, <2>4 DEF Changes, Told, GuestInv, CountTypes
    <3> QED BY <2>2, <2>3, <3>1 DEF ReportInv, Within
  <2>5. CASE m # "ModeDetailed"
    <3>1. Within(Told, icount + icount_cacheonly, switches)
      <4>1. CASE Changes = switches
        BY <2>3, <4>1
      <4>2. CASE Changes = switches - 1
        <5>1. Within(Told, icount + icount_cacheonly, switches - 1)
          BY <2>3, <4>2
        <5>2. switches - 1 \in Int /\ switches - 1 + 1 = switches
          BY <1>1 DEF CountTypes
        <5>3. Told <= Told + FlowControlFF
          BY <1>1, ReportTypes
        <5> QED BY <1>1, <5>1, <5>2, <5>3, ReportTypes, WithinGrows
      <4> QED BY <4>1, <4>2 DEF Changes
    <3>2. /\ Told' \in Int /\ Told' <= Told + FlowControlFF /\ Told <= Told' + FlowControlFF
      BY <1>1, <2>2 DEF Told, CountTypes
    <3>3. switches \in Int
      BY <1>1 DEF CountTypes
    <3>4. Within(Told', icount + icount_cacheonly, switches + 1)
      BY <1>1, <3>1, <3>2, <3>3, ReportTypes, WithinGrows
    <3>5. Changes' = switches + 1 /\ current_mode' # "ModeDetailed"
      BY <2>1, <2>5 DEF Changes
    <3> QED BY <2>2, <3>4, <3>5 DEF ReportInv, Within
  <2> QED BY <2>4, <2>5
<1>9. CASE tb_flush
  <2>1. cached' = current_mode /\ UNCHANGED <<current_mode, switches, counts>>
    BY <1>9 DEF tb_flush
  <2>2. CASE cached = current_mode
    BY <1>1, <1>2, <2>1, <2>2 DEF counts, modes, CountTypes
  <2>3. CASE cached # current_mode
    <3>1. current_mode = "ModeDetailed" /\ cached' = "ModeDetailed"
      BY <2>1, <2>3 DEF GuestInv
    <3>2. Changes = switches - 1 /\ Changes' = switches
      BY <2>1, <2>3, <3>1 DEF Changes
    <3>3. /\ CountTypes' /\ UNCHANGED <<icount, icount_cacheonly>>
          /\ Told' \in Int
          /\ Told' <= Told + FlowControlFF /\ Told <= Told' + FlowControlFF
      BY <1>1, <2>1, <3>1 DEF Told, CountTypes, counts
    <3>4. /\ Within(Told, icount + icount_cacheonly, switches - 1)
          /\ switches - 1 \in Int /\ switches - 1 + 1 = switches
      BY <1>1, <3>2 DEF ReportInv, CountTypes
    <3>5. Within(Told', icount + icount_cacheonly, switches)
      BY <1>1, <3>3, <3>4, ReportTypes, WithinGrows
    <3> QED BY <3>1, <3>2, <3>3, <3>5 DEF ReportInv, Within
  <2> QED BY <2>2, <2>3
<1>10. CASE recorder_reset
  <2>1. /\ icount' = 0 /\ icount_cacheonly' = 0 /\ icount_cacheonly_pending' = 0
        /\ icount_reported' = 0 /\ told' = 0 /\ cached' = current_mode
        /\ UNCHANGED <<current_mode, switches>>
    BY <1>10 DEF recorder_reset
  <2>2. CountTypes' /\ Told' = 0 /\ Changes' = switches
    BY <1>1, <2>1 DEF CountTypes, Told, Changes
  <2>3. Within(0, 0, switches)
    BY <1>1, WithinZero DEF CountTypes
  <2>4. ~(current_mode' = "ModeDetailed" /\ cached' # "ModeDetailed")
    BY <2>1
  <2>5. icount' + icount_cacheonly' = 0
    BY <2>1
  <2> QED BY <2>2, <2>3, <2>4, <2>5 DEF ReportInv, Within
<1>11. ASSUME \/ EndTB \/ Exception \/ Interrupt \/ vcpu_idle_cb \/ vcpu_resume_cb
              \/ UNCHANGED vars
       PROVE  UNCHANGED <<counts, modes>>
  BY <1>11, Zenon DEF EndTB, Exception, Interrupt, vcpu_idle_cb, vcpu_resume_cb, vars
<1>12. CASE UNCHANGED <<counts, modes>>
  BY <1>1, <1>2, <1>12 DEF counts, CountTypes
<1> QED BY <1>5, <1>6, <1>7, <1>8, <1>9, <1>10, <1>11, <1>12, Zenon DEF Next

(***************************************************************************)
(* The Syncs.  As many instructions are left to the target of the next one *)
(* as may still run unsynced; setting the count back leaves more of both.  *)
(***************************************************************************)
SyncInv ==
  /\ icount_detailed \in Nat /\ flowcontrol_target \in Nat /\ unsynced \in Nat
  /\ setback \in Nat
  /\ unsynced <= FlowControl + setback
  /\ unsynced + flowcontrol_target <= FlowControl + setback + icount_detailed

LEMMA SyncInvInductive == SyncInv /\ [Next]_vars => SyncInv'
<1> SUFFICES ASSUME SyncInv, [Next]_vars PROVE SyncInv'
  OBVIOUS
<1> USE FlowControlAssumption DEF SyncInv
<1>1. CASE UNCHANGED detailed
  BY <1>1 DEF detailed
<1>2. CASE SendPending
  <2>1. /\ unsynced' \in {0, unsynced}
        /\ UNCHANGED <<icount_detailed, flowcontrol_target, setback>>
    BY <1>2 DEF SendPending
  <2>2. CASE unsynced' = unsynced
    BY <2>1, <2>2
  <2>3. CASE unsynced' = 0
    BY <2>1, <2>3
  <2> QED BY <2>1, <2>2, <2>3
<1>3. ASSUME NEW kind, insn_exec_detailed(kind) PROVE SyncInv'
  <2>1. PICK n \in {icount_detailed, icount_detailed + 1} :
          /\ icount_detailed' = n
          /\ idle => n = icount_detailed
          /\ \/ Sync(n + FlowControl)
             \/ n > flowcontrol_target /\ Sync(flowcontrol_target + FlowControl)
             \/ (idle \/ n <= flowcontrol_target) /\ NoSync
    BY <1>3 DEF insn_exec_detailed
  <2>2. n \in Nat
    BY <2>1
  <2>3. CASE Sync(n + FlowControl)
    BY <2>1, <2>2, <2>3 DEF Sync
  <2>4. CASE n > flowcontrol_target /\ Sync(flowcontrol_target + FlowControl)
    BY <2>1, <2>2, <2>4 DEF Sync
  <2>5. CASE (idle \/ n <= flowcontrol_target) /\ NoSync
    <3>1. unsynced' = unsynced + (n - icount_detailed) /\ UNCHANGED <<flowcontrol_target, setback>>
      BY <2>1, <2>5 DEF NoSync
    <3> QED BY <2>1, <2>2, <2>5, <3>1
  <2> QED BY <2>1, <2>3, <2>4, <2>5
<1>4. CASE recorder_reset
  BY <1>4 DEF recorder_reset
<1>5. [Next]_vars =>
        \/ UNCHANGED detailed \/ SendPending \/ recorder_reset
        \/ \E kind \in {"plain", "cmpxchg", "pause"} : insn_exec_detailed(kind)
  <2>1. ASSUME NEW t \in SiftMode, NEW roi \in BOOLEAN, StartTB(next, t, roi)
        PROVE  UNCHANGED detailed \/ SendPending
    BY <2>1 DEF StartTB
  <2>2. ASSUME NEW kind \in {"plain", "cmpxchg", "pause"}, NEW target \in PC, Insn(kind, target)
        PROVE  UNCHANGED detailed \/ insn_exec_detailed(kind)
    BY <2>2 DEF Insn
  <2>3. ASSUME NEW toMagic \in BOOLEAN, MemAccess(toMagic)
        PROVE  UNCHANGED detailed \/ SendPending
    BY <2>3 DEF MemAccess
  <2>4. ASSUME \/ EndTB \/ Exception \/ Interrupt \/ vcpu_idle_cb \/ vcpu_resume_cb
               \/ tb_flush \/ \E m \in Modes : recorder_mode(m)
               \/ UNCHANGED vars
        PROVE  UNCHANGED detailed
    BY <2>4, Zenon DEF EndTB, Exception, Interrupt, vcpu_idle_cb, vcpu_resume_cb, tb_flush,
       recorder_mode, vars
  <2> HIDE DEF SyncInv
  <2> QED BY <2>1, <2>2, <2>3, <2>4, Zenon DEF Next
<1> HIDE DEF SyncInv
<1> QED BY <1>1, <1>2, <1>3, <1>4, <1>5

StreamInv == GuestInv /\ BranchInv /\ ReportInv /\ SyncInv

LEMMA StreamInvInit == Init => StreamInv
<1> SUFFICES ASSUME Init PROVE StreamInv
  OBVIOUS
<1>1. GuestInv
  BY CodeAssumption DEF Init, GuestInv, SiftMode
<1>2. BranchInv
  BY DEF Init, BranchInv
<1>3. ReportInv
  <2>1. Changes = 0 /\ Told = 0 /\ icount + icount_cacheonly = 0
    BY FlowControlAssumption DEF Init, Changes, Told
  <2>2. Within(Told, icount + icount_cacheonly, Changes)
    BY <2>1, WithinZero
  <2> QED BY <2>2, FlowControlAssumption DEF Init, ReportInv, CountTypes
<1>4. SyncInv
  BY FlowControlAssumption DEF Init, SyncInv
<1> QED BY <1>1, <1>2, <1>3, <1>4 DEF StreamInv

LEMMA StreamInvInductive == StreamInv /\ [Next]_vars => StreamInv'
BY GuestInvInductive, BranchInvInductive, ReportInvInductive, SyncInvInductive DEF StreamInv

\* On every guest program, through every exception, mode switch and idle
\* period: a branch that is sent is complete, what the simulator was told stays
\* within FlowControlFF instructions of the count for every switch, and no vCPU
\* runs more than FlowControl instructions ahead before it syncs, plus those that
\* a reset of the counters took back from its count.
THEOREM StreamTheorem == Spec => [](BranchRecordComplete /\ ReportErrorBounded /\ UnsyncedBound)
<1>1. StreamInv => BranchRecordComplete /\ ReportErrorBounded /\ UnsyncedBound
  <2>1. SyncInv => UnsyncedBound
    BY DEF SyncInv, UnsyncedBound
  <2> QED BY <2>1, ReportBound DEF StreamInv, BranchInv, BranchRecordComplete
<1> QED BY <1>1, StreamInvInit, StreamInvInductive, PTL DEF Spec

(***************************************************************************)
(* Types.  Those of the counters are part of the invariants above: no      *)
(* counter becomes negative, and icount_reported stays within a report.    *)
(***************************************************************************)
AddressTypes ==
  /\ tag \in SiftMode /\ left \in Nat
  /\ br_addr \in PC \cup {0} /\ br_target \in PC \cup {0}
  /\ br_fallthrough \in PC \cup {0} /\ goal \in PC \cup {0}

LEMMA AddressTypesInductive ==
  ASSUME GuestInv, AddressTypes, [Next]_vars
  PROVE  AddressTypes'
<1> USE DEF AddressTypes
<1>1. CASE UNCHANGED <<tag, left, branches>>
  BY <1>1 DEF branches
<1>2. ASSUME NEW t \in SiftMode, NEW roi \in BOOLEAN, StartTB(next, t, roi) PROVE AddressTypes'
  <2>1. tag' = t /\ left' = Code[next].len /\ next \in PC
    BY <1>2 DEF StartTB, GuestInv
  <2>2. UNCHANGED branches \/ SendBranch(next)
    BY <1>2 DEF StartTB
  <2>3. CASE UNCHANGED branches
    BY <2>1, <2>3, CodeTypes DEF branches
  <2>4. CASE SendBranch(next)
    <3>1. br_target' = next /\ br_addr' = 0 /\ goal' = goal
      BY <2>4, Zenon DEF SendBranch
    <3>2. br_fallthrough' \in {Code[next].fallthrough, 0, br_fallthrough}
      BY <2>4 DEF SendBranch
    <3> QED BY <2>1, <3>1, <3>2, CodeTypes
  <2> QED BY <2>2, <2>3, <2>4
<1>3. ASSUME NEW kind \in {"plain", "cmpxchg", "pause"}, NEW target \in PC, Insn(kind, target)
      PROVE  AddressTypes'
  <2>1. tb \in PC /\ left > 0 /\ left' = left - 1 /\ UNCHANGED tag
    BY <1>3 DEF Insn, GuestInv
  <2>2. UNCHANGED branches \/ insn_exec_branch(target)
    BY <1>3 DEF Insn
  <2> QED BY <2>1, <2>2 DEF insn_exec_branch, branches
<1>4. ASSUME \/ EndTB \/ Exception \/ Interrupt \/ vcpu_idle_cb \/ vcpu_resume_cb
             \/ tb_flush \/ recorder_reset
             \/ \E m \in Modes : recorder_mode(m)
             \/ \E toMagic \in BOOLEAN : MemAccess(toMagic)
             \/ UNCHANGED vars
      PROVE  UNCHANGED <<tag, left, branches>>
  BY <1>4, Zenon DEF EndTB, Exception, Interrupt, vcpu_idle_cb, vcpu_resume_cb, tb_flush,
     recorder_reset, recorder_mode, MemAccess, guest, vars
<1> HIDE DEF AddressTypes
<1> QED BY <1>1, <1>2, <1>3, <1>4, Zenon DEF Next

FlagTypes ==
  /\ in_roi \in BOOLEAN /\ idle \in BOOLEAN /\ capturing \in BOOLEAN
  /\ failed \in BOOLEAN /\ misled \in BOOLEAN

LEMMA FlagTypesInductive ==
  ASSUME FlagTypes, [Next]_vars
  PROVE  FlagTypes'
<1> USE DEF FlagTypes
<1>1. in_roi' \in BOOLEAN
  <2>1. ASSUME NEW t, NEW roi \in BOOLEAN, StartTB(next, t, roi) PROVE in_roi' \in BOOLEAN
    BY <2>1, Zenon DEF StartTB
  <2>2. CASE UNCHANGED in_roi
    BY <2>2, Zenon
  <2>3. \/ UNCHANGED in_roi
        \/ \E t \in SiftMode, roi \in BOOLEAN : StartTB(next, t, roi)
    BY Zenon DEF Next, vars, guest, Insn, MemAccess, EndTB, Exception, Interrupt, vcpu_idle_cb,
       vcpu_resume_cb, recorder_mode, tb_flush, recorder_reset
  <2> QED BY <2>1, <2>2, <2>3
<1>2. idle' \in BOOLEAN
  <2>1. ASSUME NEW t, NEW roi \in BOOLEAN, StartTB(next, t, roi) PROVE idle' \in BOOLEAN
    <3>1. idle' = idle \/ idle' = BranchIdle(roi)
      BY <2>1, Zenon DEF StartTB, branches
    <3> QED BY <3>1, Zenon DEF BranchIdle
  <2>2. CASE UNCHANGED idle
    BY <2>2, Zenon
  <2>3. CASE vcpu_idle_cb \/ vcpu_resume_cb
    BY <2>3, Zenon DEF vcpu_idle_cb, vcpu_resume_cb
  <2>4. \/ UNCHANGED idle \/ vcpu_idle_cb \/ vcpu_resume_cb
        \/ \E t \in SiftMode, roi \in BOOLEAN : StartTB(next, t, roi)
    BY Zenon DEF Next, vars, flags, Insn, MemAccess, EndTB, Exception, Interrupt, recorder_mode,
       tb_flush, recorder_reset
  <2> QED BY <2>1, <2>2, <2>3, <2>4
<1>3. capturing' \in BOOLEAN
  <2>1. ASSUME NEW toMagic, MemAccess(toMagic) PROVE capturing' \in BOOLEAN
    BY <2>1, Zenon DEF MemAccess
  <2>2. CASE UNCHANGED capturing
    BY <2>2, Zenon
  <2>3. UNCHANGED capturing \/ \E toMagic \in BOOLEAN : MemAccess(toMagic)
    BY Zenon DEF Next, vars, flags, StartTB, Insn, EndTB, Exception, Interrupt, vcpu_idle_cb,
       vcpu_resume_cb, recorder_mode, tb_flush, recorder_reset
  <2> QED BY <2>1, <2>2, <2>3
<1>4. failed' \in BOOLEAN /\ misled' \in BOOLEAN
  <2>1. ASSUME NEW pc, SendBranch(pc) PROVE failed' \in BOOLEAN /\ misled' \in BOOLEAN
    BY <2>1, Zenon DEF SendBranch
  <2>2. CASE UNCHANGED <<failed, misled>>
    BY <2>2, Zenon
  <2>3. UNCHANGED <<failed, misled>> \/ \E pc : SendBranch(pc)
    BY Zenon DEF Next, vars, branches, StartTB, Insn, insn_exec_branch, MemAccess, EndTB,
       Exception, Interrupt, vcpu_idle_cb, vcpu_resume_cb, recorder_mode, tb_flush, recorder_reset
  <2> QED BY <2>1, <2>2, <2>3
<1> QED BY <1>1, <1>2, <1>3, <1>4

\* The guest stays in its program, every branch record names addresses of it,
\* and no counter becomes negative.
THEOREM StreamTypeCorrect == Spec => []TypeOK
<1> DEFINE IInv == StreamInv /\ AddressTypes /\ FlagTypes
<1>1. Init => IInv
  <2> SUFFICES ASSUME Init PROVE IInv
    OBVIOUS
  <2>1. AddressTypes
    BY DEF Init, AddressTypes, SiftMode
  <2>2. FlagTypes
    BY Zenon DEF Init, FlagTypes
  <2> QED BY <2>1, <2>2, StreamInvInit
<1>2. IInv /\ [Next]_vars => IInv'
  BY StreamInvInductive, AddressTypesInductive, FlagTypesInductive DEF StreamInv
<1>3. IInv => TypeOK
  <2> SUFFICES ASSUME IInv PROVE TypeOK
    OBVIOUS
  <2>1. /\ {icount, icount_cacheonly, icount_cacheonly_pending, icount_detailed} \subseteq Nat
        /\ {icount_reported, flowcontrol_target, told, unsynced, setback} \subseteq Nat
        /\ switches \in Nat
    BY FlowControlAssumption DEF StreamInv, ReportInv, CountTypes, SyncInv
  <2>2. {idle, capturing, failed, misled} \subseteq BOOLEAN /\ in_roi \in BOOLEAN
    BY Zenon DEF FlagTypes
  <2>3. {br_addr, br_target, br_fallthrough, goal} \subseteq PC \cup {0}
    BY Zenon DEF AddressTypes
  <2> QED BY <2>1, <2>2, <2>3, Zenon DEF StreamInv, GuestInv, AddressTypes, TypeOK
<1> QED BY <1>1, <1>2, <1>3, PTL DEF Spec
=============================================================================
