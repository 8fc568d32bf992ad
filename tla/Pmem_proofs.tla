----------------------------- MODULE Pmem_proofs -----------------------------
(* Theorems about Pmem, for any number of vCPUs, interval, filter and width *)
(* of the counter.                                                          *)
EXTENDS Pmem, TLAPS, Integers

(***************************************************************************)
(* Arithmetic of a counter and its remainder.                              *)
(***************************************************************************)
LEMMA RemainderUnique ==
  ASSUME NEW k \in Nat \ {0}, NEW q \in Int, NEW p \in Int,
         NEW r \in 0 .. k - 1, NEW s \in 0 .. k - 1, k * q + r = k * p + s
  PROVE  r = s
OBVIOUS

LEMMA NextRemainder ==
  ASSUME NEW n \in Nat, NEW k \in Nat \ {0}
  PROVE  (n + 1) % k = IF n % k = k - 1 THEN 0 ELSE (n % k) + 1
<1> DEFINE q == n \div k
           p == (n + 1) \div k
           r == n % k
           s == (n + 1) % k
<1>1. q \in Int /\ p \in Int /\ r \in 0 .. k - 1 /\ s \in 0 .. k - 1
  OBVIOUS
<1>2. n = k * q + r
  OBVIOUS
<1>3. n + 1 = k * p + s
  OBVIOUS
<1> HIDE DEF q, p, r, s
<1>4. CASE r = k - 1
  <2>1. k * (q + 1) + 0 = k * p + s
    BY <1>1, <1>2, <1>3, <1>4
  <2>2. s = 0
    BY <1>1, <2>1, RemainderUnique
  <2> QED BY <1>4, <2>2 DEF r, s
<1>5. CASE r # k - 1
  <2>1. k * q + (r + 1) = k * p + s
    BY <1>1, <1>2, <1>3
  <2>2. r + 1 \in 0 .. k - 1
    BY <1>1, <1>5
  <2>3. s = r + 1
    BY <1>1, <2>1, <2>2, RemainderUnique
  <2> QED BY <1>5, <2>3 DEF r, s
<1> QED BY <1>4, <1>5

\* A gap s is below the remainder of n, which is as good as k when it is zero.
Below(n, k, s) == IF n % k = 0 THEN s < k ELSE s < n % k

LEMMA BelowBound ==
  ASSUME NEW n \in Nat, NEW k \in Nat \ {0}, NEW s \in Nat, Below(n, k, s)
  PROVE  s < k
<1>1. n % k \in 0 .. k - 1
  OBVIOUS
<1> QED BY <1>1 DEF Below

LEMMA BelowFirst ==
  ASSUME NEW n \in Nat, NEW k \in Nat \ {0}
  PROVE  Below(n, k, 0)
<1>1. n % k \in 0 .. k - 1
  OBVIOUS
<1> QED BY <1>1 DEF Below

LEMMA BelowWrap ==
  ASSUME NEW k \in Nat \ {0}, NEW s \in Nat, s < k
  PROVE  Below(0, k, s)
BY DEF Below

\* A count that is no sample keeps the gap below, or wraps to a sample.
LEMMA BelowNext ==
  ASSUME NEW n \in Nat, NEW k \in Nat \ {0}, NEW s \in Nat, Below(n, k, s), n % k # 0
  PROVE  Below(n + 1, k, s + 1) /\ s + 1 < k
<1>1. n % k \in 0 .. k - 1
  OBVIOUS
<1>2. (n + 1) % k = IF n % k = k - 1 THEN 0 ELSE (n % k) + 1
  BY NextRemainder
<1> QED BY <1>1, <1>2 DEF Below

LEMMA WrapOrNext ==
  ASSUME NEW v \in 0 .. CountMod - 1
  PROVE  (v + 1) % CountMod \in 0 .. CountMod - 1 /\ (v + 1) % CountMod \in {0, v + 1}
<1>1. v + 1 < CountMod => (v + 1) % CountMod = v + 1
  BY InputAssumption
<1>2. v + 1 = CountMod => (v + 1) % CountMod = 0
  BY InputAssumption
<1> QED BY <1>1, <1>2, InputAssumption

(***************************************************************************)
(* The counter: whoever is between the load and the store holds count_lock *)
(* and has a value from which the gap is not too long, whatever a start    *)
(* under its hands has made of pmem_count and pmem_int.                    *)
(***************************************************************************)
SampleTypes ==
  /\ pc \in [Core -> InCallback \cup InStop \cup {"idle", "start"}]
  /\ val \in [Core -> 0 .. CountMod - 1]
  /\ pmem_count \in 0 .. CountMod - 1
  /\ pmem_int \in Nat
  /\ since \in Nat

GapBelow(n) == pmem_int > 0 => Below(n, pmem_int, since)

CounterInv ==
  /\ SampleTypes
  /\ \A c \in Core : pc[c] = "store" <=> count_lock = c
  /\ GapBelow(pmem_count)
  /\ \A c \in Core : pc[c] = "store" => GapBelow(val[c])

LEMMA CounterGap == CounterInv => SampleGap
<1> SUFFICES ASSUME CounterInv, pmem_int # 0 PROVE since < pmem_int
  BY DEF SampleGap
<1>1. pmem_int \in Nat \ {0} /\ pmem_count \in Nat /\ since \in Nat
  BY InputAssumption DEF CounterInv, SampleTypes
<1>2. Below(pmem_count, pmem_int, since)
  BY <1>1 DEF CounterInv, GapBelow
<1> QED BY <1>1, <1>2, BelowBound

LEMMA CounterInvInductive ==
  ASSUME CounterInv, [Next]_vars
  PROVE  CounterInv'
<1> USE DEF Goto, config, ghosts, InCallback, InStop
<1>1. /\ pc \in [Core -> InCallback \cup InStop \cup {"idle", "start"}]
      /\ val \in [Core -> 0 .. CountMod - 1] /\ pmem_count \in 0 .. CountMod - 1
      /\ pmem_int \in Nat /\ since \in Nat
      /\ \A c \in Core : pc[c] = "store" <=> count_lock = c
      /\ GapBelow(pmem_count)
      /\ \A c \in Core : pc[c] = "store" => GapBelow(val[c])
  BY DEF CounterInv, SampleTypes
<1>2. CASE UNCHANGED vars
  <2>1. UNCHANGED <<pc, val, count_lock, pmem_int, pmem_count, since>>
    BY <1>2 DEF vars
  <2> QED BY <1>1, <2>1 DEF CounterInv, SampleTypes, GapBelow
<1>3. ASSUME NEW c \in Core, UNCHANGED <<val, count_lock, pmem_int, pmem_count, since>>,
             pc[c] # "store",
             \E to \in (InCallback \cup InStop \cup {"idle", "start"}) \ {"store"} :
               pc' = [pc EXCEPT ![c] = to]
      PROVE  CounterInv'
  BY <1>1, <1>3 DEF CounterInv, SampleTypes, GapBelow
<1>4. ASSUME NEW c \in Core,
             \/ Access(c) \/ Match(c) \/ PrintLine(c) \/ pmem_start(c) \/ pmem_stop(c)
             \/ CloseFile(c) \/ ClearFile(c) \/ SwitchOff(c)
      PROVE  CounterInv'
  <2>1. UNCHANGED <<val, count_lock, pmem_int, pmem_count, since>> /\ pc[c] # "store"
    BY <1>4 DEF Access, Match, PrintLine, pmem_start, pmem_stop, CloseFile, ClearFile, SwitchOff
  <2>2. \E to \in (InCallback \cup InStop \cup {"idle", "start"}) \ {"store"} :
          pc' = [pc EXCEPT ![c] = to]
    BY <1>4 DEF Access, Match, PrintLine, pmem_start, pmem_stop, CloseFile, ClearFile, SwitchOff
  <2> QED BY <1>3, <2>1, <2>2
<1>5. ASSUME NEW c \in Core, Load(c) PROVE CounterInv'
  <2>1. /\ count_lock = None /\ count_lock' = c /\ pc' = [pc EXCEPT ![c] = "store"]
        /\ val' = [val EXCEPT ![c] = pmem_count] /\ UNCHANGED <<pmem_int, pmem_count, since>>
    BY <1>5 DEF Load
  <2>2. \A d \in Core : pc[d] # "store"
    BY <1>1, <2>1, CoreAssumption
  <2> QED BY <1>1, <2>1, <2>2 DEF CounterInv, SampleTypes, GapBelow
<1>6. ASSUME NEW c \in Core, Store(c) PROVE CounterInv'
  <2> DEFINE v == val[c]
  <2>1. /\ pmem_int > 0 /\ pc[c] = "store" /\ count_lock' = None
        /\ pmem_count' = (v + 1) % CountMod
        /\ since' = IF v % pmem_int = 0 THEN 0 ELSE since + 1
        /\ UNCHANGED <<val, pmem_int>>
    BY <1>6 DEF Store, Sampled
  <2>2. PICK to \in {"match", "idle"} : pc' = [pc EXCEPT ![c] = to]
    BY <1>6 DEF Store
  <2>3. v \in 0 .. CountMod - 1 /\ v \in Nat /\ GapBelow(v)
    BY <1>1, <2>1, InputAssumption
  <2>4. \A d \in Core : pc'[d] # "store"
    BY <1>1, <2>1, <2>2
  <2>5. pmem_count' \in 0 .. CountMod - 1 /\ pmem_count' \in {0, v + 1}
    BY <2>1, <2>3, WrapOrNext
  <2>6. pmem_int \in Nat \ {0} /\ Below(v, pmem_int, since)
    BY <1>1, <2>1, <2>3 DEF GapBelow
  <2> HIDE DEF v
  <2>7. Below(v + 1, pmem_int, since') /\ Below(0, pmem_int, since')
    <3>1. CASE v % pmem_int = 0
      <4>1. since' = 0 /\ v + 1 \in Nat
        BY <2>1, <2>3, <3>1
      <4> QED BY <2>6, <4>1, BelowFirst
    <3>2. CASE v % pmem_int # 0
      <4>1. since' = since + 1
        BY <2>1, <3>2
      <4>2. Below(v + 1, pmem_int, since + 1) /\ since + 1 < pmem_int /\ since + 1 \in Nat
        BY <1>1, <2>3, <2>6, <3>2, BelowNext
      <4>3. Below(0, pmem_int, since + 1)
        BY <2>6, <4>2, BelowWrap
      <4> QED BY <4>1, <4>2, <4>3
    <3> QED BY <3>1, <3>2
  <2>8. since' \in Nat
    BY <1>1, <2>1
  <2>9. \A d \in Core : count_lock' # d
    BY <2>1, CoreAssumption
  <2>10. GapBelow(pmem_count)'
    BY <2>1, <2>5, <2>7 DEF GapBelow
  <2>11. pc' \in [Core -> InCallback \cup InStop \cup {"idle", "start"}]
    BY <1>1, <2>2
  <2> QED BY <1>1, <2>1, <2>4, <2>5, <2>8, <2>9, <2>10, <2>11 DEF CounterInv, SampleTypes
<1>7. ASSUME NEW c \in Core, StoreFails(c) PROVE CounterInv'
  <2>1. UNCHANGED <<val, count_lock, pmem_int, pmem_count, since>> /\ pc' = [pc EXCEPT ![c] = "store"]
        /\ pc[c] = "store"
    BY <1>7 DEF StoreFails
  <2> QED BY <1>1, <2>1 DEF CounterInv, SampleTypes, GapBelow
<1>8. ASSUME NEW c \in Core, pmem_start_finish(c) PROVE CounterInv'
  <2>1. /\ pc[c] = "start" /\ pc' = [pc EXCEPT ![c] = "idle"] /\ UNCHANGED <<val, count_lock>>
        /\ pmem_int' \in Nat /\ pmem_count' = 0 /\ since' = 0
    BY <1>8, InputAssumption DEF pmem_start_finish
  <2>2. \A d \in Core : val[d] \in Nat
    BY <1>1, InputAssumption
  <2>3. \A n \in Nat : pmem_int' > 0 => Below(n, pmem_int', since')
    BY <2>1, BelowFirst
  <2>4. \A d \in Core : GapBelow(val[d])'
    BY <2>1, <2>2, <2>3 DEF GapBelow
  <2>5. GapBelow(pmem_count)'
    BY <2>1, <2>3 DEF GapBelow
  <2> QED BY <1>1, <2>1, <2>4, <2>5, InputAssumption DEF CounterInv, SampleTypes
<1>9. CASE ResetPlugin
  <2>1. UNCHANGED <<pc, val, count_lock, pmem_int, pmem_count, since>>
    BY <1>9 DEF ResetPlugin
  <2> QED BY <1>1, <2>1 DEF CounterInv, SampleTypes, GapBelow
<1> HIDE DEF CounterInv
<1> QED BY <1>2, <1>4, <1>5, <1>6, <1>7, <1>8, <1>9, Zenon
        DEF Next, hypercall_pmem_cb, Command, Aborted

\* Whatever the interval and the width of the counter, threads that count
\* together, and starts in the middle of their counts, never stretch the gap
\* between two samples beyond the interval.
THEOREM SampleGapTheorem == Spec => []SampleGap
<1>1. Init => CounterInv
  <2> SUFFICES ASSUME Init PROVE CounterInv
    OBVIOUS
  <2>1. SampleTypes
    BY InputAssumption DEF Init, SampleTypes
  <2>2. \A c \in Core : pc[c] # "store" /\ count_lock # c
    BY CoreAssumption DEF Init
  <2>3. GapBelow(pmem_count)
    BY DEF Init, GapBelow
  <2> QED BY <2>1, <2>2, <2>3 DEF CounterInv
<1> QED BY <1>1, CounterInvInductive, CounterGap, PTL DEF Spec

(***************************************************************************)
(* The file.  Only Commander is ever inside a command; a callback runs     *)
(* only while the callbacks are registered; and while they are, a file     *)
(* that cannot be printed to never opened, or is being stopped.            *)
(***************************************************************************)
InFailure == unopened \/ resetting \/ \E c \in Core : pc[c] \in InStop

FileInv ==
  /\ pc \in [Core -> InCallback \cup InStop \cup {"idle", "start"}]
  /\ \A c \in Core : pc[c] \in InStop \cup {"start"} => c = Commander
  /\ \A c \in Core : pc[c] \in InCallback => registered
  /\ registered /\ pmem_file \notin {"stdout", "open"} => InFailure
  /\ \A c \in Core : pc[c] = "start" => unopened \/ pmem_file \in {"stdout", "open"}

\* A thread in old is still in its access, and the guest started twice.
OldInv ==
  /\ \A c \in old : c \in Core /\ pc[c] \in InCallback
  /\ old # {} => restarted

LEMMA OldNoStrayLine == OldInv => NoStrayLine
BY DEF OldInv, NoStrayLine

LEMMA FileInvInductive ==
  ASSUME FileInv, [Next]_vars
  PROVE  FileInv'
<1> USE DEF Goto, InCallback, InStop
<1>1. /\ pc \in [Core -> InCallback \cup InStop \cup {"idle", "start"}]
      /\ \A c \in Core : pc[c] \in InStop \cup {"start"} => c = Commander
      /\ \A c \in Core : pc[c] \in InCallback => registered
      /\ registered /\ pmem_file \notin {"stdout", "open"} => InFailure
      /\ \A c \in Core : pc[c] = "start" => unopened \/ pmem_file \in {"stdout", "open"}
  BY DEF FileInv
<1> USE DEF FileInv, InFailure
<1>2. CASE UNCHANGED vars
  BY <1>1, <1>2 DEF vars, ghosts
<1>3. ASSUME NEW c \in Core, Access(c) \/ hypercall_pmem_cb(c) PROVE FileInv'
  <2>1. registered /\ UNCHANGED <<registered, pmem_file, resetting, unopened>>
    BY <1>1, <1>3 DEF Access, hypercall_pmem_cb, Load, Store, StoreFails, Match, PrintLine, ghosts
  <2>2. pc[c] \notin InStop /\ \E to \in InCallback \cup {"idle"} : pc' = [pc EXCEPT ![c] = to]
    BY <1>3 DEF Access, hypercall_pmem_cb, Load, Store, StoreFails, Match, PrintLine
  <2> QED BY <1>1, <2>1, <2>2
<1>4. ASSUME NEW c \in Core, pmem_start(c) PROVE FileInv'
  <2>1. /\ c = Commander /\ pc[c] = "idle" /\ pc' = [pc EXCEPT ![c] = "start"]
        /\ pmem_file' \in {"null", "stdout", "open"} /\ registered' = registered
    BY <1>4 DEF pmem_start
  <2>2. unopened' <=> pmem_file' = "null"
    BY <1>4 DEF pmem_start
  <2> QED BY <1>1, <2>1, <2>2
<1>5. ASSUME NEW c \in Core, pmem_start_finish(c) PROVE FileInv'
  <2>1. /\ pc[c] = "start" /\ pc' = [pc EXCEPT ![c] = "idle"]
        /\ UNCHANGED <<pmem_file, unopened>> /\ registered'
    BY <1>5 DEF pmem_start_finish
  <2> QED BY <1>1, <2>1
<1>6. ASSUME NEW c \in Core, pmem_stop(c) PROVE FileInv'
  <2>1. /\ c = Commander /\ pc[c] = "idle" /\ UNCHANGED <<pmem_file, unopened, registered, resetting>>
        /\ \E to \in {"off", "close"} : pc' = [pc EXCEPT ![c] = to]
    BY <1>6 DEF pmem_stop, ghosts
  <2> QED BY <1>1, <2>1
<1>7. ASSUME NEW c \in Core, CloseFile(c) \/ ClearFile(c) PROVE FileInv'
  <2>1. /\ pc[c] \in InStop /\ UNCHANGED <<unopened, registered, resetting>>
        /\ \E to \in {"clear", "off"} : pc' = [pc EXCEPT ![c] = to]
    BY <1>7 DEF CloseFile, ClearFile, ghosts
  <2>2. pc'[c] \in InStop
    BY <1>1, <2>1
  <2>3. \A d \in Core : pc'[d] # "start"
    BY <1>1, <2>1
  <2> QED BY <1>1, <2>1, <2>2, <2>3
<1>8. ASSUME NEW c \in Core, SwitchOff(c) PROVE FileInv'
  <2>1. /\ pc[c] = "off" /\ pc' = [pc EXCEPT ![c] = "idle"]
        /\ UNCHANGED <<pmem_file, unopened, registered>> /\ resetting'
    BY <1>8 DEF SwitchOff, ghosts
  <2> QED BY <1>1, <2>1
<1>9. CASE ResetPlugin
  <2>1. /\ pc' = pc /\ ~registered' /\ \A d \in Core : pc[d] = "idle"
    BY <1>9 DEF ResetPlugin
  <2> QED BY <1>1, <2>1
<1> HIDE DEF FileInv
<1> QED BY <1>2, <1>3, <1>4, <1>5, <1>6, <1>7, <1>8, <1>9, Zenon DEF Next, Command, Aborted

LEMMA OldInvInductive ==
  ASSUME FileInv, OldInv, [Next]_vars
  PROVE  OldInv'
<1> USE DEF Goto, InCallback, InStop, OldInv
<1>1. /\ pc \in [Core -> InCallback \cup InStop \cup {"idle", "start"}]
      /\ \A c \in Core : pc[c] \in InCallback => registered
  BY DEF FileInv
<1>2. CASE UNCHANGED vars
  BY <1>2 DEF vars, ghosts
<1>3. ASSUME NEW c \in Core, Access(c) \/ hypercall_pmem_cb(c) PROVE OldInv'
  <2>1. restarted' = restarted
    BY <1>3 DEF Access, hypercall_pmem_cb, Load, Store, StoreFails, Match, PrintLine, ghosts
  <2>2. \E to \in InCallback \cup {"idle"} :
          /\ pc' = [pc EXCEPT ![c] = to]
          /\ old' = IF to = "idle" THEN old \ {c} ELSE old
    BY <1>3 DEF Access, hypercall_pmem_cb, Load, Store, StoreFails, Match, PrintLine, ghosts
  <2> QED BY <1>1, <2>1, <2>2
<1>4. ASSUME NEW c \in Core,
             \/ pmem_start(c) \/ pmem_stop(c)
             \/ CloseFile(c) \/ ClearFile(c) \/ SwitchOff(c)
      PROVE  OldInv'
  <2>1. UNCHANGED <<old, restarted>> /\ pc[c] \notin InCallback
    BY <1>4 DEF pmem_start, pmem_stop, CloseFile, ClearFile, SwitchOff, ghosts
  <2>2. \A d \in Core : d # c => pc'[d] = pc[d]
    BY <1>1, <1>4 DEF pmem_start, pmem_stop, CloseFile, ClearFile, SwitchOff
  <2> QED BY <2>1, <2>2
<1>5. ASSUME NEW c \in Core, pmem_start_finish(c) PROVE OldInv'
  <2>1. /\ pc[c] = "start" /\ pc' = [pc EXCEPT ![c] = "idle"]
        /\ old' = {d \in Core : pc[d] \in InCallback}
    BY <1>5 DEF pmem_start_finish
  <2>2. restarted' = registered
    BY <1>5 DEF pmem_start_finish
  <2> QED BY <1>1, <2>1, <2>2
<1>6. CASE ResetPlugin
  BY <1>6 DEF ResetPlugin, ghosts
<1> HIDE DEF OldInv
<1> QED BY <1>2, <1>3, <1>4, <1>5, <1>6, Zenon DEF Next, Command, Aborted

\* A callback that fails found the file gone; nothing changes afterwards.
LEMMA FailureInductive ==
  ASSUME FileInv, FailsOnlyInStop, [Next]_vars
  PROVE  FailsOnlyInStop'
<1> USE DEF FailsOnlyInStop, Goto
<1>1. CASE UNCHANGED vars
  <2>1. UNCHANGED <<fault, pmem_int, unopened, resetting, pc>>
    BY <1>1 DEF vars, config, ghosts
  <2> QED BY <2>1
<1>2. ASSUME fault' = "none" PROVE FailsOnlyInStop'
  BY <1>2
<1>3. ASSUME NEW c \in Core, StoreFails(c) PROVE FailsOnlyInStop'
  <2>1. fault' = "division" /\ pmem_int' = 0
    BY <1>3 DEF StoreFails, config
  <2> QED BY <2>1
<1>4. ASSUME NEW c \in Core, PrintLine(c) PROVE FailsOnlyInStop'
  <2>1. fault = "none" /\ pc[c] = "print" /\ pc' = [pc EXCEPT ![c] = "idle"]
        /\ fault' = (IF pmem_file \in {"stdout", "open"} THEN fault ELSE "file")
        /\ UNCHANGED <<unopened, resetting>>
    BY <1>4 DEF PrintLine
  <2>2. pmem_file \notin {"stdout", "open"} => InFailure
    BY <2>1 DEF FileInv, InCallback
  <2>3. \A d \in Core : pc[d] \in InStop => pc'[d] \in InStop
    BY <2>1 DEF FileInv, InStop
  <2> QED BY <2>1, <2>2, <2>3 DEF InFailure
<1>5. ASSUME NEW c \in Core,
             \/ Access(c) \/ Load(c) \/ Store(c) \/ Match(c) \/ pmem_start(c) \/ pmem_stop(c)
             \/ pmem_start_finish(c) \/ CloseFile(c) \/ ClearFile(c) \/ SwitchOff(c)
      PROVE  fault' = "none"
  BY <1>5, Zenon DEF Access, Load, Store, Match, pmem_start, pmem_stop, pmem_start_finish,
     CloseFile, ClearFile, SwitchOff
<1>6. ResetPlugin => fault' = "none"
  BY DEF ResetPlugin
<1> HIDE DEF FailsOnlyInStop
<1> QED BY <1>1, <1>2, <1>3, <1>4, <1>5, <1>6, Zenon DEF Next, hypercall_pmem_cb, Command, Aborted

\* Lines of one session never reach the file of another one that the guest
\* started after a stop, and the plugin fails only on a file that never opened,
\* on an interval of zero, or between the fclose of a stop and its reset.
THEOREM FileTheorem == Spec => [](NoStrayLine /\ FailsOnlyInStop)
<1>1. Init => FileInv /\ OldInv /\ FailsOnlyInStop
  BY DEF Init, FileInv, OldInv, FailsOnlyInStop, InCallback, InStop
<1>2. (FileInv /\ OldInv /\ FailsOnlyInStop) /\ [Next]_vars
        => (FileInv /\ OldInv /\ FailsOnlyInStop)'
  BY FileInvInductive, OldInvInductive, FailureInductive
<1> QED BY <1>1, <1>2, OldNoStrayLine, PTL DEF Spec

(***************************************************************************)
(* Types.                                                                  *)
(***************************************************************************)
ThreadTypes ==
  /\ pc \in [Core -> InCallback \cup InStop \cup {"idle", "start"}]
  /\ val \in [Core -> 0 .. CountMod - 1]
  /\ count_lock \in Core \cup {None}
  /\ pmem_count \in 0 .. CountMod - 1
  /\ since \in Nat

ConfigTypes ==
  /\ pmem_int \in Intervals \cup {0}
  /\ pmem_attr \in SUBSET {"r", "w", "k", "u"}
  /\ pmem_file \in {"null", "stdout", "open", "closed"}
  /\ mode \in {"PMEM_ON", "PMEM_OFF"}
  /\ fault \in {"none", "division", "file"}
  /\ begun \in 0 .. MaxAcc
  /\ old \in SUBSET Core

PmemFlagTypes ==
  /\ registered \in BOOLEAN /\ resetting \in BOOLEAN
  /\ restarted \in BOOLEAN /\ unopened \in BOOLEAN

LEMMA ThreadTypesInductive ==
  ASSUME ThreadTypes, [Next]_vars
  PROVE  ThreadTypes'
<1> USE DEF ThreadTypes, Goto, ghosts, InCallback, InStop
<1>1. CASE UNCHANGED vars
  BY <1>1 DEF vars
<1>2. ASSUME NEW c \in Core,
             \/ Access(c) \/ StoreFails(c) \/ Match(c) \/ PrintLine(c)
             \/ pmem_start(c) \/ pmem_stop(c) \/ CloseFile(c) \/ ClearFile(c) \/ SwitchOff(c)
      PROVE  ThreadTypes'
  <2>1. UNCHANGED <<val, count_lock, pmem_count, since>>
    BY <1>2, Zenon DEF Access, StoreFails, Match, PrintLine, pmem_start, pmem_stop, CloseFile,
       ClearFile, SwitchOff
  <2>2. \E to \in InCallback \cup InStop \cup {"idle", "start"} : pc' = [pc EXCEPT ![c] = to]
    BY <1>2 DEF Access, StoreFails, Match, PrintLine, pmem_start, pmem_stop, CloseFile,
       ClearFile, SwitchOff
  <2> QED BY <2>1, <2>2
<1>3. ASSUME NEW c \in Core, Load(c) PROVE ThreadTypes'
  BY <1>3 DEF Load
<1>4. ASSUME NEW c \in Core, Store(c) PROVE ThreadTypes'
  <2>1. val[c] \in 0 .. CountMod - 1 /\ pmem_count' = (val[c] + 1) % CountMod
        /\ since' \in {0, since + 1} /\ count_lock' = None /\ UNCHANGED val
    BY <1>4 DEF Store
  <2>2. pmem_count' \in 0 .. CountMod - 1
    BY <2>1, WrapOrNext
  <2>3. \E to \in {"match", "idle"} : pc' = [pc EXCEPT ![c] = to]
    BY <1>4 DEF Store
  <2> QED BY <2>1, <2>2, <2>3
<1>5. ASSUME NEW c \in Core, pmem_start_finish(c) PROVE ThreadTypes'
  BY <1>5, InputAssumption DEF pmem_start_finish
<1>6. CASE ResetPlugin
  BY <1>6 DEF ResetPlugin
<1> HIDE DEF ThreadTypes
<1> QED BY <1>1, <1>2, <1>3, <1>4, <1>5, <1>6, Zenon
        DEF Next, hypercall_pmem_cb, Command, Aborted

LEMMA ConfigTypesInductive ==
  ASSUME ConfigTypes, [Next]_vars
  PROVE  ConfigTypes'
<1> USE DEF ConfigTypes, config, ghosts
<1>1. CASE UNCHANGED vars
  BY <1>1 DEF vars
<1>2. ASSUME NEW c \in Core, Access(c) PROVE ConfigTypes'
  BY <1>2, InputAssumption DEF Access
<1>3. ASSUME NEW c \in Core,
             \/ Load(c) \/ Store(c) \/ StoreFails(c) \/ Match(c) \/ PrintLine(c)
             \/ pmem_start(c) \/ pmem_stop(c) \/ CloseFile(c) \/ ClearFile(c) \/ SwitchOff(c)
      PROVE  ConfigTypes'
  <2>1. UNCHANGED <<pmem_int, pmem_attr, begun>> /\ old' \subseteq old
    BY <1>3 DEF Load, Store, StoreFails, Match, PrintLine, pmem_start, pmem_stop, CloseFile,
       ClearFile, SwitchOff
  <2>2. /\ pmem_file' \in {pmem_file, "null", "stdout", "open", "closed"}
        /\ mode' \in {mode, "PMEM_OFF"} /\ fault' \in {fault, "division", "file"}
    BY <1>3 DEF Load, Store, StoreFails, Match, PrintLine, pmem_start, pmem_stop, CloseFile,
       ClearFile, SwitchOff
  <2> QED BY <2>1, <2>2
<1>4. ASSUME NEW c \in Core, pmem_start_finish(c) PROVE ConfigTypes'
  BY <1>4, InputAssumption DEF pmem_start_finish
<1>5. CASE ResetPlugin
  BY <1>5 DEF ResetPlugin
<1> HIDE DEF ConfigTypes
<1> QED BY <1>1, <1>2, <1>3, <1>4, <1>5, Zenon DEF Next, hypercall_pmem_cb, Command, Aborted

LEMMA PmemFlagTypesInductive ==
  ASSUME PmemFlagTypes, [Next]_vars
  PROVE  PmemFlagTypes'
<1> USE DEF PmemFlagTypes
<1>1. CASE UNCHANGED <<registered, resetting, restarted, unopened>>
  BY <1>1, Zenon
<1>2. ASSUME NEW c \in Core, pmem_start(c) PROVE PmemFlagTypes'
  BY <1>2, Zenon DEF pmem_start
<1>3. ASSUME NEW c \in Core, pmem_start_finish(c) \/ SwitchOff(c) PROVE PmemFlagTypes'
  BY <1>3, Zenon DEF pmem_start_finish, SwitchOff, ghosts
<1>4. CASE ResetPlugin
  BY <1>4, Zenon DEF ResetPlugin, ghosts
<1> HIDE DEF PmemFlagTypes
<1>5. \/ UNCHANGED <<registered, resetting, restarted, unopened>>
      \/ \E c \in Core : pmem_start(c) \/ pmem_start_finish(c) \/ SwitchOff(c)
      \/ ResetPlugin
  BY Zenon DEF Next, vars, ghosts, Aborted, Access, hypercall_pmem_cb, Load, Store, StoreFails,
     Match, PrintLine, pmem_stop, Command, CloseFile, ClearFile
<1> QED BY <1>1, <1>2, <1>3, <1>4, <1>5

\* The counter stays within its width, the lock is held by a vCPU or by nobody,
\* and the file is one of those a start and a stop leave.
THEOREM PmemTypeCorrect == Spec => []TypeOK
<1>1. Init => ThreadTypes /\ ConfigTypes /\ PmemFlagTypes
  <2> SUFFICES ASSUME Init PROVE ThreadTypes /\ ConfigTypes /\ PmemFlagTypes
    OBVIOUS
  <2>1. ThreadTypes
    BY InputAssumption DEF Init, ThreadTypes
  <2>2. ConfigTypes
    BY InputAssumption DEF Init, ConfigTypes
  <2>3. PmemFlagTypes
    BY Zenon DEF Init, PmemFlagTypes
  <2> QED BY <2>1, <2>2, <2>3
<1>2. (ThreadTypes /\ ConfigTypes /\ PmemFlagTypes) /\ [Next]_vars
        => (ThreadTypes /\ ConfigTypes /\ PmemFlagTypes)'
  BY ThreadTypesInductive, ConfigTypesInductive, PmemFlagTypesInductive
<1>3. ThreadTypes /\ ConfigTypes /\ PmemFlagTypes => TypeOK
  BY Zenon DEF ThreadTypes, ConfigTypes, PmemFlagTypes, TypeOK
<1> QED BY <1>1, <1>2, <1>3, PTL DEF Spec
=============================================================================
