--------------------------- MODULE Mcount_proofs ---------------------------
(* Theorems about Mcount, for every number of vCPUs and every size of memory and of bins. *)
EXTENDS Mcount, FiniteSetTheorems, TLAPS

(***************************************************************************)
(* Types, in two halves: where the threads are, and what they count.  The  *)
(* first says too that nobody divides by a size no start has set, and that *)
(* no device access gets as far as a map.                                  *)
(***************************************************************************)
SizesSet ==
  /\ mode = "MCOUNT_ON" => mem_bin # 0
  /\ \A c \in Core : pc[c] \in InCallback => mem_bin # 0
  /\ \A c \in Core : pc[c] = "init" => arg[c] # 0

ThreadTypes ==
  /\ pc \in [Core -> InCallback \cup InCommand \cup {"idle"}]
  /\ kind \in [Core -> Kind \cup {"io"}]
  /\ paddr \in [Core -> PAddr]
  /\ bin \in [Core -> Nat]
  /\ val \in [Core -> Nat]
  /\ mem_bin \in MemBins \cup {0} /\ acc_bin \in AccBins \cup {0}
  /\ arg \in [Core -> MemBins \cup {0}]
  /\ size \in 0 .. TotalMem
  /\ SizesSet
  /\ \A c \in Core : pc[c] \in {"load", "store"} => kind[c] \in Kind
  /\ exclusive \in Core \cup {None}
  /\ shared \in SUBSET Core
  /\ pos \in 0 .. 2 * ncores
  /\ mode \in {"MCOUNT_ON", "MCOUNT_OFF"}
  /\ report \in {"null", "open"}
  /\ resetting \in SUBSET Core
  /\ fault \in {"none", "fopen", "report", "bounds"}

CountTypes ==
  /\ registered \in BOOLEAN
  /\ acc_cnt \in Nat /\ acc_io_cnt \in Nat
  /\ maps \in [Cell -> Nat]
  /\ hits \in [Cell -> Nat] /\ reported \in [Cell -> Nat]
  /\ flushes \in Nat /\ lost \in Nat

LEMMA TypesAreTypeOK == ThreadTypes /\ CountTypes => TypeOK
BY DEF ThreadTypes, CountTypes, TypeOK

\* A start, with whatever sizes.
AnyStart(c) == \E m \in MemBins, a \in AccBins : mcount_start(c, m, a)

\* The division of an address by a bin size, and the length of a row.
LEMMA BinOfIsNat ==
  ASSUME ThreadTypes, NEW c \in Core, pc[c] \in InCallback
  PROVE  BinOf(c) \in Nat
<1>1. mem_bin \in Nat \ {0} /\ paddr[c] \in Nat
  BY BinAssumption DEF ThreadTypes, SizesSet, PAddr
<1> QED BY <1>1 DEF BinOf

LEMMA QuotientAtMost ==
  ASSUME NEW p \in Nat, NEW m \in Nat \ {0}
  PROVE  p \div m \in Nat /\ p \div m <= p
OBVIOUS

LEMMA SizeInRange ==
  ASSUME NEW m \in MemBins
  PROVE  resize(m) \in 0 .. TotalMem
<1>1. TotalMem \in Nat /\ m \in Nat \ {0}
  BY BinAssumption
<1> QED BY <1>1, QuotientAtMost DEF resize

\* A vCPU's control point, its access and the lock keep their types.
LEMMA ThreadTypesInductive ==
  ASSUME ThreadTypes, CountTypes, [Next]_vars
  PROVE  ThreadTypes'
<1> USE DEF ThreadTypes, SizesSet, sizes, InCallback, InCommand, Kind, access, locks, ghosts
<1>1. CASE UNCHANGED vars
  BY <1>1 DEF vars
<1>2. ASSUME NEW c \in Core, NEW k \in Kind \cup {"io"}, NEW a \in PAddr, Access(c, k, a)
      PROVE  ThreadTypes'
  BY <1>2 DEF Access, Goto
<1>3. ASSUME NEW c \in Core, Count(c) PROVE ThreadTypes'
  BY <1>3 DEF Count, Goto
<1>4. ASSUME NEW c \in Core, LockFlush(c) PROVE ThreadTypes'
  BY <1>4, CoresAssumption, BinAssumption DEF LockFlush, LockExclusive, Return, Goto, PAddr
<1>5. ASSUME NEW c \in Core, FlushRow(c) PROVE ThreadTypes'
  BY <1>5, CoresAssumption DEF FlushRow, Goto
<1>6. ASSUME NEW c \in Core, FlushDone(c) PROVE ThreadTypes'
  BY <1>6 DEF FlushDone, UnlockExclusive, Goto
<1>7. ASSUME NEW c \in Core, CountIO(c) PROVE ThreadTypes'
  BY <1>7, BinAssumption DEF CountIO, Return, Goto, PAddr
<1>8. ASSUME NEW c \in Core, LockCell(c) PROVE ThreadTypes'
  BY <1>8 DEF LockCell, LockShared, Goto
<1>9. ASSUME NEW c \in Core, LoadCell(c) PROVE ThreadTypes'
  <2>1. pc[c] \in InCallback /\ kind[c] \in Kind
    BY <1>9 DEF LoadCell, Goto
  <2>2. BinOf(c) \in Nat
    BY <2>1, BinOfIsNat
  <2>3. val' \in [Core -> Nat]
    <3>1. CASE val' = val
      BY <3>1
    <3>2. CASE BinOf(c) < size /\ val' = [val EXCEPT ![c] = maps[<<kind[c], c, BinOf(c)>>]]
      <4>1. BinOf(c) \in 0 .. TotalMem - 1
        BY <2>2, <3>2, BinAssumption
      <4>2. <<kind[c], c, BinOf(c)>> \in Cell
        BY <2>1, <4>1 DEF Cell
      <4> QED BY <3>2, <4>2 DEF CountTypes
    <3> QED BY <1>9, <3>1, <3>2 DEF LoadCell
  <2>4. bin' \in [Core -> Nat]
    BY <1>9, <2>2 DEF LoadCell
  <2> QED BY <1>9, <2>3, <2>4 DEF LoadCell, Goto
<1>10. ASSUME NEW c \in Core, StoreCell(c) PROVE ThreadTypes'
  BY <1>10, BinAssumption DEF StoreCell, UnlockShared, Return, Goto, PAddr
<1>11. ASSUME NEW c \in Core, AnyStart(c) PROVE ThreadTypes'
  BY <1>11, BinAssumption DEF AnyStart, mcount_start, Goto
<1>12. ASSUME NEW c \in Core, mcount_start_finish(c) PROVE ThreadTypes'
  <2>1. arg[c] \in MemBins
    BY <1>12 DEF mcount_start_finish, Goto
  <2>2. size' \in 0 .. TotalMem
    BY <1>12, <2>1, SizeInRange DEF mcount_start_finish
  <2> QED BY <1>12, <2>2 DEF mcount_start_finish, Goto
<1>13. ASSUME NEW c \in Core, mcount_stop(c) PROVE ThreadTypes'
  BY <1>13 DEF mcount_stop, Goto
<1>14. ASSUME NEW c \in Core, LockReport(c) PROVE ThreadTypes'
  BY <1>14 DEF LockReport, LockShared, Goto
<1>15. ASSUME NEW c \in Core, CloseReport(c) PROVE ThreadTypes'
  BY <1>15 DEF CloseReport, UnlockShared, Goto
<1>16. ASSUME NEW c \in Core, ResetPlugin(c) PROVE ThreadTypes'
  BY <1>16 DEF ResetPlugin
<1> HIDE DEF ThreadTypes
<1> QED BY <1>1, <1>2, <1>3, <1>4, <1>5, <1>6, <1>7, <1>8, <1>9, <1>10, <1>11, <1>12, <1>13,
           <1>14, <1>15, <1>16, Zenon DEF Next, Callback, AnyStart, Aborted

\* The counters stay natural numbers.
LEMMA CountTypesInductive ==
  ASSUME ThreadTypes, CountTypes, [Next]_vars
  PROVE  CountTypes'
<1> USE DEF CountTypes, access, locks, ghosts
<1>1. CASE UNCHANGED vars
  BY <1>1 DEF vars
<1>2. ASSUME NEW c \in Core, NEW k \in Kind \cup {"io"}, NEW a \in PAddr, Access(c, k, a)
      PROVE  CountTypes'
  BY <1>2 DEF Access
<1>3. ASSUME NEW c \in Core, Count(c) PROVE CountTypes'
  BY <1>3 DEF Count
<1>4. ASSUME NEW c \in Core, LockFlush(c) PROVE CountTypes'
  BY <1>4 DEF LockFlush
<1>5. ASSUME NEW c \in Core, FlushRow(c) PROVE CountTypes'
  BY <1>5 DEF FlushRow
<1>6. ASSUME NEW c \in Core, FlushDone(c) PROVE CountTypes'
  BY <1>6 DEF FlushDone
<1>7. ASSUME NEW c \in Core, CountIO(c) PROVE CountTypes'
  BY <1>7 DEF CountIO, Return
<1>8. ASSUME NEW c \in Core, LockCell(c) \/ LoadCell(c) PROVE CountTypes'
  BY <1>8 DEF LockCell, LoadCell
<1>9. ASSUME NEW c \in Core, StoreCell(c) PROVE CountTypes'
  <2>1. val[c] + 1 \in Nat
    BY DEF ThreadTypes
  <2>2. maps' \in [Cell -> Nat]
    BY <1>9, <2>1 DEF StoreCell
  <2>3. hits' \in [Cell -> Nat]
    <3>1. hits' = [hits EXCEPT ![CellOf(c)] = hits[CellOf(c)] + 1]
      BY <1>9 DEF StoreCell
    <3>2. hits \in [Cell -> Nat]
      OBVIOUS
    <3>3. \A x \in Cell : hits[x] + 1 \in Nat
      BY <3>2
    <3> HIDE DEF CountTypes
    <3> QED BY <3>1, <3>2, <3>3
  <2>4. UNCHANGED <<registered, acc_cnt, acc_io_cnt, reported, flushes, lost>>
    BY <1>9 DEF StoreCell
  <2> QED BY <2>2, <2>3, <2>4
<1>10. ASSUME NEW c \in Core, AnyStart(c) \/ mcount_stop(c) PROVE CountTypes'
  BY <1>10 DEF AnyStart, mcount_start, mcount_stop
<1>11. ASSUME NEW c \in Core, mcount_start_finish(c) PROVE CountTypes'
  <2>1. registered' = TRUE
    BY <1>11 DEF mcount_start_finish
  <2>2. /\ acc_cnt' = 0 /\ acc_io_cnt' = 0 /\ maps' = Zero
        /\ hits' = Zero /\ reported' = Zero /\ flushes' = 0 /\ lost' = 0
    BY <1>11 DEF mcount_start_finish
  <2>3. Zero \in [Cell -> Nat]
    BY DEF Zero
  <2> QED BY <2>1, <2>2, <2>3
<1>12. ASSUME NEW c \in Core, LockReport(c) \/ CloseReport(c) PROVE CountTypes'
  BY <1>12 DEF LockReport, CloseReport
<1>13. ASSUME NEW c \in Core, ResetPlugin(c) PROVE CountTypes'
  <2>1. registered' = FALSE
    BY <1>13 DEF ResetPlugin
  <2>2. UNCHANGED <<acc_cnt, acc_io_cnt, maps, hits, reported, flushes, lost>>
    BY <1>13 DEF ResetPlugin
  <2> QED BY <2>1, <2>2
<1> HIDE DEF CountTypes
<1> QED BY <1>1, <1>2, <1>3, <1>4, <1>5, <1>6, <1>7, <1>8, <1>9, <1>10, <1>11, <1>12, <1>13, Zenon
        DEF Next, Callback, AnyStart, Aborted

LEMMA TypesInit == Init => ThreadTypes /\ CountTypes
<1> SUFFICES ASSUME Init PROVE ThreadTypes /\ CountTypes
  OBVIOUS
<1>1. ThreadTypes
  <2>1. /\ pc \in [Core -> InCallback \cup InCommand \cup {"idle"}]
        /\ kind \in [Core -> Kind \cup {"io"}]
        /\ bin \in [Core -> Nat]
        /\ val \in [Core -> Nat]
    BY DEF Init
  <2>4. paddr \in [Core -> PAddr] /\ size \in 0 .. TotalMem
    BY BinAssumption DEF Init, PAddr
  <2>5. mem_bin = 0 /\ acc_bin = 0 /\ arg \in [Core -> MemBins \cup {0}]
    BY DEF Init
  <2>6. SizesSet /\ \A c \in Core : pc[c] \notin {"load", "store"}
    BY DEF Init, SizesSet, InCallback
  <2>2. pos \in 0 .. 2 * ncores
    BY CoresAssumption DEF Init
  <2>3. /\ exclusive = None /\ shared = {} /\ resetting = {} /\ fault = "none"
        /\ mode = "MCOUNT_OFF" /\ report = "null"
    BY DEF Init
  <2> QED BY <2>1, <2>2, <2>3, <2>4, <2>5, <2>6 DEF ThreadTypes
<1>2. registered = FALSE
  BY DEF Init
<1>3. /\ acc_cnt = 0 /\ acc_io_cnt = 0 /\ maps = Zero
      /\ hits = Zero /\ reported = Zero /\ flushes = 0 /\ lost = 0
  BY DEF Init
<1>4. Zero \in [Cell -> Nat]
  BY DEF Zero
<1> QED BY <1>1, <1>2, <1>3, <1>4 DEF CountTypes

LEMMA TypesInductive == (ThreadTypes /\ CountTypes) /\ [Next]_vars => (ThreadTypes /\ CountTypes)'
BY ThreadTypesInductive, CountTypesInductive

\* The types of Mcount are an invariant, whatever the guest commands.
THEOREM McountTypeCorrect == Spec => []TypeOK
BY TypesInit, TypesInductive, TypesAreTypeOK, PTL DEF Spec

(***************************************************************************)
(* flush_mtx: who holds it.                                                *)
(***************************************************************************)
LockInv ==
  /\ exclusive # None => shared = {}
  /\ \A c \in Core : pc[c] = "flush" <=> exclusive = c
  /\ \A c \in Core : c \in shared <=> pc[c] \in {"load", "store", "close"}

\* A flush excludes every count and every closing of the report.
LEMMA FlushExcludes ==
  ASSUME LockInv, NEW c \in Core, pc[c] = "flush", NEW d \in Core
  PROVE  pc[d] \notin {"load", "store", "close"}
BY CoresAssumption DEF LockInv, Core

\* Callbacks and commands take and leave the lock as they go.
LEMMA LockInvInductive ==
  ASSUME ThreadTypes, LockInv, [Next]_vars
  PROVE  LockInv'
<1> USE DEF ThreadTypes, LockInv, Goto, locks
<1>1. CASE UNCHANGED vars
  BY <1>1 DEF vars
<1>2. ASSUME NEW c \in Core, NEW k \in Kind \cup {"io"}, NEW a \in PAddr, Access(c, k, a)
      PROVE  LockInv'
  BY <1>2 DEF Access
<1>3. ASSUME NEW c \in Core, Count(c) \/ CountIO(c) PROVE LockInv'
  BY <1>3 DEF Count, CountIO, Return
<1>4. ASSUME NEW c \in Core, LockFlush(c) PROVE LockInv'
  <2>1. exclusive = None /\ shared = {} /\ pc[c] = "lock"
    BY <1>4 DEF LockFlush, Return
  <2>2. CASE pc' = [pc EXCEPT ![c] = "flush"] /\ exclusive' = c /\ shared' = shared
    BY <2>1, <2>2, CoresAssumption DEF Core
  <2>3. CASE pc' = [pc EXCEPT ![c] = "idle"] /\ exclusive' = exclusive /\ shared' = shared
    BY <2>1, <2>3, CoresAssumption DEF Core
  <2> QED BY <1>4, <2>2, <2>3 DEF LockFlush, LockExclusive, Return
<1>5. ASSUME NEW c \in Core, FlushRow(c) PROVE LockInv'
  BY <1>5 DEF FlushRow
<1>6. ASSUME NEW c \in Core, FlushDone(c) PROVE LockInv'
  BY <1>6, CoresAssumption DEF FlushDone, UnlockExclusive, Core
<1>7. ASSUME NEW c \in Core, LockCell(c) \/ LockReport(c) PROVE LockInv'
  BY <1>7 DEF LockCell, LockReport, LockShared
<1>8. ASSUME NEW c \in Core, LoadCell(c) PROVE LockInv'
  BY <1>8 DEF LoadCell
<1>9. ASSUME NEW c \in Core, StoreCell(c) PROVE LockInv'
  BY <1>9 DEF StoreCell, UnlockShared, Return
<1>10. ASSUME NEW c \in Core, CloseReport(c) PROVE LockInv'
  BY <1>10 DEF CloseReport, UnlockShared
<1>11. ASSUME NEW c \in Core, AnyStart(c) \/ mcount_start_finish(c) PROVE LockInv'
  BY <1>11 DEF AnyStart, mcount_start, mcount_start_finish
<1>12. ASSUME NEW c \in Core, mcount_stop(c) PROVE LockInv'
  BY <1>12 DEF mcount_stop
<1>13. ASSUME NEW c \in Core, ResetPlugin(c) PROVE LockInv'
  <2>1. UNCHANGED <<pc, exclusive, shared>>
    BY <1>13 DEF ResetPlugin
  <2> QED BY <2>1
<1> HIDE DEF LockInv
<1> QED BY <1>1, <1>2, <1>3, <1>4, <1>5, <1>6, <1>7, <1>8, <1>9, <1>10, <1>11, <1>12, <1>13, Zenon
        DEF Next, Callback, AnyStart, Aborted

LEMMA LockInvInit == Init => LockInv
BY CoresAssumption DEF Init, LockInv, Core

(***************************************************************************)
(* The report: open whenever somebody may write to it.  The mode is on     *)
(* only with an open report; who holds flush_mtx to flush, and the stop    *)
(* that will close the report, found it open.                              *)
(***************************************************************************)
OneCommand ==
  \A c, d \in Core : pc[c] \in InCommand /\ pc[d] \in InCommand => c = d

ReportOpen ==
  /\ mode = "MCOUNT_ON" => report = "open"
  /\ \A c \in Core : pc[c] = "flush" => report = "open"
  /\ \A c \in Core : pc[c] \in {"fini", "close"} => report = "open" /\ mode = "MCOUNT_OFF"

ReportInv ==
  /\ OneCommand
  /\ fault = "none" => ReportOpen
  /\ fault # "report"

LEMMA OneCommandInductive ==
  ASSUME ~ ConcurrentCommands, ThreadTypes, OneCommand, [Next]_vars
  PROVE  OneCommand'
<1> USE DEF OneCommand, InCommand, Goto, Command
<1>1. pc \in [Core -> InCallback \cup InCommand \cup {"idle"}]
  BY DEF ThreadTypes
<1>2. CASE UNCHANGED vars
  BY <1>2 DEF vars
<1>3. ASSUME NEW c \in Core, NEW to \in InCallback \cup {"idle"}, pc' = [pc EXCEPT ![c] = to]
      PROVE  OneCommand'
  BY <1>1, <1>3 DEF InCallback
<1>4. ASSUME NEW c \in Core, NEW k \in Kind \cup {"io"}, NEW a \in PAddr, Access(c, k, a)
      PROVE  OneCommand'
  BY <1>3, <1>4 DEF Access, InCallback
<1>5. ASSUME NEW c \in Core, Callback(c) PROVE OneCommand'
  BY <1>3, <1>5 DEF Callback, Count, LockFlush, FlushRow, FlushDone, CountIO, LockCell, LoadCell,
                    StoreCell, Return, InCallback
<1>6. ASSUME NEW c \in Core, AnyStart(c) \/ mcount_stop(c) PROVE OneCommand'
  BY <1>1, <1>6 DEF AnyStart, mcount_start, mcount_stop
<1>7. ASSUME NEW c \in Core, mcount_start_finish(c) \/ CloseReport(c) PROVE OneCommand'
  BY <1>3, <1>7 DEF mcount_start_finish, CloseReport
<1>8. ASSUME NEW c \in Core, LockReport(c) PROVE OneCommand'
  BY <1>1, <1>8 DEF LockReport
<1>9. ASSUME NEW c \in Core, ResetPlugin(c) PROVE OneCommand'
  BY <1>9 DEF ResetPlugin
<1> HIDE DEF OneCommand
<1> QED BY <1>2, <1>4, <1>5, <1>6, <1>7, <1>8, <1>9, Zenon DEF Next, AnyStart, Aborted

\* The step that matters is CloseReport: its vCPU holds flush_mtx, so no other
\* vCPU is in a flush, and it is the only one in a command.
LEMMA ReportInvInductive ==
  ASSUME ~ ConcurrentCommands, ThreadTypes, LockInv, ReportInv, [Next]_vars
  PROVE  ReportInv'
<1> USE DEF ReportInv, ReportOpen, Goto
<1>1. pc \in [Core -> InCallback \cup InCommand \cup {"idle"}]
  BY DEF ThreadTypes
<1>2. OneCommand'
  BY OneCommandInductive
<1>3. CASE UNCHANGED vars
  BY <1>2, <1>3 DEF vars
<1>4. ASSUME NEW c \in Core, NEW k \in Kind \cup {"io"}, NEW a \in PAddr, Access(c, k, a)
      PROVE  ReportInv'
  BY <1>1, <1>2, <1>4 DEF Access
<1>5. ASSUME NEW c \in Core, Count(c) \/ CountIO(c) \/ LockCell(c) \/ StoreCell(c) PROVE ReportInv'
  BY <1>1, <1>2, <1>5 DEF Count, CountIO, Return, LockCell, StoreCell
<1>6. ASSUME NEW c \in Core, LockFlush(c) PROVE ReportInv'
  BY <1>1, <1>2, <1>6 DEF LockFlush, Return
<1>7. ASSUME NEW c \in Core, FlushRow(c) \/ FlushDone(c) PROVE ReportInv'
  BY <1>1, <1>2, <1>7 DEF FlushRow, FlushDone
<1>8. ASSUME NEW c \in Core, LoadCell(c) PROVE ReportInv'
  BY <1>1, <1>2, <1>8 DEF LoadCell
<1>9. ASSUME NEW c \in Core, AnyStart(c) PROVE ReportInv'
  BY <1>1, <1>2, <1>9 DEF AnyStart, mcount_start, Command, InCommand
<1>10. ASSUME NEW c \in Core, mcount_start_finish(c) PROVE ReportInv'
  BY <1>1, <1>2, <1>10 DEF mcount_start_finish
<1>11. ASSUME NEW c \in Core, mcount_stop(c) PROVE ReportInv'
  <2>1. report \in {"null", "open"}
    BY DEF ThreadTypes
  <2> QED BY <1>1, <1>2, <1>11, <2>1 DEF mcount_stop, Command, InCommand
<1>12. ASSUME NEW c \in Core, LockReport(c) PROVE ReportInv'
  BY <1>1, <1>2, <1>12 DEF LockReport
<1>13. ASSUME NEW c \in Core, CloseReport(c) PROVE ReportInv'
  <2>1. pc[c] = "close" /\ fault = "none" /\ report = "open" /\ mode = "MCOUNT_OFF"
    BY <1>13 DEF CloseReport
  <2>2. \A d \in Core : pc[d] # "flush"
    BY <2>1, FlushExcludes
  <2>3. \A d \in Core : pc[d] \in {"fini", "close"} => d = c
    BY <2>1 DEF OneCommand, InCommand
  <2>4. pc' = [pc EXCEPT ![c] = "idle"] /\ mode' = mode /\ fault' = fault
    BY <1>13, <2>1 DEF CloseReport
  <2> QED BY <1>1, <1>2, <2>1, <2>2, <2>3, <2>4
<1>14. ASSUME NEW c \in Core, ResetPlugin(c) PROVE ReportInv'
  BY <1>2, <1>14 DEF ResetPlugin
<1> HIDE DEF ReportInv
<1> QED BY <1>3, <1>4, <1>5, <1>6, <1>7, <1>8, <1>9, <1>10, <1>11, <1>12, <1>13, <1>14, Zenon
        DEF Next, Callback, AnyStart, Aborted

LEMMA ReportInvInit == Init => ReportInv
BY DEF Init, ReportInv, ReportOpen, OneCommand, InCommand

\* Nothing is written to a closed report, by a flush or by a second stop, as
\* long as commands come one at a time; the guest may restart a session that
\* runs.
THEOREM McountReportTheorem ==
  ASSUME ~ ConcurrentCommands
  PROVE  Spec => []NoUseAfterClose
<1>1. Init => ThreadTypes /\ CountTypes /\ LockInv /\ ReportInv
  BY TypesInit, LockInvInit, ReportInvInit
<1>2. ThreadTypes /\ CountTypes /\ LockInv /\ ReportInv /\ [Next]_vars
        => (ThreadTypes /\ CountTypes /\ LockInv /\ ReportInv)'
  BY ThreadTypesInductive, CountTypesInductive, LockInvInductive, ReportInvInductive
<1>3. ReportInv => NoUseAfterClose
  BY DEF ReportInv, NoUseAfterClose
<1> QED BY <1>1, <1>2, <1>3, PTL DEF Spec

(***************************************************************************)
(* The counts: a thread that has loaded a counter is the only one to       *)
(* change it.  That needs the maps not to be cleared under it: a start     *)
(* finds no callback registered, so no thread in one.                      *)
(***************************************************************************)
Quiet ==
  /\ \A c \in Core : pc[c] \in InCallback => registered
  /\ \A c \in Core : pc[c] = "init" => ~ registered

Loaded ==
  fault = "none" =>
    \A c \in Core : pc[c] = "store" => CellOf(c) \in Cell /\ val[c] = maps[CellOf(c)]

LEMMA QuietInductive ==
  ASSUME ~ ConcurrentCommands, ~ RestartWhileRunning, ThreadTypes, OneCommand, Quiet, [Next]_vars
  PROVE  Quiet'
<1> USE DEF Quiet, Goto
<1>1. pc \in [Core -> InCallback \cup InCommand \cup {"idle"}]
  BY DEF ThreadTypes
<1>2. CASE UNCHANGED vars
  BY <1>2 DEF vars
<1>3. ASSUME NEW c \in Core, NEW k \in Kind \cup {"io"}, NEW a \in PAddr, Access(c, k, a)
      PROVE  Quiet'
  <2>1. registered /\ registered' = registered /\ pc' = [pc EXCEPT ![c] = "count"]
    BY <1>3 DEF Access
  <2> QED BY <1>1, <2>1 DEF InCallback
<1>4. ASSUME NEW c \in Core, Callback(c) PROVE Quiet'
  <2>1. pc[c] \in InCallback /\ registered' = registered
    BY <1>4 DEF Callback, Count, LockFlush, FlushRow, FlushDone, CountIO, LockCell, LoadCell,
                StoreCell, Return, InCallback
  <2>2. PICK to \in InCallback \cup {"idle"} : pc' = [pc EXCEPT ![c] = to]
    BY <1>4 DEF Callback, Count, LockFlush, FlushRow, FlushDone, CountIO, LockCell, LoadCell,
                StoreCell, Return, InCallback
  <2> QED BY <1>1, <2>1, <2>2 DEF InCallback
<1>5. ASSUME NEW c \in Core, AnyStart(c) PROVE Quiet'
  <2>1. ~ registered /\ registered' = registered /\ pc' = [pc EXCEPT ![c] = "init"]
    BY <1>5 DEF AnyStart, mcount_start
  <2> QED BY <1>1, <2>1 DEF InCallback
<1>6. ASSUME NEW c \in Core, mcount_start_finish(c) PROVE Quiet'
  <2>1. pc[c] = "init" /\ registered' = TRUE /\ pc' = [pc EXCEPT ![c] = "idle"]
    BY <1>6 DEF mcount_start_finish
  <2>2. \A d \in Core : pc[d] = "init" => d = c
    BY <2>1 DEF OneCommand, InCommand
  <2> QED BY <1>1, <2>1, <2>2 DEF InCallback
<1>7. ASSUME NEW c \in Core, mcount_stop(c) \/ LockReport(c) \/ CloseReport(c) PROVE Quiet'
  <2>1. registered' = registered
    BY <1>7 DEF mcount_stop, LockReport, CloseReport
  <2>2. PICK to \in {"fini", "close", "idle"} : pc' = [pc EXCEPT ![c] = to]
    BY <1>7 DEF mcount_stop, LockReport, CloseReport
  <2> QED BY <1>1, <2>1, <2>2 DEF InCallback
<1>8. ASSUME NEW c \in Core, ResetPlugin(c) PROVE Quiet'
  <2>1. registered' = FALSE /\ pc' = pc /\ \A d \in Core : pc[d] = "idle"
    BY <1>8 DEF ResetPlugin
  <2> QED BY <2>1 DEF InCallback
<1> HIDE DEF Quiet
<1> QED BY <1>2, <1>3, <1>4, <1>5, <1>6, <1>7, <1>8, Zenon DEF Next, AnyStart, Aborted

\* Two vCPUs never count in the same cell.
LEMMA CellsDisjoint ==
  \A c, d \in Core : CellOf(c) = CellOf(d) => c = d
BY DEF CellOf

LEMMA CountsInductive ==
  ASSUME ThreadTypes, CountTypes, LockInv, OneCommand, Quiet, Loaded, NoCountLost, [Next]_vars
  PROVE  Loaded' /\ NoCountLost'
<1> USE DEF Loaded, NoCountLost, Goto, access, ghosts, CellOf
<1>1. /\ pc \in [Core -> InCallback \cup InCommand \cup {"idle"}]
      /\ kind \in [Core -> Kind \cup {"io"}]
      /\ bin \in [Core -> Nat]
      /\ val \in [Core -> Nat]
  BY DEF ThreadTypes
<1>2. maps \in [Cell -> Nat] /\ hits \in [Cell -> Nat] /\ reported \in [Cell -> Nat]
  BY DEF CountTypes
<1>3. CASE UNCHANGED vars
  BY <1>3 DEF vars
<1>4. ASSUME NEW c \in Core, NEW k \in Kind \cup {"io"}, NEW a \in PAddr, Access(c, k, a)
      PROVE  Loaded' /\ NoCountLost'
  BY <1>1, <1>4 DEF Access
<1>5. ASSUME NEW c \in Core, Count(c) \/ CountIO(c) \/ LockFlush(c) \/ FlushDone(c) \/ LockCell(c)
      PROVE  Loaded' /\ NoCountLost'
  BY <1>1, <1>5 DEF Count, CountIO, Return, LockFlush, FlushDone, LockCell
<1>6. ASSUME NEW c \in Core, FlushRow(c) PROVE Loaded' /\ NoCountLost'
  <2>1. \A d \in Core : pc'[d] # "store"
    BY <1>1, <1>6, FlushExcludes DEF FlushRow
  <2>2. \A x \in Cell : reported'[x] + maps'[x] = reported[x] + maps[x]
    BY <1>2, <1>6 DEF FlushRow
  <2>3. hits' = hits
    BY <1>6 DEF FlushRow
  <2> QED BY <2>1, <2>2, <2>3
<1>7. ASSUME NEW c \in Core, LoadCell(c) PROVE Loaded' /\ NoCountLost'
  <2>1. /\ pc[c] = "load" /\ pc' = [pc EXCEPT ![c] = "store"]
        /\ kind' = kind /\ bin' = [bin EXCEPT ![c] = BinOf(c)]
    BY <1>7 DEF LoadCell
  <2>2. UNCHANGED <<maps, hits, reported>>
    BY <1>7 DEF LoadCell
  <2>3. CASE fault' # "none"
    BY <2>2, <2>3
  <2>4. CASE fault' = "none"
    <3>1. BinOf(c) < size /\ val' = [val EXCEPT ![c] = maps[<<kind[c], c, BinOf(c)>>]]
      BY <1>7, <2>4 DEF LoadCell
    <3>2. kind[c] \in Kind /\ BinOf(c) \in 0 .. TotalMem - 1
      <4>1. BinOf(c) \in Nat
        BY <2>1, BinOfIsNat DEF InCallback
      <4>2. size \in 0 .. TotalMem /\ TotalMem \in Nat
        BY BinAssumption DEF ThreadTypes
      <4>3. kind[c] \in Kind
        BY <2>1 DEF ThreadTypes
      <4> QED BY <3>1, <4>1, <4>2, <4>3
    <3>3. fault = "none"
      BY <1>7 DEF LoadCell
    <3> QED BY <1>1, <2>1, <2>2, <3>1, <3>2, <3>3 DEF Cell
  <2> QED BY <2>3, <2>4
<1>8. ASSUME NEW c \in Core, StoreCell(c) PROVE Loaded' /\ NoCountLost'
  <2>1. fault = "none" /\ pc[c] = "store" /\ CellOf(c) \in Cell /\ val[c] = maps[CellOf(c)]
    BY <1>8 DEF StoreCell, Return
  <2>2. /\ maps' = [maps EXCEPT ![CellOf(c)] = maps[CellOf(c)] + 1]
        /\ hits' = [hits EXCEPT ![CellOf(c)] = hits[CellOf(c)] + 1]
        /\ reported' = reported
    BY <1>8, <2>1 DEF StoreCell
  <2>3. /\ pc' = [pc EXCEPT ![c] = "idle"]
        /\ \A d \in Core \ {c} : kind'[d] = kind[d] /\ bin'[d] = bin[d] /\ val'[d] = val[d]
    BY <1>1, <1>8 DEF StoreCell, Return
  <2>4. NoCountLost'
    BY <1>2, <2>1, <2>2
  <2>5. Loaded'
    <3> SUFFICES ASSUME NEW d \in Core, pc'[d] = "store"
                 PROVE  CellOf(d)' \in Cell /\ val'[d] = maps'[CellOf(d)']
      BY DEF Loaded
    <3>1. d # c /\ pc[d] = "store" /\ CellOf(d)' = CellOf(d)
      BY <1>1, <2>3
    <3>2. CellOf(d) # CellOf(c)
      BY <3>1, CellsDisjoint
    <3>3. CellOf(d) \in Cell /\ val[d] = maps[CellOf(d)]
      BY <2>1, <3>1
    <3> HIDE DEF CellOf
    <3> QED BY <1>2, <2>2, <2>3, <3>1, <3>2, <3>3
  <2> QED BY <2>4, <2>5
<1>9. ASSUME NEW c \in Core, AnyStart(c) \/ mcount_stop(c) \/ LockReport(c) \/ CloseReport(c)
      PROVE  Loaded' /\ NoCountLost'
  BY <1>1, <1>9 DEF AnyStart, mcount_start, mcount_stop, LockReport, CloseReport
<1>10. ASSUME NEW c \in Core, mcount_start_finish(c) PROVE Loaded' /\ NoCountLost'
  <2>1. \A d \in Core : pc[d] # "store"
    BY <1>10 DEF mcount_start_finish, Quiet, InCallback
  <2>2. pc' = [pc EXCEPT ![c] = "idle"] /\ hits' = Zero /\ reported' = Zero /\ maps' = Zero
    BY <1>10 DEF mcount_start_finish
  <2> QED BY <1>1, <2>1, <2>2 DEF Zero
<1>11. ASSUME NEW c \in Core, ResetPlugin(c) PROVE Loaded' /\ NoCountLost'
  BY <1>11 DEF ResetPlugin
<1> HIDE DEF Loaded, NoCountLost
<1> QED BY <1>3, <1>4, <1>5, <1>6, <1>7, <1>8, <1>9, <1>10, <1>11, Zenon
        DEF Next, Callback, AnyStart, Aborted

LEMMA CountsInit == Init => OneCommand /\ Quiet /\ Loaded /\ NoCountLost
BY DEF Init, OneCommand, Quiet, Loaded, NoCountLost, InCallback, InCommand, Zero

\* No access counted during a session is lost or printed twice, as long as
\* commands come one at a time and a start finds no session running.
THEOREM McountCountTheorem ==
  ASSUME ~ ConcurrentCommands, ~ RestartWhileRunning
  PROVE  Spec => []NoCountLost
<1> DEFINE I == ThreadTypes /\ CountTypes /\ LockInv /\ OneCommand /\ Quiet /\ Loaded /\ NoCountLost
<1>1. Init => I
  BY TypesInit, LockInvInit, CountsInit
<1>2. I /\ [Next]_vars => I'
  BY ThreadTypesInductive, CountTypesInductive, LockInvInductive, OneCommandInductive,
     QuietInductive, CountsInductive
<1>3. I => NoCountLost
  OBVIOUS
<1> QED BY <1>1, <1>2, <1>3, PTL DEF Spec

(***************************************************************************)
(* Sums over finite sets, as SumFunction takes them: it folds over the     *)
(* domain, one chosen element at a time.                                   *)
(***************************************************************************)
\* The element a fold takes out of the set s next.
Pick(s) == CHOOSE x \in s : TRUE

\* What g, a function on the subsets of S, has to satisfy to sum f over each of them.
SumsOver(g, f, S) ==
  g = [s \in SUBSET S |-> IF s = {} THEN 0 ELSE f[Pick(s)] + g[s \ {Pick(s)}]]

LEMMA PickIsElement == ASSUME NEW s, s # {} PROVE Pick(s) \in s
BY DEF Pick

LEMMA SumIsFold ==
  ASSUME NEW f, NEW S
  PROVE  SumFunctionOnSet(f, S) = (CHOOSE g : SumsOver(g, f, S))[S]
BY Zenon DEF SumFunctionOnSet, FoldFunctionOnSet, MapThenFoldSet, SumsOver, Pick

LEMMA EquationAt ==
  ASSUME NEW f, NEW S, NEW g, SumsOver(g, f, S), NEW s \in SUBSET S
  PROVE  g[s] = IF s = {} THEN 0 ELSE f[Pick(s)] + g[s \ {Pick(s)}]
BY Zenon DEF SumsOver

\* Induction over the subsets of a finite set: among those that fail there is one
\* none of whose proper subsets does.
LEMMA SmallestFailure ==
  ASSUME NEW S, IsFiniteSet(S), NEW B \in SUBSET (SUBSET S), B # {}
  PROVE  \E T \in B : \A U \in SUBSET T : U # T => U \notin B
<1>1. IsWellFoundedOn(StrictSubsetOrdering(S), SUBSET S)
  BY FS_StrictSubsetOrderingWellFounded, FS_FiniteSubsetsOfFinite
<1>2. PICK T \in B : \A U \in B : ~ (<<U, T>> \in StrictSubsetOrdering(S))
  BY <1>1, WFMin
<1>3. ASSUME NEW U \in SUBSET T, U # T, U \in B PROVE FALSE
  BY <1>2, <1>3 DEF StrictSubsetOrdering
<1> QED BY <1>2, <1>3

LEMMA SumsUnique ==
  ASSUME NEW S, IsFiniteSet(S), NEW f, NEW T \in SUBSET S, NEW U \in SUBSET S,
         NEW g, NEW h, SumsOver(g, f, T), SumsOver(h, f, U),
         NEW s, s \subseteq T, s \subseteq U
  PROVE  g[s] = h[s]
<1> DEFINE B == {r \in SUBSET S : r \subseteq T /\ r \subseteq U /\ g[r] # h[r]}
<1> SUFFICES ASSUME B # {} PROVE FALSE
  OBVIOUS
<1>1. PICK r \in B : \A q \in SUBSET r : q # r => q \notin B
  BY SmallestFailure
<1> HIDE DEF B
<1>2. r \subseteq S /\ r \subseteq T /\ r \subseteq U /\ g[r] # h[r]
  BY <1>1 DEF B
<1>3. /\ g[r] = IF r = {} THEN 0 ELSE f[Pick(r)] + g[r \ {Pick(r)}]
      /\ h[r] = IF r = {} THEN 0 ELSE f[Pick(r)] + h[r \ {Pick(r)}]
  BY <1>2, EquationAt
<1>4. r # {}
  BY <1>2, <1>3
<1>5. r \ {Pick(r)} \notin B
  BY <1>1, <1>4, PickIsElement
<1>6. g[r \ {Pick(r)}] = h[r \ {Pick(r)}]
  BY <1>2, <1>5 DEF B
<1> QED BY <1>2, <1>3, <1>6

LEMMA SumsExist ==
  ASSUME NEW S, IsFiniteSet(S), NEW f
  PROVE  \E g : SumsOver(g, f, S)
<1> DEFINE B == {T \in SUBSET S : ~ \E g : SumsOver(g, f, T)}
           G(s) == CHOOSE g : SumsOver(g, f, s)
<1> SUFFICES ASSUME B # {} PROVE FALSE
  OBVIOUS
<1>1. PICK T \in B : \A U \in SUBSET T : U # T => U \notin B
  <2>1. B \in SUBSET (SUBSET S)
    OBVIOUS
  <2> HIDE DEF B
  <2> QED BY <2>1, SmallestFailure
<1>2. ASSUME NEW s \in SUBSET T, s # T PROVE SumsOver(G(s), f, s)
  BY <1>1, <1>2
<1> DEFINE h == [s \in SUBSET T |->
                   IF s = {} THEN 0 ELSE f[Pick(s)] + G(s \ {Pick(s)})[s \ {Pick(s)}]]
<1>3. ASSUME NEW s \in SUBSET T, s # T PROVE h[s] = G(s)[s]
  <2>1. h[s] = IF s = {} THEN 0 ELSE f[Pick(s)] + G(s \ {Pick(s)})[s \ {Pick(s)}]
    OBVIOUS
  <2>2. G(s)[s] = IF s = {} THEN 0 ELSE f[Pick(s)] + G(s)[s \ {Pick(s)}]
    BY <1>2, <1>3, EquationAt
  <2>3. CASE s = {}
    BY <2>1, <2>2, <2>3
  <2>4. CASE s # {}
    <3>1. s \ {Pick(s)} \in SUBSET T /\ s \ {Pick(s)} # T
      BY <1>3
    <3>2. SumsOver(G(s \ {Pick(s)}), f, s \ {Pick(s)}) /\ SumsOver(G(s), f, s)
      BY <1>2, <1>3, <3>1
    <3> HIDE DEF G
    <3>3. G(s)[s \ {Pick(s)}] = G(s \ {Pick(s)})[s \ {Pick(s)}]
      BY <3>2, SumsUnique
    <3> QED BY <2>1, <2>2, <3>3
  <2> QED BY <2>3, <2>4
<1>4. SumsOver(h, f, T)
  <2>1. ASSUME NEW s \in SUBSET T, s # {}
        PROVE  h[s \ {Pick(s)}] = G(s \ {Pick(s)})[s \ {Pick(s)}]
    <3>1. s \ {Pick(s)} \in SUBSET T /\ s \ {Pick(s)} # T
      BY <2>1, PickIsElement
    <3> QED BY <1>3, <3>1
  <2>2. /\ DOMAIN h = SUBSET T /\ h = [s \in DOMAIN h |-> h[s]]
        /\ \A s \in SUBSET T :
             h[s] = IF s = {} THEN 0 ELSE f[Pick(s)] + G(s \ {Pick(s)})[s \ {Pick(s)}]
    OBVIOUS
  <2> HIDE DEF h, G
  <2> QED BY <2>1, <2>2 DEF SumsOver
<1> QED BY <1>1, <1>4

\* A sum of natural numbers is one, and grows with each of its terms.
LEMMA SumOfIncrement ==
  ASSUME NEW S, IsFiniteSet(S), NEW f \in [S -> Nat], NEW x \in S
  PROVE  /\ SumFunction(f) \in Nat
         /\ SumFunction([f EXCEPT ![x] = @ + 1]) = SumFunction(f) + 1
<1> DEFINE e == [f EXCEPT ![x] = @ + 1]
           G == CHOOSE g : SumsOver(g, f, S)
           H == CHOOSE h : SumsOver(h, e, S)
           Right(s) == G[s] \in Nat /\ H[s] = G[s] + (IF x \in s THEN 1 ELSE 0)
           B == {s \in SUBSET S : ~Right(s)}
<1>1. SumsOver(G, f, S) /\ SumsOver(H, e, S)
  BY SumsExist
<1>2. e \in [S -> Nat] /\ \A y \in S : e[y] = f[y] + (IF x = y THEN 1 ELSE 0)
  OBVIOUS
<1>3. SumFunction(f) = G[S] /\ SumFunction(e) = H[S]
  BY SumIsFold DEF SumFunction
<1> HIDE DEF e, G, H
<1>4. ASSUME B # {} PROVE FALSE
  <2>1. PICK r \in B : \A q \in SUBSET r : q # r => q \notin B
    <3>1. B \in SUBSET (SUBSET S)
      OBVIOUS
    <3> HIDE DEF B
    <3> QED BY <1>4, <3>1, SmallestFailure
  <2>2. /\ G[r] = IF r = {} THEN 0 ELSE f[Pick(r)] + G[r \ {Pick(r)}]
        /\ H[r] = IF r = {} THEN 0 ELSE e[Pick(r)] + H[r \ {Pick(r)}]
    BY <1>1, <2>1, EquationAt
  <2>3. r # {}
    BY <2>1, <2>2
  <2>4. Pick(r) \in r /\ Pick(r) \in S
    BY <2>1, <2>3, PickIsElement
  <2>5. Right(r \ {Pick(r)})
    BY <2>1, <2>4
  <2>6. f[Pick(r)] \in Nat /\ e[Pick(r)] = f[Pick(r)] + (IF x = Pick(r) THEN 1 ELSE 0)
    BY <1>2, <2>4
  <2>7. Right(r)
    BY <2>2, <2>3, <2>4, <2>5, <2>6
  <2> QED BY <2>1, <2>7
<1>5. Right(S)
  BY <1>4
<1> QED BY <1>3, <1>5 DEF e

\* A sum of zeros is zero.
LEMMA SumOfZeros ==
  ASSUME NEW S, IsFiniteSet(S)
  PROVE  SumFunction([x \in S |-> 0]) = 0
<1> DEFINE f == [x \in S |-> 0]
           G == CHOOSE g : SumsOver(g, f, S)
           B == {s \in SUBSET S : G[s] # 0}
<1>1. SumsOver(G, f, S)
  BY SumsExist
<1>2. SumFunction(f) = G[S]
  BY SumIsFold DEF SumFunction
<1>3. \A y \in S : f[y] = 0
  OBVIOUS
<1> HIDE DEF f, G
<1>4. ASSUME B # {} PROVE FALSE
  <2>1. PICK r \in B : \A q \in SUBSET r : q # r => q \notin B
    <3>1. B \in SUBSET (SUBSET S)
      OBVIOUS
    <3> HIDE DEF B
    <3> QED BY <1>4, <3>1, SmallestFailure
  <2>2. G[r] = IF r = {} THEN 0 ELSE f[Pick(r)] + G[r \ {Pick(r)}]
    BY <1>1, <2>1, EquationAt
  <2>3. r # {} /\ Pick(r) \in r /\ Pick(r) \in S
    BY <2>1, <2>2, PickIsElement
  <2>4. G[r \ {Pick(r)}] = 0
    BY <2>1, <2>3
  <2> QED BY <1>3, <2>1, <2>2, <2>3, <2>4
<1> QED BY <1>2, <1>4 DEF f

LEMMA SumOfTypes ==
  ASSUME NEW S, IsFiniteSet(S), NEW f \in [S -> Nat]
  PROVE  SumFunction(f) \in Nat
<1>1. CASE S = {}
  <2>1. f = [x \in S |-> 0]
    BY <1>1
  <2> QED BY <2>1, SumOfZeros
<1>2. CASE S # {}
  BY <1>2, SumOfIncrement
<1> QED BY <1>1, <1>2

(***************************************************************************)
(* Every access is accounted for, and every acc_bin-th one elects a        *)
(* flusher.  Both properties count the threads at certain control points.  *)
(***************************************************************************)
\* The vCPUs whose control point is in W.
Within(p, W) == {c \in Core : p[c] \in W}

AfterCount == InCallback \ {"count"}
ToFlush    == {"lock", "flush"}

LEMMA CoreIsFinite == IsFiniteSet(Core)
BY FS_Interval, CoresAssumption DEF Core

LEMMA CellIsFinite == IsFiniteSet(Cell)
<1> DEFINE Pairs == (Kind \X Core) \X (0 .. TotalMem - 1)
           f == [p \in Pairs |-> <<p[1][1], p[1][2], p[2]>>]
<1>1. IsFiniteSet(0 .. TotalMem - 1)
  <2>1. TotalMem - 1 \in Int
    BY BinAssumption
  <2> QED BY <2>1, FS_Interval
<1>2. IsFiniteSet(Kind)
  <2>1. Kind = {"kernel"} \cup {"user"}
    BY DEF Kind
  <2> QED BY <2>1, FS_Singleton, FS_Union
<1>3. IsFiniteSet(Pairs)
  BY <1>1, <1>2, CoreIsFinite, FS_Product
<1>4. f \in Surjection(Pairs, Cell)
  <2>1. f \in [Pairs -> Cell]
    BY DEF Cell
  <2>2. ASSUME NEW k \in Kind, NEW c \in Core, NEW b \in 0 .. TotalMem - 1
        PROVE  \E p \in Pairs : f[p] = <<k, c, b>>
    <3>1. <<<<k, c>>, b>> \in Pairs /\ f[<<<<k, c>>, b>>] = <<k, c, b>>
      OBVIOUS
    <3> QED BY <3>1
  <2> HIDE DEF Pairs, f
  <2>3. ASSUME NEW x \in Cell PROVE \E p \in Pairs : f[p] = x
    <3>1. PICK k \in Kind, c \in Core, b \in 0 .. TotalMem - 1 : x = <<k, c, b>>
      BY DEF Cell
    <3> QED BY <2>2, <3>1
  <2> QED BY <2>1, <2>3 DEF Surjection
<1> HIDE DEF Pairs, f
<1> QED BY <1>3, <1>4, FS_Surjection

\* One vCPU moves: it enters W, leaves it, or neither.
LEMMA OneMoves ==
  ASSUME ThreadTypes, NEW c \in Core, NEW to, pc' = [pc EXCEPT ![c] = to], NEW W
  PROVE  /\ Cardinality(Within(pc, W)) \in Nat
         /\ pc[c] \notin W /\ to \in W => Cardinality(Within(pc', W)) = Cardinality(Within(pc, W)) + 1
         /\ pc[c] \in W /\ to \notin W => Cardinality(Within(pc', W)) = Cardinality(Within(pc, W)) - 1
         /\ (pc[c] \in W <=> to \in W) => Cardinality(Within(pc', W)) = Cardinality(Within(pc, W))
<1>1. IsFiniteSet(Within(pc, W))
  BY CoreIsFinite, FS_Subset DEF Within
<1>2. Cardinality(Within(pc, W)) \in Nat
  BY <1>1, FS_CardinalityType
<1>3. c \in Within(pc, W) <=> pc[c] \in W
  BY DEF Within
<1>4. DOMAIN pc = Core
  BY DEF ThreadTypes
<1>5. /\ to \in W => Within(pc', W) = Within(pc, W) \cup {c}
      /\ to \notin W => Within(pc', W) = Within(pc, W) \ {c}
  BY <1>4 DEF Within
<1>6. /\ c \in Within(pc, W) => Within(pc, W) \cup {c} = Within(pc, W)
      /\ c \notin Within(pc, W) => Within(pc, W) \ {c} = Within(pc, W)
  OBVIOUS
<1>7. /\ c \notin Within(pc, W) => Cardinality(Within(pc, W) \cup {c}) = Cardinality(Within(pc, W)) + 1
      /\ c \in Within(pc, W) => Cardinality(Within(pc, W) \ {c}) = Cardinality(Within(pc, W)) - 1
  BY <1>1, FS_AddElement, FS_RemoveElement
<1> QED BY <1>2, <1>3, <1>5, <1>6, <1>7

Accounted ==
  acc_cnt = acc_io_cnt + lost + SumFunction(hits) + Cardinality(Within(pc, AfterCount))

BetweenStarts == acc_bin # 0 /\ \A c \in Core : pc[c] # "init"

Cadence ==
  BetweenStarts => flushes + Cardinality(Within(pc, ToFlush)) = acc_cnt \div acc_bin

LEMMA NextElection ==
  ASSUME NEW n \in Nat, acc_bin \in Nat \ {0}
  PROVE  (n + 1) \div acc_bin = n \div acc_bin + (IF Elected(n) THEN 1 ELSE 0)
BY DEF Elected

\* A step of a callback moves an access from one place to the next.
LEMMA AccountedCallback ==
  ASSUME ThreadTypes, CountTypes, Loaded, Accounted, Cadence, NEW c \in Core, Callback(c)
  PROVE  Accounted' /\ Cadence'
<1> DEFINE A == Cardinality(Within(pc, AfterCount))
           F == Cardinality(Within(pc, ToFlush))
<1>1. DOMAIN pc = Core
  BY DEF ThreadTypes
<1>2. /\ acc_cnt \in Nat /\ acc_io_cnt \in Nat /\ lost \in Nat /\ flushes \in Nat
      /\ SumFunction(hits) \in Nat
  BY CellIsFinite, SumOfTypes DEF CountTypes
<1>3. PICK to : pc' = [pc EXCEPT ![c] = to]
  BY Zenon DEF Callback, Count, LockFlush, FlushRow, FlushDone, CountIO, LockCell, LoadCell,
              StoreCell, Return, Goto
<1>4. /\ A \in Nat
      /\ pc[c] \notin AfterCount /\ to \in AfterCount => A' = A + 1
      /\ pc[c] \in AfterCount /\ to \notin AfterCount => A' = A - 1
      /\ (pc[c] \in AfterCount <=> to \in AfterCount) => A' = A
  BY <1>3, OneMoves
<1>5. /\ F \in Nat
      /\ pc[c] \notin ToFlush /\ to \in ToFlush => F' = F + 1
      /\ pc[c] \in ToFlush /\ to \notin ToFlush => F' = F - 1
      /\ (pc[c] \in ToFlush <=> to \in ToFlush) => F' = F
  BY <1>3, OneMoves
<1>6. to = pc'[c]
  BY <1>1, <1>3
<1>7. /\ acc_cnt = acc_io_cnt + lost + SumFunction(hits) + A
      /\ BetweenStarts => flushes + F = acc_cnt \div acc_bin
  BY DEF Accounted, Cadence
<1> HIDE DEF A, F
<1>14. acc_bin' = acc_bin /\ pc[c] # "init"
  BY DEF Callback, Count, LockFlush, FlushRow, FlushDone, CountIO, LockCell, LoadCell, StoreCell,
         Return, Goto, sizes
<1>15. BetweenStarts' => BetweenStarts
  BY <1>1, <1>3, <1>14 DEF BetweenStarts
<1>16. BetweenStarts => acc_bin \in Nat \ {0}
  BY BinAssumption DEF BetweenStarts, ThreadTypes
<1> SUFFICES /\ acc_cnt' = acc_io_cnt' + lost' + SumFunction(hits)' + A'
             /\ BetweenStarts => flushes' + F' = acc_cnt' \div acc_bin
  BY <1>14, <1>15 DEF Accounted, Cadence, A, F
<1> USE DEF Goto, ghosts
<1>8. CASE Count(c)
  <2>1. /\ pc[c] = "count" /\ to = (IF Elected(acc_cnt) THEN "lock" ELSE "bin")
        /\ acc_cnt' = acc_cnt + 1
        /\ UNCHANGED <<acc_io_cnt, lost, hits, flushes>>
    BY <1>1, <1>6, <1>8 DEF Count
  <2>2. A' = A + 1
    BY <1>4, <2>1 DEF AfterCount, InCallback
  <2>3. F' = F + (IF Elected(acc_cnt) THEN 1 ELSE 0)
    BY <1>5, <2>1 DEF ToFlush
  <2>4. BetweenStarts =>
          acc_cnt' \div acc_bin = acc_cnt \div acc_bin + (IF Elected(acc_cnt) THEN 1 ELSE 0)
    BY <1>2, <1>16, <2>1, NextElection
  <2>5. acc_cnt \div acc_bin \in Int \/ ~ BetweenStarts
    BY <1>2, <1>16
  <2> QED BY <1>2, <1>4, <1>5, <1>7, <2>1, <2>2, <2>3, <2>4, <2>5
<1>9. CASE LockFlush(c)
  <2>1. UNCHANGED <<acc_cnt, acc_io_cnt, hits>> /\ pc[c] = "lock"
    BY <1>9 DEF LockFlush, Return
  <2>2. CASE to = "flush" /\ UNCHANGED <<flushes, lost>>
    <3>1. A' = A /\ F' = F
      BY <1>4, <1>5, <2>1, <2>2 DEF AfterCount, ToFlush, InCallback
    <3> QED BY <1>7, <2>1, <2>2, <3>1
  <2>3. CASE to = "idle" /\ flushes' = flushes + 1 /\ lost' = lost + 1
    <3>1. A' = A - 1 /\ F' = F - 1
      BY <1>4, <1>5, <2>1, <2>3 DEF AfterCount, ToFlush, InCallback
    <3> QED BY <1>2, <1>4, <1>5, <1>7, <2>1, <2>3, <3>1
  <2> QED BY <1>1, <1>6, <1>9, <2>2, <2>3 DEF LockFlush, Return
<1>10. CASE FlushRow(c) \/ LockCell(c) \/ LoadCell(c)
  <2>1. /\ pc[c] \in {"flush", "bin", "load"}
        /\ to = (IF pc[c] = "flush" THEN "flush" ELSE IF pc[c] = "bin" THEN "load" ELSE "store")
        /\ UNCHANGED <<acc_cnt, acc_io_cnt, hits, lost, flushes>>
    BY <1>1, <1>6, <1>10 DEF FlushRow, LockCell, LoadCell
  <2>2. A' = A /\ F' = F
    BY <1>4, <1>5, <2>1 DEF AfterCount, ToFlush, InCallback
  <2> QED BY <1>7, <2>1, <2>2
<1>11. CASE FlushDone(c)
  <2>1. /\ pc[c] = "flush" /\ to = "bin" /\ flushes' = flushes + 1
        /\ UNCHANGED <<acc_cnt, acc_io_cnt, hits, lost>>
    BY <1>1, <1>6, <1>11 DEF FlushDone
  <2>2. A' = A /\ F' = F - 1
    BY <1>4, <1>5, <2>1 DEF AfterCount, ToFlush, InCallback
  <2> QED BY <1>2, <1>5, <1>7, <2>1, <2>2
<1>12. CASE CountIO(c)
  <2>1. /\ pc[c] = "bin" /\ to = "idle" /\ acc_io_cnt' = acc_io_cnt + 1
        /\ UNCHANGED <<acc_cnt, hits, lost, flushes>>
    BY <1>1, <1>6, <1>12 DEF CountIO, Return
  <2>2. A' = A - 1 /\ F' = F
    BY <1>4, <1>5, <2>1 DEF AfterCount, ToFlush, InCallback
  <2> QED BY <1>2, <1>4, <1>7, <2>1, <2>2
<1>13. CASE StoreCell(c)
  <2>1. /\ pc[c] = "store" /\ to = "idle" /\ fault = "none"
        /\ hits' = [hits EXCEPT ![CellOf(c)] = @ + 1]
        /\ UNCHANGED <<acc_cnt, acc_io_cnt, lost, flushes>>
    BY <1>1, <1>6, <1>13 DEF StoreCell, Return
  <2>2. CellOf(c) \in Cell
    BY <2>1 DEF Loaded
  <2>3. SumFunction(hits') = SumFunction(hits) + 1
    BY <2>1, <2>2, CellIsFinite, SumOfIncrement DEF CountTypes
  <2>4. A' = A - 1 /\ F' = F
    BY <1>4, <1>5, <2>1 DEF AfterCount, ToFlush, InCallback
  <2> QED BY <1>2, <1>4, <1>7, <2>1, <2>3, <2>4
<1> QED BY <1>8, <1>9, <1>10, <1>11, <1>12, <1>13 DEF Callback

\* A command moves no access, and a start finds none on its way.
LEMMA AccountedCommand ==
  ASSUME ThreadTypes, CountTypes, Quiet, Accounted, Cadence, NEW c \in Core,
         \/ \E k \in Kind \cup {"io"}, a \in PAddr : Access(c, k, a)
         \/ AnyStart(c) \/ mcount_start_finish(c)
         \/ mcount_stop(c) \/ LockReport(c) \/ CloseReport(c) \/ ResetPlugin(c)
  PROVE  Accounted' /\ Cadence'
<1> USE DEF Goto, ghosts
<1>1. ASSUME NEW to, pc' = [pc EXCEPT ![c] = to], pc[c] \notin InCallback,
             to \notin AfterCount \cup ToFlush,
             UNCHANGED <<acc_cnt, acc_io_cnt, hits, lost, flushes>>,
             to # "init" => pc[c] # "init" /\ acc_bin' = acc_bin
      PROVE  Accounted' /\ Cadence'
  <2>1. pc[c] \notin AfterCount \cup ToFlush
    BY <1>1 DEF AfterCount, ToFlush, InCallback
  <2>2. Cardinality(Within(pc', AfterCount)) = Cardinality(Within(pc, AfterCount))
    BY <1>1, <2>1, OneMoves
  <2>3. Cardinality(Within(pc', ToFlush)) = Cardinality(Within(pc, ToFlush))
    BY <1>1, <2>1, OneMoves
  <2>4. BetweenStarts' => BetweenStarts /\ acc_bin' = acc_bin
    BY <1>1 DEF BetweenStarts, ThreadTypes
  <2> QED BY <1>1, <2>2, <2>3, <2>4 DEF Accounted, Cadence
<1>2. ASSUME NEW k \in Kind \cup {"io"}, NEW a \in PAddr, Access(c, k, a)
      PROVE  Accounted' /\ Cadence'
  <2>1. /\ pc[c] = "idle" /\ pc' = [pc EXCEPT ![c] = "count"]
        /\ UNCHANGED <<acc_bin, acc_cnt, acc_io_cnt, hits, lost, flushes>>
    BY <1>2 DEF Access, sizes
  <2> QED BY <1>1, <2>1 DEF AfterCount, ToFlush, InCallback
<1>3. CASE AnyStart(c)
  <2>1. /\ pc[c] = "idle" /\ pc' = [pc EXCEPT ![c] = "init"]
        /\ UNCHANGED <<acc_cnt, acc_io_cnt, hits, lost, flushes>>
    BY <1>3 DEF AnyStart, mcount_start
  <2> QED BY <1>1, <2>1 DEF AfterCount, ToFlush, InCallback
<1>4. CASE mcount_start_finish(c)
  <2>1. pc[c] = "init" /\ pc' = [pc EXCEPT ![c] = "idle"]
    BY <1>4 DEF mcount_start_finish
  <2>2. acc_cnt' = 0 /\ acc_io_cnt' = 0 /\ hits' = Zero /\ flushes' = 0 /\ lost' = 0
    BY <1>4 DEF mcount_start_finish
  <2>3. \A d \in Core : pc[d] \notin InCallback
    BY <2>1 DEF Quiet
  <2>4. \A d \in Core : pc'[d] \notin InCallback
    BY <2>1, <2>3 DEF InCallback, ThreadTypes
  <2>5. Within(pc', AfterCount) = {} /\ Within(pc', ToFlush) = {}
    BY <2>4 DEF Within, AfterCount, ToFlush, InCallback
  <2>6. Cardinality(Within(pc', AfterCount)) = 0 /\ Cardinality(Within(pc', ToFlush)) = 0
    BY <2>5, FS_EmptySet
  <2>7. SumFunction(hits') = 0
    BY <2>2, CellIsFinite, SumOfZeros DEF Zero
  <2>8. acc_bin' # 0 => 0 \div acc_bin' = 0
    BY <1>4, BinAssumption DEF mcount_start_finish, ThreadTypes
  <2> QED BY <2>2, <2>6, <2>7, <2>8 DEF Accounted, Cadence, BetweenStarts
<1>5. CASE mcount_stop(c) \/ LockReport(c) \/ CloseReport(c)
  <2>1. PICK to \in {"fini", "close", "idle"} : pc' = [pc EXCEPT ![c] = to]
    BY <1>5 DEF mcount_stop, LockReport, CloseReport
  <2>2. /\ pc[c] \in {"idle", "fini", "close"}
        /\ UNCHANGED <<acc_bin, acc_cnt, acc_io_cnt, hits, lost, flushes>>
    BY <1>5 DEF mcount_stop, LockReport, CloseReport, sizes
  <2> QED BY <1>1, <2>1, <2>2 DEF AfterCount, ToFlush, InCallback
<1>6. CASE ResetPlugin(c)
  <2>1. UNCHANGED <<pc, acc_bin, acc_cnt, acc_io_cnt, hits, lost, flushes>>
    BY <1>6 DEF ResetPlugin, sizes
  <2> QED BY <2>1 DEF Accounted, Cadence, BetweenStarts, Within
<1> QED BY <1>2, <1>3, <1>4, <1>5, <1>6

LEMMA AccountedInductive ==
  ASSUME ThreadTypes, CountTypes, Quiet, Loaded, Accounted, Cadence, [Next]_vars
  PROVE  Accounted' /\ Cadence'
<1>1. CASE UNCHANGED vars
  <2>1. UNCHANGED <<pc, acc_bin, acc_cnt, acc_io_cnt, hits, lost, flushes>>
    BY <1>1 DEF vars, ghosts, sizes
  <2> QED BY <2>1 DEF Accounted, Cadence, BetweenStarts, Within
<1> QED BY <1>1, AccountedCallback, AccountedCommand, Zenon DEF Next, AnyStart, Aborted

LEMMA AccountedInit == Init => Accounted /\ Cadence
<1> SUFFICES ASSUME Init PROVE Accounted /\ Cadence
  OBVIOUS
<1>1. acc_cnt = 0 /\ acc_io_cnt = 0 /\ hits = Zero /\ flushes = 0 /\ lost = 0
  BY DEF Init
<1>2. Within(pc, AfterCount) = {} /\ Within(pc, ToFlush) = {}
  BY DEF Init, Within, AfterCount, ToFlush, InCallback
<1>3. Cardinality(Within(pc, AfterCount)) = 0 /\ Cardinality(Within(pc, ToFlush)) = 0
  BY <1>2, FS_EmptySet
<1>4. SumFunction(hits) = 0
  BY <1>1, CellIsFinite, SumOfZeros DEF Zero
<1>5. acc_bin = 0
  BY DEF Init
<1> QED BY <1>1, <1>3, <1>4, <1>5 DEF Accounted, Cadence, BetweenStarts

\* The acc_cnt and acc_io_cnt that hypercall_mcount_fini prints agree with what
\* the maps show, up to the accesses on their way and those given up, and every
\* acc_bin accesses are flushed once, under the same two conditions on the guest.
THEOREM McountAccountTheorem ==
  ASSUME ~ ConcurrentCommands, ~ RestartWhileRunning
  PROVE  Spec => [](EveryAccessCounted /\ FlushCadence)
<1> DEFINE I == /\ ThreadTypes /\ CountTypes /\ LockInv /\ OneCommand /\ Quiet /\ Loaded
                /\ NoCountLost /\ Accounted /\ Cadence
<1>1. Init => I
  BY TypesInit, LockInvInit, CountsInit, AccountedInit
<1>2. I /\ [Next]_vars => I'
  BY ThreadTypesInductive, CountTypesInductive, LockInvInductive, OneCommandInductive,
     QuietInductive, CountsInductive, AccountedInductive
<1>3. I => EveryAccessCounted /\ FlushCadence
  BY DEF Accounted, Cadence, BetweenStarts, EveryAccessCounted, FlushCadence, Within, AfterCount,
         ToFlush
<1> QED BY <1>1, <1>2, <1>3, PTL DEF Spec

(***************************************************************************)
(* The length of the rows and mem_bin, which a start changes in two steps: *)
(* they agree whenever callbacks are registered, if no start finds a       *)
(* session running and no other command comes in between.                  *)
(***************************************************************************)
RowsMatch ==
  /\ registered => mem_bin \in MemBins /\ size = resize(mem_bin)
  /\ \A c \in Core : pc[c] = "init" => arg[c] = mem_bin

LEMMA RowsMatchInductive ==
  ASSUME ~ ConcurrentCommands, ~ RestartWhileRunning,
         ThreadTypes, OneCommand, RowsMatch, [Next]_vars
  PROVE  RowsMatch'
<1> USE DEF RowsMatch, Goto, sizes
<1>1. /\ pc \in [Core -> InCallback \cup InCommand \cup {"idle"}]
      /\ arg \in [Core -> MemBins \cup {0}]
  BY DEF ThreadTypes
<1>2. CASE UNCHANGED vars
  BY <1>2 DEF vars
<1>3. ASSUME NEW c \in Core, NEW to, to # "init", pc' = [pc EXCEPT ![c] = to],
             UNCHANGED <<registered, sizes>>
      PROVE  RowsMatch'
  BY <1>1, <1>3 DEF resize
<1>4. ASSUME NEW c \in Core, NEW k \in Kind \cup {"io"}, NEW a \in PAddr, Access(c, k, a)
      PROVE  RowsMatch'
  BY <1>3, <1>4 DEF Access
<1>5. ASSUME NEW c \in Core, Count(c) \/ LockFlush(c) \/ FlushRow(c) \/ FlushDone(c)
      PROVE  RowsMatch'
  BY <1>3, <1>5 DEF Count, LockFlush, FlushRow, FlushDone, Return
<1>6. ASSUME NEW c \in Core, CountIO(c) \/ LockCell(c) \/ LoadCell(c) \/ StoreCell(c)
      PROVE  RowsMatch'
  BY <1>3, <1>6 DEF CountIO, LockCell, LoadCell, StoreCell, Return
<1>7. ASSUME NEW c \in Core, AnyStart(c) PROVE RowsMatch'
  <2>1. PICK m \in MemBins, a \in AccBins : mcount_start(c, m, a)
    BY <1>7 DEF AnyStart
  <2>2. /\ ~ registered /\ registered' = registered
        /\ pc' = [pc EXCEPT ![c] = "init"] /\ arg' = [arg EXCEPT ![c] = m] /\ mem_bin' = m
    BY <2>1 DEF mcount_start
  <2>3. \A d \in Core : pc[d] # "init"
    BY <2>1 DEF mcount_start, Command, InCommand
  <2> QED BY <1>1, <2>2, <2>3
<1>8. ASSUME NEW c \in Core, mcount_start_finish(c) PROVE RowsMatch'
  <2>1. arg[c] = mem_bin /\ arg[c] \in MemBins
    BY <1>1, <1>8 DEF mcount_start_finish, ThreadTypes, SizesSet
  <2>2. \A d \in Core : pc[d] = "init" => d = c
    BY <1>8 DEF mcount_start_finish, OneCommand, InCommand
  <2>3. /\ pc' = [pc EXCEPT ![c] = "idle"] /\ mem_bin' = mem_bin
        /\ size' = resize(arg[c]) /\ arg' = [arg EXCEPT ![c] = 0]
    BY <1>8 DEF mcount_start_finish
  <2> QED BY <1>1, <2>1, <2>2, <2>3 DEF resize
<1>9. ASSUME NEW c \in Core, mcount_stop(c) \/ LockReport(c) \/ CloseReport(c) PROVE RowsMatch'
  BY <1>3, <1>9 DEF mcount_stop, LockReport, CloseReport
<1>10. ASSUME NEW c \in Core, ResetPlugin(c) PROVE RowsMatch'
  BY <1>10 DEF ResetPlugin
<1> HIDE DEF RowsMatch
<1> QED BY <1>2, <1>4, <1>5, <1>6, <1>7, <1>8, <1>9, <1>10, Zenon
        DEF Next, Callback, AnyStart, Aborted

LEMMA BeyondQuotient ==
  ASSUME NEW p \in Nat, NEW m \in Nat \ {0}, NEW q \in Nat, p \div m >= q
  PROVE  p >= m * q
<1>1. p = m * (p \div m) + (p % m) /\ p % m >= 0 /\ p \div m \in Nat
  OBVIOUS
<1>2. m * (p \div m) >= m * q
  BY <1>1
<1> QED BY <1>1, <1>2

\* Only LoadCell looks for a counter, and it has the rows of the session.
LEMMA IndexInductive ==
  ASSUME ThreadTypes, Quiet, RowsMatch, IndexInBounds, [Next]_vars
  PROVE  IndexInBounds'
<1>1. CASE UNCHANGED vars
  BY <1>1 DEF vars, access, sizes, IndexInBounds
<1>2. CASE fault' # "bounds"
  BY <1>2 DEF IndexInBounds
<1>3. ASSUME NEW c \in Core, LoadCell(c), fault' = "bounds" PROVE IndexInBounds'
  <2>1. /\ pc[c] = "load" /\ pc' = [pc EXCEPT ![c] = "store"]
        /\ BinOf(c) >= size /\ UNCHANGED <<paddr, sizes>>
    BY <1>3 DEF LoadCell, Goto
  <2>2. mem_bin \in MemBins /\ size = TotalMem \div mem_bin
    BY <2>1 DEF Quiet, RowsMatch, resize, InCallback
  <2>3. /\ paddr[c] \in Nat /\ mem_bin \in Nat \ {0} /\ TotalMem \in Nat
    BY <2>2, BinAssumption DEF ThreadTypes, PAddr
  <2>4. TotalMem \div mem_bin \in Nat
    BY <2>3, QuotientAtMost
  <2>5. paddr[c] >= mem_bin * (TotalMem \div mem_bin)
    BY <2>1, <2>2, <2>3, <2>4, BeyondQuotient DEF BinOf
  <2>6. pc'[c] = "store"
    BY <2>1 DEF ThreadTypes
  <2> QED BY <2>1, <2>5, <2>6 DEF IndexInBounds, sizes
<1>4. ASSUME NEW c \in Core,
             \/ \E k \in Kind \cup {"io"}, a \in PAddr : Access(c, k, a)
             \/ Count(c) \/ LockFlush(c) \/ FlushRow(c) \/ FlushDone(c)
             \/ CountIO(c) \/ LockCell(c) \/ StoreCell(c)
      PROVE  fault' # "bounds"
  BY <1>4 DEF Access, Count, LockFlush, FlushRow, FlushDone, CountIO, LockCell, StoreCell,
              Return, Goto
<1>5. ASSUME NEW c \in Core,
             \/ AnyStart(c) \/ mcount_start_finish(c) \/ mcount_stop(c)
             \/ LockReport(c) \/ CloseReport(c) \/ ResetPlugin(c)
      PROVE  fault' # "bounds"
  BY <1>5 DEF AnyStart, mcount_start, mcount_start_finish, mcount_stop, LockReport, CloseReport,
              ResetPlugin, Goto
<1> QED BY <1>1, <1>2, <1>3, <1>4, <1>5, Zenon DEF Next, Callback, AnyStart, Aborted

\* Whatever sizes the sessions ask for, the counter of an access lies in its
\* row unless its address lies beyond the last whole bin, as long as commands
\* come one at a time and a start finds no session running.
THEOREM McountBoundsTheorem ==
  ASSUME ~ ConcurrentCommands, ~ RestartWhileRunning
  PROVE  Spec => []IndexInBounds
<1> DEFINE I == ThreadTypes /\ CountTypes /\ OneCommand /\ Quiet /\ RowsMatch /\ IndexInBounds
<1>1. Init => I
  BY TypesInit, CountsInit DEF Init, RowsMatch, IndexInBounds, InCommand
<1>2. I /\ [Next]_vars => I'
  BY ThreadTypesInductive, CountTypesInductive, OneCommandInductive, QuietInductive,
     RowsMatchInductive, IndexInductive
<1>3. I => IndexInBounds
  OBVIOUS
<1> QED BY <1>1, <1>2, <1>3, PTL DEF Spec
=============================================================================
