----------------------- MODULE McountRefinement_proofs -----------------------
(* The memory access histogram implements Histogram, for every number of    *)
(* vCPUs and all sizes of bins, with commands that come one at a time.                *)
EXTENDS McountRefinement, Mcount_proofs

(***************************************************************************)
(* Two more facts about the plugin: a start under way has its report, and  *)
(* a flush leaves nothing behind in the rows it has printed.               *)
(***************************************************************************)
StartHasReport ==
  fault = "none" => \A c \in Core : pc[c] = "init" => report = "open"

RowsPrinted ==
  \A c \in Core : pc[c] = "flush" =>
    \A n \in 0 .. pos - 1, x \in Cell : InRow(x, n) => maps[x] = 0

LEMMA EveryCellInARow == \A x \in Cell : \E n \in 0 .. 2 * ncores - 1 : InRow(x, n)
<1> SUFFICES ASSUME NEW k \in Kind, NEW d \in Core, NEW b \in 0 .. TotalMem - 1
             PROVE  \E n \in 0 .. 2 * ncores - 1 : InRow(<<k, d, b>>, n)
  BY DEF Cell
<1>1. d \in 0 .. ncores - 1 /\ ncores \in Nat
  BY CoresAssumption DEF Core
<1>2. CASE k = "kernel"
  BY <1>1, <1>2 DEF InRow
<1>3. CASE k = "user"
  <2>1. PICK n \in 0 .. 2 * ncores - 1 : ~(n < ncores) /\ n - ncores = d
    <3>1. \A e \in 0 .. ncores - 1 : \E n \in 0 .. 2 * ncores - 1 : n = e + ncores
      BY <1>1
    <3>2. PICK n \in 0 .. 2 * ncores - 1 : n = d + ncores
      BY <1>1, <3>1
    <3>3. ~(n < ncores) /\ n - ncores = d
      BY <1>1, <3>2
    <3> QED BY <3>3
  <2>2. InRow(<<k, d, b>>, n)
    BY <1>3, <2>1 DEF InRow
  <2> QED BY <2>2
<1> QED BY <1>2, <1>3 DEF Kind

LEMMA StartHasReportInductive ==
  ASSUME ThreadTypes, OneCommand, StartHasReport, [Next]_vars
  PROVE  StartHasReport'
<1> USE DEF StartHasReport, Goto
<1>1. pc \in [Core -> InCallback \cup InCommand \cup {"idle"}]
  BY DEF ThreadTypes
<1>2. CASE UNCHANGED vars
  BY <1>2 DEF vars
<1>3. ASSUME NEW c \in Core, NEW k \in Kind \cup {"io"}, NEW a \in PAddr, Access(c, k, a)
      PROVE  StartHasReport'
  BY <1>1, <1>3 DEF Access
<1>4. ASSUME NEW c \in Core, Callback(c) PROVE StartHasReport'
  BY <1>1, <1>4 DEF Callback, Count, LockFlush, FlushRow, FlushDone, CountIO, Return, LockCell,
     LoadCell, StoreCell
<1>5. ASSUME NEW c \in Core, AnyStart(c) \/ mcount_start_finish(c) PROVE StartHasReport'
  BY <1>1, <1>5 DEF AnyStart, mcount_start, mcount_start_finish
<1>6. ASSUME NEW c \in Core, mcount_stop(c) \/ LockReport(c) PROVE StartHasReport'
  BY <1>1, <1>6 DEF mcount_stop, LockReport
<1>7. ASSUME NEW c \in Core, CloseReport(c) PROVE StartHasReport'
  BY <1>1, <1>7 DEF CloseReport, OneCommand, InCommand
<1>8. ASSUME NEW c \in Core, ResetPlugin(c) PROVE StartHasReport'
  BY <1>8 DEF ResetPlugin
<1> HIDE DEF StartHasReport
<1> QED BY <1>2, <1>3, <1>4, <1>5, <1>6, <1>7, <1>8, Zenon DEF Next, AnyStart, Aborted

LEMMA RowsPrintedInductive ==
  ASSUME ThreadTypes, CountTypes, LockInv, Quiet, Loaded, RowsPrinted, [Next]_vars
  PROVE  RowsPrinted'
<1> USE DEF RowsPrinted, Goto
<1>1. pc \in [Core -> InCallback \cup InCommand \cup {"idle"}] /\ pos \in Nat
  BY CoresAssumption DEF ThreadTypes
<1>2. CASE UNCHANGED vars
  BY <1>2 DEF vars
<1>3. ASSUME NEW c \in Core, NEW k \in Kind \cup {"io"}, NEW a \in PAddr, Access(c, k, a)
      PROVE  RowsPrinted'
  BY <1>1, <1>3 DEF Access
<1>4. ASSUME NEW c \in Core, Count(c) \/ CountIO(c) \/ LockCell(c) \/ LoadCell(c)
      PROVE  RowsPrinted'
  BY <1>1, <1>4 DEF Count, CountIO, Return, LockCell, LoadCell
<1>5. ASSUME NEW c \in Core, LockFlush(c) PROVE RowsPrinted'
  <2>1. \A d \in Core : pc[d] # "flush"
    BY <1>5, CoresAssumption DEF LockFlush, LockInv, Core
  <2> QED BY <1>1, <1>5, <2>1 DEF LockFlush, Return
<1>6. ASSUME NEW c \in Core, FlushRow(c) PROVE RowsPrinted'
  <2>1. /\ pc[c] = "flush" /\ pos' = pos + 1
        /\ maps' = [x \in Cell |-> IF InRow(x, pos) THEN 0 ELSE maps[x]]
    BY <1>6 DEF FlushRow
  <2>2. \A n \in 0 .. pos' - 1 : n = pos \/ n \in 0 .. pos - 1
    BY <1>1, <2>1
  <2>3. \A n \in 0 .. pos - 1, x \in Cell : InRow(x, n) => maps[x] = 0
    BY <2>1
  <2> QED BY <2>1, <2>2, <2>3 DEF InRow
<1>7. ASSUME NEW c \in Core, FlushDone(c) PROVE RowsPrinted'
  BY <1>1, <1>7 DEF FlushDone
<1>8. ASSUME NEW c \in Core, StoreCell(c) PROVE RowsPrinted'
  <2>1. \A d \in Core : pc[d] # "flush"
    BY <1>8, FlushExcludes DEF StoreCell, Return
  <2> QED BY <1>1, <1>8, <2>1 DEF StoreCell, Return
<1>9. ASSUME NEW c \in Core, AnyStart(c) \/ mcount_stop(c) \/ LockReport(c) \/ CloseReport(c)
      PROVE  RowsPrinted'
  BY <1>1, <1>9 DEF AnyStart, mcount_start, mcount_stop, LockReport, CloseReport
<1>10. ASSUME NEW c \in Core, mcount_start_finish(c) PROVE RowsPrinted'
  BY <1>1, <1>10 DEF mcount_start_finish, Zero
<1>11. ASSUME NEW c \in Core, ResetPlugin(c) PROVE RowsPrinted'
  BY <1>11 DEF ResetPlugin
<1> HIDE DEF RowsPrinted
<1> QED BY <1>2, <1>3, <1>4, <1>5, <1>6, <1>7, <1>8, <1>9, <1>10, <1>11, Zenon
        DEF Next, Callback, AnyStart, Aborted

(***************************************************************************)
(* Every step of the plugin is one of the histogram, or none.              *)
(***************************************************************************)
LEMMA Unseen ==
  ASSUME UNCHANGED <<report, reported, maps, hits>>,
         \A d \in Core : /\ pc'[d] = "flush" <=> pc[d] = "flush"
                         /\ pc'[d] = "init" <=> pc[d] = "init"
  PROVE  UNCHANGED H!vars
<1>1. UNCHANGED <<open, printed>>
  BY DEF open, printed, Flushing
<1> QED BY <1>1 DEF H!vars

\* The flush under way is c's, which holds flush_mtx.
LEMMA OneFlush ==
  ASSUME LockInv, NEW c \in Core, pc[c] = "flush", NEW d \in Core, pc[d] = "flush"
  PROVE  d = c
BY DEF LockInv

LEMMA CallbackRefines ==
  ASSUME ThreadTypes, CountTypes, LockInv, ReportInv, Quiet, Loaded, NoCountLost, RowsPrinted,
         NEW c \in Core, Callback(c)
  PROVE  UNCHANGED H!vars \/ H!Report \/ \E x \in Cell : H!Count(x)
<1> USE DEF Goto
<1>1. /\ pc \in [Core -> InCallback \cup InCommand \cup {"idle"}]
      /\ maps \in [Cell -> Nat] /\ hits \in [Cell -> Nat] /\ reported \in [Cell -> Nat]
  BY DEF ThreadTypes, CountTypes
<1>2. fault = "none" /\ pc[c] \in InCallback
  BY DEF Callback, Count, LockFlush, FlushRow, FlushDone, CountIO, Return, LockCell, LoadCell, StoreCell,
     InCallback
<1>3. CASE Count(c) \/ CountIO(c) \/ LockCell(c) \/ LoadCell(c)
  BY <1>1, <1>3, Unseen DEF Count, CountIO, Return, LockCell, LoadCell, ghosts
<1>4. CASE LockFlush(c)
  <2>1. pc[c] = "lock" /\ UNCHANGED <<report, reported, maps, hits>>
    BY <1>4 DEF LockFlush, Return
  <2>2. CASE mode = "MCOUNT_OFF"
    <3>1. pc' = [pc EXCEPT ![c] = "idle"]
      BY <1>4, <2>2 DEF LockFlush, Return
    <3> QED BY <1>1, <2>1, <3>1, Unseen
  <2>3. CASE mode # "MCOUNT_OFF"
    <3>1. mode = "MCOUNT_ON" /\ pc' = [pc EXCEPT ![c] = "flush"]
      BY <1>4, <2>3 DEF LockFlush
    <3>2. \A d \in Core : pc[d] # "init"
      BY <1>2 DEF Quiet
    <3>3. report = "open"
      BY <1>2, <3>1 DEF ReportInv, ReportOpen
    <3>4. open /\ open'
      BY <1>1, <2>1, <3>1, <3>2, <3>3 DEF open
    <3>5. Flushing'
      BY <1>1, <3>1 DEF Flushing
    <3>6. printed' = [x \in Cell |-> reported[x] + maps[x]]
      BY <2>1, <3>5 DEF printed
    <3>7. printed' = hits
      BY <1>1, <3>6 DEF NoCountLost
    <3> QED BY <2>1, <3>4, <3>7 DEF H!Report
  <2> QED BY <2>2, <2>3
<1>5. CASE FlushRow(c)
  <2>1. /\ pc[c] = "flush" /\ pc' = [pc EXCEPT ![c] = "flush"] /\ UNCHANGED <<report, hits>>
        /\ reported' = [x \in Cell |-> IF InRow(x, pos) THEN reported[x] + maps[x]
                                                        ELSE reported[x]]
        /\ maps' = [x \in Cell |-> IF InRow(x, pos) THEN 0 ELSE maps[x]]
    BY <1>5 DEF FlushRow
  <2>2. pc' = pc /\ Flushing /\ Flushing'
    BY <1>1, <2>1 DEF Flushing
  <2>3. \A x \in Cell : reported'[x] + maps'[x] = reported[x] + maps[x]
    BY <1>1, <2>1
  <2>4. printed' = printed
    BY <2>2, <2>3 DEF printed
  <2>5. open' = open
    BY <2>1, <2>2 DEF open
  <2> QED BY <2>1, <2>4, <2>5 DEF H!vars
<1>6. CASE FlushDone(c)
  <2>1. /\ pc[c] = "flush" /\ pc' = [pc EXCEPT ![c] = "bin"] /\ pos = 2 * ncores
        /\ UNCHANGED <<report, hits, reported, maps>>
    BY <1>6 DEF FlushDone
  <2>2. Flushing /\ ~Flushing'
    BY <1>1, <2>1, OneFlush DEF Flushing
  <2>3. \A x \in Cell : maps[x] = 0
    BY <2>1, EveryCellInARow DEF RowsPrinted
  <2>4. printed' = printed
    <3>1. printed = [x \in Cell |-> reported[x] + maps[x]] /\ printed' = reported
      BY <2>1, <2>2 DEF printed
    <3> QED BY <1>1, <2>3, <3>1
  <2>5. open' = open
    BY <1>1, <2>1 DEF open
  <2> QED BY <2>1, <2>4, <2>5 DEF H!vars
<1>7. CASE StoreCell(c)
  <2>1. /\ pc[c] = "store" /\ pc' = [pc EXCEPT ![c] = "idle"] /\ UNCHANGED <<report, reported>>
        /\ hits' = [hits EXCEPT ![CellOf(c)] = @ + 1]
    BY <1>7 DEF StoreCell, Return
  <2>2. CellOf(c) \in Cell
    BY <1>2, <2>1 DEF Loaded
  <2>3. ~Flushing /\ ~Flushing'
    BY <1>1, <2>1, FlushExcludes DEF Flushing
  <2>4. UNCHANGED <<open, printed>>
    BY <1>1, <2>1, <2>3 DEF open, printed
  <2> QED BY <2>1, <2>2, <2>4 DEF H!Count
<1> QED BY <1>3, <1>4, <1>5, <1>6, <1>7 DEF Callback

LEMMA CommandRefines ==
  ASSUME ThreadTypes, CountTypes, ReportInv, Quiet, StartHasReport, ~RestartWhileRunning,
         NEW c \in Core,
         \/ AnyStart(c) \/ mcount_start_finish(c)
         \/ mcount_stop(c) \/ LockReport(c) \/ CloseReport(c)
  PROVE  UNCHANGED H!vars \/ H!Open \/ H!Close
<1> USE DEF Goto
<1>1. pc \in [Core -> InCallback \cup InCommand \cup {"idle"}]
  BY DEF ThreadTypes
<1>2. OneCommand
  BY DEF ReportInv
<1>3. CASE AnyStart(c)
  <2>1. ~registered /\ pc' = [pc EXCEPT ![c] = "init"] /\ UNCHANGED <<maps, hits, reported>>
    BY <1>3 DEF AnyStart, mcount_start, ghosts
  <2>2. ~Flushing /\ ~Flushing'
    BY <1>1, <2>1 DEF Quiet, Flushing, InCallback
  <2>3. ~open'
    BY <1>1, <2>1 DEF open
  <2>4. printed' = printed
    BY <2>1, <2>2 DEF printed
  <2> QED BY <2>1, <2>3, <2>4 DEF H!Close, H!vars, open
<1>4. CASE mcount_start_finish(c)
  <2>1. /\ pc[c] = "init" /\ pc' = [pc EXCEPT ![c] = "idle"] /\ report' = report
        /\ hits' = Zero /\ reported' = Zero /\ fault = "none"
    BY <1>4 DEF mcount_start_finish
  <2>2. ~Flushing'
    BY <1>1, <2>1 DEF Quiet, Flushing, InCallback
  <2>3. ~open
    BY <2>1 DEF open
  <2>4. open'
    BY <1>1, <1>2, <2>1 DEF open, StartHasReport, OneCommand, InCommand
  <2>5. printed' = Zero
    BY <2>1, <2>2 DEF printed
  <2> QED BY <2>1, <2>3, <2>4, <2>5 DEF H!Open, H!Zero, Zero
<1>5. CASE mcount_stop(c) \/ LockReport(c)
  BY <1>1, <1>5, Unseen DEF mcount_stop, LockReport, Command, ghosts
<1>6. CASE CloseReport(c)
  <2>1. /\ pc[c] = "close" /\ pc' = [pc EXCEPT ![c] = "idle"] /\ fault = "none"
        /\ report' = "null" /\ UNCHANGED <<maps, hits, reported>>
    BY <1>6 DEF CloseReport, ghosts
  <2>2. open /\ ~open'
    BY <1>1, <1>2, <2>1 DEF open, ReportInv, ReportOpen, OneCommand, InCommand
  <2>3. printed' = printed
    BY <1>1, <2>1 DEF printed, Flushing
  <2> QED BY <2>1, <2>2, <2>3 DEF H!Close
<1> QED BY <1>3, <1>4, <1>5, <1>6

HistogramInv ==
  /\ ThreadTypes /\ CountTypes /\ LockInv /\ ReportInv /\ Quiet /\ Loaded /\ NoCountLost
  /\ StartHasReport /\ RowsPrinted

LEMMA StepRefines ==
  ASSUME ~ConcurrentCommands, ~RestartWhileRunning, HistogramInv, [Next]_vars
  PROVE  [H!Next]_(H!vars)
<1> USE DEF HistogramInv
<1>1. CASE UNCHANGED vars
  BY <1>1, Unseen DEF vars, ghosts
<1>2. ASSUME NEW c \in Core, NEW k \in Kind \cup {"io"}, NEW a \in PAddr, Access(c, k, a)
      PROVE  [H!Next]_(H!vars)
  BY <1>2, Unseen DEF Access, Goto, ghosts, ThreadTypes
<1>3. ASSUME NEW c \in Core, Callback(c) PROVE [H!Next]_(H!vars)
  BY <1>3, CallbackRefines DEF H!Next
<1>4. ASSUME NEW c \in Core,
             \/ AnyStart(c) \/ mcount_start_finish(c)
             \/ mcount_stop(c) \/ LockReport(c) \/ CloseReport(c)
      PROVE  [H!Next]_(H!vars)
  BY <1>4, CommandRefines DEF H!Next
<1>5. ASSUME NEW c \in Core, ResetPlugin(c) PROVE [H!Next]_(H!vars)
  BY <1>5, Unseen DEF ResetPlugin, ghosts
<1> HIDE DEF HistogramInv
<1> QED BY <1>1, <1>2, <1>3, <1>4, <1>5, Zenon DEF Next, AnyStart, Aborted

\* With one command at a time, and a start only when no session runs, the
\* report is a histogram: a flush prints one moment's counts, although it
\* prints row by row and the other vCPUs go on counting, and only into an open
\* report.
THEOREM McountRefinementTheorem ==
  ASSUME ~ConcurrentCommands, ~RestartWhileRunning
  PROVE  Spec => ImplementsHistogram
<1>1. Init => HistogramInv
  <2> SUFFICES ASSUME Init PROVE HistogramInv
    OBVIOUS
  <2>1. ThreadTypes /\ CountTypes /\ LockInv /\ ReportInv /\ Quiet /\ Loaded /\ NoCountLost
    BY TypesInit, LockInvInit, ReportInvInit, CountsInit
  <2>2. StartHasReport /\ RowsPrinted
    BY DEF Init, StartHasReport, RowsPrinted
  <2> QED BY <2>1, <2>2 DEF HistogramInv
<1>2. HistogramInv /\ [Next]_vars => HistogramInv'
  <2> SUFFICES ASSUME HistogramInv, [Next]_vars PROVE HistogramInv'
    OBVIOUS
  <2>1. /\ ThreadTypes /\ CountTypes /\ LockInv /\ ReportInv /\ OneCommand /\ Quiet /\ Loaded
        /\ NoCountLost /\ StartHasReport /\ RowsPrinted
    BY DEF HistogramInv, ReportInv
  <2>2. ThreadTypes' /\ CountTypes' /\ LockInv' /\ ReportInv' /\ Quiet'
    BY <2>1, ThreadTypesInductive, CountTypesInductive, LockInvInductive, ReportInvInductive,
       QuietInductive
  <2>3. Loaded' /\ NoCountLost' /\ StartHasReport' /\ RowsPrinted'
    BY <2>1, CountsInductive, StartHasReportInductive, RowsPrintedInductive
  <2> QED BY <2>2, <2>3 DEF HistogramInv
<1>3. HistogramInv /\ [Next]_vars => [H!Next]_(H!vars)
  BY StepRefines
<1>4. Init => H!Init
  BY DEF Init, H!Init, H!Zero, Zero, open, printed, Flushing
<1> QED BY <1>1, <1>2, <1>3, <1>4, PTL DEF Spec, H!Spec, ImplementsHistogram
=============================================================================
