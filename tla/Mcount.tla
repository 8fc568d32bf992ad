------------------------------- MODULE Mcount -------------------------------
(***************************************************************************)
(* The memory access histogram plugin (src/host/mcount.cc).  Every vCPU    *)
(* thread counts its own memory accesses in kmaps and umaps; the thread    *)
(* that makes the total a multiple of acc_bin prints all maps to the       *)
(* report and zeroes them.  flush_mtx, a readers-writer lock, separates    *)
(* the two: a count holds it shared, a flush holds it exclusively.         *)
(* A start opens the report and publishes the mode before it clears the    *)
(* maps; a stop clears the mode before it takes flush_mtx, shared, and     *)
(* closes the report.                                                      *)
(***************************************************************************)
EXTENDS Naturals, FiniteSets, Functions

CONSTANTS
  ncores,              \* number of vCPUs
  TotalMem,            \* size of guest memory
  MemBins,             \* bin sizes a start may ask for, in the same unit
  AccBins,             \* numbers of accesses between two flushes it may ask for
  MaxAcc,              \* bound: no access begins once acc_cnt, or some cell, is MaxAcc
  ConcurrentCommands,  \* may two vCPUs be inside an mcount command at once?
  RestartWhileRunning, \* may the guest send a start while a session runs?
  None                 \* no vCPU

ASSUME CoresAssumption == ncores \in Nat \ {0} /\ None \notin 0 .. ncores - 1
ASSUME BinAssumption ==
  TotalMem \in Nat \ {0} /\ MemBins \subseteq Nat \ {0} /\ AccBins \subseteq Nat \ {0}
ASSUME BoundAssumption == MaxAcc \in Nat
ASSUME GuestAssumption ==
  ConcurrentCommands \in BOOLEAN /\ RestartWhileRunning \in BOOLEAN

Core == 0 .. ncores - 1
PAddr == 0 .. TotalMem - 1

\* A counter: kernel (kmaps) or user (umaps), the vCPU, the bin.  Of each row
\* only the first size counters exist, at most one for every address.
Kind == {"kernel", "user"}
Cell == Kind \X Core \X (0 .. TotalMem - 1)

VARIABLES
  pc,          \* where each vCPU thread is in a callback or a command
  kind, paddr, \* the access the vCPU is counting: "io", "kernel" or "user"; address
  bin, val,    \* the counter it increments, and the value it has loaded
  exclusive,   \* vCPU that holds flush_mtx exclusively, or None
  shared,      \* vCPUs that hold it shared
  pos,         \* rows the flush under way has printed
  mode,        \* cfg.mode
  report,      \* cfg.report: "null" or "open"
  mem_bin, acc_bin,  \* cfg.mem_bin and cfg.acc_bin
  arg,         \* the mem_bin argument of the start the vCPU is in
  size,        \* the length of every row of kmaps and umaps
  acc_cnt, acc_io_cnt,
  maps,        \* kmaps and umaps
  registered,  \* the callbacks are registered with QEMU
  resetting,   \* vCPUs with a qemu_plugin_reset queued
  fault,       \* how the plugin failed
  hits,        \* history: accesses of this session counted in each cell
  reported,    \* history: what the report of this session adds up to
  flushes,     \* history: flushes of this session done or given up
  lost         \* history: accesses given up by a flush that found the mode off

locks   == <<exclusive, shared>>
access  == <<kind, paddr, bin, val>>
sizes   == <<mem_bin, acc_bin, arg, size>>
ghosts  == <<hits, reported, flushes, lost>>
vars    == <<pc, access, locks, pos, mode, report, sizes, acc_cnt, acc_io_cnt,
             maps, registered, resetting, fault, ghosts>>

InCallback == {"count", "lock", "flush", "bin", "load", "store"}
InCommand  == {"init", "fini", "close"}

TypeOK ==
  /\ pc \in [Core -> InCallback \cup InCommand \cup {"idle"}]
  /\ kind \in [Core -> Kind \cup {"io"}]
  /\ paddr \in [Core -> PAddr]
  /\ bin \in [Core -> Nat]
  /\ val \in [Core -> Nat]
  /\ exclusive \in Core \cup {None}
  /\ shared \in SUBSET Core
  /\ pos \in 0 .. 2 * ncores
  /\ mode \in {"MCOUNT_ON", "MCOUNT_OFF"}
  /\ report \in {"null", "open"}
  /\ mem_bin \in MemBins \cup {0} /\ acc_bin \in AccBins \cup {0}
  /\ arg \in [Core -> MemBins \cup {0}]
  /\ size \in 0 .. TotalMem
  /\ acc_cnt \in Nat /\ acc_io_cnt \in Nat
  /\ maps \in [Cell -> Nat]
  /\ registered \in BOOLEAN
  /\ resetting \in SUBSET Core
  /\ fault \in {"none", "fopen", "report", "bounds"}
  /\ hits \in [Cell -> Nat] /\ reported \in [Cell -> Nat]
  /\ flushes \in Nat /\ lost \in Nat

Zero == [x \in Cell |-> 0]

Init ==
  /\ pc = [c \in Core |-> "idle"]
  /\ kind = [c \in Core |-> "io"]
  /\ paddr = [c \in Core |-> 0]
  /\ bin = [c \in Core |-> 0]
  /\ val = [c \in Core |-> 0]
  /\ exclusive = None /\ shared = {} /\ pos = 0
  /\ mode = "MCOUNT_OFF" /\ report = "null"
  /\ mem_bin = 0 /\ acc_bin = 0 /\ arg = [c \in Core |-> 0] /\ size = 0
  /\ acc_cnt = 0 /\ acc_io_cnt = 0
  /\ maps = Zero
  /\ registered = FALSE /\ resetting = {}
  /\ fault = "none"
  /\ hits = Zero /\ reported = Zero /\ flushes = 0 /\ lost = 0

(***************************************************************************)
(* flush_mtx.                                                              *)
(***************************************************************************)
LockExclusive(c) ==
  exclusive = None /\ shared = {} /\ exclusive' = c /\ UNCHANGED shared

UnlockExclusive == exclusive' = None /\ UNCHANGED shared

Mutant_NoLockShared(c) == shared' = shared \cup {c} /\ UNCHANGED exclusive

LockShared(c) ==
  exclusive = None /\ shared' = shared \cup {c} /\ UNCHANGED exclusive

UnlockShared(c) == shared' = shared \ {c} /\ UNCHANGED exclusive

Goto(c, from, to) == fault = "none" /\ pc[c] = from /\ pc' = [pc EXCEPT ![c] = to]

\* The callback returns: its variables are gone.
Return(c, from) ==
  /\ Goto(c, from, "idle")
  /\ kind' = [kind EXCEPT ![c] = "io"]
  /\ paddr' = [paddr EXCEPT ![c] = 0]
  /\ bin' = [bin EXCEPT ![c] = 0]
  /\ val' = [val EXCEPT ![c] = 0]

(***************************************************************************)
(* hypercall_mcount_cb.                                                    *)
(***************************************************************************)
\* A memory access of an instrumented TB.  With the mode off the callback
\* returns at once.  The address within a device is not used.
Access(c, k, a) ==
  /\ registered /\ c \notin resetting
  /\ mode = "MCOUNT_ON"
  /\ k = "io" => a = 0
  /\ acc_cnt < MaxAcc /\ \A x \in Cell : maps[x] < MaxAcc
  /\ Goto(c, "idle", "count")
  /\ kind' = [kind EXCEPT ![c] = k]
  /\ paddr' = [paddr EXCEPT ![c] = a]
  /\ UNCHANGED <<bin, val, locks, pos, mode, report, sizes, acc_cnt, acc_io_cnt,
                 maps, registered, resetting, fault, ghosts>>

\* ++acc_cnt % cfg.acc_bin == 0: the atomic increment elects the flusher.
Mutant_Elected(cnt) == cnt % acc_bin = 0

Elected(cnt) == (cnt + 1) % acc_bin = 0

Count(c) ==
  /\ Goto(c, "count", IF Elected(acc_cnt) THEN "lock" ELSE "bin")
  /\ acc_cnt' = acc_cnt + 1
  /\ UNCHANGED <<access, locks, pos, mode, report, sizes, acc_io_cnt, maps,
                 registered, resetting, fault, ghosts>>

\* The flusher takes the lock and looks at the mode again.
Mutant_NoRecheck(c) ==
  /\ LockExclusive(c)
  /\ Goto(c, "lock", "flush")
  /\ pos' = 0
  /\ UNCHANGED <<access, mode, report, sizes, acc_cnt, acc_io_cnt, maps, registered,
                 resetting, fault, ghosts>>

LockFlush(c) ==
  /\ exclusive = None /\ shared = {}
  /\ \/ /\ mode = "MCOUNT_ON"
        /\ Goto(c, "lock", "flush")
        /\ LockExclusive(c)
        /\ pos' = 0
        /\ UNCHANGED <<access, flushes, lost>>
     \/ /\ mode = "MCOUNT_OFF"
        /\ Return(c, "lock")
        /\ flushes' = flushes + 1
        /\ lost' = lost + 1
        /\ UNCHANGED <<locks, pos>>
  /\ UNCHANGED <<mode, report, sizes, acc_cnt, acc_io_cnt, maps, registered,
                 resetting, fault, hits, reported>>

\* flush(kmaps), then flush(umaps): one row, the map of one vCPU, at a time.
InRow(x, n) ==
  IF n < ncores THEN x[1] = "kernel" /\ x[2] = n
                ELSE x[1] = "user" /\ x[2] = n - ncores

Mutant_FlushRow(c) ==
  /\ Goto(c, "flush", "flush")
  /\ pos < 2 * ncores
  /\ maps' = [x \in Cell |-> IF InRow(x, pos) THEN 0 ELSE maps[x]]
  /\ UNCHANGED <<access, locks, pos, mode, report, sizes, acc_cnt, acc_io_cnt,
                 registered, resetting, fault, ghosts>>

Mutant_FlushRow_bound(c) ==
  /\ Goto(c, "flush", "flush")
  /\ pos <= 2 * ncores
  /\ pos' = pos + 1
  /\ UNCHANGED <<access, locks, mode, report, sizes, acc_cnt, acc_io_cnt, maps,
                 registered, resetting, fault, ghosts>>

FlushRow(c) ==
  /\ Goto(c, "flush", "flush")
  /\ pos < 2 * ncores
  /\ fault' = IF report = "open" THEN fault ELSE "report"
  /\ reported' = [x \in Cell |-> IF InRow(x, pos) THEN reported[x] + maps[x]
                                                  ELSE reported[x]]
  /\ maps' = [x \in Cell |-> IF InRow(x, pos) THEN 0 ELSE maps[x]]
  /\ pos' = pos + 1
  /\ UNCHANGED <<access, locks, mode, report, sizes, acc_cnt, acc_io_cnt, registered,
                 resetting, hits, flushes, lost>>

Mutant_FlushDone(c) ==
  /\ Goto(c, "flush", "idle")
  /\ pos = 2 * ncores
  /\ UnlockExclusive
  /\ flushes' = flushes + 1
  /\ UNCHANGED <<access, pos, mode, report, sizes, acc_cnt, acc_io_cnt, maps,
                 registered, resetting, fault, hits, reported, lost>>

FlushDone(c) ==
  /\ Goto(c, "flush", "bin")
  /\ pos = 2 * ncores
  /\ UnlockExclusive
  /\ flushes' = flushes + 1
  /\ UNCHANGED <<access, pos, mode, report, sizes, acc_cnt, acc_io_cnt, maps,
                 registered, resetting, fault, hits, reported, lost>>

\* An access to a device is only counted as such ...
CountIO(c) ==
  /\ kind[c] = "io"
  /\ Return(c, "bin")
  /\ acc_io_cnt' = acc_io_cnt + 1
  /\ UNCHANGED <<locks, pos, mode, report, sizes, acc_cnt, maps, registered,
                 resetting, fault, ghosts>>

\* ... any other one increments its cell under the shared lock: a load and a
\* store, of an element the vector must have.
LockCell(c) ==
  /\ kind[c] # "io"
  /\ Goto(c, "bin", "load")
  /\ LockShared(c)
  /\ UNCHANGED <<access, pos, mode, report, sizes, acc_cnt, acc_io_cnt, maps,
                 registered, resetting, fault, ghosts>>

BinOf(c) == paddr[c] \div mem_bin

CellOf(c) == <<kind[c], c, bin[c]>>

LoadCell(c) ==
  /\ Goto(c, "load", "store")
  /\ bin' = [bin EXCEPT ![c] = BinOf(c)]
  /\ \/ /\ BinOf(c) < size
        /\ val' = [val EXCEPT ![c] = maps[<<kind[c], c, BinOf(c)>>]]
        /\ UNCHANGED fault
     \/ /\ BinOf(c) >= size
        /\ fault' = "bounds"
        /\ UNCHANGED val
  /\ UNCHANGED <<kind, paddr, locks, pos, mode, report, sizes, acc_cnt, acc_io_cnt, maps,
                 registered, resetting, ghosts>>

StoreCell(c) ==
  /\ Return(c, "store")
  /\ maps' = [maps EXCEPT ![CellOf(c)] = val[c] + 1]
  /\ hits' = [hits EXCEPT ![CellOf(c)] = @ + 1]
  /\ UnlockShared(c)
  /\ UNCHANGED <<pos, mode, report, sizes, acc_cnt, acc_io_cnt, registered,
                 resetting, fault, reported, flushes, lost>>

(***************************************************************************)
(* Commands of the guest.                                                  *)
(***************************************************************************)
Command(c) ==
  /\ pc[c] = "idle" /\ c \notin resetting
  /\ ConcurrentCommands \/ \A d \in Core : pc[d] \notin InCommand

\* hypercall_mcount_init, first half: cfg gets the new sizes, the report is
\* opened and the mode set.  fopen may fail, and the first fprintf then gets a
\* null FILE.
mcount_start(c, m, a) ==
  /\ Command(c)
  /\ RestartWhileRunning \/ ~registered
  /\ Goto(c, "idle", "init")
  /\ mem_bin' = m /\ acc_bin' = a
  /\ arg' = [arg EXCEPT ![c] = m]
  /\ mode' = "MCOUNT_ON"
  /\ \/ report' = "open" /\ UNCHANGED fault
     \/ report' = "null" /\ fault' = "fopen"
  /\ UNCHANGED <<access, locks, pos, size, acc_cnt, acc_io_cnt, maps, registered,
                 resetting, ghosts>>

\* Second half: the rows get their new length, whole bins only, maps and
\* counters are cleared, then the callbacks registered.
Mutant_resize(m) == IF size = 0 THEN TotalMem \div m ELSE size

resize(m) == TotalMem \div m

mcount_start_finish(c) ==
  /\ Goto(c, "init", "idle")
  /\ size' = resize(arg[c])
  /\ arg' = [arg EXCEPT ![c] = 0]
  /\ maps' = Zero
  /\ acc_cnt' = 0 /\ acc_io_cnt' = 0
  /\ registered' = TRUE
  /\ hits' = Zero /\ reported' = Zero /\ flushes' = 0 /\ lost' = 0
  /\ UNCHANGED <<access, locks, pos, mode, report, mem_bin, acc_bin, resetting,
                 fault>>

\* hypercall_mcount_fini up to the lock, which is skipped without a report.
mcount_stop(c) ==
  /\ Command(c)
  /\ mode' = "MCOUNT_OFF"
  /\ \/ report # "null" /\ Goto(c, "idle", "fini") /\ UNCHANGED resetting
     \/ /\ report = "null"
        /\ Goto(c, "idle", "idle")
        /\ resetting' = resetting \cup {c}
  /\ UNCHANGED <<access, locks, pos, report, sizes, acc_cnt, acc_io_cnt, maps,
                 registered, fault, ghosts>>

LockReport(c) ==
  /\ Goto(c, "fini", "close")
  /\ LockShared(c)
  /\ UNCHANGED <<access, pos, mode, report, sizes, acc_cnt, acc_io_cnt, maps,
                 registered, resetting, fault, ghosts>>

\* The summary is printed and the report closed; then the reset is queued.
CloseReport(c) ==
  /\ Goto(c, "close", "idle")
  /\ fault' = IF report = "open" THEN fault ELSE "report"
  /\ report' = "null"
  /\ UnlockShared(c)
  /\ resetting' = resetting \cup {c}
  /\ UNCHANGED <<access, pos, mode, sizes, acc_cnt, acc_io_cnt, maps, registered,
                 ghosts>>

\* qemu_plugin_reset runs once every other vCPU is between TBs.
ResetPlugin(c) ==
  /\ c \in resetting
  /\ \A d \in Core : pc[d] = "idle"
  /\ fault = "none"
  /\ registered' = FALSE
  /\ resetting' = resetting \ {c}
  /\ UNCHANGED <<pc, access, locks, pos, mode, report, sizes, acc_cnt, acc_io_cnt,
                 maps, fault, ghosts>>

Aborted == fault # "none" /\ UNCHANGED vars

(***************************************************************************)
(* The specification.                                                      *)
(***************************************************************************)
Callback(c) ==
  \/ Count(c) \/ LockFlush(c) \/ FlushRow(c) \/ FlushDone(c)
  \/ CountIO(c) \/ LockCell(c) \/ LoadCell(c) \/ StoreCell(c)

Next ==
  \/ \E c \in Core :
       \/ \E k \in Kind \cup {"io"}, a \in PAddr : Access(c, k, a)
       \/ Callback(c)
       \/ \E m \in MemBins, a \in AccBins : mcount_start(c, m, a)
       \/ mcount_start_finish(c)
       \/ mcount_stop(c) \/ LockReport(c) \/ CloseReport(c)
       \/ ResetPlugin(c)
  \/ Aborted

Spec == Init /\ [][Next]_vars

(***************************************************************************)
(* Fairness: a callback or a command that has begun goes on whenever it    *)
(* can, and so does a queued reset.  Guest programs need not access        *)
(* memory nor send commands.                                               *)
(***************************************************************************)
Fairness ==
  \A c \in Core :
    /\ WF_vars(Callback(c))
    /\ WF_vars(mcount_start_finish(c) \/ LockReport(c) \/ CloseReport(c))
    /\ WF_vars(ResetPlugin(c))

FairSpec == Spec /\ Fairness

(***************************************************************************)
(* Properties.                                                             *)
(***************************************************************************)
\* No count is lost or reported twice: in every cell, what has been printed
\* plus what is still in the map is the number of accesses counted, although
\* a flush zeroes a map that other threads increment without atomics.
NoCountLost == \A x \in Cell : hits[x] = reported[x] + maps[x]

\* Every access that incremented acc_cnt is a device access, is in a cell, was
\* given up by a flush that found the session stopped, or is still on its way:
\* the acc_cnt and acc_io_cnt that hypercall_mcount_fini prints account for
\* what the maps show.
EveryAccessCounted ==
  fault = "none" =>
    acc_cnt = acc_io_cnt + lost + SumFunction(hits)
              + Cardinality({c \in Core : pc[c] \in InCallback \ {"count"}})

\* One flush for every acc_bin accesses: the atomic increment elects exactly
\* one thread, however many reach the boundary together.  A start publishes a
\* new acc_bin before it sets the count back.
FlushCadence ==
  acc_bin # 0 /\ (\A c \in Core : pc[c] # "init") =>
    flushes + Cardinality({c \in Core : pc[c] \in {"lock", "flush"}})
      = acc_cnt \div acc_bin

\* No flush and no second stop writes to a report that is closed: a stop clears
\* the mode before it takes the lock, and the flusher looks at the mode again
\* under the lock.
NoUseAfterClose == fault # "report"

\* The only index outside the maps is that of an address in the last,
\* incomplete bin of a memory that is not a whole number of bins: a start
\* changes mem_bin and the length of the rows in two steps, and no access sees
\* one without the other.
IndexInBounds ==
  fault = "bounds" =>
    \E c \in Core : pc[c] = "store" /\ paddr[c] >= mem_bin * (TotalMem \div mem_bin)

\* A stop comes to its end: the flushes and counts that hold flush_mtx when
\* hypercall_mcount_fini asks for it let go of it.
StopCloses ==
  \A c \in Core : pc[c] \in {"fini", "close"} ~> (pc[c] = "idle" \/ fault # "none")
=============================================================================
