-------------------------------- MODULE Pmem --------------------------------
(***************************************************************************)
(* The sampled memory trace (src/host/pmem.cc).  All vCPU threads count    *)
(* their accesses in one counter under count_lock; every pmem_int-th       *)
(* access is printed, under file_lock, if its kind is asked for.  A stop   *)
(* closes the file and switches the mode off without either lock, and the  *)
(* callbacks go away only when the reset it queues runs.                   *)
(***************************************************************************)
EXTENDS Naturals, FiniteSets

CONSTANTS
  Core,         \* vCPUs
  Commander,    \* the vCPU whose guest thread sends the commands
  Intervals,    \* values of -i
  Filters,      \* values of -k -u -r -w, as sets
  CountMod,     \* pmem_count wraps at this number, 2^32 in the program
  MaxAcc,       \* bound: accesses begun in a session
  None          \* no vCPU

ASSUME CoreAssumption == Commander \in Core /\ IsFiniteSet(Core) /\ None \notin Core
ASSUME InputAssumption ==
  /\ Intervals \subseteq Nat
  /\ Filters \subseteq SUBSET {"r", "w", "k", "u"}
  /\ CountMod \in Nat \ {0} /\ MaxAcc \in Nat

\* What kind of access: its direction and its privilege.
Attr == {{d, p} : d \in {"r", "w"}, p \in {"k", "u"}}

VARIABLES
  pc,          \* where each vCPU thread is in a callback or a command
  val,         \* the counter it has loaded
  count_lock,  \* its holder, or None
  pmem_int, pmem_attr, pmem_file, pmem_count,
  mode,
  registered,  \* the callbacks are registered with QEMU
  resetting,   \* the reset of a stop is queued on Commander
  fault,       \* how the plugin failed
  begun,       \* history: accesses of this session
  since,       \* history: accesses counted since the last sample
  old,         \* history: threads whose access is of an earlier session
  restarted,   \* history: this session was started while one was running
  unopened     \* history: the file of this session could not be opened

config == <<pmem_int, pmem_attr>>
ghosts == <<begun, since, old, restarted, unopened>>
vars   == <<pc, val, count_lock, config, pmem_file, pmem_count, mode,
            registered, resetting, fault, ghosts>>

InCallback == {"count", "store", "match", "print"}
InStop     == {"close", "clear", "off"}

TypeOK ==
  /\ pc \in [Core -> InCallback \cup InStop \cup {"idle", "start"}]
  /\ val \in [Core -> 0 .. CountMod - 1]
  /\ count_lock \in Core \cup {None}
  /\ pmem_int \in Intervals \cup {0}
  /\ pmem_attr \in SUBSET {"r", "w", "k", "u"}
  /\ pmem_file \in {"null", "stdout", "open", "closed"}
  /\ pmem_count \in 0 .. CountMod - 1
  /\ mode \in {"PMEM_ON", "PMEM_OFF"}
  /\ registered \in BOOLEAN /\ resetting \in BOOLEAN
  /\ fault \in {"none", "division", "file"}
  /\ begun \in 0 .. MaxAcc /\ since \in Nat
  /\ old \in SUBSET Core
  /\ restarted \in BOOLEAN /\ unopened \in BOOLEAN

\* mode is zero-initialised, which is PMEM_ON.
Init ==
  /\ pc = [c \in Core |-> "idle"]
  /\ val = [c \in Core |-> 0]
  /\ count_lock = None
  /\ pmem_int = 0 /\ pmem_attr = {} /\ pmem_file = "null" /\ pmem_count = 0
  /\ mode = "PMEM_ON"
  /\ registered = FALSE /\ resetting = FALSE
  /\ fault = "none"
  /\ begun = 0 /\ since = 0
  /\ old = {} /\ restarted = FALSE /\ unopened = FALSE

Goto(c, from, to) == fault = "none" /\ pc[c] = from /\ pc' = [pc EXCEPT ![c] = to]

Waiting(c) == c = Commander /\ resetting

(***************************************************************************)
(* hypercall_pmem_cb.                                                      *)
(***************************************************************************)
\* A memory access of an instrumented TB, while the mode is on.
Access(c) ==
  /\ registered /\ ~Waiting(c) /\ begun < MaxAcc
  /\ mode = "PMEM_ON"
  /\ Goto(c, "idle", "count")
  /\ begun' = begun + 1
  /\ UNCHANGED <<val, count_lock, config, pmem_file, pmem_count, mode, registered,
                 resetting, fault, since, old, restarted,
                 unopened>>

\* pmem_count++ is a load and a store, under count_lock.
Mutant_Load(c) ==
  /\ Goto(c, "count", "store")
  /\ val' = [val EXCEPT ![c] = pmem_count]
  /\ UNCHANGED <<count_lock, config, pmem_file, pmem_count, mode, registered,
                 resetting, fault, ghosts>>

Load(c) ==
  /\ count_lock = None
  /\ Goto(c, "count", "store")
  /\ count_lock' = c
  /\ val' = [val EXCEPT ![c] = pmem_count]
  /\ UNCHANGED <<config, pmem_file, pmem_count, mode, registered, resetting,
                 fault, ghosts>>

Sampled(c) == val[c] % pmem_int = 0

Mutant_Store_no_unlock(c) ==
  /\ pmem_int > 0
  /\ Goto(c, "store", IF Sampled(c) THEN "match" ELSE "idle")
  /\ pmem_count' = (val[c] + 1) % CountMod
  /\ count_lock' = IF Sampled(c) THEN None ELSE count_lock
  /\ since' = IF Sampled(c) THEN 0 ELSE since + 1
  /\ UNCHANGED <<val, config, pmem_file, mode, registered, resetting, fault,
                 begun, old, restarted, unopened>>

Mutant_Store_no_wrap(c) ==
  /\ pmem_int > 0
  /\ Goto(c, "store", IF Sampled(c) THEN "match" ELSE "idle")
  /\ pmem_count' = val[c] + 1
  /\ count_lock' = None
  /\ UNCHANGED <<val, config, pmem_file, mode, registered, resetting, fault,
                 ghosts>>

Store(c) ==
  /\ pmem_int > 0
  /\ Goto(c, "store", IF Sampled(c) THEN "match" ELSE "idle")
  /\ pmem_count' = (val[c] + 1) % CountMod
  /\ count_lock' = None
  /\ since' = IF Sampled(c) THEN 0 ELSE since + 1
  /\ old' = IF Sampled(c) THEN old ELSE old \ {c}
  /\ UNCHANGED <<val, config, pmem_file, mode, registered, resetting, fault,
                 begun, restarted, unopened>>

StoreFails(c) ==
  /\ pmem_int = 0
  /\ Goto(c, "store", "store")
  /\ fault' = "division"
  /\ UNCHANGED <<val, count_lock, config, pmem_file, pmem_count, mode,
                 registered, resetting, ghosts>>

\* The sample is dropped unless its direction and its privilege are asked for.
Match(c) ==
  /\ \/ /\ \E attr \in Attr : attr \subseteq pmem_attr
        /\ Goto(c, "match", "print")
        /\ UNCHANGED old
     \/ /\ \E attr \in Attr : ~(attr \subseteq pmem_attr)
        /\ Goto(c, "match", "idle")
        /\ old' = old \ {c}
  /\ UNCHANGED <<val, count_lock, config, pmem_file, pmem_count, mode, registered,
                 resetting, fault, begun, since, restarted, unopened>>

\* One fprintf, under file_lock.
PrintLine(c) ==
  /\ Goto(c, "print", "idle")
  /\ fault' = IF pmem_file \in {"stdout", "open"} THEN fault ELSE "file"
  /\ old' = old \ {c}
  /\ UNCHANGED <<val, count_lock, config, pmem_file, pmem_count, mode, registered,
                 resetting, begun, since, restarted, unopened>>

(***************************************************************************)
(* Commands of the guest.                                                  *)
(***************************************************************************)
\* hypercall_pmem_init: the file, which may fail to open, ...
pmem_start(c) ==
  /\ c = Commander /\ ~resetting
  /\ Goto(c, "idle", "start")
  /\ pmem_file' \in {"null", "stdout", "open"}
  /\ unopened' = (pmem_file' = "null")
  /\ UNCHANGED <<val, count_lock, config, pmem_count, mode, registered, resetting,
                 fault, begun, since, old, restarted>>

\* ... then the parameters, the counter and the mode, and the registration.
pmem_start_finish(c) ==
  /\ Goto(c, "start", "idle")
  /\ pmem_int' \in Intervals
  /\ \E f \in Filters : pmem_attr' = IF f = {} THEN {"r", "w", "k", "u"} ELSE f
  /\ pmem_count' = 0
  /\ mode' = "PMEM_ON"
  /\ registered' = TRUE
  /\ begun' = 0 /\ since' = 0
  /\ old' = {d \in Core : pc[d] \in InCallback}
  /\ restarted' = registered
  /\ UNCHANGED <<val, count_lock, pmem_file, resetting, fault, unopened>>

\* hypercall_pmem_fini: close, forget, switch off; a null file is only
\* switched off.
pmem_stop(c) ==
  /\ c = Commander /\ ~resetting
  /\ Goto(c, "idle", IF pmem_file = "null" THEN "off" ELSE "close")
  /\ UNCHANGED <<val, count_lock, config, pmem_file, pmem_count, mode, registered,
                 resetting, fault, ghosts>>

CloseFile(c) ==
  /\ Goto(c, "close", "clear")
  /\ pmem_file' = IF pmem_file = "open" THEN "closed" ELSE pmem_file
  /\ UNCHANGED <<val, count_lock, config, pmem_count, mode, registered, resetting,
                 fault, ghosts>>

ClearFile(c) ==
  /\ Goto(c, "clear", "off")
  /\ pmem_file' = "null"
  /\ UNCHANGED <<val, count_lock, config, pmem_count, mode, registered, resetting,
                 fault, ghosts>>

Mutant_SwitchOff(c) ==
  /\ Goto(c, "off", "idle")
  /\ mode' = "PMEM_OFF"
  /\ UNCHANGED <<val, count_lock, config, pmem_file, pmem_count, registered,
                 resetting, fault, ghosts>>

Mutant_SwitchOff_at_once(c) ==
  /\ Goto(c, "off", "idle")
  /\ mode' = "PMEM_OFF"
  /\ registered' = FALSE
  /\ UNCHANGED <<val, count_lock, config, pmem_file, pmem_count, resetting,
                 fault, ghosts>>

\* The mode goes off and qemu_plugin_reset is queued.
SwitchOff(c) ==
  /\ Goto(c, "off", "idle")
  /\ mode' = "PMEM_OFF"
  /\ resetting' = TRUE
  /\ UNCHANGED <<val, count_lock, config, pmem_file, pmem_count, registered,
                 fault, ghosts>>

\* The reset runs once every vCPU has left its TB.
ResetPlugin ==
  /\ resetting /\ fault = "none"
  /\ \A c \in Core : pc[c] = "idle"
  /\ registered' = FALSE /\ resetting' = FALSE
  /\ UNCHANGED <<pc, val, count_lock, config, pmem_file, pmem_count, mode, fault,
                 ghosts>>

Aborted == fault # "none" /\ UNCHANGED vars

(***************************************************************************)
(* The specification.                                                      *)
(***************************************************************************)
hypercall_pmem_cb(c) ==
  Load(c) \/ Store(c) \/ StoreFails(c) \/ Match(c) \/ PrintLine(c)

Command(c) ==
  \/ pmem_start_finish(c)
  \/ CloseFile(c) \/ ClearFile(c) \/ SwitchOff(c)

Next ==
  \/ \E c \in Core :
       \/ Access(c) \/ hypercall_pmem_cb(c)
       \/ pmem_start(c) \/ pmem_stop(c) \/ Command(c)
  \/ ResetPlugin
  \/ Aborted

Spec == Init /\ [][Next]_vars

\* Callbacks and commands that have begun go on; a mutex is handed to a thread
\* that waits for it, however often others take it (their number is bounded
\* once the mode is off).
Fairness ==
  /\ \A c \in Core : WF_vars(hypercall_pmem_cb(c)) /\ WF_vars(Command(c))
  /\ WF_vars(ResetPlugin)

FairSpec == Spec /\ Fairness

(***************************************************************************)
(* Properties.                                                             *)
(***************************************************************************)
\* Of any pmem_int consecutive accesses one is sampled: no interleaving, no
\* start while others count, and no wrap of pmem_count makes a longer gap.
SampleGap == fault = "none" /\ registered => since < pmem_int \/ pmem_int = 0

\* No line of one session reaches the file of the next one, unless the guest
\* starts again without a stop: the reset waits for the accesses under way,
\* although the file and the mode were gone long before.
NoStrayLine ==
  \A c \in Core : pc[c] \in InCallback /\ c \in old => restarted

\* pmem only fails on a file that never opened, on an interval of zero, or on
\* an access that overlaps a stop between its fclose and its reset.
FailsOnlyInStop ==
  /\ fault = "division" => pmem_int = 0
  /\ fault = "file" =>
       unopened \/ resetting \/ \E c \in Core : pc[c] \in InStop

\* A stop ends: no access keeps a lock, and all of them leave their TBs.
StopEnds == resetting ~> (~resetting \/ fault # "none")
=============================================================================
