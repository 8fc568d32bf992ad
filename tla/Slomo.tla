------------------------------- MODULE Slomo -------------------------------
(***************************************************************************)
(* The instruction counter and slow motion (src/host/slomo.cc).  Every TB  *)
(* adds its length to one atomic counter; every interrupt, on any vCPU,    *)
(* prints the counter and sets it to zero, in two steps.  A stop removes   *)
(* the callbacks and leaves the counter and the rate as they are.          *)
(***************************************************************************)
EXTENDS Naturals, FiniteSets

CONSTANTS
  Core,        \* vCPUs
  Commander,   \* the vCPU whose guest thread sends the commands
  Lengths,     \* numbers of instructions of a TB
  Rates,       \* values of -r
  MaxIcount    \* bound: no TB begins once this many instructions are executed

ASSUME CoreAssumption == Commander \in Core /\ IsFiniteSet(Core)
ASSUME InputAssumption ==
  Lengths \subseteq Nat /\ Rates \subseteq Nat \ {0} /\ MaxIcount \in Nat

VARIABLES
  printing,    \* vCPUs between the print and the zeroing of vcpu_interrupt_cb
  icount,
  rate,        \* QEMU's slow-motion rate
  registered,  \* the callbacks are registered with QEMU
  resetting,   \* the reset of a stop is queued on Commander
  executed,    \* history: instructions executed by instrumented TBs
  printed,     \* history: sum of the numbers printed
  exposed,     \* history: instructions executed between a print and its zeroing
  twice        \* history: one interrupt printed while another was printing

ghosts == <<executed, printed, exposed, twice>>
vars   == <<printing, icount, rate, registered, resetting, ghosts>>

TypeOK ==
  /\ printing \in SUBSET Core
  /\ icount \in 0 .. executed
  /\ rate \in Rates \cup {1}
  /\ registered \in BOOLEAN /\ resetting \in BOOLEAN
  /\ printing # {} => registered
  /\ executed \in Nat /\ printed \in Nat /\ exposed \in Nat
  /\ twice \in BOOLEAN

Init ==
  /\ printing = {} /\ icount = 0 /\ rate = 1
  /\ registered = FALSE /\ resetting = FALSE
  /\ executed = 0 /\ printed = 0 /\ exposed = 0 /\ twice = FALSE

Running(c) == registered /\ c \notin printing /\ ~(c = Commander /\ resetting)

\* icount += n, one atomic step.
vcpu_tb_exec_cb(c, n) ==
  /\ Running(c) /\ executed + n <= MaxIcount
  /\ icount' = icount + n
  /\ executed' = executed + n
  /\ exposed' = IF printing = {} THEN exposed ELSE exposed + n
  /\ UNCHANGED <<printing, rate, registered, resetting, printed, twice>>

\* vcpu_interrupt_cb: the counter is loaded and printed, ...
Mutant_PrintIcount(c) ==
  /\ Running(c)
  /\ printed' = printed + icount
  /\ UNCHANGED <<printing, icount, rate, registered, resetting, executed, exposed,
                 twice>>

Mutant_ZeroFirst(c) ==
  /\ Running(c)
  /\ printing' = printing \cup {c}
  /\ icount' = 0
  /\ twice' = (twice \/ printing # {})
  /\ UNCHANGED <<rate, registered, resetting, executed, printed, exposed>>

PrintIcount(c) ==
  /\ Running(c)
  /\ printing' = printing \cup {c}
  /\ printed' = printed + icount
  /\ twice' = (twice \/ printing # {})
  /\ UNCHANGED <<icount, rate, registered, resetting, executed, exposed>>

\* ... then zero is stored.
ZeroIcount(c) ==
  /\ c \in printing
  /\ printing' = printing \ {c}
  /\ icount' = 0
  /\ UNCHANGED <<rate, registered, resetting, ghosts>>

\* slomo start: the counter is not cleared.
slomo_start(c, r) ==
  /\ c = Commander /\ ~resetting /\ c \notin printing
  /\ rate' = r
  /\ registered' = TRUE
  /\ UNCHANGED <<printing, icount, resetting, ghosts>>

\* slomo stop queues the reset, with no callback.
Mutant_slomo_stop(c) ==
  /\ c = Commander /\ ~resetting /\ c \notin printing
  /\ registered' = FALSE
  /\ UNCHANGED <<printing, icount, rate, resetting, ghosts>>

slomo_stop(c) ==
  /\ c = Commander /\ ~resetting /\ c \notin printing
  /\ resetting' = TRUE
  /\ UNCHANGED <<printing, icount, rate, registered, ghosts>>

ResetPlugin ==
  /\ resetting /\ printing = {}
  /\ registered' = FALSE /\ resetting' = FALSE
  /\ UNCHANGED <<printing, icount, rate, ghosts>>

Next ==
  \/ \E c \in Core :
       \/ \E n \in Lengths : vcpu_tb_exec_cb(c, n)
       \/ PrintIcount(c) \/ ZeroIcount(c)
       \/ \E r \in Rates : slomo_start(c, r)
       \/ slomo_stop(c)
  \/ ResetPlugin

Spec == Init /\ [][Next]_vars

(***************************************************************************)
(* Properties.                                                             *)
(***************************************************************************)
\* What the printed numbers miss is bounded: only instructions executed on
\* other vCPUs between the print and the zeroing of an interrupt can be lost,
\* in a session or from one session to the next.
LossBounded == executed <= printed + icount + exposed

\* Nothing is printed twice unless two vCPUs take an interrupt together: with
\* no print under way, what is printed and what is counted never exceeds what
\* was executed.
PrintedOnce == ~twice /\ printing = {} => printed + icount <= executed
=============================================================================
