---------------------------- MODULE Slomo_proofs ----------------------------
(* Theorems about the counter of Slomo, for any number of vCPUs. *)
EXTENDS Slomo, TLAPS

CountTypes ==
  /\ icount \in Nat /\ executed \in Nat /\ printed \in Nat /\ exposed \in Nat
  /\ icount <= executed

\* While a print waits for its zeroing, the counter is as good as zero: what it
\* still holds has been printed, or is exposed.
LossInv ==
  IF printing = {} THEN executed <= printed + icount + exposed
                   ELSE executed <= printed + exposed

\* As long as no two prints overlapped, what the counter holds while a print
\* waits for its zeroing is not going to be printed again.
OnceInv ==
  ~twice => IF printing = {} THEN printed + icount <= executed ELSE printed <= executed

CountInv == CountTypes /\ LossInv /\ OnceInv

LEMMA CountInvInductive == CountInv /\ [Next]_vars => CountInv'
<1> SUFFICES ASSUME CountInv, [Next]_vars PROVE CountInv'
  OBVIOUS
<1> USE DEF CountInv, CountTypes, LossInv, OnceInv
<1>1. ASSUME NEW c \in Core, NEW n \in Lengths, vcpu_tb_exec_cb(c, n)
      PROVE  CountInv'
  BY <1>1, InputAssumption DEF vcpu_tb_exec_cb
<1>2. ASSUME NEW c \in Core, PrintIcount(c)
      PROVE  CountInv'
  <2>1. printing' # {} /\ printed' = printed + icount /\ UNCHANGED <<icount, executed, exposed>>
    BY <1>2 DEF PrintIcount
  <2>2. ~twice' => ~twice /\ printing = {}
    BY <1>2 DEF PrintIcount
  <2> QED BY <2>1, <2>2
<1>3. ASSUME NEW c \in Core, ZeroIcount(c)
      PROVE  CountInv'
  <2>1. printing # {} /\ icount' = 0 /\ UNCHANGED <<executed, printed, exposed, twice>>
    BY <1>3 DEF ZeroIcount, ghosts
  <2> QED BY <2>1
<1>4. CASE UNCHANGED <<printing, icount, ghosts>>
  BY <1>4 DEF ghosts
<1>5. ASSUME \/ \E c \in Core : \/ \E r \in Rates : slomo_start(c, r)
                                \/ slomo_stop(c)
             \/ ResetPlugin
             \/ UNCHANGED vars
      PROVE  UNCHANGED <<printing, icount, ghosts>>
  BY <1>5, Zenon DEF slomo_start, slomo_stop, ResetPlugin, vars
<1> HIDE DEF CountInv
<1> QED BY <1>1, <1>2, <1>3, <1>4, <1>5, Zenon DEF Next

\* However the vCPUs, their interrupts, starts and stops interleave, the counter
\* loses no more than what ran between a print and its zeroing, and prints
\* nothing twice unless two interrupts were taken together.
THEOREM CountTheorem == Spec => [](LossBounded /\ PrintedOnce)
<1>1. Init => CountInv
  BY DEF Init, CountInv, CountTypes, LossInv, OnceInv
<1>2. CountInv => LossBounded /\ PrintedOnce
  BY DEF CountInv, CountTypes, LossInv, OnceInv, LossBounded, PrintedOnce
<1> QED BY <1>1, <1>2, CountInvInductive, PTL DEF Spec

(***************************************************************************)
(* Types.                                                                  *)
(***************************************************************************)
\* A TB adds to the counter what it adds to the instructions executed; a print
\* begins while the callbacks are registered, and the reset of a stop waits
\* for its end.
LEMMA TypesInductive == TypeOK /\ [Next]_vars => TypeOK'
<1> SUFFICES ASSUME TypeOK, [Next]_vars PROVE TypeOK'
  OBVIOUS
<1> USE DEF TypeOK, ghosts
<1>1. ASSUME NEW c \in Core, NEW n \in Lengths, vcpu_tb_exec_cb(c, n)
      PROVE  TypeOK'
  <2>1. n \in Nat
    BY InputAssumption
  <2>2. icount' = icount + n /\ executed' = executed + n /\ exposed' \in {exposed, exposed + n}
    BY <1>1 DEF vcpu_tb_exec_cb
  <2>3. UNCHANGED <<printing, rate, registered, resetting, printed, twice>>
    BY <1>1, Zenon DEF vcpu_tb_exec_cb
  <2>4. icount' \in 0 .. executed' /\ executed' \in Nat /\ exposed' \in Nat
    BY <2>1, <2>2
  <2> QED BY <2>3, <2>4
<1>2. ASSUME NEW c \in Core, PrintIcount(c)
      PROVE  TypeOK'
  <2>1. registered /\ printing' = printing \cup {c} /\ printed' = printed + icount
        /\ twice' \in BOOLEAN /\ UNCHANGED <<icount, rate, registered, resetting, executed, exposed>>
    BY <1>2 DEF PrintIcount, Running
  <2> QED BY <2>1
<1>3. ASSUME NEW c \in Core, ZeroIcount(c)
      PROVE  TypeOK'
  BY <1>3 DEF ZeroIcount
<1>4. ASSUME NEW c \in Core, NEW r \in Rates, slomo_start(c, r)
      PROVE  TypeOK'
  <2>1. /\ UNCHANGED <<printing, icount, resetting, ghosts>> /\ rate' = r
        /\ registered' \in BOOLEAN /\ registered'
    BY <1>4 DEF slomo_start
  <2> QED BY <2>1
<1>5. ASSUME NEW c \in Core, slomo_stop(c) PROVE TypeOK'
  <2>1. UNCHANGED <<printing, icount, rate, registered, ghosts>> /\ resetting' \in BOOLEAN
    BY <1>5 DEF slomo_stop
  <2> QED BY <2>1
<1>6. CASE ResetPlugin
  <2>1. printing = {} /\ UNCHANGED <<printing, icount, rate, ghosts>>
    BY <1>6, Zenon DEF ResetPlugin
  <2>2. registered' \in BOOLEAN /\ resetting' \in BOOLEAN
    BY <1>6, Zenon DEF ResetPlugin
  <2> QED BY <2>1, <2>2
<1>7. CASE UNCHANGED vars
  BY <1>7 DEF vars
<1> HIDE DEF TypeOK
<1> QED BY <1>1, <1>2, <1>3, <1>4, <1>5, <1>6, <1>7, Zenon DEF Next

\* The counter never exceeds what was executed, and whoever is printing has
\* callbacks to return to: the reset of a stop waits for it.
THEOREM SlomoTypeCorrect == Spec => []TypeOK
<1>1. Init => TypeOK
  <2> SUFFICES ASSUME Init PROVE TypeOK
    OBVIOUS
  <2>1. registered \in BOOLEAN /\ resetting \in BOOLEAN /\ twice \in BOOLEAN
    BY Zenon DEF Init
  <2>2. icount \in 0 .. executed /\ executed \in Nat /\ printed \in Nat /\ exposed \in Nat
    BY DEF Init
  <2>3. printing = {} /\ rate = 1
    BY DEF Init
  <2> QED BY <2>1, <2>2, <2>3 DEF TypeOK
<1> QED BY <1>1, TypesInductive, PTL DEF Spec
=============================================================================
