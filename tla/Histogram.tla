----------------------------- MODULE Histogram -----------------------------
(***************************************************************************)
(* What a histogram with a printed report promises, without locks and      *)
(* threads: accesses are counted one at a time, and each report that is    *)
(* printed brings what has been printed so far up to all that was counted, *)
(* in one step and while the report is open.                               *)
(***************************************************************************)
EXTENDS Naturals

CONSTANT Cell

VARIABLES
  open,     \* a report is open
  counted,  \* accesses counted in each cell since the report was opened
  printed   \* what the report adds up to in each cell

vars == <<open, counted, printed>>

TypeOK ==
  /\ open \in BOOLEAN
  /\ counted \in [Cell -> Nat]
  /\ printed \in [Cell -> Nat]

Zero == [x \in Cell |-> 0]

Init == open = FALSE /\ counted = Zero /\ printed = Zero

Open == ~open /\ open' = TRUE /\ counted' = Zero /\ printed' = Zero

\* An access begun while the report was open may be counted after it closed.
Count(x) ==
  /\ counted' = [counted EXCEPT ![x] = @ + 1]
  /\ UNCHANGED <<open, printed>>

Report == open /\ printed' = counted /\ UNCHANGED <<open, counted>>

Close == open /\ open' = FALSE /\ UNCHANGED <<counted, printed>>

Next == Open \/ Report \/ Close \/ \E x \in Cell : Count(x)

Spec == Init /\ [][Next]_vars
=============================================================================
