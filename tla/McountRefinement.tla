-------------------------- MODULE McountRefinement --------------------------
(***************************************************************************)
(* Mcount implements Histogram: a flush that prints one row after another, *)
(* while other vCPUs count and others wait for the lock, is one Report.    *)
(***************************************************************************)
EXTENDS Mcount

Flushing == \E c \in Core : pc[c] = "flush"

\* A start is visible once it has cleared the maps.
open == report = "open" /\ \A c \in Core : pc[c] # "init"

\* From its first step on a flush counts as done: the rows it has still to
\* print are added to the report in advance.
printed == IF Flushing THEN [x \in Cell |-> reported[x] + maps[x]] ELSE reported

H == INSTANCE Histogram WITH counted <- hits

\* Every flush prints a consistent snapshot: what the report adds up to moves
\* in one step from one total of all accesses counted to a later one, never
\* to a mixture of rows of different moments, and never while no report is open.
ImplementsHistogram == H!Spec
=============================================================================
