-------------------------- MODULE TraceRefinement --------------------------
(***************************************************************************)
(* TraceRecorder implements Session: the mode switch that is a command, a  *)
(* flush queued on one vCPU, and a callback once all vCPUs have left their *)
(* TBs is one request and one answer; the loop over blocking fifos is one  *)
(* start; work that only drops TBs or clears counters is not visible.      *)
(***************************************************************************)
EXTENDS TraceRecorder

phase ==
  IF fault # "none" THEN "crashed"
  ELSE IF recording THEN "recording"
  ELSE IF \E v \in VCPU : pc[v] \in InCommand THEN "starting"
  ELSE "idle"

mode == IF phase = "recording" THEN current_mode ELSE "none"

\* The state of a link is what the vCPU's Writer pointer shows.
link ==
  [v \in VCPU |-> IF phase = "crashed" \/ output[v] = "null" THEN "none"
                  ELSE IF output[v] = "open" THEN "up"
                  ELSE "down"]

asked ==
  [v \in VCPU |-> IF phase = "crashed" THEN "none"
                  ELSE IF work[v] = "reset" THEN "stop"
                  ELSE IF work[v] \in Mode THEN work[v]
                  ELSE "none"]

S == INSTANCE Session
     WITH Client <- VCPU, First <- "ModeIcount", Immediate <- {"ModeDetailed"},
          Idle <- "none"

\* Every behaviour of the control plane is one of a session: no request is
\* answered twice or with another request's effect; a session begins in
\* fast-forward whatever mode the last one ended in; only a stop ends it; QEMU
\* only fails when a Writer is missing.
ImplementsSession == S!Spec

\* If the simulator holds nobody for ever, a request is answered, whatever
\* flushes and requests of other vCPUs compete with it for exclusivity.
SessionAnswers == CallsReturn => S!Fairness
=============================================================================
