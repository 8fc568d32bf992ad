-------------------------- MODULE MCTraceRecorder --------------------------
(* Small instances of TraceRecorder. *)
EXTENDS TraceRefinement

OneProcess == {7}
=============================================================================
