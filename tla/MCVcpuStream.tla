---------------------------- MODULE MCVcpuStream ----------------------------
(* Small instances of VcpuStream. *)
EXTENDS VcpuStream, TLC

\* A loop of a TB that ends in a branch and one that does not, and a handler
\* that is a single branch.
Program ==
  (1 :> [len |-> 2, fallthrough |-> 2, branch |-> TRUE]) @@
  (2 :> [len |-> 1, fallthrough |-> 1, branch |-> FALSE]) @@
  (3 :> [len |-> 1, fallthrough |-> 1, branch |-> TRUE])

AllModes == {"ModeIcount", "ModeMemory", "ModeDetailed"}
CacheOnly == {"ModeMemory"}
=============================================================================
