------------------------------- MODULE MCPmem -------------------------------
(* Small instances of Pmem. *)
EXTENDS Pmem

SomeFilters == {{}, {"k", "w"}}
=============================================================================
