------------------------- MODULE MCSandboxExecution -------------------------
(***************************************************************************)
(* The sandbox execution core and its properties for TLC: the cfgs of this *)
(* module are four questions about one state machine (see README.md).      *)
(***************************************************************************)
EXTENDS SandboxExecutionProps
=============================================================================
