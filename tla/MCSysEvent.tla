----------------------------- MODULE MCSysEvent -----------------------------
(***************************************************************************)
(* Instances of SysEvent for TLC.                                          *)
(***************************************************************************)
EXTENDS SysEvent

=============================================================================
