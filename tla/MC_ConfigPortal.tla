---------------------------- MODULE MC_ConfigPortal ----------------------------
(***************************************************************************)
(* Model-checking instance of ConfigPortal: a buffer of 3 bytes (so a body *)
(* can fill it exactly, and a second chunk can overflow it) and two POSTs  *)
(* (so one can complete between the loop's two reads, or share the buffer *)
(* with the other).                                                        *)
(***************************************************************************)
EXTENDS ConfigPortal

=============================================================================
