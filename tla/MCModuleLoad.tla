---------------------------- MODULE MCModuleLoad ----------------------------
(* Two users and two slots for ModuleLoad.                                 *)
EXTENDS ModuleLoad

CONSTANTS u1, u2, s0, s1
=============================================================================
