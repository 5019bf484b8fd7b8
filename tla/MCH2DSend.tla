------------------------------ MODULE MCH2DSend ------------------------------
(* Cards and callers for H2DSend.                                          *)
EXTENDS H2DSend

CONSTANTS s0, s1, t1, t2
=============================================================================
