--------------------------- MODULE MCRingGeometry ---------------------------
(* The sizes of the code, cards around the limits.                         *)
EXTENDS RingGeometry

MCNums == {1, 2, 3, 21}
MCMaxBlks == 1 .. 4
MCMapSizes == {256 * i : i \in 1 .. 11}
MCCsz == {16, 512}
=============================================================================
