----------------------------- MODULE MCPcieRing -----------------------------
(* Image lengths for PcieRing.                                             *)
EXTENDS PcieRing, TLC

\* More chunks than data blocks and than descriptors in one image, so that
\* both rings wrap inside it and again between images.
MCChunks == (1 :> 1) @@ (2 :> 2) @@ (3 :> 6)
=============================================================================
