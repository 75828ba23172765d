--------------------------- MODULE MCScanPipeline ---------------------------
(* Small instances of ScanPipeline for TLC. *)
EXTENDS ScanPipeline

CONSTANTS d1, d2, d3, d4, w1, w2, w3
=============================================================================
