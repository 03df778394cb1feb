------------------------------ MODULE MCLogScan ------------------------------
(* LogScan with the smallest split scan that has a first, an inner and a    *)
(* short last range. *)
EXTENDS LogScan
=============================================================================
