----------------------------- MODULE MCMonitor -----------------------------
(* Monitor with six descriptors, which two cancelled monitors may use up.   *)
EXTENDS Monitor
=============================================================================
