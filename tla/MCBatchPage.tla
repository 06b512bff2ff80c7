----------------------------- MODULE MCBatchPage -----------------------------
(***************************************************************************)
(* Two batches: one with a pause between its rows, and the one after it.   *)
(***************************************************************************)
EXTENDS BatchPage

MCSizes == <<2, 1>>
MCTimes == <<1, 0>>
=============================================================================
