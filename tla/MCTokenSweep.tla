---------------------------- MODULE MCTokenSweep ----------------------------
(***************************************************************************)
(* Two sessions over two runs of which one has two tokens, the second one  *)
(* parked when the sessions begin, so that the batches of two sweeps cross *)
(* and the reaper comes between the passes of a drive.                     *)
(***************************************************************************)
EXTENDS TokenSweep, TLC

CrossRuns == 1 :> "r1" @@ 2 :> "r2" @@ 3 :> "r1"

============================================================================
