----------------------------- MODULE MCRecorder -----------------------------
(***************************************************************************)
(* The record process under fairness, with a card that is pulled and put   *)
(* back and a status file that is locked now and then.  The safety         *)
(* properties are checked together with the refinement (RecorderRefines).  *)
(***************************************************************************)
EXTENDS Recorder
=============================================================================
