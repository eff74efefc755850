------------------------------ MODULE MCTuning ------------------------------
(***************************************************************************)
(* Three channels in the race band and of the analog module, two in the    *)
(* low band; a timer that runs out in two rounds.                          *)
(***************************************************************************)
EXTENDS Tuning
=============================================================================
