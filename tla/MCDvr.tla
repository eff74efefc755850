-------------------------------- MODULE MCDvr --------------------------------
(***************************************************************************)
(* The DVR with all its threads, a card that comes and goes, sleep and     *)
(* crashes; then under fairness; then with a delayed start of the radio,   *)
(* which records in the menu.                                              *)
(***************************************************************************)
EXTENDS Dvr
=============================================================================
