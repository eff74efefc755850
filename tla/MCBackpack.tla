----------------------------- MODULE MCBackpack ------------------------------
(***************************************************************************)
(* The instances of Backpack that TLC checks; the configurations give the  *)
(* constants their values.                                                 *)
(***************************************************************************)
EXTENDS Backpack
=============================================================================
