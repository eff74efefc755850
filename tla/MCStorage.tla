------------------------------ MODULE MCStorage -----------------------------
(***************************************************************************)
(* The card with two scripts at a time; the configuration says how often a *)
(* confirmation may be repeated.                                           *)
(***************************************************************************)
EXTENDS Storage
=============================================================================
