------------------------------- MODULE MCVideo ------------------------------
(***************************************************************************)
(* The video with one camera of each size and one known timing at the HDMI *)
(* input.  What a timing that is not known does, which only turns the OLED *)
(* off, is left to the proofs.                                             *)
(***************************************************************************)
EXTENDS Video
=============================================================================
