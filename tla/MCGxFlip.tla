------------------------------ MODULE MCGxFlip ------------------------------
(***************************************************************************)
(* The two framebuffers of the code and six drawn frames: enough for the   *)
(* frames of the start, drawn while the screen is held black, and for both *)
(* framebuffers to be reused after it.                                     *)
(***************************************************************************)
EXTENDS GxFlip
=============================================================================
