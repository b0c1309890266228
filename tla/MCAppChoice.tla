---------------------------- MODULE MCAppChoice ----------------------------
(***************************************************************************)
(* Lists of up to three apps, with repeated titles and without the         *)
(* configured one, and a menu that takes two of them.                      *)
(***************************************************************************)
EXTENDS AppChoice
=============================================================================
