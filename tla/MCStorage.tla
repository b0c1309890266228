----------------------------- MODULE MCStorage ------------------------------
(***************************************************************************)
(* Two pairs of keys and three changes of settings.                        *)
(***************************************************************************)
EXTENDS Storage
=============================================================================
