-------------------------- MODULE MCStreamSession --------------------------
(***************************************************************************)
(* Stream sessions with a long press of one or two ticks and at most two   *)
(* terminations under way: two connection threads that report the same     *)
(* loss, or the late callback of one session in the next.  The number of   *)
(* sessions, presses and polls is not bounded.                             *)
(***************************************************************************)
EXTENDS StreamSession
=============================================================================
