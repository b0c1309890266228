--------------------------- MODULE MCStreamStart ----------------------------
(***************************************************************************)
(* One console and one host with two apps, of which the list names up to   *)
(* three, with repeated titles and without the configured one, for a menu  *)
(* that takes two.  Any number of connections, pairings and streams, every *)
(* request lost or misheard.                                               *)
(***************************************************************************)
EXTENDS StreamStart
=============================================================================
