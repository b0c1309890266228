--------------------------- MODULE MCHostSession ---------------------------
(***************************************************************************)
(* One console and one host with two apps.  Nothing is bounded: any number *)
(* of connections, pairings and streams, every request lost or misheard.   *)
(***************************************************************************)
EXTENDS HostSession
=============================================================================
