---------------------------- MODULE MCAudioRing ----------------------------
(***************************************************************************)
(* The audio ring on small instances: buffers of three units, packets that *)
(* are smaller than a buffer, a little larger, and several buffers long, a *)
(* ring of four buffers, and enough packets to overfill it.                *)
(***************************************************************************)
EXTENDS AudioRing
=============================================================================
