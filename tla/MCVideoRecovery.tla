-------------------------- MODULE MCVideoRecovery --------------------------
(***************************************************************************)
(* Video recovery on a small instance: a queue of two units and a wire of  *)
(* two frames overflow the queue and leave units in it while the decoder   *)
(* asks for a refresh; losses and errors may fall on any frame, key frames *)
(* included; the drop limit is reached.                                    *)
(***************************************************************************)
EXTENDS VideoRecovery
=============================================================================
