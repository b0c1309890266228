-------------------------- MODULE MCVideoPipeline --------------------------
(***************************************************************************)
(* The video pipeline on a small instance: the two buffers of the code, a  *)
(* queue of four slots and indices that wrap after eight pictures.  Ten    *)
(* pictures fill the queue, lose pictures, wrap the indices and span       *)
(* several sessions.                                                       *)
(***************************************************************************)
EXTENDS VideoPipeline
=============================================================================
