---------------------------- MODULE DroppingFifo ----------------------------
(***************************************************************************)
(* What the video frame queue of wii/wii.c promises its two callers, the   *)
(* decoder thread (add_frame) and the drawing loop (get_frame): a first-in *)
(* first-out queue of bounded capacity that forgets the newest frame when  *)
(* it is full, and that answers "nothing" when it is empty.  Nothing is    *)
(* said of rings, indices or their width.                                  *)
(***************************************************************************)
EXTENDS Naturals, Sequences

CONSTANTS
  Frames,   \* the messages that can be queued
  Capacity, \* how many of them fit
  NoFrame   \* the answer of an empty queue

VARIABLES
  fifo,     \* the queued frames, oldest first
  answer    \* what the last get_frame returned

vars == <<fifo, answer>>

Init == fifo = <<>> /\ answer = NoFrame

Put(f) ==
  /\ Len(fifo) < Capacity
  /\ fifo' = Append(fifo, f)
  /\ UNCHANGED answer

\* A full queue keeps what it has: the frame offered to it is lost.
Lose ==
  /\ Len(fifo) = Capacity
  /\ UNCHANGED vars

Take ==
  /\ fifo # <<>>
  /\ answer' = Head(fifo)
  /\ fifo' = Tail(fifo)

TakeNothing ==
  /\ fifo = <<>>
  /\ answer' = NoFrame
  /\ UNCHANGED fifo

Next == (\E f \in Frames : Put(f)) \/ Lose \/ Take \/ TakeNothing

Spec == Init /\ [][Next]_vars
=============================================================================
