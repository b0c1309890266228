----------------------------- MODULE FrameQueue -----------------------------
(***************************************************************************)
(* The decoded-frame queue of src/wii/wii.c: an array of slots and two     *)
(* free-running unsigned indices, each operation one critical section      *)
(* under queueMutex.  The indices are never reduced to the size of the     *)
(* array: they wrap at the width of the type (IndexMod, 2^32 in the code)  *)
(* and are masked when they select a slot.                                 *)
(***************************************************************************)
EXTENDS Integers

CONSTANTS
  Frames,           \* the frame_t pointers that can be queued
  NoFrame,          \* the NULL that get_frame returns
  MaxQueueMessages, \* MAX_QUEUEMESSAGES
  IndexMod          \* 2^(width of queueReadIndex and queueWriteIndex)

\* The mask selects the right slot across a wrap of the indices only if the
\* size of the array divides the range of the indices.
ASSUME QueueAssumption ==
  /\ MaxQueueMessages \in Nat \ {0}
  /\ IndexMod \in Nat
  /\ MaxQueueMessages < IndexMod
  /\ IndexMod % MaxQueueMessages = 0
  /\ Frames # {}
  /\ NoFrame \notin Frames

VARIABLES
  queueMessages,   \* the slots
  queueWriteIndex,
  queueReadIndex,
  message          \* what the last get_frame returned

queueVars == <<queueMessages, queueWriteIndex, queueReadIndex, message>>

Slots == 0 .. MaxQueueMessages - 1
Indices == 0 .. IndexMod - 1

ElementsIn == (queueWriteIndex - queueReadIndex) % IndexMod

\* Mutant: the index wraps one early.
Increment_WrapsEarly(i) == (i + 1) % (IndexMod - 1)

Increment(i) == (i + 1) % IndexMod
SlotOf(i) == i % MaxQueueMessages

\* wii_stream_init, once at boot: the static array is all NULL.
QueueInit ==
  /\ queueMessages = [s \in Slots |-> NoFrame]
  /\ queueWriteIndex = 0
  /\ queueReadIndex = 0
  /\ message = NoFrame

\* Mutant: add_frame does not look whether the queue is full.
AddFrame_NoFullCheck(msg) ==
  /\ queueMessages' = [queueMessages EXCEPT ![SlotOf(queueWriteIndex)] = msg]
  /\ queueWriteIndex' = Increment(queueWriteIndex)
  /\ UNCHANGED <<queueReadIndex, message>>

AddFrame(msg) ==
  /\ ElementsIn # MaxQueueMessages
  /\ queueMessages' = [queueMessages EXCEPT ![SlotOf(queueWriteIndex)] = msg]
  /\ queueWriteIndex' = Increment(queueWriteIndex)
  /\ UNCHANGED <<queueReadIndex, message>>

AddFrameFull ==
  /\ ElementsIn = MaxQueueMessages
  /\ UNCHANGED queueVars

\* Mutant: get_frame takes a queue of one for empty.
GetFrame_KeepsOne ==
  /\ ElementsIn > 1
  /\ message' = queueMessages[SlotOf(queueReadIndex)]
  /\ queueReadIndex' = Increment(queueReadIndex)
  /\ UNCHANGED <<queueMessages, queueWriteIndex>>

GetFrame ==
  /\ ElementsIn # 0
  /\ message' = queueMessages[SlotOf(queueReadIndex)]
  /\ queueReadIndex' = Increment(queueReadIndex)
  /\ UNCHANGED <<queueMessages, queueWriteIndex>>

GetFrameEmpty ==
  /\ ElementsIn = 0
  /\ message' = NoFrame
  /\ UNCHANGED <<queueMessages, queueWriteIndex, queueReadIndex>>

QueueNext ==
  \/ \E msg \in Frames : AddFrame(msg)
  \/ AddFrameFull
  \/ GetFrame
  \/ GetFrameEmpty

QueueSpec == QueueInit /\ [][QueueNext]_queueVars

-----------------------------------------------------------------------------
QueueTypeOK ==
  /\ queueMessages \in [Slots -> Frames \cup {NoFrame}]
  /\ queueWriteIndex \in Indices
  /\ queueReadIndex \in Indices
  /\ message \in Frames \cup {NoFrame}

\* The difference of the two wrapping indices never exceeds the array, so the
\* test for "full" (an equality, not an inequality) can never be jumped over;
\* and every slot between the indices was filled by add_frame.
QueueInv ==
  /\ QueueTypeOK
  /\ ElementsIn <= MaxQueueMessages
  /\ \A k \in Slots : k < ElementsIn => queueMessages[SlotOf(queueReadIndex + k)] \in Frames

\* The queue seen as a sequence: its slots from the read index on.
Queued == [k \in 1 .. ElementsIn |-> queueMessages[SlotOf(queueReadIndex + k - 1)]]

Fifo == INSTANCE DroppingFifo WITH
          fifo <- Queued, answer <- message, Capacity <- MaxQueueMessages

\* The ring with its masked, wrapping indices behaves as the bounded FIFO that
\* loses the newest frame when full: nothing is duplicated, reordered or lost
\* once accepted, wherever the indices wrap.
ImplementsFifo == Fifo!Spec
=============================================================================
