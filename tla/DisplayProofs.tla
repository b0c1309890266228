---------------------------- MODULE DisplayProofs ----------------------------
(***************************************************************************)
(* The way of a decoded picture to the television.  First the frame queue, *)
(* for every array size, every index width it divides and every set of     *)
(* frames: its invariant, and that it implements the bounded FIFO.  Then   *)
(* the whole pipeline, for every number of buffers and over any number of  *)
(* sessions: what the main thread draws, although neither thread holds a   *)
(* lock while it writes or reads a buffer.  Last, GxFlip, which shows what *)
(* was drawn, for any number of frames and any length of the black start:  *)
(* that the textures are safe holds in every video mode; the facts about   *)
(* the framebuffers hold where every retrace may flip.                     *)
(***************************************************************************)
EXTENDS VideoPipeline, GxFlip, SequenceTheorems, NumberFacts

-----------------------------------------------------------------------------
(* The frame queue: the arithmetic of its wrapping indices.                *)

\* The unsigned difference of two indices, without the remainder.
LEMMA Difference ==
  ASSUME NEW w \in Indices, NEW r \in Indices
  PROVE  /\ (w - r) % IndexMod \in Indices
         /\ r <= w => (w - r) % IndexMod = w - r
         /\ w < r  => (w - r) % IndexMod = w - r + IndexMod
<1> USE QueueAssumption DEF Indices
<1>1. CASE r <= w
  <2>1. w - r \in 0 .. IndexMod - 1
    BY <1>1
  <2>2. QED
    BY <1>1, <2>1, ModSmall
<1>2. CASE w < r
  <2>1. w - r \in Int /\ -IndexMod <= w - r /\ w - r < 0
    BY <1>2
  <2>2. QED
    BY <1>2, <2>1, ModNegative
<1>3. QED
  BY <1>1, <1>2

\* An index stays in its range: it grows by one, or wraps to zero at the end.
LEMMA IncrementCases ==
  ASSUME NEW i \in Indices
  PROVE  /\ Increment(i) \in Indices
         /\ i + 1 < IndexMod => Increment(i) = i + 1
         /\ i + 1 = IndexMod => Increment(i) = 0
<1> USE QueueAssumption DEF Indices, Increment
<1>1. CASE i + 1 < IndexMod
  BY <1>1, ModSmall
<1>2. CASE i + 1 = IndexMod
  <2>1. (i + 1) \in IndexMod .. 2 * IndexMod - 1
    BY <1>2
  <2>2. (i + 1) % IndexMod = (i + 1) - IndexMod
    BY <2>1, ModWrap
  <2>3. QED
    BY <1>2, <2>2
<1>3. QED
  BY <1>1, <1>2

\* Adding to the write index makes the queue one longer unless it spans the
\* whole index range; taking from the read index makes it one shorter.
LEMMA CountSteps ==
  ASSUME NEW w \in Indices, NEW r \in Indices
  PROVE  /\ (w - r) % IndexMod < IndexMod - 1
              => (Increment(w) - r) % IndexMod = ((w - r) % IndexMod) + 1
         /\ (w - r) % IndexMod # 0
              => (w - Increment(r)) % IndexMod = ((w - r) % IndexMod) - 1
<1>1. /\ (w - r) % IndexMod \in Indices
      /\ r <= w => (w - r) % IndexMod = w - r
      /\ w < r  => (w - r) % IndexMod = w - r + IndexMod
  BY Difference
<1>2. ASSUME (w - r) % IndexMod < IndexMod - 1
      PROVE  (Increment(w) - r) % IndexMod = ((w - r) % IndexMod) + 1
  <2>1. Increment(w) \in Indices
    BY IncrementCases
  <2>2. /\ r <= Increment(w) => (Increment(w) - r) % IndexMod = Increment(w) - r
        /\ Increment(w) < r  => (Increment(w) - r) % IndexMod = Increment(w) - r + IndexMod
    BY <2>1, Difference
  <2>3. CASE w + 1 < IndexMod
    BY <1>1, <1>2, <2>1, <2>2, <2>3, IncrementCases, QueueAssumption DEF Indices
  <2>4. CASE w + 1 = IndexMod
    <3>1. Increment(w) = 0 /\ r <= w
      BY <2>4, IncrementCases, QueueAssumption DEF Indices
    <3>2. (w - r) % IndexMod = w - r /\ r > 0
      BY <1>1, <1>2, <2>4, <3>1, QueueAssumption DEF Indices
    <3>3. (Increment(w) - r) % IndexMod = Increment(w) - r + IndexMod
      BY <2>2, <3>1, <3>2, QueueAssumption DEF Indices
    <3>4. QED
      BY <2>4, <3>1, <3>2, <3>3, QueueAssumption DEF Indices
  <2>5. QED
    BY <2>3, <2>4, QueueAssumption DEF Indices
<1>3. ASSUME (w - r) % IndexMod # 0
      PROVE  (w - Increment(r)) % IndexMod = ((w - r) % IndexMod) - 1
  <2>1. Increment(r) \in Indices
    BY IncrementCases
  <2>2. /\ Increment(r) <= w => (w - Increment(r)) % IndexMod = w - Increment(r)
        /\ w < Increment(r)  => (w - Increment(r)) % IndexMod = w - Increment(r) + IndexMod
    BY <2>1, Difference
  <2>3. CASE r + 1 < IndexMod
    BY <1>1, <1>3, <2>1, <2>2, <2>3, IncrementCases, QueueAssumption DEF Indices
  <2>4. CASE r + 1 = IndexMod
    BY <1>1, <1>3, <2>1, <2>2, <2>4, IncrementCases, QueueAssumption DEF Indices
  <2>5. QED
    BY <2>3, <2>4, QueueAssumption DEF Indices
<1>4. QED
  BY <1>2, <1>3

\* The array divides the index range, so wrapping an index leaves its slot.
LEMMA WholeTurns ==
  ASSUME NEW a \in Int
  PROVE  SlotOf(a + IndexMod) = SlotOf(a)
<1> DEFINE q == IndexMod \div MaxQueueMessages
           r == IndexMod % MaxQueueMessages
<1>1. q \in Int /\ IndexMod = MaxQueueMessages * q + r
  BY QueueAssumption, Division
<1>2. r = 0
  BY QueueAssumption
<1> HIDE DEF q, r
<1>3. IndexMod = MaxQueueMessages * q
  BY <1>1, <1>2, QueueAssumption
<1>4. \A n \in Nat \ {0} : (a + n * q) % n = a % n
  BY <1>1, ModShift
<1>5. (a + MaxQueueMessages * q) % MaxQueueMessages = a % MaxQueueMessages
  BY <1>4, QueueAssumption
<1>6. QED
  BY <1>3, <1>5 DEF SlotOf

\* Hence the mask and the wrap agree: advancing an index advances the slots
\* counted from it by one, wrapped or not.
LEMMA SlotAfterIncrement ==
  ASSUME NEW r \in Indices, NEW k \in Nat
  PROVE  SlotOf(Increment(r) + k) = SlotOf(r + 1 + k)
<1>1. CASE r + 1 < IndexMod
  BY <1>1, IncrementCases
<1>2. CASE r + 1 = IndexMod
  <2>1. Increment(r) + k = k /\ r + 1 + k = k + IndexMod
    BY <1>2, IncrementCases, QueueAssumption DEF Indices
  <2>2. QED
    BY <2>1, WholeTurns
<1>3. QED
  BY <1>1, <1>2, QueueAssumption DEF Indices

\* The slot the writer fills next is the one just past the queued ones.
LEMMA WriteSlot ==
  ASSUME NEW w \in Indices, NEW r \in Indices
  PROVE  SlotOf(w) = SlotOf(r + ((w - r) % IndexMod))
<1>1. CASE r <= w
  BY <1>1, Difference, QueueAssumption DEF Indices
<1>2. CASE w < r
  <2>1. r + ((w - r) % IndexMod) = w + IndexMod
    BY <1>2, Difference, QueueAssumption DEF Indices
  <2>2. QED
    BY <2>1, WholeTurns DEF Indices
<1>3. QED
  BY <1>1, <1>2 DEF Indices

-----------------------------------------------------------------------------
\* Within the array the slots counted from an index are all different.
LEMMA SlotsFromIndex ==
  ASSUME NEW a \in Int
  PROVE  /\ SlotOf(a) \in Slots
         /\ \A j, k \in Slots : SlotOf(a + j) = SlotOf(a + k) => j = k
<1>1. SlotOf(a) \in Slots
  BY QueueAssumption, Division DEF SlotOf, Slots
<1>2. ASSUME NEW j \in Slots, NEW k \in Slots, SlotOf(a + j) = SlotOf(a + k)
      PROVE  j = k
  BY <1>2, QueueAssumption, SlotsDistinct DEF SlotOf, Slots
<1>3. QED
  BY <1>1, <1>2

\* What each operation does to the count, and where add_frame writes.
LEMMA AddFrameCount ==
  ASSUME QueueInv, NEW msg \in Frames, AddFrame(msg)
  PROVE  /\ ElementsIn \in Nat
         /\ ElementsIn < MaxQueueMessages
         /\ ElementsIn' = ElementsIn + 1
         /\ SlotOf(queueWriteIndex) = SlotOf(queueReadIndex + ElementsIn)
<1> USE DEF QueueInv, QueueTypeOK
<1>1. ElementsIn \in Indices
  BY Difference DEF ElementsIn
<1>2. ElementsIn < MaxQueueMessages
  BY <1>1, QueueAssumption DEF AddFrame, Indices
<1>3. ElementsIn' = ElementsIn + 1
  BY <1>1, <1>2, CountSteps, QueueAssumption DEF AddFrame, ElementsIn, Indices
<1>4. QED
  BY <1>1, <1>2, <1>3, WriteSlot DEF ElementsIn, Indices

\* get_frame takes exactly one of a queue that is not empty.
LEMMA GetFrameCount ==
  ASSUME QueueInv, GetFrame
  PROVE  /\ ElementsIn \in Nat \ {0}
         /\ ElementsIn' = ElementsIn - 1
<1> USE DEF QueueInv, QueueTypeOK
<1>1. ElementsIn \in Indices
  BY Difference DEF ElementsIn
<1>2. QED
  BY <1>1, CountSteps, QueueAssumption DEF GetFrame, ElementsIn, Indices

\* At boot the queue is empty.
LEMMA QueueInitInv == QueueInit => QueueInv
<1> SUFFICES ASSUME QueueInit PROVE QueueInv
  OBVIOUS
<1>1. ElementsIn = 0
  <2>1. (0 - 0) % IndexMod = 0
    BY QueueAssumption, ModSmall
  <2>2. QED
    BY <2>1 DEF QueueInit, ElementsIn
<1>2. QueueTypeOK
  BY QueueAssumption DEF QueueInit, QueueTypeOK, Indices
<1>3. QED
  BY <1>1, <1>2, QueueAssumption DEF QueueInv, Slots

\* What get_frame answers is a frame, never an empty slot.
LEMMA GetFrameAnswersFrame ==
  ASSUME QueueInv, GetFrame
  PROVE  queueMessages[SlotOf(queueReadIndex)] \in Frames
<1>1. ElementsIn \in Nat \ {0}
  BY GetFrameCount
<1>2. 0 \in Slots /\ queueReadIndex + 0 = queueReadIndex
  BY QueueAssumption DEF QueueInv, QueueTypeOK, Indices, Slots
<1>3. QED
  BY <1>1, <1>2 DEF QueueInv

\* Every operation keeps the invariant, wherever the indices wrap.
LEMMA QueueNextInv == QueueInv /\ [QueueNext]_queueVars => QueueInv'
<1> SUFFICES ASSUME QueueInv, [QueueNext]_queueVars
             PROVE  QueueInv'
  OBVIOUS
<1>1. ASSUME NEW msg \in Frames, AddFrame(msg)
      PROVE  QueueInv'
  <2>1. /\ ElementsIn \in Nat
        /\ ElementsIn < MaxQueueMessages
        /\ ElementsIn' = ElementsIn + 1
        /\ SlotOf(queueWriteIndex) = SlotOf(queueReadIndex + ElementsIn)
    BY <1>1, AddFrameCount
  <2>2. SlotOf(queueWriteIndex) \in Slots
    BY SlotsFromIndex DEF QueueInv, QueueTypeOK, Indices
  <2>3. QueueTypeOK'
    BY <1>1, <2>2, IncrementCases DEF AddFrame, QueueInv, QueueTypeOK
  <2>4. ElementsIn' <= MaxQueueMessages
    BY <2>1, QueueAssumption
  <2>5. ASSUME NEW k \in Slots, k < ElementsIn'
        PROVE  queueMessages'[SlotOf(queueReadIndex' + k)] \in Frames
    <3>1. SlotOf(queueReadIndex + k) \in Slots
      <4>1. queueReadIndex + k \in Int
        BY DEF QueueInv, QueueTypeOK, Indices, Slots
      <4>2. QED
        BY <4>1, SlotsFromIndex
    <3>2. CASE k = ElementsIn
      BY <1>1, <2>1, <2>2, <3>2 DEF AddFrame, QueueInv, QueueTypeOK
    <3>3. CASE k < ElementsIn
      BY <1>1, <3>1, <3>3, <2>2 DEF AddFrame, QueueInv, QueueTypeOK
    <3>4. QED
      BY <2>1, <2>5, <3>2, <3>3 DEF Slots
  <2>6. QED
    BY <2>3, <2>4, <2>5 DEF QueueInv
<1>2. CASE GetFrame
  <2>1. ElementsIn \in Nat \ {0} /\ ElementsIn' = ElementsIn - 1
    BY <1>2, GetFrameCount
  <2>2. queueMessages[SlotOf(queueReadIndex)] \in Frames
    BY <1>2, GetFrameAnswersFrame
  <2>3. QueueTypeOK'
    BY <1>2, <2>2, IncrementCases DEF GetFrame, QueueInv, QueueTypeOK
  <2>4. ElementsIn' <= MaxQueueMessages
    BY <2>1, QueueAssumption DEF QueueInv
  <2>5. ASSUME NEW k \in Slots, k < ElementsIn'
        PROVE  queueMessages'[SlotOf(queueReadIndex' + k)] \in Frames
    <3>1. k \in Nat /\ k + 1 \in Slots /\ k + 1 < ElementsIn
      BY <2>1, <2>5, QueueAssumption DEF QueueInv, Slots
    <3>2. SlotOf(queueReadIndex' + k) = SlotOf(queueReadIndex + (k + 1))
      <4>1. SlotOf(Increment(queueReadIndex) + k) = SlotOf(queueReadIndex + 1 + k)
        BY <3>1, SlotAfterIncrement DEF QueueInv, QueueTypeOK
      <4>2. queueReadIndex + 1 + k = queueReadIndex + (k + 1)
        BY <3>1 DEF QueueInv, QueueTypeOK, Indices
      <4>3. QED
        BY <1>2, <4>1, <4>2 DEF GetFrame
    <3>3. QED
      BY <1>2, <3>1, <3>2 DEF GetFrame, QueueInv
  <2>6. QED
    BY <2>3, <2>4, <2>5 DEF QueueInv
<1>3. CASE GetFrameEmpty
  BY <1>3 DEF GetFrameEmpty, QueueInv, QueueTypeOK, ElementsIn
<1>4. CASE UNCHANGED queueVars
  BY <1>4 DEF queueVars, QueueInv, QueueTypeOK, ElementsIn
<1>5. CASE AddFrameFull
  BY <1>4, <1>5 DEF AddFrameFull
<1>6. QED
  BY <1>1, <1>2, <1>3, <1>4, <1>5 DEF QueueNext

\* The invariant of the queue holds for every array size, index width and set
\* of frames: the count never exceeds the array although the indices wrap, and
\* get_frame never returns a slot that add_frame did not fill.
THEOREM QueueCorrect == QueueSpec => []QueueInv
  BY QueueInitInv, QueueNextInv, PTL DEF QueueSpec

-----------------------------------------------------------------------------
\* The sequence the queue stands for: its length and its elements.
LEMMA QueuedSequence ==
  QueueInv => /\ Queued \in Seq(Frames)
              /\ Len(Queued) = ElementsIn
              /\ \A i \in 1 .. ElementsIn :
                   Queued[i] = queueMessages[SlotOf(queueReadIndex + i - 1)]
<1> SUFFICES ASSUME QueueInv
             PROVE  /\ Queued \in Seq(Frames)
                    /\ Len(Queued) = ElementsIn
                    /\ \A i \in 1 .. ElementsIn :
                         Queued[i] = queueMessages[SlotOf(queueReadIndex + i - 1)]
  OBVIOUS
<1>1. ElementsIn \in Nat
  BY Difference, QueueAssumption DEF ElementsIn, QueueInv, QueueTypeOK, Indices
<1>2. ASSUME NEW i \in 1 .. ElementsIn
      PROVE  queueMessages[SlotOf(queueReadIndex + i - 1)] \in Frames
  <2>1. i - 1 \in Slots /\ i - 1 < ElementsIn
    BY <1>1, QueueAssumption DEF QueueInv, Slots
  <2>2. queueReadIndex + (i - 1) = queueReadIndex + i - 1
    BY DEF QueueInv, QueueTypeOK, Indices
  <2>3. QED
    BY <2>1, <2>2 DEF QueueInv
<1>3. QED
  BY <1>1, <1>2 DEF Queued

\* The queue implements the bounded FIFO for every array size, index width and
\* set of frames: each add_frame is a Put or a Lose, each get_frame a Take or a
\* TakeNothing of the sequence the slots stand for.
THEOREM QueueImplementsFifo == QueueSpec => ImplementsFifo
<1>1. QueueInit => Fifo!Init
  <2> SUFFICES ASSUME QueueInit PROVE Fifo!Init
    OBVIOUS
  <2>1. ElementsIn = 0
    <3>1. (0 - 0) % IndexMod = 0
      BY QueueAssumption, ModSmall
    <3>2. QED
      BY <3>1 DEF QueueInit, ElementsIn
  <2>2. QED
    BY <2>1 DEF QueueInit, Fifo!Init, Queued
<1>2. QueueInv /\ QueueInv' /\ [QueueNext]_queueVars => [Fifo!Next]_Fifo!vars
  <2> SUFFICES ASSUME QueueInv, QueueInv', [QueueNext]_queueVars
               PROVE  [Fifo!Next]_Fifo!vars
    OBVIOUS
  <2>1. /\ Queued \in Seq(Frames)
        /\ Len(Queued) = ElementsIn
        /\ \A i \in 1 .. ElementsIn :
             Queued[i] = queueMessages[SlotOf(queueReadIndex + i - 1)]
    BY QueuedSequence
  <2>0. (Queued \in Seq(Frames))' /\ (Len(Queued) = ElementsIn)'
    BY QueuedSequence, PTL
  <2>2. ASSUME NEW msg \in Frames, AddFrame(msg)
        PROVE  Fifo!Put(msg)
    <3>1. /\ ElementsIn \in Nat
          /\ ElementsIn < MaxQueueMessages
          /\ ElementsIn' = ElementsIn + 1
          /\ SlotOf(queueWriteIndex) = SlotOf(queueReadIndex + ElementsIn)
      BY <2>2, AddFrameCount
    <3>2. SlotOf(queueWriteIndex) \in Slots
      BY SlotsFromIndex DEF QueueInv, QueueTypeOK, Indices
    <3>3. ASSUME NEW i \in 1 .. ElementsIn
          PROVE  queueMessages'[SlotOf(queueReadIndex' + i - 1)] = Queued[i]
      <4>1. /\ i - 1 \in Slots
            /\ ElementsIn \in Slots
            /\ i - 1 # ElementsIn
            /\ queueReadIndex \in Int
            /\ queueReadIndex + (i - 1) = queueReadIndex + i - 1
            /\ queueReadIndex + i - 1 \in Int
        BY <3>1, QueueAssumption DEF Slots, QueueInv, QueueTypeOK, Indices
      <4>2. SlotOf(queueReadIndex + i - 1) # SlotOf(queueWriteIndex)
        BY <3>1, <4>1, SlotsFromIndex
      <4>3. SlotOf(queueReadIndex + i - 1) \in Slots
        BY <4>1, SlotsFromIndex
      <4>4. QED
        BY <2>1, <2>2, <3>2, <4>2, <4>3 DEF AddFrame, QueueInv, QueueTypeOK
    <3>4. queueMessages'[SlotOf(queueReadIndex' + ElementsIn' - 1)] = msg
      <4>1. queueReadIndex + (ElementsIn + 1) - 1 = queueReadIndex + ElementsIn
        BY <3>1 DEF QueueInv, QueueTypeOK, Indices
      <4>2. QED
        BY <2>2, <3>1, <3>2, <4>1 DEF AddFrame, QueueInv, QueueTypeOK
    <3>5. Queued' = [i \in 1 .. ElementsIn + 1 |->
                       IF i <= ElementsIn THEN Queued[i] ELSE msg]
      BY <3>1, <3>3, <3>4 DEF Queued
    <3>6. Queued' = Append(Queued, msg)
      <4>1. /\ Append(Queued, msg) \in Seq(Frames)
            /\ Len(Append(Queued, msg)) = ElementsIn + 1
            /\ \A i \in 1 .. ElementsIn : Append(Queued, msg)[i] = Queued[i]
            /\ Append(Queued, msg)[ElementsIn + 1] = msg
        BY <2>1, AppendProperties
      <4>2. /\ Queued' \in Seq(Frames)
            /\ Len(Queued') = ElementsIn + 1
        BY <3>1, <2>0
      <4>3. \A i \in 1 .. ElementsIn + 1 : Queued'[i] = Append(Queued, msg)[i]
        BY <3>1, <3>5, <4>1
      <4>4. QED
        BY <4>1, <4>2, <4>3, SeqEqual
    <3>7. QED
      BY <2>1, <2>2, <3>1, <3>6 DEF Fifo!Put, AddFrame
  <2>3. CASE GetFrame
    <3>1. ElementsIn \in Nat \ {0} /\ ElementsIn' = ElementsIn - 1
      BY <2>3, GetFrameCount
    <3>2. message' = Head(Queued) /\ Queued # <<>>
      <4>1. queueReadIndex + 1 - 1 = queueReadIndex
        BY DEF QueueInv, QueueTypeOK, Indices
      <4>2. QED
        BY <2>1, <2>3, <3>1, <4>1 DEF GetFrame
    <3>3. ASSUME NEW i \in 1 .. ElementsIn - 1
          PROVE  queueMessages'[SlotOf(queueReadIndex' + i - 1)] = Queued[i + 1]
      <4>1. i - 1 \in Nat /\ i + 1 \in 1 .. ElementsIn
        BY <3>1
      <4>2. SlotOf(Increment(queueReadIndex) + (i - 1)) = SlotOf(queueReadIndex + 1 + (i - 1))
        BY <4>1, SlotAfterIncrement DEF QueueInv, QueueTypeOK
      <4>3. /\ queueReadIndex + 1 + (i - 1) = queueReadIndex + (i + 1) - 1
            /\ Increment(queueReadIndex) + (i - 1) = Increment(queueReadIndex) + i - 1
        BY <4>1, IncrementCases, QueueAssumption DEF QueueInv, QueueTypeOK, Indices
      <4>4. QED
        BY <2>1, <2>3, <4>1, <4>2, <4>3 DEF GetFrame
    <3>4. Queued' = [i \in 1 .. ElementsIn - 1 |-> Queued[i + 1]]
      BY <3>1, <3>3 DEF Queued
    <3>5. Queued' = Tail(Queued)
      <4>1. /\ Tail(Queued) \in Seq(Frames)
            /\ Len(Tail(Queued)) = ElementsIn - 1
            /\ \A i \in 1 .. Len(Tail(Queued)) : Tail(Queued)[i] = Queued[i + 1]
        BY <2>1, <3>2, HeadTailProperties
      <4>2. /\ Queued' \in Seq(Frames)
            /\ Len(Queued') = ElementsIn - 1
        BY <3>1, <2>0
      <4>3. \A i \in 1 .. ElementsIn - 1 : Queued'[i] = Tail(Queued)[i]
        BY <3>1, <3>4, <4>1
      <4>4. QED
        BY <4>1, <4>2, <4>3, SeqEqual
    <3>6. QED
      BY <3>2, <3>5 DEF Fifo!Next, Fifo!Take
  <2>4. CASE GetFrameEmpty
    <3>1. Queued' = Queued
      BY <2>4 DEF GetFrameEmpty, Queued, ElementsIn
    <3>2. Queued = <<>>
      BY <2>1, <2>4 DEF GetFrameEmpty
    <3>3. QED
      BY <2>4, <3>1, <3>2 DEF GetFrameEmpty, Fifo!Next, Fifo!TakeNothing
  <2>5. CASE UNCHANGED queueVars
    BY <2>5 DEF queueVars, Queued, ElementsIn, Fifo!vars
  <2>6. CASE AddFrameFull
    BY <2>5, <2>6 DEF AddFrameFull
  <2>7. QED
    BY <2>2, <2>3, <2>4, <2>5, <2>6 DEF QueueNext, Fifo!Next
<1>3. QED
  BY <1>1, <1>2, QueueCorrect, PTL DEF QueueSpec, ImplementsFifo, Fifo!Spec

-----------------------------------------------------------------------------
(* The pipeline: the invariant of the buffers.                             *)

\* The buffer of picture n in a session that set its buffers up after picture
\* start: the decoder starts at buffer 0 and never skips one.
Buffer(n, start) == (n - start - 1) % NumBuffers

\* Pictures that have left the decoder's hands, and the newest one written.
Filled == IF decoder = "queue" THEN nextFrame - 1 ELSE nextFrame
Newest == IF decoder = "copy" THEN nextFrame + 1 ELSE nextFrame

\* The decoder thread runs in a session only, and within the bound.
ThreadInv ==
  /\ sessionStart <= Filled
  /\ decoder = "copy" => nextFrame < MaxFrames
  /\ drawer = "menu" => decoder = "none"

\* What a slot was queued for tells the buffer it points to.
TagInv ==
  /\ \A s \in Slots :
       /\ tags[s] <= nextFrame
       /\ tags[s] > sessionStart => queueMessages[s] = Buffer(tags[s], sessionStart)
  /\ drawTag <= nextFrame
  /\ Drawing =>
       /\ message \in Frames
       /\ drawTag > sessionStart => message = Buffer(drawTag, sessionStart)

\* What buffer b holds in a session: nothing as long as the session has not
\* come to it, and then the newest of its pictures.
Holds(b, held, newest, start) ==
  \/ held = Garbage /\ newest - start <= b
  \/ /\ held > start
     /\ held <= newest
     /\ held > newest - NumBuffers
     /\ Buffer(held, start) = b

PlanesInv ==
  drawer # "menu" =>
    /\ currentTexture = Buffer(Filled + 1, sessionStart)
    /\ \A b \in Frames : Holds(b, planes[b], Newest, sessionStart)

VInv == QueueInv /\ TypeOK /\ ThreadInv /\ TagInv /\ PlanesInv

\* A picture's buffer is one of the buffers, and the next picture has the next.
LEMMA BufferSteps ==
  ASSUME NEW n \in Int, NEW start \in Int
  PROVE  /\ Buffer(n, start) \in Frames
         /\ Buffer(n + 1, start) =
              IF Buffer(n, start) + 1 >= NumBuffers THEN 0 ELSE Buffer(n, start) + 1
<1>1. n - start - 1 \in Int
  OBVIOUS
<1>2. n + 1 - start - 1 = (n - start - 1) + 1
  OBVIOUS
<1>3. (n - start - 1) % NumBuffers \in 0 .. NumBuffers - 1
  BY <1>1, PipelineAssumption, Division
<1>4. ((n - start - 1) + 1) % NumBuffers =
        IF ((n - start - 1) % NumBuffers) + 1 >= NumBuffers
          THEN 0 ELSE ((n - start - 1) % NumBuffers) + 1
  BY <1>1, PipelineAssumption, ModNext
<1>5. Buffer(n + 1, start) = ((n - start - 1) + 1) % NumBuffers
  BY <1>2 DEF Buffer
<1>6. QED
  BY <1>3, <1>4, <1>5, PipelineAssumption DEF Buffer

\* The buffer that is written holds the new picture.
LEMMA HoldsCopied ==
  ASSUME NEW n \in Nat, NEW start \in Nat, start <= n
  PROVE  Holds(Buffer(n + 1, start), n + 1, n + 1, start)
BY PipelineAssumption DEF Holds

\* The other buffers still hold what they should: a buffer that was never
\* written is not the one whose turn it was, and neither is one whose picture
\* has just become too old.
LEMMA HoldsElsewhere ==
  ASSUME NEW n \in Nat, NEW start \in Nat, start <= n, NEW b \in Frames,
         NEW held \in Int, b # Buffer(n + 1, start), Holds(b, held, n, start)
  PROVE  Holds(b, held, n + 1, start)
<1>1. n + 1 - start - 1 = n - start
  OBVIOUS
<1>2. Buffer(n + 1, start) = (n - start) % NumBuffers
  BY <1>1 DEF Buffer
<1>3. b \in 0 .. NumBuffers - 1
  BY PipelineAssumption
<1>4. CASE held = Garbage /\ n - start <= b
  <2>1. n - start # b
    <3> SUFFICES ASSUME n - start = b PROVE FALSE
      OBVIOUS
    <3>1. b % NumBuffers = b
      BY <1>3, PipelineAssumption, ModSmall
    <3>2. QED
      BY <1>2, <3>1
  <2>2. n + 1 - start <= b
    BY <1>3, <1>4, <2>1
  <2>3. QED
    BY <1>4, <2>2 DEF Holds
<1>5. CASE /\ held > start
           /\ held <= n
           /\ held > n - NumBuffers
           /\ Buffer(held, start) = b
  <2>1. held # n + 1 - NumBuffers
    <3> SUFFICES ASSUME held = n + 1 - NumBuffers PROVE FALSE
      OBVIOUS
    <3> DEFINE a == held - start - 1
               q == 1
    <3>1. a \in Int /\ q \in Int /\ n - start = a + NumBuffers * q
      BY PipelineAssumption
    <3> HIDE DEF a, q
    <3>2. (a + NumBuffers * q) % NumBuffers = a % NumBuffers
      BY <3>1, PipelineAssumption, ModShift
    <3>3. QED
      BY <1>2, <1>5, <3>1, <3>2 DEF Buffer, a
  <2>2. held > n + 1 - NumBuffers /\ held <= n + 1
    BY <1>5, <2>1, PipelineAssumption
  <2>3. QED
    BY <1>5, <2>2, PipelineAssumption DEF Holds
<1>6. (held = Garbage /\ n - start <= b) \/
        /\ held > start
        /\ held <= n
        /\ held > n - NumBuffers
        /\ Buffer(held, start) = b
  BY DEF Holds
<1>7. QED
  BY <1>4, <1>5, <1>6, Zenon

\* What an entry queued for picture n of the session shows: that picture, or
\* one whole turns of the buffers later.
LEMMA HoldsNotOlder ==
  ASSUME NEW n \in Nat, NEW newest \in Nat, NEW start \in Nat,
         start < n, n <= newest, NEW held \in Int,
         Holds(Buffer(n, start), held, newest, start)
  PROVE  held > start /\ held >= n /\ (held - n) % NumBuffers = 0
<1>1. ~ (newest - start <= Buffer(n, start))
  <2>1. (n - start - 1) % NumBuffers <= n - start - 1
    <3>1. n - start - 1 \in Nat
      OBVIOUS
    <3>2. QED
      BY <3>1, PipelineAssumption, ModAtMost
  <2>2. Buffer(n, start) \in Int
    BY BufferSteps, PipelineAssumption
  <2>3. QED
    BY <2>1, <2>2 DEF Buffer
<1>2. /\ held > start
      /\ held <= newest
      /\ held > newest - NumBuffers
      /\ Buffer(held, start) = Buffer(n, start)
  BY <1>1 DEF Holds
<1>3. /\ held - start - 1 \in Int
      /\ n - start - 1 \in Int
      /\ (held - start - 1) - (n - start - 1) = held - n
      /\ held - n > -NumBuffers
  BY <1>2, PipelineAssumption
<1>4. (held - start - 1) % NumBuffers = (n - start - 1) % NumBuffers
  BY <1>2 DEF Buffer
<1>5. /\ ((held - start - 1) - (n - start - 1)) % NumBuffers = 0
      /\ (held - start - 1) - (n - start - 1) > -NumBuffers
           => (held - start - 1) - (n - start - 1) >= 0
  BY <1>3, <1>4, PipelineAssumption, ModDifference
<1>6. QED
  BY <1>2, <1>3, <1>5

\* A step of the pipeline is an operation of the queue or leaves the queue.
LEMMA PipelineUsesQueue ==
  TypeOK /\ [Next]_vars => [QueueNext]_queueVars
<1> SUFFICES ASSUME TypeOK, [Next]_vars PROVE [QueueNext]_queueVars
  OBVIOUS
<1>1. CASE Session
  BY <1>1 DEF Session, SetupVideo, SetupFailsAtBuffer, SetupFailsLate,
      ConnectionStarted, StopConnection, CleanupVideo
<1>2. CASE CopyBegin \/ CopyEnd \/ DecoderExit
  BY <1>2 DEF CopyBegin, CopyEnd, DecoderExit
<1>3. CASE QueuePicture
  BY <1>3 DEF QueuePicture, TypeOK, QueueNext
<1>4. CASE DrawLoop
  BY <1>4 DEF DrawLoop, DrawBegin, DrawNothing, DrawEnd, QueueNext
<1>5. CASE UNCHANGED vars
  BY <1>5 DEF vars
<1>6. QED
  BY <1>1, <1>2, <1>3, <1>4, <1>5 DEF Next, DecoderThread

\* At boot no session runs, and every slot is an empty one.
LEMMA PipelineInitInv == Init => VInv
<1> SUFFICES ASSUME Init PROVE VInv
  OBVIOUS
<1>1. QueueInv
  BY QueueInitInv DEF Init
<1>2. TypeOK
  BY <1>1, PipelineAssumption DEF Init, TypeOK, QueueInv, Numbers, NullPlanes
<1>3. ThreadInv /\ TagInv /\ PlanesInv
  BY DEF Init, ThreadInv, TagInv, PlanesInv, Filled, Drawing
<1>4. QED
  BY <1>1, <1>2, <1>3 DEF VInv

-----------------------------------------------------------------------------
(* The steps of the pipeline keep the invariant.  QueueInv is kept by the  *)
(* operations of the queue, whatever the rest of the step does.            *)

\* Setting up a session makes all its pictures newer than everything queued,
\* and no buffer has been written yet.
LEMMA SetupKeeps == VInv /\ QueueInv' /\ SetupVideo => VInv'
<1> SUFFICES ASSUME VInv, QueueInv', SetupVideo PROVE VInv'
  OBVIOUS
<1> USE DEF SetupVideo
<1>1. TypeOK'
  BY PipelineAssumption DEF VInv, TypeOK, QueueInv, Numbers, Garbage
<1>2. ThreadInv'
  BY DEF VInv, ThreadInv, TypeOK, Numbers, Filled
<1>3. TagInv'
  BY DEF VInv, TagInv, TypeOK, Numbers, Drawing, queueVars
<1>4. PlanesInv'
  <2>1. Filled' = nextFrame /\ Newest' = nextFrame
    BY DEF Filled, Newest
  <2>2. Buffer(nextFrame + 1, nextFrame) = 0
    <3> DEFINE a == (nextFrame + 1) - nextFrame - 1
    <3>1. a = 0
      BY PipelineAssumption DEF VInv, TypeOK, Numbers
    <3>2. Buffer(nextFrame + 1, nextFrame) = a % NumBuffers
      BY DEF Buffer
    <3> HIDE DEF a
    <3>3. a % NumBuffers = a
      BY <3>1, PipelineAssumption, ModSmall
    <3>4. QED
      BY <3>1, <3>2, <3>3
  <2>3. ASSUME NEW b \in Frames PROVE Holds(b, planes'[b], nextFrame, nextFrame)
    BY PipelineAssumption DEF VInv, TypeOK, Numbers, Holds
  <2>4. QED
    BY <2>1, <2>2, <2>3 DEF PlanesInv
<1>5. QED
  BY <1>1, <1>2, <1>3, <1>4 DEF VInv

\* The other steps of a session touch the buffers only outside of it.
LEMMA SessionKeeps ==
  VInv /\ QueueInv' /\ Session => VInv'
<1> SUFFICES ASSUME VInv, QueueInv', Session PROVE VInv'
  OBVIOUS
<1>1. CASE SetupVideo
  BY <1>1, SetupKeeps
<1>2. CASE (\E b \in Frames : SetupFailsAtBuffer(b)) \/ SetupFailsLate
  <2> USE <1>2 DEF SetupFailsAtBuffer, SetupFailsLate, auxVars
  <2>1. TypeOK'
    <3>1. planes' \in [Frames -> {NullPlanes} \cup Numbers]
      BY PipelineAssumption DEF VInv, TypeOK, Garbage, Numbers
    <3>2. currentTexture' \in Frames
      BY PipelineAssumption DEF VInv, TypeOK
    <3>3. UNCHANGED <<nextFrame, decoder, drawer, sessionStart, tags, drawTag>>
      OBVIOUS
    <3>4. QED
      BY <3>1, <3>2, <3>3 DEF VInv, TypeOK, QueueInv
  <2>2. ThreadInv'
    BY DEF VInv, ThreadInv, Filled
  <2>3. TagInv'
    BY DEF VInv, TagInv, Drawing, queueVars
  <2>4. PlanesInv'
    BY DEF PlanesInv
  <2>5. QED
    BY <2>1, <2>2, <2>3, <2>4 DEF VInv
<1>3. CASE ConnectionStarted \/ StopConnection
  <2> USE <1>3 DEF ConnectionStarted, StopConnection, auxVars
  <2>1. TypeOK'
    BY DEF VInv, TypeOK, QueueInv
  <2>2. ThreadInv'
    BY DEF VInv, ThreadInv, Filled
  <2>3. TagInv'
    BY DEF VInv, TagInv, Drawing, queueVars
  <2>4. PlanesInv'
    BY DEF VInv, PlanesInv, Filled, Newest
  <2>5. QED
    BY <2>1, <2>2, <2>3, <2>4 DEF VInv
<1>4. CASE CleanupVideo
  <2> USE <1>4 DEF CleanupVideo, auxVars
  <2>1. TypeOK'
    BY DEF VInv, TypeOK, QueueInv
  <2>2. ThreadInv'
    BY DEF VInv, ThreadInv, Filled
  <2>3. TagInv'
    BY DEF VInv, TagInv, Drawing, queueVars
  <2>4. PlanesInv'
    BY DEF PlanesInv
  <2>5. QED
    BY <2>1, <2>2, <2>3, <2>4 DEF VInv
<1>5. QED
  BY <1>1, <1>2, <1>3, <1>4 DEF Session

\* Writing the next picture: the buffer under the decoder's hands already
\* counts as holding it, so a drawing main thread sees a newer picture there,
\* never an older one.
LEMMA CopyKeeps ==
  VInv /\ QueueInv' /\ (CopyBegin \/ CopyEnd \/ DecoderExit) => VInv'
<1> SUFFICES ASSUME VInv, QueueInv', CopyBegin \/ CopyEnd \/ DecoderExit PROVE VInv'
  OBVIOUS
<1>1. CASE CopyBegin
  <2> USE <1>1 DEF CopyBegin, auxVars
  <2>1. TypeOK'
    BY PipelineAssumption DEF VInv, TypeOK, QueueInv, Numbers
  <2>2. ThreadInv'
    BY DEF VInv, ThreadInv, Filled
  <2>3. TagInv'
    BY DEF VInv, TagInv, Drawing, queueVars
  <2>4. PlanesInv'
    <3> SUFFICES ASSUME drawer # "menu" PROVE PlanesInv'
      BY DEF PlanesInv
    <3>1. /\ Filled = nextFrame /\ Filled' = nextFrame
          /\ Newest = nextFrame /\ Newest' = nextFrame + 1
      BY DEF Filled, Newest
    <3>2. /\ nextFrame \in Nat /\ sessionStart \in Nat /\ sessionStart <= nextFrame
          /\ currentTexture = Buffer(nextFrame + 1, sessionStart)
          /\ \A b \in Frames : Holds(b, planes[b], nextFrame, sessionStart)
          /\ planes \in [Frames -> Int] /\ currentTexture \in Frames
      BY <3>1, PipelineAssumption DEF VInv, ThreadInv, PlanesInv, TypeOK, Numbers, NullPlanes
    <3>3. ASSUME NEW b \in Frames
          PROVE  Holds(b, planes'[b], nextFrame + 1, sessionStart)
      <4>1. CASE b = currentTexture
        BY <3>2, <4>1, HoldsCopied
      <4>2. CASE b # currentTexture
        <5>1. planes'[b] = planes[b] /\ planes[b] \in Int
          BY <3>2, <4>2
        <5>2. Holds(b, planes[b], nextFrame + 1, sessionStart)
          BY <3>2, <4>2, <5>1, HoldsElsewhere
        <5>3. QED
          BY <5>1, <5>2
      <4>3. QED
        BY <4>1, <4>2
    <3>4. QED
      BY <3>1, <3>2, <3>3 DEF PlanesInv
  <2>5. QED
    BY <2>1, <2>2, <2>3, <2>4 DEF VInv
<1>2. CASE CopyEnd
  <2> USE <1>2 DEF CopyEnd, auxVars
  <2>0. nextFrame \in Nat /\ sessionStart \in Nat /\ nextFrame < MaxFrames
    BY PipelineAssumption DEF VInv, ThreadInv, TypeOK, Numbers
  <2>1. TypeOK'
    BY <2>0, PipelineAssumption DEF VInv, TypeOK, QueueInv, Numbers
  <2>2. ThreadInv'
    BY <2>0 DEF VInv, ThreadInv, Filled
  <2>3. TagInv'
    <3>1. ASSUME NEW s \in Slots
          PROVE  tags[s] <= nextFrame + 1
      BY <2>0, PipelineAssumption DEF VInv, TagInv, TypeOK, Numbers
    <3>2. drawTag <= nextFrame + 1
      BY <2>0, PipelineAssumption DEF VInv, TagInv, TypeOK, Numbers
    <3>3. QED
      BY <3>1, <3>2 DEF VInv, TagInv, Drawing, queueVars
  <2>4. PlanesInv'
    <3>1. Filled' = Filled /\ Newest' = Newest
      BY <2>0 DEF Filled, Newest
    <3>2. QED
      BY <3>1 DEF VInv, PlanesInv
  <2>5. QED
    BY <2>1, <2>2, <2>3, <2>4 DEF VInv
<1>3. CASE DecoderExit
  <2> USE <1>3 DEF DecoderExit, auxVars
  <2>1. TypeOK'
    BY DEF VInv, TypeOK, QueueInv
  <2>2. ThreadInv'
    BY DEF VInv, ThreadInv, Filled
  <2>3. TagInv'
    BY DEF VInv, TagInv, Drawing, queueVars
  <2>4. PlanesInv'
    BY DEF VInv, PlanesInv, Filled, Newest
  <2>5. QED
    BY <2>1, <2>2, <2>3, <2>4 DEF VInv
<1>4. QED
  BY <1>1, <1>2, <1>3

\* Queueing the picture, or losing it on a full queue: the buffer advances in
\* both cases, so picture and buffer numbers stay in step.
LEMMA QueuePictureKeeps == VInv /\ QueueInv' /\ QueuePicture => VInv'
<1> SUFFICES ASSUME VInv, QueueInv', QueuePicture PROVE VInv'
  OBVIOUS
<1> USE DEF QueuePicture
<1>0. /\ nextFrame \in Nat /\ sessionStart \in Nat
      /\ Filled = nextFrame - 1 /\ Newest = nextFrame
      /\ Filled' = nextFrame /\ Newest' = nextFrame
      /\ sessionStart <= nextFrame - 1
      /\ drawer # "menu"
  BY PipelineAssumption DEF VInv, ThreadInv, TypeOK, Numbers, Filled, Newest
<1>1. currentTexture = Buffer(nextFrame, sessionStart)
  <2>1. nextFrame - 1 + 1 = nextFrame
    BY <1>0
  <2>2. QED
    BY <1>0, <2>1 DEF VInv, PlanesInv
<1>2. currentTexture' = Buffer(nextFrame + 1, sessionStart) /\ currentTexture' \in Frames
  <2>1. nextFrame \in Int /\ nextFrame + 1 \in Int /\ sessionStart \in Int
    BY <1>0
  <2>2. QED
    BY <1>1, <2>1, BufferSteps DEF NextTexture
<1>3. TypeOK'
  BY <1>2 DEF VInv, TypeOK, QueueInv
<1>4. ThreadInv'
  BY <1>0 DEF VInv, ThreadInv
<1>5. TagInv'
  <2>1. CASE AddFrame(currentTexture)
             /\ tags' = [tags EXCEPT ![SlotOf(queueWriteIndex)] = nextFrame]
    <3>1. SlotOf(queueWriteIndex) \in Slots
      BY SlotsFromIndex DEF VInv, QueueInv, QueueTypeOK, Indices
    <3>2. ASSUME NEW s \in Slots
          PROVE  /\ tags'[s] <= nextFrame
                 /\ tags'[s] > sessionStart
                      => queueMessages'[s] = Buffer(tags'[s], sessionStart)
      <4>1. CASE s = SlotOf(queueWriteIndex)
        <5>1. tags'[s] = nextFrame /\ queueMessages'[s] = currentTexture
          BY <2>1, <3>1, <4>1 DEF AddFrame, VInv, TypeOK, QueueInv, QueueTypeOK
        <5>2. QED
          BY <1>0, <1>1, <5>1
      <4>2. CASE s # SlotOf(queueWriteIndex)
        <5>1. tags'[s] = tags[s] /\ queueMessages'[s] = queueMessages[s]
          BY <2>1, <3>1, <4>2 DEF AddFrame, VInv, TypeOK, QueueInv, QueueTypeOK
        <5>2. QED
          BY <5>1 DEF VInv, TagInv
      <4>3. QED
        BY <4>1, <4>2
    <3>3. message' = message
      BY <2>1 DEF AddFrame
    <3>4. QED
      BY <3>2, <3>3 DEF VInv, TagInv, Drawing
  <2>2. CASE AddFrameFull /\ UNCHANGED tags
    BY <2>2 DEF AddFrameFull, queueVars, VInv, TagInv, Drawing
  <2>3. QED
    BY <2>1, <2>2
<1>6. PlanesInv'
  BY <1>0, <1>2 DEF VInv, PlanesInv
<1>7. QED
  BY <1>3, <1>4, <1>5, <1>6 DEF VInv

\* Drawing: get_frame answers the buffer of the slot's picture.
LEMMA DrawKeeps == VInv /\ QueueInv' /\ DrawLoop => VInv'
<1> SUFFICES ASSUME VInv, QueueInv', DrawLoop PROVE VInv'
  OBVIOUS
<1>1. CASE DrawBegin
  <2> USE <1>1 DEF DrawBegin
  <2>0. /\ SlotOf(queueReadIndex) \in Slots
        /\ queueMessages' = queueMessages
        /\ message' = queueMessages[SlotOf(queueReadIndex)]
        /\ message' \in Frames
    BY SlotsFromIndex, GetFrameAnswersFrame
    DEF GetFrame, VInv, QueueInv, QueueTypeOK, Indices
  <2>1. TypeOK'
    BY <2>0 DEF VInv, TypeOK, QueueInv
  <2>2. ThreadInv'
    BY DEF VInv, ThreadInv, Filled
  <2>3. TagInv'
    BY <2>0 DEF VInv, TagInv, Drawing
  <2>4. PlanesInv'
    BY DEF VInv, PlanesInv, Filled, Newest
  <2>5. QED
    BY <2>1, <2>2, <2>3, <2>4 DEF VInv
<1>2. CASE DrawNothing \/ DrawEnd
  <2> USE <1>2 DEF DrawNothing, DrawEnd, GetFrameEmpty, pipelineVars, auxVars
  <2>1. TypeOK'
    BY DEF VInv, TypeOK, QueueInv
  <2>2. ThreadInv'
    BY DEF VInv, ThreadInv, Filled
  <2>3. TagInv'
    BY DEF VInv, TagInv, Drawing, queueVars
  <2>4. PlanesInv'
    BY DEF VInv, PlanesInv, Filled, Newest
  <2>5. QED
    BY <2>1, <2>2, <2>3, <2>4 DEF VInv
<1>3. QED
  BY <1>1, <1>2 DEF DrawLoop

\* Every step of the two threads keeps the invariant.
LEMMA PipelineNextInv == VInv /\ [Next]_vars => VInv'
<1> SUFFICES ASSUME VInv, [Next]_vars PROVE VInv'
  OBVIOUS
<1>1. QueueInv'
  BY PipelineUsesQueue, QueueNextInv DEF VInv
<1>2. CASE Next
  BY <1>1, <1>2, SessionKeeps, CopyKeeps, QueuePictureKeeps, DrawKeeps
  DEF Next, DecoderThread
<1>3. CASE UNCHANGED vars
  <2> USE <1>3 DEF vars, pipelineVars, auxVars
  <2>1. TypeOK'
    BY <1>1 DEF VInv, TypeOK, QueueInv
  <2>2. ThreadInv'
    BY DEF VInv, ThreadInv, Filled
  <2>3. TagInv'
    BY DEF VInv, TagInv, Drawing, queueVars
  <2>4. PlanesInv'
    BY DEF VInv, PlanesInv, Filled, Newest
  <2>5. QED
    BY <1>1, <2>1, <2>2, <2>3, <2>4 DEF VInv
<1>4. QED
  BY <1>2, <1>3

-----------------------------------------------------------------------------
\* The invariant of the pipeline, for every number of buffers and pictures,
\* every queue and every sequence of sessions.
THEOREM PipelineInvariance == Spec => []VInv
  BY PipelineInitInv, PipelineNextInv, PTL DEF Spec

\* The threads of the pipeline use the queue by its operations only, so in the
\* running program, too, the queue is the bounded FIFO.
THEOREM PipelineImplementsFifo == Spec => ImplementsFifo
<1>1. Init => QueueInit
  BY DEF Init
<1>2. VInv /\ [Next]_vars => [QueueNext]_queueVars
  BY PipelineUsesQueue DEF VInv
<1>3. Spec => QueueSpec
  BY <1>1, <1>2, PipelineInvariance, PTL DEF Spec, QueueSpec
<1>4. QED
  BY <1>3, QueueImplementsFifo

\* The invariant of the queue holds in the running program.
THEOREM PipelineQueueCorrect == Spec => []QueueInv
<1>1. VInv => QueueInv
  BY DEF VInv
<1>2. QED
  BY <1>1, PipelineInvariance, PTL

\* What the main thread draws: a buffer of the running session, holding one of
\* its newest pictures or, before its first rotation, nothing.
LEMMA DrawnBuffer ==
  ASSUME VInv, Drawing
  PROVE  /\ message \in Frames
         /\ planes[message] \in Int
         /\ Newest \in Nat /\ Newest >= nextFrame
         /\ sessionStart \in Nat
         /\ Holds(message, planes[message], Newest, sessionStart)
<1>1. message \in Frames /\ drawer # "menu"
  BY DEF VInv, TagInv, Drawing
<1>2. planes[message] \in Int /\ sessionStart \in Nat
  BY <1>1, PipelineAssumption DEF VInv, TypeOK, Numbers, NullPlanes
<1>3. Newest \in Nat /\ Newest >= nextFrame
  BY PipelineAssumption DEF VInv, TypeOK, Numbers, Newest
<1>4. QED
  BY <1>1, <1>2, <1>3 DEF VInv, PlanesInv

\* A queued picture of the running session: its buffer shows it, or a newer
\* picture that came to the same buffer.
LEMMA QueuedPictureShown ==
  ASSUME VInv, drawer # "menu", NEW t \in Nat,
         t <= nextFrame, t > sessionStart
  PROVE  /\ planes[Buffer(t, sessionStart)] > sessionStart
         /\ planes[Buffer(t, sessionStart)] >= t
         /\ (planes[Buffer(t, sessionStart)] - t) % NumBuffers = 0
<1>1. /\ sessionStart \in Nat /\ Newest \in Nat /\ t <= Newest
  BY PipelineAssumption DEF VInv, TypeOK, Numbers, Newest
<1>2. Buffer(t, sessionStart) \in Frames
  BY <1>1, BufferSteps
<1>3. planes[Buffer(t, sessionStart)] \in Int
  BY <1>2, PipelineAssumption DEF VInv, TypeOK, Numbers, NullPlanes
<1>4. Holds(Buffer(t, sessionStart), planes[Buffer(t, sessionStart)], Newest, sessionStart)
  BY <1>2 DEF VInv, PlanesInv
<1>5. QED
  BY <1>1, <1>3, <1>4, HoldsNotOlder

\* For every number of buffers and sessions, the drawing loop never reads NULL
\* planes, although the queue outlives the buffers of a session.
THEOREM DrawsAllocated == Spec => []NoNullDraw
<1>1. VInv => NoNullDraw
  <2> SUFFICES ASSUME VInv, Drawing PROVE planes[message] # NullPlanes
    BY DEF NoNullDraw
  <2>1. /\ planes[message] \in Int /\ sessionStart \in Nat
        /\ planes[message] = Garbage \/ planes[message] > sessionStart
    BY DrawnBuffer DEF Holds
  <2>2. QED
    BY <2>1 DEF Garbage, NullPlanes
<1>2. QED
  BY <1>1, PipelineInvariance, PTL

\* An entry queued in the running session never shows a picture older than its
\* own, whatever was lost on a full queue before it.
THEOREM NeverShowsOlder == Spec => []NeverOlderThanQueued
<1>1. VInv => NeverOlderThanQueued
  <2> SUFFICES ASSUME VInv PROVE NeverOlderThanQueued
    OBVIOUS
  <2>1. ASSUME NEW s \in FreshSlots
        PROVE  /\ planes[queueMessages[s]] >= tags[s]
               /\ (planes[queueMessages[s]] - tags[s]) % NumBuffers = 0
    <3>1. /\ drawer # "menu" /\ tags[s] > sessionStart
          /\ \E k \in 0 .. ElementsIn - 1 : s = SlotOf(queueReadIndex + k)
      BY DEF FreshSlots
    <3>2. PICK k \in 0 .. ElementsIn - 1 : s = SlotOf(queueReadIndex + k)
      BY <3>1
    <3>3. s \in Slots
      <4>1. queueReadIndex + k \in Int
        BY DEF VInv, QueueInv, QueueTypeOK, Indices
      <4>2. QED
        BY <3>2, <4>1, SlotsFromIndex
    <3>4. /\ tags[s] \in Nat /\ tags[s] <= nextFrame
          /\ queueMessages[s] = Buffer(tags[s], sessionStart)
      BY <3>1, <3>3, PipelineAssumption DEF VInv, TagInv, TypeOK, Numbers
    <3>5. QED
      BY <3>1, <3>4, QueuedPictureShown
  <2>2. ASSUME DrawsThisSession
        PROVE  planes[message] >= drawTag /\ (planes[message] - drawTag) % NumBuffers = 0
    <3>1. /\ drawer # "menu"
          /\ drawTag \in Nat /\ drawTag <= nextFrame /\ drawTag > sessionStart
          /\ message = Buffer(drawTag, sessionStart)
      BY <2>2, PipelineAssumption DEF DrawsThisSession, Drawing, VInv, TagInv, TypeOK, Numbers
    <3>2. QED
      BY <3>1, QueuedPictureShown
  <2>3. QED
    BY <2>1, <2>2 DEF NeverOlderThanQueued
<1>2. QED
  BY <1>1, PipelineInvariance, PTL

\* What is on the screen is one of the NumBuffers newest pictures, or memory
\* never written that an entry left over from an earlier session points to.
THEOREM ShowsRecent == Spec => []ShowsRecentPicture
<1>1. VInv => ShowsRecentPicture
  <2> SUFFICES ASSUME VInv, Drawing
               PROVE  \/ planes[message] > nextFrame - NumBuffers /\ planes[message] > sessionStart
                      \/ planes[message] = Garbage /\ drawTag <= sessionStart
    BY DEF ShowsRecentPicture
  <2>1. /\ planes[message] \in Int /\ Newest \in Nat /\ Newest >= nextFrame
        /\ sessionStart \in Nat
        /\ Holds(message, planes[message], Newest, sessionStart)
    BY DrawnBuffer
  <2>2. nextFrame \in Nat /\ drawTag \in Nat /\ drawTag <= nextFrame
    BY PipelineAssumption DEF VInv, TagInv, TypeOK, Numbers
  <2>3. CASE planes[message] = Garbage
    <3>1. SUFFICES ASSUME drawTag > sessionStart PROVE FALSE
      BY <2>1, <2>2, <2>3
    <3>2. drawer # "menu" /\ message = Buffer(drawTag, sessionStart)
      BY <3>1 DEF Drawing, VInv, TagInv
    <3>3. planes[message] > sessionStart
      BY <2>2, <3>1, <3>2, QueuedPictureShown
    <3>4. QED
      BY <2>1, <2>3, <3>3 DEF Garbage
  <2>4. CASE planes[message] # Garbage
    <3>1. planes[message] > Newest - NumBuffers /\ planes[message] > sessionStart
      BY <2>1, <2>4 DEF Holds
    <3>2. planes[message] > nextFrame - NumBuffers
      BY <2>1, <2>2, <3>1, PipelineAssumption
    <3>3. QED
      BY <3>1, <3>2
  <2>5. QED
    BY <2>3, <2>4
<1>2. QED
  BY <1>1, PipelineInvariance, PTL

-----------------------------------------------------------------------------
(* Getting a drawn frame onto the television: GxFlip.                      *)

\* While the GPU copies, the main thread has not passed GX_WaitDrawDone.
CopyInv == copying # Nowhere => presented /\ main \in {"idle", "wait"}

\* The framebuffers are never ahead of the textures.
OrderInv == \A b \in Framebuffers : xfb[b] <= texture

\* After the first flip the framebuffer to copy to is not the one on the screen,
\* and a copy is neither submitted nor under way while a flip is pending; so from
\* the second flip on the GPU copies to whichfb only, and a flip brings out the
\* newer framebuffer.  The copies of the black start, which may be submitted with
\* a flip pending, are why this does not hold from the beginning.
FlipInv ==
  /\ flips > 0 =>
       /\ ~ Black
       /\ whichfb = 1 - shown
       /\ copying # Nowhere => ~ flipPending
       /\ main = "submit" => ~ flipPending
  /\ flips = 2 =>
       /\ copying # Nowhere => copying = whichfb
       /\ flipPending => xfb[whichfb] >= xfb[shown]

ShowInv == FlipTypeOK /\ CopyInv /\ OrderInv

-----------------------------------------------------------------------------
\* The type invariant, and with it what the main thread may do while the GPU
\* copies, in every video mode.
THEOREM FlipInvariance == FlipSpec => []ShowInv
<1> USE FlipAssumption DEF FlipAssumption, Framebuffers, Nowhere
<1>1. FlipInit => ShowInv
  <2> SUFFICES ASSUME FlipInit
               PROVE  ShowInv
    OBVIOUS
  <2>1. xfb = [b \in Framebuffers |-> 0] /\ drawn = 0 /\ texture = 0
    BY DEF FlipInit
  <2>2. xfb \in [Framebuffers -> 0 .. drawn] /\ OrderInv
    BY <2>1 DEF OrderInv
  <2>3. delayed \in 0 .. DelayFrames /\ drawn \in 0 .. MaxDrawn /\ texture \in 0 .. drawn
    BY DEF FlipInit
  <2>4. copying \in Framebuffers \cup {Nowhere} /\ whichfb \in Framebuffers /\ shown \in Framebuffers
    BY DEF FlipInit
  <2>5. flips \in 0 .. 2
    BY DEF FlipInit
  <2>6. presented \in BOOLEAN /\ flipPending \in BOOLEAN
    BY DEF FlipInit
  <2>7. FlipTypeOK
    BY <2>2, <2>3, <2>4, <2>5, <2>6, Zenon DEF FlipInit, FlipTypeOK
  <2> QED
    BY <2>2, <2>7 DEF FlipInit, ShowInv, CopyInv
<1>2. ShowInv /\ [FlipNext]_flipVars => ShowInv'
  <2> SUFFICES ASSUME ShowInv, [FlipNext]_flipVars
               PROVE  ShowInv'
    OBVIOUS
  <2> USE DEF ShowInv, FlipTypeOK, CopyInv, OrderInv, MainGoes, viVars, mainVars
  <2>1. CASE BeginDraw
    BY <2>1 DEF BeginDraw
  <2>2. CASE WaitDrawDone
    BY <2>2 DEF WaitDrawDone
  <2>3. CASE FillTexture
    BY <2>3 DEF FillTexture
  <2>4. CASE Pace
    BY <2>4 DEF Pace
  <2>5. CASE Present
    BY <2>5 DEF Present
  <2>6. CASE DrawDone
    BY <2>6 DEF DrawDone
  <2>7. CASE Retrace
    <3>1. delayed' \in 0 .. DelayFrames
      BY <2>7 DEF Retrace, VblankCb, Black
    <3>2. shown' \in Framebuffers /\ whichfb' \in Framebuffers
      BY <2>7 DEF Retrace, VblankCb, Flip
    <3>3. flips' \in 0 .. 2
      BY <2>7 DEF Retrace, VblankCb, Flip
    <3>4. flipPending' \in BOOLEAN
      BY <2>7, Zenon DEF Retrace, VblankCb, Flip
    <3> QED
      BY <2>7, <3>1, <3>2, <3>3, <3>4 DEF Retrace
  <2>8. CASE UNCHANGED flipVars
    BY <2>8 DEF flipVars
  <2> HIDE DEF ShowInv, FlipTypeOK, CopyInv, OrderInv, MainGoes
  <2> QED
    BY <2>1, <2>2, <2>3, <2>4, <2>5, <2>6, <2>7, <2>8 DEF FlipNext, DrawSteps
<1> QED
  BY <1>1, <1>2, PTL DEF FlipSpec

\* The shared textures are never written while the GPU still samples them.
THEOREM TexturesSafe == FlipSpec => []TextureUntouched
<1>1. ShowInv => TextureUntouched
  BY DEF ShowInv, CopyInv, TextureUntouched
<1> QED
  BY <1>1, FlipInvariance, PTL

-----------------------------------------------------------------------------
\* The invariant of the framebuffers, in a mode that flips on every retrace.
LEMMA FlipInvInductive ==
  ASSUME ~ SyncInterlace
  PROVE  ShowInv /\ FlipInv /\ [FlipNext]_flipVars => FlipInv'
<1> SUFFICES ASSUME ShowInv, FlipInv, [FlipNext]_flipVars
             PROVE  FlipInv'
  OBVIOUS
<1> USE FlipAssumption DEF FlipAssumption, Framebuffers, Nowhere, ShowInv, FlipTypeOK, CopyInv,
                           OrderInv, FlipInv, MainGoes, viVars, mainVars, Black
<1>1. CASE BeginDraw
  BY <1>1 DEF BeginDraw
<1>2. CASE WaitDrawDone
  BY <1>2 DEF WaitDrawDone
<1>3. CASE FillTexture
  BY <1>3 DEF FillTexture
<1>4. CASE Pace
  BY <1>4 DEF Pace
<1>5. CASE Present
  BY <1>5 DEF Present
<1>6. CASE DrawDone
  BY <1>6 DEF DrawDone
<1>7. CASE Retrace
  BY <1>7 DEF Retrace, VblankCb, Flip, DoFlip
<1>8. CASE UNCHANGED flipVars
  BY <1>8 DEF flipVars
<1> QED
  BY <1>1, <1>2, <1>3, <1>4, <1>5, <1>6, <1>7, <1>8 DEF FlipNext, DrawSteps

\* In such a mode the invariant holds throughout.
LEMMA FlipInvHolds ==
  ASSUME ~ SyncInterlace
  PROVE  FlipSpec => [](ShowInv /\ FlipInv)
<1>1. FlipInit => FlipInv
  BY DEF FlipInit, FlipInv, Nowhere
<1>2. ShowInv /\ FlipInv /\ [FlipNext]_flipVars => FlipInv'
  BY FlipInvInductive
<1> QED
  BY <1>1, <1>2, FlipInvariance, PTL DEF FlipSpec

\* In a mode that flips on every retrace, from the second flip on the GPU never
\* copies into the framebuffer on the screen.
THEOREM NoTearing ==
  ASSUME ~ SyncInterlace
  PROVE  FlipSpec => []ShownIsComplete
<1>1. ShowInv /\ FlipInv => ShownIsComplete
  BY DEF ShowInv, FlipTypeOK, FlipInv, ShownIsComplete, Framebuffers, Nowhere
<1> QED
  BY <1>1, FlipInvHolds, PTL

\* In such a mode, from the second flip on the screen never goes back to an older
\* picture.
THEOREM NoStepBack ==
  ASSUME ~ SyncInterlace
  PROVE  FlipSpec => NeverBackwards
<1>1. ShowInv /\ FlipInv /\ [FlipNext]_flipVars => [flips = 2 => xfb'[shown'] >= xfb[shown]]_flipVars
  <2> SUFFICES ASSUME ShowInv, FlipInv, [FlipNext]_flipVars, flips = 2
               PROVE  xfb'[shown'] >= xfb[shown]
    OBVIOUS
  <2> USE FlipAssumption DEF FlipAssumption, Framebuffers, Nowhere, ShowInv, FlipTypeOK,
                             OrderInv, FlipInv, MainGoes, viVars, mainVars, Black
  <2>1. CASE BeginDraw \/ WaitDrawDone \/ FillTexture \/ Pace
    BY <2>1 DEF BeginDraw, WaitDrawDone, FillTexture, Pace
  <2>2. CASE Present
    BY <2>2 DEF Present
  <2>3. CASE DrawDone
    BY <2>3 DEF DrawDone
  <2>4. CASE Retrace
    BY <2>4 DEF Retrace, VblankCb, Flip
  <2>5. CASE UNCHANGED flipVars
    BY <2>5 DEF flipVars
  <2> QED
    BY <2>1, <2>2, <2>3, <2>4, <2>5 DEF FlipNext, DrawSteps
<1> QED
  BY <1>1, FlipInvHolds, PTL DEF FlipSpec, NeverBackwards
=============================================================================
