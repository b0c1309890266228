------------------------ MODULE VideoRecoveryProofs ------------------------
(***************************************************************************)
(* Losses on the network and overflows of the queue never reach the        *)
(* decoder: for every bound of the queue, every limit of consecutive drops *)
(* and every number of losses, wherever the receive thread and the decoder *)
(* thread are between the accesses to the flags they share.                *)
(***************************************************************************)
EXTENDS VideoRecovery, SequenceTheorems, NumberFacts

\* After a frame that did not go into the queue, only a key frame passes: the
\* gap or the waiting stands in the way of all others, at every place of the
\* receive thread.
OnlyKeyFramePasses ==
  /\ receiver = "idle" => waitingForIdrFrame \/ gap
  /\ receiver = "assembled" => waitingForIdrFrame \/ frameType = "I"
  /\ receiver \in {"checked", "offer"} => frameType = "I"
  /\ receiver = "overflow" => waitingForIdrFrame

\* A unit does not follow a gap, or does not mind it.
Follows(u) == u.type = "I" \/ u.linked

\* As long as the decoder has no picture, the first unit it gets is a key frame.
StartsWithKeyFrame ==
  IF decoder = "submit" THEN unit.type = "I"
  ELSE IF decodeUnitQueue # <<>> THEN decodeUnitQueue[1].type = "I"
  ELSE ~ linked

LinkInv ==
  errors = 0 =>
    /\ decoder \in {"idle", "submit"}
    /\ ~ linked => OnlyKeyFramePasses
    /\ receiver = "overflow" => ~ linked
    /\ \A i \in 1 .. Len(decodeUnitQueue) : Follows(decodeUnitQueue[i])
    /\ decoder = "submit" => Follows(unit)
    /\ reference = "broken" => StartsWithKeyFrame

RecoveryInv == TypeOK /\ LinkInv

-----------------------------------------------------------------------------
\* The count of consecutive drops stays below its limit.
LEMMA DropsCounted ==
  ASSUME NEW c \in Nat
  PROVE  c % DropLimit \in 0 .. DropLimit - 1
<1>1. DropLimit \in Nat \ {0} /\ c \in Int
  BY RecoveryAssumption
<1>2. QED
  BY <1>1, Division

\* The flags the threads share are set to truth values only.
LEMMA FlagsKept ==
  ASSUME TypeOK, Next
  PROVE  /\ idrFrameRequiredEvent' \in BOOLEAN
         /\ waitingForIdrFrame' \in BOOLEAN /\ waitingForNextSuccessfulFrame' \in BOOLEAN
         /\ dropStatePending' \in BOOLEAN
         /\ gap' \in BOOLEAN /\ reportedLostFrame' \in BOOLEAN
         /\ linked' \in BOOLEAN /\ silent' \in BOOLEAN
<1> USE DEF netVars, flagVars, receiveVars, decoderVars, TypeOK
<1>1. CASE HostSendsP \/ HostSendsI \/ SendIdrRequest
  BY <1>1, Zenon DEF HostSendsP, HostSendsI, SendIdrRequest
<1>2. CASE FrameLost
  BY <1>2, Zenon DEF FrameLost, DropFrameState
<1>3. CASE FirstPacket
  BY <1>3, Zenon DEF FirstPacket
<1>4. CASE CorruptFrame
  BY <1>4, Zenon DEF CorruptFrame, DropFrameState
<1>5. CASE StillWaiting
  BY <1>5, Zenon DEF StillWaiting, DropFrameState
<1>6. CASE NotWaiting
  BY <1>6, Zenon DEF NotWaiting
<1>7. CASE PendingDrop
  BY <1>7, Zenon DEF PendingDrop, DropFrameState
<1>8. CASE NoPendingDrop
  BY <1>8, Zenon DEF NoPendingDrop
<1>9. CASE Reassemble
  BY <1>9, Zenon DEF Reassemble
<1>10. CASE QueueOverflow
  BY <1>10, Zenon DEF QueueOverflow, DropFrameState
<1>11. CASE OverflowFlush
  BY <1>11, Zenon DEF OverflowFlush
<1>12. CASE Dequeue
  BY <1>12, Zenon DEF Dequeue
<1>13. CASE Submit
  BY <1>13, Zenon DEF Submit, DecodeSucceeds, UnitTooLarge, DecodeFails
<1>14. CASE Refresh
  BY <1>14, Zenon DEF Refresh, RefreshWait, RefreshFlush, RefreshPending, RefreshRequest
<1>15. QED
  BY <1>1, <1>2, <1>3, <1>4, <1>5, <1>6, <1>7, <1>8, <1>9, <1>10, <1>11, <1>12, <1>13, <1>14,
     Zenon DEF Next, Receive

\* Queues, counters and the places of the threads keep their types.
LEMMA CountersKept ==
  ASSUME TypeOK, Next
  PROVE  /\ wire' \in Seq({"I", "P", "Lost"}) /\ Len(wire') <= WireBound
         /\ requests' \in 0 .. MaxRequests
         /\ losses' \in 0 .. MaxLosses
         /\ consecutiveFrameDrops' \in 0 .. DropLimit - 1
         /\ receiver' \in {"idle", "assembled", "checked", "offer", "overflow"}
         /\ frameType' \in {"I", "P"}
         /\ decodeUnitQueue' \in Seq(Unit) /\ Len(decodeUnitQueue') <= QueueBound
         /\ decoder' \in {"idle", "submit", "refresh", "flush", "pending", "request"}
         /\ unit' \in Unit
         /\ errors' \in 0 .. MaxErrors
         /\ reference' \in {"good", "broken"}
<1> USE DEF netVars, flagVars, receiveVars, decoderVars
<1>0. /\ wire \in Seq({"I", "P", "Lost"}) /\ Len(wire) <= WireBound
      /\ requests \in 0 .. MaxRequests
      /\ losses \in 0 .. MaxLosses
      /\ consecutiveFrameDrops \in 0 .. DropLimit - 1
      /\ receiver \in {"idle", "assembled", "checked", "offer", "overflow"}
      /\ frameType \in {"I", "P"}
      /\ decodeUnitQueue \in Seq(Unit) /\ Len(decodeUnitQueue) <= QueueBound
      /\ decoder \in {"idle", "submit", "refresh", "flush", "pending", "request"}
      /\ unit \in Unit
      /\ errors \in 0 .. MaxErrors
      /\ reference \in {"good", "broken"}
      /\ consecutiveFrameDrops \in Nat
      /\ WireBound \in Nat /\ QueueBound \in Nat /\ MaxRequests \in Nat
      /\ MaxLosses \in Nat /\ MaxErrors \in Nat /\ DropLimit \in Nat
  BY RecoveryAssumption DEF TypeOK
<1>a. NoUnit \in Unit
  BY DEF NoUnit, Unit
<1>b. wire # <<>> => Head(wire) \in {"I", "P", "Lost"} /\ Tail(wire) \in Seq({"I", "P", "Lost"})
                     /\ Len(Tail(wire)) <= WireBound
  BY <1>0
<1>c. \A n \in Nat : (consecutiveFrameDrops + n) % DropLimit \in 0 .. DropLimit - 1
  <2>1. ASSUME NEW n \in Nat PROVE (consecutiveFrameDrops + n) % DropLimit \in 0 .. DropLimit - 1
    <3> DEFINE c == consecutiveFrameDrops + n
    <3>1. c \in Nat
      BY <1>0
    <3> HIDE DEF c
    <3>2. c % DropLimit \in 0 .. DropLimit - 1
      BY <3>1, DropsCounted
    <3>3. QED
      BY <3>2 DEF c
  <2>2. QED
    BY <2>1
<1>1. CASE HostSendsP \/ HostSendsI \/ SendIdrRequest
  <2>1. /\ wire' \in Seq({"I", "P", "Lost"}) /\ Len(wire') <= WireBound
        /\ losses' \in 0 .. MaxLosses
    <3>1. \A type \in {"I", "P", "Lost"} :
            /\ Append(wire, type) \in Seq({"I", "P", "Lost"})
            /\ Len(Append(wire, type)) = Len(wire) + 1
      BY <1>0
    <3>2. \/ (wire' = wire /\ losses' = losses)
          \/ /\ Len(wire) < WireBound
             /\ \E type \in {"I", "P", "Lost"} : wire' = Append(wire, type)
             /\ losses' = losses \/ (losses < MaxLosses /\ losses' = losses + 1)
      <4>1. CASE HostSendsP
        BY <4>1 DEF HostSendsP, Transmit
      <4>2. CASE HostSendsI
        BY <4>2 DEF HostSendsI, Transmit
      <4>3. CASE SendIdrRequest
        BY <4>3 DEF SendIdrRequest
      <4>4. QED
        BY <1>1, <4>1, <4>2, <4>3, Zenon
    <3>3. QED
      BY <1>0, <3>1, <3>2
  <2>2. requests' \in 0 .. MaxRequests
    BY <1>0, <1>1 DEF HostSendsP, HostSendsI, SendIdrRequest
  <2>3. UNCHANGED <<flagVars, consecutiveFrameDrops, receiveVars, decodeUnitQueue, decoderVars>>
    BY <1>1 DEF HostSendsP, HostSendsI, SendIdrRequest
  <2>4. QED
    BY <1>0, <2>1, <2>2, <2>3
<1>2. CASE FrameLost
  <2>1. consecutiveFrameDrops' \in 0 .. DropLimit - 1
    BY <1>0, <1>2, <1>c DEF FrameLost, DropFrameState
  <2>2. wire' = Tail(wire) /\ wire # <<>>
    BY <1>2 DEF FrameLost
  <2>3. UNCHANGED <<requests, losses, receiver, frameType, decodeUnitQueue, decoderVars>>
    BY <1>2 DEF FrameLost
  <2>4. QED
    BY <1>0, <1>b, <2>1, <2>2, <2>3
<1>3. CASE FirstPacket
  <2>1. consecutiveFrameDrops' \in 0 .. DropLimit - 1
    BY <1>3, <1>c DEF FirstPacket
  <2>2. /\ wire' = Tail(wire) /\ wire # <<>> /\ Head(wire) # "Lost"
        /\ frameType' = Head(wire) /\ receiver' = "assembled"
    BY <1>3 DEF FirstPacket
  <2>3. UNCHANGED <<requests, losses, decodeUnitQueue, decoderVars>>
    BY <1>3 DEF FirstPacket
  <2>4. QED
    BY <1>0, <1>b, <2>1, <2>2, <2>3
<1>4. CASE CorruptFrame \/ StillWaiting \/ PendingDrop \/ QueueOverflow
  <2>1. consecutiveFrameDrops' \in 0 .. DropLimit - 1
    BY <1>4, <1>c DEF CorruptFrame, StillWaiting, PendingDrop, QueueOverflow, DropFrameState
  <2>2. losses' \in 0 .. MaxLosses
    <3>1. losses' = losses \/ (losses < MaxLosses /\ losses' = losses + 1)
      <4>1. CASE CorruptFrame
        BY <4>1 DEF CorruptFrame
      <4>2. CASE StillWaiting \/ PendingDrop \/ QueueOverflow
        BY <4>2 DEF StillWaiting, PendingDrop, QueueOverflow
      <4>3. QED
        BY <1>4, <4>1, <4>2, Zenon
    <3>2. QED
      BY <1>0, <3>1
  <2>3. /\ UNCHANGED <<wire, requests, frameType, decodeUnitQueue, decoderVars>>
        /\ receiver' \in {"idle", "overflow"}
    BY <1>4 DEF CorruptFrame, StillWaiting, PendingDrop, QueueOverflow
  <2>4. QED
    BY <1>0, <2>1, <2>2, <2>3
<1>5. CASE NotWaiting \/ NoPendingDrop
  BY <1>0, <1>5 DEF NotWaiting, NoPendingDrop
<1>6. CASE Reassemble
  <2>1. [type |-> frameType, linked |-> linked \/ frameType = "I"] \in Unit
    BY <1>0, Zenon DEF Unit, TypeOK
  <2>2. decodeUnitQueue' \in Seq(Unit) /\ Len(decodeUnitQueue') <= QueueBound
    BY <1>0, <1>6, <2>1 DEF Reassemble
  <2>3. consecutiveFrameDrops' \in 0 .. DropLimit - 1
    BY <1>6, RecoveryAssumption DEF Reassemble
  <2>4. /\ UNCHANGED <<netVars, frameType, decoderVars>>
        /\ receiver' = "idle"
    BY <1>6 DEF Reassemble
  <2>5. QED
    BY <1>0, <2>2, <2>3, <2>4
<1>7. CASE OverflowFlush
  BY <1>0, <1>7 DEF OverflowFlush
<1>8. CASE Dequeue
  <2>1. /\ Head(decodeUnitQueue) \in Unit
        /\ Tail(decodeUnitQueue) \in Seq(Unit) /\ Len(Tail(decodeUnitQueue)) <= QueueBound
    BY <1>0, <1>8 DEF Dequeue
  <2>2. QED
    BY <1>0, <1>8, <2>1 DEF Dequeue
<1>9. CASE Submit
  BY <1>0, <1>9, <1>a DEF Submit, DecodeSucceeds, UnitTooLarge, DecodeFails
<1>10. CASE Refresh
  <2>1. /\ UNCHANGED <<netVars, consecutiveFrameDrops, receiveVars, unit, errors, reference>>
        /\ decoder' \in {"flush", "pending", "request", "idle"}
        /\ decodeUnitQueue' = decodeUnitQueue \/ decodeUnitQueue' = <<>>
    <3>1. CASE RefreshWait \/ RefreshPending \/ RefreshRequest
      BY <3>1 DEF RefreshWait, RefreshPending, RefreshRequest
    <3>2. CASE RefreshFlush
      BY <3>2 DEF RefreshFlush
    <3>3. QED
      BY <1>10, <3>1, <3>2, Zenon DEF Refresh
  <2>2. decodeUnitQueue' \in Seq(Unit) /\ Len(decodeUnitQueue') <= QueueBound
    <3>1. CASE decodeUnitQueue' = decodeUnitQueue
      BY <1>0, <3>1
    <3>2. CASE decodeUnitQueue' = <<>>
      BY <1>0, <3>2
    <3>3. QED
      BY <2>1, <3>1, <3>2
  <2>3. QED
    BY <1>0, <2>1, <2>2
<1>11. QED
  BY <1>1, <1>2, <1>3, <1>4, <1>5, <1>6, <1>7, <1>8, <1>9, <1>10, Zenon DEF Next, Receive

\* So every step keeps the types.
LEMMA RecoveryTypes == TypeOK /\ [Next]_vars => TypeOK'
<1> SUFFICES ASSUME TypeOK, [Next]_vars PROVE TypeOK'
  OBVIOUS
<1>1. CASE Next
  BY <1>1, FlagsKept, CountersKept DEF TypeOK
<1>2. CASE UNCHANGED vars
  BY <1>2 DEF vars, netVars, flagVars, receiveVars, decoderVars, TypeOK
<1>3. QED
  BY <1>1, <1>2

-----------------------------------------------------------------------------
(* The chain from the host to the decoder.                                 *)

\* Steps of the host and of the request thread do not touch the chain.
LEMMA HostKeepsLinks ==
  ASSUME RecoveryInv, HostSendsP \/ HostSendsI \/ SendIdrRequest
  PROVE  LinkInv'
<1>1. UNCHANGED <<flagVars, receiveVars, decodeUnitQueue, decoderVars, linked>>
  BY DEF HostSendsP, HostSendsI, SendIdrRequest
<1>2. QED
  BY <1>1 DEF RecoveryInv, LinkInv, OnlyKeyFramePasses, Follows, StartsWithKeyFrame,
              flagVars, receiveVars, decoderVars

\* A frame that is given up, wherever the receive thread is, leaves a gap that
\* only a key frame passes.
LEMMA GivingUpKeepsLinks ==
  ASSUME RecoveryInv,
         FrameLost \/ CorruptFrame \/ StillWaiting \/ PendingDrop \/ QueueOverflow
  PROVE  LinkInv'
<1>1. /\ UNCHANGED <<decodeUnitQueue, decoderVars>>
      /\ ~ linked'
  BY DEF FrameLost, CorruptFrame, StillWaiting, PendingDrop, QueueOverflow
<1>2. OnlyKeyFramePasses'
  BY DEF FrameLost, CorruptFrame, StillWaiting, PendingDrop, QueueOverflow, DropFrameState,
         OnlyKeyFramePasses
<1>3. QED
  BY <1>1, <1>2 DEF RecoveryInv, LinkInv, Follows, StartsWithKeyFrame, decoderVars

\* The first packet of a frame, and its checks.
LEMMA PassingKeepsLinks ==
  ASSUME RecoveryInv, FirstPacket \/ NotWaiting \/ NoPendingDrop
  PROVE  LinkInv'
<1>1. /\ UNCHANGED <<decodeUnitQueue, decoderVars, linked>>
      /\ receiver' # "overflow"
  BY DEF FirstPacket, NotWaiting, NoPendingDrop, netVars, flagVars
<1>2. OnlyKeyFramePasses => OnlyKeyFramePasses'
  <2>1. CASE FirstPacket
    <3>1. /\ receiver = "idle" /\ receiver' = "assembled"
          /\ frameType' # "I" /\ (waitingForIdrFrame \/ gap) => waitingForIdrFrame'
      BY <2>1 DEF FirstPacket
    <3>2. QED
      BY <3>1 DEF OnlyKeyFramePasses
  <2>2. CASE NotWaiting
    BY <2>2 DEF NotWaiting, OnlyKeyFramePasses
  <2>3. CASE NoPendingDrop
    BY <2>3 DEF NoPendingDrop, OnlyKeyFramePasses
  <2>4. QED
    BY <2>1, <2>2, <2>3
<1>3. QED
  BY <1>1, <1>2 DEF RecoveryInv, LinkInv, Follows, StartsWithKeyFrame, decoderVars

\* The frame goes into the queue: if the one before it did not, it is a key
\* frame, and so it is if there is nothing before it.
LEMMA ReassembleKeepsLinks ==
  ASSUME RecoveryInv, Reassemble
  PROVE  LinkInv'
<1> SUFFICES ASSUME errors = 0 PROVE LinkInv'
  BY DEF Reassemble, LinkInv, decoderVars
<1> DEFINE new == [type |-> frameType, linked |-> linked \/ frameType = "I"]
<1>1. /\ decodeUnitQueue' = Append(decodeUnitQueue, new)
      /\ linked' /\ receiver' = "idle"
      /\ UNCHANGED decoderVars
      /\ receiver = "offer"
  BY Zenon DEF Reassemble
<1>2. ~ linked => frameType = "I"
  BY <1>1 DEF RecoveryInv, LinkInv, OnlyKeyFramePasses
<1>3. Follows(new) /\ new.type = frameType
  BY <1>2, Zenon DEF Follows
<1>4. new \in Unit
  BY Zenon DEF RecoveryInv, TypeOK, Unit
<1> HIDE DEF new
<1>5. /\ Len(decodeUnitQueue') = Len(decodeUnitQueue) + 1
      /\ \A i \in 1 .. Len(decodeUnitQueue) : decodeUnitQueue'[i] = decodeUnitQueue[i]
      /\ decodeUnitQueue'[Len(decodeUnitQueue) + 1] = new
      /\ Len(decodeUnitQueue) \in Nat
      /\ decodeUnitQueue # <<>> => Len(decodeUnitQueue) >= 1
      /\ decodeUnitQueue = <<>> => Len(decodeUnitQueue) = 0
      /\ decodeUnitQueue' # <<>>
  BY <1>1, <1>4 DEF RecoveryInv, TypeOK
<1>6. \A i \in 1 .. Len(decodeUnitQueue') : Follows(decodeUnitQueue'[i])
  <2>1. \A i \in 1 .. Len(decodeUnitQueue) : Follows(decodeUnitQueue[i])
    BY DEF RecoveryInv, LinkInv
  <2>2. QED
    BY <1>3, <1>5, <2>1
<1>7. reference = "broken" => StartsWithKeyFrame'
  <2> SUFFICES ASSUME reference = "broken", decoder # "submit"
               PROVE  decodeUnitQueue'[1].type = "I"
    BY <1>1, <1>5 DEF RecoveryInv, LinkInv, StartsWithKeyFrame, decoderVars
  <2>1. CASE decodeUnitQueue = <<>>
    <3>1. ~ linked
      BY <2>1 DEF RecoveryInv, LinkInv, StartsWithKeyFrame
    <3>2. decodeUnitQueue'[1] = new
      BY <1>5, <2>1
    <3>3. QED
      BY <1>2, <1>3, <3>1, <3>2
  <2>2. CASE decodeUnitQueue # <<>>
    BY <1>5, <2>2 DEF RecoveryInv, LinkInv, StartsWithKeyFrame
  <2>3. QED
    BY <2>1, <2>2
<1>8. QED
  BY <1>1, <1>6, <1>7 DEF RecoveryInv, LinkInv, Follows, decoderVars

\* Emptying the queue after an overflow: the frame after it is a key frame,
\* also when the decoder has taken units meanwhile.
LEMMA FlushKeepsLinks ==
  ASSUME RecoveryInv, OverflowFlush
  PROVE  LinkInv'
<1>1. /\ UNCHANGED <<flagVars, decoderVars, linked>>
      /\ decodeUnitQueue' = <<>>
      /\ receiver = "overflow" /\ receiver' = "idle"
  BY DEF OverflowFlush
<1>2. Len(decodeUnitQueue') = 0
  BY <1>1
<1>3. OnlyKeyFramePasses => OnlyKeyFramePasses'
  BY <1>1 DEF OnlyKeyFramePasses, flagVars
<1>4. QED
  BY <1>1, <1>2, <1>3 DEF RecoveryInv, LinkInv, Follows, StartsWithKeyFrame, decoderVars

\* The decoder takes the first unit.
LEMMA DequeueKeepsLinks ==
  ASSUME RecoveryInv, Dequeue
  PROVE  LinkInv'
<1>1. /\ UNCHANGED <<flagVars, receiveVars, errors, reference, linked>>
      /\ decoder = "idle" /\ decoder' = "submit"
      /\ decodeUnitQueue # <<>>
      /\ unit' = Head(decodeUnitQueue) /\ decodeUnitQueue' = Tail(decodeUnitQueue)
  BY DEF Dequeue
<1>2. /\ unit' = decodeUnitQueue[1] /\ 1 \in 1 .. Len(decodeUnitQueue)
      /\ \A i \in 1 .. Len(decodeUnitQueue') :
           /\ decodeUnitQueue'[i] = decodeUnitQueue[i + 1]
           /\ i + 1 \in 1 .. Len(decodeUnitQueue)
  BY <1>1 DEF RecoveryInv, TypeOK
<1>3. OnlyKeyFramePasses' = OnlyKeyFramePasses
  BY <1>1 DEF OnlyKeyFramePasses, flagVars, receiveVars
<1>4. errors = 0 => /\ \A i \in 1 .. Len(decodeUnitQueue') : Follows(decodeUnitQueue'[i])
                    /\ Follows(unit')
                    /\ reference = "broken" => unit'.type = "I"
  BY <1>1, <1>2 DEF RecoveryInv, LinkInv, StartsWithKeyFrame
<1>5. QED
  BY <1>1, <1>3, <1>4 DEF RecoveryInv, LinkInv, Follows, StartsWithKeyFrame, receiveVars

\* Decoding: before the first error the unit is decodable, so the reference is
\* there afterwards; an error ends what the invariant says.
LEMMA DecoderKeepsLinks ==
  ASSUME RecoveryInv, Submit \/ Refresh
  PROVE  LinkInv'
<1>1. CASE DecodeSucceeds
  <2> SUFFICES ASSUME errors = 0 PROVE LinkInv'
    BY <1>1 DEF DecodeSucceeds, LinkInv
  <2>1. Decodable
    <3>1. decoder = "submit"
      BY <1>1 DEF DecodeSucceeds
    <3>2. Follows(unit) /\ (reference = "broken" => unit.type = "I")
      BY <3>1 DEF RecoveryInv, LinkInv, StartsWithKeyFrame
    <3>3. QED
      BY <3>2 DEF Follows, Decodable, RecoveryInv, TypeOK
  <2>2. /\ UNCHANGED <<flagVars, receiveVars, decodeUnitQueue, errors, linked>>
        /\ decoder' = "idle" /\ reference' = "good"
    BY <1>1, <2>1 DEF DecodeSucceeds
  <2>3. OnlyKeyFramePasses' = OnlyKeyFramePasses
    BY <2>2 DEF OnlyKeyFramePasses, flagVars, receiveVars
  <2>4. QED
    BY <2>2, <2>3 DEF RecoveryInv, LinkInv, Follows, receiveVars
<1>2. CASE UnitTooLarge \/ DecodeFails
  <2>1. errors' # 0
    BY <1>2, RecoveryAssumption DEF UnitTooLarge, DecodeFails, RecoveryInv, TypeOK
  <2>2. QED
    BY <2>1 DEF LinkInv
<1>3. CASE Refresh
  <2>1. errors' = errors /\ decoder \notin {"idle", "submit"}
    BY <1>3 DEF Refresh, RefreshWait, RefreshFlush, RefreshPending, RefreshRequest
  <2>2. QED
    BY <2>1 DEF RecoveryInv, LinkInv
<1>4. QED
  BY <1>1, <1>2, <1>3 DEF Submit

\* The invariant of the recovery: types, and the chain.
THEOREM RecoveryInvariance == Spec => []RecoveryInv
<1>1. Init => RecoveryInv
  <2> SUFFICES ASSUME Init PROVE RecoveryInv
    OBVIOUS
  <2>1. TypeOK
    <3>0. wire \in Seq({"I", "P", "Lost"}) /\ Len(wire) <= WireBound
      <4>1. CASE wire = <<"I">>
        BY <4>1, RecoveryAssumption
      <4>2. CASE wire = <<"Lost">>
        BY <4>2, RecoveryAssumption
      <4>3. QED
        BY <4>1, <4>2 DEF Init
    <3>a. decodeUnitQueue \in Seq(Unit) /\ Len(decodeUnitQueue) <= QueueBound
      BY RecoveryAssumption DEF Init
    <3>1. /\ requests \in 0 .. MaxRequests
          /\ losses \in 0 .. MaxLosses
          /\ consecutiveFrameDrops \in 0 .. DropLimit - 1
          /\ receiver \in {"idle"} /\ frameType \in {"I", "P"}
          /\ decoder \in {"idle"}
          /\ errors \in 0 .. MaxErrors
          /\ reference \in {"good", "broken"}
      BY RecoveryAssumption DEF Init
    <3>2. unit \in Unit
      BY DEF Init, NoUnit, Unit
    <3>3. /\ idrFrameRequiredEvent \in BOOLEAN
          /\ waitingForIdrFrame \in BOOLEAN /\ waitingForNextSuccessfulFrame \in BOOLEAN
          /\ dropStatePending \in BOOLEAN
          /\ gap \in BOOLEAN /\ reportedLostFrame \in BOOLEAN
          /\ linked \in BOOLEAN /\ silent \in BOOLEAN
      BY Zenon DEF Init
    <3>4. QED
      BY <3>0, <3>a, <3>1, <3>2, <3>3 DEF TypeOK
  <2>2. LinkInv
    BY DEF Init, LinkInv, OnlyKeyFramePasses, Follows, StartsWithKeyFrame
  <2>3. QED
    BY <2>1, <2>2 DEF RecoveryInv
<1>2. RecoveryInv /\ [Next]_vars => RecoveryInv'
  <2> SUFFICES ASSUME RecoveryInv, [Next]_vars PROVE LinkInv'
    BY RecoveryTypes DEF RecoveryInv
  <2>1. CASE Next
    BY <2>1, HostKeepsLinks, GivingUpKeepsLinks, PassingKeepsLinks, ReassembleKeepsLinks,
       FlushKeepsLinks, DequeueKeepsLinks, DecoderKeepsLinks DEF Next, Receive
  <2>2. CASE UNCHANGED vars
    BY <2>2 DEF vars, netVars, flagVars, receiveVars, decoderVars, RecoveryInv, LinkInv,
                OnlyKeyFramePasses, Follows, StartsWithKeyFrame
  <2>3. QED
    BY <2>1, <2>2
<1>3. QED
  BY <1>1, <1>2, PTL DEF Spec

\* Before the decoder rejects or drops a unit, it gets no unit whose reference
\* is missing, whatever the network lost and however often the queue overflowed.
THEOREM LossesStopBeforeDecoder == Spec => []LossesNeverReachDecoder
<1>1. RecoveryInv => LossesNeverReachDecoder
  <2> SUFFICES ASSUME RecoveryInv, decoder = "submit", errors = 0 PROVE Decodable
    BY DEF LossesNeverReachDecoder
  <2>1. Follows(unit) /\ (reference = "broken" => unit.type = "I")
    BY DEF RecoveryInv, LinkInv, StartsWithKeyFrame
  <2>2. QED
    BY <2>1 DEF Follows, Decodable, RecoveryInv, TypeOK
<1>2. QED
  BY <1>1, RecoveryInvariance, PTL

=============================================================================
