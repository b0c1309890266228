--------------------------- MODULE VideoRecovery ---------------------------
(***************************************************************************)
(* What becomes of a video frame that is lost on the network or that the   *)
(* decoder cannot use: the depacketizer on the receive thread, the queue   *)
(* of decode units, wii_decoder_submit_decode_unit on the decoder thread,  *)
(* the thread that asks for key frames, and the host.                      *)
(*                                                                         *)
(* A frame is only its kind: "I" decodes by itself, "P" needs the frame    *)
(* the host sent before it.  The receive thread and the decoder thread     *)
(* share waitingForIdrFrame and dropStatePending without a lock: accesses  *)
(* whose order matters are steps.  The capabilities of the decoder are 0:  *)
(* reference frames are never invalidated, and units go through the queue. *)
(***************************************************************************)
EXTENDS Naturals, Sequences

CONSTANTS
  QueueBound,  \* sizeBound of decodeUnitQueue (15 in the code)
  DropLimit,   \* CONSECUTIVE_DROP_LIMIT (120 in the code)
  WireBound,   \* bound: frames under way from the host
  MaxRequests, \* bound: requests under way to the host
  MaxLosses,   \* bound: frames lost by the network in a behaviour
  MaxErrors    \* bound: units the decoder rejects or drops in a behaviour

ASSUME RecoveryAssumption ==
  /\ {QueueBound, WireBound, MaxRequests} \subseteq Nat \ {0}
  /\ DropLimit \in Nat \ {0, 1}
  /\ {MaxLosses, MaxErrors} \subseteq Nat

VARIABLES
  wire,                          \* frames from the host, "Lost" where one is missing
  requests,                      \* requests for a key frame on their way to the host
  losses,                        \* frames lost so far
  idrFrameRequiredEvent,         \* the request thread has something to send
  waitingForIdrFrame,
  waitingForNextSuccessfulFrame,
  dropStatePending,
  consecutiveFrameDrops,
  gap,                           \* a frame is missing before the next one
  reportedLostFrame,             \* and notifyFrameLost was told already
  receiver,                      \* the receive thread: "idle", "assembled", "checked", "offer", "overflow"
  frameType,                     \* the frame it has assembled
  decodeUnitQueue,
  decoder,                       \* the decoder thread: "idle", "submit", "refresh", "flush", "pending", "request"
  unit,                          \* the unit it has taken
  errors,                        \* units rejected or dropped so far
  reference,                     \* the pictures the decoder predicts from: "good", "broken"
  linked,                        \* auxiliary: the previous frame of the host went into the queue
  silent                         \* auxiliary: the reference broke without anyone being told

netVars == <<wire, requests, losses>>
flagVars == <<waitingForIdrFrame, waitingForNextSuccessfulFrame, dropStatePending>>
receiveVars == <<gap, reportedLostFrame, receiver, frameType>>
decoderVars == <<decoder, unit, errors, reference, silent>>
vars == <<netVars, idrFrameRequiredEvent, flagVars, consecutiveFrameDrops,
          receiveVars, decodeUnitQueue, decoderVars, linked>>

Unit == [type : {"I", "P"}, linked : BOOLEAN]
NoUnit == [type |-> "P", linked |-> FALSE]

Init ==
  /\ wire \in {<<"I">>, <<"Lost">>}
  /\ requests = 0
  /\ losses = 0
  /\ idrFrameRequiredEvent = FALSE
  /\ waitingForIdrFrame = TRUE
  /\ waitingForNextSuccessfulFrame = FALSE
  /\ dropStatePending = FALSE
  /\ consecutiveFrameDrops = 0
  /\ gap = FALSE
  /\ reportedLostFrame = FALSE
  /\ receiver = "idle"
  /\ frameType = "P"
  /\ decodeUnitQueue = <<>>
  /\ decoder = "idle"
  /\ unit = NoUnit
  /\ errors = 0
  /\ reference = "broken"
  /\ linked = FALSE
  /\ silent = FALSE

-----------------------------------------------------------------------------
(* The host and the request thread.                                        *)

\* A frame is sent and arrives, or is lost beyond what FEC repairs.
Transmit(type) ==
  /\ Len(wire) < WireBound
  /\ \/ wire' = Append(wire, type) /\ UNCHANGED losses
     \/ /\ losses < MaxLosses
        /\ losses' = losses + 1
        /\ wire' = Append(wire, "Lost")

HostSendsP ==
  /\ Transmit("P")
  /\ UNCHANGED <<requests, idrFrameRequiredEvent, flagVars, consecutiveFrameDrops,
                 receiveVars, decodeUnitQueue, decoderVars, linked>>

\* The host answers any number of pending requests with one key frame; it sends
\* none on its own.
HostSendsI ==
  /\ requests > 0
  /\ requests' \in 0 .. requests - 1
  /\ Transmit("I")
  /\ UNCHANGED <<idrFrameRequiredEvent, flagVars, consecutiveFrameDrops,
                 receiveVars, decodeUnitQueue, decoderVars, linked>>

\* requestIdrFrameFunc: clear the event, then send over the reliable channel.
SendIdrRequest ==
  /\ idrFrameRequiredEvent
  /\ requests < MaxRequests
  /\ idrFrameRequiredEvent' = FALSE
  /\ requests' = requests + 1
  /\ UNCHANGED <<wire, losses, flagVars, consecutiveFrameDrops, receiveVars,
                 decodeUnitQueue, decoderVars, linked>>

-----------------------------------------------------------------------------
(* The receive thread: the RTP queue and the depacketizer.                 *)

\* n calls of dropFrameState, which asks for a key frame when it reaches the
\* limit, and a request by its caller.
DropFrameState(n, alsoRequest) ==
  LET count == consecutiveFrameDrops + n
  IN  /\ waitingForIdrFrame' = TRUE
      /\ dropStatePending' = FALSE
      /\ consecutiveFrameDrops' = count % DropLimit
      /\ idrFrameRequiredEvent' = (idrFrameRequiredEvent \/ alsoRequest \/ count >= DropLimit)

\* The RTP queue finds a frame missing; if part of it arrived it may say so
\* before the next frame comes.
FrameLost ==
  /\ receiver = "idle"
  /\ wire # <<>> /\ Head(wire) = "Lost"
  /\ wire' = Tail(wire)
  /\ gap' = TRUE
  /\ linked' = FALSE
  /\ \/ reportedLostFrame' = TRUE /\ DropFrameState(1, FALSE)
     \/ /\ reportedLostFrame' = FALSE
        /\ UNCHANGED <<waitingForIdrFrame, dropStatePending, consecutiveFrameDrops,
                       idrFrameRequiredEvent>>
  /\ UNCHANGED <<requests, losses, waitingForNextSuccessfulFrame, receiver, frameType,
                 decodeUnitQueue, decoderVars>>

\* The first packet of a frame.  A gap before it is reported, unless it was,
\* and the depacketizer finds it as well; a key frame ends the waiting.
FirstPacket ==
  /\ receiver = "idle"
  /\ wire # <<>> /\ Head(wire) # "Lost"
  /\ wire' = Tail(wire)
  /\ frameType' = Head(wire)
  /\ receiver' = "assembled"
  /\ gap' = FALSE
  /\ reportedLostFrame' = FALSE
  /\ LET drops == IF ~gap THEN 0 ELSE IF reportedLostFrame THEN 1 ELSE 2
     IN  /\ consecutiveFrameDrops' = (consecutiveFrameDrops + drops) % DropLimit
         /\ idrFrameRequiredEvent' =
              (idrFrameRequiredEvent \/ consecutiveFrameDrops + drops >= DropLimit)
  /\ dropStatePending' = (dropStatePending /\ ~gap)
  /\ waitingForIdrFrame' = (Head(wire) # "I" /\ (waitingForIdrFrame \/ gap))
  /\ waitingForNextSuccessfulFrame' =
       (Head(wire) # "I" /\ (waitingForNextSuccessfulFrame \/ gap))
  /\ UNCHANGED <<requests, losses, decodeUnitQueue, decoderVars, linked>>

\* A later packet shows that one of the frame is missing which the RTP queue
\* let pass.
CorruptFrame ==
  /\ receiver = "assembled"
  /\ losses < MaxLosses
  /\ losses' = losses + 1
  /\ DropFrameState(1, TRUE)
  /\ linked' = FALSE
  /\ receiver' = "idle"
  /\ UNCHANGED <<wire, requests, waitingForNextSuccessfulFrame, gap, reportedLostFrame,
                 frameType, decodeUnitQueue, decoderVars>>

\* The last packet: the frame is of no use before a key frame.  Only the first
\* frame that is complete after a loss asks for one.
StillWaiting ==
  /\ receiver = "assembled"
  /\ waitingForIdrFrame
  /\ DropFrameState(1, waitingForNextSuccessfulFrame)
  /\ waitingForNextSuccessfulFrame' = FALSE
  /\ linked' = FALSE
  /\ receiver' = "idle"
  /\ UNCHANGED <<netVars, gap, reportedLostFrame, frameType, decodeUnitQueue, decoderVars>>

NotWaiting ==
  /\ receiver = "assembled"
  /\ ~waitingForIdrFrame
  /\ receiver' = "checked"
  /\ UNCHANGED <<netVars, idrFrameRequiredEvent, flagVars, consecutiveFrameDrops, gap,
                 reportedLostFrame, frameType, decodeUnitQueue, decoderVars, linked>>

\* The decoder asked for the state to be dropped: all but a key frame is.
PendingDrop ==
  /\ receiver = "checked"
  /\ dropStatePending
  /\ frameType # "I"
  /\ DropFrameState(1, FALSE)
  /\ linked' = FALSE
  /\ receiver' = "idle"
  /\ UNCHANGED <<netVars, waitingForNextSuccessfulFrame, gap, reportedLostFrame, frameType,
                 decodeUnitQueue, decoderVars>>

NoPendingDrop ==
  /\ receiver = "checked"
  /\ dropStatePending => frameType = "I"
  /\ dropStatePending' = FALSE
  /\ receiver' = "offer"
  /\ UNCHANGED <<netVars, idrFrameRequiredEvent, waitingForIdrFrame,
                 waitingForNextSuccessfulFrame, consecutiveFrameDrops, gap,
                 reportedLostFrame, frameType, decodeUnitQueue, decoderVars, linked>>

Reassemble ==
  /\ receiver = "offer"
  /\ Len(decodeUnitQueue) < QueueBound
  /\ decodeUnitQueue' = Append(decodeUnitQueue,
                               [type |-> frameType, linked |-> linked \/ frameType = "I"])
  /\ linked' = TRUE
  /\ consecutiveFrameDrops' = 0
  /\ receiver' = "idle"
  /\ UNCHANGED <<netVars, idrFrameRequiredEvent, flagVars, gap, reportedLostFrame,
                 frameType, decoderVars>>

\* Mutant: only the frame that does not fit is dropped, and the next ones are taken.
QueueOverflow_DropsOne ==
  /\ receiver = "offer"
  /\ Len(decodeUnitQueue) = QueueBound
  /\ linked' = FALSE
  /\ receiver' = "idle"
  /\ UNCHANGED <<netVars, idrFrameRequiredEvent, flagVars, consecutiveFrameDrops, gap,
                 reportedLostFrame, frameType, decodeUnitQueue, decoderVars>>

\* The decoder is too slow: the frame is given up, then the whole queue, from
\* which the decoder may have taken another unit.
QueueOverflow ==
  /\ receiver = "offer"
  /\ Len(decodeUnitQueue) = QueueBound
  /\ DropFrameState(1, FALSE)
  /\ linked' = FALSE
  /\ receiver' = "overflow"
  /\ UNCHANGED <<netVars, waitingForNextSuccessfulFrame, gap, reportedLostFrame, frameType,
                 decodeUnitQueue, decoderVars>>

OverflowFlush ==
  /\ receiver = "overflow"
  /\ decodeUnitQueue' = <<>>
  /\ idrFrameRequiredEvent' = TRUE
  /\ receiver' = "idle"
  /\ UNCHANGED <<netVars, flagVars, consecutiveFrameDrops, gap, reportedLostFrame, frameType,
                 decoderVars, linked>>

-----------------------------------------------------------------------------
(* The decoder thread.                                                     *)

Dequeue ==
  /\ decoder = "idle"
  /\ decodeUnitQueue # <<>>
  /\ unit' = Head(decodeUnitQueue)
  /\ decodeUnitQueue' = Tail(decodeUnitQueue)
  /\ decoder' = "submit"
  /\ UNCHANGED <<netVars, idrFrameRequiredEvent, flagVars, consecutiveFrameDrops,
                 receiveVars, errors, reference, linked, silent>>

\* The pictures the unit is predicted from are there.
Decodable == unit.type = "I" \/ (unit.linked /\ reference = "good")

\* avcodec_decode_video2 succeeds, with a picture or without.  Without its
\* reference the decoder makes up a picture.
DecodeSucceeds ==
  /\ decoder = "submit"
  /\ reference' = IF Decodable THEN "good" ELSE "broken"
  /\ silent' = (silent /\ ~Decodable)
  /\ unit' = NoUnit
  /\ decoder' = "idle"
  /\ UNCHANGED <<netVars, idrFrameRequiredEvent, flagVars, consecutiveFrameDrops,
                 receiveVars, decodeUnitQueue, errors, linked>>

\* The unit is larger than DECODER_BUFFER_SIZE: it is dropped, with DR_OK.
UnitTooLarge ==
  /\ decoder = "submit"
  /\ errors < MaxErrors
  /\ errors' = errors + 1
  /\ reference' = "broken"
  /\ silent' = TRUE
  /\ unit' = NoUnit
  /\ decoder' = "idle"
  /\ UNCHANGED <<netVars, idrFrameRequiredEvent, flagVars, consecutiveFrameDrops,
                 receiveVars, decodeUnitQueue, linked>>

\* Mutant: a decode error is reported as success.
DecodeFails_ReportsOk ==
  /\ decoder = "submit"
  /\ errors < MaxErrors
  /\ errors' = errors + 1
  /\ reference' = "broken"
  /\ silent' = FALSE
  /\ unit' = NoUnit
  /\ decoder' = "idle"
  /\ UNCHANGED <<netVars, idrFrameRequiredEvent, flagVars, consecutiveFrameDrops,
                 receiveVars, decodeUnitQueue, linked>>

\* DR_NEED_IDR.
DecodeFails ==
  /\ decoder = "submit"
  /\ errors < MaxErrors
  /\ errors' = errors + 1
  /\ reference' = "broken"
  /\ silent' = FALSE
  /\ unit' = NoUnit
  /\ decoder' = "refresh"
  /\ UNCHANGED <<netVars, idrFrameRequiredEvent, flagVars, consecutiveFrameDrops,
                 receiveVars, decodeUnitQueue, linked>>

\* requestDecoderRefresh, one access at a time.
RefreshWait ==
  /\ decoder = "refresh"
  /\ waitingForIdrFrame' = TRUE
  /\ decoder' = "flush"
  /\ UNCHANGED <<netVars, idrFrameRequiredEvent, waitingForNextSuccessfulFrame,
                 dropStatePending, consecutiveFrameDrops, receiveVars, decodeUnitQueue,
                 unit, errors, reference, linked, silent>>

RefreshFlush ==
  /\ decoder = "flush"
  /\ decodeUnitQueue' = <<>>
  /\ linked' = FALSE
  /\ decoder' = "pending"
  /\ UNCHANGED <<netVars, idrFrameRequiredEvent, flagVars, consecutiveFrameDrops,
                 receiveVars, unit, errors, reference, silent>>

RefreshPending ==
  /\ decoder = "pending"
  /\ dropStatePending' = TRUE
  /\ decoder' = "request"
  /\ UNCHANGED <<netVars, idrFrameRequiredEvent, waitingForIdrFrame,
                 waitingForNextSuccessfulFrame, consecutiveFrameDrops, receiveVars,
                 decodeUnitQueue, unit, errors, reference, linked, silent>>

RefreshRequest ==
  /\ decoder = "request"
  /\ idrFrameRequiredEvent' = TRUE
  /\ decoder' = "idle"
  /\ UNCHANGED <<netVars, flagVars, consecutiveFrameDrops, receiveVars, decodeUnitQueue,
                 unit, errors, reference, linked, silent>>

-----------------------------------------------------------------------------
Receive ==
  \/ FrameLost \/ FirstPacket
  \/ StillWaiting \/ NotWaiting \/ PendingDrop \/ NoPendingDrop
  \/ Reassemble \/ QueueOverflow \/ OverflowFlush

Submit == DecodeSucceeds \/ UnitTooLarge \/ DecodeFails

Refresh == RefreshWait \/ RefreshFlush \/ RefreshPending \/ RefreshRequest

Next ==
  \/ HostSendsP \/ HostSendsI \/ SendIdrRequest
  \/ Receive \/ CorruptFrame
  \/ Dequeue \/ Submit \/ Refresh

Spec == Init /\ [][Next]_vars

\* Every thread keeps running, the host keeps sending frames, and answers a
\* request for a key frame (the control channel is reliable).  The decoder
\* thread, woken when the queue fills, gets a unit before the queue has been
\* filled and flushed for ever.
FairSpec ==
  /\ Spec
  /\ WF_vars(HostSendsP \/ HostSendsI)
  /\ SF_vars(HostSendsI)
  /\ WF_vars(SendIdrRequest)
  /\ WF_vars(Receive)
  /\ SF_vars(Dequeue)
  /\ WF_vars(Submit \/ Refresh)

-----------------------------------------------------------------------------
TypeOK ==
  /\ wire \in Seq({"I", "P", "Lost"}) /\ Len(wire) <= WireBound
  /\ requests \in 0 .. MaxRequests
  /\ losses \in 0 .. MaxLosses
  /\ idrFrameRequiredEvent \in BOOLEAN
  /\ waitingForIdrFrame \in BOOLEAN /\ waitingForNextSuccessfulFrame \in BOOLEAN
  /\ dropStatePending \in BOOLEAN
  /\ gap \in BOOLEAN /\ reportedLostFrame \in BOOLEAN
  /\ linked \in BOOLEAN /\ silent \in BOOLEAN
  /\ consecutiveFrameDrops \in 0 .. DropLimit - 1
  /\ receiver \in {"idle", "assembled", "checked", "offer", "overflow"}
  /\ frameType \in {"I", "P"}
  /\ decodeUnitQueue \in Seq(Unit) /\ Len(decodeUnitQueue) <= QueueBound
  /\ decoder \in {"idle", "submit", "refresh", "flush", "pending", "request"}
  /\ unit \in Unit
  /\ errors \in 0 .. MaxErrors
  /\ reference \in {"good", "broken"}

\* Losses on the network and overflows of the queue never reach the decoder:
\* as long as it has not rejected a unit, it decodes only what it has the
\* reference for.
LossesNeverReachDecoder == decoder = "submit" /\ errors = 0 => Decodable

\* A picture that is broken is repaired by a key frame, whatever frames were
\* lost and however the threads interleave, if the decoder does not reject
\* units for ever -- unless it broke by a unit dropped with DR_OK.
BrokenPictureRecovers ==
  reference = "broken" /\ ~silent ~> reference = "good" \/ silent

\* "If the decoder is unable to process the submitted data for some reason, it
\* must return DR_NEED_IDR to generate a keyframe" (Limelight.h): then every
\* broken picture is repaired.  A unit that is too large is answered DR_OK.
EveryBrokenPictureRecovers == reference = "broken" ~> reference = "good"
=============================================================================
