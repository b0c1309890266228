--------------------------- MODULE VideoPipeline ---------------------------
(***************************************************************************)
(* Decoded pictures on their way from the decoder thread to the screen,    *)
(* over any number of streaming sessions: the frame buffers and the        *)
(* decoder of src/wii/decode.c, the drawing loop of the main thread        *)
(* (wii_stream_draw) and the frame queue between them.                     *)
(*                                                                         *)
(* The queue carries pointers to NumBuffers shared buffers.  The decoder   *)
(* writes a picture into frames[currentTexture] and the main thread reads  *)
(* it, both outside queueMutex, so writing and reading each take a begin   *)
(* and an end step.  The queue is initialised once, at boot; the buffers   *)
(* are allocated and freed by every session.                               *)
(*                                                                         *)
(* A picture is represented by its number, the value nextFrame gets when   *)
(* it has been copied; nextFrame is never reset, so the numbers tell       *)
(* sessions apart as well.                                                 *)
(***************************************************************************)
EXTENDS FrameQueue

CONSTANTS
  NumBuffers, \* NUM_BUFFERS
  MaxFrames   \* bound: pictures decoded in a behaviour

ASSUME PipelineAssumption ==
  /\ NumBuffers \in Nat \ {0}
  /\ Frames = 0 .. NumBuffers - 1
  /\ MaxFrames \in Nat

VARIABLES
  planes,         \* what the y, u and v planes of each buffer hold
  currentTexture, \* the buffer the decoder fills next
  nextFrame,      \* pictures copied since boot
  decoder,        \* the decoder thread: "none", "idle", "copy", "queue"
  drawer,         \* the main thread: "menu", "starting", "loop", "draw", "stopping"
  sessionStart,   \* auxiliary: nextFrame when the session's buffers were set up
  tags,           \* auxiliary: the picture each slot was queued for
  drawTag         \* auxiliary: the picture the drawn slot was queued for

pipelineVars == <<planes, currentTexture, nextFrame, decoder, drawer>>
auxVars == <<sessionStart, tags, drawTag>>
vars == <<queueVars, pipelineVars, auxVars>>

NullPlanes == -1  \* y = u = v = NULL
Garbage == 0      \* allocated, never written

Init ==
  /\ QueueInit
  /\ planes = [b \in Frames |-> NullPlanes]
  /\ currentTexture = 0
  /\ nextFrame = 0
  /\ decoder = "none"
  /\ drawer = "menu"
  /\ sessionStart = 0
  /\ tags = [s \in Slots |-> 0]
  /\ drawTag = 0

-----------------------------------------------------------------------------
(* The session: LiStartConnection and LiStopConnection on the main thread. *)

\* Mutant: the last buffer is not allocated.
SetupVideo_OneShort ==
  /\ drawer = "menu"
  /\ planes' = [b \in Frames |-> IF b < NumBuffers - 1 THEN Garbage ELSE planes[b]]
  /\ currentTexture' = 0
  /\ decoder' = "idle"
  /\ drawer' = "starting"
  /\ sessionStart' = nextFrame
  /\ UNCHANGED <<queueVars, nextFrame, tags, drawTag>>

\* wii_decoder_setup allocates every buffer anew, and startVideoStream then
\* creates the decoder thread.  Earlier stages and the audio stream are not
\* modelled: the thread may deliver pictures before LiStartConnection returns.
SetupVideo ==
  /\ drawer = "menu"
  /\ planes' = [b \in Frames |-> Garbage]
  /\ currentTexture' = 0
  /\ decoder' = "idle"
  /\ drawer' = "starting"
  /\ sessionStart' = nextFrame
  /\ UNCHANGED <<queueVars, nextFrame, tags, drawTag>>

\* wii_alloc_frames runs out of memory at buffer b: the buffers before it stay
\* allocated, b itself is cleared, and LiStartConnection fails.
SetupFailsAtBuffer(b) ==
  /\ drawer = "menu"
  /\ planes' = [c \in Frames |-> IF c < b THEN Garbage
                                 ELSE IF c = b THEN NullPlanes ELSE planes[c]]
  /\ UNCHANGED <<queueVars, currentTexture, nextFrame, decoder, drawer, auxVars>>

\* The decode buffer cannot be allocated, or a step of startVideoStream after
\* the setup fails: wii_decoder_cleanup clears every buffer.
SetupFailsLate ==
  /\ drawer = "menu"
  /\ planes' = [b \in Frames |-> NullPlanes]
  /\ currentTexture' \in {currentTexture, 0}
  /\ UNCHANGED <<queueVars, nextFrame, decoder, drawer, auxVars>>

\* LiStartConnection returns success: do_stream enters its loop.
ConnectionStarted ==
  /\ drawer = "starting"
  /\ drawer' = "loop"
  /\ UNCHANGED <<queueVars, planes, currentTexture, nextFrame, decoder, auxVars>>

\* LiStopConnection: after the loop of do_stream, or because a later stage of
\* LiStartConnection failed.
StopConnection ==
  /\ drawer \in {"starting", "loop"}
  /\ drawer' = "stopping"
  /\ UNCHANGED <<queueVars, planes, currentTexture, nextFrame, decoder, auxVars>>

\* stopVideoStream has joined the decoder thread and cleans the decoder up.
\* The queue is left as it is.
CleanupVideo ==
  /\ drawer = "stopping"
  /\ decoder = "none"
  /\ planes' = [b \in Frames |-> NullPlanes]
  /\ drawer' = "menu"
  /\ UNCHANGED <<queueVars, currentTexture, nextFrame, decoder, auxVars>>

-----------------------------------------------------------------------------
(* The decoder thread: wii_decoder_submit_decode_unit.                     *)

\* A decode unit yields a picture and the copy into the current buffer starts.
\* (A unit that yields none changes nothing here.)
CopyBegin ==
  /\ decoder = "idle"
  /\ nextFrame < MaxFrames
  /\ planes' = [planes EXCEPT ![currentTexture] = nextFrame + 1]
  /\ decoder' = "copy"
  /\ UNCHANGED <<queueVars, currentTexture, nextFrame, drawer, auxVars>>

CopyEnd ==
  /\ decoder = "copy"
  /\ nextFrame' = nextFrame + 1
  /\ decoder' = "queue"
  /\ UNCHANGED <<queueVars, planes, currentTexture, drawer, auxVars>>

\* Mutant: the buffer index never advances.
NextTexture_Stuck == currentTexture

NextTexture == IF currentTexture + 1 >= NumBuffers THEN 0 ELSE currentTexture + 1

\* Mutant: the buffer advances only when the queue took the picture.
QueuePicture_KeepsBufferWhenFull ==
  /\ decoder = "queue"
  /\ \/ /\ AddFrame(currentTexture)
        /\ tags' = [tags EXCEPT ![SlotOf(queueWriteIndex)] = nextFrame]
        /\ currentTexture' = NextTexture
     \/ /\ AddFrameFull
        /\ UNCHANGED <<tags, currentTexture>>
  /\ decoder' = "idle"
  /\ UNCHANGED <<planes, nextFrame, drawer, sessionStart, drawTag>>

\* Mutant: the decoder tries again until the queue has room.
QueuePicture_Retries ==
  /\ decoder = "queue"
  /\ \/ /\ AddFrame(currentTexture)
        /\ tags' = [tags EXCEPT ![SlotOf(queueWriteIndex)] = nextFrame]
        /\ currentTexture' = NextTexture
        /\ decoder' = "idle"
     \/ /\ AddFrameFull
        /\ UNCHANGED <<tags, currentTexture, decoder>>
  /\ UNCHANGED <<planes, nextFrame, drawer, sessionStart, drawTag>>

\* add_frame, then the next buffer: the buffer advances also when the queue was
\* full and the picture is lost.
QueuePicture ==
  /\ decoder = "queue"
  /\ \/ /\ AddFrame(currentTexture)
        /\ tags' = [tags EXCEPT ![SlotOf(queueWriteIndex)] = nextFrame]
     \/ /\ AddFrameFull
        /\ UNCHANGED tags
  /\ currentTexture' = NextTexture
  /\ decoder' = "idle"
  /\ UNCHANGED <<planes, nextFrame, drawer, sessionStart, drawTag>>

\* The decode unit queue was shut down: the thread returns and can be joined.
DecoderExit ==
  /\ decoder = "idle"
  /\ drawer = "stopping"
  /\ decoder' = "none"
  /\ UNCHANGED <<queueVars, planes, currentTexture, nextFrame, drawer, auxVars>>

-----------------------------------------------------------------------------
(* The main thread: wii_stream_draw in the loop of do_stream.              *)

DrawBegin ==
  /\ drawer = "loop"
  /\ GetFrame
  /\ drawTag' = tags[SlotOf(queueReadIndex)]
  /\ drawer' = "draw"
  /\ UNCHANGED <<planes, currentTexture, nextFrame, decoder, sessionStart, tags>>

\* Nothing queued: usleep and try again.
DrawNothing ==
  /\ drawer = "loop"
  /\ GetFrameEmpty
  /\ UNCHANGED <<pipelineVars, auxVars>>

\* gx_video_draw_yuv has read the planes.
DrawEnd ==
  /\ drawer = "draw"
  /\ drawer' = "loop"
  /\ UNCHANGED <<queueVars, planes, currentTexture, nextFrame, decoder, auxVars>>

-----------------------------------------------------------------------------
Session ==
  \/ SetupVideo
  \/ \E b \in Frames : SetupFailsAtBuffer(b)
  \/ SetupFailsLate
  \/ ConnectionStarted
  \/ StopConnection
  \/ CleanupVideo

DecoderThread == CopyBegin \/ CopyEnd \/ QueuePicture \/ DecoderExit

DrawLoop == DrawBegin \/ DrawNothing \/ DrawEnd

Next == Session \/ DecoderThread \/ DrawLoop

Spec == Init /\ [][Next]_vars

\* Both threads keep running: the decoder finishes a unit it has begun and
\* leaves when its queue is shut down, the main thread polls and draws, and
\* LiStartConnection and LiStopConnection return (their network waits time
\* out).  Pictures, failures and stops are not promised.
FairSpec ==
  /\ Spec
  /\ WF_vars(CopyEnd \/ QueuePicture)
  /\ WF_vars(DecoderExit)
  /\ WF_vars(DrawLoop)
  /\ WF_vars(ConnectionStarted)
  /\ WF_vars(CleanupVideo)

-----------------------------------------------------------------------------
Numbers == 0 .. MaxFrames

TypeOK ==
  /\ QueueTypeOK
  /\ planes \in [Frames -> {NullPlanes} \cup Numbers]
  /\ currentTexture \in Frames
  /\ nextFrame \in Numbers
  /\ decoder \in {"none", "idle", "copy", "queue"}
  /\ drawer \in {"menu", "starting", "loop", "draw", "stopping"}
  /\ sessionStart \in Numbers
  /\ tags \in [Slots -> Numbers]
  /\ drawTag \in Numbers

Drawing == drawer = "draw"
DrawsThisSession == Drawing /\ drawTag > sessionStart

\* The slots of the queue that hold a picture of the running session.
FreshSlots ==
  { s \in { SlotOf(queueReadIndex + k) : k \in 0 .. ElementsIn - 1 } :
      drawer # "menu" /\ tags[s] > sessionStart }

\* The drawing loop never dereferences NULL planes, although the queue keeps
\* pointers from earlier sessions whose buffers wii_decoder_cleanup freed, and
\* a failed wii_alloc_frames leaves some buffers without planes.
NoNullDraw == Drawing => planes[message] # NullPlanes

\* An entry queued in this session never shows a picture older than the one it
\* was queued for: its buffer holds that picture, or one a whole number of
\* rotations of the buffers later -- also after pictures were lost on a full
\* queue.
NeverOlderThanQueued ==
  /\ \A s \in FreshSlots :
       LET held == planes[queueMessages[s]]
       IN  held >= tags[s] /\ (held - tags[s]) % NumBuffers = 0
  /\ DrawsThisSession =>
       planes[message] >= drawTag /\ (planes[message] - drawTag) % NumBuffers = 0

\* Whatever the backlog of the queue, what is on the screen is one of the
\* NumBuffers newest pictures; only an entry left over from an earlier session
\* can show memory that was never written.
ShowsRecentPicture ==
  Drawing =>
    \/ planes[message] > nextFrame - NumBuffers /\ planes[message] > sessionStart
    \/ planes[message] = Garbage /\ drawTag <= sessionStart

\* A picture that was accepted by the queue is drawn, unless the stream stops.
QueuedIsDrawn ==
  \A n \in 1 .. MaxFrames :
    (\E s \in FreshSlots : tags[s] = n) ~> (drawTag >= n \/ drawer = "stopping")

\* LiStopConnection does not hang on the decoder thread, whatever the thread
\* was doing and however full the queue is.
StopCompletes == drawer = "stopping" ~> drawer = "menu"
=============================================================================
