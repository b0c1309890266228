------------------------------- MODULE GxFlip -------------------------------
(***************************************************************************)
(* Getting a drawn frame onto the television: gx_video_draw_yuv and        *)
(* gx_video_present of src/wii/gx_video.c on the main thread, the GPU that *)
(* works behind them, and the two interrupt callbacks, draw_done_cb and    *)
(* vblank_cb.  Menus and stream draw through the same code.                *)
(*                                                                         *)
(* The parties share flip_pending and whichfb without a lock.  The GPU     *)
(* copies into xfb[whichfb] as it was when the copy was submitted;         *)
(* vblank_cb shows xfb[whichfb] as it is at the retrace, and toggles it.   *)
(*                                                                         *)
(* A frame is represented by its number, in the order of drawing; 0 is the *)
(* black that gx_video_init2 clears both buffers to.  The GPU takes any    *)
(* time for a copy, and the main thread any time between its statements.   *)
(***************************************************************************)
EXTENDS Integers

CONSTANTS
  SyncInterlace, \* sync_interlace: flip on one field of two
  DelayFrames,   \* DELAYRENDER_FRAMES
  MaxDrawn       \* bound: frames drawn

ASSUME FlipAssumption ==
  /\ SyncInterlace \in BOOLEAN
  /\ DelayFrames \in Nat
  /\ MaxDrawn \in Nat

VARIABLES
  main,         \* gx_video_draw_yuv: "idle", "wait", "fill", "pace", "vsync", "submit"
  drawn,        \* frames whose drawing has begun
  texture,      \* the frame in the Y, U and V textures
  presented,    \* gx_presented
  xfb,          \* the last frame copied to each of the two framebuffers
  copying,      \* the framebuffer the GPU copies to, or Nowhere
  whichfb,
  flipPending,  \* flip_pending
  delayed,      \* delayrender_frames
  shown,        \* the framebuffer the video interface scans out
  field,        \* the field that follows the next retrace
  flips         \* auxiliary: flips so far, counted up to two

mainVars == <<main, drawn, texture, presented>>
viVars == <<delayed, shown, field, flips>>
flipVars == <<mainVars, xfb, copying, whichfb, flipPending, viVars>>

Framebuffers == {0, 1}
Nowhere == -1

\* After gx_video_init2.
FlipInit ==
  /\ main = "idle" /\ drawn = 0 /\ texture = 0 /\ presented = FALSE
  /\ xfb = [b \in Framebuffers |-> 0]
  /\ copying = Nowhere
  /\ whichfb = 0 /\ flipPending = FALSE
  /\ delayed = 0 /\ shown = 0 /\ field \in {0, 1}
  /\ flips = 0

-----------------------------------------------------------------------------
(* The main thread: gx_video_draw_yuv.                                     *)

MainGoes(from, to) ==
  /\ main = from
  /\ main' = to
  /\ UNCHANGED <<xfb, copying, whichfb, flipPending, viVars>>

BeginDraw ==
  /\ drawn < MaxDrawn
  /\ MainGoes("idle", "wait")
  /\ drawn' = drawn + 1
  /\ UNCHANGED <<texture, presented>>

\* Mutant: GX_WaitDrawDone is left out.
WaitDrawDone_Skipped == MainGoes("wait", "fill") /\ UNCHANGED <<drawn, texture, presented>>

\* GX_WaitDrawDone, once a frame has been presented.
WaitDrawDone ==
  /\ presented => copying = Nowhere
  /\ MainGoes("wait", "fill")
  /\ UNCHANGED <<drawn, texture, presented>>

\* GX_FillTextureYUV and the flushes have written the textures.
FillTexture ==
  /\ MainGoes("fill", "pace")
  /\ texture' = drawn
  /\ UNCHANGED <<drawn, presented>>

\* Mutant: the render is not paced to the retrace.
Pace_Never == MainGoes("pace", "submit") /\ UNCHANGED <<drawn, texture, presented>>

\* "one retrace if a flip is still pending"
Pace ==
  /\ MainGoes("pace", IF flipPending THEN "vsync" ELSE "submit")
  /\ UNCHANGED <<drawn, texture, presented>>

\* Mutant: the copy goes to the framebuffer that was shown last.
Present_ToOther ==
  /\ main = "submit" /\ main' = "idle"
  /\ copying' = 1 - whichfb
  /\ presented' = TRUE
  /\ UNCHANGED <<drawn, texture, xfb, whichfb, flipPending, viVars>>

\* GX_CallDispList, then gx_video_present: the copy is submitted, not awaited.
Present ==
  /\ main = "submit" /\ main' = "idle"
  /\ copying' = whichfb
  /\ presented' = TRUE
  /\ UNCHANGED <<drawn, texture, xfb, whichfb, flipPending, viVars>>

-----------------------------------------------------------------------------
(* The GPU and its interrupt.                                              *)

\* The copy is complete: draw_done_cb.
DrawDone ==
  /\ copying # Nowhere
  /\ xfb' = [xfb EXCEPT ![copying] = texture]
  /\ copying' = Nowhere
  /\ flipPending' = TRUE
  /\ UNCHANGED <<mainVars, whichfb, viVars>>

-----------------------------------------------------------------------------
(* The retrace, which calls vblank_cb and then wakes VIDEO_WaitVSync.      *)

Black == delayed < DelayFrames

DoFlip == ~ SyncInterlace \/ field = 0

Flip ==
  /\ shown' = whichfb
  /\ whichfb' = 1 - whichfb
  /\ flipPending' = FALSE
  /\ flips' = IF flips < 2 THEN flips + 1 ELSE flips

VblankCb ==
  \/ /\ Black
     /\ delayed' = delayed + 1
     /\ UNCHANGED <<shown, whichfb, flipPending, flips>>
  \/ /\ ~ Black /\ flipPending /\ DoFlip
     /\ Flip
     /\ UNCHANGED delayed
  \/ /\ ~ Black /\ ~ (flipPending /\ DoFlip)
     /\ UNCHANGED <<delayed, shown, whichfb, flipPending, flips>>

Retrace ==
  /\ VblankCb
  /\ field' = 1 - field
  /\ main' = IF main = "vsync" THEN "submit" ELSE main
  /\ UNCHANGED <<drawn, texture, presented, xfb, copying>>

-----------------------------------------------------------------------------
DrawSteps == WaitDrawDone \/ FillTexture \/ Pace \/ Present

FlipNext == BeginDraw \/ DrawSteps \/ DrawDone \/ Retrace

FlipSpec == FlipInit /\ [][FlipNext]_flipVars

\* The main thread finishes the frame it has begun, the GPU its copy, and the
\* television keeps scanning.
FlipFairSpec == FlipSpec /\ WF_flipVars(DrawSteps) /\ WF_flipVars(DrawDone) /\ WF_flipVars(Retrace)

-----------------------------------------------------------------------------
FlipTypeOK ==
  /\ main \in {"idle", "wait", "fill", "pace", "vsync", "submit"}
  /\ drawn \in 0 .. MaxDrawn /\ texture \in 0 .. drawn
  /\ presented \in BOOLEAN
  /\ xfb \in [Framebuffers -> 0 .. drawn]
  /\ copying \in Framebuffers \cup {Nowhere}
  /\ whichfb \in Framebuffers /\ flipPending \in BOOLEAN
  /\ delayed \in 0 .. DelayFrames
  /\ shown \in Framebuffers /\ field \in {0, 1}
  /\ flips \in 0 .. 2

\* gx_video.c:865-868: the shared textures are never written while the GPU still
\* samples them, from the first frame on.
TextureUntouched == main = "fill" => copying = Nowhere

\* From the second flip on, the GPU does not copy into the framebuffer that is
\* on the screen, however long it takes and wherever the main thread is held up.
ShownIsComplete == flips = 2 => copying # shown

\* From the second flip on, the picture on the screen never goes back to an
\* older one.
NeverBackwards == [][flips = 2 => xfb'[shown'] >= xfb[shown]]_flipVars

\* From the second flip on, a frame that is submitted comes to the screen and
\* stays there until a later one does: nobody has to draw again to bring it out,
\* as the menus, which draw only what has changed, rely on.
FrameIsShown ==
  \A n \in 1 .. MaxDrawn :
    (flips = 2 /\ copying # Nowhere /\ texture = n) ~> [](xfb[shown] >= n)
=============================================================================
