----------------------------- MODULE AudioRing -----------------------------
(***************************************************************************)
(* The audio renderer of src/wii/audio.c and the three parties that drive  *)
(* it: the audio decoder thread (ar_decode_and_play_sample), the AI DMA    *)
(* interrupt (dma_callback), and the main thread, which starts and stops   *)
(* the stream (ar_init, ar_start, ar_stop, ar_cleanup, in the order of     *)
(* startAudioStream and stopAudioStream of moonlight-common-c).            *)
(*                                                                         *)
(* PCM is packed through a carry buffer into a ring of BufferCount         *)
(* buffers.  stopAudioStream calls ar_stop BEFORE it stops and joins the   *)
(* decoder thread, so the thread may run through all of its steps while    *)
(* and after the main thread resets the counters it uses.                  *)
(*                                                                         *)
(* Sound is represented by the number of the chunk a buffer was filled     *)
(* with.  buffered counts buffers where the code counts bytes: every       *)
(* change of it is a whole BUFFER_SIZE.                                    *)
(***************************************************************************)
EXTENDS Integers

CONSTANTS
  BufferSize,  \* BUFFER_SIZE, in some unit of PCM
  BufferCount, \* BUFFER_COUNT
  PacketSizes, \* what a decoded packet can yield, in the same unit
  MaxPackets   \* bound: packets per session

ASSUME AudioAssumption ==
  /\ BufferSize \in Nat \ {0}
  /\ BufferCount \in Nat /\ BufferCount >= 3
  /\ PacketSizes \subseteq Nat \ {0}
  /\ MaxPackets \in Nat

VARIABLES
  ring,        \* the chunk in each buffer; 0 is the silence of ar_init
  bufferFill,  \* the buffer the decoder thread fills next
  bufferPlay,  \* the buffer the interrupt hands out next
  buffered,    \* full buffers between the two
  carryFill,   \* how much of the carry buffer is used
  playing,     \* set by the first chunk, never cleared by an underrun
  thread,      \* where the decoder thread is
  total,       \* what it still has to append of its packet
  carryRead,   \* the carryFill it read when it began to append
  main,        \* where the main thread is
  callback,    \* dma_callback is registered
  allocated,   \* the buffers exist
  dmaOn, dmaCur, dmaNext, \* the DMA engine: running, the buffer it reads, the one it reads next
  packets,     \* auxiliary: packets in this session
  committed,   \* auxiliary: chunks put into the ring in this session
  handed       \* auxiliary: the chunk the interrupt handed out last

ringVars == <<ring, bufferFill, bufferPlay, buffered, carryFill, playing>>
threadVars == <<thread, total, carryRead>>
mainVars == <<main, callback, allocated>>
dmaVars == <<dmaOn, dmaCur, dmaNext>>
auxVars == <<packets, committed, handed>>
vars == <<ringVars, threadVars, mainVars, dmaVars, auxVars>>

Buffers == 0 .. BufferCount - 1
Silence == -1  \* the address of the silence buffer

After(b) == (b + 1) % BufferCount

Minimum(a, b) == IF a < b THEN a ELSE b

Init ==
  /\ ring = [b \in Buffers |-> 0]
  /\ bufferFill = 0 /\ bufferPlay = 0 /\ buffered = 0
  /\ carryFill = 0
  /\ playing = FALSE
  /\ thread = "none" /\ total = 0 /\ carryRead = 0
  /\ main = "menu" /\ callback = FALSE /\ allocated = FALSE
  /\ dmaOn = FALSE /\ dmaCur = Silence /\ dmaNext = Silence
  /\ packets = 0 /\ committed = 0 /\ handed = 0

\* Mutant: no buffers are kept free for the DMA engine.
GetSpace_AllBuffers == BufferCount - buffered

\* get_space, in buffers: two of them are kept free for the DMA engine.
GetSpace == (BufferCount - 2) - buffered

-----------------------------------------------------------------------------
(* The main thread.                                                        *)

\* Mutant: ar_start relies on ar_stop for the counters.
StartStream_TrustsStop ==
  /\ main = "menu"
  /\ ring' = [b \in Buffers |-> 0]
  /\ bufferFill' = 0 /\ bufferPlay' = 0
  /\ thread' = "idle"
  /\ main' = "run" /\ callback' = TRUE /\ allocated' = TRUE
  /\ packets' = 0 /\ committed' = 0 /\ handed' = 0
  /\ UNCHANGED <<buffered, carryFill, playing, total, carryRead, dmaVars>>

\* ar_init and ar_start, then the decoder thread is created.  (When ar_init
\* fails, nothing here changes and no thread is created.)
StartStream ==
  /\ main = "menu"
  /\ ring' = [b \in Buffers |-> 0]
  /\ bufferFill' = 0 /\ bufferPlay' = 0 /\ buffered' = 0
  /\ carryFill' = 0
  /\ playing' = FALSE
  /\ thread' = "idle"
  /\ main' = "run" /\ callback' = TRUE /\ allocated' = TRUE
  /\ packets' = 0 /\ committed' = 0 /\ handed' = 0
  /\ UNCHANGED <<total, carryRead, dmaVars>>

\* ar_stop, in the order of its statements: the callback goes first ...
StopUnregister ==
  /\ main = "run"
  /\ callback' = FALSE
  /\ main' = "reset"
  /\ UNCHANGED <<ringVars, threadVars, allocated, dmaVars, auxVars>>

\* ... then what the decoder thread may be using, a store at a time ...
StopReset ==
  /\ \/ /\ main = "reset" /\ main' = "resetLevel"
        /\ playing' = FALSE
        /\ UNCHANGED <<buffered, carryFill>>
     \/ /\ main = "resetLevel" /\ main' = "resetCarry"
        /\ buffered' = 0
        /\ UNCHANGED <<playing, carryFill>>
     \/ /\ main = "resetCarry" /\ main' = "halt"
        /\ carryFill' = 0
        /\ UNCHANGED <<playing, buffered>>
  /\ UNCHANGED <<ring, bufferFill, bufferPlay, threadVars, callback, allocated, dmaVars, auxVars>>

\* ... then the engine.
StopHalt ==
  /\ main = "halt"
  /\ dmaOn' = FALSE
  /\ main' = "shutdown"
  /\ UNCHANGED <<ringVars, threadVars, callback, allocated, dmaCur, dmaNext, auxVars>>

\* Only now does stopAudioStream shut the packet queue down, and waits for the
\* decoder thread.
ShutdownQueue ==
  /\ main = "shutdown"
  /\ main' = "join"
  /\ UNCHANGED <<ringVars, threadVars, callback, allocated, dmaVars, auxVars>>

\* Mutant: ar_cleanup relies on ar_stop for the engine.
Cleanup_KeepsEngine ==
  /\ main = "join"
  /\ thread = "none"
  /\ callback' = FALSE
  /\ allocated' = FALSE
  /\ main' = "menu"
  /\ UNCHANGED <<ringVars, threadVars, dmaVars, auxVars>>

\* ar_cleanup, once the decoder thread has been joined.
Cleanup ==
  /\ main = "join"
  /\ thread = "none"
  /\ callback' = FALSE
  /\ dmaOn' = FALSE
  /\ allocated' = FALSE
  /\ main' = "menu"
  /\ UNCHANGED <<ringVars, threadVars, dmaCur, dmaNext, auxVars>>

-----------------------------------------------------------------------------
(* The decoder thread: ar_decode_and_play_sample and append_to_ring.       *)

\* A packet (or the concealment of a lost one) yields n units of PCM, and
\* append_to_ring looks at the carry buffer.  Once the packet queue is shut
\* down it hands out nothing, even when packets are left in it.
Packet(n) ==
  /\ thread = "idle"
  /\ main # "join"
  /\ packets < MaxPackets
  /\ total' = n
  /\ carryRead' = carryFill
  /\ thread' = IF carryFill > 0 THEN "carry" ELSE "bulk"
  /\ packets' = packets + 1
  /\ UNCHANGED <<ringVars, mainVars, dmaVars, committed, handed>>

\* Mutant: the room left in the carry buffer is not looked at.
ToCarry_Unbounded == total

ToCarry == Minimum(total, BufferSize - carryRead)

\* The packet first tops up the carry buffer.  ar_stop may have cleared
\* carryFill since it was read; the code reads it again where the compiler
\* chooses to, so the sum starts from either value.
CarryAppend ==
  /\ thread = "carry"
  /\ \E base \in {carryRead, carryFill} :
       /\ carryFill' = base + ToCarry
       /\ thread' = IF base + ToCarry = BufferSize THEN "commit" ELSE "bulk"
  /\ total' = total - ToCarry
  /\ UNCHANGED <<ring, bufferFill, bufferPlay, buffered, playing, carryRead, mainVars, dmaVars, auxVars>>

\* The copy into the ring, which the DMA engine may be reading.
WriteChunk ==
  /\ ring' = [ring EXCEPT ![bufferFill] = committed + 1]
  /\ UNCHANGED <<bufferFill, bufferPlay, buffered, carryFill, playing, total, carryRead,
                 mainVars, dmaVars, packets, committed, handed>>

\* The counters change with interrupts disabled.
PublishChunk ==
  /\ bufferFill' = After(bufferFill)
  /\ buffered' = buffered + 1
  /\ committed' = committed + 1
  /\ UNCHANGED <<ring, bufferPlay, playing, carryRead, mainVars, dmaVars, packets, handed>>

\* commit_carry: the full carry buffer goes into the ring.
CommitWrite ==
  /\ thread = "commit"
  /\ WriteChunk
  /\ thread' = "commitPublish"

CommitPublish ==
  /\ thread = "commitPublish"
  /\ PublishChunk
  /\ carryFill' = 0
  /\ thread' = "bulk"
  /\ UNCHANGED total

\* Whole buffers go straight to the ring while there is space ...
BulkWrite ==
  /\ thread = "bulk"
  /\ total >= BufferSize
  /\ GetSpace >= 1
  /\ WriteChunk
  /\ thread' = "bulkPublish"

BulkPublish ==
  /\ thread = "bulkPublish"
  /\ PublishChunk
  /\ total' = total - BufferSize
  /\ thread' = "bulk"
  /\ UNCHANGED carryFill

\* Mutant: the thread waits until the ring has space for the rest.
KeepRest_WaitsForSpace ==
  /\ thread = "bulk"
  /\ \/ /\ total < BufferSize
        /\ carryFill' = IF total > 0 THEN total ELSE carryFill
        /\ total' = 0
        /\ thread' = "start"
     \/ /\ total >= BufferSize /\ GetSpace < 1
        /\ UNCHANGED <<carryFill, total, thread>>
  /\ UNCHANGED <<ring, bufferFill, bufferPlay, buffered, playing, carryRead, mainVars, dmaVars, auxVars>>

\* ... the rest is kept in the carry buffer, and lost if it is a buffer or more.
KeepRest ==
  /\ thread = "bulk"
  /\ ~ (total >= BufferSize /\ GetSpace >= 1)
  /\ carryFill' = IF total > 0 /\ total < BufferSize THEN total ELSE carryFill
  /\ total' = 0
  /\ thread' = "start"
  /\ UNCHANGED <<ring, bufferFill, bufferPlay, buffered, playing, carryRead, mainVars, dmaVars, auxVars>>

\* The first chunk starts playback: AUDIO_InitDMA with the next buffer (neither
\* bufferPlay nor buffered moves), then AUDIO_StartDMA.
StartPlaying ==
  /\ thread = "start"
  /\ ~ playing /\ buffered > 0
  /\ playing' = TRUE
  /\ dmaNext' = bufferPlay
  /\ thread' = "startDma"
  /\ UNCHANGED <<ring, bufferFill, bufferPlay, buffered, carryFill, total, carryRead, mainVars,
                 dmaOn, dmaCur, auxVars>>

KeepPlaying ==
  /\ thread = "start"
  /\ playing \/ buffered = 0
  /\ thread' = "idle"
  /\ UNCHANGED <<ringVars, total, carryRead, mainVars, dmaVars, auxVars>>

StartDma ==
  /\ thread = "startDma"
  /\ dmaOn' = TRUE
  /\ dmaCur' = IF dmaOn THEN dmaCur ELSE dmaNext
  /\ thread' = "idle"
  /\ UNCHANGED <<ringVars, total, carryRead, mainVars, dmaNext, auxVars>>

\* LbqWaitForQueueElement reports the shutdown: the thread returns.
ThreadExit ==
  /\ thread = "idle"
  /\ main = "join"
  /\ thread' = "none"
  /\ UNCHANGED <<ringVars, total, carryRead, mainVars, dmaVars, auxVars>>

-----------------------------------------------------------------------------
(* The DMA engine, which is not part of the program: when it has read a    *)
(* buffer it goes on with the last one it was given, and interrupts.       *)

\* Mutant: the last buffered chunk is held back.
DmaCallback_KeepsOne ==
  IF playing /\ buffered > 1
    THEN /\ dmaNext' = bufferPlay
         /\ bufferPlay' = After(bufferPlay)
         /\ buffered' = buffered - 1
         /\ handed' = ring[bufferPlay]
    ELSE /\ dmaNext' = Silence
         /\ UNCHANGED <<bufferPlay, buffered, handed>>

\* dma_callback: the next buffer if there is one, silence otherwise.
DmaCallback ==
  IF playing /\ buffered > 0
    THEN /\ dmaNext' = bufferPlay
         /\ bufferPlay' = After(bufferPlay)
         /\ buffered' = buffered - 1
         /\ handed' = ring[bufferPlay]
    ELSE /\ dmaNext' = Silence
         /\ UNCHANGED <<bufferPlay, buffered, handed>>

DmaInterrupt ==
  /\ dmaOn
  /\ dmaCur' = dmaNext
  /\ IF callback THEN DmaCallback
                 ELSE UNCHANGED <<dmaNext, bufferPlay, buffered, handed>>
  /\ UNCHANGED <<ring, bufferFill, carryFill, playing, threadVars, mainVars, dmaOn,
                 packets, committed>>

-----------------------------------------------------------------------------
StopRest == StopReset \/ StopHalt \/ ShutdownQueue \/ Cleanup

MainThread == StartStream \/ StopUnregister \/ StopRest

Append == CarryAppend \/ CommitWrite \/ CommitPublish \/ BulkWrite \/ BulkPublish
            \/ KeepRest \/ StartPlaying \/ KeepPlaying \/ StartDma

DecoderThread == (\E n \in PacketSizes : Packet(n)) \/ Append \/ ThreadExit

Next == MainThread \/ DecoderThread \/ DmaInterrupt

Spec == Init /\ [][Next]_vars

\* The threads are scheduled and a running engine interrupts again and again.
\* Packets, and the start and stop of a stream, are not promised.
FairSpec ==
  /\ Spec
  /\ WF_vars(Append)
  /\ WF_vars(ThreadExit)
  /\ WF_vars(DmaInterrupt)
  /\ WF_vars(StopRest)

-----------------------------------------------------------------------------
Threads == {"none", "idle", "carry", "commit", "commitPublish", "bulk", "bulkPublish",
            "start", "startDma"}

TypeOK ==
  /\ ring \in [Buffers -> Nat]
  /\ bufferFill \in Buffers /\ bufferPlay \in Buffers
  /\ buffered \in Nat
  /\ carryFill \in 0 .. BufferSize
  /\ playing \in BOOLEAN
  /\ thread \in Threads
  /\ total \in Nat
  /\ carryRead \in 0 .. BufferSize
  /\ main \in {"menu", "run", "reset", "resetLevel", "resetCarry", "halt", "shutdown", "join"}
  /\ callback \in BOOLEAN /\ allocated \in BOOLEAN
  /\ dmaOn \in BOOLEAN
  /\ dmaCur \in Buffers \cup {Silence} /\ dmaNext \in Buffers \cup {Silence}
  /\ packets \in 0 .. MaxPackets
  /\ committed \in Nat /\ handed \in Nat

Running == main = "run"
Writing == thread \in {"commitPublish", "bulkPublish"}

\* The buffers that hold sound still to be played, without the one that is
\* being overwritten because the ring is full.
Intact == IF Writing THEN BufferCount - 1 ELSE BufferCount

\* While a stream runs, the two indices and the fill level agree, and the ring
\* holds the newest chunks in the order they were decoded: interrupts between
\* any two statements of append_to_ring, and late steps of an earlier session's
\* decoder thread, leave no gap and no stale sound.
RingInOrder ==
  Running =>
    /\ bufferFill = (bufferPlay + buffered) % BufferCount
    /\ \A j \in 0 .. buffered - 1 :
         buffered - j <= Intact =>
           ring[(bufferPlay + j) % BufferCount] = committed - buffered + 1 + j

\* A chunk is overwritten under the DMA engine only by commit_carry, which does
\* not ask for space, and only when all but two buffers are full: the bulk path
\* checks the level with interrupts enabled and writes afterwards, and still
\* stays clear of the two buffers the engine has.
TearsOnlyFromCarry ==
  (Running /\ Writing /\ dmaOn /\ bufferFill \in {dmaCur, dmaNext})
    => thread = "commitPublish" /\ buffered >= BufferCount - 2

\* The copy into the carry buffer stays inside it, whichever value of carryFill
\* the sum starts from, although ar_stop clears carryFill under the thread.
CarryStaysInside ==
  thread = "carry" => carryRead + ToCarry <= BufferSize /\ carryFill + ToCarry <= BufferSize

\* The DMA engine never runs, and never interrupts into the program, after the
\* buffers were freed -- although the decoder thread can start the engine again
\* after ar_stop halted it.
NoDmaFromFreedMemory == (dmaOn \/ callback) => allocated

\* playing is never stale: when the stream runs and playing is set, the engine
\* runs, or the thread is about to start it.  (A stale one would mean silence
\* for the whole session, as only ~playing starts the engine.)
PlayingMeansDma == (Running /\ playing) => (dmaOn \/ thread = "startDma")

\* Buffered sound is played: no underrun and no stop leaves chunks behind that
\* only another packet would bring out.
BufferedIsPlayed ==
  \A n \in 1 .. MaxPackets : (Running /\ committed >= n) ~> (handed >= n \/ ~ Running)

\* stopAudioStream returns, whatever the decoder thread was doing when ar_stop
\* ran.
StopReturns == main = "reset" ~> main = "menu"

=============================================================================
