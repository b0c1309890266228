# Moonlight for the Wii: a verification project in TLA+

This directory specifies the parts of moonlight-wii in which threads, interrupts,
a remote host and a power switch meet. The specifications are translated from the
C sources (`src/src/`, `src/libgamestream/`, and the calls of
`src/third_party/moonlight-common-c/` that drive the port's callbacks),
model-checked with TLC on small instances, and proved with TLAPS for every value of
their constants: every safety invariant that the passing runs check is a theorem.
Paths below are relative to the repository.

## The system

The Wii client is one program with these actors:

| actor | code | runs |
|---|---|---|
| main thread | `src/main.c`, `src/wii/menu.c`, `src/wii/gx_video.c` | menus, HTTP requests, start and stop of a stream, drawing |
| input thread | `src/wii/input.c` | exists during a stream; polls the Wiimote, sends controller events |
| video decoder thread | moonlight-common-c, calling `src/wii/decode.c` | decodes, copies pictures, queues them |
| video receive thread | moonlight-common-c (`RtpVideoQueue.c`, `VideoDepacketizer.c`) | assembles frames, queues decode units, asks for key frames |
| audio decoder thread | moonlight-common-c, calling `src/wii/audio.c` | decodes, fills the audio ring |
| connection threads | moonlight-common-c | report a lost connection; `connection_terminated` runs on a detached thread |
| DMA interrupt | `dma_callback` in `src/wii/audio.c` | takes buffers from the audio ring |
| GPU and retrace interrupts | `draw_done_cb`, `vblank_cb` in `src/wii/gx_video.c` | flip the framebuffers |
| the host | GameStream server | paired or not, running a game or not |
| the user | Wiimote, power switch | presses home at any time, switches off at any time |

They communicate through plain globals (`state`, `running`, `want_main_menu`, the
statics of `home_poll`), one mutex (the frame queue), sections with interrupts
disabled (the audio ring), and HTTP.

### Inventory

**Decoded-frame queue** (`src/wii/wii.c`). State: an array of 16 pointers, two
free-running unsigned indices, a mutex. Operations: `add_frame` (decoder thread;
loses the frame when full), `get_frame` (main thread; NULL when empty). Hard: the
indices wrap at 2^32 and "full" is an equality. Correct when it behaves as a
bounded FIFO that loses the newest frame.

**Video pipeline** (`src/wii/decode.c`, `wii_stream_draw`, the loop of
`do_stream`). State: two frame buffers, `currentTexture`, `nextFrame`, and the
queue, which is never reset and outlives the buffers. Operations:
`wii_decoder_setup`, `wii_decoder_submit_decode_unit`, `wii_decoder_cleanup`,
`wii_stream_draw`. The depacketizer of moonlight-common-c feeds it: flags of two
threads decide which frames reach the decoder and when a key frame is asked for.
Hard: copying and drawing both happen outside the mutex, a full
queue loses a picture but the buffers still rotate, stale entries survive a
session. Correct when nothing freed is drawn, pictures come in order, recent ones
are shown, stopping does not hang, and a picture that was broken by a loss or an
error is repaired.

**Audio renderer** (`src/wii/audio.c`). State: a ring of DMA buffers with two
indices and a level, a carry buffer, `playing`. Operations: `ar_init`,
`ar_decode_and_play_sample`, `dma_callback`, `ar_stop`, `ar_cleanup`. Hard:
`stopAudioStream` calls `ar_stop` before it joins the decoder thread, so the
counters are reset under it; the interrupt changes the level at any statement.
Correct when sound is played in order, is not overwritten while it plays, all of
it is played, and the engine never touches freed memory.

**Session control** (`src/main.c`, `src/wii/menu.c`, `src/wii/input.c`,
`src/wii/proc.c`, `src/_connection.c`). State: the globals named above.
Operations: the menus, `do_stream`, `home_poll` and its two callers, the input
thread, `connection_terminated`. Hard: four parties write `state` and `running`
without a lock; the home button is polled by two threads in turn and by nobody in
between. Correct when a stop stops, quitting quits, a press is honoured before
anything is started, and no two threads share what must not be shared.

**Host session** (`libgamestream/client.c`). State: `server->paired`,
`server->currentGame`. Operations: `gs_get_status` (`load_server_status`), `gs_pair`
(five requests), `gs_unpair`, `gs_start_app`, `gs_quit_app`. Hard: a request may
be lost, its answer may be lost, and the host changes on its own. Correct when
what the console believes agrees with the host whenever it could know.

**App choice** (`do_stream`, `menu_select`, `xml_applist`). State: the app list,
the highlight. Hard: the list is kept in reverse, is longer than the menu, is
walked by index and searched by name. Correct when the chosen app is started.

**Framebuffer flip** (`src/wii/gx_video.c`). State: `whichfb`, `flip_pending`,
`gx_presented`, `delayrender_frames`, two framebuffers, one set of textures.
Operations: `gx_video_draw_yuv`, `gx_video_present`, `draw_done_cb`, `vblank_cb`.
Hard: no lock, the copy is asynchronous, its target was chosen at an earlier time.
Correct when no texture is written while sampled, no framebuffer on the screen is
written, and frames reach the screen in order.

**Console identity** (`libgamestream/conf.c`, `mkcert.c`, `create_client` of
`src/main.c`). State: three files on the SD card. Operations: load, create,
generate and write. Hard: the console is switched off at any time and short
writes go unnoticed. Correct when a client never runs with a key and a
certificate of different pairs, and an identity hosts know is not replaced.

**Configuration file** (`src/config.c`, the menus of `src/main.c`). State: the
settings, in memory and on the card. Operations: `config_ensure_wii`,
`config_parse`, `config_save`, `settings_menu`, `enter_address`. Hard: switched off
in the middle of a save; what is written depends on defaults; the user edits the
file. Correct when every setting that is written comes back as it was chosen.

**Text entry and message boxes** (`src/wii/menu.c`). State: the edited string;
ownership of `config->address`, which the connected server points to.

**HTTP client** (`libgamestream/http.c`). State: the socket, the `HTTP_DATA` that the
pairing reuses, the timeout. Operations: `http_request` with `connect_host`,
`read_response`, `tls_request`. Hard: partial reads, timeouts, a peer that closes
early or says nothing, every step with a failure of its own. Correct when a
reported answer is the one to this request, whole if nothing failed, and every
request gives its socket back and returns.

**XML answers** (`libgamestream/xml.c`). A pure function of the answer.

**Network glue** (`src/wii/net.c`, `netcompat.c`): `poll`, `select` and socket
options over the Wii's calls, which name a socket by another number than the C
library does. **MEM2 allocator** (`mem2_manager.c`): heap areas.
**Others**: TLS random numbers, font rendering, video encoder registers, debug
output, SPS rewriting (not called by this port), the Wii U port (not built by this
Makefile), vendored libraries.

## The modules

| component | module | abstract specification | model checking | proofs |
|---|---|---|---|---|
| frame queue | `FrameQueue` | `DroppingFifo` | as part of `MCVideoPipeline` | `DisplayProofs` |
| video pipeline | `VideoPipeline` (extends `FrameQueue`) | `DroppingFifo` | `MCVideoPipeline` | `DisplayProofs` |
| video recovery | `VideoRecovery` | | `MCVideoRecovery` | `VideoRecoveryProofs` |
| framebuffer flip | `GxFlip` | | `MCGxFlip` | `DisplayProofs` |
| audio renderer | `AudioRing` | | `MCAudioRing` | `AudioRingProofs` |
| session control | `StreamSession` | | `MCStreamSession` | `StreamSessionProofs` |
| host session | `HostSession` | | as part of `MCStreamStart` | `StreamStartProofs` |
| app choice | `AppChoice` | | as part of `MCStreamStart` | `StreamStartProofs` |
| the two together | `StreamStart` (extends both) | `HostSession` | `MCStreamStart` | `StreamStartProofs` |
| console identity | `KeyStore` | | as part of `MCStorage` | `StorageProofs` |
| configuration file | `ConfigFile` | | as part of `MCStorage` | `StorageProofs` |
| the card and the start of the program | `Storage` (extends both) | `KeyStore` | `MCStorage` | `StorageProofs` |
| HTTP client | `HttpClient` | | `MCHttpClient` | `HttpClientProofs` |
| `select` of the network glue | `NetCompat` (used by `HttpClient`) | | as part of `MCHttpClient` | `HttpClientProofs` |

`NumberFacts` holds the facts about numbers that the proofs share.

`MCHostSession` and `MCAppChoice` check two components alone, for what the code does
otherwise than it says.

Definitions whose names contain an underscore (`AddFrame_NoFullCheck`,
`Pace_Never`) are mutants: plausible mistakes in the code, used to see that each
property can fail. No specification uses them.

### FrameQueue and DroppingFifo

The variables have the names of the C statics; `message` is what the last
`get_frame` returned. `AddFrame`, `AddFrameFull`, `GetFrame` and `GetFrameEmpty`
are the four outcomes of the two critical sections. The width of the indices is
the constant `IndexMod` (2^32 in the code), of which nothing is assumed but that
the size of the array divides it. `DroppingFifo` is the promise: a sequence with
put, lose, take, and an answer of nothing. The refinement maps the sequence to the
slots from the read index on.

### VideoPipeline

Composes the queue with the buffers, the decoder thread and the drawing loop over
any number of sessions. A picture is its number (`nextFrame` after the copy), so
`planes` says which picture each buffer holds, `NullPlanes` when freed and
`Garbage` when allocated and never written. Copying and drawing take two steps
each (`CopyBegin`/`CopyEnd`, `DrawBegin`/`DrawEnd`), so that they can overlap.
`SetupFailsAtBuffer` and `SetupFailsLate` are the error paths of the setup.
Auxiliary: `tags` and `drawTag` remember which picture an entry was queued for,
`sessionStart` separates the sessions. Whether a decode unit yields a picture, and
what it is answered with, is the subject of `VideoRecovery`.

### VideoRecovery

From the network to the decoder. A frame is its kind: "I" or "P"; `wire` is what
the host has sent, with "Lost" where the network took a frame. `receiver` is the
place of the receive thread between accesses to the flags it shares with the decoder
thread, `decoder` that of the decoder thread in `wii_decoder_submit_decode_unit` and
in `requestDecoderRefresh`. `DropFrameState` is `dropFrameState` called n times, with
or without a request by its caller. The capabilities of this decoder are 0, so
reference frames are never invalidated and every loss waits for a key frame.
Whether ffmpeg can use a unit is external: `Decodable` says whether the pictures it
is predicted from are there, `reference` whether what the decoder keeps is intact.
Auxiliary: `linked`, whether the frame before was queued; `silent`, whether the
picture broke by a unit answered DR_OK.

### AudioRing

One action per statement that another party can observe. PCM is counted in units
of which `BufferSize` make a DMA buffer; a chunk is the number of the buffer
filled. `main` and `thread` are the places of the two threads between observable
statements; `ar_stop` is one step per store (`StopUnregister`, `StopReset`,
`StopHalt`), and runs while the decoder thread is anywhere, as `stopAudioStream`
has it. `carryFill` is read by the code more than once; `CarryAppend` allows for
either value, since `ar_stop` clears it without synchronisation. The AI DMA engine
is external: it goes on with the last buffer it was given, and interrupts.

### StreamSession

`main` is where the main thread is, from the menus through the steps of
`do_stream`; `input` is where the input thread is. `MenuPoll` and `InputUpdate`
run the whole of `home_poll` with what its two callers make of its answer. The
Wiimote is external: pressed or not, connected or not. Time is counted in ticks,
`HoldTicks` of which are HOME_HOLD_MICROS; a poller sees every press, release and
tick while the Wiimote sends data (`ButtonOrClock`). Terminations pass their test
(`Terminate`), create a detached thread (`CreateAsyncTerm`), and that thread runs
at any later time (`ConnectionTerminated`), in the next stream too.

### HostSession

The console's side is `paired`, `currentGame`, and where the main thread is; the
host's side `hostPaired`, `hostStage`, `hostGame`. Every request has one of the
outcomes of `Replies`: lost, carried out but unheard, carried out with an answer
that was cut short (`HttpClient` shows how, and that it is reported as an answer),
an error status, refused, or ok. The auxiliary `pairDoubt`, `gameDoubt` and
`startFailed` record that something happened the console could not, or did not,
learn of; the properties are about the states in which nothing of the kind did.

### AppChoice

The first half of `do_stream` in detail: `ListOf` is the reversal by
`xml_applist`, `Walked` how far the loop to the chosen entry gets, `FindAppId` the
lookup by name. `StreamSession` uses only its outcomes.

### StreamStart

`do_stream` from the menu to the start request: the choice runs while the main
thread of `HostSession` is in its menu, the app it finds is the one the host is
asked to start, and the host changes all along. The list is asked for over HTTPS,
which a host answers only to a console it has paired with.

### GxFlip

`main` is the place in `gx_video_draw_yuv`. `Present` submits a copy into the
framebuffer `whichfb` names at that time; `DrawDone` is its completion with
`draw_done_cb`; `Retrace` is `vblank_cb` and the end of `VIDEO_WaitVSync`. A frame
is its number. `SyncInterlace` chooses between the two video modes.

### KeyStore

A file holds a pair's number or `Bad`; opening for writing empties it, closing
completes it or leaves it short. That goes unnoticed for the key, the certificate and
the unique id alike: what `fwrite` was given reaches the card with `fclose`, whose
result is not looked at. Each file operation is a step, and `SwitchOff` may
come between any two. `GsNew` loads, and may also fail for other reasons;
`create_client` then overwrites what is there. Four auxiliary variables, read by no
guard, record what the properties speak of: `disturbed` (something failed in this
start), `lostLoad` (`gs_new` once failed on good files), `lostPart` (a unique id or a key
was once cut short) and `known` (the pair that the last client ran with, so that hosts
may know it).

### ConfigFile and Storage

`file` is the lines of `moonlight.conf` as a function, `config` the settings in
memory. Six settings stand for all: three that depend on one another (`width`, `fps`
and the `bitrate` derived from them), one that is written where it differs from its
default (`viewonly`), one that need not exist (`address`), and one that is read but
never written (`autostream`). `OpenForWriting` truncates, `WriteLines` is the
`fclose` by which the lines reach the card. `ConfigParse` reads any part of the lines,
none when `fopen` or `malloc` fails, and the program runs on; `ConfigEnsure` may take
the file for missing when `access` fails. `chosen` is the auxiliary memory of what
the user last chose, `unread` says that this start did not read the whole file, `lost`
that a choice did not reach the card or is no longer there. `Storage` is the start of the program: settings, then identity,
then the menus; `EndProgram` switches off both at any point.

### NetCompat and HttpClient

`NetCompat` is `select` of `netcompat.c`: operators that translate handles to
indices and back. `HttpClient` uses them with a table of open handles (`table`), in
which files and other sockets shift the two numbers against each other. A request is
carried out step by step (`pc`); an answer is a sequence of pieces, numbered and
marked with their request, headers first. The host sends them one by one while the
console waits, closes when it likes, or says nothing. A timeout of `select` needs
that nothing it watches is ready. Auxiliary: `got`, `others` (the table at the
start), `broken` (the host stopped, or something failed).

## What is checked

Properties are named in the modules, each with the sentence it states. Every
configuration gives the constants their values and nothing else.

| run | configuration | shows |
|---|---|---|
| `pipeline` | `MCVideoPipeline.cfg` | `QueueInv`, `ImplementsFifo`: the ring is a bounded FIFO wherever the indices wrap. `NoNullDraw`: entries left over from an earlier session, or a failed setup, never lead the drawing loop to freed planes. `NeverOlderThanQueued`, `ShowsRecentPicture`: what the screen shows, whatever the backlog. `QueuedIsDrawn`, `StopCompletes`. |
| `recovery` | `MCVideoRecovery.cfg` | `LossesNeverReachDecoder`: until the decoder rejects a unit itself, it is given only units whose references it has, whatever is lost and however the queue overflows. `BrokenPictureRecovers`: a broken picture is repaired, under every interleaving of the three threads. |
| `audio` | `MCAudioRing.cfg` | `RingInOrder`, `TearsOnlyFromCarry`, `CarryStaysInside`: the ring, with interrupts and `ar_stop` at any statement. `NoDmaFromFreedMemory`, `PlayingMeansDma`: the engine and the flag agree across sessions. `BufferedIsPlayed`, `StopReturns`. |
| `session` | `MCStreamSession.cfg` | `HomePollOneThread`, `InputOnlyWhileConnected`: what the order of starting, joining and polling protects without a lock. `HomeBacksOutFirst`, `QuitNeedsLongPress`: what a press may and may not lead to. `StopEndsStream`, `QuitLeaves`, `HeldHomeQuits`. |
| `start` | `MCStreamStart.cfg` | `PairingKnown`, `PairedOnlyByHost`, `GameRunsAsKnown`: console and host agree unless an answer was lost, a start failed or the host changed by itself. `ConfiguredAppOtherwise`: without a choice, the configured app is started if and only if the host lists it. |
| `flip` | `MCGxFlip.cfg` | `TextureUntouched`, `ShownIsComplete`, `NeverBackwards`, `FrameIsShown` in a progressive mode. |
| `storage` | `MCStorage.cfg` | `KeyFitsCertificate`, `IdentityKept`, `StartsUnlessDisturbed` with the console switched off anywhere and each file written in full, in part or not at all. `SettingsSurvive`: what a start reads is what the user last chose, in the menus or in the file, unless the card failed while the settings were looked for, read or saved. |
| `http` | `MCHttpClient.cfg` | `FreshAnswer`: a reported answer has nothing of an earlier one in it and no gap. `WholeAnswer`: it is whole unless the host stopped or something failed, with and without a Content-Length, and whatever else is open. `NoSocketLeft`: on every way out. `PlainReturns`, `TlsReturnsWhenClosed`. |
| `session_lost`, `recovery_oversized`, `host_accept`, `apps_chosen` | `MCStreamSessionLost.cfg`, `MCVideoRecoveryTooLarge.cfg`, `MCHostSessionAccept.cfg`, `MCAppChoiceChosen.cfg` | the four divergences below: TLC finds the stated property violated. |

The modules also have type invariants (`TypeOK`, `ConfTypeOK`, ...). They hold in the
same instances and are part of the invariants proved.

### Bounds

- `pipeline`: two buffers as in the code; four slots (16 in the code) and indices
  that wrap at 8 (2^32), so that the indices wrap within a run at every fill level;
  10 pictures fill the queue, lose pictures, and span several sessions. The safety
  properties are proved for every number of buffers, slots and pictures.
- `audio`: four buffers (32) of three units; packets of one, four and seven units:
  smaller than a buffer, larger than one with a rest, and larger than two. Five
  packets of a session bring up to eleven chunks, more than twice the ring. The number
  of sessions is not bounded.
- `session`: a long press of two ticks, so that a press can be short by one tick or
  by two, and two terminations under way, so that two connection threads report the
  same loss or one callback is late. Sessions, presses and polls are not bounded.
- `start`: two apps, of which a list names up to three, with repeated titles and
  without the configured one, and a menu that takes two, so that the list is longer
  than the menu. Connections, pairings and streams are not bounded.
- `recovery`: a queue of two units (15) and two frames on the wire fill and overflow
  the queue while units are decoded and refreshed; the drop limit of three (120) is
  reached; one frame is lost on the network and two units are rejected, key frames
  included. How many frames are sent is not bounded.
- `flip`: the two framebuffers, a black start of four retraces, six frames: enough
  for both framebuffers to be used during the start and reused after it. The safety
  properties are proved for every number of frames.
- `storage`: two pairs of keys, of which one can replace the other in part, and three
  changes of settings, enough for two in the menus with a save between them and one in
  the file. The safety properties are
  proved for every number.
- `http`: three requests, two pieces of headers and two of body, so that an answer
  can be cut within and after its headers; beside nothing, a file, a socket, or both.

The runs of `AppChoice` alone and of `HttpClient` do not check for deadlock: a choice
ends, the requests are counted, and a request over TLS really waits for ever for a
host that says nothing. The other systems run for ever (`StreamSession` has the state
after the program's end as a step).

### Fairness

Weak fairness is stated per thread, and for nothing that depends on the user or the
network:

- `VideoPipeline`: the decoder thread finishes a unit it has begun and leaves when
  its queue is shut down; the drawing loop polls; `LiStartConnection` and
  `LiStopConnection` return, as their network waits have timeouts. Decode units,
  failures and stops are not promised.
- `AudioRing`: the decoder thread finishes its packet and leaves when told to; a
  running engine interrupts; `ar_stop` and what follows it proceed.
- `VideoRecovery`: the threads run; the host goes on sending frames and answers a
  request, which goes over the reliable control channel; a decoder thread that waits
  on a queue that is filled again and again gets a unit in the end (strong fairness
  of `Dequeue`: it is woken by every unit, and a queue that overflows holds 15 of
  them). That the network loses and the decoder rejects only so many frames is the
  bound of the instance: neither can be repaired if it goes on for ever.
- `HttpClient`: the console takes its steps, and a `select` or a connection attempt
  ends when its time is over. Nothing is assumed of the host, but a TLS handshake
  with a host that has closed fails.
- `StreamSession`: threads are scheduled and the clock ticks. HTTP calls are not
  fair, since `http.c` sets no timeout for connecting and for TLS reads:
  `QuitLeaves` and `HeldHomeQuits` except a main thread that hangs in one.
  `StopEndsStream` does not need to: the steps from the drawing loop to the joins
  are no HTTP calls, and it ends where the quit request, if any, begins.
- `GxFlip`: the main thread finishes the frame it began, the GPU its copy, the
  retraces go on. Drawing a further frame is not promised: the menus draw only what
  has changed, and `FrameIsShown` says that the last frame appears all the same.

## What is proved

TLAPS proves the following for all values of the constants that satisfy the named
assumptions of the modules (`QueueAssumption`, `AudioAssumption`, ...), which ask only
for what makes the constants sizes, bounds and sets of the kind they are. Each
invariant was checked by TLC before it was proved. The step of every proof goes
through the actions of the specification one by one.

**`NumberFacts`.** A non-empty set of naturals has a least element (`LeastNatural`,
which stands in for induction where a proof needs a first counterexample), and the
facts about `%` with a symbolic modulus, from the definition of division: consecutive
numbers, differences, and sums modulo the size of a ring. Both rings of the program
rest on them.

**`DisplayProofs`, the frame queue.** `QueueCorrect`: `QueueSpec => []QueueInv`, from
`QueueAssumption` (the array is not empty, is smaller than the range of the indices,
and divides it). `QueueInv` is inductive as it stands. The step needs the wrapping
difference (`Difference`, `CountSteps`) and that the mask selects consecutive slots
across a wrap (`SlotAfterIncrement`), which holds because the array divides the range.
`QueueImplementsFifo`: each of the four actions is the corresponding action of
`DroppingFifo` under the mapping `Queued`.

**`DisplayProofs`, the pipeline.** `PipelineInvariance`: `Spec => []VInv`. Beside the
types and `QueueInv`, `TagInv` says that an entry queued in this session for picture
n points to the buffer of n, `Buffer(n, sessionStart)`, and `PlanesInv` that buffer b
is unwritten or holds the newest picture of b (`Holds`). Together they tell what
an entry shows although neither the queue nor the buffers are locked while they are
used. `DrawsAllocated` (`NoNullDraw`), `NeverShowsOlder` (`NeverOlderThanQueued`) and
`ShowsRecent` (`ShowsRecentPicture`) follow from it. The proof is by how far the
decoder has rotated (`Filled`, `Newest`): two pictures of one buffer are a multiple of
`NumBuffers` apart. `PipelineImplementsFifo` and `PipelineQueueCorrect` carry the
results about the queue over to the composition, whose steps are steps of the queue
or leave it alone.

**`DisplayProofs`, the flip.** `FlipInvariance` proves `ShowInv`, the type, `CopyInv`
(while the GPU copies, the main thread has not passed `GX_WaitDrawDone`) and
`OrderInv` (no framebuffer is ahead of the textures), in every video mode.
`TexturesSafe` (`TextureUntouched`) needs `CopyInv`, because it says nothing about the
steps before `"fill"`. `NoTearing` (`ShownIsComplete`) and `NoStepBack`
(`NeverBackwards`), for `~ SyncInterlace`, need `FlipInv`: after the first flip,
`whichfb` is the framebuffer not shown and nothing is submitted or under way while a
flip is pending; after the second, a copy goes to `whichfb` and a pending flip brings
out the newer frame. It cannot hold from the start, since the frames drawn during the
black retraces are copied with a flip pending.

**`VideoRecoveryProofs`.** `LossesStopBeforeDecoder` (`LossesNeverReachDecoder`), for
every length of the queue and the wire, and every limit of drops. `LinkInv` says where
the receive thread stands after a frame that did not go into the queue: at every place
a flag or the gap keeps all but a key frame from passing (`OnlyKeyFramePasses`); so
every queued unit is a key frame or follows the one before, and as long as the decoder
has no picture the first unit it gets is a key frame.

**`AudioRingProofs`.** `AudioInvariance` proves `AInv`, for every length of the ring of
three or more, size of the buffers and set of packets. `RingInOrder` needs
`WrittenInv` (the chunk to be published is in its buffer) and `PlayingMeansDma`;
`TearsOnlyFromCarry` needs `EngineInv`, which places the two buffers of the engine
relative to the index of the interrupt (`JustStarted`, `Following`), and `ThreadInv`,
that what the decoder thread has read of the level and of `carryFill` stays good
enough although `ar_stop` clears them. The theorems are `KeepsOrder`, `CarryBounded`,
`NoDmaAfterFree`, `PlayingIsTrue`, `TearsBounded`.

**`StreamSessionProofs`.** For every `HoldTicks` and number of terminations: `OnePoller`
(`HomePollOneThread`) and `InputWhileConnected` (`InputOnlyWhileConnected`), from
`InputInv`, that the input thread exists between its start and its join only;
`BacksOutFirst` (`HomeBacksOutFirst`), which is inductive with the types; and the
action property `QuitsOnLongPress` (`QuitNeedsLongPress`), from `PressInv`: `home_poll`
never takes a press for older than it is unless it began before the release of the one
before was seen.

**`StreamStartProofs`.** For every set of apps, list, and length of the menu.
`HostInvariance` is about `HostSession` alone: `PairInv` and `GameInv` extend
`PairingKnown` and `GameRunsAsKnown` to every place of the main thread.
`StreamStartInvariance` adds `ChoiceInv`, what the choice has found at each of its
places; from it, `ImplementsHostSession` shows `StreamStartSpec => Spec`: the app that
is started is one of the host's, so a step of the composition is a step of
`HostSession` or none. `KnowsPairing`, `KnowsGame`, `PairedByHost` (the action property
`PairedOnlyByHost`) and `StartsConfiguredApp` (`ConfiguredAppOtherwise`) are about the
composition. That the lookup by title finds the first such app of the list uses
`LeastNatural`.

**`StorageProofs`.** `Recoverable` is the inductive invariant of the identity: `StepInv`
(what each step of `mkcert_generate` relies on), `KnownInv` (files that a client ran
with are good and are not being replaced, unless `gs_new` failed on them) and `PairInv`
(unless, besides, a unique id or a key was cut short, a certificate is complete only if
everything is and belongs together; once the new key is written the old certificate is
gone). `KeyFits`, `IdentityIsKept` and, with `WrittenInv`, `StartsWithClient` follow. `ImplementsKeyStore` shows that `Storage` is `KeyStore` with
steps of the configuration file between, so `StorageKeepsIdentity` has all of them for
the whole program. `Survive` (`SettingsSurvive`) rests on `ConfInv`, which relates the
card, the settings in memory and the user's choice at every stage of a save, for starts
that read the whole file and starts that did not, and on lemmas of what `config_save` writes and `config_file_parse` makes of it.

**`HttpClientProofs`.** For answers of any length, any number of requests, and any
finite tables of handles (`TablesAssumption`). `LowestIsFree` says that the numbers a
new socket gets are free; `NetNfdsAbove` and `SocketIsWatched`, that the first argument
which `select` computes for `net_select` is above the socket's index, so the socket is
watched whatever else is open. `ClientInv` says where the socket is in the table
(`TableInv`), that `HTTP_DATA` holds what was received of this answer from the moment
it is emptied (`DataInv`; before, it may hold an earlier answer), and that without a
failure only a complete answer ends a request (`EndInv`). `AnswersAreFresh`,
`AnswersAreWhole` and `SocketsReturn` follow.

Only model-checked: all liveness properties, whose proofs need reasoning about ENABLED
that the prover does not do; the framebuffer properties in an interlaced mode, where
they fail. The violations of the next section are counterexamples, which need no proof.

## What the code does otherwise

Four runs show the code doing other than a comment, a header or the program's own
messages say:

1. `apps_chosen`: the loop in `do_stream` that walks to the chosen app
   (`src/src/main.c:397`) never increments its counter. Any entry but the first runs
   off the list and reports that the app cannot be found.
2. `session_lost`: `do_stream` sets `state = STATE_STREAMING` after
   `LiStartConnection` has returned (`src/src/main.c:474`), overwriting the stop of a
   connection lost in between. The stream then goes on without a connection until a
   button is pressed.
3. `host_accept`: `ret = xml_status(...) != GS_OK` (`src/libgamestream/client.c:744`)
   makes an error 1, and `do_stream` tests for less than 0: a refused start goes on
   to connect.
4. `recovery_oversized`: `wii_decoder_submit_decode_unit` (`src/src/wii/decode.c:128`)
   answers DR_OK for a unit it drops because it is larger than its buffer, where
   `Limelight.h` asks for DR_NEED_IDR: the picture stays broken.

Other deviations noticed while modelling. The modules contain the behaviour, and the
properties are stated so as to except it; no run is devoted to it:

- `commit_carry` (`src/src/wii/audio.c:91`) does not ask `get_space`, of which
  `audio.c:31` says that it "provides back-pressure". A 5 ms packet of stereo sound is
  960 bytes, less than a buffer, so all of them go through the carry buffer and
  nothing is ever held back: with more than the ring of sound in hand, the buffer
  being played is overwritten (`TearsOnlyFromCarry` says that nothing else does it).
- The pacing in `gx_video_draw_yuv` (`src/src/wii/gx_video.c:884`) waits for one
  retrace; in an interlaced mode (`SyncInterlace = TRUE`) the flip can come one
  later, and then hands over a framebuffer that is being copied into, where
  `gx_video.c:125` says it "only flips when a frame is actually ready".
- moonlight-common-c asserts that no P frame is dequeued before a key frame was
  processed (`VideoDepacketizer.c:229`). When the decoder rejects the first key frame,
  `requestDecoderRefresh` sets `waitingForIdrFrame` after the receive thread has
  tested it, the flush comes before the frame is queued, and the assertion fails.
  The frame is decoded without its reference; the refresh repairs the picture
  (`BrokenPictureRecovers`).
- A timeout, an error of `net_select` or of TLS, or a host that closes early ends an
  answer like its end: a truncated one is reported as success, over TLS even an empty
  one (`src/libgamestream/http.c:340`, `:472`). A start request whose answer
  is cut is then taken for success, like a refused one. `WholeAnswer` excepts it.
- `src/libgamestream/client.c:337` says of the pairing request that it has no read
  timeout; `src/src/main.c:325` sets one of 60 seconds. The long timeout that
  `gs_start_app` sets (`client.c:703`) is never taken back.
- `init_unique_id` ignores the result of the `fclose` with which the id reaches the card
  (`src/libgamestream/conf.c:121`). After a short id a key and a certificate are written;
  the next start writes the id anew and then replaces key and certificate, and if the
  console is switched off between the two, both load and do not belong together: every
  later start runs with them, no host accepts them, and nothing repairs them. A key that
  is cut short (`mkcert.c:128`) leads to the same. `KeyFitsCertificate` excepts both by
  `lostPart`.
- `config_parse` ignores the result of `config_file_parse` (`src/src/config.c:562`): when
  the file cannot be read the program runs on with the defaults, and the next save
  writes them over the file. A failure of `access` (`config.c:61`) is taken for a missing
  file, and the template replaces it. `SettingsSurvive` excepts the first by `unread` and
  what is saved after it, like the second, by `lost`.
- A save writes the derived bitrate, which from then on no longer follows the
  resolution and the frame rate, although `src/moonlight.conf` says it does by default.
- A save drops every setting that `config_save` does not write (`autostream`, `port`,
  `codec`, `keydir`, ...), and writes `sops` as false whatever the file said, since
  `main` overwrites it (`src/src/main.c:644`).
- `autostream` starts a stream only after Connect was chosen in the menu.
- `enter_address` frees `config->address` (`src/src/main.c:179`) while the connected
  server still points to it: a request after the address was changed uses freed
  memory.
- With a game running, `gs_start_app` resumes it whatever app was chosen, and records
  the chosen one as running.
- Two buffers serve a queue of 16 entries, so with a backlog the decoder overwrites
  the buffer on its way to the screen, where `src/src/wii/decode.c:26` speaks of
  double buffering.
- `ar_decode_and_play_sample` starts the engine with a buffer it does not take from
  the ring (`src/src/wii/audio.c:245`): the first interrupt hands out the same buffer
  again, and the first chunk is played twice.
- A termination callback can run after `LiStopConnection` was called, in the next
  stream too, although `Connection.c:261` of moonlight-common-c says it is avoided:
  the detached thread does not test `alreadyTerminated` again.
- The statics of `home_poll` outlive the time in which nobody polls: a press that
  begins before the release of the one before it was seen continues it
  (`QuitNeedsLongPress` excepts just this).
- A short press of home stops the stream; `src/src/main.c:471` says a long one does.
- B, or a long press of home, in the app list is taken for no choice, and the
  configured app is started; after a long press the program ends only after that.
- `viewonly` is read from the configuration and nothing looks at it.
- After a refused start, `currentGame` is set all the same
  (`src/libgamestream/client.c:739`), and the next start asks the host to resume.
  `GameRunsAsKnown` excepts it by `startFailed`. The repository's README lists that
  the client cannot reconnect after a failure until restarted.
- A declined pairing returns `GS_OK` (`src/libgamestream/client.c:371`) and is
  reported as successful, though `paired` is not set.
- The first frame is copied into the framebuffer that is on the screen; it goes
  unseen only if it is drawn within the black retraces.

## What is not modelled

- Decoding, downmixing, texture layout, font rendering, TLS arithmetic, XML parsing:
  pure functions of their input.
- Text entry, and the ownership of the address it replaces (described above; every
  change of the address while connected shows it, so a model would only restate the
  assignment).
- Of the network glue, everything but `select`: `sendto`, `poll`, `ioctl` and
  `getaddrinfo` translate one call into another and keep no state. The MEM2 allocator
  hands out areas at start-up only.
- Want of memory, but where it has a path of its own in the HTTP client, in
  `wii_alloc_frames`, in `gs_new` and in `config_file_parse`.
- Debug output, video encoder registers, the Wii U port, SPS rewriting, vendored
  libraries: outside this program's logic, or not built into it. Of
  moonlight-common-c only the order in which it calls the port and the depacketizer
  are modelled; reference frame invalidation and AV1/HEVC paths are not used by
  this port.
- `pthread_create` failing leaves `stop_input_thread` joining a thread id that was
  never set; the model takes that join to return at once.

Three quarters of the lines of this port are one generated table
(`src/src/wii/font_data.c`, 30917 lines), and most of what else has no definition here
is the layout of textures and registers in `gx_video.c`, the Wii U port, and
diagnostics: a share of modelled lines says little of this repository.

## Plan

Done, in this order, the most important behaviour first: `FrameQueue`,
`VideoPipeline`, `AudioRing`, `StreamSession`, `HostSession`, `GxFlip`, `AppChoice`,
`KeyStore`, `VideoRecovery`, `ConfigFile` and `Storage`, `StreamStart`, `NetCompat` and
`HttpClient`; then their proofs: every safety invariant and action property that the
passing runs check.

Next:

1. An abstract stream (off, starting, on, stopping) that `StreamSession`,
   `VideoPipeline` and `AudioRing` each implement, with proofs of the three
   refinements.
2. An abstract HTTP exchange (asked, answered with a prefix of this request's answer, or
   failed) that `HttpClient` implements and that the outcomes of `Replies` in
   `HostSession` are read off from.
3. Of the liveness properties, the safety part of what they rest on: that a main thread
   in a join waits for a thread that has been told to stop.
