-------------------------- MODULE AudioRingProofs --------------------------
(***************************************************************************)
(* The audio ring for every buffer size, ring length of three or more and  *)
(* set of packet sizes: the decoder thread, the interrupt and the main     *)
(* thread keep the ring in order, although the main thread resets the      *)
(* counters under the decoder thread and the interrupt moves them between  *)
(* any two of its statements.                                              *)
(***************************************************************************)
EXTENDS AudioRing, NumberFacts

\* The buffer k places after the one the interrupt hands out next.
At(k) == (bufferPlay + k) % BufferCount

\* What the decoder thread has read and checked stays good enough: the carry
\* buffer can only have been cleared, and the fill level only have sunk.
ThreadInv ==
  /\ thread = "carry" => carryFill <= carryRead
  /\ thread = "bulkPublish" => total >= BufferSize /\ buffered <= BufferCount - 3

\* Between two streams nothing of the renderer is left.
LifeInv ==
  /\ main = "menu" => thread = "none" /\ ~ dmaOn /\ ~ callback
  /\ main # "menu" => allocated

\* The engine was started with a buffer the interrupt has not passed yet ...
JustStarted == dmaCur = At(0) /\ dmaNext = At(0) /\ buffered > 0

\* ... and then has the last two that the interrupt handed out.
Following == dmaCur \in {Silence, At(-1), At(-2)} /\ dmaNext \in {Silence, At(-1)}

EngineInv ==
  Running =>
    /\ dmaOn => playing /\ (JustStarted \/ Following)
    /\ thread = "startDma" => playing /\ ~ dmaOn /\ dmaNext = At(0) /\ buffered > 0

\* The chunk that is being published is already in its buffer.
WrittenInv == Running /\ Writing => ring[bufferFill] = committed + 1

AInv ==
  /\ TypeOK /\ ThreadInv /\ LifeInv /\ EngineInv /\ PlayingMeansDma
  /\ WrittenInv /\ RingInOrder

-----------------------------------------------------------------------------
(* Places in the ring.                                                     *)

\* A place is a buffer.
LEMMA PlaceIsBuffer ==
  ASSUME NEW a \in Int
  PROVE  a % BufferCount \in Buffers
BY AudioAssumption, Division DEF Buffers

\* The ring can be divided by.
LEMMA CountPositive == BufferCount \in Nat \ {0} /\ BufferCount \in Int
BY AudioAssumption

\* Counting from the next buffer is counting one further.
LEMMA CountFromNext ==
  ASSUME NEW b \in Buffers, NEW k \in Int
  PROVE  /\ After(b) \in Buffers
         /\ (After(b) + k) % BufferCount = (b + (k + 1)) % BufferCount
<1> DEFINE a == b + 1
<1>1. a \in Int /\ a + k = b + (k + 1) /\ After(b) = a % BufferCount
  BY AudioAssumption DEF Buffers, After
<1> HIDE DEF a
<1>2. ((a % BufferCount) + k) % BufferCount = (a + k) % BufferCount
  BY <1>1, CountPositive, ModPlus
<1>3. QED
  BY <1>1, <1>2, PlaceIsBuffer

\* The buffer after a place is the place after it.
LEMMA NextPlace ==
  ASSUME NEW b \in Int, NEW k \in Int
  PROVE  After((b + k) % BufferCount) = (b + (k + 1)) % BufferCount
<1> DEFINE a == b + k
           one == 1
<1>1. /\ a \in Int /\ one \in Int /\ a + one = b + (k + 1)
      /\ After((b + k) % BufferCount) = ((a % BufferCount) + one) % BufferCount
  BY DEF After
<1> HIDE DEF a, one
<1>2. ((a % BufferCount) + one) % BufferCount = (a + one) % BufferCount
  BY <1>1, CountPositive, ModPlus
<1>3. QED
  BY <1>1, <1>2

\* Two places that are the same buffer are a whole turn of the ring apart.
LEMMA PlacesApart ==
  ASSUME NEW b \in Int, NEW j \in Int, NEW k \in Int, j < k,
         (b + j) % BufferCount = (b + k) % BufferCount
  PROVE  k - j >= BufferCount
<1> DEFINE x == b + j
           y == b + k
<1>1. x \in Int /\ y \in Int /\ x % BufferCount = y % BufferCount /\ x - y = j - k
  OBVIOUS
<1> HIDE DEF x, y
<1>2. x - y > -BufferCount => x - y >= 0
  BY <1>1, CountPositive, ModDifference
<1>3. QED
  BY <1>1, <1>2, CountPositive

\* The place of a buffer counted from itself.
LEMMA PlaceZero ==
  ASSUME NEW b \in Buffers
  PROVE  (b + 0) % BufferCount = b
<1>1. b + 0 = b /\ b \in 0 .. BufferCount - 1
  BY AudioAssumption DEF Buffers
<1>2. QED
  BY <1>1, AudioAssumption, ModSmall

-----------------------------------------------------------------------------
\* Before the first stream nothing runs.
LEMMA AudioInitInv == Init => AInv
<1> SUFFICES ASSUME Init PROVE AInv
  OBVIOUS
<1> USE DEF Init
<1>1. TypeOK
  <2>1. /\ ring \in [Buffers -> Nat]
        /\ bufferFill \in Buffers /\ bufferPlay \in Buffers
        /\ buffered \in Nat /\ carryFill \in 0 .. BufferSize
        /\ thread \in Threads /\ total \in Nat /\ carryRead \in 0 .. BufferSize
        /\ dmaCur \in {Silence} /\ dmaNext \in {Silence}
        /\ packets \in 0 .. MaxPackets /\ committed \in Nat /\ handed \in Nat
    BY AudioAssumption DEF Buffers, Threads
  <2>2. playing \in BOOLEAN /\ callback \in BOOLEAN /\ allocated \in BOOLEAN /\ dmaOn \in BOOLEAN
    BY Zenon
  <2>3. main \in {"menu"}
    OBVIOUS
  <2>4. QED
    BY <2>1, <2>2, <2>3 DEF TypeOK
<1>2. ThreadInv /\ LifeInv
  BY DEF ThreadInv, LifeInv
<1>3. ~ Running
  BY DEF Running
<1>4. QED
  BY <1>1, <1>2, <1>3 DEF AInv, EngineInv, PlayingMeansDma, WrittenInv, RingInOrder

\* The steps of the main thread: a new stream starts with an empty ring and a
\* stopped engine, and while one is stopped nothing is promised of the ring.
LEMMA MainKeeps == AInv /\ MainThread => AInv'
<1> SUFFICES ASSUME AInv, MainThread PROVE AInv'
  OBVIOUS
<1>1. CASE StartStream
  <2> USE <1>1 DEF StartStream, dmaVars
  <2>1. TypeOK'
    <3>1. /\ ring' \in [Buffers -> Nat]
          /\ bufferFill' \in Buffers /\ bufferPlay' \in Buffers
          /\ buffered' \in Nat
          /\ carryFill' \in 0 .. BufferSize
          /\ packets' \in 0 .. MaxPackets
          /\ committed' \in Nat /\ handed' \in Nat
      BY AudioAssumption DEF Buffers
    <3>2. playing' \in BOOLEAN /\ callback' \in BOOLEAN /\ allocated' \in BOOLEAN
      BY Zenon
    <3>3. UNCHANGED <<total, carryRead, dmaOn, dmaCur, dmaNext>>
      OBVIOUS
    <3>4. thread' \in Threads /\ main' \in {"run"}
      BY DEF Threads
    <3>5. QED
      BY <3>1, <3>2, <3>3, <3>4 DEF AInv, TypeOK
  <2>2. ThreadInv' /\ LifeInv'
    BY DEF ThreadInv, LifeInv
  <2>3. ~ Writing' /\ ~ playing' /\ ~ dmaOn' /\ thread' # "startDma"
    BY DEF Writing, AInv, LifeInv
  <2>4. RingInOrder'
    <3>1. (0 + 0) % BufferCount = 0
      BY AudioAssumption, PlaceZero DEF Buffers
    <3>2. QED
      BY <3>1 DEF RingInOrder
  <2>5. QED
    BY <2>1, <2>2, <2>3, <2>4 DEF AInv, EngineInv, PlayingMeansDma, WrittenInv
<1>2. CASE StopUnregister \/ StopRest
  <2> USE <1>2 DEF StopUnregister, StopRest, StopReset, StopHalt, ShutdownQueue, Cleanup,
                   ringVars, threadVars, dmaVars, auxVars
  <2>1. TypeOK'
    <3>1. UNCHANGED <<ring, bufferFill, bufferPlay, threadVars, dmaCur, dmaNext, auxVars>>
      OBVIOUS
    <3>2. buffered' \in Nat /\ carryFill' \in 0 .. BufferSize
      BY AudioAssumption DEF AInv, TypeOK
    <3>3. /\ playing' \in BOOLEAN /\ callback' \in BOOLEAN /\ allocated' \in BOOLEAN
          /\ dmaOn' \in BOOLEAN
      BY Zenon DEF AInv, TypeOK
    <3>4. main' \in {"menu", "reset", "resetLevel", "resetCarry", "halt", "shutdown", "join"}
      OBVIOUS
    <3>5. QED
      BY <3>1, <3>2, <3>3, <3>4 DEF AInv, TypeOK
  <2>2. ThreadInv'
    BY AudioAssumption DEF AInv, ThreadInv, TypeOK
  <2>3. LifeInv'
    BY DEF AInv, LifeInv
  <2>4. ~ Running'
    BY DEF Running
  <2>5. QED
    BY <2>1, <2>2, <2>3, <2>4 DEF AInv, EngineInv, PlayingMeansDma, WrittenInv, RingInOrder
<1>3. QED
  BY <1>1, <1>2 DEF MainThread

\* Taking a packet, the carry buffer, and leaving: nothing here touches the
\* ring, and no sum of the carry buffer exceeds it.
LEMMA CarryKeeps ==
  ASSUME AInv,
         (\E n \in PacketSizes : Packet(n)) \/ CarryAppend \/ KeepRest \/ KeepPlaying \/ ThreadExit
  PROVE  AInv'
<1> USE DEF Packet, CarryAppend, KeepRest, KeepPlaying, ThreadExit,
            ringVars, mainVars, dmaVars, auxVars
<1>1. UNCHANGED <<ring, bufferFill, bufferPlay, buffered, playing, mainVars, dmaVars,
                  committed, handed>>
  OBVIOUS
<1>2. /\ ~ Writing /\ ~ Writing'
      /\ thread # "startDma" /\ thread' # "startDma" /\ thread' # "bulkPublish"
      /\ thread' = "none" => main # "menu"
      /\ thread # "none"
  BY DEF Writing
<1>3. TypeOK' /\ ThreadInv'
  <2>1. CASE \E n \in PacketSizes : Packet(n)
    BY <1>1, <2>1, AudioAssumption DEF AInv, TypeOK, ThreadInv, Threads
  <2>2. CASE CarryAppend
    <3>1. /\ ToCarry \in Nat /\ ToCarry <= total /\ carryRead + ToCarry <= BufferSize
          /\ carryFill <= carryRead
          /\ carryFill \in Nat /\ carryRead \in Nat /\ total \in Nat
      BY <2>2, AudioAssumption DEF AInv, TypeOK, ThreadInv, ToCarry, Minimum
    <3>2. carryFill' \in 0 .. BufferSize /\ total' \in Nat
      BY <2>2, <3>1, AudioAssumption
    <3>3. thread' \in {"commit", "bulk"} /\ carryRead' = carryRead /\ packets' = packets
      BY <2>2
    <3>4. QED
      BY <1>1, <3>2, <3>3 DEF AInv, TypeOK, ThreadInv, Threads
  <2>3. CASE KeepRest
    BY <1>1, <2>3, AudioAssumption DEF AInv, TypeOK, ThreadInv, Threads
  <2>4. CASE KeepPlaying \/ ThreadExit
    BY <1>1, <2>4 DEF AInv, TypeOK, ThreadInv, Threads
  <2>5. QED
    BY <2>1, <2>2, <2>3, <2>4
<1>4. LifeInv'
  BY <1>1, <1>2 DEF AInv, LifeInv
<1>5. EngineInv' /\ PlayingMeansDma' /\ WrittenInv' /\ RingInOrder'
  BY <1>1, <1>2 DEF AInv, EngineInv, JustStarted, Following, At, PlayingMeansDma, WrittenInv,
                    RingInOrder, Running, Intact
<1>6. QED
  BY <1>3, <1>4, <1>5 DEF AInv

\* Copying a chunk: it goes to the place after the buffered ones, which is not
\* the place of any of the newest BufferCount - 1 of them, and the bulk path
\* leaves the two buffers before the next one to the engine.
LEMMA WriteKeeps ==
  ASSUME AInv, CommitWrite \/ BulkWrite
  PROVE  AInv'
<1> USE DEF CommitWrite, BulkWrite, WriteChunk
<1>1. /\ UNCHANGED <<bufferFill, bufferPlay, buffered, carryFill, playing, total, carryRead,
                     mainVars, dmaVars, packets, committed, handed>>
      /\ ring' = [ring EXCEPT ![bufferFill] = committed + 1]
      /\ thread \in {"commit", "bulk"} /\ thread' \in {"commitPublish", "bulkPublish"}
  OBVIOUS
<1>2. /\ ring \in [Buffers -> Nat] /\ bufferFill \in Buffers /\ bufferPlay \in Buffers
      /\ bufferPlay \in Int /\ buffered \in Nat /\ committed \in Nat
  BY AudioAssumption DEF AInv, TypeOK, Buffers
<1>3. ring'[bufferFill] = committed + 1
  BY <1>1, <1>2
<1>4. TypeOK'
  <2>1. ring' \in [Buffers -> Nat]
    BY <1>1, <1>2
  <2>2. QED
    BY <1>1, <2>1 DEF AInv, TypeOK, Threads, mainVars, dmaVars
<1>5. ThreadInv'
  <2>1. thread' = "bulkPublish" => total' >= BufferSize /\ buffered' <= BufferCount - 3
    BY <1>1, <1>2, AudioAssumption DEF GetSpace
  <2>2. QED
    BY <1>1, <2>1 DEF ThreadInv
<1>6. LifeInv'
  BY <1>1 DEF AInv, LifeInv, mainVars, dmaVars
<1>7. EngineInv' /\ PlayingMeansDma'
  BY <1>1 DEF AInv, EngineInv, JustStarted, Following, At, PlayingMeansDma, Running,
              mainVars, dmaVars
<1>8. WrittenInv'
  BY <1>1, <1>3 DEF WrittenInv
<1>9. RingInOrder'
  <2> SUFFICES ASSUME Running PROVE RingInOrder'
    BY <1>1 DEF RingInOrder, Running, mainVars
  <2>1. Intact = BufferCount /\ Intact' = BufferCount - 1
    BY <1>1 DEF Intact, Writing
  <2>2. bufferFill = (bufferPlay + buffered) % BufferCount
    BY DEF AInv, RingInOrder
  <2>3. ASSUME NEW j \in 0 .. buffered - 1, buffered - j <= BufferCount - 1
        PROVE  ring'[(bufferPlay + j) % BufferCount] = committed - buffered + 1 + j
    <3>1. (bufferPlay + j) % BufferCount # bufferFill
      <4>1. j \in Int /\ buffered \in Int /\ j < buffered
        BY <1>2
      <4>2. (bufferPlay + j) % BufferCount = (bufferPlay + buffered) % BufferCount
              => buffered - j >= BufferCount
        BY <1>2, <4>1, PlacesApart
      <4>3. QED
        BY <1>2, <2>2, <2>3, <4>2, CountPositive
    <3>2. (bufferPlay + j) % BufferCount \in Buffers
      BY <1>2, PlaceIsBuffer
    <3>3. buffered - j <= Intact
      BY <1>2, <2>1, <2>3, CountPositive
    <3>4. ring[(bufferPlay + j) % BufferCount] = committed - buffered + 1 + j
      BY <3>3 DEF AInv, RingInOrder
    <3>5. QED
      BY <1>1, <1>2, <3>1, <3>2, <3>4
  <2>4. QED
    BY <1>1, <2>1, <2>2, <2>3 DEF RingInOrder
<1>10. QED
  BY <1>4, <1>5, <1>6, <1>7, <1>8, <1>9 DEF AInv

\* Publishing it: the chunk is where the level, now one higher, says it is.
LEMMA PublishKeeps ==
  ASSUME AInv, CommitPublish \/ BulkPublish
  PROVE  AInv'
<1> USE DEF CommitPublish, BulkPublish, PublishChunk
<1>1. /\ UNCHANGED <<ring, bufferPlay, playing, carryRead, mainVars, dmaVars, packets, handed>>
      /\ bufferFill' = After(bufferFill)
      /\ buffered' = buffered + 1
      /\ committed' = committed + 1
      /\ thread \in {"commitPublish", "bulkPublish"} /\ thread' = "bulk"
  OBVIOUS
<1>2. /\ ring \in [Buffers -> Nat] /\ bufferFill \in Buffers /\ bufferPlay \in Buffers
      /\ bufferPlay \in Int /\ buffered \in Nat /\ committed \in Nat
      /\ carryFill \in 0 .. BufferSize
  BY AudioAssumption DEF AInv, TypeOK, Buffers
<1>3. TypeOK'
  <2>1. carryFill' \in 0 .. BufferSize
    BY <1>2, AudioAssumption
  <2>2. total' \in Nat
    BY AudioAssumption DEF AInv, TypeOK, ThreadInv
  <2>3. bufferFill' \in Buffers
    BY <1>1, <1>2, CountFromNext
  <2>4. QED
    BY <1>1, <1>2, <2>1, <2>2, <2>3 DEF AInv, TypeOK, Threads, mainVars, dmaVars
<1>4. ThreadInv' /\ LifeInv'
  BY <1>1 DEF AInv, ThreadInv, LifeInv, mainVars, dmaVars
<1>5. EngineInv' /\ PlayingMeansDma'
  BY <1>1, <1>2 DEF AInv, EngineInv, JustStarted, Following, At, PlayingMeansDma, Running,
              mainVars, dmaVars
<1>6. WrittenInv'
  BY <1>1 DEF WrittenInv, Writing
<1>7. RingInOrder'
  <2> SUFFICES ASSUME Running PROVE RingInOrder'
    BY <1>1 DEF RingInOrder, Running, mainVars
  <2>1. Intact = BufferCount - 1 /\ Intact' = BufferCount
    BY <1>1 DEF Intact, Writing
  <2>2. bufferFill = (bufferPlay + buffered) % BufferCount
    BY DEF AInv, RingInOrder
  <2>3. bufferFill' = (bufferPlay + (buffered + 1)) % BufferCount
    BY <1>1, <1>2, <2>2, NextPlace
  <2>4. ASSUME NEW j \in 0 .. buffered, buffered + 1 - j <= BufferCount
        PROVE  ring[(bufferPlay + j) % BufferCount] = (committed + 1) - (buffered + 1) + 1 + j
    <3>1. CASE j = buffered
      <4>1. ring[bufferFill] = committed + 1
        BY <1>1 DEF AInv, WrittenInv, Writing
      <4>2. QED
        BY <1>2, <2>2, <3>1, <4>1
    <3>2. CASE j # buffered
      <4>1. j \in 0 .. buffered - 1 /\ buffered - j <= BufferCount - 1
        BY <1>2, <2>4, <3>2, CountPositive
      <4>2. ring[(bufferPlay + j) % BufferCount] = committed - buffered + 1 + j
        BY <2>1, <4>1 DEF AInv, RingInOrder
      <4>3. QED
        BY <1>2, <4>2
    <3>3. QED
      BY <3>1, <3>2
  <2>5. ASSUME NEW j \in 0 .. buffered' - 1, buffered' - j <= Intact'
        PROVE  ring'[(bufferPlay' + j) % BufferCount] = committed' - buffered' + 1 + j
    <3>1. j \in 0 .. buffered /\ buffered + 1 - j <= BufferCount
      BY <1>1, <1>2, <2>1, <2>5
    <3>2. QED
      BY <1>1, <2>4, <3>1
  <2>6. QED
    BY <1>1, <2>3, <2>5 DEF RingInOrder
<1>8. QED
  BY <1>3, <1>4, <1>5, <1>6, <1>7 DEF AInv

\* Starting the engine, with the next buffer to be played.
LEMMA StartKeeps ==
  ASSUME AInv, StartPlaying \/ StartDma
  PROVE  AInv'
<1>1. /\ UNCHANGED <<ring, bufferFill, bufferPlay, buffered, carryFill, total, carryRead,
                     mainVars, auxVars>>
      /\ thread \in {"start", "startDma"} /\ thread' \in {"startDma", "idle"}
  BY DEF StartPlaying, StartDma, ringVars
<1>2. bufferPlay \in Buffers /\ buffered \in Nat
  BY DEF AInv, TypeOK
<1>3. TypeOK'
  <2>1. playing' \in BOOLEAN /\ dmaOn' \in BOOLEAN
    BY Zenon DEF StartPlaying, StartDma, ringVars, AInv, TypeOK
  <2>2. dmaCur' \in Buffers \cup {Silence} /\ dmaNext' \in Buffers \cup {Silence}
    BY DEF StartPlaying, StartDma, AInv, TypeOK
  <2>3. QED
    BY <1>1, <2>1, <2>2 DEF AInv, TypeOK, Threads, mainVars, auxVars
<1>4. ThreadInv' /\ LifeInv'
  <2>1. main # "menu"
    BY <1>1 DEF AInv, LifeInv
  <2>2. QED
    BY <1>1, <2>1 DEF AInv, ThreadInv, LifeInv, mainVars
<1>5. EngineInv' /\ PlayingMeansDma'
  <2> SUFFICES ASSUME Running PROVE EngineInv' /\ PlayingMeansDma'
    BY <1>1 DEF EngineInv, PlayingMeansDma, Running, mainVars
  <2>1. At(0) = bufferPlay /\ At(0)' = bufferPlay
    BY <1>1, <1>2, PlaceZero DEF At
  <2>2. CASE StartPlaying
    <3>1. ~ dmaOn
      BY <2>2 DEF StartPlaying, AInv, EngineInv
    <3>2. QED
      BY <1>1, <2>1, <2>2, <3>1 DEF StartPlaying, EngineInv, PlayingMeansDma
  <2>3. CASE StartDma
    <3>1. playing /\ ~ dmaOn /\ dmaNext = At(0) /\ buffered > 0
      BY <2>3 DEF StartDma, AInv, EngineInv
    <3>2. /\ dmaOn' /\ playing' /\ thread' = "idle"
          /\ dmaCur' = bufferPlay /\ dmaNext' = bufferPlay /\ buffered' > 0
      BY <1>1, <2>1, <2>3, <3>1 DEF StartDma, ringVars
    <3>3. JustStarted'
      BY <2>1, <3>2 DEF JustStarted
    <3>4. QED
      BY <3>2, <3>3 DEF EngineInv, PlayingMeansDma
  <2>4. QED
    BY <2>2, <2>3
<1>6. WrittenInv' /\ RingInOrder'
  BY <1>1 DEF AInv, WrittenInv, RingInOrder, Running, Writing, Intact, mainVars, auxVars
<1>7. QED
  BY <1>3, <1>4, <1>5, <1>6 DEF AInv

\* The interrupt, between any two steps of the threads: the order of the ring
\* is counted from the next buffer, and the engine follows behind it.
LEMMA InterruptKeeps ==
  ASSUME AInv, DmaInterrupt
  PROVE  AInv'
<1>1. /\ UNCHANGED <<ring, bufferFill, carryFill, playing, threadVars, mainVars, dmaOn,
                     packets, committed>>
      /\ dmaOn /\ dmaCur' = dmaNext
  BY DEF DmaInterrupt
<1>2. /\ ring \in [Buffers -> Nat] /\ bufferFill \in Buffers /\ bufferPlay \in Buffers
      /\ bufferPlay \in Int /\ buffered \in Nat /\ committed \in Nat
  BY AudioAssumption DEF AInv, TypeOK, Buffers
<1>3. CASE callback /\ playing /\ buffered > 0
  <2>1. /\ dmaNext' = bufferPlay
        /\ bufferPlay' = After(bufferPlay)
        /\ buffered' = buffered - 1
        /\ handed' = ring[bufferPlay]
    BY <1>3 DEF DmaInterrupt, DmaCallback
  <2>2. bufferPlay' \in Buffers /\ buffered' \in Nat /\ handed' \in Nat
    BY <1>2, <1>3, <2>1, CountFromNext
  <2>3. \A k \in Int : (bufferPlay' + k) % BufferCount = (bufferPlay + (k + 1)) % BufferCount
    BY <1>2, <2>1, CountFromNext
  <2>4. TypeOK'
    BY <1>1, <1>2, <2>1, <2>2 DEF AInv, TypeOK, threadVars, mainVars
  <2>5. ThreadInv' /\ LifeInv'
    BY <1>1, <1>2, <2>1, AudioAssumption DEF AInv, ThreadInv, LifeInv, threadVars, mainVars
  <2>6. EngineInv' /\ PlayingMeansDma'
    <3> SUFFICES ASSUME Running PROVE EngineInv' /\ PlayingMeansDma'
      BY <1>1 DEF EngineInv, PlayingMeansDma, Running, mainVars
    <3>1. thread # "startDma" /\ (JustStarted \/ Following)
      BY <1>1 DEF AInv, EngineInv
    <3>2. At(-1)' = bufferPlay /\ At(-2)' = At(-1) /\ At(0) = bufferPlay
      <4>1. (bufferPlay' + (-1)) % BufferCount = (bufferPlay + 0) % BufferCount
        BY <2>3
      <4>2. (bufferPlay' + (-2)) % BufferCount = (bufferPlay + (-1)) % BufferCount
        BY <2>3
      <4>3. QED
        BY <1>2, <4>1, <4>2, PlaceZero DEF At
    <3>3. Following'
      BY <1>1, <2>1, <3>1, <3>2 DEF JustStarted, Following
    <3>4. QED
      BY <1>1, <1>3, <3>1, <3>3 DEF EngineInv, PlayingMeansDma, threadVars
  <2>7. WrittenInv'
    BY <1>1 DEF AInv, WrittenInv, Running, Writing, threadVars, mainVars
  <2>8. RingInOrder'
    <3> SUFFICES ASSUME Running PROVE RingInOrder'
      BY <1>1 DEF RingInOrder, Running, mainVars
    <3>1. Intact' = Intact /\ Intact \in Int
      BY <1>1, CountPositive DEF Intact, Writing, threadVars
    <3>2. bufferFill' = (bufferPlay' + buffered') % BufferCount
      <4>1. (bufferPlay' + (buffered - 1)) % BufferCount
              = (bufferPlay + ((buffered - 1) + 1)) % BufferCount
        BY <1>2, <2>3
      <4>2. (buffered - 1) + 1 = buffered
        BY <1>2
      <4>3. QED
        BY <1>1, <2>1, <4>1, <4>2 DEF AInv, RingInOrder
    <3>3. ASSUME NEW j \in 0 .. buffered' - 1, buffered' - j <= Intact
          PROVE  ring[(bufferPlay' + j) % BufferCount] = committed - buffered' + 1 + j
      <4>1. /\ j \in Int /\ j + 1 \in 0 .. buffered - 1
            /\ buffered - (j + 1) <= Intact
        BY <1>2, <2>1, <3>1, <3>3
      <4>2. ring[(bufferPlay + (j + 1)) % BufferCount] = committed - buffered + 1 + (j + 1)
        BY <4>1 DEF AInv, RingInOrder
      <4>3. (bufferPlay' + j) % BufferCount = (bufferPlay + (j + 1)) % BufferCount
        BY <2>3, <4>1
      <4>4. committed - buffered + 1 + (j + 1) = committed - buffered' + 1 + j
        BY <1>2, <2>1, <4>1
      <4>5. QED
        BY <4>2, <4>3, <4>4
    <3>4. QED
      BY <1>1, <3>1, <3>2, <3>3 DEF RingInOrder
  <2>9. QED
    BY <2>4, <2>5, <2>6, <2>7, <2>8 DEF AInv
<1>4. CASE ~ (callback /\ playing /\ buffered > 0)
  <2>1. /\ UNCHANGED <<bufferPlay, buffered, handed>>
        /\ dmaNext' \in {dmaNext, Silence}
        /\ playing /\ buffered > 0 => dmaNext' = dmaNext
    BY <1>2, <1>4 DEF DmaInterrupt, DmaCallback
  <2>2. TypeOK'
    BY <1>1, <2>1 DEF AInv, TypeOK, threadVars, mainVars
  <2>3. ThreadInv' /\ LifeInv'
    BY <1>1, <2>1 DEF AInv, ThreadInv, LifeInv, threadVars, mainVars
  <2>4. EngineInv' /\ PlayingMeansDma'
    <3> SUFFICES ASSUME Running PROVE EngineInv' /\ PlayingMeansDma'
      BY <1>1 DEF EngineInv, PlayingMeansDma, Running, mainVars
    <3>1. thread # "startDma" /\ playing /\ (JustStarted \/ Following)
      BY <1>1 DEF AInv, EngineInv
    <3>2. JustStarted' \/ Following'
      <4>1. At(0)' = At(0) /\ At(-1)' = At(-1) /\ At(-2)' = At(-2)
        BY <2>1 DEF At
      <4>2. CASE JustStarted
        BY <1>1, <1>2, <2>1, <3>1, <4>1, <4>2 DEF JustStarted
      <4>3. CASE Following
        BY <1>1, <2>1, <4>1, <4>3 DEF Following
      <4>4. QED
        BY <3>1, <4>2, <4>3
    <3>3. QED
      BY <1>1, <3>1, <3>2 DEF EngineInv, PlayingMeansDma, threadVars
  <2>5. WrittenInv' /\ RingInOrder'
    BY <1>1, <2>1 DEF AInv, WrittenInv, RingInOrder, Running, Writing, Intact, threadVars, mainVars
  <2>6. QED
    BY <2>2, <2>3, <2>4, <2>5 DEF AInv
<1>5. QED
  BY <1>3, <1>4

-----------------------------------------------------------------------------
\* The invariant of the audio renderer, for every buffer size, every ring of at
\* least three buffers and every set of packet sizes.
THEOREM AudioInvariance == Spec => []AInv
<1>1. AInv /\ [Next]_vars => AInv'
  <2> SUFFICES ASSUME AInv, [Next]_vars PROVE AInv'
    OBVIOUS
  <2>1. CASE MainThread
    BY <2>1, MainKeeps
  <2>2. CASE DecoderThread
    BY <2>2, CarryKeeps, WriteKeeps, PublishKeeps, StartKeeps DEF DecoderThread, Append
  <2>3. CASE DmaInterrupt
    BY <2>3, InterruptKeeps
  <2>4. CASE UNCHANGED vars
    BY <2>4 DEF vars, ringVars, threadVars, mainVars, dmaVars, auxVars,
      AInv, TypeOK, ThreadInv, LifeInv, EngineInv, JustStarted, Following, At,
      PlayingMeansDma, WrittenInv, RingInOrder, Running, Writing, Intact
  <2>5. QED
    BY <2>1, <2>2, <2>3, <2>4 DEF Next
<1>2. QED
  BY <1>1, AudioInitInv, PTL DEF Spec

\* While a stream runs, indices, level and contents of the ring agree: the
\* chunks are heard in the order they were decoded, without a gap.
THEOREM KeepsOrder == Spec => []RingInOrder
<1>1. AInv => RingInOrder
  BY DEF AInv
<1>2. QED
  BY <1>1, AudioInvariance, PTL

\* The copy into the carry buffer stays inside it, although ar_stop clears its
\* fill level between the check and the copy.
THEOREM CarryBounded == Spec => []CarryStaysInside
<1>1. AInv => CarryStaysInside
  <2> SUFFICES ASSUME AInv, thread = "carry"
               PROVE  carryRead + ToCarry <= BufferSize /\ carryFill + ToCarry <= BufferSize
    BY DEF CarryStaysInside
  <2>1. /\ carryFill <= carryRead
        /\ carryFill \in Nat /\ carryRead \in Nat /\ total \in Nat
        /\ carryRead <= BufferSize /\ BufferSize \in Nat
    BY AudioAssumption DEF AInv, TypeOK, ThreadInv
  <2>2. QED
    BY <2>1 DEF ToCarry, Minimum
<1>2. QED
  BY <1>1, AudioInvariance, PTL

\* The engine is stopped whenever the buffers are not allocated.
THEOREM NoDmaAfterFree == Spec => []NoDmaFromFreedMemory
<1>1. AInv => NoDmaFromFreedMemory
  BY DEF AInv, LifeInv, NoDmaFromFreedMemory
<1>2. QED
  BY <1>1, AudioInvariance, PTL

\* playing is never stale.
THEOREM PlayingIsTrue == Spec => []PlayingMeansDma
<1>1. AInv => PlayingMeansDma
  BY DEF AInv
<1>2. QED
  BY <1>1, AudioInvariance, PTL

\* A chunk is overwritten under the engine by commit_carry only, and only when
\* all but two buffers are full.
THEOREM TearsBounded == Spec => []TearsOnlyFromCarry
<1>1. AInv => TearsOnlyFromCarry
  <2> SUFFICES ASSUME AInv, Running, Writing, dmaOn, bufferFill \in {dmaCur, dmaNext}
               PROVE  thread = "commitPublish" /\ buffered >= BufferCount - 2
    BY DEF TearsOnlyFromCarry
  <2>1. /\ bufferFill \in Buffers /\ bufferPlay \in Int /\ buffered \in Nat
        /\ bufferFill = (bufferPlay + buffered) % BufferCount
        /\ Silence \notin Buffers
    BY AudioAssumption DEF AInv, TypeOK, RingInOrder, Buffers, Silence
  <2>2. JustStarted \/ Following
    BY DEF AInv, EngineInv
  <2>3. buffered >= BufferCount - 2
    <3>1. CASE bufferFill = At(0) /\ buffered > 0
      <4> DEFINE zero == 0
      <4>1. zero \in Int /\ zero < buffered /\ bufferFill = (bufferPlay + zero) % BufferCount
        BY <2>1, <3>1 DEF At
      <4> HIDE DEF zero
      <4>2. buffered - zero >= BufferCount
        BY <2>1, <4>1, PlacesApart
      <4>3. QED
        BY <2>1, <4>2, CountPositive DEF zero
    <3>2. CASE bufferFill = At(-1)
      <4>1. buffered - (-1) >= BufferCount
        BY <2>1, <3>2, PlacesApart DEF At
      <4>2. QED
        BY <2>1, <4>1, CountPositive
    <3>3. CASE bufferFill = At(-2)
      <4>1. buffered - (-2) >= BufferCount
        BY <2>1, <3>3, PlacesApart DEF At
      <4>2. QED
        BY <2>1, <4>1, CountPositive
    <3>4. QED
      BY <2>1, <2>2, <3>1, <3>2, <3>3 DEF JustStarted, Following
  <2>4. thread # "bulkPublish"
    BY <2>1, <2>3, CountPositive DEF AInv, ThreadInv
  <2>5. QED
    BY <2>3, <2>4 DEF Writing
<1>2. QED
  BY <1>1, AudioInvariance, PTL

=============================================================================
