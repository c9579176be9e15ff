----------------------------- MODULE Library_proofs -----------------------------
(***************************************************************************)
(* Proofs about the client's library.                                      *)
(*                                                                         *)
(* VideoFrames, for any chunk size, frame sizes, signatures and number of  *)
(* frames: the chunks of a frame tile it, a viewer's decoder is handed     *)
(* captured frames whole, and its copies stay inside its vectors, while    *)
(* signatures differ.                                                      *)
(*                                                                         *)
(* Audio, for any number of commands, requests and packets in one life:    *)
(* the streams and threads in the order the objects are made and destroyed *)
(* (Made, Users, Streams, Looks), and how far a request to fix the delay   *)
(* has got (Fixes).                                                        *)
(***************************************************************************)
EXTENDS VideoFrames, Audio, FiniteSetTheorems, TLAPS

-----------------------------------------------------------------------------
(* The constants, and the fields of a chunk.                               *)

LEMMA Constants ==
  /\ DataSize \in Nat /\ DataSize > 0 /\ MaxFrames \in Nat /\ MaxUInt16 \in Nat
  /\ \A size \in Sizes : size \in Nat /\ size <= MaxUInt16 * DataSize
<1>1. MaxUInt16 \in Nat
  BY DEF MaxUInt16
<1> QED BY <1>1, ConstantsAssumption DEF ConstantsAssumption

LEMMA ChunkFields ==
  ASSUME NEW c \in Chunk
  PROVE  /\ c.frame \in 1 .. MaxFrames
         /\ c.totalSize \in Sizes /\ c.totalSize \in Nat
         /\ c.chunkIndex \in Nat
         /\ c.dataSize \in Nat /\ 0 < c.dataSize /\ c.dataSize <= DataSize
<1>1. c.frame \in 1 .. MaxFrames /\ c.totalSize \in Sizes /\ c.chunkIndex \in 0 .. MaxUInt16 /\ c.dataSize \in 1 .. DataSize
  BY Constants DEF Chunk
<1> QED BY <1>1, Constants

-----------------------------------------------------------------------------
(* Cutting a size into chunks.                                             *)

\* The division of a position by the chunk size.
LEMMA Division ==
  ASSUME NEW n \in Nat
  PROVE  /\ n \div DataSize \in Nat
         /\ n % DataSize \in 0 .. DataSize - 1
         /\ n = DataSize * (n \div DataSize) + (n % DataSize)
<1>1. DataSize \in Nat \ {0}
  BY ConstantsAssumption DEF ConstantsAssumption
<1>2. n \div DataSize \in Nat
  BY <1>1
<1>3. n % DataSize \in 0 .. DataSize - 1
  BY <1>1
<1>4. n = DataSize * (n \div DataSize) + (n % DataSize)
  BY <1>1
<1> QED BY <1>2, <1>3, <1>4

\* A product of naturals is a natural, and grows by DataSize with its factor.
LEMMA Product ==
  ASSUME NEW i \in Nat, NEW j \in Nat, i < j
  PROVE  /\ i * DataSize \in Nat /\ j * DataSize \in Nat
         /\ i * DataSize + DataSize <= j * DataSize
<1>1. PICK k \in Nat : j = i + 1 + k
  <2>1. j - i - 1 \in Nat
    OBVIOUS
  <2> QED BY <2>1
<1>2. k * DataSize \in Nat /\ i * DataSize \in Nat
  BY <1>1, ConstantsAssumption DEF ConstantsAssumption
<1>3. j * DataSize = i * DataSize + DataSize + k * DataSize
  BY <1>1, ConstantsAssumption DEF ConstantsAssumption
<1> QED BY <1>2, <1>3, ConstantsAssumption DEF ConstantsAssumption

\* An index starts inside a frame just when it is less than the number of chunks.
LEMMA IndexOfFrame ==
  ASSUME NEW size \in Nat, NEW i \in Nat
  PROVE  /\ chunksInFrame(size) \in Nat
         /\ i * DataSize \in Nat
         /\ i < chunksInFrame(size) <=> i * DataSize < size
<1> DEFINE d == size \div DataSize
           r == size % DataSize
<1>1. d \in Nat /\ r \in 0 .. DataSize - 1 /\ size = DataSize * d + r
  BY Division
<1>2. DataSize \in Nat \ {0}
  BY ConstantsAssumption DEF ConstantsAssumption
<1>3. chunksInFrame(size) = IF r # 0 THEN d + 1 ELSE d
  BY <1>1 DEF chunksInFrame
<1> HIDE DEF d, r
<1>4. d * DataSize \in Nat /\ i * DataSize \in Nat /\ DataSize * d = d * DataSize
  BY <1>1, <1>2
<1>5. CASE i < d
  BY <1>1, <1>2, <1>3, <1>4, <1>5, Product
<1>6. CASE i = d
  BY <1>1, <1>2, <1>3, <1>4, <1>6
<1>7. CASE d < i
  BY <1>1, <1>2, <1>3, <1>4, <1>7, Product
<1> QED BY <1>1, <1>3, <1>4, <1>5, <1>6, <1>7

\* Every position of a frame is in the span of one of its chunks.
LEMMA SpansCover ==
  ASSUME NEW size \in Nat, NEW b \in 0 .. size - 1
  PROVE  \E i \in 0 .. chunksInFrame(size) - 1 : b \in Span(size, i)
<1> DEFINE i == b \div DataSize
           r == b % DataSize
<1>1. b \in Nat /\ b < size
  OBVIOUS
<1>2. i \in Nat /\ r \in 0 .. DataSize - 1 /\ b = DataSize * i + r
  BY <1>1, Division
<1>3. DataSize \in Nat \ {0}
  BY ConstantsAssumption DEF ConstantsAssumption
<1> HIDE DEF i, r
<1>4. i * DataSize \in Nat /\ DataSize * i = i * DataSize
  BY <1>2, <1>3
<1>5. chunksInFrame(size) \in Nat /\ i < chunksInFrame(size)
  BY <1>1, <1>2, <1>3, <1>4, IndexOfFrame
<1>6. b \in Span(size, i)
  BY <1>1, <1>2, <1>3, <1>4 DEF Span, Smaller
<1> QED BY <1>2, <1>5, <1>6

-----------------------------------------------------------------------------
(* A chunk in the network, and what a step does to the frames.             *)

\* A chunk's index is one of its frame's, and std::copy puts it where its bytes were.
LEMMA ChunkInFrame ==
  ASSUME TypeOK, ChunksTrue, NEW c \in network
  PROVE  /\ c \in Chunk
         /\ c.totalSize \in Nat
         /\ c.chunkIndex \in 0 .. c.chunksInFrame - 1
         /\ Target(c) = Span(c.totalSize, c.chunkIndex)
         /\ Target(c) \subseteq 0 .. c.totalSize - 1
<1>1. c \in Chunk
  BY DEF TypeOK
<1>2. c.totalSize \in Nat /\ c.chunkIndex \in Nat /\ DataSize \in Nat \ {0}
  BY <1>1, ChunkFields, Constants
<1>3. /\ c.chunkIndex * DataSize < c.totalSize
      /\ c.dataSize = Smaller(c.totalSize - c.chunkIndex * DataSize, DataSize)
      /\ c.chunksInFrame = chunksInFrame(c.totalSize)
  BY DEF ChunksTrue
<1>4. c.chunkIndex * DataSize \in Nat /\ c.chunkIndex < c.chunksInFrame /\ c.chunksInFrame \in Nat
  BY <1>2, <1>3, IndexOfFrame
<1>5. Target(c) = Span(c.totalSize, c.chunkIndex)
  BY <1>3 DEF Target, Span
<1>6. Target(c) \subseteq 0 .. c.totalSize - 1
  BY <1>2, <1>3, <1>4 DEF Target, Smaller
<1> QED BY <1>1, <1>2, <1>4, <1>5, <1>6

\* A captured frame comes after the others and changes none.
LEMMA FramesStay ==
  ASSUME TypeOK, NEW size \in Sizes, NEW signature \in Signatures, Capture(size, signature)
  PROVE  /\ frames' \in Seq(Frame)
         /\ Len(frames') = Len(frames) + 1 /\ Len(frames') <= MaxFrames
         /\ DOMAIN frames \subseteq DOMAIN frames'
         /\ \A f \in DOMAIN frames : frames'[f] = frames[f]
         /\ frames'[Len(frames')] = [size |-> size, signature |-> signature]
<1>1. [size |-> size, signature |-> signature] \in Frame
  BY DEF Frame
<1>2. /\ frames \in Seq(Frame) /\ Len(frames) < MaxFrames
      /\ frames' = Append(frames, [size |-> size, signature |-> signature])
  BY DEF TypeOK, Capture
<1> HIDE DEF Capture
<1>3. frames' \in Seq(Frame) /\ Len(frames') = Len(frames) + 1
  BY <1>1, <1>2
<1>4. DOMAIN frames = 1 .. Len(frames) /\ DOMAIN frames' = 1 .. Len(frames') /\ Len(frames) \in Nat
  BY <1>2, <1>3
<1>5. \A f \in DOMAIN frames : frames'[f] = frames[f]
  BY <1>1, <1>2, <1>4
<1>6. frames'[Len(frames')] = [size |-> size, signature |-> signature]
  BY <1>1, <1>2, <1>3
<1> QED BY <1>2, <1>3, <1>4, <1>5, <1>6, Constants

\* The chunk a turn of the loop sends.
LEMMA ChunkSent ==
  ASSUME TypeOK, CutToIndex, SendChunk
  PROVE  \E c \in Chunk :
           /\ network' = network \cup {c} /\ currentSize' = currentSize + c.dataSize
           /\ c.frame = Len(frames) /\ c.signature = Newest.signature
           /\ c.totalSize = Newest.size /\ c.chunksInFrame = chunksInFrame(Newest.size)
           /\ c.chunkIndex = index /\ index * DataSize < Newest.size
           /\ currentSize = index * DataSize /\ c.chunkIndex * DataSize \in Nat
           /\ c.dataSize = Smaller(Newest.size - index * DataSize, DataSize)
<1> DEFINE c == [frame |-> Len(frames), signature |-> Newest.signature,
                 totalSize |-> Newest.size,
                 chunksInFrame |-> chunksInFrame(Newest.size),
                 chunkIndex |-> index,
                 dataSize |-> Smaller(Newest.size - currentSize, DataSize)]
<1>1. /\ frames # <<>> /\ Len(frames) \in 1 .. MaxFrames /\ Newest \in Frame
      /\ currentSize # Newest.size
      /\ network' = network \cup {c} /\ currentSize' = currentSize + c.dataSize
  <2>1. frames # <<>> /\ currentSize # Newest.size
    BY DEF SendChunk, Sending
  <2>2. Len(frames) \in 1 .. MaxFrames /\ Newest \in Frame
    BY <2>1, Constants DEF TypeOK, Newest
  <2>3. network' = network \cup {c} /\ currentSize' = currentSize + c.dataSize
    BY DEF SendChunk
  <2> QED BY <2>1, <2>2, <2>3
<1>2. Newest.size \in Sizes /\ Newest.signature \in Signatures
  BY <1>1 DEF Frame
<1>3. DataSize \in Nat \ {0} /\ Newest.size \in Nat /\ Newest.size <= MaxUInt16 * DataSize
  BY <1>2, Constants
<1>4. index \in Nat /\ index * DataSize \in Nat
  BY <1>3 DEF TypeOK
<1>5. currentSize = Smaller(index * DataSize, Newest.size)
  BY <1>1 DEF CutToIndex
<1>6. index * DataSize < Newest.size /\ currentSize = index * DataSize
  BY <1>1, <1>3, <1>4, <1>5 DEF Smaller
<1>7. index < chunksInFrame(Newest.size) /\ chunksInFrame(Newest.size) \in Nat
  BY <1>3, <1>4, <1>6, IndexOfFrame
<1>8. chunksInFrame(Newest.size) <= MaxUInt16
  <2>1. ~(MaxUInt16 < chunksInFrame(Newest.size))
    BY <1>3, IndexOfFrame, Constants
  <2> QED BY <1>7, <2>1, Constants
<1>9. Smaller(Newest.size - currentSize, DataSize) \in 1 .. DataSize
  BY <1>3, <1>4, <1>6 DEF Smaller
<1>10. c \in Chunk
  <2>1. chunksInFrame(Newest.size) \in 0 .. MaxUInt16 /\ index \in 0 .. MaxUInt16
    BY <1>4, <1>7, <1>8, Constants
  <2> QED BY <1>1, <1>2, <1>9, <2>1 DEF Chunk
<1> QED BY <1>1, <1>4, <1>6, <1>10

-----------------------------------------------------------------------------
(* The sender: what it cut, and what its chunks say.                       *)

LEMMA StartIsTrue == Init => TypeOK /\ Inv
<1> SUFFICES ASSUME Init PROVE TypeOK /\ Inv
  OBVIOUS
<1>1. TypeOK
  <2>1. \A S : <<>> \in [DOMAIN <<>> -> S]
    OBVIOUS
  <2>2. data \in [DOMAIN data -> Byte] /\ filled \in [DOMAIN filled -> BOOLEAN]
    BY <2>1 DEF Init
  <2>3. frames \in Seq(Frame) /\ Len(frames) <= MaxFrames
    BY ConstantsAssumption DEF Init, ConstantsAssumption
  <2> QED BY <2>2, <2>3 DEF Init, TypeOK
<1>2. Inv
  BY DEF Init, Inv, CutToIndex, ChunksTrue, OneFrameInPlace, Unused
<1> QED BY <1>1, <1>2

LEMMA CaptureKeepsInv ==
  ASSUME TypeOK, Inv, NEW size \in Sizes, NEW signature \in Signatures, Capture(size, signature)
  PROVE  TypeOK' /\ Inv'
<1>1. TypeOK'
  BY FramesStay DEF TypeOK, Capture, viewer
<1>2. CutToIndex'
  <2>1. index' = 0 /\ currentSize' = 0
    BY DEF Capture
  <2>2. DataSize \in Nat
    BY ConstantsAssumption DEF ConstantsAssumption
  <2>3. size \in Nat
    BY Constants
  <2>4. Newest'.size = size
    <3>1. Newest' = [size |-> size, signature |-> signature]
      BY FramesStay DEF Newest
    <3> QED BY <3>1
  <2>5. 0 * DataSize = 0
    BY <2>2
  <2>6. currentSize' = Smaller(index' * DataSize, Newest'.size)
    BY <2>1, <2>3, <2>4, <2>5 DEF Smaller
  <2> QED BY <2>1, <2>6 DEF CutToIndex
<1>3. ChunksTrue'
  BY FramesStay DEF Capture, Inv, ChunksTrue
<1>4. OneFrameInPlace'
  <2> SUFFICES ASSUME Distinct', ~Unused' PROVE \E f \in DOMAIN frames' : Assembles(f)'
    BY DEF OneFrameInPlace
  <2>1. Distinct
    BY FramesStay DEF Distinct
  <2>2. ~Unused /\ UNCHANGED <<currentSignature, filled, data>>
    BY DEF Capture, viewer, Unused
  <2>3. PICK f \in DOMAIN frames : Assembles(f)
    BY <2>1, <2>2 DEF Inv, OneFrameInPlace
  <2>4. f \in DOMAIN frames' /\ frames'[f] = frames[f]
    BY FramesStay
  <2>5. Assembles(f)'
    BY <2>2, <2>3, <2>4 DEF Assembles, Picture
  <2> QED BY <2>4, <2>5
<1> QED BY <1>1, <1>2, <1>3, <1>4 DEF Inv

LEMMA SendChunkKeepsInv ==
  ASSUME TypeOK, Inv, SendChunk
  PROVE  TypeOK' /\ Inv'
<1>1. PICK c \in Chunk :
           /\ network' = network \cup {c} /\ currentSize' = currentSize + c.dataSize
           /\ c.frame = Len(frames) /\ c.signature = Newest.signature
           /\ c.totalSize = Newest.size /\ c.chunksInFrame = chunksInFrame(Newest.size)
           /\ c.chunkIndex = index /\ index * DataSize < Newest.size
           /\ currentSize = index * DataSize /\ c.chunkIndex * DataSize \in Nat
           /\ c.dataSize = Smaller(Newest.size - index * DataSize, DataSize)
  BY ChunkSent DEF Inv
<1>2. /\ frames # <<>> /\ Len(frames) \in DOMAIN frames /\ index' = index + 1
      /\ UNCHANGED frames /\ UNCHANGED viewer
  BY DEF TypeOK, SendChunk, Sending
<1>3. DataSize \in Nat \ {0} /\ index \in Nat /\ c.dataSize \in 1 .. DataSize /\ c.totalSize \in Nat
  BY ChunkFields, Constants DEF TypeOK
<1>4. TypeOK'
  BY SMTT(30), <1>1, <1>2, <1>3 DEF TypeOK, viewer
<1>5. CutToIndex'
  <2>1. (index + 1) * DataSize = index * DataSize + DataSize
    BY <1>3
  <2>2. index * DataSize \in Nat
    BY <1>3
  <2>3. currentSize' = Smaller(index * DataSize + DataSize, Newest.size)
    <3> DEFINE at == index * DataSize
               size == Newest.size
    <3>1. /\ at \in Nat /\ size \in Nat /\ at < size /\ DataSize \in Nat
          /\ currentSize' = at + Smaller(size - at, DataSize)
      BY <1>1, <1>3, <2>2
    <3> HIDE DEF at, size
    <3>2. currentSize' = Smaller(at + DataSize, size)
      BY <3>1 DEF Smaller
    <3> QED BY <3>2 DEF at, size
  <2>4. currentSize' = Smaller(index' * DataSize, Newest'.size)
    BY <1>2, <2>1, <2>3 DEF Newest
  <2> QED BY <1>2, <2>4 DEF CutToIndex
<1>6. ChunksTrue'
  BY <1>1, <1>2 DEF Inv, ChunksTrue, Newest
<1>7. OneFrameInPlace'
  BY <1>2 DEF Inv, OneFrameInPlace, Distinct, Unused, Assembles, Picture, viewer
<1> QED BY <1>4, <1>5, <1>6, <1>7 DEF Inv


-----------------------------------------------------------------------------
(* The viewer: what it puts together.                                      *)

\* What a chunk that fits does to the vectors.
LEMMA Received ==
  ASSUME TypeOK, ChunksTrue, NEW c \in network, Receive(c)
  PROVE  /\ currentSignature' = c.signature
         /\ DOMAIN filled' = DOMAIN Marks(c) /\ filled' \in [DOMAIN filled' -> BOOLEAN]
         /\ c.chunkIndex \in DOMAIN filled' /\ filled'[c.chunkIndex]
         /\ \A i \in DOMAIN filled' : i # c.chunkIndex => filled'[i] = Marks(c)[i]
         /\ DOMAIN data' = DOMAIN Room(c) /\ data' \in [DOMAIN data' -> Byte]
         /\ Target(c) \subseteq DOMAIN data'
         /\ \A b \in Target(c) : data'[b] = <<c.frame, b>>
         /\ \A b \in DOMAIN data' \ Target(c) : data'[b] = Room(c)[b]
<1>1. c.frame \in 1 .. MaxFrames /\ Target(c) \subseteq Nat
  <2>1. Target(c) \subseteq 0 .. c.totalSize - 1
    BY ChunkInFrame
  <2> QED BY <2>1, ChunkInFrame, ChunkFields
<1>2. Marks(c) \in [DOMAIN Marks(c) -> BOOLEAN]
  BY DEF Marks, NoMarks, TypeOK
<1>3. Room(c) \in [DOMAIN Room(c) -> Byte]
  BY DEF Room, Resized, TypeOK, Byte
<1>4. /\ currentSignature' = c.signature
      /\ filled' = [Marks(c) EXCEPT ![c.chunkIndex] = TRUE]
      /\ data' = [b \in DOMAIN Room(c) |-> IF b \in Target(c) THEN <<c.frame, b>> ELSE Room(c)[b]]
      /\ c.chunkIndex \in DOMAIN Marks(c) /\ Target(c) \subseteq DOMAIN Room(c)
  BY DEF Receive, Fits
<1> HIDE DEF Receive
<1>5. \A b \in Target(c) : <<c.frame, b>> \in Byte
  BY <1>1 DEF Byte
<1>6. data' \in [DOMAIN data' -> Byte]
  BY <1>3, <1>4, <1>5
<1> QED BY <1>2, <1>4, <1>6

\* A chunk that fits goes with the others of its frame.
LEMMA ReceiveAssembles ==
  ASSUME TypeOK, Inv, Distinct, NEW c \in network, Receive(c)
  PROVE  c.frame \in DOMAIN frames' /\ Assembles(c.frame)'
<1> DEFINE f == c.frame
<1>1. /\ f \in DOMAIN frames /\ c.signature = frames[f].signature
      /\ c.totalSize = frames[f].size /\ c.chunksInFrame = chunksInFrame(frames[f].size)
  BY DEF Inv, ChunksTrue
<1>2. UNCHANGED frames
  BY DEF Receive, sender
<1>3. /\ Target(c) = Span(frames[f].size, c.chunkIndex)
      /\ c.totalSize \in Nat
  BY <1>1, ChunkInFrame DEF Inv
<1>4. CASE c.signature # currentSignature
  <2>1. DOMAIN Marks(c) = 0 .. c.chunksInFrame - 1 /\ \A i \in DOMAIN Marks(c) : ~Marks(c)[i]
    BY <1>4 DEF Marks, NoMarks
  <2>2. DOMAIN Room(c) = 0 .. c.totalSize - 1
    BY <1>4 DEF Room, Resized
  <2>3. currentSignature' = frames[f].signature /\ DOMAIN filled' = 0 .. chunksInFrame(frames[f].size) - 1
    BY <1>1, <2>1, Received DEF Inv
  <2>4. DOMAIN data' = DOMAIN Picture(f)
    BY <1>1, <2>2, Received DEF Inv, Picture
  <2>5. ASSUME NEW i \in DOMAIN filled', filled'[i]
        PROVE  \A b \in Span(frames[f].size, i) : data'[b] = <<f, b>>
    <3>1. i = c.chunkIndex
      BY <2>1, <2>5, Received DEF Inv
    <3> QED BY <1>3, <3>1, Received DEF Inv
  <2> QED BY <1>1, <1>2, <2>3, <2>4, <2>5 DEF Assembles, Picture
<1>5. CASE c.signature = currentSignature
  <2>1. Marks(c) = filled /\ Room(c) = data
    BY <1>5 DEF Marks, Room
  <2>2. ~Unused
    BY <2>1, Received DEF Inv, Unused
  <2>3. PICK g \in DOMAIN frames : Assembles(g)
    BY <2>2 DEF Inv, OneFrameInPlace
  <2>4. g = f
    BY <1>1, <1>5, <2>3 DEF Distinct, Assembles
  <2>5. currentSignature' = frames[f].signature /\ DOMAIN filled' = 0 .. chunksInFrame(frames[f].size) - 1
    BY <1>1, <2>1, <2>3, <2>4, Received DEF Inv, Assembles
  <2>6. DOMAIN data' = DOMAIN Picture(f)
    BY <2>1, <2>3, <2>4, Received DEF Inv, Assembles
  <2>7. ASSUME NEW i \in DOMAIN filled', filled'[i], NEW b \in Span(frames[f].size, i)
        PROVE  data'[b] = <<f, b>>
    <3>1. CASE b \in Target(c)
      BY <3>1, Received DEF Inv
    <3>2. CASE b \notin Target(c)
      <4>1. i # c.chunkIndex
        BY <1>3, <2>7, <3>2
      <4>2. i \in DOMAIN filled /\ filled[i]
        BY <2>1, <2>7, <4>1, Received DEF Inv
      <4>3. data[b] = <<f, b>>
        BY <2>3, <2>4, <4>2 DEF Assembles
      <4>4. b \in DOMAIN data'
        <5>1. i \in Nat /\ frames[f].size \in Nat /\ i < chunksInFrame(frames[f].size)
          <6>1. frames[f].size \in Nat /\ chunksInFrame(frames[f].size) \in Nat
            BY <1>1, <1>3, IndexOfFrame
          <6>2. i \in 0 .. chunksInFrame(frames[f].size) - 1
            BY <2>5, <2>7
          <6> QED BY <6>1, <6>2
        <5>2. i * DataSize \in Nat /\ i * DataSize < frames[f].size
          BY <5>1, IndexOfFrame
        <5>3. b \in 0 .. frames[f].size - 1
          BY <5>1, <5>2, Constants DEF Span, Smaller
        <5> QED BY <2>6, <5>3 DEF Picture
      <4> QED BY ZenonT(40), <2>1, <3>2, <4>3, <4>4, Received DEF Inv
    <3> QED BY <3>1, <3>2
  <2> QED BY <1>1, <1>2, <2>5, <2>6, <2>7 DEF Assembles, Picture
<1> QED BY <1>4, <1>5

LEMMA ReceiveKeepsInv ==
  ASSUME TypeOK, Inv, NEW c \in network, Receive(c)
  PROVE  TypeOK' /\ Inv'
<1>1. UNCHANGED <<frames, index, currentSize, network, astray>>
  BY DEF Receive, sender
<1>2. TypeOK'
  <2>1. currentSignature' \in Signatures
    BY ChunkInFrame, Received DEF Inv, Chunk
  <2> QED BY <1>1, <2>1, Received DEF Inv, TypeOK, Chunk
<1>3. CutToIndex' /\ ChunksTrue'
  BY <1>1 DEF Inv, CutToIndex, ChunksTrue, Newest
<1>4. OneFrameInPlace'
  BY <1>1, ReceiveAssembles DEF OneFrameInPlace, Distinct
<1> QED BY <1>2, <1>3, <1>4 DEF Inv

LEMMA ReceiveAstrayKeepsInv ==
  ASSUME TypeOK, Inv, NEW c \in network, ReceiveAstray(c)
  PROVE  TypeOK' /\ Inv'
<1>1. UNCHANGED <<frames, index, currentSize, network, currentSignature, data, filled>> /\ astray' = TRUE
  BY DEF ReceiveAstray, sender
<1>2. TypeOK'
  BY <1>1 DEF TypeOK
<1>3. Inv'
  BY <1>1 DEF Inv, CutToIndex, ChunksTrue, Newest, OneFrameInPlace, Distinct, Unused, Assembles, Picture
<1> QED BY <1>2, <1>3

LEMMA NextKeepsInv == TypeOK /\ Inv /\ [Next]_vars => TypeOK' /\ Inv'
<1> SUFFICES ASSUME TypeOK, Inv, [Next]_vars PROVE TypeOK' /\ Inv'
  OBVIOUS
<1>1. ASSUME NEW size \in Sizes, NEW signature \in Signatures, Capture(size, signature)
      PROVE  TypeOK' /\ Inv'
  BY <1>1, CaptureKeepsInv
<1>2. CASE SendChunk
  BY <1>2, SendChunkKeepsInv
<1>3. ASSUME NEW c \in network, Receive(c) \/ ReceiveAstray(c)
      PROVE  TypeOK' /\ Inv'
  BY <1>3, ReceiveKeepsInv, ReceiveAstrayKeepsInv
<1>4. CASE UNCHANGED vars
  <2>1. UNCHANGED <<frames, index, currentSize, network, currentSignature, data, filled, astray>>
    BY <1>4 DEF vars, sender, viewer
  <2>2. TypeOK'
    BY <2>1 DEF TypeOK
  <2>3. Inv'
    BY <2>1 DEF Inv, CutToIndex, ChunksTrue, Newest, OneFrameInPlace, Distinct, Unused, Assembles, Picture
  <2> QED BY <2>2, <2>3
<1> QED BY <1>1, <1>2, <1>3, <1>4 DEF Next

-----------------------------------------------------------------------------
(* Theorems.                                                               *)

\* TypeOK and Inv hold in every reachable state of processFrame, the network and
\* decodeFrame, for any chunk size, frame sizes and signatures.
THEOREM Invariant == Spec => []FramesInv
<1>1. Init => FramesInv
  BY StartIsTrue DEF FramesInv
<1>2. FramesInv /\ [Next]_vars => FramesInv'
  BY NextKeepsInv DEF FramesInv
<1> QED BY <1>1, <1>2, PTL DEF Spec


\* decodeFrame hands its decoder whole captured frames only, in whatever order, and
\* however often, the chunks of any number of frames arrive.
THEOREM DecodedAlways == Spec => []DecodedIsPicture
<1>1. Init => DecodedIsPicture
  BY DEF Init, DecodedIsPicture
<1>2. TypeOK /\ Inv /\ DecodedIsPicture /\ [Next]_vars => DecodedIsPicture'
  <2> SUFFICES ASSUME TypeOK, Inv, DecodedIsPicture, [Next]_vars, Distinct', decoded' # None
               PROVE  \E f \in DOMAIN frames' : decoded' = Picture(f)'
    BY DEF DecodedIsPicture
  <2>1. ASSUME NEW size \in Sizes, NEW signature \in Signatures, Capture(size, signature)
        PROVE  \E f \in DOMAIN frames' : decoded' = Picture(f)'
    <3>1. Distinct /\ decoded' = decoded
      BY <2>1, FramesStay DEF Distinct, Capture, viewer
    <3>2. PICK f \in DOMAIN frames : decoded = Picture(f)
      BY <3>1 DEF DecodedIsPicture
    <3> QED BY <2>1, <3>1, <3>2, FramesStay DEF Picture
  <2>2. CASE SendChunk \/ UNCHANGED vars
    BY <2>2 DEF SendChunk, vars, sender, viewer, DecodedIsPicture, Distinct, Picture
  <2>3. ASSUME NEW c \in network, Receive(c)
        PROVE  \E f \in DOMAIN frames' : decoded' = Picture(f)'
    <3> DEFINE f == c.frame
    <3>1. Distinct /\ UNCHANGED frames
      BY <2>3 DEF Receive, sender, Distinct
    <3>2. f \in DOMAIN frames' /\ Assembles(f)'
      BY <2>3, <3>1, ReceiveAssembles
    <3>3. AllTrue(filled') /\ decoded' = data'
      BY <2>3 DEF Receive
    <3>4. data' \in [DOMAIN data' -> Byte]
      BY <2>3, Received DEF Inv
    <3>5. frames'[f].size \in Nat
      <4>1. frames'[f] \in Frame
        BY <3>1, <3>2 DEF TypeOK
      <4> QED BY <4>1, Constants DEF Frame
    <3>6. DOMAIN data' = 0 .. frames'[f].size - 1
      BY <3>2 DEF Assembles, Picture
    <3>7. ASSUME NEW b \in DOMAIN data'
          PROVE  data'[b] = <<f, b>>
      <4>1. PICK i \in 0 .. chunksInFrame(frames'[f].size) - 1 : b \in Span(frames'[f].size, i)
        BY <3>5, <3>6, <3>7, SpansCover
      <4> QED BY <3>2, <3>3, <4>1 DEF Assembles, AllTrue
    <3>8. data' = Picture(f)'
      BY <3>4, <3>6, <3>7 DEF Picture
    <3> QED BY <3>2, <3>3, <3>8
  <2>4. ASSUME NEW c \in network, ReceiveAstray(c)
        PROVE  FALSE
    BY <2>4 DEF ReceiveAstray
  <2> QED BY <2>1, <2>2, <2>3, <2>4 DEF Next
<1>3. FramesInv => TypeOK /\ Inv
  BY DEF FramesInv
<1> QED BY <1>1, <1>2, <1>3, Invariant, PTL DEF Spec

\* decodeFrame, which checks no bounds, marks and copies inside its vectors as long as
\* no two frames share a signature and no frame has the signature a viewer starts with.
THEOREM WritesInBoundsAlways == Spec => []WritesInBounds
<1>1. Init => WritesInBounds
  BY DEF Init, WritesInBounds
<1>2. TypeOK /\ Inv /\ WritesInBounds /\ [Next]_vars => WritesInBounds'
  <2> SUFFICES ASSUME TypeOK, Inv, WritesInBounds, [Next]_vars, Distinct', NonZero'
               PROVE  ~astray'
    BY DEF WritesInBounds
  <2>1. ASSUME NEW size \in Sizes, NEW signature \in Signatures, Capture(size, signature)
        PROVE  ~astray'
    <3>1. Distinct /\ NonZero /\ astray' = astray
      BY <2>1, FramesStay DEF Distinct, NonZero, Capture, viewer
    <3> QED BY <3>1 DEF WritesInBounds
  <2>2. CASE SendChunk \/ UNCHANGED vars
    BY <2>2 DEF SendChunk, vars, sender, viewer, WritesInBounds, Distinct, NonZero
  <2>3. ASSUME NEW c \in network, Receive(c)
        PROVE  ~astray'
    BY <2>3 DEF Receive
  <2>4. ASSUME NEW c \in network, ReceiveAstray(c)
        PROVE  FALSE
    <3>1. Distinct /\ NonZero /\ ~Fits(c)
      BY <2>4 DEF ReceiveAstray, sender, Distinct, NonZero
    <3>2. /\ c.frame \in DOMAIN frames /\ c.signature = frames[c.frame].signature
          /\ c.totalSize = frames[c.frame].size /\ c.chunksInFrame = chunksInFrame(c.totalSize)
      BY DEF Inv, ChunksTrue
    <3>3. c.chunkIndex \in 0 .. c.chunksInFrame - 1 /\ Target(c) \subseteq 0 .. c.totalSize - 1
      BY ChunkInFrame DEF Inv
    <3>4. CASE c.signature # currentSignature
      BY <3>1, <3>3, <3>4 DEF Fits, Marks, Room, NoMarks, Resized
    <3>5. CASE c.signature = currentSignature
      <4>1. ~Unused
        BY <3>1, <3>2, <3>5 DEF Unused, NonZero
      <4>2. PICK g \in DOMAIN frames : Assembles(g)
        BY <3>1, <4>1 DEF Inv, OneFrameInPlace
      <4>3. g = c.frame
        BY <3>1, <3>2, <3>5, <4>2 DEF Distinct, Assembles
      <4> QED BY <3>1, <3>2, <3>3, <3>5, <4>2, <4>3 DEF Fits, Marks, Room, Assembles, Picture
    <3> QED BY <3>4, <3>5
  <2> QED BY <2>1, <2>2, <2>3, <2>4 DEF Next
<1>3. FramesInv => TypeOK /\ Inv
  BY DEF FramesInv
<1> QED BY <1>1, <1>2, <1>3, Invariant, PTL DEF Spec

-----------------------------------------------------------------------------
(* The chunks of a frame.                                                  *)

\* Which chunks were sent: those of earlier frames, and the newest one's before index.
ChunksSent ==
  \A f \in DOMAIN frames : \A i \in Nat :
    (\E c \in network : c.frame = f /\ c.chunkIndex = i) <=>
      (f < Len(frames) \/ i < index) /\ i * DataSize < frames[f].size

\* The loop is at the end of the newest frame: it has passed each of its chunks.
LEMMA AllPassed ==
  ASSUME TypeOK, CutToIndex, frames # <<>>, ~Sending, NEW i \in Nat, i * DataSize < Newest.size
  PROVE  i < index
<1>1. index \in Nat /\ Newest.size \in Nat /\ DataSize \in Nat /\ DataSize > 0
  <2>1. Len(frames) \in DOMAIN frames /\ Newest \in Frame
    BY DEF TypeOK, Newest
  <2> QED BY <2>1, Constants DEF TypeOK, Frame
<1>2. Newest.size = Smaller(index * DataSize, Newest.size)
  BY DEF CutToIndex, Sending
<1>3. index * DataSize \in Nat /\ i * DataSize \in Nat
  BY <1>1
<1>4. ~(index * DataSize < Newest.size)
  BY <1>1, <1>2, <1>3 DEF Smaller
<1>5. ~(index < i)
  BY <1>1, <1>3, <1>4, Product
<1>6. index # i
  BY <1>4
<1> QED BY <1>1, <1>5, <1>6

LEMMA SentNext ==
  ASSUME TypeOK, Inv, ChunksSent, [Next]_vars
  PROVE  ChunksSent'
<1>1. ASSUME NEW size \in Sizes, NEW signature \in Signatures, Capture(size, signature)
      PROVE  ChunksSent'
  <2>1. /\ UNCHANGED network /\ index' = 0 /\ ~Sending
        /\ DOMAIN frames = 1 .. Len(frames) /\ DOMAIN frames' = 1 .. Len(frames')
        /\ Len(frames) \in Nat /\ Len(frames') = Len(frames) + 1
        /\ \A f \in DOMAIN frames : frames'[f] = frames[f]
    BY <1>1, FramesStay DEF Capture, TypeOK
  <2> SUFFICES ASSUME NEW f \in DOMAIN frames', NEW i \in Nat
               PROVE  (\E c \in network : c.frame = f /\ c.chunkIndex = i) <=>
                        (f < Len(frames') \/ i < 0) /\ i * DataSize < frames'[f].size
    BY <2>1 DEF ChunksSent
  <2>2. CASE f = Len(frames')
    BY <2>1, <2>2 DEF Inv, ChunksTrue
  <2>3. CASE f \in DOMAIN frames
    <3>1. f = Len(frames) /\ i * DataSize < frames[f].size => i < index
      BY <2>1, <2>3, AllPassed DEF Inv, Newest
    <3>2. f < Len(frames') /\ (f < Len(frames) \/ f = Len(frames))
      BY <2>1, <2>3
    <3> QED BY <2>1, <2>3, <3>1, <3>2 DEF ChunksSent
  <2> QED BY <2>1, <2>2, <2>3
<1>2. CASE SendChunk
  <2>1. PICK c \in Chunk :
          /\ network' = network \cup {c} /\ c.frame = Len(frames) /\ c.chunkIndex = index
          /\ index * DataSize < Newest.size
    BY <1>2, ChunkSent DEF Inv
  <2>2. UNCHANGED frames /\ index' = index + 1 /\ index \in Nat /\ DOMAIN frames = 1 .. Len(frames)
    BY <1>2 DEF SendChunk, TypeOK
  <2> SUFFICES ASSUME NEW f \in DOMAIN frames, NEW i \in Nat
               PROVE  (\E d \in network' : d.frame = f /\ d.chunkIndex = i) <=>
                        (f < Len(frames) \/ i < index + 1) /\ i * DataSize < frames[f].size
    BY <2>2 DEF ChunksSent
  <2>3. (\E d \in network' : d.frame = f /\ d.chunkIndex = i) <=>
           (\E d \in network : d.frame = f /\ d.chunkIndex = i) \/ (f = Len(frames) /\ i = index)
    BY <2>1
  <2>4. (\E d \in network : d.frame = f /\ d.chunkIndex = i) <=>
           (f < Len(frames) \/ i < index) /\ i * DataSize < frames[f].size
    BY DEF ChunksSent
  <2>5. i < index + 1 <=> i < index \/ i = index
    BY <2>2
  <2>6. f = Len(frames) \/ f < Len(frames)
    BY <2>2
  <2>7. f = Len(frames) => frames[f].size = Newest.size
    BY DEF Newest
  <2> QED BY <2>1, <2>2, <2>3, <2>4, <2>5, <2>6, <2>7
<1>3. CASE UNCHANGED sender
  BY <1>3 DEF sender, ChunksSent
<1> QED BY <1>1, <1>2, <1>3 DEF Next, vars, Receive, ReceiveAstray

\* A chunk is known by its frame and its index.
LEMMA ChunkKnown ==
  ASSUME TypeOK, ChunksTrue, NEW c \in network, NEW d \in network,
         c.frame = d.frame, c.chunkIndex = d.chunkIndex
  PROVE  c = d
<1>1. c \in Chunk /\ d \in Chunk
  BY DEF TypeOK
<1>2. /\ c.signature = d.signature /\ c.totalSize = d.totalSize
      /\ c.chunksInFrame = d.chunksInFrame /\ c.dataSize = d.dataSize
  BY DEF ChunksTrue
<1> QED BY <1>1, <1>2 DEF Chunk

\* A frame that was sent to its end has a chunk for each index.
LEMMA FrameComplete ==
  ASSUME TypeOK, Inv, ChunksSent, NEW f \in DOMAIN frames, f < Len(frames) \/ ~Sending
  PROVE  /\ frames[f].size \in Nat /\ chunksInFrame(frames[f].size) \in Nat
         /\ \A i \in 0 .. chunksInFrame(frames[f].size) - 1 :
              \E c \in network : c.frame = f /\ c.chunkIndex = i
<1>1. frames[f].size \in Nat /\ DOMAIN frames = 1 .. Len(frames) /\ Len(frames) \in Nat
  <2>1. frames[f] \in Frame
    BY DEF TypeOK
  <2> QED BY <2>1, Constants DEF Frame, TypeOK
<1>2. chunksInFrame(frames[f].size) \in Nat
  BY <1>1, IndexOfFrame
<1>3. ASSUME NEW i \in 0 .. chunksInFrame(frames[f].size) - 1
      PROVE  \E c \in network : c.frame = f /\ c.chunkIndex = i
  <2>1. i \in Nat /\ i < chunksInFrame(frames[f].size)
    BY <1>2
  <2>3. i * DataSize < frames[f].size
    BY <1>1, <2>1, IndexOfFrame
  <2>2. f < Len(frames) \/ i < index
    <3>1. CASE ~Sending /\ f = Len(frames)
      BY <1>1, <2>1, <2>3, <3>1, AllPassed DEF Inv, Newest
    <3> QED BY <1>1, <3>1
  <2> QED BY <2>1, <2>2, <2>3 DEF ChunksSent
<1> QED BY <1>1, <1>2, <1>3

LEMMA Tiles == TypeOK /\ Inv /\ ChunksSent => ChunksTile
<1> SUFFICES ASSUME TypeOK, Inv, ChunksSent,
                    NEW f \in DOMAIN frames, f < Len(frames) \/ ~Sending
             PROVE  LET chunks == {c \in network : c.frame = f} IN
                      /\ \A c \in chunks : Cardinality(chunks) = c.chunksInFrame
                      /\ \A b \in DOMAIN Picture(f) : Cardinality({c \in chunks : b \in Target(c)}) = 1
  BY DEF ChunksTile
<1> DEFINE chunks == {c \in network : c.frame = f}
           size == frames[f].size
           n == chunksInFrame(size)
           at == [c \in chunks |-> c.chunkIndex]
<1>1. size \in Nat /\ n \in Nat /\ DataSize \in Nat /\ DataSize > 0
  BY FrameComplete, Constants
<1>2. \A i \in 0 .. n - 1 : \E c \in chunks : c.chunkIndex = i
  BY FrameComplete
<1>3. \A c \in chunks : /\ c.totalSize = size /\ c.chunksInFrame = n /\ c.chunkIndex \in 0 .. n - 1
                        /\ Target(c) = Span(size, c.chunkIndex)
  BY ChunkInFrame DEF Inv, ChunksTrue
<1>4. \A c, d \in chunks : c.chunkIndex = d.chunkIndex => c = d
  BY ChunkKnown DEF Inv
<1> HIDE DEF chunks, size, n
<1>5. Cardinality(chunks) = n
  <2>1. at \in [chunks -> 0 .. n - 1]
    BY <1>3
  <2>2. at \in Injection(chunks, 0 .. n - 1)
    BY <1>4, <2>1 DEF Injection, IsInjective
  <2>3. at \in Surjection(chunks, 0 .. n - 1)
    BY <1>2, <2>1 DEF Surjection
  <2>4. IsFiniteSet(0 .. n - 1) /\ Cardinality(0 .. n - 1) = n
    BY <1>1, FS_Interval
  <2> QED BY <2>2, <2>3, <2>4, FS_Injection
<1>6. ASSUME NEW b \in DOMAIN Picture(f)
      PROVE  Cardinality({c \in chunks : b \in Target(c)}) = 1
  <2>1. b \in 0 .. size - 1
    BY DEF Picture, size
  <2>2. PICK i \in 0 .. n - 1 : b \in Span(size, i)
    BY <1>1, <2>1, SpansCover DEF n
  <2>3. PICK c \in chunks : c.chunkIndex = i
    BY <1>2
  <2>4. ASSUME NEW d \in chunks, b \in Target(d) PROVE d = c
    <3> DEFINE j == d.chunkIndex
    <3>1. j \in Nat /\ b \in Span(size, j) /\ i \in Nat
      BY <1>1, <1>3, <2>4
    <3>2. i * DataSize \in Nat /\ j * DataSize \in Nat
      BY <1>1, <3>1
    <3>3. /\ i * DataSize <= b /\ b < i * DataSize + DataSize
          /\ j * DataSize <= b /\ b < j * DataSize + DataSize
      <4>1. b \in Span(size, i) /\ b \in Span(size, j)
        BY <2>2, <3>1
      <4>2. \A k \in Nat : k * DataSize \in Nat /\ b \in Span(size, k) =>
              k * DataSize <= b /\ b < k * DataSize + DataSize
        BY <1>1 DEF Span, Smaller
      <4> QED BY <3>1, <3>2, <4>1, <4>2
    <3>4. ~(i < j) /\ ~(j < i)
      <4>1. b \in Nat
        BY <1>1, <2>1
      <4>2. ~(i < j)
        <5>1. i < j => i * DataSize + DataSize <= j * DataSize
          BY <3>1, Product
        <5> QED BY <1>1, <3>2, <3>3, <4>1, <5>1
      <4>3. ~(j < i)
        <5>1. j < i => j * DataSize + DataSize <= i * DataSize
          BY <3>1, Product
        <5> QED BY <1>1, <3>2, <3>3, <4>1, <5>1
      <4> QED BY <4>2, <4>3
    <3>5. i = j
      BY <3>1, <3>4
    <3> QED BY <1>4, <2>3, <3>5
  <2>5. b \in Target(c)
    BY <1>3, <2>2, <2>3
  <2>6. {d \in chunks : b \in Target(d)} = {c}
    BY <2>4, <2>5
  <2> QED BY <2>6, FS_Singleton
<1> QED BY <1>3, <1>5, <1>6 DEF chunks

\* processFrame, for any chunk size, frame sizes and number of frames: a frame that was sent
\* to its end is tiled by as many chunks as each of them says there are.
THEOREM ChunksTileAlways == Spec => []ChunksTile
<1>1. Init => ChunksSent
  BY DEF Init, ChunksSent
<1>2. TypeOK /\ Inv /\ ChunksSent /\ [Next]_vars => ChunksSent'
  BY SentNext
<1> QED BY <1>1, <1>2, Invariant, Tiles, PTL DEF Spec, FramesInv

-----------------------------------------------------------------------------
(* The audio.                                                              *)

\* The order in which the objects are made, and what each stage has.
Made ==
  /\ callback \in [Devices -> {"out", "encode", "send", "played", "drain", "clear"}]
  /\ object = "microphone" => stage \in {"open", "start", "create", "spawn"}
  /\ object = "speaker" => stage # "spawn"
  /\ encoder # "live" => (object = "microphone" /\ stage # "spawn") \/ stage \in Ending
  /\ decoder => object = "speaker" /\ stage \in {"built"} \cup Ending
  /\ stage = "built" => decoder
  /\ ~running => stage \in Ending

\* Who may use them.
Users ==
  /\ silence # "none" \/ closing # "no" => object = "speaker"
  /\ \A t \in Threads : thread[t].at # "idle" =>
       object = "speaker" /\ (thread[t].device = "speaker" => decoder)

\* The streams before the objects are made, and what a stream says of its callback.
Streams ==
  /\ \A d \in Devices : stream[d] \in {"closed", "stopped"} => callback[d] = "out"
  /\ object = "microphone" => stream["speaker"] = "closed"
  /\ stage = "open" => stream[object] = "closed"
  /\ stage = "start" => stream[object] \in {"closed", "stopped"}

\* What the silence thread saw still holds unless the history says otherwise.
Looks == silence \in {"encode", "send"} /\ ~switched => stream["microphone"] # "running"

\* How far the speaker's callback is in what it was asked.
Fixes ==
  /\ stale <= read
  /\ ~cut =>
       /\ fixDelay /\ callback["speaker"] = "out" => stale = 0
       /\ stale <= 1
       /\ callback["speaker"] \in {"drain", "clear"} => fixDelay
       /\ callback["speaker"] = "clear" \/ ~fixDelay => read >= asked

AudioIInv ==
  /\ AudioTypeOK /\ Made /\ Users /\ Streams /\ Looks /\ Fixes
  /\ CrashesAtTheEdges /\ SilenceWatches /\ EncoderAlone

-----------------------------------------------------------------------------

LEMMA AudioStarts == AudioInit => AudioIInv
<1> SUFFICES ASSUME AudioInit PROVE AudioIInv
  OBVIOUS
<1> USE DEF AudioInit, Devices
<1>1. AudioTypeOK
  <2>1. left \in [commands : Nat, fixes : Nat, packets : Nat]
    BY PlansAssumption
  <2>2. /\ process \in {"runs", "exiting", "over", "terminated", "crashed"}
        /\ object \in Devices /\ stage \in Stages
        /\ encoder \in {"none", "live", "destroyed"} /\ decoder \in BOOLEAN
        /\ silence \in {"none", "begin", "while", "look", "encode", "send", "over"}
        /\ running \in BOOLEAN /\ switched \in BOOLEAN
        /\ closing \in {"no", "encode", "send"}
    BY DEF Stages
  <2>3. /\ stream \in [Devices -> {"closed", "stopped", "running", "stopping"}]
        /\ callback["microphone"] \in {"out", "encode", "send"}
        /\ callback["speaker"] \in {"out", "played", "drain", "clear"}
        /\ thread \in [Threads -> [what : {"mute", "override"}, device : Devices, at : Steps]]
    BY DEF Steps
  <2>4. arrived \in Nat /\ read \in 0..arrived /\ asked \in 0..arrived /\ stale \in 0..arrived
    OBVIOUS
  <2>5. fixDelay \in BOOLEAN /\ cut \in BOOLEAN
    OBVIOUS
  <2> QED BY <2>1, <2>2, <2>3, <2>4, <2>5 DEF AudioTypeOK
<1>2. Made /\ Users
  BY DEF Made, Users
<1>3. Streams /\ Looks /\ Fixes
  BY DEF Streams, Looks, Fixes
<1>4. CrashesAtTheEdges /\ SilenceWatches /\ EncoderAlone
  BY DEF CrashesAtTheEdges, SilenceWatches, EncoderAlone
<1> QED BY <1>1, <1>2, <1>3, <1>4 DEF AudioIInv

\* What a call of RtAudio may do to the streams.
LEMMA Calls ==
  ASSUME AudioTypeOK, Made, Streams, NEW d \in Devices,
         OpenStream(d) \/ StartStream(d) \/ StopStream(d) \/ StopReturns(d) \/ CloseStream(d)
  PROVE  /\ stream' \in [Devices -> {"closed", "stopped", "running", "stopping"}]
         /\ switched' \in BOOLEAN
         /\ \A e \in Devices \ {d} : stream'[e] = stream[e]
         /\ stream'[d] \in {"closed", "stopped"} => callback[d] = "out"
         /\ stream'["microphone"] # stream["microphone"] => switched'
         /\ switched => switched'
<1>1. \/ stream' = stream /\ switched' = switched
      \/ \E s \in {"closed", "stopped", "running", "stopping"} :
           /\ Becomes(d, s) /\ (s = "closed" \/ s = "stopped" => callback[d] = "out")
  <2>1. stream[d] \in {"closed", "stopped"} => callback[d] = "out"
    BY DEF Streams
  <2> QED BY <2>1 DEF OpenStream, StartStream, StopStream, StopReturns, CloseStream
<1>2. CASE stream' = stream /\ switched' = switched
  BY <1>2 DEF AudioTypeOK, Streams
<1>3. ASSUME NEW s \in {"closed", "stopped", "running", "stopping"}, Becomes(d, s),
             s = "closed" \/ s = "stopped" => callback[d] = "out"
      PROVE  /\ stream' \in [Devices -> {"closed", "stopped", "running", "stopping"}]
             /\ switched' \in BOOLEAN
             /\ \A e \in Devices \ {d} : stream'[e] = stream[e]
             /\ stream'[d] \in {"closed", "stopped"} => callback[d] = "out"
             /\ stream'["microphone"] # stream["microphone"] => switched'
             /\ switched => switched'
  <2>1. stream' = [stream EXCEPT ![d] = s] /\ switched' = (switched \/ d = "microphone")
    BY <1>3 DEF Becomes
  <2>2. stream \in [Devices -> {"closed", "stopped", "running", "stopping"}] /\ switched \in BOOLEAN
    BY DEF AudioTypeOK
  <2>3. switched' \in BOOLEAN /\ (switched => switched')
    BY <2>1, <2>2
  <2>4. d # "microphone" => stream'["microphone"] = stream["microphone"]
    BY <2>1, <2>2 DEF Devices
  <2> QED BY <1>3, <2>1, <2>2, <2>3, <2>4
<1> QED BY <1>1, <1>2, <1>3

LEMMA AudioTypesNext == AudioIInv /\ AudioNext => AudioTypeOK' /\ Made'
<1> SUFFICES ASSUME AudioIInv, AudioNext PROVE AudioTypeOK' /\ Made'
  OBVIOUS
<1> USE DEF AudioIInv, life, queue, silent
<1>1. CASE Constructor
  <2>1. CASE Open
    BY <2>1, Calls DEF Open, Constructs, AudioTypeOK, Made, Stages, Ending
  <2>2. CASE Start
    BY <2>2, Calls DEF Start, Constructs, AudioTypeOK, Made, Stages, Ending
  <2>3. CASE CreateEncoder
    BY <2>3 DEF CreateEncoder, Created, Constructs, AudioTypeOK, Made, Stages, Ending
  <2>4. CASE Spawn
    BY <2>4 DEF Spawn, Constructs, AudioTypeOK, Made, Stages, Ending, Devices
  <2>5. CASE CreateDecoder
    BY <2>5 DEF CreateDecoder, Constructs, AudioTypeOK, Made, Stages, Ending
  <2> QED BY <1>1, <2>1, <2>2, <2>3, <2>4, <2>5 DEF Constructor
<1>2. CASE Reconnect \/ Exit
  BY <1>2 DEF Reconnect, Exit, Exits, Constructs, AudioTypeOK, Made, Stages, Ending, Devices
<1>3. CASE Destructor
  <2>1. CASE CloseMicrophone \/ CloseSpeaker
    BY <2>1, Calls DEF CloseMicrophone, CloseSpeaker, AudioTypeOK, Made, Stages, Ending, Devices, Alive
  <2>2. CASE DestroyEncoder
    BY <2>2 DEF DestroyEncoder, AudioTypeOK, Made, Stages, Ending, Devices, Alive
  <2>3. CASE ClearRunning
    <3>1. stage' \in Stages /\ stage' \in Ending /\ stage \in Ending
      BY <2>3 DEF ClearRunning, AudioTypeOK, Stages, Ending
    <3>2. process' \in {"runs", "exiting", "over", "terminated", "crashed"} /\ running' \in BOOLEAN
      BY <2>3 DEF ClearRunning, AudioTypeOK
    <3> QED BY <2>3, <3>1, <3>2 DEF ClearRunning, AudioTypeOK, Made, Ending
  <2>4. CASE Over
    BY <2>4 DEF Over, AudioTypeOK, Made
  <2> QED BY <1>3, <2>1, <2>2, <2>3, <2>4 DEF Destructor
<1>4. CASE SoundCallback
  <2>1. CASE EncodeSound \/ EncodedSound \/ SendSound
    BY <2>1 DEF EncodeSound, EncodedSound, SendSound, Crashes, AudioTypeOK, Made, Stages, Ending, Devices, Alive
  <2>2. CASE SoundFails
    BY <2>2 DEF SoundFails, Exits, AudioTypeOK, Made, Stages, Ending, Devices, Alive
  <2> QED BY <1>4, <2>1, <2>2 DEF SoundCallback
<1>5. CASE SilenceThread
  <2> USE DEF Silence, Crashes, AudioTypeOK, Made, Alive
  <2>1. CASE SetGetter
    BY <2>1 DEF SetGetter
  <2>4. CASE CheckRunning
    BY <2>4 DEF CheckRunning
  <2>5. CASE LookAtStream
    <3>1. switched' \in BOOLEAN /\ silence' \in {"encode", "while"}
      BY <2>5 DEF LookAtStream
    <3> QED BY <2>5, <3>1 DEF LookAtStream
  <2>2. CASE EncodedSilence \/ SendSilence
    BY <2>2 DEF EncodedSilence, SendSilence
  <2>3. CASE SilenceFails \/ SilenceAfterEnd
    BY <2>3 DEF SilenceFails, SilenceAfterEnd
  <2> QED BY <1>5, <2>1, <2>2, <2>3, <2>4, <2>5 DEF SilenceThread
<1>6. CASE BeginClose \/ CloseEncoded \/ Closed
  BY <1>6 DEF BeginClose, CloseEncoded, Closed, Crashes, AudioTypeOK, Made, Alive
<1>7. ASSUME NEW t \in Threads, NEW d \in Devices, NEW what \in {"mute", "override"},
             Command(t, what, d)
      PROVE  AudioTypeOK' /\ Made'
  BY <1>7 DEF Command, AudioTypeOK, Made, Steps
<1>8. ASSUME NEW t \in Threads, CommandGoesOn(t) PROVE AudioTypeOK' /\ Made'
  <2> USE DEF Goes, AudioTypeOK, Made, Steps
  <2> thread[t].device \in Devices
    OBVIOUS
  <2>1. CASE Check(t)
    BY <2>1 DEF Check
  <2>2. CASE Stop(t) \/ Stopped(t)
    BY <2>2, Calls DEF Stop, Stopped
  <2>3. CASE Close(t)
    BY <2>3, Calls DEF Close
  <2>4. CASE Reopen(t) \/ StartAgain(t)
    BY <2>4, Calls DEF Reopen, StartAgain
  <2>5. CASE CommandAfterEnd(t)
    BY <2>5 DEF CommandAfterEnd, Crashes
  <2> QED BY <1>8, <2>1, <2>2, <2>3, <2>4, <2>5 DEF CommandGoesOn
<1>9. CASE Arrive \/ RequestFix
  <2>1. CASE Arrive
    <3>1. left' \in [commands : Nat, fixes : Nat, packets : Nat]
      BY <2>1 DEF Arrive, AudioTypeOK
    <3> QED BY <2>1, <3>1 DEF Arrive, AudioTypeOK, Made
  <2>2. CASE RequestFix
    <3>1. left' \in [commands : Nat, fixes : Nat, packets : Nat]
      BY <2>2 DEF RequestFix, AudioTypeOK
    <3> QED BY <2>2, <3>1 DEF RequestFix, AudioTypeOK, Made
  <2> QED BY <1>9, <2>1, <2>2
<1>10. CASE SpeakerCallback
  <2> USE DEF SpeakerGoes, Crashes, AudioTypeOK, Made, Devices, Alive, Fixes
  <2>1. CASE PlayPacket
    BY <2>1 DEF PlayPacket
  <2>2. CASE CheckFix
    BY <2>2 DEF CheckFix
  <2>3. CASE Drop
    BY <2>3 DEF Drop, AfterDropped
  <2>4. CASE Drained
    BY <2>4 DEF Drained
  <2>5. CASE DrainFails
    BY <2>5 DEF DrainFails
  <2>6. CASE ClearFix
    <3>1. fixDelay' \in BOOLEAN
      BY <2>6 DEF ClearFix
    <3> QED BY <2>6, <3>1 DEF ClearFix
  <2> QED BY <1>10, <2>1, <2>2, <2>3, <2>4, <2>5, <2>6 DEF SpeakerCallback
<1> QED BY <1>1, <1>2, <1>3, <1>4, <1>5, <1>6, <1>7, <1>8, <1>9, <1>10 DEF AudioNext, Threads, Devices

-----------------------------------------------------------------------------
\* What a command does besides: who has asked for it, and which device it is about.
LEMMA UsersNext == AudioIInv /\ AudioNext => Users'
<1> SUFFICES ASSUME AudioIInv, AudioNext PROVE Users'
  OBVIOUS
<1> USE DEF AudioIInv, AudioTypeOK, Made, Users, life, queue, silent
<1>1. CASE Constructor
  BY <1>1 DEF Constructor, Open, Start, CreateEncoder, Spawn, CreateDecoder, Constructs
<1>2. CASE Reconnect \/ Exit
  BY <1>2 DEF Reconnect, Exit
<1>3. CASE Destructor
  BY <1>3 DEF Destructor, CloseMicrophone, CloseSpeaker, DestroyEncoder, ClearRunning, Over
<1>4. CASE SoundCallback
  BY <1>4 DEF SoundCallback, EncodeSound, EncodedSound, SendSound, SoundFails
<1>5. CASE SilenceThread
  BY <1>5 DEF SilenceThread, SetGetter, CheckRunning, LookAtStream, EncodedSilence, SendSilence,
     SilenceFails, SilenceAfterEnd, Silence
<1>6. CASE BeginClose \/ CloseEncoded \/ Closed
  BY <1>6 DEF BeginClose, CloseEncoded, Closed
<1>7. ASSUME NEW t \in Threads, Command(t, "mute", "microphone") PROVE Users'
  BY <1>7 DEF Command
<1>8. ASSUME NEW d \in Devices, Command("console", "override", d) PROVE Users'
  BY <1>8 DEF Command, Threads
<1>9. ASSUME NEW t \in Threads, CommandGoesOn(t) PROVE Users'
  BY <1>9 DEF CommandGoesOn, Check, Stop, Stopped, Close, Reopen, StartAgain, CommandAfterEnd, Goes
<1>10. CASE Arrive \/ RequestFix \/ SpeakerCallback
  BY <1>10 DEF Arrive, RequestFix, SpeakerCallback, PlayPacket, CheckFix, Drop, Drained, DrainFails,
     ClearFix, SpeakerGoes
<1> QED BY <1>1, <1>2, <1>3, <1>4, <1>5, <1>6, <1>7, <1>8, <1>9, <1>10 DEF AudioNext

\* The streams: the one of an object in the making is its constructor's alone.
LEMMA StreamsNext == AudioIInv /\ AudioNext => Streams' /\ Looks'
<1> SUFFICES ASSUME AudioIInv, AudioNext PROVE Streams' /\ Looks'
  OBVIOUS
<1> USE DEF AudioIInv, life, queue, silent
<1>1. CASE Constructor
  <2>1. CASE Open
    <3>1. /\ object \in Devices /\ OpenStream(object) /\ stage' = "start"
          /\ UNCHANGED <<object, callback, silence>>
      BY <2>1 DEF Open, AudioTypeOK
    <3>2. stream[object] = "closed"
      BY <2>1 DEF Open, Constructs, Streams
    <3>3. stream'[object] \in {"closed", "stopped"}
      BY <3>1, <3>2 DEF OpenStream, Becomes, AudioTypeOK
    <3>4. /\ \A e \in Devices \ {object} : stream'[e] = stream[e]
          /\ stream'[object] \in {"closed", "stopped"} => callback[object] = "out"
          /\ stream'["microphone"] # stream["microphone"] => switched'
          /\ switched => switched'
      BY <3>1, Calls
    <3> QED BY <3>1, <3>3, <3>4 DEF Streams, Looks, Devices
  <2>2. CASE Start
    <3>1. /\ object \in Devices /\ StartStream(object) /\ stage' = "create"
          /\ UNCHANGED <<object, callback, silence>>
      BY <2>2 DEF Start, AudioTypeOK
    <3>2. /\ \A e \in Devices \ {object} : stream'[e] = stream[e]
          /\ stream'[object] \in {"closed", "stopped"} => callback[object] = "out"
          /\ stream'["microphone"] # stream["microphone"] => switched'
          /\ switched => switched'
      BY <3>1, Calls
    <3> QED BY <3>1, <3>2 DEF Streams, Looks, Devices
  <2>3. CASE CreateEncoder \/ CreateDecoder
    BY <2>3 DEF CreateEncoder, CreateDecoder, Streams, Looks
  <2>4. CASE Spawn
    <3>1. object = "microphone" /\ object' = "speaker" /\ stage' = "open" /\ silence' = "begin"
      BY <2>4 DEF Spawn, Constructs, Made, AudioTypeOK, Devices
    <3> QED BY <2>4, <3>1 DEF Spawn, Streams, Looks
  <2> QED BY <1>1, <2>1, <2>2, <2>3, <2>4 DEF Constructor
<1>2. CASE Reconnect \/ Exit
  BY <1>2 DEF Reconnect, Exit, Exits, Constructs, Made, Streams, Looks
<1>3. CASE Destructor
  <2>1. CASE CloseMicrophone \/ CloseSpeaker
    BY <2>1, Calls DEF CloseMicrophone, CloseSpeaker, AudioTypeOK, Streams, Looks, Made, Devices
  <2>2. CASE DestroyEncoder \/ ClearRunning \/ Over
    BY <2>2 DEF DestroyEncoder, ClearRunning, Over, Made, Streams, Looks
  <2> QED BY <1>3, <2>1, <2>2 DEF Destructor
<1>4. CASE SoundCallback
  BY <1>4 DEF SoundCallback, EncodeSound, EncodedSound, SendSound, SoundFails, Exits, AudioTypeOK,
     Streams, Looks, Made
<1>5. CASE SilenceThread
  BY <1>5 DEF SilenceThread, SetGetter, CheckRunning, LookAtStream, EncodedSilence, SendSilence,
     SilenceFails, SilenceAfterEnd, Silence, NotRunning, Streams, Looks
<1>6. CASE BeginClose \/ CloseEncoded \/ Closed
  BY <1>6 DEF BeginClose, CloseEncoded, Closed, Streams, Looks
<1>7. ASSUME NEW t \in Threads, NEW d \in Devices, NEW what \in {"mute", "override"},
             Command(t, what, d)
      PROVE  Streams' /\ Looks'
  BY <1>7 DEF Command, Streams, Looks
<1>8. ASSUME NEW t \in Threads, CommandGoesOn(t) PROVE Streams' /\ Looks'
  <2> thread[t].device \in Devices
    BY DEF AudioTypeOK
  <2>1. CASE Check(t) \/ CommandAfterEnd(t)
    BY <2>1 DEF Check, CommandAfterEnd, Goes, Streams, Looks
  <2>2. CASE Stop(t) \/ Stopped(t) \/ Close(t) \/ Reopen(t) \/ StartAgain(t)
    <3>1. /\ thread[t].at # "idle"
          /\ UNCHANGED <<process, object, stage, encoder, decoder, callback, silence, running>>
      BY <2>2 DEF Stop, Stopped, Close, Reopen, StartAgain, Goes
    <3>2. /\ \A e \in Devices \ {thread[t].device} : stream'[e] = stream[e]
          /\ stream'[thread[t].device] \in {"closed", "stopped"} => callback[thread[t].device] = "out"
          /\ stream'["microphone"] # stream["microphone"] => switched'
          /\ switched => switched'
      BY <2>2, Calls DEF Stop, Stopped, Close, Reopen, StartAgain
    <3>3. stage \in {"open", "start"} => thread[t].device # object
      BY <3>1 DEF Users, Made, AudioTypeOK, Ending
    <3>4. object = "speaker"
      BY <3>1 DEF Users
    <3> QED BY <3>1, <3>2, <3>3, <3>4 DEF Streams, Looks, Devices
  <2> QED BY <1>8, <2>1, <2>2 DEF CommandGoesOn
<1>9. CASE Arrive \/ RequestFix
  BY <1>9 DEF Arrive, RequestFix, Streams, Looks
<1>10. CASE SpeakerCallback
  BY <1>10 DEF SpeakerCallback, PlayPacket, CheckFix, Drop, Drained, DrainFails, ClearFix,
     SpeakerGoes, AudioTypeOK, Made, Streams, Looks
<1> QED BY <1>1, <1>2, <1>3, <1>4, <1>5, <1>6, <1>7, <1>8, <1>9, <1>10 DEF AudioNext, Threads, Devices

\* Only the speaker's callback reads; a request starts its count over.
LEMMA FixesNext == AudioIInv /\ AudioNext => Fixes'
<1> SUFFICES ASSUME AudioIInv, AudioNext PROVE Fixes'
  OBVIOUS
<1> USE DEF AudioIInv, AudioTypeOK, Made, Fixes, life, queue, silent, Devices
<1>1. CASE UNCHANGED <<queue, callback>>
  BY <1>1
<1>2. CASE UNCHANGED queue /\ \E to : callback' = [callback EXCEPT !["microphone"] = to]
  BY <1>2
<1>3. CASE Arrive
  BY <1>3 DEF Arrive
<1>4. CASE RequestFix
  BY <1>4 DEF RequestFix
<1>5. CASE SpeakerCallback
  <2>1. CASE PlayPacket
    BY <2>1 DEF PlayPacket, SpeakerGoes
  <2>2. CASE CheckFix
    BY <2>2 DEF CheckFix, SpeakerGoes
  <2>3. CASE Drop
    BY <2>3 DEF Drop, AfterDropped, SpeakerGoes
  <2>4. CASE Drained
    BY <2>4 DEF Drained, SpeakerGoes
  <2>5. CASE DrainFails
    BY <2>5 DEF DrainFails, SpeakerGoes
  <2>6. CASE ClearFix
    BY <2>6 DEF ClearFix, SpeakerGoes
  <2> QED BY <1>5, <2>1, <2>2, <2>3, <2>4, <2>5, <2>6 DEF SpeakerCallback
<1>6. CASE Constructor \/ Reconnect \/ Exit \/ Destructor
  BY <1>1, <1>6 DEF Constructor, Open, Start, CreateEncoder, Spawn, CreateDecoder, Reconnect, Exit,
     Destructor, CloseMicrophone, CloseSpeaker, DestroyEncoder, ClearRunning, Over
<1>7. CASE SoundCallback
  BY <1>1, <1>2, <1>7 DEF SoundCallback, EncodeSound, EncodedSound, SendSound, SoundFails
<1>8. CASE SilenceThread \/ BeginClose \/ CloseEncoded \/ Closed
  BY <1>1, <1>8 DEF SilenceThread, SetGetter, CheckRunning, LookAtStream, EncodedSilence, SendSilence,
     SilenceFails, SilenceAfterEnd, BeginClose, CloseEncoded, Closed
<1>9. ASSUME NEW t, CommandGoesOn(t) \/ \E what, d : Command(t, what, d) PROVE Fixes'
  BY <1>1, <1>9 DEF CommandGoesOn, Check, Stop, Stopped, Close, Reopen, StartAgain, CommandAfterEnd,
     Goes, Command
<1> QED BY <1>3, <1>4, <1>5, <1>6, <1>7, <1>8, <1>9 DEF AudioNext

\* The three properties: what a step uses, and what it finds.
LEMMA EdgesNext == AudioIInv /\ AudioNext => CrashesAtTheEdges' /\ SilenceWatches'
<1> SUFFICES ASSUME AudioIInv, AudioNext PROVE CrashesAtTheEdges' /\ SilenceWatches'
  OBVIOUS
<1> USE DEF AudioIInv, life, queue, silent, CrashesAtTheEdges, SilenceWatches, Alive
<1>0. Made' /\ (~running' => stage' \in Ending)
  BY AudioTypesNext DEF Made
<1>1. CASE Constructor \/ Reconnect \/ Exit
  BY <1>0, <1>1 DEF Constructor, Open, Start, CreateEncoder, Spawn, CreateDecoder, Reconnect, Exit,
     Exits, Constructs, Ending
<1>2. CASE Destructor
  BY <1>0, <1>2 DEF Destructor, CloseMicrophone, CloseSpeaker, DestroyEncoder, ClearRunning, Over
<1>3. CASE SoundCallback
  <2>1. CASE EncodedSound
    <3>1. encoder # "live" => stage \in {"create"} \cup Ending
      BY <2>1 DEF EncodedSound, AudioTypeOK, Made, Streams
    <3> QED BY <2>1, <3>1 DEF EncodedSound
  <2> QED BY <1>0, <1>3, <2>1 DEF SoundCallback, EncodeSound, SendSound, SoundFails, Exits
<1>4. CASE SilenceThread
  <2>1. CASE EncodedSilence
    BY <2>1 DEF EncodedSilence, Crashes, Users, Made
  <2>2. CASE CheckRunning
    BY <1>0, <2>2 DEF CheckRunning, Silence
  <2>3. CASE SilenceAfterEnd
    BY <2>3 DEF SilenceAfterEnd, Freed, Ending, Crashes
  <2> QED BY <1>4, <2>1, <2>2, <2>3 DEF SilenceThread, SetGetter, LookAtStream, SendSilence,
          SilenceFails, Silence
<1>5. CASE BeginClose \/ CloseEncoded \/ Closed
  BY <1>0, <1>5 DEF BeginClose, CloseEncoded, Closed, Crashes, Users, Made
<1>6. ASSUME NEW t \in Threads, CommandGoesOn(t) \/ \E what, d : Command(t, what, d)
      PROVE  CrashesAtTheEdges' /\ SilenceWatches'
  BY <1>6 DEF CommandGoesOn, Check, Stop, Stopped, Close, Reopen, StartAgain, CommandAfterEnd,
     Goes, Command, Crashes, Freed, Ending
<1>7. CASE Arrive \/ RequestFix
  BY <1>7 DEF Arrive, RequestFix
<1>8. CASE SpeakerCallback
  <2>1. CASE PlayPacket
    BY <2>1 DEF PlayPacket, SpeakerGoes, Made, Streams, AudioTypeOK, Stages, Devices, Ending
  <2> QED BY <1>8, <2>1 DEF SpeakerCallback, CheckFix, Drop, Drained, DrainFails, ClearFix, SpeakerGoes
<1> QED BY <1>1, <1>2, <1>3, <1>4, <1>5, <1>6, <1>7, <1>8 DEF AudioNext, Threads

\* The microphone's callback and the silence thread meet only across a change of its stream.
LEMMA AloneNext == AudioIInv /\ AudioNext => EncoderAlone'
<1> SUFFICES ASSUME AudioIInv, AudioNext PROVE EncoderAlone'
  OBVIOUS
<1> USE DEF AudioIInv, life, queue, silent, EncoderAlone
<1>1. AudioTypeOK' /\ Streams' /\ Looks'
  BY AudioTypesNext, StreamsNext
<1> DEFINE Carries == /\ callback'["microphone"] # "out" => callback["microphone"] # "out"
                      /\ silence' \in {"encode", "send"} => silence \in {"encode", "send"}
                      /\ stream'["microphone"] # stream["microphone"] => switched'
                      /\ switched => switched'
<1>2. Carries => EncoderAlone'
  BY <1>1 DEF AudioTypeOK, Devices
<1> HIDE DEF EncoderAlone
<1>3. CASE EncodeSound
  BY <1>3 DEF EncodeSound, Looks, EncoderAlone
<1>4. CASE LookAtStream
  BY <1>4 DEF LookAtStream, NotRunning, Streams, AudioTypeOK, Devices, Silence, EncoderAlone
<1>5. CASE Constructor
  <2>1. CASE Open \/ Start
    BY <2>1, Calls, <1>2 DEF Open, Start, AudioTypeOK
  <2> QED BY <1>2, <1>5, <2>1 DEF Constructor, CreateEncoder, Spawn, CreateDecoder
<1>6. CASE Reconnect \/ Exit \/ Arrive \/ RequestFix \/ BeginClose \/ CloseEncoded \/ Closed
  BY <1>2, <1>6 DEF Reconnect, Exit, Arrive, RequestFix, BeginClose, CloseEncoded, Closed
<1>7. CASE Destructor
  <2>1. CASE CloseMicrophone \/ CloseSpeaker
    BY <1>2, <2>1, Calls DEF CloseMicrophone, CloseSpeaker, Devices
  <2> QED BY <1>2, <1>7, <2>1 DEF Destructor, DestroyEncoder, ClearRunning, Over
<1>8. CASE EncodedSound \/ SendSound \/ SoundFails
  BY <1>2, <1>8 DEF EncodedSound, SendSound, SoundFails, Made, Devices
<1>9. CASE SetGetter \/ CheckRunning \/ EncodedSilence \/ SendSilence \/ SilenceFails \/ SilenceAfterEnd
  BY <1>2, <1>9 DEF SetGetter, CheckRunning, EncodedSilence, SendSilence, SilenceFails,
     SilenceAfterEnd, Silence
<1>10. ASSUME NEW t \in Threads, CommandGoesOn(t) \/ \E what, d : Command(t, what, d)
       PROVE  EncoderAlone'
  <2>1. CASE Stop(t) \/ Stopped(t) \/ Close(t) \/ Reopen(t) \/ StartAgain(t)
    BY <1>2, <2>1, Calls DEF Stop, Stopped, Close, Reopen, StartAgain, Goes, AudioTypeOK
  <2> QED BY <1>2, <1>10, <2>1 DEF CommandGoesOn, Check, CommandAfterEnd, Goes, Command
<1>11. CASE SpeakerCallback
  BY <1>2, <1>11 DEF SpeakerCallback, PlayPacket, CheckFix, Drop, Drained, DrainFails, ClearFix,
     SpeakerGoes, Made, Devices
<1> QED BY <1>3, <1>4, <1>5, <1>6, <1>7, <1>8, <1>9, <1>10, <1>11
        DEF AudioNext, SoundCallback, SilenceThread, Threads

-----------------------------------------------------------------------------
LEMMA AudioAlways == AudioSpec => []AudioIInv
<1>1. AudioIInv /\ [AudioNext]_audioVars => AudioIInv'
  <2>1. CASE AudioNext
    BY <2>1, AudioTypesNext, UsersNext, StreamsNext, FixesNext, EdgesNext, AloneNext DEF AudioIInv
  <2>2. CASE UNCHANGED audioVars
    BY <2>2 DEF audioVars, life, queue, silent, AudioIInv, AudioTypeOK, Made, Users, Streams, Looks,
       Fixes, CrashesAtTheEdges, SilenceWatches, EncoderAlone, Alive
  <2> QED BY <2>1, <2>2
<1> QED BY <1>1, AudioStarts, PTL DEF AudioSpec

\* Microphone and Speaker, for any number of mutes, restarts, requests and packets, and all
\* of them in one life: where a coder is used that is not there, that the silence thread
\* lives as long as its object, and when it and the callback use the encoder at once.
THEOREM AudioSafe == AudioSpec => []AudioInv
BY AudioAlways, PTL DEF AudioIInv, AudioInv

\* Speaker::callback, for any number of packets and requests: one that is carried out leaves
\* none of the old packets, and at most one was played since.
THEOREM FixDrops == AudioSpec => []FixDropsOld
<1>1. AudioIInv => FixDropsOld
  BY DEF AudioIInv, AudioTypeOK, Fixes, FixDropsOld
<1> QED BY <1>1, AudioAlways, PTL

=============================================================================
