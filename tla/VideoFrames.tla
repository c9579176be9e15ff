----------------------------- MODULE VideoFrames -----------------------------
(***************************************************************************)
(* A screen frame on its way from a streamer to a viewer: processFrame     *)
(* cuts it into chunks and sends each in a datagram, the network loses,    *)
(* delays, repeats and reorders them, and ScreenViewerData::decodeFrame    *)
(* puts together what comes, by the signature and index of each chunk.     *)
(*                                                                         *)
(* A byte of a frame is the pair of the frame's number and the position:   *)
(* what a viewer hands to the decoder can be told from what was captured.  *)
(***************************************************************************)
EXTENDS Integers, Sequences, FiniteSets

CONSTANTS
  DataSize,     \* bytes of a frame in a chunk
  Sizes,        \* sizes the encoder may give a frame
  Signatures,   \* what std::rand() % 65535 may give
  Zero,         \* a byte of the buffer nothing was written to
  None,         \* nothing handed to the decoder
  MaxFrames     \* bound on the frames captured

\* Signatures, chunkIndex and chunksInFrame have 16 bits.
MaxUInt16 == 65535

ASSUME ConstantsAssumption ==
  /\ DataSize \in Nat \ {0}
  /\ \A size \in Sizes : size \in Nat /\ size <= MaxUInt16 * DataSize
  /\ Signatures \subseteq 0 .. MaxUInt16 - 1
  /\ MaxFrames \in Nat

VARIABLES
  frames,             \* the frames captured so far, each with its size and signature
  index, currentSize, \* where processFrame is in the newest one
  network,            \* every chunk sent: it may arrive at any time, any number of times
  currentSignature, data, filled,     \* ScreenViewerData
  decoded,            \* what the last chunk made the viewer hand to the decoder
  astray              \* a chunk was written outside data or filled

sender == <<frames, index, currentSize, network>>
viewer == <<currentSignature, data, filled, decoded, astray>>
vars == <<sender, viewer>>

Frame == [size : Sizes, signature : Signatures]

Smaller(m, n) == IF m <= n THEN m ELSE n

\* Mutant: the rest of the division is forgotten.
WholeChunks(size) == size \div DataSize

chunksInFrame(size) ==
  size \div DataSize + (IF size % DataSize # 0 THEN 1 ELSE 0)

\* The positions chunk i of a frame of this size carries.
Span(size, i) == i * DataSize .. i * DataSize + Smaller(size - i * DataSize, DataSize) - 1

\* The bytes of frame f, as captured.
Picture(f) == [b \in 0 .. frames[f].size - 1 |-> <<f, b>>]

Chunk == [frame : 1..MaxFrames, signature : Signatures, totalSize : Sizes,
          chunksInFrame : 0..MaxUInt16, chunkIndex : 0..MaxUInt16, dataSize : 1..DataSize]

Byte == {Zero} \cup (1..MaxFrames) \X Nat

TypeOK ==
  /\ frames \in Seq(Frame) /\ Len(frames) <= MaxFrames
  /\ index \in Nat /\ currentSize \in Nat
  /\ network \subseteq Chunk
  /\ currentSignature \in Signatures \cup {0}
  /\ data \in [DOMAIN data -> Byte] /\ filled \in [DOMAIN filled -> BOOLEAN]
  /\ astray \in BOOLEAN

Init ==
  /\ frames = <<>> /\ index = 0 /\ currentSize = 0
  /\ network = {}
  /\ currentSignature = 0 /\ data = <<>> /\ filled = <<>>
  /\ decoded = None /\ astray = FALSE

-----------------------------------------------------------------------------
(* processFrame.                                                           *)

Newest == frames[Len(frames)]

Sending == frames # <<>> /\ currentSize # Newest.size

\* A frame is captured and encoded, and the chunk's fixed fields are filled in.
Capture(size, signature) ==
  /\ Len(frames) < MaxFrames /\ ~Sending
  /\ frames' = Append(frames, [size |-> size, signature |-> signature])
  /\ index' = 0 /\ currentSize' = 0
  /\ UNCHANGED <<network, viewer>>

\* One turn of the loop.
SendChunk ==
  /\ Sending
  /\ LET chunk == [frame |-> Len(frames), signature |-> Newest.signature,
                   totalSize |-> Newest.size,
                   chunksInFrame |-> chunksInFrame(Newest.size),
                   chunkIndex |-> index,
                   dataSize |-> Smaller(Newest.size - currentSize, DataSize)]
     IN  /\ network' = network \cup {chunk}
         /\ currentSize' = currentSize + chunk.dataSize
  /\ index' = index + 1
  /\ UNCHANGED <<frames, viewer>>

-----------------------------------------------------------------------------
(* ScreenViewerData::decodeFrame.                                          *)

\* Mutant: the marks of the last frame are kept.
SameMarks(chunk) == [i \in 0 .. chunk.chunksInFrame - 1 |-> i \in DOMAIN filled /\ filled[i]]

\* std::vector<bool>(chunksInFrame, false)
NoMarks(chunk) == [i \in 0 .. chunk.chunksInFrame - 1 |-> FALSE]

\* Mutant: the vector keeps the size of the last frame.
NotResized(chunk) == data

\* data.resize(totalSize): what was there stays.
Resized(chunk) ==
  [b \in 0 .. chunk.totalSize - 1 |-> IF b \in DOMAIN data THEN data[b] ELSE Zero]

\* A chunk of another frame starts the assembly over.
Marks(chunk) == IF chunk.signature # currentSignature THEN NoMarks(chunk) ELSE filled
Room(chunk) == IF chunk.signature # currentSignature THEN Resized(chunk) ELSE data

\* Where std::copy puts the bytes.
Target(chunk) ==
  chunk.chunkIndex * DataSize .. chunk.chunkIndex * DataSize + chunk.dataSize - 1

Fits(chunk) == /\ chunk.chunkIndex \in DOMAIN Marks(chunk)
               /\ Target(chunk) \subseteq DOMAIN Room(chunk)

AllTrue(f) == \A i \in DOMAIN f : f[i]

Receive(chunk) ==
  /\ ~astray /\ chunk \in network /\ Fits(chunk)
  /\ currentSignature' = chunk.signature
  /\ filled' = [Marks(chunk) EXCEPT ![chunk.chunkIndex] = TRUE]
  /\ data' = [b \in DOMAIN Room(chunk) |->
                IF b \in Target(chunk) THEN <<chunk.frame, b>> ELSE Room(chunk)[b]]
  /\ decoded' = IF AllTrue(filled') THEN data' ELSE None
  /\ UNCHANGED <<sender, astray>>

\* operator[] and std::copy check no bounds; what becomes of the viewer is undefined.
ReceiveAstray(chunk) ==
  /\ ~astray /\ chunk \in network /\ ~Fits(chunk)
  /\ astray' = TRUE /\ decoded' = None
  /\ UNCHANGED <<sender, currentSignature, data, filled>>

Next ==
  \/ \E size \in Sizes : \E signature \in Signatures : Capture(size, signature)
  \/ SendChunk
  \/ \E chunk \in network : Receive(chunk) \/ ReceiveAstray(chunk)

Spec == Init /\ [][Next]_vars

-----------------------------------------------------------------------------
(* Properties.                                                             *)

\* std::rand gave no two frames the same signature.
Distinct ==
  \A f, g \in DOMAIN frames : frames[f].signature = frames[g].signature => f = g

\* It gave no frame the signature a viewer starts with.
NonZero == \A f \in DOMAIN frames : frames[f].signature # 0

\* The chunks of a frame that was sent to its end tile it: as many as each of them
\* says there are, and each byte in exactly one of them.
ChunksTile ==
  \A f \in DOMAIN frames :
    f < Len(frames) \/ ~Sending =>
      LET chunks == {c \in network : c.frame = f} IN
        /\ \A c \in chunks : Cardinality(chunks) = c.chunksInFrame
        /\ \A b \in DOMAIN Picture(f) : Cardinality({c \in chunks : b \in Target(c)}) = 1

\* The decoder is handed frames that were captured, whole, and nothing else,
\* however the chunks of different frames come mixed.
DecodedIsPicture ==
  Distinct /\ decoded # None => \E f \in DOMAIN frames : decoded = Picture(f)

\* A viewer writes inside its two vectors.  (A repeated signature, or the signature 0
\* on the first frame a viewer gets, breaks this.)
WritesInBounds == Distinct /\ NonZero => ~astray

-----------------------------------------------------------------------------
(* The invariant the proofs use.                                           *)

\* processFrame has cut the newest frame as far as index, in full chunks but the last.
CutToIndex ==
  /\ frames = <<>> => index = 0 /\ currentSize = 0
  /\ frames # <<>> => currentSize = Smaller(index * DataSize, Newest.size)

\* A chunk in the network says the truth about its frame.
ChunksTrue ==
  \A c \in network :
    /\ c.frame \in DOMAIN frames
    /\ c.signature = frames[c.frame].signature
    /\ c.totalSize = frames[c.frame].size
    /\ c.chunksInFrame = chunksInFrame(c.totalSize)
    /\ c.chunkIndex * DataSize < c.totalSize
    /\ c.dataSize = Smaller(c.totalSize - c.chunkIndex * DataSize, DataSize)

\* A viewer before its first chunk.
Unused == currentSignature = 0 /\ DOMAIN filled = {}

\* A viewer putting frame f together: the bytes of the marked chunks are in place.
Assembles(f) ==
  /\ currentSignature = frames[f].signature
  /\ DOMAIN filled = 0 .. chunksInFrame(frames[f].size) - 1
  /\ DOMAIN data = DOMAIN Picture(f)
  /\ \A i \in DOMAIN filled :
       filled[i] => \A b \in Span(frames[f].size, i) : data[b] = <<f, b>>

OneFrameInPlace == Distinct => Unused \/ \E f \in DOMAIN frames : Assembles(f)

\* What the sender has cut, what its chunks say and what a viewer has put together
\* belong to one another.
Inv == CutToIndex /\ ChunksTrue /\ OneFrameInPlace

\* The same with the types: every step of processFrame and decodeFrame keeps this.
FramesInv == TypeOK /\ Inv
=============================================================================
