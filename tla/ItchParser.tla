------------------------------ MODULE ItchParser ------------------------------
(***************************************************************************)
(* ItchParser: framing of a byte stream that arrives in chunks.            *)
(*                                                                         *)
(* A record is a length of two bytes, a type byte and a payload; the       *)
(* length covers type and payload.  feed() appends a chunk to its buffer,  *)
(* runs through the buffer one record at a time and drops what it has run  *)
(* through; a record that is not complete stays for the next chunk.        *)
(*                                                                         *)
(* stream is the history of all bytes since the last reset, and frames of  *)
(* all that feed() found in them: the records it returned, and the lengths *)
(* it dropped as corrupt.  A frame has the place in the stream where it    *)
(* begins, and the type byte and payload handed to decodeMessage().        *)
(***************************************************************************)
EXTENDS Integers, Sequences

CONSTANTS Radix,           \* number of values of a byte, 256
          MaxMessageSize,  \* kMaxMessageSize
          PayloadSize,     \* type byte -> payload size, of the types that decode
          MaxStream        \* bound on the bytes between two resets

ASSUME ParserAssumption ==
    /\ Radix \in Nat \ {0}
    /\ MaxMessageSize \in Nat
    /\ MaxStream \in Nat

Byte == 0..Radix - 1

VARIABLES
    buffer,  \* buffer_
    offset,  \* the local of feed()
    fpc,     \* "idle", or "scan" while feed() runs
    messagesDecoded,
    messagesSkipped,
    stream,
    frames

parserVars == <<buffer, offset, fpc, messagesDecoded, messagesSkipped, stream, frames>>

ParserInit ==
    /\ buffer = <<>>
    /\ offset = 0
    /\ fpc = "idle"
    /\ messagesDecoded = 0
    /\ messagesSkipped = 0
    /\ stream = <<>>
    /\ frames = <<>>

-----------------------------------------------------------------------------
\* The big-endian length in the two bytes after the first i.
LengthAt(s, i) == s[i + 1] * Radix + s[i + 2]

Corrupt(s, i) == LengthAt(s, i) = 0 \/ LengthAt(s, i) > MaxMessageSize

\* There is a length after the first i bytes, and all that it announces.
Complete(s, i) ==
    /\ Len(s) - i >= 2
    /\ Corrupt(s, i) \/ Len(s) - i >= 2 + LengthAt(s, i)

\* How many bytes the frame there takes, and its type byte and payload.
SizeAt(s, i) == IF Corrupt(s, i) THEN 2 ELSE 2 + LengthAt(s, i)
BodyAt(s, i) == IF Corrupt(s, i) THEN <<>> ELSE SubSeq(s, i + 3, i + 2 + LengthAt(s, i))

\* decodeMessage() knows the type and its payload has the size of the type.
Decodes(body) == body # <<>> /\ Head(body) \in DOMAIN PayloadSize
                             /\ Len(body) - 1 = PayloadSize[Head(body)]

-----------------------------------------------------------------------------
\* feed(), up to its loop.
Feed(chunk) ==
    /\ fpc = "idle"
    /\ Len(stream) + Len(chunk) <= MaxStream
    /\ buffer' = buffer \o chunk
    /\ stream' = stream \o chunk
    /\ offset' = 0
    /\ fpc' = "scan"
    /\ UNCHANGED <<messagesDecoded, messagesSkipped, frames>>

\* One iteration of the loop: a record, or a corrupt length that is dropped.
Scan ==
    /\ fpc = "scan"
    /\ Complete(buffer, offset)
    /\ LET body == BodyAt(buffer, offset)
       IN  /\ frames' = Append(frames, [at |-> Len(stream) - Len(buffer) + offset,
                                        size |-> SizeAt(buffer, offset), body |-> body])
           /\ messagesDecoded' = messagesDecoded + (IF Decodes(body) THEN 1 ELSE 0)
           /\ messagesSkipped' = messagesSkipped + (IF Decodes(body) THEN 0 ELSE 1)
    /\ offset' = offset + SizeAt(buffer, offset)
    /\ UNCHANGED <<buffer, fpc, stream>>

\* Mutant: an incomplete record is dropped with the rest.
FeedReturn_DropTail ==
    /\ fpc = "scan"
    /\ ~Complete(buffer, offset)
    /\ buffer' = <<>>
    /\ offset' = 0
    /\ fpc' = "idle"
    /\ UNCHANGED <<messagesDecoded, messagesSkipped, stream, frames>>

\* The end of feed(): the bytes before the offset are erased.
FeedReturn ==
    /\ fpc = "scan"
    /\ ~Complete(buffer, offset)
    /\ buffer' = SubSeq(buffer, offset + 1, Len(buffer))
    /\ offset' = 0
    /\ fpc' = "idle"
    /\ UNCHANGED <<messagesDecoded, messagesSkipped, stream, frames>>

\* reset().
Reset ==
    /\ fpc = "idle"
    /\ buffer' = <<>>
    /\ messagesDecoded' = 0
    /\ messagesSkipped' = 0
    /\ stream' = <<>>
    /\ frames' = <<>>
    /\ UNCHANGED <<offset, fpc>>

Chunks == UNION {[1..n -> Byte] : n \in 0..MaxStream}

ParserNext ==
    \/ \E chunk \in Chunks : Feed(chunk)
    \/ Scan
    \/ FeedReturn
    \/ Reset

ParserSpec == ParserInit /\ [][ParserNext]_parserVars

-----------------------------------------------------------------------------
\* The bytes of the stream that the buffer no longer holds.
Erased == Len(stream) - Len(buffer)

\* Where the next frame begins.
Reached == Erased + offset

\* The buffer is the part of the stream that has not been erased, and feed() stays
\* inside it ("never throws or reads out of bounds").
BufferIsTail ==
    /\ buffer \in Seq(Byte)
    /\ stream \in Seq(Byte)
    /\ Len(buffer) <= Len(stream)
    /\ \A i \in 1..Len(buffer) : buffer[i] = stream[Erased + i]
    /\ offset \in 0..Len(buffer)
    /\ fpc \in {"idle", "scan"}
    /\ fpc = "idle" => offset = 0

\* "takes any chunk size, buffers a trailing partial record across calls, and returns
\* every complete record found": the frames are the ones the bytes of the stream
\* determine, each beginning where the one before it ends, with none left out once
\* feed() has returned, however the bytes were cut into chunks.
FramesFollowStream ==
    /\ \A k \in 1..Len(frames) :
          /\ frames[k].at = IF k = 1 THEN 0 ELSE frames[k - 1].at + frames[k - 1].size
          /\ Complete(stream, frames[k].at)
          /\ frames[k].size = SizeAt(stream, frames[k].at)
          /\ frames[k].body = BodyAt(stream, frames[k].at)
    /\ Reached = IF frames = <<>> THEN 0 ELSE frames[Len(frames)].at + frames[Len(frames)].size
    /\ fpc = "idle" => ~Complete(stream, Reached)

\* Every frame is counted once, as decoded or as skipped.
FramesCounted ==
    /\ messagesDecoded \in Nat /\ messagesSkipped \in Nat
    /\ messagesDecoded + messagesSkipped = Len(frames)

\* The inductive invariant behind these properties.
ParserInv == BufferIsTail /\ frames \in Seq([at : Nat, size : Nat, body : Seq(Byte)])
                          /\ FramesFollowStream /\ FramesCounted
=============================================================================
