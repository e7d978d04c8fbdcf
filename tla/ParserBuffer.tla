---------------------------- MODULE ParserBuffer ----------------------------
(***************************************************************************)
(* The buffer of the protocol parser (packages/gaussdb-protocol/src/       *)
(* parser.ts): messages are cut out of the chunks of a socket.             *)
(*                                                                         *)
(* The bytes of the stream are its positions 1, 2, ...; a message is the   *)
(* position of its first byte, and its header tells its length (a header   *)
(* cut from anything else tells nothing).  A buffer is a record of its     *)
(* byteLength and of the byte at each offset.  The values of a message     *)
(* that are not copied (Buffer.slice in bytes and parseCopyData) are views *)
(* of the buffer.                                                          *)
(***************************************************************************)
EXTENDS Naturals, Sequences, FiniteSets, FiniteSetsExt, SequencesExt

CONSTANTS
    HeaderLength,   \* HEADER_LENGTH
    Streams,        \* the streams: the lengths of their messages
    MaxChunk,       \* bytes in a chunk
    MaxThrows       \* exceptions out of the callback

ASSUME ParserAssumption ==
    /\ HeaderLength \in Nat \ {0} /\ MaxChunk \in Nat \ {0} /\ MaxThrows \in Nat
    /\ \A s \in Streams : /\ s \in Seq(Nat) /\ s # <<>>
                           /\ \A i \in DOMAIN s : s[i] >= HeaderLength

Junk == 0

VARIABLES
    lengths,                            \* the messages on the wire
    received,                           \* bytes
    buffer, bufferLength, bufferOffset,
    heard,                              \* messages given to the callback
    views,                              \* views of the current buffer: offset and message
    throws, thrown                      \* exceptions; the last call of parse ended in one

vars == <<lengths, received, buffer, bufferLength, bufferOffset, heard, views, throws, thrown>>

\* Where the n-th message begins (the one after the last: where the stream ends).
Start[n \in 1..(Len(lengths) + 1)] ==
    IF n = 1 THEN 1 ELSE Start[n - 1] + lengths[n - 1]
Starts == [n \in DOMAIN lengths |-> Start[n]]
Total == Start[Len(lengths) + 1] - 1
Length(message) == lengths[CHOOSE n \in DOMAIN lengths : Start[n] = message]

\* The messages that are complete among the first n bytes.
Completed(n) == Max({0} \cup {i \in DOMAIN lengths : Start[i + 1] <= n + 1})
Complete(n) == SubSeq(Starts, 1, Completed(n))

emptyBuffer == [byteLength |-> 0, byte |-> <<>>]

Init ==
    /\ lengths \in Streams /\ received = 0
    /\ buffer = emptyBuffer /\ bufferLength = 0 /\ bufferOffset = 0
    /\ heard = <<>> /\ views = {} /\ throws = 0 /\ thrown = FALSE

-----------------------------------------------------------------------------
\* mergeBuffer of a chunk of n bytes, as the buffer, its offset and its length
\* afterwards.

Chunk(n) == [byteLength |-> n, byte |-> [o \in 0..(n - 1) |-> received + 1 + o]]

\* Buffer.copy of length bytes of source to a target; what does not fit is dropped.
Copy(source, from, length, target, to) ==
    [target EXCEPT !.byte =
        [o \in DOMAIN @ |-> IF o \in to..(to + length - 1) THEN source.byte[from + o - to] ELSE @[o]]]

\* Mutation of Doubled: doubled once, whatever is needed.
DoubledOnce(size, needed) == size * 2

\* A byteLength is doubled, and again until it is larger than needed.
Doubled(size, needed) ==
    LET grown[d \in 1..(2 * (size + needed))] == IF needed >= d THEN grown[d * 2] ELSE d
    IN grown[size * 2]

Allocated(size) == [byteLength |-> size, byte |-> [o \in 0..(size - 1) |-> Junk]]

\* Whether the remaining bytes are moved to the beginning of the same buffer.
Reuses(needed) == needed <= buffer.byteLength /\ bufferOffset >= bufferLength

\* Mutation of Moved: the bytes are taken from the beginning.
MovedFromStart(needed) ==
    Copy(buffer, 0, bufferLength,
         IF Reuses(needed) THEN buffer ELSE Allocated(Doubled(buffer.byteLength, needed)), 0)

\* The buffer the remaining bytes are moved to.
Moved(needed) ==
    Copy(buffer, bufferOffset, bufferLength,
         IF Reuses(needed) THEN buffer ELSE Allocated(Doubled(buffer.byteLength, needed)), 0)

Merged(n) ==
    LET needed == bufferLength + n
        moves == needed + bufferOffset > buffer.byteLength
        base == IF moves THEN Moved(needed) ELSE buffer
        offset == IF moves THEN 0 ELSE bufferOffset
    IN IF bufferLength = 0
       THEN [buffer |-> Chunk(n), offset |-> 0, length |-> n, views |-> {}]
       ELSE [buffer |-> Copy(Chunk(n), 0, n, base, offset + bufferLength),
             offset |-> offset, length |-> needed,
             views |-> IF moves /\ ~Reuses(needed) THEN {} ELSE views]

-----------------------------------------------------------------------------
\* parse

\* The message whose header lies at an offset.
HeaderAt(b, o) ==
    LET m == b.byte[o]
    IN IF m \in ToSet(Starts) /\ \A i \in 0..(HeaderLength - 1) : b.byte[o + i] = m + i
       THEN m ELSE Junk
FullLength(m) == IF m = Junk THEN HeaderLength ELSE Length(m)

\* The offsets of the messages that lie in a merged buffer completely.
Parsed(merged) ==
    LET full == merged.offset + merged.length
        from[o \in 0..full] ==
            IF o + HeaderLength > full THEN <<>>
            ELSE LET l == FullLength(HeaderAt(merged.buffer, o))
                 IN IF o + l > full THEN <<>> ELSE <<o>> \o from[o + l]
    IN from[merged.offset]

\* The first k of the messages of a merged buffer are given to the callback.
Hears(merged, k) ==
    heard' = heard \o [i \in 1..k |-> HeaderAt(merged.buffer, Parsed(merged)[i])]
Views(merged, k) ==
    LET offsets == SubSeq(Parsed(merged), 1, k)
    IN merged.views
       \cup {[offset |-> o, message |-> HeaderAt(merged.buffer, o)] : o \in ToSet(offsets)}

\* What is kept after the messages before an offset.
Keeps(merged, offset) ==
    LET full == merged.offset + merged.length
    IN IF offset = full
       THEN buffer' = emptyBuffer /\ bufferLength' = 0 /\ bufferOffset' = 0
       ELSE buffer' = merged.buffer /\ bufferLength' = full - offset /\ bufferOffset' = offset

Parse(n) ==
    LET merged == Merged(n)
        offsets == Parsed(merged)
        next == IF offsets = <<>> THEN merged.offset
                ELSE Last(offsets) + FullLength(HeaderAt(merged.buffer, Last(offsets)))
    IN /\ received + n <= Total /\ received' = received + n
       /\ Hears(merged, Len(offsets)) /\ Keeps(merged, next)
       /\ views' = IF bufferLength' = 0 THEN {} ELSE Views(merged, Len(offsets))
       /\ thrown' = FALSE /\ UNCHANGED <<lengths, throws>>

\* The callback (or an unknown authentication request) throws at the k-th
\* message: nothing is noted of those before it, which will be heard again.
ParseThrows(n, k) ==
    LET merged == Merged(n)
    IN /\ throws < MaxThrows /\ throws' = throws + 1 /\ thrown' = TRUE
       /\ received + n <= Total /\ received' = received + n
       /\ k <= Len(Parsed(merged)) /\ Hears(merged, k)
       /\ views' = Views(merged, k)
       /\ buffer' = merged.buffer /\ bufferLength' = merged.length
       /\ bufferOffset' = merged.offset /\ UNCHANGED lengths

Next ==
    \E n \in 1..MaxChunk : Parse(n) \/ \E k \in 1..MaxChunk : ParseThrows(n, k)

Spec == Init /\ [][Next]_vars

-----------------------------------------------------------------------------
\* Type invariant.
WithinBuffer ==
    /\ received \in 0..Total /\ throws \in 0..MaxThrows /\ thrown \in BOOLEAN
    /\ DOMAIN buffer.byte = 0..(buffer.byteLength - 1)
    /\ bufferOffset + bufferLength <= buffer.byteLength
    /\ ToSet(heard) \subseteq ToSet(Starts)

\* What is kept is exactly the received bytes that are not parsed yet, wherever
\* mergeBuffer has moved them.
RestKept ==
    \A i \in 0..(bufferLength - 1) :
        buffer.byte[bufferOffset + i] = received - bufferLength + 1 + i

\* The buffer does not grow with the stream, only with its largest message and,
\* when callbacks throw, with the chunks that wait to be parsed again.
BufferBounded ==
    buffer.byteLength <= 4 * (Max(ToSet(lengths)) + (throws + 1) * MaxChunk - 1)

\* However the stream is cut into chunks, each message is heard once, in order, as
\* soon as it is complete (parse), and the rest is kept (mergeBuffer).  An
\* exception in the callback loses no message: what it cut off is heard with the
\* next chunk, after what came before it in the first, which is heard again.
MessagesExact ==
    /\ throws = 0 => heard = Complete(received)
    /\ ~thrown => ToSet(heard) = ToSet(Complete(received))
    /\ RestKept /\ BufferBounded

\* "We can move the relevant part to the beginning of the buffer" (mergeBuffer):
\* what else lies there matters to nobody.  But the values of messages heard
\* earlier may be views of it.
ViewsStable ==
    \A v \in views : \A i \in HeaderLength..(FullLength(v.message) - 1) :
        buffer.byte[v.offset + i] = v.message + i
=============================================================================
