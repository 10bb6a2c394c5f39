------------------------------ MODULE Protocol ------------------------------
(***************************************************************************)
(* The framing of the eVodnik protocol (protocol.py) and the reader that   *)
(* both connections of the proxy use (read_stream of proxy.py): bytes of a *)
(* stream arrive in chunks of any size, the parser makes frames of them.   *)
(* The peer and the network are not under src/; the stream they deliver is *)
(* that of some frames, whole, cut off or with one byte changed.           *)
(* An operator named like another with a suffix, just before it, is the    *)
(* slip a run must notice if it took the other's place.                    *)
(***************************************************************************)
EXTENDS Integers, SequencesExt

CONSTANTS
    MaxFrameSize,  \* MAX_FRAME_SIZE
    FrameTimeout,  \* Settings.frame_timeout, in ticks
    Tags,          \* the tags of local requests
    Memories,      \* what the 128 bytes of the device's memory may be
    Payloads,      \* the payloads of messages the proxy does not know
    Chunks,        \* bound: sizes of a chunk that is not all that is left
    MaxSent,       \* bound: frames of a stream
    MaxDamaged,    \* bound: bytes of a stream that is cut off or changed
    Noise,         \* the bytes a changed byte may become
    None           \* Python's None

START == \hC0
END == \hC1
ESCAPE == \h7D
DeviceAddress == 1
Codes == [open |-> \hC7, closed |-> \hC8]

Byte  == 0..255
Bytes == Seq(Byte)
WordMax == \hFFFF
Frame == [destination : Byte, source : Byte, opcode : Byte, address : Nat, length : Byte,
          payload : Bytes, wire : Bytes]

ASSUME ConstantsAssumption ==
    /\ MaxFrameSize \in Nat \ {0} /\ FrameTimeout \in Nat
    /\ Tags \subseteq Byte /\ Noise \subseteq Byte
    /\ Memories \subseteq [1..128 -> Byte]
    /\ Payloads \subseteq Bytes /\ \A p \in Payloads : Len(p) \in Byte
    /\ Chunks \subseteq Nat /\ MaxSent \in Nat /\ MaxDamaged \in Nat

ASSUME NamesAssumption ==
    None \notin Nat /\ None \notin Bytes /\ None \notin Frame /\ None \notin DOMAIN Codes

VARIABLES
    memory,     \* the memory of the device
    sent,       \* the frames the peer has sent
    stream,     \* the bytes that arrive
    taken,      \* how many of them were fed to the parser
    parser,     \* Parser: its buffer and whether an escape is open
    delivered,  \* the frames the reader has yielded
    left,       \* the time until the deadline, or None
    age,        \* (history) the time since the first byte of the partial frame
    state       \* "reading", "ended", "invalid" (ProtocolError) or "late"

vars == <<memory, sent, stream, taken, parser, delivered, left, age, state>>

-----------------------------------------------------------------------------
(* Encoding and decoding.  A loop over bytes is a fold of the function that *)
(* is its body.                                                             *)

Fold(step, base, seq) ==
    LET f[n \in 0..Len(seq)] == IF n = 0 THEN base ELSE step[f[n - 1]][seq[n]]
    IN f[Len(seq)]

\* a ^ b of two words, and byte ^ 0x20.
Xor(a, b) ==
    LET At(w) == w * ((a \div w + b \div w) % 2)
    IN At(1) + At(2) + At(4) + At(8) + At(16) + At(32) + At(64) + At(128)
         + At(256) + At(512) + At(1024) + At(2048) + At(4096) + At(8192) + At(16384) + At(32768)
Flip(byte) == IF (byte \div 32) % 2 = 0 THEN byte + 32 ELSE byte - 32

\* Numbers are written with their high byte first, but for those of the memory.
Low(number)  == number % 256
High(number) == number \div 256
Joined(high, low) == high * 256 + low

\* CRC-16/X-25: the register after one more byte, in eight shifts.
Shift == [v \in Nat |-> IF v % 2 = 1 THEN Xor(v \div 2, \h8408) ELSE v \div 2]
CrcByte == [value \in Nat |-> [byte \in Byte |->
    Shift[Shift[Shift[Shift[Shift[Shift[Shift[Shift[Xor(value, byte)]]]]]]]]]]
Crc16(data) == WordMax - Fold(CrcByte, WordMax, data)

CheckNever(body) == TRUE
Check(body) ==
    LET n == Len(body)
    IN Crc16(SubSeq(body, 1, n - 2)) = Joined(body[n - 1], body[n])

\* The bytes between the delimiters without their escapes; None if one of them
\* is a delimiter or an escape is left open.
Unescaping == [open : BOOLEAN, bad : BOOLEAN, body : Bytes]
UnescapeByte == [a \in Unescaping |-> [byte \in Byte |->
    IF a.open THEN [open |-> FALSE, bad |-> a.bad, body |-> Append(a.body, Flip(byte))]
    ELSE [open |-> byte = ESCAPE, bad |-> a.bad \/ byte \in {START, END},
          body |-> IF byte = ESCAPE THEN a.body ELSE Append(a.body, byte)]]]
NothingYet == [open |-> FALSE, bad |-> FALSE, body |-> <<>>]
Inner(wire) == Fold(UnescapeByte, NothingYet, SubSeq(wire, 2, Len(wire) - 1))
Unescaped(wire) == IF Inner(wire).open \/ Inner(wire).bad THEN None ELSE Inner(wire).body

Delimited(wire) == wire # <<>> /\ wire[1] = START /\ wire[Len(wire)] = END

\* decode: a Frame, or None for a ProtocolError.
Decode(wire) ==
    LET body == Unescaped(wire)
    IN IF Len(wire) > MaxFrameSize \/ ~Delimited(wire) THEN None
       ELSE IF body = None THEN None
       ELSE IF Len(body) < 10 \/ ~Check(body) THEN None
       ELSE [destination |-> body[1], source |-> body[2], opcode |-> body[3],
             address |-> Joined(Joined(Joined(body[4], body[5]), body[6]), body[7]),
             length |-> body[8], payload |-> SubSeq(body, 9, Len(body) - 2), wire |-> wire]

EscapeByte == [wire \in Bytes |-> [byte \in Byte |->
    wire \o IF byte \in {START, END, ESCAPE} THEN <<ESCAPE, Flip(byte)>> ELSE <<byte>>]]
Escaped(bytes) == Fold(EscapeByte, <<>>, bytes)

\* encode; it raises (None) if the result is too long.
Body(destination, source, opcode, address, length, payload) ==
    <<destination, source, opcode, High(High(High(address))), Low(High(High(address))),
      Low(High(address)), Low(address), length>> \o payload
Wire(destination, source, opcode, address, length, payload) ==
    LET body == Body(destination, source, opcode, address, length, payload)
        crc  == Crc16(body)
    IN <<START>> \o Escaped(body \o <<High(crc), Low(crc)>>) \o <<END>>
Encode(destination, source, opcode, address, length, payload) ==
    Decode(Wire(destination, source, opcode, address, length, payload))

ReadStatus(tag) == Encode(DeviceAddress, tag, \h31, \h20, 16, <<>>)
ReadSnapshot(tag) == Encode(DeviceAddress, tag, \h31, 0, 128, <<>>)
SetValve(tag, valve) == Encode(DeviceAddress, tag, \h20, \h1A, 2, <<0, Codes[valve]>>)

\* Frame.valve_command and the valve position of a status.
Named(code) == IF \E v \in DOMAIN Codes : Codes[v] = code
               THEN CHOOSE v \in DOMAIN Codes : Codes[v] = code ELSE None
ValveCommand(frame) ==
    IF frame.opcode = \h20 /\ frame.address = \h1A /\ frame.length = 2 /\ Len(frame.payload) = 2
    THEN IF frame.payload[1] = 0 THEN Named(frame.payload[2]) ELSE None
    ELSE None

\* Frame.matches.
MatchesTag(frame, request) ==
    frame.destination = request.source /\ frame.opcode = request.opcode
Matches(frame, request) ==
    /\ frame.destination = request.source /\ frame.source = request.destination
    /\ frame.opcode = request.opcode
    /\ request.opcode \in {\h31, \h41} /\ request.payload = <<>> =>
          /\ frame.address = request.address /\ frame.length = request.length
          /\ Len(frame.payload) = frame.length

\* status_values: the position and the counter, or None.
StatusStart(frame) == IF frame.address = 0 THEN 32 ELSE 0
StatusValues(frame) ==
    LET p == frame.payload
        counter == Joined(Joined(Joined(p[52], p[51]), p[50]), p[49])
        valve == Named(p[StatusStart(frame) + 14])
    IN IF frame.opcode # \h31 \/ Len(p) # frame.length THEN None
       ELSE IF frame.address = \h20 /\ frame.length = 16 THEN <<valve, None>>
       ELSE IF frame.address = 0 /\ frame.length = 128 THEN <<valve, counter>>
       ELSE None

-----------------------------------------------------------------------------
(* The peer: requests of the vendor, answers of the device.                *)

\* What encode does not raise for.
Frames(encoded) == encoded \ {None}

Reads == Frames({ReadStatus(tag) : tag \in Tags} \cup {ReadSnapshot(tag) : tag \in Tags})
CommandsOf == [v \in DOMAIN Codes |-> Frames({SetValve(tag, v) : tag \in Tags})]
Commands == UNION {CommandsOf[v] : v \in DOMAIN Codes}
\* A write of something else, with any data.
Unknown == Frames({Encode(DeviceAddress, tag, \h20, \h50, Len(p), p) : tag \in Tags, p \in Payloads})

\* The longest frame there may be, and one that is two bytes too long.
Zeros(n) == [i \in 1..n |-> 0]
Longest == Frames({Encode(DeviceAddress, tag, \h30, \h50, 0, Zeros(MaxFrameSize - 12)) : tag \in Tags})
Oversized == {Wire(DeviceAddress, tag, \h30, \h50, 0, Zeros(MaxFrameSize - 10)) : tag \in Tags}

\* The device answers a read with a part of its memory, others with no data.
Answer(request, m) ==
    IF request.opcode = \h31
    THEN Encode(request.source, DeviceAddress, \h31, request.address, request.length,
                SubSeq(m, request.address + 1, request.address + request.length))
    ELSE Encode(request.source, DeviceAddress, request.opcode, 0, 0, <<>>)

Answers(m) == Frames({Answer(r, m) : r \in Reads \cup Commands})

AddWire == [bytes \in Bytes |-> [frame \in Frame |-> bytes \o frame.wire]]
Wires(frames) == Fold(AddWire, <<>>, frames)

Damaged(bytes) ==
    {SubSeq(bytes, 1, n) : n \in 0..(Len(bytes) - 1)}
      \cup {ReplaceAt(bytes, i, b) : i \in DOMAIN bytes, b \in Noise}

\* A new connection.
Init ==
    /\ memory \in Memories
    /\ sent \in SeqOf(Answers(memory) \cup Longest, 1) \cup SeqOf(Commands \cup Unknown, MaxSent)
    /\ LET whole == Wires(sent)
       IN stream \in {whole} \cup (IF Len(whole) > MaxDamaged THEN {} ELSE Damaged(whole))
                             \cup (IF sent = <<>> THEN Oversized ELSE {})
    /\ taken = 0 /\ delivered = <<>>
    /\ parser = [buffer |-> <<>>, escaped |-> FALSE]
    /\ left = None /\ age = 0 /\ state = "reading"

-----------------------------------------------------------------------------
(* The parser and its reader.                                              *)

Pending(p) == p.buffer # <<>>

TooLongByOne(buffer) == Len(buffer) > MaxFrameSize + 1
TooLong(buffer) == Len(buffer) > MaxFrameSize

\* One round of the loop of feed; `ok` is FALSE once it has raised.
Feeding == [buffer : Bytes, escaped : BOOLEAN, frames : Seq(Frame), ok : BOOLEAN]
FeedByte == [p \in Feeding |-> [byte \in Byte |->
    LET buffer == Append(p.buffer, byte)
        frame  == Decode(buffer)
        Into(b, e) == [p EXCEPT !.buffer = b, !.escaped = e]
        Raise  == [p EXCEPT !.ok = FALSE]
    IN IF ~p.ok THEN p
       ELSE IF ~Pending(p) THEN IF byte = START THEN Into(buffer, FALSE) ELSE Raise
       ELSE IF TooLong(buffer) THEN Raise
       ELSE IF p.escaped THEN Into(buffer, FALSE)
       ELSE IF byte = ESCAPE THEN Into(buffer, TRUE)
       ELSE IF byte = START THEN Raise
       ELSE IF byte # END THEN Into(buffer, FALSE)
       ELSE IF frame = None THEN Raise
       ELSE [Into(<<>>, FALSE) EXCEPT !.frames = Append(@, frame)]]]

\* Parser.feed; an escape pair may be split between two chunks.
Begun == [buffer |-> parser.buffer, escaped |-> parser.escaped, frames |-> <<>>, ok |-> TRUE]
Feed(data) == Fold(FeedByte, Begun, data)

\* The deadline belongs to the partial frame: a new one begins when there was
\* none or when this chunk completed a frame.
DeadlineRenewed(p) == IF Pending(p) THEN FrameTimeout ELSE None
Deadline(p) ==
    IF ~Pending(p) THEN None ELSE IF left = None \/ p.frames # <<>> THEN FrameTimeout ELSE left

\* A chunk arrives.  If the parser raises, the frames it completed in this
\* chunk are lost with the rest of it.
Receive(n) ==
    /\ state = "reading" /\ n \in 1..(Len(stream) - taken)
    /\ \E p \in {Feed(SubSeq(stream, taken + 1, taken + n))} :
       IF ~p.ok
       THEN state' = "invalid" /\ UNCHANGED <<taken, parser, delivered, left, age>>
       ELSE /\ taken' = taken + n
            /\ parser' = [buffer |-> p.buffer, escaped |-> p.escaped]
            /\ delivered' = delivered \o p.frames
            /\ left' = Deadline(p)
            /\ age' = IF Pending(parser) /\ p.frames = <<>> THEN age ELSE 0
            /\ UNCHANGED state
    /\ UNCHANGED <<memory, sent, stream>>

\* Parser.finish.
FinishUnchecked == "ended"
Finish == IF Pending(parser) THEN "invalid" ELSE "ended"

\* The peer has closed the connection.
EndOfStream ==
    /\ state = "reading" /\ taken = Len(stream)
    /\ state' = Finish
    /\ UNCHANGED <<memory, sent, stream, taken, parser, delivered, left, age>>

\* Time passes only while a frame is partial; else nothing depends on it.
Tick ==
    /\ state = "reading" /\ left # None
    /\ IF left = 0 THEN state' = "late" /\ UNCHANGED <<left, age>>
       ELSE left' = left - 1 /\ age' = age + 1 /\ UNCHANGED state
    /\ UNCHANGED <<memory, sent, stream, taken, parser, delivered>>

Next == EndOfStream \/ Tick \/ \E n \in Chunks \cup {Len(stream) - taken} : Receive(n)

Spec == Init /\ [][Next]_vars

-----------------------------------------------------------------------------
(* Properties.                                                             *)

\* What the reader keeps is bounded, and has the form of a frame's beginning.
TypeOK ==
    /\ Len(parser.buffer) <= MaxFrameSize
    /\ Pending(parser) => parser.buffer[1] = START
    /\ parser.escaped \in BOOLEAN /\ left \in 0..FrameTimeout \cup {None}
    /\ state \in {"reading", "ended", "invalid", "late"}

\* Frames come out as they were sent, in order, however TCP splits or
\* coalesces them and whichever byte was changed (decode, feed).
OnlySent == IsPrefix(delivered, sent)

\* "Their original bytes are preserved": no byte that was accepted is lost or
\* doubled, a stream that ends cleanly was delivered to the last byte, and "The
\* incremental parser accepts split frames, coalesced frames, and split escape
\* pairs": a stream of frames within the size limit is never refused.
Lossless ==
    /\ Wires(delivered) \o parser.buffer = SubSeq(stream, 1, taken)
    /\ state = "ended" => Wires(delivered) = stream
    /\ stream = Wires(sent) => state # "invalid"

\* "Partial frame deadlines are absolute, including trickled bytes": a frame
\* has FrameTimeout from its first byte on, no more and no less (read_stream).
AbsoluteDeadline ==
    state = "reading" /\ Pending(parser) => left # None /\ age + left = FrameTimeout

\* A frame answers a read of the proxy only if it is the device's answer to
\* just this read, and then it means what is in the device's memory; a frame is
\* taken for a valve command exactly if it is one, for that position
\* (Frame.matches, status_values, Frame.valve_command).
Recognized ==
    \A i \in DOMAIN delivered :
        /\ \A r \in Reads : Matches(delivered[i], r) =>
              /\ delivered[i] = Answer(r, memory)
              /\ StatusValues(delivered[i]) =
                   <<Named(memory[46]),
                     IF r.length = 16 THEN None
                     ELSE Joined(Joined(Joined(memory[52], memory[51]), memory[50]), memory[49])>>
        /\ \A v \in DOMAIN Codes :
              ValveCommand(delivered[i]) = v <=> delivered[i] \in CommandsOf[v]
=============================================================================
