--------------------------- MODULE EncryptedStream ---------------------------
(***************************************************************************)
(* One direction of a tunnel between two `EncryptedStream`s               *)
(* (crates/crypto/src/stream.rs): the fields a stream uses to write, a    *)
(* transport that carries bytes in order, and the fields the peer's stream *)
(* uses to read.  The two directions of a stream share no mutable field,  *)
(* so one direction is the whole protocol.                                *)
(*                                                                         *)
(* A byte on the wire is named by its position in the writer's output: the *)
(* first byte ever assembled is 1.  `frames` records what those bytes are; *)
(* a buffer is a sequence of positions, so a byte lost, repeated, reordered*)
(* or read under the wrong header is visible.  A plaintext byte is named   *)
(* in the same way by its position in what the caller wrote.               *)
(***************************************************************************)
EXTENDS Naturals, Sequences

CONSTANTS
    LenSize,        \* size of a length field on the wire (2: a u16)
    TagSize,        \* size of the authentication tag (16)
    EncLimit,       \* enc_limit: after this many plaintext bytes, clear text
    PadMax,         \* padding.max
    PadRate,        \* padding.rate, a percentage
    MaxPacket,      \* MAX_PACKET_SIZE: a longer write is cut to this
    PipeCap,        \* bytes the transport holds
    MaxBytes        \* bound: plaintext bytes written in a behaviour

ASSUME StreamAssumption ==
    /\ LenSize \in Nat \ {0} /\ TagSize \in Nat \ {0}
    /\ EncLimit \in Nat /\ PadMax \in Nat /\ PadRate \in 0..100
    /\ MaxPacket \in Nat \ {0} /\ PipeCap \in Nat \ {0} /\ MaxBytes \in Nat

VARIABLES
    frames,         \* history: the frames assembled, in order
    wired,          \* history: wire bytes assembled
    write_buffer,   \* bytes of the last frame, as wire positions
    write_pos,      \* how many of them the transport took
    written,        \* plaintext bytes assembled
    write_nonce,    \* write_cipher's nonce, as an offset from its first value
    writer,         \* "open", "closing" (poll_shutdown began), "closed", "dead"
    pipe,           \* bytes in the transport
    fin,            \* no byte will follow those in the pipe
    read_state,     \* where the reader is in a frame, with the variant's fields
    read_buffer,    \* wire bytes of a part, or its plaintext once `Ready`
    readed,         \* plaintext bytes of the frames read
    read_nonce,     \* read_cipher's nonce, as an offset from its first value
    decoded,        \* history: the number of headers decoded
    delivered,      \* plaintext given to the caller of poll_read
    reader          \* "reading", or how poll_read ended: "eof", "short", "invalid"

writeVars == <<frames, wired, write_buffer, write_pos, written, write_nonce, writer>>
readVars == <<read_state, read_buffer, readed, read_nonce, decoded, delivered, reader>>
vars == <<writeVars, pipe, fin, readVars>>
-----------------------------------------------------------------------------
Lesser(a, b) == IF a < b THEN a ELSE b
Greater(a, b) == IF a < b THEN b ELSE a

(* The n bytes that follow position `from`. *)
Run(from, n) == [i \in 1..n |-> from + i]

(* DataPadding::needed *)
PadNeeded == PadMax > 0 /\ PadRate > 0

(* The padding sizes assemble_data_to_buffer may draw for `len` bytes:     *)
(* gen_range excludes its upper end, and an empty range is not drawn from. *)
Paddings(len) ==
    LET paddingMax == Lesser(PadMax, (PadRate * len) \div 100)
    IN  IF PadNeeded /\ paddingMax > 0 THEN 0..(paddingMax - 1) ELSE {0}

(* A frame is encrypted, header and data, while the bytes before it do not *)
(* exceed the limit; the writer asks with `written`, the reader `readed`.  *)
Encrypted(count) == count <= EncLimit

Tag(enc) == IF enc THEN TagSize ELSE 0
HeaderLen(enc) == LenSize + (IF PadNeeded THEN LenSize ELSE 0) + Tag(enc)
WireLen(f) == HeaderLen(f.enc) + f.pad + f.size + Tag(f.enc)
DataStart(f) == f.start + HeaderLen(f.enc) + f.pad

(* Cipher::inc_nonce after a header, and after the data that follows it.   *)
HeaderInc(pad) == Greater(pad, 1)
AfterHeader(nonce, enc, pad) == IF enc THEN nonce + HeaderInc(pad) ELSE nonce
AfterDataNoInc(nonce, enc) == nonce                              \* fault
AfterData(nonce, enc) == IF enc THEN nonce + 1 ELSE nonce
AfterFrame(f) == AfterData(AfterHeader(f.nonce, f.enc, f.pad), f.enc)

(* ReadState: the variant and its fields, 0 where the variant has none.    *)
AtHeader == [at |-> "Header", pad |-> 0, size |-> 0, pos |-> 0]
AtData(size) == [at |-> "Data", pad |-> 0, size |-> size, pos |-> 0]
AtPadding(pad, size) == [at |-> "Padding", pad |-> pad, size |-> size, pos |-> 0]
AtReady(pos) == [at |-> "Ready", pad |-> 0, size |-> 0, pos |-> pos]

Init ==
    /\ frames = <<>> /\ wired = 0 /\ written = 0 /\ write_nonce = 0
    /\ write_buffer = <<>> /\ write_pos = 0 /\ writer = "open"
    /\ pipe = <<>> /\ fin = FALSE
    /\ read_state = AtHeader
    /\ read_buffer = <<>> /\ readed = 0 /\ read_nonce = 0 /\ decoded = 0
    /\ delivered = <<>> /\ reader = "reading"
-----------------------------------------------------------------------------
(* The writing half.  The transport takes any number of the bytes offered, *)
(* up to its room; taking fewer than all of them is Poll::Pending.         *)

Unsent == Len(write_buffer) - write_pos
Room == PipeCap - Len(pipe)
Accepts(n) == n <= Room

(* poll_write_buffer: the transport takes n bytes of the buffer; when it   *)
(* has taken them all the buffer is cleared.                               *)
PollWriteBuffer(n) ==
    /\ pipe' = pipe \o SubSeq(write_buffer, write_pos + 1, write_pos + n)
    /\ IF n = Unsent
       THEN write_buffer' = <<>> /\ write_pos' = 0
       ELSE write_buffer' = write_buffer /\ write_pos' = write_pos + n

(* poll_flush; also poll_write when it returns Pending, its old buffer not *)
(* yet taken whole: nothing new is assembled then.                         *)
Flush(n) ==
    /\ writer = "open" /\ n \in 1..Unsent /\ Accepts(n)
    /\ PollWriteBuffer(n)
    /\ UNCHANGED <<frames, wired, written, write_nonce, writer, fin, readVars>>

(* assemble_data_to_buffer: the frame for `len` more plaintext bytes.      *)
NewFrameLateLimit(len, pad) ==           \* fault: written counted too early
    [start |-> wired, off |-> written, size |-> len, pad |-> pad,
     enc |-> Encrypted(written + len), nonce |-> write_nonce]
NewFrame(len, pad) ==
    [start |-> wired, off |-> written, size |-> len, pad |-> pad,
     enc |-> Encrypted(written), nonce |-> write_nonce]

(* poll_write with a caller's buffer of `want` bytes, when the transport   *)
(* takes the rest of the old buffer and k bytes of the new frame: the call *)
(* returns Ok for the whole frame even if k is 0.                          *)
AssembleOverOld(f, k) ==                      \* fault: old bytes overwritten
    LET frame == Run(f.start, WireLen(f))
    IN  /\ pipe' = pipe \o SubSeq(frame, 1, k)
        /\ write_buffer' = frame /\ write_pos' = k
Assemble(f, k) ==
    LET frame == Run(f.start, WireLen(f))
    IN  /\ pipe' = pipe \o SubSeq(write_buffer, write_pos + 1, Len(write_buffer))
                        \o SubSeq(frame, 1, k)
        /\ IF k = Len(frame)
           THEN write_buffer' = <<>> /\ write_pos' = 0
           ELSE write_buffer' = frame /\ write_pos' = k

PollWrite(want, pad, k) ==
    LET len == Lesser(want, MaxPacket)
        f == NewFrame(len, pad)
    IN  /\ writer = "open" /\ want > 0 /\ written + len <= MaxBytes
        /\ pad \in Paddings(len)
        /\ k \in 0..WireLen(f) /\ Accepts(Unsent + k)
        /\ Assemble(f, k)
        /\ frames' = Append(frames, f)
        /\ wired' = wired + WireLen(f)
        /\ written' = written + len
        /\ write_nonce' = AfterFrame(f)
        /\ UNCHANGED <<writer, fin, readVars>>

(* poll_shutdown: the buffer is flushed first, the transport closed when   *)
(* it is empty.                                                            *)
ShutdownEarly(n) ==                      \* fault: closed before the flush ends
    /\ writer \in {"open", "closing"} /\ n \in 0..Unsent /\ Accepts(n)
    /\ PollWriteBuffer(n)
    /\ writer' = "closed" /\ fin' = TRUE
    /\ UNCHANGED <<frames, wired, written, write_nonce, readVars>>
ShutdownOnce(n) ==                       \* fault: not resumed after Pending
    /\ writer = "open" /\ n \in 0..Unsent /\ Accepts(n)
    /\ PollWriteBuffer(n)
    /\ writer' = IF n = Unsent THEN "closed" ELSE "closing"
    /\ fin' = (n = Unsent)
    /\ UNCHANGED <<frames, wired, written, write_nonce, readVars>>
Shutdown(n) ==
    /\ writer \in {"open", "closing"} /\ n \in 0..Unsent /\ Accepts(n)
    /\ PollWriteBuffer(n)
    /\ writer' = IF n = Unsent THEN "closed" ELSE "closing"
    /\ fin' = (n = Unsent)
    /\ UNCHANGED <<frames, wired, written, write_nonce, readVars>>

(* The writing process ends: what is in its buffer is lost, what is in the *)
(* transport is still delivered, then end of stream.                       *)
Die ==
    /\ writer \in {"open", "closing"}
    /\ writer' = "dead" /\ fin' = TRUE
    /\ UNCHANGED <<frames, wired, written, write_nonce, write_buffer, write_pos,
                   pipe, readVars>>
-----------------------------------------------------------------------------
(* The reading half.  Each action is one of the blocks of poll_read, the   *)
(* points where a poll that found too few bytes is entered again.          *)

(* The part poll_read_exact is filling, and its size.                      *)
PartLen ==
    CASE read_state.at = "Header"  -> HeaderLen(Encrypted(readed))
      [] read_state.at = "Padding" -> read_state.pad
      [] OTHER                     -> read_state.size + Tag(Encrypted(readed))

(* poll_read_exact takes n bytes of the transport. *)
Missing == PartLen - Len(read_buffer)
Fill(n) ==
    /\ reader = "reading" /\ n \in 0..Missing /\ n <= Len(pipe)
    /\ n = 0 => Missing = 0
    /\ pipe' = SubSeq(pipe, n + 1, Len(pipe))
Filled(n) == read_buffer \o SubSeq(pipe, 1, n)

(* What a complete header tells.  A sealed header opens only if it is a    *)
(* whole header, encrypted under the reader's nonce; a clear one is read   *)
(* whatever its bytes are.                                                 *)
HeadersIn(buf) ==
    {k \in DOMAIN frames :
        /\ buf = Run(frames[k].start, HeaderLen(frames[k].enc))
        /\ frames[k].enc = Encrypted(readed)
        /\ frames[k].enc => frames[k].nonce = read_nonce}
HeaderValues(buf) ==
    IF HeadersIn(buf) # {} \/ Encrypted(readed)
    THEN {[pad |-> frames[k].pad, size |-> frames[k].size] : k \in HeadersIn(buf)}
    ELSE [pad : 0..PadMax, size : 1..MaxPacket]

ReadHeader(n) ==
    /\ read_state.at = "Header" /\ Fill(n)
    /\ IF Len(Filled(n)) < PartLen
       THEN /\ read_buffer' = Filled(n)
            /\ UNCHANGED <<read_state, read_nonce, decoded, reader>>
       ELSE /\ read_buffer' = <<>> /\ decoded' = decoded + 1
            /\ IF HeaderValues(Filled(n)) = {}
               THEN reader' = "invalid" /\ UNCHANGED <<read_state, read_nonce>>
               ELSE \E h \in HeaderValues(Filled(n)) :
                    /\ read_state' = IF PadNeeded THEN AtPadding(h.pad, h.size)
                                     ELSE AtData(h.size)
                    /\ read_nonce' = AfterHeader(read_nonce, Encrypted(readed), h.pad)
                    /\ UNCHANGED reader
    /\ UNCHANGED <<writeVars, fin, readed, delivered>>

ReadPadding(n) ==
    /\ read_state.at = "Padding" /\ Fill(n)
    /\ IF Len(Filled(n)) < PartLen
       THEN read_buffer' = Filled(n) /\ UNCHANGED read_state
       ELSE read_buffer' = <<>> /\ read_state' = AtData(read_state.size)
    /\ UNCHANGED <<writeVars, fin, readed, read_nonce, decoded, delivered, reader>>

(* poll_read gives its caller m bytes of the plaintext in the buffer, from *)
(* pos on, and goes back to the header when none is left.                  *)
HandOutAgain(plain, pos, m) ==         \* fault: pos set instead of advanced
    /\ delivered' = delivered \o SubSeq(plain, pos + 1, pos + m)
    /\ IF pos + m = Len(plain)
       THEN read_buffer' = <<>> /\ read_state' = AtHeader
       ELSE read_buffer' = plain /\ read_state' = AtReady(m)
HandOutOnce(plain, pos, m) ==          \* fault: what is left over is dropped
    /\ delivered' = delivered \o SubSeq(plain, pos + 1, pos + m)
    /\ read_buffer' = <<>> /\ read_state' = AtHeader
HandOut(plain, pos, m) ==
    /\ delivered' = delivered \o SubSeq(plain, pos + 1, pos + m)
    /\ IF pos + m = Len(plain)
       THEN read_buffer' = <<>> /\ read_state' = AtHeader
       ELSE read_buffer' = plain /\ read_state' = AtReady(pos + m)

(* The data parts a buffer may be, and the plaintext it stands for: bytes  *)
(* that are not one whole data part have no plaintext, written as zeros.   *)
DataIn(buf) ==
    {k \in DOMAIN frames :
        /\ frames[k].enc = Encrypted(readed)
        /\ buf = Run(DataStart(frames[k]), frames[k].size + Tag(frames[k].enc))
        /\ frames[k].enc => AfterHeader(frames[k].nonce, TRUE, frames[k].pad) = read_nonce}
Plain(buf) ==
    IF DataIn(buf) = {} THEN [i \in 1..Len(buf) |-> 0]
    ELSE LET k == CHOOSE x \in DataIn(buf) : TRUE
         IN  Run(frames[k].off, frames[k].size)

ReadData(n, m) ==
    /\ read_state.at = "Data" /\ Fill(n)
    /\ LET buf == Filled(n)
           opened == ~Encrypted(readed) \/ DataIn(buf) # {}
       IN  IF Len(buf) < PartLen
           THEN /\ m = 0 /\ read_buffer' = buf
                /\ UNCHANGED <<read_state, readed, read_nonce, delivered, reader>>
           ELSE IF opened
           THEN /\ m \in 1..Len(Plain(buf))
                /\ HandOut(Plain(buf), 0, m)
                /\ readed' = readed + read_state.size
                /\ read_nonce' = AfterData(read_nonce, Encrypted(readed))
                /\ UNCHANGED reader
           ELSE /\ m = 0 /\ reader' = "invalid"
                /\ UNCHANGED <<read_state, read_buffer, readed, read_nonce, delivered>>
    /\ UNCHANGED <<writeVars, fin, decoded>>

(* poll_read with plaintext left over from an earlier call. *)
ReadReady(m) ==
    /\ reader = "reading" /\ read_state.at = "Ready"
    /\ m \in 1..(Len(read_buffer) - read_state.pos)
    /\ HandOut(read_buffer, read_state.pos, m)
    /\ UNCHANGED <<writeVars, pipe, fin, readed, read_nonce, decoded, reader>>

(* poll_read_exact reads 0 bytes: an error inside a part, a clean end of   *)
(* stream where a part would begin.                                        *)
ReadEof ==
    /\ reader = "reading" /\ read_state.at # "Ready"
    /\ fin /\ pipe = <<>> /\ Missing > 0
    /\ reader' = IF read_buffer = <<>> THEN "eof" ELSE "short"
    /\ UNCHANGED <<writeVars, pipe, fin, read_state, read_buffer, readed, read_nonce,
                   decoded, delivered>>
-----------------------------------------------------------------------------
Write == \E want \in 1..(MaxPacket + 1), pad \in 0..PadMax :
            \E k \in 0..PipeCap : PollWrite(want, pad, k)
FlushSome == \E n \in 1..PipeCap : Flush(n)
ShutdownSome == \E n \in 0..PipeCap : Shutdown(n)
ReadSome == \/ \E n \in 0..PipeCap : ReadHeader(n)
            \/ \E n \in 0..PipeCap : ReadPadding(n)
            \/ \E n \in 0..PipeCap, m \in 0..MaxPacket : ReadData(n, m)
            \/ \E m \in 1..MaxPacket : ReadReady(m)
            \/ ReadEof

(* The stream ended for the reader. *)
Ended == reader # "reading" /\ UNCHANGED vars

Next == Write \/ FlushSome \/ ShutdownSome \/ Die \/ ReadSome \/ Ended

(* copy_bidirectional flushes a writer before it waits for more to copy,   *)
(* polls a shutdown it began until it ends, and polls its reader whenever  *)
(* bytes arrive.  Nothing obliges the caller to write or to shut down.     *)
Fairness ==
    /\ WF_vars(FlushSome)
    /\ WF_vars(writer = "closing" /\ ShutdownSome)
    /\ WF_vars(ReadSome)

Spec == Init /\ [][Next]_vars
FairSpec == Spec /\ Fairness
-----------------------------------------------------------------------------
Frame == [start : Nat, off : Nat, size : 1..MaxPacket, pad : 0..PadMax,
          enc : BOOLEAN, nonce : Nat]

TypeOK ==
    /\ frames \in Seq(Frame)
    /\ wired \in Nat /\ written \in 0..MaxBytes /\ write_nonce \in Nat
    /\ write_buffer \in Seq(Nat) /\ write_pos \in 0..Len(write_buffer)
    /\ writer \in {"open", "closing", "closed", "dead"}
    /\ pipe \in Seq(Nat) /\ Len(pipe) <= PipeCap /\ fin \in BOOLEAN
    /\ read_state \in [at : {"Header", "Padding", "Data", "Ready"},
                       pad : 0..PadMax, size : 0..MaxPacket, pos : Nat]
    /\ read_buffer \in Seq(Nat) /\ readed \in Nat /\ read_nonce \in Nat
    /\ decoded \in Nat /\ delivered \in Seq(Nat)
    /\ reader \in {"reading", "eof", "short", "invalid"}

(* The reader's caller gets the bytes the writer's caller wrote, in order, *)
(* none missing in between, none twice, none changed: however poll_write,  *)
(* poll_flush and poll_read were cut short.                                *)
DeliveredInOrder ==
    delivered = Run(0, Len(delivered)) /\ Len(delivered) <= written

(* Between two streams with the same settings decrypt never fails: limit,  *)
(* nonce and frame boundaries are the same at the two ends of the wire.    *)
NeverInvalid == reader # "invalid"

(* No nonce seals two parts under the key, a header and the data after it  *)
(* included; the gap left for the padding does not bring one back.         *)
NonceFresh ==
    LET Used == {k \in DOMAIN frames : frames[k].enc}
        Header(k) == frames[k].nonce
        Data(k) == AfterHeader(frames[k].nonce, TRUE, frames[k].pad)
    IN  /\ \A k \in Used : Header(k) # Data(k) /\ Data(k) < write_nonce
        /\ \A j, k \in Used : j # k => {Header(j), Data(j)} \cap {Header(k), Data(k)} = {}

(* However the stream ends, the caller was given whole frames: no part of  *)
(* a poll_write whose frame did not arrive whole.                          *)
EndsAtFrame ==
    reader \in {"eof", "short"} =>
        \/ Len(delivered) = written
        \/ \E k \in DOMAIN frames : Len(delivered) = frames[k].off

(* After a shutdown that succeeded, end of stream is clean and comes after *)
(* everything that was written, a frame held back by Pending included.     *)
GracefulEnd ==
    writer = "closed" =>
        /\ reader # "short"
        /\ reader = "eof" => Len(delivered) = written

(* A shutdown that began is seen by the reader as a clean end of stream.   *)
ShutdownSeen == (writer = "closing") ~> (reader = "eof" \/ writer = "dead")

(* The stream, as its callers see it.                                      *)
Bytes == INSTANCE ByteStream WITH
            accepted <- written,
            writer <- IF writer = "closing" THEN "open" ELSE writer

(* The framing, encryption and padding are invisible: what the two callers *)
(* observe is a reliable stream of bytes.                                  *)
IsByteStream == Bytes!FairSpec
=============================================================================
